------------------------------ MODULE PartyQueue ------------------------------
(***************************************************************************)
(* How a track gets from a guest's press to the loudspeaker when nothing   *)
(* is wrong with the output: the queue endpoints of app/api/guest.py and   *)
(* app/api/admin.py, the idle auto-start and the advance of app/state.py,  *)
(* the pick kept on deck for a random queue end, and Closing Time.         *)
(*                                                                         *)
(* Every endpoint is a coroutine: it reads the queue and the settings,     *)
(* awaits the library, and appends later.  The engine's lock covers one    *)
(* mutation; the "queue_changed" callback runs after the lock is released. *)
(* A pick carries the version of the settings it was drawn under.          *)
(***************************************************************************)
EXTENDS Integers, Sequences, FiniteSets

CONSTANTS Guests,    \* the requests that may be in flight together
          Tracks,    \* the tracks of the library
          PlexOnly,  \* those a Plex player can play
          Trigger,   \* the Closing Time track
          None,
          MaxFailures,   \* _MAX_CONSECUTIVE_FAILURES
          MaxAdds, MaxEdits, MaxSkips, MaxFills, MaxSwitches

VARIABLES queue,    \* QueueEngine._queue, the upcoming tracks
          play,     \* [cur, on, out]: _current, _is_playing, what the output plays
          adv,      \* the coroutine that holds _advance_lock: [pc, n, lock]
          start,    \* _auto_advance_pending and its task
          skip,     \* a press of Skip waiting for _advance_lock
          freeze,   \* _closing_active
          deck,     \* [slot, gen, basis]: _ondeck, _ondeck_gen
          warm,     \* _warm_ondeck: [pc, gen, basis]
          cfg,      \* the settings: [ver, random, saving, plex, moving]
          press,    \* the guests' requests
          used      \* what the bounds count
partyVars == <<queue, play, adv, start, skip, freeze, deck, warm, cfg, press, used>>

Idle == [pc |-> "idle", t |-> None, lock |-> FALSE]
Spend(k) == used' = [used EXCEPT ![k] = @ + 1]
Bound == [adds |-> MaxAdds, edits |-> MaxEdits, skips |-> MaxSkips,
          fills |-> MaxFills, switches |-> MaxSwitches]
May(k) == used[k] < Bound[k]

Held(t) == t \in {queue[i] : i \in DOMAIN queue} \cup {play.cur}   \* is_duplicate
Offered == Tracks \cup {None}       \* what a random draw comes back with
Playable(t) == cfg.plex => t \in PlexOnly                          \* _plex_playable_ids

PartyInit ==
    /\ queue = <<>> /\ skip = FALSE /\ start = "no" /\ freeze = FALSE
    /\ play = [cur |-> None, on |-> FALSE, out |-> None]
    /\ adv = [pc |-> "idle", n |-> 0, lock |-> FALSE]
    /\ deck = [slot |-> None, gen |-> 0, basis |-> 0]
    /\ warm = [pc |-> "idle", gen |-> 0, basis |-> 0]
    /\ cfg \in [ver : {0}, random : BOOLEAN, saving : {FALSE}, plex : {FALSE}, moving : {"no"}]
    /\ press = [g \in Guests |-> Idle]
    /\ used = [k \in DOMAIN Bound |-> 0]

(***************************************************************************)
(* The pick on deck.                                                       *)
(***************************************************************************)
DiscardsOnly == deck' = [deck EXCEPT !.slot = None, !.basis = 0]   \* mutant: the generation stays
Discard == deck' = [slot |-> None, gen |-> deck.gen + 1, basis |-> 0]   \* invalidate_ondeck

\* trigger_ondeck_warm, given the queue and the play state the event reports.
Warms(q, p) ==
    IF /\ warm.pc = "idle" /\ deck.slot = None
       /\ cfg.random /\ p.on /\ q = <<>> /\ May("fills")
    THEN /\ warm' = [pc |-> "select", gen |-> deck.gen, basis |-> 0]
         /\ Spend("fills")
    ELSE UNCHANGED <<warm, used>>

\* _ondeck_react("queue_changed").
Reacts == IF queue # <<>> THEN Discard /\ UNCHANGED <<warm, used>>
          ELSE Warms(queue, play) /\ UNCHANGED deck

ShouldStartFrozen == ~play.on /\ queue # <<>> /\ start = "no"    \* mutant
ShouldStart == ~play.on /\ queue # <<>> /\ start = "no" /\ ~freeze   \* _should_auto_start

\* _on_event("queue_changed"), after the broadcast.
Notices == Reacts /\ start' = IF ShouldStart THEN "queued" ELSE start

WarmReads ==      \* _select_auto_fill_track reads the settings it draws under
    /\ warm.pc = "select"
    /\ warm' = [warm EXCEPT !.pc = "install", !.basis = cfg.ver]
    /\ UNCHANGED <<queue, play, adv, start, skip, freeze, deck, cfg, press, used>>

Installs(t) == deck' = IF warm.gen = deck.gen /\ deck.slot = None
                       THEN [deck EXCEPT !.slot = t, !.basis = warm.basis] ELSE deck

\* _warm_ondeck: the draw ends with a track, or with none; the flag drops.
WarmEnds ==
    /\ warm.pc = "install"
    /\ \E t \in Offered : IF t # None THEN Installs(t) ELSE UNCHANGED deck
    /\ warm' = [pc |-> "idle", gen |-> 0, basis |-> 0]
    /\ UNCHANGED <<queue, play, adv, start, skip, freeze, cfg, press, used>>

(***************************************************************************)
(* The guests' and the admin's requests.                                   *)
(***************************************************************************)
\* append_to_queue: the source lock, then flood control, which rejects a
\* track that plays or waits.
Asks(g, t) ==
    /\ press[g].pc = "idle" /\ May("adds")
    /\ Playable(t) /\ ~Held(t)
    /\ press' = [press EXCEPT ![g] = [pc |-> "resolve", t |-> t, lock |-> FALSE]]
    /\ Spend("adds")
    /\ UNCHANGED <<queue, play, adv, start, skip, freeze, deck, warm, cfg>>

\* admin_append_to_queue: the same source lock, and nothing else.
AdminAsks(g, t) ==
    /\ press[g].pc = "idle" /\ May("adds") /\ Playable(t)
    /\ press' = [press EXCEPT ![g] = [pc |-> "resolve", t |-> t, lock |-> FALSE]]
    /\ Spend("adds")
    /\ UNCHANGED <<queue, play, adv, start, skip, freeze, deck, warm, cfg>>

\* surprise_me reads the lock before it draws, and looks once more for a
\* duplicate before it appends.
Surprises(g) ==
    /\ press[g].pc = "idle" /\ May("adds")
    /\ press' = [press EXCEPT ![g] = [pc |-> "draw", t |-> None, lock |-> cfg.plex]]
    /\ Spend("adds")
    /\ UNCHANGED <<queue, play, adv, start, skip, freeze, deck, warm, cfg>>

\* resolve_surprise: the smart sources offer what is neither queued nor out
\* of the locked output's reach; the random floor asks about the lock alone.
Acceptable(g, t) == ~Held(t) /\ (press[g].lock => t \in PlexOnly)
Picked(g, t) == press' = [press EXCEPT ![g].pc = "again", ![g].t = t]

DrawsSmart(g) ==
    /\ press[g].pc = "draw"
    /\ \E t \in Tracks : Acceptable(g, t) /\ Picked(g, t)
    /\ UNCHANGED <<queue, play, adv, start, skip, freeze, deck, warm, cfg, used>>

DrawsFloor(g) ==
    /\ press[g].pc = "draw"
    /\ \E t \in Offered :
         IF t # None THEN (press[g].lock => t \in PlexOnly) /\ Picked(g, t)
         ELSE press' = [press EXCEPT ![g] = Idle]
    /\ UNCHANGED <<queue, play, adv, start, skip, freeze, deck, warm, cfg, used>>

DropsRepeat(g) ==
    /\ press[g].pc = "again" /\ Held(press[g].t)
    /\ press' = [press EXCEPT ![g] = Idle]
    /\ UNCHANGED <<queue, play, adv, start, skip, freeze, deck, warm, cfg, used>>

EngineFree == adv.pc # "fill"      \* advance() draws under the engine's lock

\* q.append, once the track is resolved.
Appends(g) ==
    /\ EngineFree
    /\ \/ press[g].pc = "resolve"
       \/ press[g].pc = "again" /\ ~Held(press[g].t)
    /\ queue' = Append(queue, press[g].t)
    /\ press' = [press EXCEPT ![g].pc = "told"]
    /\ UNCHANGED <<play, adv, start, skip, freeze, deck, warm, cfg, used>>

Unknown(g) ==       \* the library no longer has the track: 404
    /\ press[g].pc = "resolve"
    /\ press' = [press EXCEPT ![g] = Idle]
    /\ UNCHANGED <<queue, play, adv, start, skip, freeze, deck, warm, cfg, used>>

Told(g) ==          \* the queue_changed of an append or a removal
    /\ press[g].pc = "told"
    /\ Notices
    /\ press' = [press EXCEPT ![g] = Idle]
    /\ UNCHANGED <<queue, play, adv, skip, freeze, cfg>>

\* undo_queue_append: a receipt takes the last entry of its track out.
Undoes(g) ==
    /\ press[g].pc = "idle" /\ queue # <<>> /\ EngineFree /\ May("edits")
    /\ queue' = SubSeq(queue, 1, Len(queue) - 1)
    /\ press' = [press EXCEPT ![g].pc = "told"]
    /\ Spend("edits")
    /\ UNCHANGED <<play, adv, start, skip, freeze, deck, warm, cfg>>

(***************************************************************************)
(* The advance: _trigger_auto_advance, _do_advance, Skip and the resume    *)
(* after a freeze.                                                         *)
(***************************************************************************)
Takes(pc) == adv' = [pc |-> pc, n |-> 0, lock |-> cfg.plex]

\* _do_advance finds _advance_lock free, or gives up at once.
Advances == IF adv.pc = "idle" /\ ~skip THEN Takes("read") ELSE UNCHANGED adv

\* The started task runs: _trigger_auto_advance.
AutoStarts ==
    /\ start = "queued"
    /\ IF ~play.on /\ queue # <<>> THEN Advances ELSE UNCHANGED adv
    /\ start' = IF adv' = adv THEN "no" ELSE "running"   \* until _do_advance returns
    /\ UNCHANGED <<queue, play, skip, freeze, deck, warm, cfg, press, used>>

\* The track ends by itself.  A task that is ready runs before a track ends.
TrackEnds ==
    /\ play.out # None /\ play.on /\ adv.pc = "idle" /\ start = "no"
    /\ play' = [play EXCEPT !.out = None]
    /\ Advances
    /\ UNCHANGED <<queue, start, skip, freeze, deck, warm, cfg, press, used>>

SkipPressed ==
    /\ ~skip /\ May("skips")
    /\ skip' = TRUE /\ Spend("skips")
    /\ UNCHANGED <<queue, play, adv, start, freeze, deck, warm, cfg, press>>

\* playback_skip inside the lock; clear_closing: the freeze is over.
SkipRuns ==
    /\ skip /\ adv.pc = "idle"
    /\ skip' = FALSE /\ freeze' = FALSE
    /\ play' = [play EXCEPT !.out = None]
    /\ Takes("pop")
    /\ UNCHANGED <<queue, start, deck, warm, cfg, press, used>>

Resumes ==        \* clear_closing_and_continue
    /\ freeze /\ adv.pc = "idle" /\ ~skip /\ May("skips")
    /\ freeze' = FALSE /\ Takes("read") /\ Spend("skips")
    /\ UNCHANGED <<queue, play, start, skip, deck, warm, cfg, press>>

\* The Closing Time check on the outgoing track, and _fire_closing: the
\* flag goes up before close_out tells anyone.
ChecksClosing ==
    /\ adv.pc = "read"
    /\ IF play.cur = Trigger
       THEN freeze' = TRUE /\ adv' = [adv EXCEPT !.pc = "close"]
       ELSE adv' = [adv EXCEPT !.pc = "pop"] /\ UNCHANGED freeze
    /\ UNCHANGED <<queue, play, start, skip, deck, warm, cfg, press, used>>

ClosesOut ==
    /\ adv.pc = "close"
    /\ play' = [cur |-> None, on |-> FALSE, out |-> None]
    /\ adv' = [adv EXCEPT !.pc = "closed"]
    /\ UNCHANGED <<queue, start, skip, freeze, deck, warm, cfg, press, used>>

ClosedTold ==
    /\ adv.pc = "closed"
    /\ Notices
    /\ adv' = [adv EXCEPT !.pc = "done"]
    /\ UNCHANGED <<queue, play, skip, freeze, cfg, press>>

Pops ==           \* QueueEngine.advance with something queued
    /\ adv.pc = "pop" /\ queue # <<>>
    /\ play' = [cur |-> Head(queue), on |-> TRUE, out |-> None]
    /\ queue' = Tail(queue)
    /\ adv' = [adv EXCEPT !.pc = "told"]
    /\ UNCHANGED <<start, skip, freeze, deck, warm, cfg, press, used>>

RunsOut ==        \* ... with an empty queue: the engine draws, or stops
    /\ adv.pc = "pop" /\ queue = <<>>
    /\ play' = [cur |-> None, on |-> FALSE, out |-> None]
    /\ adv' = [adv EXCEPT !.pc = IF cfg.random THEN "fill" ELSE "told", !.lock = cfg.plex]
    /\ UNCHANGED <<queue, start, skip, freeze, deck, warm, cfg, press, used>>

\* _auto_fill_provider: the pick on deck when it still suits the output,
\* otherwise a draw now, which may find nothing.
Fits(t) == adv.lock => t \in PlexOnly
Fills ==
    /\ adv.pc = "fill"
    /\ \E t \in Offered :
         /\ IF deck.slot # None /\ Fits(deck.slot) THEN t = deck.slot
            ELSE t # None => Fits(t)
         /\ play' = [cur |-> t, on |-> t # None, out |-> None]
    /\ IF deck.slot # None THEN Discard ELSE UNCHANGED deck
    /\ adv' = [adv EXCEPT !.pc = "told"]
    /\ UNCHANGED <<queue, start, skip, freeze, warm, cfg, press, used>>

AdvanceTold ==    \* queue_changed
    /\ adv.pc = "told"
    /\ Notices
    /\ adv' = [adv EXCEPT !.pc = "now"]
    /\ UNCHANGED <<queue, play, skip, freeze, cfg, press>>

NowPlaying ==     \* now_playing_changed
    /\ adv.pc = "now"
    /\ Warms(queue, play)
    /\ adv' = [adv EXCEPT !.pc = IF play.cur = None THEN "done" ELSE "dispatch"]
    /\ UNCHANGED <<queue, play, start, skip, freeze, deck, cfg, press>>

\* _play_with_fallback: it starts, or no holder has it and the loop goes on.
Dispatches ==
    /\ adv.pc = "dispatch"
    /\ \/ play' = [play EXCEPT !.out = play.cur] /\ adv' = [adv EXCEPT !.pc = "done"]
       \/ /\ adv' = [adv EXCEPT !.n = @ + 1, !.pc = IF adv.n + 1 < MaxFailures THEN "pop" ELSE "done"]
          /\ UNCHANGED play
    /\ UNCHANGED <<queue, start, skip, freeze, deck, warm, cfg, press, used>>

ReturnsFlagged ==     \* mutant: the flag is not dropped
    /\ adv.pc = "done"
    /\ adv' = [pc |-> "idle", n |-> 0, lock |-> FALSE]
    /\ UNCHANGED <<queue, play, start, skip, freeze, deck, warm, cfg, press, used>>
Returns ==
    /\ adv.pc = "done"
    /\ adv' = [pc |-> "idle", n |-> 0, lock |-> FALSE]
    /\ start' = IF start = "running" THEN "no" ELSE start
    /\ UNCHANGED <<queue, play, skip, freeze, deck, warm, cfg, press, used>>

(***************************************************************************)
(* The admin's settings and the output's source lock.                      *)
(***************************************************************************)
Saves ==          \* save_settings writes one input of the draw
    /\ ~cfg.saving /\ May("edits")
    /\ \E r \in BOOLEAN : cfg' = [cfg EXCEPT !.ver = @ + 1, !.random = r, !.saving = TRUE]
    /\ Spend("edits")
    /\ UNCHANGED <<queue, play, adv, start, skip, freeze, deck, warm, press>>

Saved ==          \* ... and discards the pick last
    /\ cfg.saving
    /\ cfg' = [cfg EXCEPT !.saving = FALSE]
    /\ Discard
    /\ UNCHANGED <<queue, play, adv, start, skip, freeze, warm, press, used>>

\* set_output_active, to a Plex player: the stranded entries go first; then
\* activate_backend connects; then the selection is stored.
SwitchAsked ==
    /\ ~cfg.plex /\ cfg.moving = "no" /\ EngineFree /\ May("switches")
    /\ queue' = SelectSeq(queue, LAMBDA t : t \in PlexOnly)
    /\ cfg' = [cfg EXCEPT !.moving = "told"]
    /\ Spend("switches")
    /\ UNCHANGED <<play, adv, start, skip, freeze, deck, warm, press>>

SwitchTold ==
    /\ cfg.moving = "told"
    /\ Notices
    /\ cfg' = [cfg EXCEPT !.moving = "attach"]
    /\ UNCHANGED <<queue, play, adv, skip, freeze, press>>

StartsAfterSwitch == ~play.on /\ queue # <<>> /\ start = "no"
SwitchLands ==    \* the end of activate_backend
    /\ cfg.moving = "attach"
    /\ cfg' = [cfg EXCEPT !.moving = "no", !.plex = TRUE]
    /\ start' = IF StartsAfterSwitch THEN "queued" ELSE start
    /\ UNCHANGED <<queue, play, adv, skip, freeze, deck, warm, press, used>>

PressSteps(g) == \/ DrawsSmart(g) \/ DrawsFloor(g) \/ DropsRepeat(g) \/ Appends(g) \/ Unknown(g) \/ Told(g)
AdvanceSteps == \/ ChecksClosing \/ ClosesOut \/ ClosedTold \/ Pops \/ RunsOut \/ Fills
                \/ AdvanceTold \/ NowPlaying \/ Dispatches \/ Returns
Tasks == AdvanceSteps \/ AutoStarts \/ SkipRuns \/ WarmReads \/ WarmEnds
         \/ Saved \/ SwitchTold \/ SwitchLands
PartyNext ==
    \/ \E g \in Guests : \/ \E t \in Tracks : Asks(g, t) \/ AdminAsks(g, t)
                         \/ Surprises(g) \/ Undoes(g) \/ PressSteps(g)
    \/ TrackEnds \/ SkipPressed \/ Resumes \/ Saves \/ SwitchAsked
    \/ Tasks
PartySpec == PartyInit /\ [][PartyNext]_partyVars

\* The event loop runs every ready coroutine, and a track that plays ends.
\* Only tracks that end and start anew go round in circles.
PartyEdits ==
    \/ WarmReads \/ WarmEnds \/ Saved \/ SwitchTold \/ SwitchLands
    \/ \E g \in Guests : PressSteps(g)
PartyPlays == AdvanceSteps \/ AutoStarts \/ SkipRuns \/ TrackEnds
PartyFair == WF_partyVars(PartyEdits) /\ WF_partyVars(PartyPlays)
PartyFairSpec == PartySpec /\ PartyFair

(***************************************************************************)
(* What should hold.                                                       *)
(***************************************************************************)
\* The state is of the shape the code keeps.
PartyTypeOK ==
    /\ queue \in Seq(Tracks) /\ Len(queue) <= MaxAdds
    /\ play \in [cur : Tracks \cup {None}, on : BOOLEAN, out : Tracks \cup {None}]
    /\ {skip, freeze} \subseteq BOOLEAN /\ start \in {"no", "queued", "running"}
    /\ deck.slot \in Tracks \cup {None} /\ warm.pc \in {"idle", "select", "install"}
    /\ \A g \in Guests : press[g].pc \in {"idle", "resolve", "draw", "again", "told"}

\* A pick waits on deck only when it was drawn under the settings of now
\* (or their save is about to discard it) and nobody's choice waits before
\* it (or the change is about to be told): invalidate_ondeck's generation
\* against every draw in flight.
PickIsFresh ==
    deck.slot # None =>
        /\ deck.basis = cfg.ver \/ cfg.saving
        /\ \/ queue = <<>> \/ \E g \in Guests : press[g].pc = "told"
           \/ adv.pc \in {"told", "closed"} \/ cfg.moving = "told"

\* While the Closing Time freeze stands, nothing plays (_should_auto_start:
\* a freeze must not be undone by restarting the next track).
FreezeHolds == freeze /\ adv.pc # "close" => play.cur = None /\ play.out = None

\* ... which is what happens as long as the output is not switched: an add,
\* an undo or a late advance never ends the freeze.
FreezeKeepsQuiet == used.switches = 0 => FreezeHolds

\* Every request is answered, every draw ends, and the auto-start re-arms.
PartyRests ==
    /\ \A g \in Guests : press[g].pc # "told"
    /\ warm.pc = "idle" /\ start = "no"
PartySettles == []<>PartyRests

=============================================================================
