----------------------------- MODULE PlexPlayer -----------------------------
(***************************************************************************)
(* The Plex player backend (app/output/plexplayer.py): a remote player     *)
(* that is given a play queue per dispatch and is then only read.  The     *)
(* timeline poll adopts the new queue, attributes what the player moves    *)
(* to, corrects what it should not play, yields to a foreign controller    *)
(* and ends the track.  The next track is appended to the server's queue;  *)
(* the player sees it when it refreshes its copy.                          *)
(*                                                                         *)
(* A dispatch has a number, its play_gen, which also names its queue and   *)
(* the command the player acknowledges.  Each action is the code between   *)
(* two suspensions.                                                        *)
(***************************************************************************)
EXTENDS Naturals, Sequences, Functions

CONSTANTS
    Tracks, None,
    MaxPlays,     \* bound: dispatches
    MaxPresses,   \* bound: queue edits, pauses, resumes, stops
    MaxMishaps    \* bound: hangs, refusals, lost links, foreign controllers

VARIABLES
    player,   \* the remote player and its copy of the queue
    pms,      \* the server's current queue: the items played, those behind them
    plex,     \* _PlayerSession and _is_playing
    poll,     \* _poll_timeline: where it is suspended and the timeline it works on
    arm,      \* an arm under way, for the orchestrator or for the poll
    undo,     \* where revoke_next is suspended
    queue,    \* the orchestrator: the next track, the armed slot
    call,     \* where play() is suspended
    press,    \* the transport call under way
    dog,      \* the watchdog task
    told,     \* per dispatch: ends reported; whether it was confirmed
    truth,    \* of the model: what really ended
    used      \* presses and mishaps so far

plexVars == <<player, pms, plex, poll, arm, undo, queue, call, press, dog, told, truth, used>>

Plays == 1 .. MaxPlays
Foreign == MaxPlays + 1
ForeignItem == 100
Maybe == Tracks \cup {None}
NoDog == [pc |-> "none", play |-> 0]
NoArm == [pc |-> "none", by |-> "none", track |-> None, gen |-> 0, epoch |-> 0, item |-> 0,
          window |-> <<>>]
NoLine == [queue |-> 0, item |-> 0, st |-> "stopped", cmd |-> 0]

PlexInit ==
    /\ player = [queue |-> 0, item |-> 0, copy |-> <<>>, st |-> "stopped", cmd |-> 0,
                 up |-> TRUE]
    /\ pms = [past |-> <<>>, items |-> <<>>, last |-> 0]
    /\ plex = [on |-> FALSE, gen |-> 0, token |-> FALSE, selfStopped |-> FALSE,
               awaiting |-> FALSE, qid |-> 0, owned |-> {}, pending |-> None,
               armed |-> 0, stale |-> 0, epoch |-> 0, item |-> 0, window |-> <<>>,
               foreign |-> 0, refused |-> FALSE]
    /\ poll = [pc |-> "none", ended |-> 0, line |-> NoLine]
    /\ arm = NoArm /\ undo = "none"
    /\ queue = [nxt |-> None, slot |-> None]
    /\ call = "none" /\ press = "none" /\ dog = NoDog
    /\ told = [ended |-> [n \in Plays |-> 0], heard |-> [n \in Plays |-> 0]]
    /\ truth = [gone |-> {}, foreign |-> FALSE, yielded |-> FALSE, crossed |-> {}]
    /\ used = [presses |-> 0, mishaps |-> 0]

Mishap == used.mishaps < MaxMishaps /\ used' = [used EXCEPT !.mishaps = @ + 1]
Pressed == used.presses < MaxPresses /\ used' = [used EXCEPT !.presses = @ + 1]
Ended(t) == [t EXCEPT !.ended[plex.gen] = @ + 1]
Gone(t) == [t EXCEPT !.gone = @ \cup {player.queue}]

-----------------------------------------------------------------------------
(* The player and the server's queue *)

\* The player takes up the queue it was told to create.
PlayerLoads ==
    /\ player.up /\ player.cmd < plex.gen /\ call = "none" /\ plex.awaiting
    /\ player' = [player EXCEPT !.queue = plex.gen, !.cmd = plex.gen, !.copy = <<>>,
                                !.item = pms.last, !.st = "playing"]
    /\ UNCHANGED <<pms, plex, poll, arm, undo, queue, call, press, dog, told, truth, used>>

\* At the end of its item the player chains by its own copy.
PlayerEnds ==
    /\ player.st = "playing" /\ player.queue \in Plays
    /\ IF player.copy = <<>>
       THEN /\ player' = [player EXCEPT !.st = "stopped"]
            /\ truth' = Gone(truth)
            /\ UNCHANGED pms
       ELSE LET i == Head(player.copy)
            IN /\ player' = [player EXCEPT !.item = i, !.copy = Tail(@)]
               /\ pms' = IF i \in Range(pms.items)
                         THEN [pms EXCEPT !.past = Append(@, i),
                                          !.items = SelectSeq(@, LAMBDA j : j # i)]
                         ELSE pms
               /\ truth' = truth
    /\ UNCHANGED <<plex, poll, arm, undo, queue, call, press, dog, told, used>>

\* It goes silent, its link is lost, or another controller takes it.
PlayerFails ==
    /\ player.st = "playing" /\ Mishap
    /\ \/ player' = [player EXCEPT !.st = "hung"] /\ truth' = Gone(truth)
       \/ player' = [player EXCEPT !.up = FALSE] /\ truth' = [truth EXCEPT !.gone = @ \cup Plays]
       \/ /\ player' = [player EXCEPT !.queue = Foreign, !.copy = <<>>,
                                      !.item = ForeignItem]
          /\ truth' = [Gone(truth) EXCEPT !.foreign = TRUE]
    /\ UNCHANGED <<pms, plex, poll, arm, undo, queue, call, press, dog, told>>

PlayerBack ==
    /\ ~player.up /\ poll.pc = "none"
    /\ player' = [player EXCEPT !.up = TRUE]
    /\ UNCHANGED <<pms, plex, poll, arm, undo, queue, call, press, dog, told, truth, used>>

Refreshed == [player EXCEPT !.copy = IF player.queue = plex.gen THEN pms.items ELSE @]

-----------------------------------------------------------------------------
(* Arming *)

\* _discard_arm
Discard(s) == [s EXCEPT !.epoch = (@ + 1) % 3, !.pending = None, !.armed = 0, !.stale = 0,
                        !.window = <<>>]

\* arm_next before its first await: generation and epoch are captured.
ArmStarts ==
    /\ arm.pc = "none" /\ undo = "none" /\ call = "none"
    /\ queue.slot = None /\ queue.nxt # None
    /\ plex.on /\ ~plex.refused
    /\ arm' = [NoArm EXCEPT !.pc = "resolve", !.by = "host", !.track = queue.nxt,
                            !.gen = plex.gen, !.epoch = plex.epoch]
    /\ UNCHANGED <<player, pms, plex, poll, undo, queue, call, press, dog, told, truth, used>>

\* The orchestrator records the arm whatever came of it; the poll goes on.
ArmReturns ==
    /\ arm' = NoArm
    /\ IF arm.by = "host"
       THEN queue' = [queue EXCEPT !.slot = arm.track] /\ poll' = poll
       ELSE queue' = queue /\ poll' = IF poll.pc = "deliver" THEN [poll EXCEPT !.pc = "observe"] ELSE poll

Superseded == plex.gen # arm.gen
Raced == plex.epoch # arm.epoch

\* The rating key is known; before the queue is adopted the arm waits.
ArmResolves ==
    /\ arm.pc = "resolve"
    /\ IF Superseded \/ Raced
       THEN ArmReturns /\ plex' = plex
       ELSE IF plex.qid = 0 \/ plex.awaiting
       THEN ArmReturns /\ plex' = [plex EXCEPT !.pending = arm.track]
       ELSE /\ arm' = [arm EXCEPT !.pc = "append"]
            /\ plex' = [plex EXCEPT !.pending = None]
            /\ UNCHANGED <<queue, poll>>
    /\ UNCHANGED <<player, pms, undo, call, press, dog, told, truth, used>>

\* The server appends behind the current item, or refuses for good.
ArmAppends ==
    /\ arm.pc = "append"
    /\ \/ /\ Superseded \/ ~plex.on
          /\ ArmReturns /\ UNCHANGED <<pms, plex, used>>
       \/ /\ ~Superseded /\ plex.on
          /\ pms' = [pms EXCEPT !.items = <<pms.last + 1>> \o @, !.last = @ + 1]
          /\ arm' = [arm EXCEPT !.pc = "appended", !.item = pms'.last,
                                !.window = pms'.past \o pms'.items]
          /\ UNCHANGED <<plex, used, queue, poll>>
       \/ /\ ~Superseded /\ plex.on /\ Mishap
          /\ plex' = [plex EXCEPT !.refused = TRUE]
          /\ ArmReturns /\ UNCHANGED pms
    /\ UNCHANGED <<player, undo, call, press, dog, told, truth>>

\* The answer: a revoke that raced the append turns it into a stale item.
ArmAppended ==
    /\ arm.pc = "appended"
    /\ IF Superseded \/ ~plex.on
       THEN ArmReturns /\ plex' = plex
       ELSE /\ UNCHANGED <<queue, poll>>
            /\ IF Raced
               THEN plex' = [plex EXCEPT !.stale = arm.item] /\ arm' = [arm EXCEPT !.pc = "abandon"]
               ELSE plex' = plex /\ arm' = [arm EXCEPT !.pc = "refresh"]
    /\ UNCHANGED <<player, pms, undo, call, press, dog, told, truth, used>>

\* The player refreshed (or was asked in vain); only now is it armed.  The
\* generation and the epoch are not looked at again.
ArmRefreshed ==
    /\ arm.pc = "refresh"
    /\ \/ player' = Refreshed /\ UNCHANGED used
       \/ Mishap /\ player' = player
    /\ plex' = [plex EXCEPT !.armed = arm.item, !.stale = 0, !.window = arm.window]
    /\ truth' = IF Superseded \/ Raced THEN [truth EXCEPT !.crossed = @ \cup {plex.gen}] ELSE truth
    /\ ArmReturns
    /\ UNCHANGED <<pms, undo, call, press, dog, told>>

\* The server deletes the item and the player refreshes; or the server
\* refuses, or the player was asked in vain.
Without(q, id) == SelectSeq(q, LAMBDA i : i # id)
Deletes(id) ==
    LET less == [pms EXCEPT !.past = Without(@, id), !.items = Without(@, id)]
    IN \/ /\ pms' = less /\ UNCHANGED used
          /\ player' = [player EXCEPT !.copy = IF player.queue = plex.gen THEN less.items ELSE @]
       \/ Mishap /\ pms' = pms /\ player' = Refreshed
       \/ Mishap /\ pms' = less /\ player' = player

ArmAbandons ==
    /\ arm.pc = "abandon"
    /\ Deletes(arm.item)
    /\ ArmReturns
    /\ UNCHANGED <<plex, undo, call, press, dog, told, truth>>

\* revoke_next on a queue change: the delivered item goes on the stale watch
\* before the server is asked to delete it.
Revokes ==
    /\ arm.pc = "none" /\ undo = "none" /\ call = "none"
    /\ queue.slot # None /\ queue.slot # queue.nxt
    /\ queue' = [queue EXCEPT !.slot = None]
    /\ plex' = IF plex.armed = 0
               THEN [plex EXCEPT !.epoch = (@ + 1) % 3, !.pending = None]
               ELSE [Discard(plex) EXCEPT !.stale = plex.armed]
    /\ undo' = IF plex.armed = 0 THEN "none" ELSE "delete"
    /\ UNCHANGED <<player, pms, poll, arm, call, press, dog, told, truth, used>>

RevokeDeletes ==
    /\ undo = "delete"
    /\ undo' = "none"
    /\ Deletes(plex.stale)
    /\ UNCHANGED <<plex, poll, arm, queue, call, press, dog, told, truth>>

-----------------------------------------------------------------------------
(* _poll_timeline *)

Line == [queue |-> IF player.st = "stopped" THEN 0 ELSE player.queue, item |-> player.item,
         st |-> player.st, cmd |-> player.cmd]

StaleEcho(l) == l.cmd < plex.gen

\* _adopt_queue_evidence: the first queue reported under the new command.
Adopted(s, l) ==
    IF l.queue # 0 /\ l.queue # s.qid /\ s.awaiting /\ ~StaleEcho(l)
    THEN [s EXCEPT !.qid = l.queue, !.owned = {l.queue} \cup ({s.qid} \ {0}),
                   !.awaiting = FALSE, !.item = 0]
    ELSE s

\* Three failing reads in a row are an outage.
PollFails ==
    /\ poll.pc = "sleep" /\ ~player.up
    /\ plex' = [plex EXCEPT !.on = FALSE]
    /\ poll' = [poll EXCEPT !.pc = "none"]
    /\ told' = Ended(told)
    /\ UNCHANGED <<player, pms, arm, undo, queue, call, press, dog, truth, used>>

PollReads ==
    /\ poll.pc = "sleep" /\ player.up
    /\ LET s == Adopted(plex, Line)
       IN IF s.pending # None /\ s.qid # 0 /\ ~s.awaiting /\ arm.pc = "none"
          THEN /\ plex' = [s EXCEPT !.pending = None]
               /\ arm' = [NoArm EXCEPT !.pc = "append", !.by = "poll", !.track = s.pending,
                                       !.gen = s.gen, !.epoch = s.epoch]
               /\ poll' = [poll EXCEPT !.pc = "deliver", !.line = Line]
          ELSE /\ plex' = s /\ arm' = arm
               /\ poll' = [poll EXCEPT !.pc = "observe", !.line = Line]
    /\ UNCHANGED <<player, pms, undo, queue, call, press, dog, told, truth, used>>

\* _observe_queue: what the timeline says of the queue.
Blind(l) == l.queue = 0 \/ ~plex.on \/ plex.selfStopped \/ StaleEcho(l)
Intruder(l) == ~Blind(l) /\ l.queue \notin plex.owned
                 /\ ~plex.token /\ ~plex.awaiting
Moved(l) == /\ ~Blind(l) /\ l.queue \in plex.owned /\ l.queue = plex.qid
            /\ plex.item \notin {0, l.item}
\* The window orders the items an arm found in the queue: a move on within it
\* is taken for the player's own, a move back for an old reading.
Ordered(l) == {l.item, plex.item} \subseteq Range(plex.window)
Ahead(l) == \E i, j \in DOMAIN plex.window :
              i < j /\ plex.window[i] = plex.item /\ plex.window[j] = l.item
Boundary(l) == Moved(l) /\ l.item # plex.stale
                 /\ (l.item = plex.armed \/ (Ordered(l) /\ Ahead(l)))
Wrong(l) == Moved(l) /\ (l.item = plex.stale
                           \/ (plex.armed # 0 /\ l.item # plex.armed /\ ~Ordered(l)))

\* The second foreign read yields: the hold is entered, nothing is stopped.
PollYields ==
    /\ poll.pc = "observe" /\ Intruder(poll.line)
    /\ IF plex.foreign = 0
       THEN /\ plex' = [plex EXCEPT !.foreign = 1] /\ poll' = [poll EXCEPT !.pc = "sleep"]
            /\ UNCHANGED <<dog, truth>>
       ELSE /\ plex' = [Discard(plex) EXCEPT !.on = FALSE]
            /\ poll' = [poll EXCEPT !.pc = "none"]
            /\ dog' = NoDog /\ truth' = [truth EXCEPT !.yielded = TRUE]
    /\ UNCHANGED <<player, pms, arm, undo, queue, call, press, told, used>>

\* The player moved to the armed item, or past it (_reconcile_forward): the
\* queue advances without a dispatch, as far as it goes.
PollCrosses ==
    /\ poll.pc = "observe" /\ Boundary(poll.line)
    /\ plex' = [Discard(plex) EXCEPT !.item = poll.line.item, !.foreign = 0]
    /\ dog' = [pc |-> "sleep", play |-> plex.gen]
    /\ queue' = [queue EXCEPT !.nxt = None]
    /\ poll' = [poll EXCEPT !.pc = "sleep", !.ended = 0]
    /\ UNCHANGED <<player, pms, arm, undo, call, press, told, truth, used>>

\* A revoked item, or one that was never armed: stop it and advance.
PollCorrects ==
    /\ poll.pc = "observe" /\ Wrong(poll.line)
    /\ plex' = Discard(plex)
    /\ poll' = [poll EXCEPT !.pc = "correct"]
    /\ UNCHANGED <<player, pms, arm, undo, queue, call, press, dog, told, truth, used>>

PollCorrected ==
    /\ poll.pc = "correct"
    /\ player' = [player EXCEPT !.st = IF player.queue = plex.gen THEN "stopped" ELSE @]
    /\ truth' = [truth EXCEPT !.gone = @ \cup {plex.gen}]
    /\ plex' = [plex EXCEPT !.on = FALSE] /\ dog' = NoDog
    /\ poll' = [poll EXCEPT !.pc = "advance"]
    /\ UNCHANGED <<pms, arm, undo, queue, call, press, told, used>>

\* An ordinary pass.  Its state confirms the start, revives a play another
\* controller resumed, or counts towards the end.
Terminal(l) == l.st = "stopped"
PollPasses ==
    LET l == poll.line
        first == ~Blind(l) /\ l.queue = plex.qid /\ plex.item = 0
        seen == [plex EXCEPT !.foreign = IF ~Blind(l) /\ l.queue \in plex.owned THEN 0 ELSE @,
                             !.item = IF first THEN l.item ELSE @]
        confirms == l.st = "playing" /\ plex.token /\ ~plex.awaiting
        revives == l.st = "playing" /\ ~plex.on /\ ~plex.selfStopped /\ ~StaleEcho(l)
                     /\ l.queue \in plex.owned
    IN /\ poll.pc = "observe"
       /\ ~Intruder(l) /\ ~Boundary(l) /\ ~Wrong(l)
       /\ plex' = [seen EXCEPT !.token = @ /\ ~confirms, !.on = @ \/ revives]
       /\ told' = IF confirms THEN [told EXCEPT !.heard[plex.gen] = @ + 1] ELSE told
       /\ dog' = IF revives THEN [pc |-> "sleep", play |-> plex.gen] ELSE dog
       /\ \/ /\ Terminal(l) /\ plex.selfStopped
             /\ poll' = [poll EXCEPT !.pc = "none"]
          \/ /\ Terminal(l) /\ ~plex.selfStopped /\ ~plex.token /\ plex.on
             /\ poll' = IF poll.ended = 1 THEN [poll EXCEPT !.pc = "end"]
                        ELSE [poll EXCEPT !.pc = "sleep", !.ended = 1]
          \/ /\ Terminal(l) /\ ~plex.selfStopped /\ (plex.token \/ ~plex.on)
             /\ poll' = [poll EXCEPT !.pc = "sleep"]
          \/ /\ ~Terminal(l)
             /\ poll' = [poll EXCEPT !.pc = "sleep", !.ended = 0]
       /\ truth' = IF revives /\ player.st # "playing" THEN [truth EXCEPT !.crossed = @ \cup {plex.gen}]
                   ELSE truth
       /\ UNCHANGED <<player, pms, arm, undo, queue, call, press, used>>

\* _eos_advance
PollEnds ==
    /\ poll.pc = "end"
    /\ plex' = [(IF plex.armed # 0 \/ plex.pending # None THEN Discard(plex) ELSE plex)
                  EXCEPT !.on = FALSE]
    /\ dog' = NoDog
    /\ poll' = [poll EXCEPT !.pc = "advance"]
    /\ UNCHANGED <<player, pms, arm, undo, queue, call, press, told, truth, used>>

PollAdvances ==
    /\ poll.pc = "advance"
    /\ poll' = [poll EXCEPT !.pc = "none"]
    /\ told' = Ended(told)
    /\ UNCHANGED <<player, pms, plex, arm, undo, queue, call, press, dog, truth, used>>

\* _watchdog, as for Cast.
Mine == dog.play = plex.gen /\ plex.on
Silent(n) == ~(player.st = "playing" /\ player.queue = n) /\ ~plex.awaiting
DogWakes ==
    /\ dog.pc = "sleep" /\ Silent(dog.play)
    /\ dog' = IF Mine /\ ~plex.selfStopped THEN [dog EXCEPT !.pc = "probe"] ELSE NoDog
    /\ UNCHANGED <<player, pms, plex, poll, arm, undo, queue, call, press, told, truth, used>>

DogProbed ==
    /\ dog.pc = "probe"
    /\ dog' = NoDog
    /\ IF Mine
       THEN /\ plex' = IF player.up THEN [Discard(plex) EXCEPT !.on = FALSE]
                       ELSE [plex EXCEPT !.on = FALSE]
            /\ poll' = [poll EXCEPT !.pc = "none"]
            /\ told' = Ended(told)
       ELSE UNCHANGED <<plex, poll, told>>
    /\ UNCHANGED <<player, pms, arm, undo, queue, call, press, truth, used>>

-----------------------------------------------------------------------------
(* play and the transport *)

\* play() up to the resolving of holder and server.
PlayStarts ==
    /\ call = "none" /\ plex.gen < MaxPlays /\ poll.pc # "advance"
    /\ call' = "create"
    /\ plex' = [Discard(plex) EXCEPT !.gen = @ + 1, !.selfStopped = FALSE, !.foreign = 0,
                                     !.item = 0, !.token = TRUE]
    /\ poll' = [pc |-> "none", ended |-> 0, line |-> NoLine]
    /\ dog' = NoDog
    /\ \E n \in Maybe : queue' = [queue EXCEPT !.nxt = n]
    /\ UNCHANGED <<player, pms, arm, undo, press, told, truth, used>>

\* createPlayQueue was accepted, or the dispatch fails.
PlayReturns ==
    /\ call = "create" /\ call' = "none"
    /\ \/ /\ player.up
          /\ plex' = [plex EXCEPT !.awaiting = TRUE, !.on = TRUE]
          /\ pms' = [past |-> <<pms.last + 1>>, items |-> <<>>, last |-> pms.last + 1]
          /\ poll' = [pc |-> "sleep", ended |-> 0, line |-> NoLine]
          /\ dog' = [pc |-> "sleep", play |-> plex.gen]
          /\ UNCHANGED <<truth, used>>
       \/ /\ IF player.up THEN Mishap ELSE used' = used
          /\ truth' = [truth EXCEPT !.gone = @ \cup {plex.gen}]
          /\ UNCHANGED <<plex, pms, poll, dog>>
    /\ UNCHANGED <<player, arm, undo, queue, press, told>>

EditsQueue ==
    /\ plex.gen > 0 /\ Pressed
    /\ \E n \in Maybe \ {queue.nxt} : queue' = [queue EXCEPT !.nxt = n]
    /\ UNCHANGED <<player, pms, plex, poll, arm, undo, call, press, dog, told, truth>>

Presses(p) ==
    /\ press = "none" /\ plex.gen > 0 /\ player.up /\ Pressed
    /\ press' = p
    /\ IF p = "stop"
       THEN /\ plex' = [plex EXCEPT !.on = FALSE, !.selfStopped = TRUE]
            /\ poll' = [poll EXCEPT !.pc = "none"] /\ dog' = NoDog
       ELSE UNCHANGED <<plex, poll, dog>>
    /\ UNCHANGED <<player, pms, arm, undo, queue, call, told, truth>>

PressDone ==
    /\ press # "none" /\ press' = "none"
    /\ \/ press # "stop" /\ ~player.up /\ UNCHANGED <<player, plex, truth>>
       \/ /\ press = "pause" /\ player.up
          /\ player' = [player EXCEPT !.st = IF @ = "playing" THEN "paused" ELSE @]
          /\ plex' = [plex EXCEPT !.on = FALSE] /\ truth' = truth
       \/ /\ press = "resume" /\ player.up
          /\ player' = [player EXCEPT !.st = IF @ = "paused" THEN "playing" ELSE @]
          /\ plex' = [plex EXCEPT !.on = TRUE]
          /\ truth' = IF told.ended[plex.gen] > 0 \/ poll.pc \in {"correct", "end", "advance"}
                      THEN [truth EXCEPT !.crossed = @ \cup {plex.gen}] ELSE truth
       \/ /\ press = "stop"
          /\ player' = [player EXCEPT !.st = "stopped"]
          /\ plex' = plex /\ truth' = Gone(truth)
    /\ UNCHANGED <<pms, poll, arm, undo, queue, call, dog, told, used>>

Player == PlayerLoads \/ PlayerEnds \/ PlayerFails \/ PlayerBack
Arms == ArmStarts \/ ArmResolves \/ ArmAppends \/ ArmAppended \/ ArmRefreshed \/ ArmAbandons
          \/ Revokes \/ RevokeDeletes
Polls == PollFails \/ PollReads \/ PollYields \/ PollCrosses \/ PollCorrects \/ PollCorrected
           \/ PollPasses \/ PollEnds \/ PollAdvances
Host == EditsQueue \/ PressDone \/ (\E p \in {"pause", "resume", "stop"} : Presses(p))
PlexNext == Player \/ Arms \/ Polls \/ DogWakes \/ DogProbed \/ PlayStarts \/ PlayReturns \/ Host

PlexFair == /\ WF_plexVars(Polls) /\ WF_plexVars(DogWakes \/ DogProbed)
            /\ WF_plexVars(Arms) /\ WF_plexVars(PlayReturns) /\ WF_plexVars(PressDone)
            /\ WF_plexVars(PlayerLoads)
PlexSpec == PlexInit /\ [][PlexNext]_plexVars /\ PlexFair

-----------------------------------------------------------------------------
PlexTypeOK ==
    /\ plex.gen \in 0 .. MaxPlays /\ plex.owned \subseteq Plays \cup {Foreign} /\ plex.pending \in Maybe
    /\ plex.qid \in 0 .. Foreign
    /\ poll.pc \in {"none", "sleep", "deliver", "observe", "correct", "end", "advance"}
    /\ \A n \in Plays : told.heard[n] <= 1

\* A dispatch the player plays is not ended by what came before it: by the old
\* queue's timeline, its own watchdog of an earlier play, or a stop it sent.
PlexHealthyKept ==
    /\ \A n \in Plays : told.ended[n] > 0 => n \in truth.gone \cup truth.crossed
    /\ truth.yielded => truth.foreign

\* A dispatch is ended once.
PlexEndsOnce == \A n \in Plays \ truth.crossed : told.ended[n] <= 1

-----------------------------------------------------------------------------
(* Why it is: the inductive invariant of the proofs in PlayersProofs. *)

PlexShape ==
    /\ DOMAIN told = {"ended", "heard"} /\ told.ended \in [Plays -> Nat]
    /\ DOMAIN poll = {"pc", "ended", "line"} /\ DOMAIN dog = {"pc", "play"}
    /\ DOMAIN truth = {"gone", "foreign", "yielded", "crossed"}
    /\ DOMAIN plex = {"on", "gen", "token", "selfStopped", "awaiting", "qid", "owned", "pending",
                      "armed", "stale", "epoch", "item", "window", "foreign", "refused"}
    /\ plex.gen \in 0 .. MaxPlays
    /\ \A n \in Plays : n > plex.gen => told.ended[n] = 0

\* While the queue is created nobody is there to end the dispatch.
PlexCreating ==
    call = "create" =>
      poll.pc = "none" /\ dog.pc = "none" /\ plex.gen \in Plays /\ told.ended[plex.gen] = 0

\* Once the dispatch is ended the poll is gone and the watchdog finds it off.
PlexOver ==
    plex.gen \in Plays \ truth.crossed =>
      /\ told.ended[plex.gen] > 0 => poll.pc = "none" /\ ~plex.on
      /\ poll.pc = "advance" => ~plex.on

PlexInv == PlexShape /\ PlexCreating /\ PlexOver /\ PlexEndsOnce

\* A player that took up the dispatch plays its queue until it is gone or taken.
Lost == plex.gen \in truth.gone \cup truth.crossed
Taken == player.cmd = plex.gen /\ plex.gen \in Plays
Active == poll.pc # "none" \/ dog.pc # "none"
PlayerFollows ==
    /\ DOMAIN player = {"queue", "item", "copy", "st", "cmd", "up"}
    /\ player.cmd \in 0 .. plex.gen /\ player.st \in {"stopped", "playing", "paused", "hung"}
    /\ player.queue = Foreign => truth.foreign
    /\ ~player.up => Plays \subseteq truth.gone
    /\ Taken => /\ player.queue # plex.gen => player.queue = Foreign /\ plex.gen \in truth.gone
                /\ player.st \in {"stopped", "hung"} => plex.gen \in truth.gone
                /\ player.st = "paused" /\ plex.on => Lost

\* The queue is adopted, and the token lowered, by what the player reports of it.
QueueTaken ==
    /\ Active => plex.gen \in Plays
    /\ Active /\ ~plex.awaiting => Taken /\ (plex.gen \in plex.owned \/ truth.foreign)
    /\ ~plex.token => ~plex.awaiting
    /\ call = "create" => plex.token /\ player.cmd < plex.gen

\* The timeline the poll works on may be old, but is never of an older dispatch.
LineTells ==
    poll.pc \in {"deliver", "observe"} =>
      /\ poll.line.cmd = plex.gen /\ poll.line.queue # 0 => poll.line.queue = plex.gen \/ truth.foreign
      /\ poll.line.cmd \in 0 .. plex.gen
      /\ poll.line.st = "stopped" /\ ~plex.token => plex.gen \in truth.gone

\* Whatever is about to end the dispatch has seen it end.
EndsMeant == poll.pc \in {"end", "advance"} \/ dog.pc = "probe" => Lost

PlexHealthInv == PlayerFollows /\ QueueTaken /\ LineTells /\ EndsMeant /\ PlexHealthyKept

-----------------------------------------------------------------------------
\* A dispatch the player fell silent on is ended by the poll or the watchdog.
PlexSilent(n) == plex.gen = n /\ plex.on /\ call = "none" /\ dog.play = n /\ Silent(n)
PlexSettled(n) == told.ended[n] > 0 \/ ~plex.on \/ plex.gen # n \/ plex.selfStopped
PlexSilenceOver == \A n \in Plays : PlexSilent(n) => PlexSettled(n)
PlexSilenceEnds == []<>PlexSilenceOver
=============================================================================
