--------------------------- MODULE PlaybackSession ---------------------------
(***************************************************************************)
(* The playback session: the queue engine, the confirmed-start supervisor, *)
(* the output hold and the tasks that drive them, on one event loop.       *)
(*                                                                         *)
(* Tasks serialise their queue moves and dispatches with _advance_lock     *)
(* (app/state.py), an asyncio lock that serves its waiters in order.  The  *)
(* supervisor's handlers and the outage classifier do not take it: they    *)
(* run whenever a lock holder is suspended, which it is while the engine's *)
(* events are delivered, while a backend's play() runs and while a probe   *)
(* is out.  Each step below is the code between two suspensions.           *)
(***************************************************************************)
EXTENDS QueueOps, FiniteSets

CONSTANTS
    Slots,        \* bound: tasks at a time
    MaxItems,     \* bound: items queued in a behaviour
    MaxToken,     \* bound: dispatches in a behaviour
    MaxSignals,   \* bound: outage reports and expired deadlines
    MaxPresses,   \* bound: Skip and Skip Back presses
    MaxFailures,  \* bound: failing play() calls
    SourceVanishes, \* TRUE: the last media source may be removed meanwhile
    DispatchGaps, \* TRUE: other tasks run between the pop of an item and its
                  \* dispatch: while its events are delivered (asyncio.gather
                  \* in QueueEngine._emit) or a failed holder's device probed
    EarlySignals  \* TRUE: a dispatch may be confirmed, reported or timed out
                  \* before its play() returned (Cast's status thread)

ASSUME SessionConstants ==
    /\ {MaxItems, MaxToken, MaxSignals, MaxPresses, MaxFailures} \subseteq Nat
    /\ {SourceVanishes, DispatchGaps, EarlySignals} \subseteq BOOLEAN

VARIABLES
    eng,      \* the queue engine, see QueueOps
    nextId,   \* identity of the next QueueItem
    gen,      \* _advance_gen
    owner,    \* the task that holds _advance_lock, or NoTask
    waitq,    \* tasks waiting for it, in order
    task,     \* what each task slot is doing
    hold,     \* _output_hold
    outage,   \* the open reconnect context, 0 for None
    outages,  \* contexts opened so far
    token,    \* _token: dispatches so far
    disp,     \* the dispatch records, by token
    cur,      \* the supervisor's _current, 0 for None
    retired,  \* its _retired, 0 for None
    sound,    \* the dispatch whose media the device is playing, 0 for none
    ended,    \* per item, how many of its plays came to an end
    used      \* consumption of the bounds

session == <<hold, outage, outages>>
supervisor == <<token, disp, cur, retired>>
lock == <<gen, owner, waitq>>
vars == <<eng, nextId, lock, task, session, supervisor, sound, ended, used>>

NoTask == 0
Items == 1 .. MaxItems
Tokens == 1 .. MaxToken
Item == [id : Items, rec : BOOLEAN]   \* identity, play_recorded

ASSUME NoTaskAssumption == NoTask \notin Slots
ASSUME NoItemAssumption == NoItem \notin Item

\* kind, where it is suspended, the generation it captured, the dispatch it
\* made or speaks for, the item it popped, the reconnect context it acts for.
Free == [kind |-> "free", pc |-> "free", gen |-> 0, tok |-> 0, id |-> 0, ot |-> 0]
Task == [kind : {"free", "advance", "skip", "previous", "resume", "outage", "timeout"},
         pc : {"free", "wait", "locked", "popped", "playing", "failed", "holding",
               "leaving", "stopping", "start", "probing", "notice"},
         gen : Nat, tok : 0 .. MaxToken, id : 0 .. MaxItems, ot : Nat]
Unissued == [id |-> 0, nth |-> 0, mark |-> FALSE, confirmed |-> FALSE]

Init ==
    /\ eng = [queue |-> <<>>, history |-> <<>>, current |-> NoItem,
              playing |-> FALSE, paused |-> FALSE]
    /\ nextId = 1
    /\ gen = 0 /\ owner = NoTask /\ waitq = <<>>
    /\ task = [s \in Slots |-> Free]
    /\ hold = FALSE /\ outage = 0 /\ outages = 0
    /\ token = 0 /\ disp = [t \in Tokens |-> Unissued] /\ cur = 0 /\ retired = 0
    /\ sound = 0
    /\ ended = [i \in Items |-> 0]
    /\ used = [signals |-> 0, presses |-> 0, failures |-> 0]

-----------------------------------------------------------------------------
(* The engine's items *)

Lists == eng.queue \o eng.history
           \o (IF eng.current = NoItem THEN <<>> ELSE <<eng.current>>)
Object(id) == LET i == CHOOSE i \in DOMAIN Lists : Lists[i].id = id IN Lists[i]
CurrentId(e) == IF e.current = NoItem THEN 0 ELSE e.current.id

\* item.play_recorded = False, on the object wherever it is.
ClearMark(e, id) ==
    LET clear(x) == IF x.id = id THEN [x EXCEPT !.rec = FALSE] ELSE x
    IN [e EXCEPT !.queue   = [i \in DOMAIN @ |-> clear(@[i])],
                 !.history = [i \in DOMAIN @ |-> clear(@[i])],
                 !.current = IF @ = NoItem THEN NoItem ELSE clear(@)]

\* The current item's play is over: a later dispatch of it is a new play.
Ended == [i \in Items |-> IF i = CurrentId(eng) THEN ended[i] + 1 ELSE ended[i]]

-----------------------------------------------------------------------------
(* The advance lock *)

Idle(s) == task[s].pc = "free"
Is(s, kind, pc) == task[s].kind = kind /\ task[s].pc = pc
Goes(s, pc) == task' = [task EXCEPT ![s].pc = pc]
Ends(s) == task' = [task EXCEPT ![s] = Free]

\* `async with lock' by a task whose record is r: at once when nobody holds
\* the lock and nobody waits, else in turn.
Acquires(s, r) ==
    IF owner = NoTask /\ waitq = <<>>
    THEN /\ owner' = s /\ waitq' = waitq
         /\ task' = [task EXCEPT ![s] = [r EXCEPT !.pc = "locked"]]
    ELSE /\ owner' = owner /\ waitq' = Append(waitq, s)
         /\ task' = [task EXCEPT ![s] = [r EXCEPT !.pc = "wait"]]

\* Fault variant: an early return that keeps the lock.
LeavesHolding(s) == Ends(s) /\ UNCHANGED lock

Leaves(s) == owner' = NoTask /\ Ends(s) /\ UNCHANGED <<gen, waitq>>

\* Fault variant: a press between lock check and acquisition goes unnoticed.
GrantedAnyway(s) ==
    /\ owner = NoTask /\ waitq # <<>> /\ Head(waitq) = s
    /\ waitq' = Tail(waitq)
    /\ owner' = s /\ Goes(s, "locked")
    /\ UNCHANGED <<eng, nextId, gen, session, supervisor, sound, ended, used>>

\* The released lock goes to the first waiter, in a later iteration of the
\* loop.  An automatic advance gives up if a press came after its lock check.
Granted(s) ==
    /\ owner = NoTask /\ waitq # <<>> /\ Head(waitq) = s
    /\ waitq' = Tail(waitq)
    /\ IF task[s].kind = "advance" /\ task[s].gen # gen
       THEN Ends(s) /\ owner' = NoTask
       ELSE Goes(s, "locked") /\ owner' = s
    /\ UNCHANGED <<eng, nextId, gen, session, supervisor, sound, ended, used>>

\* _do_advance up to the lock, in slot s on behalf of dispatch t: a held
\* session does not advance, and a lock holder owns the advance.
StartsAdvance(s, t, held, holder) ==
    LET r == [Free EXCEPT !.kind = "advance", !.gen = gen, !.tok = t]
    IN IF held \/ holder # NoTask
       THEN owner' = holder /\ waitq' = waitq /\ Ends(s)
       ELSE IF waitq = <<>>
       THEN owner' = s /\ waitq' = waitq /\ task' = [task EXCEPT ![s] = [r EXCEPT !.pc = "locked"]]
       ELSE owner' = NoTask /\ waitq' = Append(waitq, s)
            /\ task' = [task EXCEPT ![s] = [r EXCEPT !.pc = "wait"]]

-----------------------------------------------------------------------------
(* Guests and the host *)

\* A track is queued; queue_changed starts playback on an idle queue
\* (_should_auto_start, _trigger_auto_advance).
Enqueue(s) ==
    /\ Idle(s) /\ nextId \in Items
    /\ nextId' = nextId + 1
    /\ eng' = [eng EXCEPT !.queue = Append(@, [id |-> nextId, rec |-> FALSE])]
    /\ IF eng.playing
       THEN UNCHANGED <<task, owner, waitq>>
       ELSE StartsAdvance(s, 0, hold, owner)
    /\ UNCHANGED <<gen, session, supervisor, sound, ended, used>>

\* Skip and Skip Back invalidate pending advances before they wait.
Press(s, kind) ==
    /\ Idle(s) /\ used.presses < MaxPresses
    /\ used' = [used EXCEPT !.presses = @ + 1]
    /\ gen' = gen + 1
    /\ Acquires(s, [Free EXCEPT !.kind = kind])
    /\ UNCHANGED <<eng, nextId, session, supervisor, sound, ended>>

\* manual_resume, or a reconnect attempt that attached the device: both end
\* up in _resume_from_hold for the open context.
PressResume(s) ==
    /\ Idle(s) /\ hold /\ outage # 0
    /\ Acquires(s, [Free EXCEPT !.kind = "resume", !.ot = outage])
    /\ UNCHANGED <<eng, nextId, gen, session, supervisor, sound, ended, used>>

\* manual_resume while no context is open: the hold is released and the
\* advance takes over.
ResumeWithoutContext(s) ==
    /\ Idle(s) /\ hold /\ outage = 0
    /\ hold' = FALSE
    /\ StartsAdvance(s, 0, FALSE, owner)
    /\ UNCHANGED <<eng, nextId, gen, outage, outages, supervisor, sound, ended, used>>

-----------------------------------------------------------------------------
(* Queue moves under the lock *)

\* engine.advance() by the lock holder: an item is popped, or none is left.
Pops(s, whenEmpty) ==
    LET e == AdvanceOp(eng)
    IN /\ eng' = e
       /\ ended' = Ended
       /\ task' = [task EXCEPT ![s].pc = IF e.current = NoItem THEN whenEmpty ELSE "popped",
                               ![s].id = CurrentId(e)]
       /\ UNCHANGED lock

\* The loop head of _do_advance: a hold that landed freezes the queue.
AdvanceMoves(s) ==
    /\ Is(s, "advance", "locked")
    /\ IF hold THEN Leaves(s) /\ UNCHANGED <<eng, ended>> ELSE Pops(s, "leaving")
    /\ UNCHANGED <<nextId, session, supervisor, sound, used>>

\* playback_skip: a held session only moves the held pointer.
SkipMoves(s) ==
    /\ Is(s, "skip", "locked")
    /\ IF hold
       THEN eng' = SkipHeldOp(eng) /\ Goes(s, "leaving") /\ UNCHANGED <<ended, lock>>
       ELSE Pops(s, "stopping")
    /\ UNCHANGED <<nextId, session, supervisor, sound, used>>

\* playback_previous.
PreviousMoves(s) ==
    /\ Is(s, "previous", "locked")
    /\ IF eng.history = <<>> THEN Leaves(s) /\ UNCHANGED <<eng, ended>>
       ELSE IF hold
       THEN eng' = SkipBackHeldOp(eng) /\ Goes(s, "leaving") /\ UNCHANGED <<ended, lock>>
       ELSE /\ eng' = SkipBackOp(eng)
            /\ ended' = Ended
            /\ task' = [task EXCEPT ![s].pc = "popped", ![s].id = Head(eng.history).id]
            /\ UNCHANGED lock
    /\ UNCHANGED <<nextId, session, supervisor, sound, used>>

\* clear_output_hold: without a hold it does nothing.
ClearsHold ==
    hold' = FALSE /\ outage' = (IF hold THEN 0 ELSE outage) /\ outages' = outages

\* _resume_from_hold: a finished or superseded outage resumes nothing.
ResumeMoves(s) ==
    /\ Is(s, "resume", "locked")
    /\ IF outage # task[s].ot \/ ~hold
       THEN Leaves(s) /\ UNCHANGED <<eng, ended, session>>
       ELSE IF eng.queue = <<>>
       THEN Leaves(s) /\ ClearsHold /\ UNCHANGED <<eng, ended>>
       ELSE Pops(s, "leaving") /\ UNCHANGED session
    /\ UNCHANGED <<nextId, supervisor, sound, used>>

\* The lock is released once the engine's events are out.
Left(s) ==
    /\ task[s].pc \in {"leaving", "stopping"}
    /\ Leaves(s)
    /\ sound' = IF task[s].pc = "stopping" THEN 0 ELSE sound
    /\ UNCHANGED <<eng, nextId, session, supervisor, ended, used>>

-----------------------------------------------------------------------------
(* Dispatching *)

\* dispatch_play: a new token, and play().  An advance or a resume whose
\* holder failed tries the next one with the mark it read first.
Dispatches(s) ==
    /\ task[s].pc \in {"popped", "failed"} /\ token < MaxToken
    /\ LET id == task[s].id
           read == IF task[s].pc = "failed" THEN disp[task[s].tok].mark ELSE Object(id).rec
       IN disp' = [disp EXCEPT ![token + 1] =
                     [id |-> id, nth |-> ended[id], mark |-> read, confirmed |-> FALSE]]
    /\ task' = [task EXCEPT ![s].pc = "playing", ![s].tok = token + 1]
    /\ token' = token + 1 /\ cur' = token + 1
    /\ UNCHANGED <<eng, nextId, lock, session, retired, sound, ended, used>>

\* Fault variant: a resume leaves the hold to the confirmation.
PlayKeepsHold(s) ==
    /\ task[s].pc = "playing"
    /\ eng' = ClearMark(eng, task[s].id)
    /\ sound' = task[s].tok
    /\ Leaves(s)
    /\ UNCHANGED <<nextId, session, supervisor, ended, used>>

\* play() returned: the mark protected this play and is consumed; a resume
\* releases the hold.
PlayReturns(s) ==
    /\ task[s].pc = "playing"
    /\ eng' = ClearMark(eng, task[s].id)
    /\ sound' = task[s].tok
    /\ IF task[s].kind = "resume" THEN ClearsHold ELSE UNCHANGED session
    /\ Leaves(s)
    /\ UNCHANGED <<nextId, supervisor, ended, used>>

\* play() raised: the dispatch is withdrawn.  A press gives up and stops; an
\* advance or a resume asks the device's probe whose fault it was.
PlayRaises(s) ==
    /\ task[s].pc = "playing" /\ used.failures < MaxFailures
    /\ used' = [used EXCEPT !.failures = @ + 1]
    /\ cur' = IF cur = task[s].tok THEN 0 ELSE cur
    /\ IF task[s].kind \in {"skip", "previous"}
       THEN eng' = StopOp(eng) /\ ended' = Ended /\ Goes(s, "leaving")
       ELSE UNCHANGED <<eng, ended>> /\ Goes(s, "failed")
    /\ UNCHANGED <<nextId, lock, session, token, disp, retired, sound>>

\* No media source: nothing is dispatched.
NoSource(s) ==
    /\ SourceVanishes /\ used.failures < MaxFailures
    /\ used' = [used EXCEPT !.failures = @ + 1]
    /\ \/ task[s].pc = "popped" /\ task[s].kind \in {"advance", "skip"}
       \/ Is(s, "previous", "locked") /\ ~hold
       \/ Is(s, "resume", "locked") /\ hold /\ outage = task[s].ot /\ eng.queue # <<>>
    /\ Leaves(s)
    /\ UNCHANGED <<eng, nextId, session, supervisor, sound, ended>>

-----------------------------------------------------------------------------
(* The output hold *)

\* enter_output_hold up to the engine's events: the interrupted item goes
\* back to the front of the queue.  Reading the position in between suspends
\* nothing: no backend's get_position awaits.
EntersHold(s, mark) ==
    /\ hold' = TRUE /\ UNCHANGED <<outage, outages>>
    /\ eng' = IF eng.current = NoItem THEN [eng EXCEPT !.paused = TRUE]
              ELSE HoldOp(eng, mark)
    /\ Goes(s, "holding")

\* begin_outage, once the events are out.
HoldOpens(s) ==
    /\ task[s].pc = "holding"
    /\ outages' = outages + 1 /\ outage' = outages + 1 /\ hold' = hold
    /\ IF owner = s THEN Leaves(s) ELSE Ends(s) /\ UNCHANGED lock
    /\ UNCHANGED <<eng, nextId, supervisor, sound, ended, used>>

\* Fault variant: a resume whose device died again stops instead of holding.
DeviceLostStops(s) ==
    /\ task[s].pc = "failed"
    /\ IF task[s].kind = "resume"
       THEN /\ eng' = StopOp(eng)
            /\ Goes(s, "leaving") /\ UNCHANGED <<session, lock>>
       ELSE IF hold
       THEN Leaves(s) /\ UNCHANGED <<eng, session>>
       ELSE /\ EntersHold(s, eng.current # NoItem /\ eng.current.rec)
            /\ UNCHANGED lock
    /\ UNCHANGED <<nextId, supervisor, sound, ended, used>>

\* The device is gone (DeviceNotReadyError): an advance enters the hold with
\* the item's own mark, a resume puts the item back and stays held.
DeviceLost(s) ==
    /\ task[s].pc = "failed"
    /\ IF task[s].kind = "resume"
       THEN /\ eng' = HoldOp(eng, Object(task[s].id).rec)
            /\ Goes(s, "leaving") /\ UNCHANGED <<session, lock>>
       ELSE IF hold
       THEN Leaves(s) /\ UNCHANGED <<eng, session>>
       ELSE /\ EntersHold(s, eng.current # NoItem /\ eng.current.rec)
            /\ UNCHANGED lock
    /\ UNCHANGED <<nextId, supervisor, sound, ended, used>>

\* The track is at fault: an advance goes on to the next item, a resume
\* releases the hold and leaves the lock to announce the skip.
TrackUnplayable(s) ==
    /\ task[s].pc = "failed"
    /\ IF task[s].kind = "resume"
       THEN /\ ClearsHold
            /\ owner' = NoTask /\ UNCHANGED <<gen, waitq>>
            /\ Goes(s, "notice")
       ELSE Goes(s, "locked") /\ UNCHANGED <<session, lock>>
    /\ UNCHANGED <<eng, nextId, supervisor, sound, ended, used>>

-----------------------------------------------------------------------------
(* What the backend reports *)

InPlay(t) == \E s \in Slots : task[s].pc = "playing" /\ task[s].tok = t

\* Fault variant: a confirmation that comes after the retirement still counts.
ConfirmedLate(t) ==
    /\ t \in {cur, retired} /\ ~disp[t].confirmed
    /\ sound = t \/ (EarlySignals /\ InPlay(t))
    /\ disp' = [disp EXCEPT ![t].confirmed = TRUE]
    /\ ClearsHold
    /\ UNCHANGED <<eng, nextId, lock, task, token, cur, retired, sound, ended, used>>

\* on_playback_confirmed: audio proves that the output works.
OnPlaybackConfirmed(t) ==
    /\ cur = t /\ ~disp[t].confirmed
    /\ sound = t \/ (EarlySignals /\ InPlay(t))
    /\ disp' = [disp EXCEPT ![t].confirmed = TRUE]
    /\ ClearsHold
    /\ UNCHANGED <<eng, nextId, lock, task, token, cur, retired, sound, ended, used>>

\* The media came to its end: the backend calls _do_advance.
EndOfStream(s) ==
    /\ Idle(s) /\ sound # 0
    /\ sound' = 0
    /\ StartsAdvance(s, sound, hold, owner)
    /\ UNCHANGED <<eng, nextId, gen, session, supervisor, ended, used>>

\* The live dispatch is retired and its classification spawned.
Suspects(s, kind) ==
    /\ Idle(s) /\ used.signals < MaxSignals
    /\ EarlySignals \/ ~InPlay(cur)
    /\ used' = [used EXCEPT !.signals = @ + 1]
    /\ task' = [task EXCEPT ![s] = [Free EXCEPT !.kind = kind, !.pc = "start", !.tok = cur]]
    /\ cur' = 0
    /\ retired' = IF cur = 0 THEN retired ELSE cur
    /\ UNCHANGED <<eng, nextId, lock, session, token, disp, ended>>

OnOutageReported(s) == Suspects(s, "outage") /\ sound' = 0 /\ token > 0

\* The confirmation deadline; it is suspended while the session is paused.
DeadlineExpires(s) ==
    /\ cur # 0 /\ ~disp[cur].confirmed /\ ~eng.paused
    /\ Suspects(s, "timeout") /\ sound' = sound

-----------------------------------------------------------------------------
(* The classifier *)

\* dispatch_play_recorded; a dispatch it no longer knows counts as recorded.
PlayRecorded(t) ==
    t \in {cur, retired} \ {0} => disp[t].mark \/ disp[t].confirmed

\* Already holding, or playback moved on to a newer dispatch.
Stale == hold \/ cur # 0

\* _classify_outage up to its first suspension.  An outage at the device is
\* held; one of the flow receiver is too, unless the track got stuck there
\* too often (flow_recovery_allowed): then the track is skipped.
Classifies(s) ==
    /\ task[s].pc = "start"
    /\ CASE Stale -> Ends(s) /\ UNCHANGED <<eng, session>>
         [] ~Stale /\ task[s].kind = "outage" ->
              \/ EntersHold(s, PlayRecorded(task[s].tok))
              \/ Goes(s, "notice") /\ UNCHANGED <<eng, session>>
         [] ~Stale /\ task[s].kind # "outage" ->
              Goes(s, "probing") /\ UNCHANGED <<eng, session>>
    /\ UNCHANGED <<nextId, lock, supervisor, sound, ended, used>>

ProbeAnswers(s, reachable) ==
    /\ task[s].pc = "probing"
    /\ CASE Stale -> Ends(s) /\ UNCHANGED <<eng, session>>
         [] ~Stale /\ ~reachable -> EntersHold(s, PlayRecorded(task[s].tok))
         [] ~Stale /\ reachable -> Goes(s, "notice") /\ UNCHANGED <<eng, session>>
    /\ UNCHANGED <<nextId, lock, supervisor, sound, ended, used>>

\* _track_level_skip: once the skip is announced, the session advances.
NoticeSent(s) ==
    /\ task[s].pc = "notice"
    /\ StartsAdvance(s, task[s].tok, hold, owner)
    /\ UNCHANGED <<eng, nextId, gen, session, supervisor, sound, ended, used>>

-----------------------------------------------------------------------------
Works(s) ==
    \/ Granted(s) \/ Left(s)
    \/ AdvanceMoves(s) \/ SkipMoves(s) \/ PreviousMoves(s) \/ ResumeMoves(s)
    \/ Dispatches(s) \/ PlayReturns(s) \/ PlayRaises(s) \/ NoSource(s)
    \/ HoldOpens(s) \/ DeviceLost(s) \/ TrackUnplayable(s)
    \/ Classifies(s) \/ NoticeSent(s)
    \/ \E reachable \in BOOLEAN : ProbeAnswers(s, reachable)

Environment(s) ==
    \/ Enqueue(s) \/ PressResume(s) \/ ResumeWithoutContext(s)
    \/ \E kind \in {"skip", "previous"} : Press(s, kind)
    \/ EndOfStream(s) \/ OnOutageReported(s) \/ DeadlineExpires(s)

\* Who may run: everyone, or only the task about to dispatch an item, or the
\* classification that was just spawned.
Turn(s) ==
    DispatchGaps \/ \A u \in Slots \ {s} : task[u].pc \notin {"popped", "failed", "start"}

Next ==
    \/ \E s \in Slots : Turn(s) /\ (Works(s) \/ Environment(s))
    \/ Turn(NoTask) /\ \E t \in Tokens : OnPlaybackConfirmed(t)

Spec == Init /\ [][Next]_vars

\* The event loop runs every task that is ready; play() and the probes return,
\* being bounded by timeouts of their own.
FairSpec == Spec /\ \A s \in Slots : WF_vars(Turn(s) /\ Works(s))

-----------------------------------------------------------------------------
(* Properties *)

\* Every variable has its type, and the lock is held by a running task.
TypeOK ==
    /\ eng.playing \in BOOLEAN /\ eng.paused \in BOOLEAN
    /\ nextId \in 1 .. MaxItems + 1 /\ gen \in Nat
    /\ owner \in Slots \cup {NoTask} /\ owner # NoTask => ~Idle(owner)
    /\ waitq \in Seq(Slots)
    /\ task \in [Slots -> Task]
    /\ hold \in BOOLEAN /\ outage \in 0 .. outages
    /\ token \in 0 .. MaxToken /\ {cur, retired, sound} \subseteq 0 .. token

Ids(s) == {s[i].id : i \in DOMAIN s}

\* No item is ever in two places, whatever holds, skips and resumes interleave.
NoItemTwice == \A i, j \in DOMAIN Lists : Lists[i].id = Lists[j].id => i = j

\* An item leaves the lists in two ways only: the press that popped it could
\* not play it (set_stopped, playback_control.py:150-153), or it is the oldest
\* entry of a full history.  A hold, a resume, an advance or a classification
\* never loses one.
NothingElseDropped ==
    [][\A i \in Ids(Lists) \ Ids(Lists)' :
         \/ Len(eng.history) = HistoryMax /\ eng.history[HistoryMax].id = i
         \/ \E s \in Slots : /\ task[s].kind \in {"skip", "previous"}
                             /\ task[s].pc = "playing" /\ task[s].id = i]_vars

\* One play of an item is counted once: however often an outage interrupts it
\* and a resume dispatches it again, at most one of its dispatches counts
\* ("so a resume never re-counts (R19)", hold.py:53-55).  The code breaks it:
\* the hold stamps the current item with the verdict on the dispatch that was
\* suspected, which may be another item's.
Counts(t) == disp[t].confirmed /\ ~disp[t].mark
CountedOncePerPlay ==
    \A t, u \in 1 .. token :
        t # u /\ Counts(t) /\ Counts(u)
            => disp[t].id # disp[u].id \/ disp[t].nth # disp[u].nth

\* Driven by the advance, the presses and the resumes, the supervisor still
\* keeps the promise of DispatchLedger: each dispatch is decided once, and one
\* that was superseded, withdrawn or suspected is never counted
\* (session.py:547-577, 601-637).
Fate(t) == IF t > token THEN "unissued"
           ELSE IF disp[t].confirmed THEN "heard"
           ELSE IF t = cur THEN "waiting" ELSE "lost"
Ledger == INSTANCE DispatchLedger WITH
              issued <- token,
              fate <- [t \in Tokens |-> Fate(t)],
              marked <- {t \in Tokens : disp[t].mark},
              plays <- [t \in Tokens |-> IF Counts(t) THEN 1 ELSE 0]
LedgerSpec == Ledger!Spec

\* A press beats the automatic advances that were waiting when it came: none
\* of them moves the queue before the press does (state.py:770-773).
PressBeatsAdvance ==
    [][\A s \in Slots : Is(s, "advance", "wait") /\ task'[s].pc = "locked" =>
         \A i \in DOMAIN waitq' : task[waitq'[i]].kind \notin {"skip", "previous"}]_vars

\* While the session is held and no task is at work, nothing is current: the
\* interrupted item waits in the queue (hold.py:11-18).
Quiet == \A s \in Slots : Idle(s)
HeldHasNoCurrent == hold /\ Quiet => eng.current = NoItem

\* Every press and every advance gets its turn and finishes.
EveryTaskEnds == \A s \in Slots : ~Idle(s) ~> Idle(s)

\* While an outage holds the queue only a resume dispatches: "no items will be
\* consumed until resume" (hold.py:66-67).
OnlyResumeDispatchesHeld ==
    [][hold /\ token' # token =>
         \E s \in Slots : task[s].kind = "resume" /\ task'[s].tok = token']_vars

\* A track-level skip takes the lock to consume the next item only while no
\* dispatch newer than the one it was decided for is live: "acting now would
\* consume a healthy item" (session.py:1692-1703).
AdvanceSparesNewer ==
    [][\A s \in Slots : Is(s, "timeout", "notice") /\ Is(s, "advance", "locked")'
         => cur = 0]_vars
=============================================================================
