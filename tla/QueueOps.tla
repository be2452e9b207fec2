------------------------------ MODULE QueueOps ------------------------------
(***************************************************************************)
(* The queue engine's operations as functions from one engine value to the *)
(* next (app/queue/engine.py).  Each method takes the engine lock, edits   *)
(* the lists without suspending and releases the lock, so its effect on    *)
(* the lists is a function; the state machines that call these operators   *)
(* (QueueEngine, PlaybackSession) add the locks and the suspensions.       *)
(*                                                                         *)
(* An engine value e is a record                                           *)
(*   e.queue    upcoming items, head plays next                            *)
(*   e.history  played items, head is the most recent                      *)
(*   e.current  the item playing, or NoItem                                *)
(*   e.playing, e.paused  the two transport flags                          *)
(***************************************************************************)
EXTENDS Integers, Sequences

CONSTANTS
    NoItem,      \* Python's None where a QueueItem is expected
    HistoryMax   \* maxlen of the history deque

ASSUME HistoryMaxAssumption == HistoryMax \in Nat \ {0}

\* The list with x at position i (1-based), the rest moved up by one.
Insert(s, i, x) == SubSeq(s, 1, i - 1) \o <<x>> \o SubSeq(s, i, Len(s))

\* The list without the element at position i (1-based).
Delete(s, i) == SubSeq(s, 1, i - 1) \o SubSeq(s, i + 1, Len(s))

\* Fault variant of the push below: a plain list that never drops anything.
PushUnbounded(h, x) == <<x>> \o h

\* deque(maxlen).appendleft: a full deque drops its oldest entry.
PushHistory(h, x) ==
    <<x>> \o SubSeq(h, 1, IF Len(h) < HistoryMax THEN Len(h) ELSE HistoryMax - 1)

\* What the push above pushes out.
Evicted(h) == IF Len(h) < HistoryMax THEN <<>> ELSE <<h[Len(h)]>>

-----------------------------------------------------------------------------
(* Playback pointer moves *)

\* Fault variant: the track that ended is not recorded.
RetireUnrecorded(e) == [e EXCEPT !.current = NoItem, !.playing = FALSE, !.paused = FALSE]

\* First half of advance and all of close_out: the current item moves to
\* history and nothing plays.
RetireCurrent(e) ==
    [e EXCEPT !.history = IF e.current = NoItem THEN @ ELSE PushHistory(@, e.current),
              !.current = NoItem, !.playing = FALSE, !.paused = FALSE]

\* Second half of advance when something is queued.
PopFront(e) ==
    [e EXCEPT !.queue = Tail(@), !.current = Head(e.queue), !.playing = TRUE]

\* advance() when it does not have to ask the auto-fill provider.
AdvanceOp(e) ==
    LET r == RetireCurrent(e) IN IF r.queue = <<>> THEN r ELSE PopFront(r)

\* Fault variant: the interrupted track goes to the back of the queue.
SkipBackToTail(e) ==
    IF e.history = <<>> THEN e
    ELSE [e EXCEPT !.queue   = IF e.current = NoItem THEN @ ELSE Append(@, e.current),
                   !.history = Tail(@),
                   !.current = Head(e.history),
                   !.playing = TRUE, !.paused = FALSE]

\* skip_back(): the interrupted track returns to the front of the queue.
SkipBackOp(e) ==
    IF e.history = <<>> THEN e
    ELSE [e EXCEPT !.queue   = IF e.current = NoItem THEN @ ELSE <<e.current>> \o @,
                   !.history = Tail(@),
                   !.current = Head(e.history),
                   !.playing = TRUE, !.paused = FALSE]

\* Fault variant: the interrupted item is queued but stays current.
HoldKeepsCurrent(e, mark) ==
    IF e.current = NoItem THEN e
    ELSE [e EXCEPT !.queue  = <<[e.current EXCEPT !.rec = mark]>> \o @,
                   !.paused = TRUE]

\* hold_current(play_recorded): the interrupted item goes back to the front,
\* stamped with the mark.
HoldOp(e, mark) ==
    IF e.current = NoItem THEN e
    ELSE [e EXCEPT !.queue   = <<[e.current EXCEPT !.rec = mark]>> \o @,
                   !.current = NoItem, !.playing = FALSE, !.paused = TRUE]

\* skip_held_front(): the held front retires to history, nothing plays.
SkipHeldOp(e) ==
    IF e.queue = <<>> THEN e
    ELSE [e EXCEPT !.queue = Tail(@), !.history = PushHistory(@, Head(e.queue))]

\* Fault variant: the newest history item is queued last.
SkipBackHeldToTail(e) ==
    IF e.history = <<>> THEN e
    ELSE [e EXCEPT !.queue = Append(@, Head(e.history)), !.history = Tail(@)]

\* skip_back_held_front(): the newest history item becomes the held front.
SkipBackHeldOp(e) ==
    IF e.history = <<>> THEN e
    ELSE [e EXCEPT !.queue = <<Head(e.history)>> \o @, !.history = Tail(@)]

\* set_stopped(): the current item is dropped, not recorded.
StopOp(e) == [e EXCEPT !.current = NoItem, !.playing = FALSE, !.paused = FALSE]

-----------------------------------------------------------------------------
(* Batch removal by receipt and its rollback *)

Receipt(x) == <<x.track, x.stamp>>

\* The position of the last entry of q with receipt r, or 0.
LastMatch(q, r) ==
    LET hits == {i \in DOMAIN q : Receipt(q[i]) = r}
    IN IF hits = {} THEN 0 ELSE CHOOSE i \in hits : \A j \in hits : j <= i

RemoveLast(q, r) == LET i == LastMatch(q, r) IN IF i = 0 THEN q ELSE Delete(q, i)

\* remove_entries: one last match per receipt, in the order given.
RemoveEntriesOp(q, receipts) ==
    LET after[n \in 0..Len(receipts)] ==
            IF n = 0 THEN q ELSE RemoveLast(after[n - 1], receipts[n])
    IN after[Len(receipts)]

\* Fault variant: the rollback appends what the switch removed.
RestoreAtEnd(q, entries) == q \o [i \in DOMAIN entries |-> entries[i].item]

\* restore_entries: each (0-based position, item), lowest position first,
\* clamped to the end of the list.
RestoreEntriesOp(q, entries) ==
    LET put(s, pos, x) == Insert(s, 1 + (IF pos < Len(s) THEN pos ELSE Len(s)), x)
        after[n \in 0..Len(entries)] ==
            IF n = 0 THEN q
            ELSE put(after[n - 1], entries[n].pos, entries[n].item)
    IN after[Len(entries)]

\* snapshot_stranded_positions: the (position, item) pairs of the entries
\* whose track is in S, in queue order.
PositionsOf(q, S) ==
    LET upTo[n \in 0..Len(q)] ==
            IF n = 0 THEN <<>>
            ELSE IF q[n].track \in S
                 THEN Append(upTo[n - 1], [pos |-> n - 1, item |-> q[n]])
                 ELSE upTo[n - 1]
    IN upTo[Len(q)]

ReceiptsOf(entries) == [i \in DOMAIN entries |-> Receipt(entries[i].item)]
=============================================================================
