------------------------- MODULE QueueEngineProofs -------------------------
(***************************************************************************)
(* Theorems about the queue engine (QueueEngine), for every set of tracks, *)
(* every depth of queue and history and any number of items and switches.  *)
(***************************************************************************)
EXTENDS QueueEngine, QueueOpsLemmas

-----------------------------------------------------------------------------
(* What the operations make of a well typed engine *)

\* A push on the history keeps the history's bound.
LEMMA PushTyped ==
  ASSUME NEW It, NEW h \in Seq(It), Len(h) <= HistoryMax, NEW x \in It
  PROVE  PushHistory(h, x) \in {s \in Seq(It) : Len(s) <= HistoryMax}
BY PushIds

\* The fields of an engine value.
LEMMA EngineFields ==
  ASSUME NEW It, NEW e \in Engines(It)
  PROVE  /\ e.queue \in Seq(It) /\ e.history \in Seq(It) /\ Len(e.history) <= HistoryMax
         /\ e.current \in It \cup {NoItem} /\ e.playing \in BOOLEAN /\ e.paused \in BOOLEAN
         /\ e = [queue |-> e.queue, history |-> e.history, current |-> e.current,
                 playing |-> e.playing, paused |-> e.paused]
BY DEF Engines

\* Retiring the current item.
LEMMA RetireTyped ==
  ASSUME NEW It, NEW e \in Engines(It)
  PROVE  /\ RetireCurrent(e) \in Engines(It)
         /\ RetireCurrent(e).queue = e.queue /\ RetireCurrent(e).current = NoItem
         /\ RetireCurrent(e).history = IF e.current = NoItem THEN e.history
                                       ELSE PushHistory(e.history, e.current)
         /\ RetireCurrent(e).paused = FALSE
<1> DEFINE h == IF e.current = NoItem THEN e.history ELSE PushHistory(e.history, e.current)
<1>1. h \in {s \in Seq(It) : Len(s) <= HistoryMax}
  BY EngineFields, PushTyped
<1>2. RetireCurrent(e) = [queue |-> e.queue, history |-> h, current |-> NoItem,
                          playing |-> FALSE, paused |-> FALSE]
  <2>1. RetireCurrent(e) = [e EXCEPT !.history = h, !.current = NoItem,
                                     !.playing = FALSE, !.paused = FALSE]
    BY DEF RetireCurrent
  <2> HIDE DEF h
  <2> QED
    BY <2>1 DEF Engines
<1> HIDE DEF h
<1>3. /\ RetireCurrent(e) \in Engines(It)
      /\ RetireCurrent(e).queue = e.queue /\ RetireCurrent(e).current = NoItem
      /\ RetireCurrent(e).history = h /\ RetireCurrent(e).paused = FALSE
  BY <1>1, <1>2, EngineFields DEF Engines
<1> QED
  BY <1>3 DEF h

\* The head of the queue becomes current.
LEMMA PopTyped ==
  ASSUME NEW It, NEW e \in Engines(It), e.queue # <<>>
  PROVE  /\ PopFront(e) \in Engines(It)
         /\ PopFront(e).queue = Tail(e.queue) /\ PopFront(e).history = e.history
         /\ PopFront(e).current = Head(e.queue)
         /\ PopFront(e).playing = TRUE /\ PopFront(e).paused = e.paused
<1> DEFINE t == Tail(e.queue)
           x == Head(e.queue)
<1>1. t \in Seq(It) /\ x \in It
  BY EngineFields, HeadTailProperties
<1>2. PopFront(e) = [e EXCEPT !.queue = t, !.current = x, !.playing = TRUE]
  BY DEF PopFront
<1> HIDE DEF t, x
<1> DEFINE p == [e EXCEPT !.queue = t, !.current = x, !.playing = TRUE]
<1>3. p \in Engines(It)
  BY <1>1 DEF Engines
<1>4. p.queue = t /\ p.history = e.history /\ p.current = x /\ p.playing = TRUE
  BY DEF Engines
<1>5. p.paused = e.paused
  BY Zenon DEF Engines
<1> QED
  BY <1>2, <1>3, <1>4, <1>5 DEF t, x

\* Advancing.
LEMMA AdvanceTyped ==
  ASSUME NEW It, NEW e \in Engines(It)
  PROVE  AdvanceOp(e) \in Engines(It)
<1> DEFINE r == RetireCurrent(e)
<1>1. r \in Engines(It)
  BY RetireTyped
<1>2. AdvanceOp(e) = IF r.queue = <<>> THEN r ELSE PopFront(r)
  BY DEF AdvanceOp
<1> HIDE DEF r
<1>3. r.queue # <<>> => PopFront(r) \in Engines(It)
  BY <1>1, PopTyped
<1> QED
  BY <1>1, <1>2, <1>3

\* A list with an item put in front.
LEMMA ConsTyped ==
  ASSUME NEW It, NEW s \in Seq(It), NEW x \in It
  PROVE  <<x>> \o s \in Seq(It) /\ <<x>> \o s # <<>>
         /\ Head(<<x>> \o s) = x /\ Tail(<<x>> \o s) = s
BY ConsIds

\* Skip Back.
LEMMA SkipBackTyped ==
  ASSUME NEW It, NEW e \in Engines(It)
  PROVE  SkipBackOp(e) \in Engines(It)
<1> DEFINE q == IF e.current = NoItem THEN e.queue ELSE <<e.current>> \o e.queue
<1>1. q \in Seq(It)
  BY EngineFields, ConsTyped
<1>2. CASE e.history = <<>>
  BY <1>2 DEF SkipBackOp
<1>3. CASE e.history # <<>>
  <2>1. /\ Tail(e.history) \in Seq(It) /\ Head(e.history) \in It
        /\ Len(Tail(e.history)) <= HistoryMax
    BY <1>3, EngineFields, TailIds, LenProperties, HistoryMaxAssumption
  <2>2. SkipBackOp(e) = [queue |-> q, history |-> Tail(e.history),
                         current |-> Head(e.history), playing |-> TRUE, paused |-> FALSE]
    BY <1>3 DEF SkipBackOp, Engines
  <2> HIDE DEF q
  <2> QED
    BY <1>1, <2>1, <2>2 DEF Engines
<1> QED
  BY <1>2, <1>3

\* The held pointer moves on.
LEMMA SkipHeldTyped ==
  ASSUME NEW It, NEW e \in Engines(It)
  PROVE  SkipHeldOp(e) \in Engines(It)
<1>1. CASE e.queue = <<>>
  BY <1>1 DEF SkipHeldOp
<1>2. CASE e.queue # <<>>
  <2>1. /\ Tail(e.queue) \in Seq(It) /\ Head(e.queue) \in It
    BY <1>2, EngineFields, HeadTailProperties
  <2>2. PushHistory(e.history, Head(e.queue)) \in {s \in Seq(It) : Len(s) <= HistoryMax}
    BY <2>1, EngineFields, PushTyped
  <2>3. SkipHeldOp(e) = [queue |-> Tail(e.queue),
                         history |-> PushHistory(e.history, Head(e.queue)),
                         current |-> e.current, playing |-> e.playing, paused |-> e.paused]
    BY <1>2 DEF SkipHeldOp, Engines
  <2> QED
    BY <2>1, <2>2, <2>3, EngineFields DEF Engines
<1> QED
  BY <1>1, <1>2

\* The held pointer moves back.
LEMMA SkipBackHeldTyped ==
  ASSUME NEW It, NEW e \in Engines(It)
  PROVE  SkipBackHeldOp(e) \in Engines(It)
<1>1. CASE e.history = <<>>
  BY <1>1 DEF SkipBackHeldOp
<1>2. CASE e.history # <<>>
  <2>1. /\ Tail(e.history) \in Seq(It) /\ Head(e.history) \in It
        /\ Len(Tail(e.history)) <= HistoryMax
    BY <1>2, EngineFields, TailIds, LenProperties, HistoryMaxAssumption
  <2>2. <<Head(e.history)>> \o e.queue \in Seq(It)
    BY <2>1, EngineFields, ConsTyped
  <2>3. SkipBackHeldOp(e) = [queue |-> <<Head(e.history)>> \o e.queue,
                             history |-> Tail(e.history), current |-> e.current,
                             playing |-> e.playing, paused |-> e.paused]
    BY <1>2 DEF SkipBackHeldOp, Engines
  <2> QED
    BY <2>1, <2>2, <2>3, EngineFields DEF Engines
<1> QED
  BY <1>1, <1>2

\* Holding.
LEMMA HoldTyped ==
  ASSUME NEW e \in Engines(Item), NEW mark \in BOOLEAN
  PROVE  HoldOp(e, mark) \in Engines(Item)
<1>1. CASE e.current = NoItem
  BY <1>1 DEF HoldOp
<1>2. CASE e.current # NoItem
  <2> DEFINE x == [e.current EXCEPT !.rec = mark]
  <2>1. x \in Item
    BY <1>2 DEF Item, Engines
  <2>2. <<x>> \o e.queue \in Seq(Item)
    <3> HIDE DEF x
    <3> QED
      BY <2>1, EngineFields, ConsTyped
  <2>3. HoldOp(e, mark) = [queue |-> <<x>> \o e.queue, history |-> e.history,
                           current |-> NoItem, playing |-> FALSE, paused |-> TRUE]
    BY <1>2 DEF HoldOp, Engines
  <2> HIDE DEF x
  <2> QED
    BY <2>2, <2>3, EngineFields DEF Engines
<1> QED
  BY <1>1, <1>2

\* A queue or a history put in place of another.
LEMMA ReplacedTyped ==
  ASSUME NEW It, NEW e \in Engines(It)
  PROVE  /\ \A q \in Seq(It) : [e EXCEPT !.queue = q] \in Engines(It)
         /\ \A h \in Seq(It) : Len(h) <= HistoryMax => [e EXCEPT !.history = h] \in Engines(It)
BY DEF Engines

\* Stopping drops the current item.
LEMMA StopTyped ==
  ASSUME NEW It, NEW e \in Engines(It)
  PROVE  StopOp(e) \in Engines(It)
BY DEF Engines, StopOp

-----------------------------------------------------------------------------
(* Types *)

Strands == [phase : {"none", "revoking", "switching"}, entries : Seq(Entry),
            gone : SUBSET Nat]

\* The type invariant with the shape of the records it is about.
Typed ==
    /\ eng \in Engines(Item)
    /\ locked \in BOOLEAN /\ random \in BOOLEAN /\ filling \in BOOLEAN
    /\ nextId \in Nat /\ clock \in Nat /\ restored \in Nat /\ switches \in Nat
    /\ strand \in Strands
    /\ filling => eng.queue = <<>> /\ eng.current = NoItem

\* The items a step creates.
LEMMA NewItemTyped ==
  ASSUME nextId \in Nat, clock \in Nat, NEW t \in Tracks, NEW s \in Stamps
  PROVE  NewItem(t, s) \in Item /\ s \in Nat /\ NewItem(t, s).id = nextId
<1>1. s \in Nat
  BY DEF Stamps, Ticks
<1> QED
  BY <1>1 DEF NewItem, Item

\* The three ways to enqueue.
LEMMA EnqueueTyped ==
  ASSUME Typed, Enqueue
  PROVE  Typed'
<1>1. ASSUME NEW bypass \in BOOLEAN, NEW t \in Tracks, AppendTrack(t, bypass)
      PROVE  Typed'
  <2>1. PICK s \in Stamps : eng' = [eng EXCEPT !.queue = Append(eng.queue, NewItem(t, s))]
                            /\ clock' = s
    BY <1>1 DEF AppendTrack
  <2>2. NewItem(t, s) \in Item /\ s \in Nat
    BY NewItemTyped DEF Typed
  <2>3. Append(eng.queue, NewItem(t, s)) \in Seq(Item)
    BY <2>2, EngineFields, AppendProperties DEF Typed
  <2>4. eng' \in Engines(Item)
    BY <2>1, <2>3, ReplacedTyped DEF Typed
  <2> QED
    BY <1>1, <2>1, <2>2, <2>4 DEF Typed, AppendTrack
<1>2. ASSUME NEW bypass \in BOOLEAN, NEW t \in Tracks, NEW u \in Tracks,
             AppendMany(t, u, bypass)
      PROVE  Typed'
  <2>1. PICK s \in Stamps, gap \in Ticks :
          /\ eng' = [eng EXCEPT !.queue = eng.queue \o
                       <<NewItem(t, s), [NewItem(u, s + gap) EXCEPT !.id = nextId + 1]>>]
          /\ clock' = s + gap
    BY <1>2 DEF AppendMany
  <2> DEFINE x == NewItem(t, s)
             y == [NewItem(u, s + gap) EXCEPT !.id = nextId + 1]
  <2>2. x \in Item /\ s \in Nat
    BY NewItemTyped DEF Typed
  <2>3. y \in Item /\ s + gap \in Nat
    <3>1. gap \in {0, 1} /\ nextId \in Nat
      BY DEF Ticks, Typed
    <3>2. s + gap \in Nat
      BY <2>2, <3>1
    <3> DEFINE z == NewItem(u, s + gap)
    <3>3. z \in Item
      BY <3>1, <3>2 DEF NewItem, Item
    <3> HIDE DEF z
    <3>4. [z EXCEPT !.id = nextId + 1] \in Item
      BY <3>1, <3>3 DEF Item
    <3> QED
      BY <3>2, <3>4 DEF z
  <2>4. eng.queue \o <<x, y>> \in Seq(Item)
    <3> HIDE DEF x, y
    <3>1. <<x, y>> \in Seq(Item)
      BY <2>2, <2>3
    <3> QED
      BY <3>1, EngineFields, ConcatProperties DEF Typed
  <2>5. eng' \in Engines(Item)
    BY <2>1, <2>4, ReplacedTyped DEF Typed
  <2> QED
    BY <1>2, <2>1, <2>3, <2>5 DEF Typed, AppendMany
<1> QED
  BY <1>1, <1>2 DEF Enqueue

\* The edits of the lists.
LEMMA EditTyped ==
  ASSUME Typed, Edit
  PROVE  Typed'
<1>0. eng.queue \in Seq(Item) /\ eng.history \in Seq(Item) /\ Len(eng.history) <= HistoryMax
  BY EngineFields DEF Typed
<1>1. ASSUME NEW receipts, Len(receipts) \in Nat, RemoveEntries(receipts)
      PROVE  Typed'
  <2>1. RemoveEntriesOp(eng.queue, receipts) \in Seq(Item)
    BY <1>0, <1>1, RemovalKeeps
  <2>2. eng' \in Engines(Item)
    BY <1>1, <2>1, ReplacedTyped DEF Typed, RemoveEntries
  <2> QED
    BY <1>1, <2>2 DEF Typed, RemoveEntries
<1>2. ASSUME NEW r, RemoveHistoryEntry(r)
      PROVE  Typed'
  <2>1. PICK i \in DOMAIN eng.history : eng' = [eng EXCEPT !.history = Delete(eng.history, i)]
    BY <1>2 DEF RemoveHistoryEntry
  <2>2. i \in 1 .. Len(eng.history) /\ Len(eng.history) \in Nat
    BY <1>0, LenProperties
  <2>3. Delete(eng.history, i) \in Seq(Item) /\ Len(Delete(eng.history, i)) <= HistoryMax
    BY <1>0, <2>2, Deleted, HistoryMaxAssumption, SMTT(30)
  <2>4. eng' \in Engines(Item)
    BY <2>1, <2>3, ReplacedTyped DEF Typed
  <2> QED
    BY <1>2, <2>4 DEF Typed, RemoveHistoryEntry
<1>3. ASSUME NEW i \in DOMAIN eng.queue, RemoveAtPosition(i)
      PROVE  Typed'
  <2>1. i \in 1 .. Len(eng.queue)
    BY <1>0, LenProperties
  <2>2. Delete(eng.queue, i) \in Seq(Item)
    BY <1>0, <2>1, Deleted
  <2>3. eng' \in Engines(Item)
    BY <1>3, <2>2, ReplacedTyped DEF Typed, RemoveAtPosition
  <2> QED
    BY <1>3, <2>3 DEF Typed, RemoveAtPosition
<1>4. ASSUME NEW i \in DOMAIN eng.queue, NEW j \in DOMAIN eng.queue, Move(i, j)
      PROVE  Typed'
  <2>1. i \in 1 .. Len(eng.queue) /\ j \in 1 .. Len(eng.queue) /\ Len(eng.queue) \in Nat
    BY <1>0, LenProperties
  <2>2. /\ Delete(eng.queue, i) \in Seq(Item)
        /\ Len(Delete(eng.queue, i)) = Len(eng.queue) - 1
        /\ eng.queue[i] \in Item
    BY <1>0, <2>1, Deleted, ElementOfSeq
  <2>3. j \in 1 .. Len(Delete(eng.queue, i)) + 1
    BY <2>1, <2>2
  <2>4. Insert(Delete(eng.queue, i), j, eng.queue[i]) \in Seq(Item)
    <3> DEFINE d == Delete(eng.queue, i)
               x == eng.queue[i]
    <3> HIDE DEF d, x
    <3>1. d \in Seq(Item) /\ x \in Item /\ j \in 1 .. Len(d) + 1
      BY <2>2, <2>3 DEF d, x
    <3>2. Insert(d, j, x) \in Seq(Item)
      BY <3>1, Inserted
    <3> QED
      BY <3>2 DEF d, x
  <2>5. eng' \in Engines(Item)
    BY <1>4, <2>4, ReplacedTyped DEF Typed, Move
  <2> QED
    BY <1>4, <2>5 DEF Typed, Move
<1>5. ASSUME Clear PROVE Typed'
  <2>1. <<>> \in Seq(Item) /\ eng' = [eng EXCEPT !.queue = <<>>]
    BY <1>5 DEF Clear
  <2>2. eng' \in Engines(Item)
    BY <2>1, ReplacedTyped DEF Typed
  <2> QED
    BY <1>5, <2>2 DEF Typed, Clear
<1>6. ASSUME NEW b \in BOOLEAN, SetLocked(b) \/ SetEndBehavior(b) PROVE Typed'
  BY <1>6 DEF Typed, SetLocked, SetEndBehavior
<1>7. \A r, s : Len(<<r>>) \in Nat /\ Len(<<r, s>>) \in Nat
  OBVIOUS
<1> QED
  BY <1>1, <1>2, <1>3, <1>4, <1>5, <1>6, <1>7 DEF Edit

\* The moves of the playback pointer.
LEMMA PlayTyped ==
  ASSUME Typed, Play
  PROVE  Typed'
<1>1. CASE Advance
  <2>1. eng' \in Engines(Item)
    BY <1>1, AdvanceTyped DEF Typed, Advance
  <2> QED
    BY <1>1, <2>1 DEF Typed, Advance
<1>2. CASE AdvanceAsks
  <2>1. eng' \in Engines(Item) /\ eng'.queue = <<>> /\ eng'.current = NoItem
    BY <1>2, RetireTyped DEF Typed, AdvanceAsks
  <2> QED
    BY <1>2, <2>1 DEF Typed, AdvanceAsks
<1>3. CASE AdvanceEmpty
  BY <1>3 DEF Typed, AdvanceEmpty
<1>4. ASSUME NEW t \in Tracks, AdvanceFilled(t) PROVE Typed'
  <2>1. PICK s \in Stamps :
          /\ eng' = [eng EXCEPT !.current = NewItem(t, s), !.playing = TRUE]
          /\ clock' = s
    BY <1>4 DEF AdvanceFilled
  <2>2. NewItem(t, s) \in Item /\ s \in Nat
    BY NewItemTyped DEF Typed
  <2>3. eng' \in Engines(Item)
    BY <2>1, <2>2 DEF Typed, Engines
  <2>4. /\ filling' = FALSE /\ nextId' = nextId + 1
        /\ UNCHANGED <<locked, random, strand, restored, switches>>
    BY <1>4 DEF AdvanceFilled
  <2>5. clock' \in Nat
    BY <2>1, <2>2
  <2>6. nextId' \in Nat /\ strand' \in Strands /\ restored' \in Nat /\ switches' \in Nat
    BY <2>4 DEF Typed
  <2>7. locked' \in BOOLEAN /\ random' \in BOOLEAN /\ filling' \in BOOLEAN /\ ~filling'
    BY <2>4 DEF Typed
  <2> QED
    BY <2>3, <2>5, <2>6, <2>7 DEF Typed
<1>5. ASSUME NEW e \in Engines(Item), Rearrange(e) PROVE Typed'
  BY <1>5 DEF Typed, Rearrange
<1>6. CASE SkipBack \/ SkipHeldFront \/ SkipBackHeldFront \/ CloseOut \/ SetStopped
  <2>1. /\ SkipBackOp(eng) \in Engines(Item) /\ SkipHeldOp(eng) \in Engines(Item)
        /\ SkipBackHeldOp(eng) \in Engines(Item) /\ RetireCurrent(eng) \in Engines(Item)
        /\ StopOp(eng) \in Engines(Item)
    BY SkipBackTyped, SkipHeldTyped, SkipBackHeldTyped, RetireTyped, StopTyped DEF Typed
  <2> QED
    BY <1>5, <1>6, <2>1 DEF SkipBack, SkipHeldFront, SkipBackHeldFront, CloseOut, SetStopped
<1>7. ASSUME NEW b \in BOOLEAN, HoldCurrent(b) \/ SetPaused(b) PROVE Typed'
  <2>1. HoldOp(eng, b) \in Engines(Item)
    BY HoldTyped DEF Typed
  <2>2. [eng EXCEPT !.paused = b] \in Engines(Item)
    BY DEF Typed, Engines
  <2> QED
    BY <1>5, <1>7, <2>1, <2>2 DEF HoldCurrent, SetPaused
<1> QED
  BY <1>1, <1>2, <1>3, <1>4, <1>6, <1>7 DEF Play

\* A snapshot has one receipt per entry.
LEMMA ReceiptsLen ==
  ASSUME strand \in Strands
  PROVE  Len(ReceiptsOf(strand.entries)) \in Nat
<1>1. strand.entries \in Seq(Entry)
  BY DEF Strands
<1>2. ReceiptsOf(strand.entries)
        = [i \in 1 .. Len(strand.entries) |-> Receipt(strand.entries[i].item)]
  BY <1>1 DEF ReceiptsOf
<1>3. ReceiptsOf(strand.entries)
        \in Seq({Receipt(strand.entries[i].item) : i \in 1 .. Len(strand.entries)})
  BY <1>1, <1>2
<1> QED
  BY <1>3, LenProperties

\* The output switch.
LEMMA SwitchTyped ==
  ASSUME Typed, Switch
  PROVE  Typed'
<1>0. eng.queue \in Seq(Item) /\ Seq(Entry) = Seq(Pairs(Item))
  BY EngineFields DEF Typed, Entry, Pairs
<1>1. ASSUME NEW S \in SUBSET Tracks, StrandedConfirm(S) PROVE Typed'
  <2>1. PositionsOf(eng.queue, S) \in Seq(Entry)
    BY <1>0, Snapshot
  <2>2. strand' = [phase |-> "revoking", entries |-> PositionsOf(eng.queue, S), gone |-> {}]
    BY <1>1 DEF StrandedConfirm
  <2>3. strand' \in Strands
    BY <2>1, <2>2 DEF Strands
  <2> QED
    BY <1>1, <2>3 DEF Typed, StrandedConfirm
<1>2. CASE StrandedRemove
  <2> DEFINE q == Removal(strand.entries)
  <2>1. Len(ReceiptsOf(strand.entries)) \in Nat
    BY ReceiptsLen DEF Typed
  <2>2. q \in Seq(Item)
    BY <1>0, <2>1, RemovalKeeps DEF Removal
  <2>3. IdsOf(eng.queue) \subseteq Nat
    <3>1. \A i \in DOMAIN eng.queue : eng.queue[i] \in Item
      BY <1>0, ElementOfSeq, LenProperties
    <3>2. \A x \in Item : x.id \in Nat
      BY DEF Item
    <3> QED
      BY <3>1, <3>2 DEF IdsOf
  <2>4. /\ eng' = [eng EXCEPT !.queue = q]
        /\ strand' = [strand EXCEPT !.phase = "switching", !.gone = IdsOf(eng.queue) \ IdsOf(q)]
        /\ ~filling /\ UNCHANGED <<locked, random, filling, nextId, clock, restored, switches>>
    BY <1>2 DEF StrandedRemove
  <2> HIDE DEF q
  <2>5. eng' \in Engines(Item)
    BY <2>2, <2>4, ReplacedTyped DEF Typed
  <2>6. strand' \in Strands
    BY <2>3, <2>4 DEF Typed, Strands
  <2> QED
    BY <2>4, <2>5, <2>6 DEF Typed
<1>3. Idle \in Strands
  BY DEF Idle, Strands
<1>4. CASE SwitchSucceeds
  BY <1>3, <1>4 DEF Typed, SwitchSucceeds
<1>5. CASE SwitchFails
  <2>1. strand.entries \in Seq(Pairs(Item)) /\ Len(strand.entries) \in Nat
    BY <1>0, LenProperties DEF Typed, Strands
  <2>2. RestoreEntriesOp(eng.queue, strand.entries) \in Seq(Item)
    BY <1>0, <2>1, RestoreKeeps
  <2>3. eng' \in Engines(Item)
    BY <1>5, <2>2, ReplacedTyped DEF Typed, SwitchFails
  <2> QED
    BY <1>3, <1>5, <2>1, <2>3 DEF Typed, SwitchFails
<1> QED
  BY <1>1, <1>2, <1>4, <1>5 DEF Switch

\* The first state.
LEMMA InitTyped == Init => Typed
<1> SUFFICES ASSUME Init PROVE Typed
  OBVIOUS
<1>1. eng \in Engines(Item)
  <2>1. <<>> \in Seq(Item) /\ Len(<<>>) = 0
    OBVIOUS
  <2> QED
    BY <2>1, HistoryMaxAssumption DEF Init, Engines
<1>2. strand \in Strands
  BY DEF Init, Idle, Strands
<1> QED
  BY <1>1, <1>2 DEF Init, Typed

\* The shape holds in every behaviour.
LEMMA AlwaysTyped == Spec => []Typed
<1>1. Typed /\ [Next]_vars => Typed'
  <2> SUFFICES ASSUME Typed, [Next]_vars PROVE Typed'
    OBVIOUS
  <2>1. CASE UNCHANGED vars
    BY <2>1 DEF Typed, vars
  <2> QED
    BY <2>1, EnqueueTyped, EditTyped, PlayTyped, SwitchTyped DEF Next
<1> QED
  BY <1>1, InitTyped, PTL DEF Spec

\* Every variable of the engine keeps its type, and while advance() awaits the
\* auto-fill provider nothing is queued or playing (engine.py:303-331): the
\* lock it holds keeps every other operation out.
THEOREM TypeCorrect == Spec => []TypeOK
<1>1. Typed => TypeOK
  BY DEF Typed, TypeOK, Engines, Strands
<1> QED
  BY <1>1, AlwaysTyped, PTL

-----------------------------------------------------------------------------
(* Round trips *)

\* Engine values that agree on every field are equal.
LEMMA EngineEqual ==
  ASSUME NEW It, NEW e \in Engines(It), NEW r \in Engines(It),
         r.queue = e.queue, r.history = e.history, r.current = e.current,
         r.playing = e.playing, r.paused = e.paused
  PROVE  r = e
BY DEF Engines

\* A prefix as long as the list is the list.
LEMMA WholePrefix ==
  ASSUME NEW It, NEW s \in Seq(It)
  PROVE  SubSeq(s, 1, Len(s)) = s
<1> DEFINE t == SubSeq(s, 1, Len(s))
<1>0. Len(s) \in Nat /\ \A i \in 1 .. Len(s) : s[i] \in It
  BY LenProperties, ElementOfSeq
<1>1. t \in Seq(It) /\ Len(t) = Len(s) /\ \A i \in 1 .. Len(s) : t[i] = s[i]
  BY <1>0, SubSeqProperties
<1> HIDE DEF t
<1>2. t = s
  BY <1>1, SeqEqual
<1> QED
  BY <1>2 DEF t

\* Skip Back and then Skip.
LEMMA SkipBackThenSkip ==
  ASSUME NEW It, NoItem \notin It, NEW e \in Engines(It),
         e.current # NoItem, e.history # <<>>
  PROVE  AdvanceOp(SkipBackOp(e)) = [e EXCEPT !.playing = TRUE, !.paused = FALSE]
<1> DEFINE b == SkipBackOp(e)
           r == RetireCurrent(b)
           x == e.current
           y == Head(e.history)
           h == Tail(e.history)
           q == e.queue
<1>1. /\ y \in It /\ h \in Seq(It) /\ Len(h) = Len(e.history) - 1
      /\ e.history = <<y>> \o h /\ x \in It /\ q \in Seq(It)
      /\ Len(e.history) <= HistoryMax /\ Len(h) \in Nat /\ Len(e.history) \in Nat
  BY EngineFields, TailIds, LenProperties
<1>2. b = [e EXCEPT !.queue = <<x>> \o q, !.history = h, !.current = y,
                    !.playing = TRUE, !.paused = FALSE]
  BY DEF SkipBackOp
<1>3. /\ b \in Engines(It) /\ b.queue = <<x>> \o q /\ b.history = h /\ b.current = y
  <2>1. b \in Engines(It)
    BY SkipBackTyped
  <2> HIDE DEF b, x, y, h, q
  <2> QED
    BY <1>2, <2>1 DEF Engines
<1> HIDE DEF b
<1>4. /\ r \in Engines(It) /\ r.queue = <<x>> \o q /\ r.history = PushHistory(h, y)
      /\ r.paused = FALSE
  BY <1>1, <1>3, RetireTyped
<1>5. PushHistory(h, y) = e.history
  <2>1. Len(h) < HistoryMax
    BY <1>1, HistoryMaxAssumption
  <2>2. PushHistory(h, y) = <<y>> \o SubSeq(h, 1, Len(h))
    BY <2>1 DEF PushHistory
  <2> HIDE DEF h, y
  <2> QED
    BY <1>1, <2>2, WholePrefix
<1>6. AdvanceOp(b) = IF r.queue = <<>> THEN r ELSE PopFront(r)
  BY DEF AdvanceOp
<1>7. <<x>> \o q # <<>> /\ Head(<<x>> \o q) = x /\ Tail(<<x>> \o q) = q
  <2> HIDE DEF x, q
  <2> QED
    BY <1>1, ConsTyped
<1> DEFINE p == PopFront(r)
<1> HIDE DEF r
<1>8. /\ p \in Engines(It) /\ p.queue = q /\ p.history = e.history /\ p.current = x
      /\ p.playing = TRUE /\ p.paused = FALSE
  <2>1. r \in Engines(It) /\ r.queue # <<>>
    BY <1>4, <1>7
  <2>2. /\ p \in Engines(It) /\ p.queue = Tail(r.queue) /\ p.history = r.history
        /\ p.current = Head(r.queue) /\ p.playing = TRUE /\ p.paused = r.paused
    BY <2>1, PopTyped
  <2> HIDE DEF p, q, x, h, y
  <2> QED
    BY <1>4, <1>5, <1>7, <2>2
<1>9. AdvanceOp(b) = p
  BY <1>4, <1>6, <1>7
<1> HIDE DEF p
<1> DEFINE z == [e EXCEPT !.playing = TRUE, !.paused = FALSE]
<1>10. /\ z \in Engines(It) /\ z.queue = e.queue /\ z.history = e.history
       /\ z.current = e.current /\ z.playing = TRUE /\ z.paused = FALSE
  BY DEF Engines
<1> HIDE DEF z
<1>11. p = z
  BY <1>8, <1>10, EngineEqual DEF x, q
<1> QED
  BY <1>9, <1>11 DEF b, z

\* Skip Back followed by Skip returns to the interrupted track and leaves queue
\* and history as they were (skip_back, engine.py:336-345): the slot Skip Back
\* freed in the history is there for the push, so nothing is evicted.
THEOREM SkipBackReturns == Spec => []SkipBackRoundTrip
<1>1. Typed => SkipBackRoundTrip
  BY NoItemAssumption, SkipBackThenSkip DEF Typed, SkipBackRoundTrip
<1> QED
  BY <1>1, AlwaysTyped, PTL

\* The held pointer moved on and back.
LEMMA HeldThenBack ==
  ASSUME NEW It, NEW e \in Engines(It), e.queue # <<>>
  PROVE  LET back == SkipBackHeldOp(SkipHeldOp(e))
         IN /\ back.queue = e.queue
            /\ back.history = SubSeq(e.history, 1, Len(back.history))
            /\ Len(back.history) >= Len(e.history) - 1
<1> DEFINE b == SkipHeldOp(e)
           x == Head(e.queue)
           t == Tail(e.queue)
           h == e.history
           n == IF Len(h) < HistoryMax THEN Len(h) ELSE HistoryMax - 1
           k == SubSeq(h, 1, n)
<1>1. /\ x \in It /\ t \in Seq(It) /\ e.queue = <<x>> \o t
      /\ h \in Seq(It) /\ Len(h) <= HistoryMax /\ Len(h) \in Nat
  BY EngineFields, TailIds, LenProperties
<1>2. n \in 0 .. Len(h) /\ n >= Len(h) - 1
  BY <1>1, HistoryMaxAssumption
<1>3. k \in Seq(It) /\ Len(k) = n
  <2> HIDE DEF n, h
  <2> QED
    BY <1>1, <1>2, PrefixIds
<1>4. PushHistory(h, x) = <<x>> \o k
  BY DEF PushHistory
<1>5. b = [e EXCEPT !.queue = t, !.history = PushHistory(h, x)]
  BY DEF SkipHeldOp
<1>6. b \in Engines(It) /\ b.queue = t /\ b.history = <<x>> \o k
  <2>1. b \in Engines(It)
    BY SkipHeldTyped
  <2> HIDE DEF b, t, h, x, k
  <2> QED
    BY <1>4, <1>5, <2>1 DEF Engines
<1>7. <<x>> \o k # <<>> /\ Head(<<x>> \o k) = x /\ Tail(<<x>> \o k) = k
  <2> HIDE DEF x, k
  <2> QED
    BY <1>1, <1>3, ConsTyped
<1> HIDE DEF b, k, x, t
<1> DEFINE back == SkipBackHeldOp(b)
<1>8. back = [b EXCEPT !.queue = <<x>> \o t, !.history = k]
  BY <1>6, <1>7 DEF SkipBackHeldOp
<1>9. back.queue = <<x>> \o t /\ back.history = k
  BY <1>6, <1>8 DEF Engines
<1> HIDE DEF back, n
<1>10. /\ back.queue = e.queue /\ Len(back.history) = n
       /\ back.history = SubSeq(h, 1, n)
  BY <1>1, <1>3, <1>9 DEF k
<1> QED
  BY <1>2, <1>10 DEF back, b

\* Skip and then Skip Back while the output is held leaves the held front where
\* it was; of the history at most the oldest entry is gone (skip_held_front and
\* skip_back_held_front).
THEOREM HeldPointerReturns == Spec => []HeldPointerRoundTrip
<1>1. Typed => HeldPointerRoundTrip
  BY HeldThenBack DEF Typed, HeldPointerRoundTrip
<1> QED
  BY <1>1, AlwaysTyped, PTL

\* A failed output switch leaves the queue exactly as it was, whichever tracks
\* were stranded, however many entries share a receipt and whichever of those
\* remove_entries took for which receipt (state.py:3999-4017).
THEOREM RollbackRestores == Spec => []RollbackExact
<1>1. Typed => RollbackExact
  BY EngineFields, RollbackIsExact DEF Typed, RollbackExact, Removal
<1> QED
  BY <1>1, AlwaysTyped, PTL

-----------------------------------------------------------------------------
(* Where the items are *)

\* The two names of the identities in a list.
LEMMA IdsSame == \A s : IdsOf(s) = IdsIn(s)
BY DEF IdsOf, IdsIn

\* A push on a history pushes out what Evicted says.
LEMMA PushExact ==
  ASSUME NEW It, NEW h \in Seq(It), Len(h) <= HistoryMax, Uniq(h),
         NEW x \in It, x.id \notin IdsIn(h)
  PROVE  /\ IdsIn(PushHistory(h, x)) = {x.id} \cup (IdsIn(h) \ IdsIn(Evicted(h)))
         /\ IdsIn(Evicted(h)) \subseteq IdsIn(h)
<1> DEFINE n == IF Len(h) < HistoryMax THEN Len(h) ELSE HistoryMax - 1
           k == SubSeq(h, 1, n)
<1>0. Len(h) \in Nat /\ HistoryMax \in Nat /\ HistoryMax >= 1 /\ DOMAIN h = 1 .. Len(h)
  BY LenProperties, HistoryMaxAssumption
<1>1. n \in 0 .. Len(h)
  BY <1>0
<1>2. k \in Seq(It) /\ IdsIn(k) = {h[i].id : i \in 1 .. n}
  <2> HIDE DEF n
  <2> QED
    BY <1>1, PrefixIds
<1>3. PushHistory(h, x) = <<x>> \o k
  BY DEF PushHistory
<1> HIDE DEF k
<1>4. IdsIn(<<x>> \o k) = {x.id} \cup {h[i].id : i \in 1 .. n}
  BY <1>2, ConsIds
<1>5. CASE Len(h) < HistoryMax
  <2>1. Evicted(h) = <<>> /\ n = Len(h)
    BY <1>5 DEF Evicted
  <2>2. IdsIn(Evicted(h)) = {}
    BY <2>1, SmallIds
  <2>3. IdsIn(h) = {h[i].id : i \in 1 .. n}
    BY <1>0, <2>1 DEF IdsIn
  <2> QED
    BY <1>3, <1>4, <2>2, <2>3
<1>6. CASE ~ (Len(h) < HistoryMax)
  <2>0. Len(h) = HistoryMax
    <3> HIDE DEF n
    <3>1. \A a, b \in Nat : a <= b /\ ~ (a < b) => a = b
      OBVIOUS
    <3> QED
      BY <1>0, <1>6, <3>1
  <2>n. n = Len(h) - 1 /\ n \in Nat /\ Len(h) \in 1 .. Len(h)
    BY <1>0, <1>6, <2>0
  <2>1. Evicted(h) = <<h[Len(h)]>>
    BY <1>6 DEF Evicted
  <2> HIDE DEF n
  <2>2. IdsIn(Evicted(h)) = {h[Len(h)].id}
    BY <2>1, SmallIds
  <2>3. IdsIn(h) = {h[i].id : i \in 1 .. Len(h)}
    BY <1>0 DEF IdsIn
  <2>4. {h[i].id : i \in 1 .. n} = IdsIn(h) \ {h[Len(h)].id}
    <3>0. \A m \in Nat : \A i \in 1 .. m : i \in 1 .. m - 1 \/ i = m
      OBVIOUS
    <3>a. \A m \in Nat : \A i \in 1 .. m - 1 : i \in 1 .. m /\ i # m
      BY SMTT(30)
    <3>1. \A i \in 1 .. n : i \in 1 .. Len(h) /\ i # Len(h)
      BY <1>0, <2>n, <3>a, ZenonT(60)
    <3>2. \A i \in 1 .. Len(h) : i \in 1 .. n \/ i = Len(h)
      BY <1>0, <2>n, <3>0, ZenonT(60)
    <3>3. \A i \in 1 .. n : h[i].id # h[Len(h)].id
      BY <1>0, <2>n, <3>1 DEF Uniq
    <3> QED
      BY <2>3, <3>1, <3>2, <3>3
  <2>5. h[Len(h)].id \in IdsIn(h)
    BY <2>n, <2>3
  <2> QED
    BY <1>3, <1>4, <2>2, <2>4, <2>5, SMTT(30)
<1> QED
  BY <1>5, <1>6

\* Retiring loses what Lost says.
LEMMA RetireExact ==
  ASSUME NEW e \in Engines(Item), Apart(e)
  PROVE  /\ Apart(RetireCurrent(e))
         /\ IdSet(RetireCurrent(e)) = IdSet(e) \ Lost(e)
         /\ Lost(e) \subseteq IdSet(e)
<1> DEFINE r == RetireCurrent(e)
<1>1. /\ r \in Engines(Item) /\ r.queue = e.queue /\ r.current = NoItem
      /\ r.history = IF e.current = NoItem THEN e.history
                     ELSE PushHistory(e.history, e.current)
  BY RetireTyped
<1>2. Apart(r)
  BY NoItemAssumption, RetireIds
<1> HIDE DEF r
<1>3. IdSet(r) = IdsIn(e.queue) \cup IdsIn(r.history)
  BY <1>1 DEF IdSet, IdCurrent
<1>4. CASE e.current = NoItem
  BY <1>1, <1>2, <1>3, <1>4 DEF Lost, IdSet, IdCurrent, r
<1>5. CASE e.current # NoItem
  <2>1. /\ e.current \in Item /\ e.history \in Seq(Item) /\ Len(e.history) <= HistoryMax
        /\ Uniq(e.history) /\ e.current.id \notin IdsIn(e.history)
        /\ e.current.id \notin IdsIn(e.queue)
        /\ IdsIn(e.queue) \cap IdsIn(e.history) = {}
    BY <1>5, EngineFields DEF Apart, IdCurrent
  <2>2. /\ IdsIn(r.history) = {e.current.id} \cup (IdsIn(e.history) \ IdsIn(Evicted(e.history)))
        /\ IdsIn(Evicted(e.history)) \subseteq IdsIn(e.history)
    BY <1>1, <1>5, <2>1, PushExact
  <2>3. Lost(e) = IdsIn(Evicted(e.history))
    BY <1>5, IdsSame DEF Lost
  <2>4. IdSet(e) = IdsIn(e.queue) \cup IdsIn(e.history) \cup {e.current.id}
    BY <1>5 DEF IdSet, IdCurrent
  <2> QED
    BY <1>2, <1>3, <2>1, <2>2, <2>3, <2>4 DEF r
<1> QED
  BY <1>4, <1>5

\* Advancing loses no more.
LEMMA AdvanceExact ==
  ASSUME NEW e \in Engines(Item), Apart(e)
  PROVE  /\ Apart(AdvanceOp(e))
         /\ IdSet(AdvanceOp(e)) = IdSet(e) \ Lost(e)
         /\ Lost(e) \subseteq IdSet(e)
<1> DEFINE r == RetireCurrent(e)
<1>1. Apart(AdvanceOp(e))
  BY NoItemAssumption, AdvanceIds
<1>2. r \in Engines(Item) /\ r.current = NoItem
  BY RetireTyped
<1>3. IdSet(r) = IdSet(e) \ Lost(e) /\ Lost(e) \subseteq IdSet(e)
  BY RetireExact
<1>4. AdvanceOp(e) = IF r.queue = <<>> THEN r ELSE PopFront(r)
  BY DEF AdvanceOp
<1> HIDE DEF r
<1>5. CASE r.queue = <<>>
  BY <1>1, <1>3, <1>4, <1>5
<1>6. CASE r.queue # <<>>
  <2> DEFINE p == PopFront(r)
  <2>1. p.queue = Tail(r.queue) /\ p.history = r.history /\ p.current = Head(r.queue)
    BY <1>2, <1>6, PopTyped
  <2>2. Head(r.queue) \in Item /\ IdsIn(r.queue) = {Head(r.queue).id} \cup IdsIn(Tail(r.queue))
    BY <1>2, <1>6, EngineFields, TailIds
  <2> HIDE DEF p
  <2>3. IdSet(p) = IdSet(r)
    BY <1>2, <2>1, <2>2, NoItemAssumption DEF IdSet, IdCurrent
  <2> QED
    BY <1>1, <1>3, <1>4, <1>6, <2>3 DEF p
<1> QED
  BY <1>5, <1>6

\* The held front retires.
LEMMA SkipHeldExact ==
  ASSUME NEW e \in Engines(Item), Apart(e), e.queue # <<>>
  PROVE  /\ Apart(SkipHeldOp(e))
         /\ IdSet(SkipHeldOp(e)) = IdSet(e) \ IdsOf(Evicted(e.history))
         /\ IdsOf(Evicted(e.history)) \subseteq IdSet(e)
<1> DEFINE r == SkipHeldOp(e)
           x == Head(e.queue)
           t == Tail(e.queue)
<1>1. Apart(r) /\ r \in Engines(Item)
  BY NoItemAssumption, SkipHeldIds
<1>2. r.queue = t /\ r.history = PushHistory(e.history, x) /\ r.current = e.current
  <2>1. r = [e EXCEPT !.queue = t, !.history = PushHistory(e.history, x)]
    BY DEF SkipHeldOp
  <2> HIDE DEF r, t, x
  <2> QED
    BY <2>1 DEF Engines
<1>3. /\ x \in Item /\ IdsIn(e.queue) = {x.id} \cup IdsIn(t) /\ x.id \notin IdsIn(t)
      /\ e.history \in Seq(Item) /\ Len(e.history) <= HistoryMax
  BY EngineFields, TailIds DEF Apart
<1> HIDE DEF r, x, t
<1>4. /\ Uniq(e.history) /\ x.id \notin IdsIn(e.history)
      /\ IdsIn(e.queue) \cap IdsIn(e.history) = {}
      /\ IdCurrent(e) \cap (IdsIn(e.queue) \cup IdsIn(e.history)) = {}
  BY <1>3 DEF Apart
<1>5. /\ IdsIn(r.history) = {x.id} \cup (IdsIn(e.history) \ IdsIn(Evicted(e.history)))
      /\ IdsIn(Evicted(e.history)) \subseteq IdsIn(e.history)
  BY <1>2, <1>3, <1>4, PushExact
<1>6. IdSet(r) = IdsIn(t) \cup IdsIn(r.history) \cup IdCurrent(e)
  BY <1>2 DEF IdSet, IdCurrent
<1>7. IdSet(r) = IdSet(e) \ IdsIn(Evicted(e.history))
  BY <1>3, <1>4, <1>5, <1>6 DEF IdSet
<1> QED
  BY <1>1, <1>5, <1>7, IdsSame DEF r, IdSet

\* A queue put in place of another, with new items or with fewer.
LEMMA QueueSwap ==
  ASSUME NEW e \in Engines(Item), Apart(e), NEW q \in Seq(Item), Uniq(q)
  PROVE  LET r == [e EXCEPT !.queue = q]
         IN /\ (IdsIn(q) \ IdsIn(e.queue)) \cap IdSet(e) = {} => Apart(r)
            /\ IdSet(r) = IdsIn(q) \cup IdsIn(e.history) \cup IdCurrent(e)
<1> DEFINE r == [e EXCEPT !.queue = q]
<1>1. r.queue = q /\ r.history = e.history /\ r.current = e.current
  BY DEF Engines
<1> HIDE DEF r
<1>2. IdCurrent(r) = IdCurrent(e)
  BY <1>1 DEF IdCurrent
<1>3. IdSet(r) = IdsIn(q) \cup IdsIn(e.history) \cup IdCurrent(e)
  BY <1>1, <1>2 DEF IdSet
<1>4. (IdsIn(q) \ IdsIn(e.queue)) \cap IdSet(e) = {} => Apart(r)
  BY <1>1, <1>2 DEF Apart, IdSet
<1> QED
  BY <1>3, <1>4 DEF r

-----------------------------------------------------------------------------
(* No item is lost, none is in two places *)

\* The items a switch has set aside.
EntryIds(entries) == {entries[i].item.id : i \in 1 .. Len(entries)}
EntriesOnce(entries) ==
    \A i, j \in 1 .. Len(entries) : entries[i].item.id = entries[j].item.id => i = j

\* What a running switch knows.  When its removal does not wait for the
\* device: between its snapshot and its removal the snapshot is of the queue
\* as it is; after the removal the removed items are those of the snapshot,
\* each once.
StrandInv ==
    /\ strand.phase # "switching" => strand.gone = {}
    /\ strand.phase = "revoking" /\ ~RevokeSuspends =>
         \E S \in SUBSET Tracks : strand.entries = PositionsOf(eng.queue, S)
    /\ strand.phase = "switching" /\ ~RevokeSuspends =>
         strand.gone = EntryIds(strand.entries) /\ EntriesOnce(strand.entries)

\* Every item there ever was is in exactly one of: the engine, what was let go,
\* what a running switch has set aside.
Ledger ==
    /\ nextId >= 1
    /\ 1 .. nextId - 1 = IdSet(eng) \cup discarded \cup strand.gone
    /\ IdSet(eng) \cap discarded = {}
    /\ (IdSet(eng) \cup discarded) \cap strand.gone = {}

\* The inductive invariant.
Placed == Typed /\ Apart(eng) /\ Ledger /\ StrandInv

\* A step that leaves a running switch alone and accounts for what it moves.
LEMMA Accounted ==
  ASSUME Placed, Typed', strand.phase = "revoking" => RevokeSuspends, UNCHANGED strand,
         Apart(eng'), nextId' >= 1, NEW new,
         1 .. nextId' - 1 = (1 .. nextId - 1) \cup new, new \cap (1 .. nextId - 1) = {},
         IdSet(eng') \cup discarded' = IdSet(eng) \cup discarded \cup new,
         IdSet(eng') \cap discarded' = {}
  PROVE  Placed'
<1>1. Ledger'
  BY DEF Placed, Ledger
<1>2. StrandInv'
  BY DEF Placed, StrandInv
<1> QED
  BY <1>1, <1>2 DEF Placed

\* A step that creates nothing.
LEMMA AccountedOld ==
  ASSUME Placed, Typed', strand.phase = "revoking" => RevokeSuspends, UNCHANGED <<strand, nextId>>,
         Apart(eng'), IdSet(eng') \cup discarded' = IdSet(eng) \cup discarded,
         IdSet(eng') \cap discarded' = {}
  PROVE  Placed'
<1>1. /\ nextId' >= 1 /\ 1 .. nextId' - 1 = (1 .. nextId - 1) \cup {}
      /\ IdSet(eng') \cup discarded' = IdSet(eng) \cup discarded \cup {}
  BY DEF Placed, Ledger
<1> QED
  BY <1>1, Accounted

\* The items about to be created are new.
LEMMA FreshIds ==
  ASSUME Placed
  PROVE  /\ nextId \in Nat /\ nextId >= 1
         /\ IdSet(eng) \subseteq 1 .. nextId - 1 /\ discarded \subseteq 1 .. nextId - 1
         /\ nextId \notin 1 .. nextId - 1 /\ nextId + 1 \notin 1 .. nextId - 1
         /\ 1 .. (nextId + 1) - 1 = (1 .. nextId - 1) \cup {nextId}
         /\ 1 .. (nextId + 2) - 1 = (1 .. nextId - 1) \cup {nextId, nextId + 1}
<1>1. nextId \in Nat /\ nextId >= 1
  BY DEF Placed, Typed, Ledger
<1>2. /\ nextId \notin 1 .. nextId - 1 /\ nextId + 1 \notin 1 .. nextId - 1
      /\ 1 .. (nextId + 1) - 1 = (1 .. nextId - 1) \cup {nextId}
      /\ 1 .. (nextId + 2) - 1 = (1 .. nextId - 1) \cup {nextId, nextId + 1}
  BY <1>1
<1>3. IdSet(eng) \subseteq 1 .. nextId - 1 /\ discarded \subseteq 1 .. nextId - 1
  BY DEF Placed, Ledger
<1> QED
  BY <1>1, <1>2, <1>3

\* New items go behind the queue.
LEMMA EnqueuePlaced ==
  ASSUME Placed, strand.phase = "revoking" => RevokeSuspends, Enqueue
  PROVE  Placed'
<1>0. /\ Typed /\ eng \in Engines(Item) /\ Apart(eng) /\ eng.queue \in Seq(Item)
      /\ Uniq(eng.queue) /\ IdsIn(eng.queue) \subseteq IdSet(eng)
  BY EngineFields DEF Placed, Typed, Apart, IdSet
<1>t. Typed'
  BY <1>0, EnqueueTyped
<1>d. IdSet(eng) \cap discarded = {}
  BY DEF Placed, Ledger
<1>g. ASSUME NEW q \in Seq(Item), Uniq(q), NEW new, new \cap (1 .. nextId - 1) = {},
             IdsIn(q) = IdsIn(eng.queue) \cup new, eng' = [eng EXCEPT !.queue = q],
             nextId' >= 1, 1 .. nextId' - 1 = (1 .. nextId - 1) \cup new,
             UNCHANGED <<strand, discarded>>
      PROVE  Placed'
  <2>1. new \cap IdSet(eng) = {} /\ new \cap discarded = {}
    BY <1>g, FreshIds
  <2>2. Apart(eng') /\ IdSet(eng') = IdsIn(q) \cup IdsIn(eng.history) \cup IdCurrent(eng)
    BY <1>0, <1>g, <2>1, QueueSwap
  <2>3. IdSet(eng') = IdSet(eng) \cup new
    BY <1>g, <2>2 DEF IdSet
  <2>4. IdSet(eng') \cap discarded' = {}
    BY <1>d, <1>g, <2>1, <2>3
  <2>5. IdSet(eng') \cup discarded' = IdSet(eng) \cup discarded \cup new
    BY <1>g, <2>3
  <2> QED
    BY <1>g, <1>t, <2>2, <2>4, <2>5, Accounted
<1>1. ASSUME NEW bypass \in BOOLEAN, NEW t \in Tracks, AppendTrack(t, bypass)
      PROVE  Placed'
  <2>1. PICK s \in Stamps : eng' = [eng EXCEPT !.queue = Append(eng.queue, NewItem(t, s))]
    BY <1>1 DEF AppendTrack
  <2> DEFINE x == NewItem(t, s)
             q == Append(eng.queue, x)
  <2>2. x \in Item /\ x.id = nextId
    BY NewItemTyped, FreshIds DEF Placed, Typed
  <2> HIDE DEF x
  <2>3. nextId \notin IdsIn(eng.queue)
    BY <1>0, FreshIds
  <2>4. q \in Seq(Item) /\ Uniq(q) /\ IdsIn(q) = IdsIn(eng.queue) \cup {nextId}
    BY <1>0, <2>2, <2>3, AppendIds
  <2>5. eng' = [eng EXCEPT !.queue = q]
    BY <2>1 DEF x
  <2>6. nextId' = nextId + 1 /\ UNCHANGED <<strand, discarded>>
    BY <1>1 DEF AppendTrack
  <2>7. /\ nextId' >= 1 /\ 1 .. nextId' - 1 = (1 .. nextId - 1) \cup {nextId}
        /\ {nextId} \cap (1 .. nextId - 1) = {}
    BY <2>6, FreshIds
  <2> HIDE DEF q
  <2> QED
    BY <1>g, <2>4, <2>5, <2>6, <2>7
<1>2. ASSUME NEW bypass \in BOOLEAN, NEW t \in Tracks, NEW u \in Tracks,
             AppendMany(t, u, bypass)
      PROVE  Placed'
  <2>1. PICK s \in Stamps, gap \in Ticks :
          eng' = [eng EXCEPT !.queue = eng.queue \o
                    <<NewItem(t, s), [NewItem(u, s + gap) EXCEPT !.id = nextId + 1]>>]
    BY <1>2 DEF AppendMany
  <2> DEFINE x == NewItem(t, s)
             y == [NewItem(u, s + gap) EXCEPT !.id = nextId + 1]
             q == eng.queue \o <<x, y>>
  <2>2. x \in Item /\ x.id = nextId /\ s \in Nat
    BY NewItemTyped, FreshIds DEF Placed, Typed
  <2>3. y \in Item /\ y.id = nextId + 1
    <3>1. gap \in {0, 1} /\ nextId \in Nat
      BY FreshIds DEF Ticks
    <3>2. s + gap \in Nat
      BY <2>2, <3>1
    <3> DEFINE z == NewItem(u, s + gap)
    <3>3. z \in Item
      BY <3>1, <3>2 DEF NewItem, Item
    <3> HIDE DEF z
    <3>4. [z EXCEPT !.id = nextId + 1] \in Item /\ [z EXCEPT !.id = nextId + 1].id = nextId + 1
      BY <3>1, <3>3 DEF Item
    <3> QED
      BY <3>4 DEF z
  <2>4. eng' = [eng EXCEPT !.queue = q]
    BY <2>1
  <2> HIDE DEF x, y
  <2>5. <<x, y>> \in Seq(Item) /\ <<x, y>> = Append(<<x>>, y) /\ <<x>> \in Seq(Item)
    BY <2>2, <2>3
  <2>6. nextId # nextId + 1
    BY FreshIds
  <2>7. IdsIn(<<x>>) = {nextId} /\ Uniq(<<x>>)
    BY <2>2, SmallIds
  <2>8. IdsIn(<<x, y>>) = {nextId, nextId + 1} /\ Uniq(<<x, y>>)
    <3>1. IdsIn(Append(<<x>>, y)) = IdsIn(<<x>>) \cup {y.id}
      BY <2>3, <2>5, AppendIds, SMTT(30)
    <3>2. Uniq(Append(<<x>>, y))
      BY <2>3, <2>5, <2>6, <2>7, AppendIds
    <3> QED
      BY <2>3, <2>5, <2>7, <3>1, <3>2
  <2>9. IdsIn(eng.queue) \cap {nextId, nextId + 1} = {}
    BY <1>0, FreshIds
  <2>10. q \in Seq(Item) /\ Uniq(q) /\ IdsIn(q) = IdsIn(eng.queue) \cup {nextId, nextId + 1}
    <3> DEFINE a == eng.queue
               c == <<x, y>>
    <3>1. /\ a \in Seq(Item) /\ c \in Seq(Item) /\ Uniq(a) /\ Uniq(c)
          /\ IdsIn(c) = {nextId, nextId + 1} /\ IdsIn(a) \cap IdsIn(c) = {}
      BY <1>0, <2>5, <2>8, <2>9
    <3>2. q = a \o c /\ IdsIn(a) = IdsIn(eng.queue)
      OBVIOUS
    <3> HIDE DEF a, c, q
    <3>3. a \o c \in Seq(Item) /\ Uniq(a \o c) /\ IdsIn(a \o c) = IdsIn(a) \cup IdsIn(c)
      BY <3>1, ConcatIds
    <3> QED
      BY <3>1, <3>2, <3>3
  <2>11. nextId' = nextId + 2 /\ UNCHANGED <<strand, discarded>>
    BY <1>2 DEF AppendMany
  <2>12. /\ nextId' >= 1 /\ 1 .. nextId' - 1 = (1 .. nextId - 1) \cup {nextId, nextId + 1}
         /\ {nextId, nextId + 1} \cap (1 .. nextId - 1) = {}
    BY <2>11, FreshIds
  <2> HIDE DEF q
  <2> QED
    BY <1>g, <2>4, <2>10, <2>11, <2>12
<1> QED
  BY <1>1, <1>2 DEF Enqueue

\* The edits let go of what they say.
LEMMA EditPlaced ==
  ASSUME Placed, strand.phase = "revoking" => RevokeSuspends, Edit
  PROVE  Placed'
<1>0. /\ Typed /\ eng \in Engines(Item) /\ Apart(eng)
      /\ eng.queue \in Seq(Item) /\ eng.history \in Seq(Item)
      /\ Uniq(eng.queue) /\ Uniq(eng.history)
      /\ IdsIn(eng.queue) \cap IdsIn(eng.history) = {}
      /\ IdCurrent(eng) \cap (IdsIn(eng.queue) \cup IdsIn(eng.history)) = {}
  BY EngineFields DEF Placed, Typed, Apart
<1>t. Typed'
  BY <1>0, EditTyped
<1>d. IdSet(eng) \cap discarded = {}
  BY DEF Placed, Ledger
<1>q. ASSUME NEW q \in Seq(Item), Uniq(q), IdsIn(q) \subseteq IdsIn(eng.queue),
             eng' = [eng EXCEPT !.queue = q],
             discarded' = discarded \cup (IdsIn(eng.queue) \ IdsIn(q)),
             UNCHANGED <<strand, nextId>>
      PROVE  Placed'
  <2>1. (IdsIn(q) \ IdsIn(eng.queue)) \cap IdSet(eng) = {}
    BY <1>q
  <2>2. Apart(eng') /\ IdSet(eng') = IdsIn(q) \cup IdsIn(eng.history) \cup IdCurrent(eng)
    BY <1>0, <1>q, <2>1, QueueSwap
  <2>3. IdSet(eng') = IdSet(eng) \ (IdsIn(eng.queue) \ IdsIn(q))
    BY <1>0, <1>q, <2>2 DEF IdSet
  <2>4. IdsIn(eng.queue) \subseteq IdSet(eng)
    BY DEF IdSet
  <2>5. /\ IdSet(eng') \cup discarded' = IdSet(eng) \cup discarded
        /\ IdSet(eng') \cap discarded' = {}
    BY <1>d, <1>q, <2>3, <2>4
  <2> QED
    BY <1>q, <1>t, <2>2, <2>5, AccountedOld
<1>1. ASSUME NEW receipts, Len(receipts) \in Nat, RemoveEntries(receipts)
      PROVE  Placed'
  <2> DEFINE q == RemoveEntriesOp(eng.queue, receipts)
  <2>1. q \in Seq(Item) /\ \E D \in SUBSET (1 .. Len(eng.queue)) : Part(q, eng.queue, D)
    BY <1>0, <1>1, RemovalKeeps
  <2>2. /\ eng' = [eng EXCEPT !.queue = q]
        /\ discarded' = discarded \cup (IdsIn(eng.queue) \ IdsIn(q))
        /\ UNCHANGED <<strand, nextId>>
    BY <1>1, IdsSame DEF RemoveEntries
  <2> HIDE DEF q
  <2>3. Uniq(q) /\ IdsIn(q) \subseteq IdsIn(eng.queue)
    BY <1>0, <2>1, PartIds
  <2> QED
    BY <1>q, <2>1, <2>2, <2>3
<1>2. ASSUME NEW r, RemoveHistoryEntry(r)
      PROVE  Placed'
  <2>1. PICK i \in DOMAIN eng.history :
          /\ eng' = [eng EXCEPT !.history = Delete(eng.history, i)]
          /\ discarded' = discarded \cup {eng.history[i].id}
    BY <1>2 DEF RemoveHistoryEntry
  <2>2. UNCHANGED <<strand, nextId>>
    BY <1>2 DEF RemoveHistoryEntry
  <2> DEFINE h == Delete(eng.history, i)
             x == eng.history[i].id
  <2>3. i \in 1 .. Len(eng.history)
    BY <1>0, LenProperties
  <2>4. /\ h \in Seq(Item) /\ Uniq(h) /\ IdsIn(h) = IdsIn(eng.history) \ {x}
        /\ x \in IdsIn(eng.history)
    BY <1>0, <2>3, DeleteIds DEF IdsIn
  <2> HIDE DEF h, x
  <2>5. eng'.queue = eng.queue /\ eng'.history = h /\ eng'.current = eng.current
    BY <1>0, <2>1 DEF Engines, h
  <2>6. IdCurrent(eng') = IdCurrent(eng)
    BY <2>5 DEF IdCurrent
  <2>7. Apart(eng')
    BY <1>0, <2>4, <2>5, <2>6 DEF Apart
  <2>8. IdSet(eng') = IdSet(eng) \ {x} /\ x \in IdSet(eng)
    BY <1>0, <2>4, <2>5, <2>6 DEF IdSet
  <2>9. /\ IdSet(eng') \cup discarded' = IdSet(eng) \cup discarded
        /\ IdSet(eng') \cap discarded' = {}
    BY <1>d, <2>1, <2>8 DEF x
  <2> QED
    BY <1>t, <2>2, <2>7, <2>9, AccountedOld
<1>3. ASSUME NEW i \in DOMAIN eng.queue, RemoveAtPosition(i)
      PROVE  Placed'
  <2> DEFINE q == Delete(eng.queue, i)
  <2>1. i \in 1 .. Len(eng.queue)
    BY <1>0, LenProperties
  <2>2. q \in Seq(Item) /\ Uniq(q) /\ IdsIn(q) = IdsIn(eng.queue) \ {eng.queue[i].id}
    BY <1>0, <2>1, DeleteIds
  <2>3. eng.queue[i].id \in IdsIn(eng.queue)
    BY DEF IdsIn
  <2>4. eng' = [eng EXCEPT !.queue = q] /\ UNCHANGED <<strand, nextId>>
    BY <1>3 DEF RemoveAtPosition
  <2>5. discarded' = discarded \cup {eng.queue[i].id}
    BY <1>3 DEF RemoveAtPosition
  <2> HIDE DEF q
  <2> QED
    BY <1>q, <2>2, <2>3, <2>4, <2>5
<1>4. ASSUME NEW i \in DOMAIN eng.queue, NEW j \in DOMAIN eng.queue, Move(i, j)
      PROVE  Placed'
  <2> DEFINE q == Insert(Delete(eng.queue, i), j, eng.queue[i])
  <2>1. i \in 1 .. Len(eng.queue) /\ j \in 1 .. Len(eng.queue)
    BY <1>0, LenProperties
  <2>2. q \in Seq(Item) /\ Uniq(q) /\ IdsIn(q) = IdsIn(eng.queue)
    BY <1>0, <2>1, MoveIds
  <2>3. eng' = [eng EXCEPT !.queue = q] /\ UNCHANGED <<strand, nextId, discarded>>
    BY <1>4 DEF Move
  <2> HIDE DEF q
  <2> QED
    BY <1>q, <2>2, <2>3
<1>5. CASE Clear
  <2>1. <<>> \in Seq(Item) /\ Uniq(<<>>) /\ IdsIn(<<>>) = {}
    BY SmallIds
  <2>2. /\ eng' = [eng EXCEPT !.queue = <<>>] /\ UNCHANGED <<strand, nextId>>
        /\ discarded' = discarded \cup IdsIn(eng.queue)
    BY <1>5, IdsSame DEF Clear
  <2> QED
    BY <1>q, <2>1, <2>2
<1>6. ASSUME NEW b \in BOOLEAN, SetLocked(b) \/ SetEndBehavior(b)
      PROVE  Placed'
  <2>1. UNCHANGED <<eng, discarded, strand, nextId>>
    BY <1>6 DEF SetLocked, SetEndBehavior
  <2> QED
    BY <1>0, <1>d, <1>t, <2>1, AccountedOld
<1>7. \A r, s : Len(<<r>>) \in Nat /\ Len(<<r, s>>) \in Nat
  OBVIOUS
<1> QED
  BY <1>1, <1>2, <1>3, <1>4, <1>5, <1>6, <1>7 DEF Edit

\* Playback moves items between the lists, lets go of what a full history
\* pushes out or a stop drops, and creates the item auto-fill came back with.
LEMMA PlayPlaced ==
  ASSUME Placed, strand.phase = "revoking" => RevokeSuspends, Play
  PROVE  Placed'
<1>0. /\ Typed /\ eng \in Engines(Item) /\ Apart(eng) /\ NoItem \notin Item
      /\ eng.queue \in Seq(Item) /\ eng.history \in Seq(Item) /\ Len(eng.history) <= HistoryMax
      /\ eng.current \in Item \cup {NoItem}
  BY NoItemAssumption, EngineFields DEF Placed, Typed
<1>t. Typed'
  BY <1>0, PlayTyped
<1>d. IdSet(eng) \cap discarded = {}
  BY DEF Placed, Ledger
<1>g. ASSUME Apart(eng'), NEW gone, gone \subseteq IdSet(eng),
             IdSet(eng') = IdSet(eng) \ gone, discarded' = discarded \cup gone,
             UNCHANGED <<strand, nextId>>
      PROVE  Placed'
  <2>1. /\ IdSet(eng') \cup discarded' = IdSet(eng) \cup discarded
        /\ IdSet(eng') \cap discarded' = {}
    BY <1>d, <1>g
  <2> QED
    BY <1>g, <1>t, <2>1, AccountedOld
<1>s. ASSUME Apart(eng'), IdSet(eng') = IdSet(eng), UNCHANGED <<discarded, strand, nextId>>
      PROVE  Placed'
  <2>1. /\ IdSet(eng') \cup discarded' = IdSet(eng) \cup discarded
        /\ IdSet(eng') \cap discarded' = {}
    BY <1>d, <1>s
  <2> QED
    BY <1>s, <1>t, <2>1, AccountedOld
<1>1. CASE Advance
  <2>1. eng' = AdvanceOp(eng) /\ discarded' = discarded \cup Lost(eng) /\ UNCHANGED <<strand, nextId>>
    BY <1>1 DEF Advance
  <2> QED
    BY <1>0, <1>g, <2>1, AdvanceExact
<1>2. CASE AdvanceAsks \/ CloseOut
  <2>1. /\ eng' = RetireCurrent(eng) /\ discarded' = discarded \cup Lost(eng)
        /\ UNCHANGED <<strand, nextId>>
    BY <1>2 DEF AdvanceAsks, CloseOut, Rearrange
  <2> QED
    BY <1>0, <1>g, <2>1, RetireExact
<1>3. CASE AdvanceEmpty
  BY <1>0, <1>3, <1>s DEF AdvanceEmpty
<1>4. ASSUME NEW t \in Tracks, AdvanceFilled(t) PROVE Placed'
  <2>1. PICK s \in Stamps : eng' = [eng EXCEPT !.current = NewItem(t, s), !.playing = TRUE]
    BY <1>4 DEF AdvanceFilled
  <2> DEFINE x == NewItem(t, s)
  <2>2. x \in Item /\ x.id = nextId
    BY NewItemTyped DEF Placed, Typed
  <2>3. eng'.queue = eng.queue /\ eng'.history = eng.history /\ eng'.current = x
    BY <1>0, <2>1 DEF Engines
  <2> HIDE DEF x
  <2>4. eng.current = NoItem /\ nextId' = nextId + 1 /\ UNCHANGED <<strand, discarded>>
    BY <1>0, <1>4 DEF AdvanceFilled, Typed
  <2>5. IdCurrent(eng) = {} /\ IdCurrent(eng') = {nextId}
    BY <1>0, <2>2, <2>3, <2>4 DEF IdCurrent
  <2>6. IdSet(eng') = IdSet(eng) \cup {nextId}
    BY <2>3, <2>5 DEF IdSet
  <2>7. nextId \notin IdSet(eng) /\ nextId \notin discarded
    BY FreshIds
  <2>8. Apart(eng')
    BY <1>0, <2>3, <2>5, <2>7 DEF Apart, IdSet
  <2>9. /\ nextId' >= 1 /\ 1 .. nextId' - 1 = (1 .. nextId - 1) \cup {nextId}
        /\ {nextId} \cap (1 .. nextId - 1) = {}
    BY <2>4, FreshIds
  <2>10. /\ IdSet(eng') \cup discarded' = IdSet(eng) \cup discarded \cup {nextId}
         /\ IdSet(eng') \cap discarded' = {}
    BY <1>d, <2>4, <2>6, <2>7
  <2> QED
    BY <1>t, <2>4, <2>8, <2>9, <2>10, Accounted
<1>5. CASE SkipBack
  <2>1. eng' = SkipBackOp(eng) /\ UNCHANGED <<discarded, strand, nextId>>
    BY <1>5 DEF SkipBack, Rearrange
  <2>2. CASE eng.history = <<>>
    BY <1>0, <1>s, <2>1, <2>2 DEF SkipBackOp
  <2>3. CASE eng.history # <<>>
    <3>1. Apart(eng') /\ IdSet(eng') = IdSet(eng)
      BY <1>0, <2>1, <2>3, SkipBackIds
    <3> QED
      BY <1>s, <2>1, <3>1
  <2> QED
    BY <2>2, <2>3
<1>6. CASE SkipBackHeldFront
  <2>1. eng' = SkipBackHeldOp(eng) /\ UNCHANGED <<discarded, strand, nextId>>
    BY <1>6 DEF SkipBackHeldFront, Rearrange
  <2>2. Apart(eng') /\ IdSet(eng') = IdSet(eng)
    BY <1>0, <2>1, SkipBackHeldIds
  <2> QED
    BY <1>s, <2>1, <2>2
<1>7. ASSUME NEW b \in BOOLEAN, HoldCurrent(b) PROVE Placed'
  <2>1. eng' = HoldOp(eng, b) /\ UNCHANGED <<discarded, strand, nextId>>
    BY <1>7 DEF HoldCurrent, Rearrange
  <2>2. eng.current # NoItem => /\ [eng.current EXCEPT !.rec = b] \in Item
                                /\ [eng.current EXCEPT !.rec = b].id = eng.current.id
    BY <1>0 DEF Item
  <2>3. Apart(eng') /\ IdSet(eng') = IdSet(eng)
    BY <1>0, <2>1, <2>2, HoldIds
  <2> QED
    BY <1>s, <2>1, <2>3
<1>8. ASSUME NEW b \in BOOLEAN, SetPaused(b) PROVE Placed'
  <2>1. eng' = [eng EXCEPT !.paused = b] /\ UNCHANGED <<discarded, strand, nextId>>
    BY <1>8 DEF SetPaused, Rearrange
  <2>2. eng'.queue = eng.queue /\ eng'.history = eng.history /\ eng'.current = eng.current
    BY <1>0, <2>1 DEF Engines
  <2>3. IdCurrent(eng') = IdCurrent(eng) /\ Uniq(eng.queue) /\ Uniq(eng.history)
    BY <1>0, <2>2 DEF IdCurrent, Apart
  <2>4. Apart(eng') /\ IdSet(eng') = IdSet(eng)
    BY <1>0, <2>2, <2>3 DEF Apart, IdSet
  <2> QED
    BY <1>s, <2>1, <2>4
<1>9. CASE SkipHeldFront
  <2>1. /\ eng' = SkipHeldOp(eng) /\ UNCHANGED <<strand, nextId>>
        /\ discarded' = discarded \cup
             (IF eng.queue = <<>> THEN {} ELSE IdsOf(Evicted(eng.history)))
    BY <1>9 DEF SkipHeldFront, Rearrange
  <2>2. CASE eng.queue = <<>>
    BY <1>0, <1>s, <2>1, <2>2 DEF SkipHeldOp
  <2>3. CASE eng.queue # <<>>
    BY <1>0, <1>g, <2>1, <2>3, SkipHeldExact
  <2> QED
    BY <2>2, <2>3
<1>10. CASE SetStopped
  <2>1. /\ eng' = StopOp(eng) /\ UNCHANGED <<strand, nextId>>
        /\ discarded' = discarded \cup IdCurrent(eng)
    BY <1>10 DEF SetStopped, Rearrange, IdCurrent
  <2>2. Apart(eng') /\ IdSet(eng') = IdSet(eng) \ IdCurrent(eng) /\ IdCurrent(eng) \subseteq IdSet(eng)
    BY <1>0, <2>1, StopIds DEF IdSet
  <2> QED
    BY <1>g, <2>1, <2>2
<1> QED
  BY <1>1, <1>2, <1>3, <1>4, <1>5, <1>6, <1>7, <1>8, <1>9, <1>10 DEF Play

\* An output switch sets aside what it strands, and puts back exactly that or
\* lets go of exactly that.
LEMMA SwitchPlaced ==
  ASSUME Placed, Switch, RevokeSuspends => MaxRestores = 0
  PROVE  Placed'
<1>0. /\ Typed /\ eng \in Engines(Item) /\ Apart(eng) /\ eng.queue \in Seq(Item)
      /\ Uniq(eng.queue) /\ strand \in Strands /\ IdsIn(eng.queue) \subseteq IdSet(eng)
  BY EngineFields DEF Placed, Typed, Apart, IdSet
<1>t. Typed'
  BY <1>0, SwitchTyped
<1>l. Ledger /\ StrandInv
  BY DEF Placed
<1>i. Idle.phase = "none" /\ Idle.gone = {}
  BY DEF Idle
<1>1. ASSUME NEW S \in SUBSET Tracks, StrandedConfirm(S) PROVE Placed'
  <2>1. /\ strand.phase = "none" /\ UNCHANGED <<eng, nextId, discarded>>
        /\ strand' = [phase |-> "revoking", entries |-> PositionsOf(eng.queue, S), gone |-> {}]
    BY <1>1, <1>i DEF StrandedConfirm
  <2>2. strand'.phase = "revoking" /\ strand'.gone = {}
        /\ strand'.entries = PositionsOf(eng'.queue, S)
    BY <2>1
  <2>3. StrandInv'
    BY <2>2 DEF StrandInv
  <2>4. strand.gone = {}
    BY <1>l, <2>1 DEF StrandInv
  <2>5. Ledger'
    BY <1>l, <2>1, <2>2, <2>4 DEF Ledger
  <2> QED
    BY <1>0, <1>t, <2>1, <2>3, <2>5 DEF Placed
<1>2. CASE StrandedRemove
  <2> DEFINE q == Removal(strand.entries)
  <2>1. q \in Seq(Item) /\ Uniq(q) /\ IdsIn(q) \subseteq IdsIn(eng.queue)
    <3>1. Len(ReceiptsOf(strand.entries)) \in Nat
      BY <1>0, ReceiptsLen
    <3>2. q \in Seq(Item) /\ \E D \in SUBSET (1 .. Len(eng.queue)) : Part(q, eng.queue, D)
      BY <1>0, <3>1, RemovalKeeps DEF Removal
    <3> HIDE DEF q
    <3> QED
      BY <1>0, <3>2, PartIds
  <2>2. ASSUME ~RevokeSuspends
        PROVE  /\ IdsIn(eng.queue) \ IdsIn(q) = EntryIds(strand.entries)
               /\ EntriesOnce(strand.entries)
    <3>1. PICK S \in SUBSET Tracks : strand.entries = PositionsOf(eng.queue, S)
      BY <1>2, <1>l, <2>2 DEF StrandedRemove, StrandInv
    <3> QED
      BY <1>0, <3>1, SnapshotIds DEF Removal, EntryIds, EntriesOnce
  <2>3. /\ eng' = [eng EXCEPT !.queue = q] /\ UNCHANGED <<nextId, discarded>>
        /\ strand' = [strand EXCEPT !.phase = "switching", !.gone = IdsIn(eng.queue) \ IdsIn(q)]
        /\ strand.phase = "revoking"
    BY <1>2, IdsSame DEF StrandedRemove
  <2> HIDE DEF q
  <2>4. /\ strand'.phase = "switching" /\ strand'.gone = IdsIn(eng.queue) \ IdsIn(q)
        /\ strand'.entries = strand.entries
    BY <1>0, <2>3 DEF Strands
  <2>5. StrandInv'
    BY <2>2, <2>4 DEF StrandInv
  <2>6. (IdsIn(q) \ IdsIn(eng.queue)) \cap IdSet(eng) = {}
    BY <2>1
  <2>7. Apart(eng') /\ IdSet(eng') = IdsIn(q) \cup IdsIn(eng.history) \cup IdCurrent(eng)
    BY <1>0, <2>1, <2>3, <2>6, QueueSwap
  <2>8. IdSet(eng') = IdSet(eng) \ strand'.gone /\ strand'.gone \subseteq IdSet(eng)
    BY <1>0, <2>1, <2>4, <2>7 DEF Apart, IdSet
  <2>9. strand.gone = {}
    BY <1>l, <2>3 DEF StrandInv
  <2>10. Ledger'
    BY <1>l, <2>3, <2>8, <2>9 DEF Ledger
  <2> QED
    BY <1>t, <2>5, <2>7, <2>10 DEF Placed
<1>3. CASE SwitchSucceeds
  <2>1. /\ discarded' = discarded \cup strand.gone /\ strand' = Idle /\ UNCHANGED <<eng, nextId>>
    BY <1>3 DEF SwitchSucceeds
  <2>2. StrandInv'
    BY <1>i, <2>1 DEF StrandInv
  <2>3. Ledger'
    BY <1>i, <1>l, <2>1 DEF Ledger
  <2> QED
    BY <1>0, <1>t, <2>1, <2>2, <2>3 DEF Placed
<1>4. CASE SwitchFails
  <2> DEFINE q == RestoreEntriesOp(eng.queue, strand.entries)
  <2>1. strand.gone = EntryIds(strand.entries) /\ EntriesOnce(strand.entries)
    <3>1. switches \in Nat /\ switches < MaxRestores /\ strand.phase = "switching"
      BY <1>0, <1>4 DEF SwitchFails, Typed
    <3>2. ~RevokeSuspends
      BY <3>1
    <3> QED
      BY <1>l, <3>1, <3>2 DEF StrandInv
  <2>2. strand.entries \in Seq(Pairs(Item))
    BY <1>0 DEF Strands, Entry, Pairs
  <2>3. IdSet(eng) \cap strand.gone = {}
    BY <1>l DEF Ledger
  <2>4. q \in Seq(Item) /\ IdsIn(q) = IdsIn(eng.queue) \cup strand.gone
    <3> DEFINE a == eng.queue
               c == strand.entries
    <3>1. a \in Seq(Item) /\ c \in Seq(Pairs(Item)) /\ strand.gone = EntryIds(c)
      BY <1>0, <2>1, <2>2
    <3>2. q = RestoreEntriesOp(a, c) /\ IdsIn(a) = IdsIn(eng.queue)
      OBVIOUS
    <3> HIDE DEF a, c, q
    <3>3. /\ RestoreEntriesOp(a, c) \in Seq(Item)
          /\ IdsIn(RestoreEntriesOp(a, c)) = IdsIn(a) \cup EntryIds(c)
      BY <3>1, RestoreKeeps DEF EntryIds
    <3> QED
      BY <3>1, <3>2, <3>3
  <2>5. Uniq(q)
    BY <1>0, <2>1, <2>2, <2>3, RestoreKeeps DEF EntryIds, EntriesOnce
  <2>6. eng' = [eng EXCEPT !.queue = q] /\ strand' = Idle /\ UNCHANGED <<nextId, discarded>>
    BY <1>4 DEF SwitchFails
  <2> HIDE DEF q
  <2>7. (IdsIn(q) \ IdsIn(eng.queue)) \cap IdSet(eng) = {}
    BY <2>3, <2>4
  <2>8. Apart(eng') /\ IdSet(eng') = IdsIn(q) \cup IdsIn(eng.history) \cup IdCurrent(eng)
    BY <1>0, <2>4, <2>5, <2>6, <2>7, QueueSwap
  <2>9. IdSet(eng') = IdSet(eng) \cup strand.gone
    BY <2>4, <2>8 DEF IdSet
  <2>10. StrandInv'
    BY <1>i, <2>6 DEF StrandInv
  <2>11. Ledger'
    BY <1>i, <1>l, <2>6, <2>9 DEF Ledger
  <2> QED
    BY <1>t, <2>8, <2>10, <2>11 DEF Placed
<1> QED
  BY <1>1, <1>2, <1>3, <1>4 DEF Switch

\* At the start there is nothing.
LEMMA InitPlaced == Init => Placed
<1> SUFFICES ASSUME Init PROVE Placed
  OBVIOUS
<1>1. Typed
  BY InitTyped
<1>2. /\ eng.queue = <<>> /\ eng.history = <<>> /\ eng.current = NoItem
      /\ nextId = 1 /\ discarded = {} /\ strand.phase = "none" /\ strand.gone = {}
  BY DEF Init, Idle
<1>3. /\ IdsIn(eng.queue) = {} /\ Uniq(eng.queue) /\ IdsIn(eng.history) = {} /\ Uniq(eng.history)
      /\ IdCurrent(eng) = {}
  BY <1>2, SmallIds DEF IdCurrent
<1>4. Apart(eng) /\ IdSet(eng) = {}
  BY <1>3 DEF Apart, IdSet
<1>5. Ledger
  BY <1>2, <1>4 DEF Ledger
<1>6. StrandInv
  BY <1>2 DEF StrandInv
<1> QED
  BY <1>1, <1>4, <1>5, <1>6 DEF Placed

\* The three lists hold each item once when they are disjoint.
LEMMA ListsIds ==
  ASSUME eng \in Engines(Item), Apart(eng)
  PROVE  IdsOf(Lists) = IdSet(eng) /\ NoItemTwice
<1> DEFINE c == IF eng.current = NoItem THEN <<>> ELSE <<eng.current>>
           a == eng.queue
           h == eng.history
<1>1. /\ a \in Seq(Item) /\ h \in Seq(Item) /\ c \in Seq(Item)
      /\ IdsIn(c) = IdCurrent(eng) /\ Uniq(c)
  <2>1. a \in Seq(Item) /\ h \in Seq(Item) /\ eng.current \in Item \cup {NoItem}
    BY EngineFields
  <2>2. CASE eng.current = NoItem
    BY <2>1, <2>2, SmallIds DEF IdCurrent
  <2>3. CASE eng.current # NoItem
    BY <2>1, <2>3, SmallIds DEF IdCurrent
  <2> QED
    BY <2>1, <2>2, <2>3
<1>2. /\ Uniq(a) /\ Uniq(h) /\ IdsIn(a) \cap IdsIn(h) = {}
      /\ (IdsIn(a) \cup IdsIn(h)) \cap IdsIn(c) = {}
  BY <1>1 DEF Apart
<1>3. Lists = (a \o h) \o c /\ IdSet(eng) = IdsIn(a) \cup IdsIn(h) \cup IdsIn(c)
  BY <1>1 DEF Lists, IdSet
<1> HIDE DEF a, h, c
<1> DEFINE b == a \o h
<1>4. b \in Seq(Item) /\ IdsIn(b) = IdsIn(a) \cup IdsIn(h) /\ Uniq(b)
  BY <1>1, <1>2, ConcatIds
<1>5. Lists = b \o c
  BY <1>3
<1> HIDE DEF b
<1>6. IdsIn(b \o c) = IdsIn(b) \cup IdsIn(c) /\ Uniq(b \o c)
  BY <1>1, <1>2, <1>4, ConcatIds
<1> QED
  BY <1>3, <1>4, <1>5, <1>6, IdsSame DEF Uniq, NoItemTwice

\* Every item ever created is at exactly one place of the queue, the history
\* and the current slot, or was let go by an operation that says so, or waits
\* in the snapshot of a running output switch: through every sequence of
\* skips, holds, removals, auto-fills and output switches (engine.py,
\* state.py:3999-4017).  The hypothesis leaves out one combination, which
\* breaks it: a switch that waits for the device between its snapshot and its
\* removal, while others use the queue, and then fails.
THEOREM EachPlacedOnce ==
  ASSUME RevokeSuspends => MaxRestores = 0
  PROVE  Spec => []PlacedOnce
<1>1. Placed /\ [Next]_vars => Placed'
  <2> SUFFICES ASSUME Placed, [Next]_vars PROVE Placed'
    OBVIOUS
  <2>1. CASE UNCHANGED vars
    <3>1. Typed'
      BY <2>1 DEF Placed, Typed, vars
    <3> QED
      BY <2>1, <3>1 DEF Placed, Ledger, StrandInv, vars
  <2>2. CASE (strand.phase = "revoking" => RevokeSuspends) /\ (Enqueue \/ Edit \/ Play)
    BY <2>2, EnqueuePlaced, EditPlaced, PlayPlaced
  <2>3. CASE Switch
    BY <2>3, SwitchPlaced
  <2> QED
    BY <2>1, <2>2, <2>3 DEF Next
<1>2. Placed => PlacedOnce
  <2> SUFFICES ASSUME Placed PROVE PlacedOnce
    OBVIOUS
  <2>1. IdsOf(Lists) = IdSet(eng) /\ NoItemTwice
    BY ListsIds DEF Placed, Typed
  <2> QED
    BY <2>1 DEF Placed, Ledger, PlacedOnce
<1> QED
  BY <1>1, <1>2, InitPlaced, PTL DEF Spec

-----------------------------------------------------------------------------
(* The queue does not grow without bound *)

\* How much an engine value holds.
Playing(e) == IF e.current = NoItem THEN 0 ELSE 1
Size(e) == Len(e.queue) + Len(e.history) + Playing(e)

\* The two lengths and the current item, as numbers.
Measures(e, a, b, c) == Len(e.queue) = a /\ Len(e.history) = b /\ Playing(e) = c

\* They are numbers, within their bounds.
LEMMA Measured ==
  ASSUME NEW It, NEW e \in Engines(It)
  PROVE  \E a, b, c \in Nat : Measures(e, a, b, c) /\ b <= HistoryMax /\ c <= 1
<1>1. Len(e.queue) \in Nat /\ Len(e.history) \in Nat /\ Len(e.history) <= HistoryMax
  BY EngineFields, LenProperties
<1>2. Playing(e) \in Nat /\ Playing(e) <= 1
  BY DEF Playing
<1> QED
  BY <1>1, <1>2 DEF Measures

\* What they add up to.
LEMMA Totals ==
  ASSUME NEW e, NEW a \in Nat, NEW b \in Nat, NEW c \in Nat, Measures(e, a, b, c)
  PROVE  Size(e) = a + b + c /\ Size(e) \in Nat
BY DEF Measures, Size

\* A push adds one entry at most.
LEMMA PushLen ==
  ASSUME NEW It, NEW h \in Seq(It), Len(h) <= HistoryMax, NEW x \in It,
         NEW b \in Nat, Len(h) = b
  PROVE  Len(PushHistory(h, x)) <= b + 1
<1> DEFINE n == IF Len(h) < HistoryMax THEN Len(h) ELSE HistoryMax - 1
           t == SubSeq(h, 1, n)
<1>1. n \in 0 .. Len(h) /\ Len(h) \in Nat
  BY HistoryMaxAssumption, LenProperties
<1> HIDE DEF n
<1>2. t \in Seq(It) /\ Len(t) = n
  BY <1>1, PrefixIds
<1>3. PushHistory(h, x) = <<x>> \o t
  BY DEF PushHistory, n
<1> HIDE DEF t
<1>4. Len(<<x>> \o t) = Len(t) + 1
  BY <1>2, ConsIds
<1> QED
  BY <1>1, <1>2, <1>3, <1>4

\* Retiring the current item adds nothing.
LEMMA RetireAddsNothing ==
  ASSUME NEW e \in Engines(Item)
  PROVE  Size(RetireCurrent(e)) <= Size(e)
<1> DEFINE r == RetireCurrent(e)
<1>1. /\ r \in Engines(Item) /\ r.queue = e.queue /\ r.current = NoItem
      /\ r.history = IF e.current = NoItem THEN e.history ELSE PushHistory(e.history, e.current)
  BY RetireTyped
<1> HIDE DEF r
<1>2. PICK a, b, c \in Nat : Measures(e, a, b, c) /\ b <= HistoryMax /\ c <= 1
  BY Measured
<1>3. PICK x, y, z \in Nat : Measures(r, x, y, z) /\ y <= HistoryMax /\ z <= 1
  BY <1>1, Measured
<1>4. x = a /\ z = 0
  BY <1>1, <1>2, <1>3 DEF Measures, Playing
<1>5. y <= b + c
  <2>1. CASE e.current = NoItem
    BY <1>1, <1>2, <1>3, <2>1 DEF Measures
  <2>2. CASE e.current # NoItem
    <3>1. c = 1 /\ Len(e.history) = b /\ Len(r.history) = y
      BY <1>2, <1>3, <2>2 DEF Measures, Playing
    <3>2. r.history = PushHistory(e.history, e.current)
      BY <1>1, <2>2
    <3>3. Len(PushHistory(e.history, e.current)) <= b + 1
      BY <2>2, <3>1, EngineFields, PushLen
    <3> QED
      BY <3>1, <3>2, <3>3
  <2> QED
    BY <2>1, <2>2
<1>6. Size(r) = x + y + z /\ Size(e) = a + b + c
  BY <1>2, <1>3, Totals
<1>7. Size(r) <= Size(e)
  BY <1>4, <1>5, <1>6
<1> QED
  BY <1>7 DEF r

\* Popping the queue moves one item.
LEMMA PopAddsNothing ==
  ASSUME NEW e \in Engines(Item), e.queue # <<>>, e.current = NoItem
  PROVE  Size(PopFront(e)) <= Size(e)
<1> DEFINE r == PopFront(e)
<1>1. r \in Engines(Item) /\ r.queue = Tail(e.queue) /\ r.history = e.history
  BY PopTyped
<1>2. Len(Tail(e.queue)) = Len(e.queue) - 1
  BY EngineFields, TailIds
<1> HIDE DEF r
<1>3. PICK a, b, c \in Nat : Measures(e, a, b, c) /\ b <= HistoryMax /\ c <= 1
  BY Measured
<1>4. PICK x, y, z \in Nat : Measures(r, x, y, z) /\ y <= HistoryMax /\ z <= 1
  BY <1>1, Measured
<1>5. x = a - 1 /\ y = b /\ z <= 1
  BY <1>1, <1>2, <1>3, <1>4 DEF Measures
<1>6. Size(r) = x + y + z /\ Size(e) = a + b + c
  BY <1>3, <1>4, Totals
<1>7. Size(r) <= Size(e)
  BY <1>5, <1>6
<1> QED
  BY <1>7 DEF r

\* Neither does an advance.
LEMMA AdvanceAddsNothing ==
  ASSUME NEW e \in Engines(Item)
  PROVE  Size(AdvanceOp(e)) <= Size(e)
<1> DEFINE r == RetireCurrent(e)
<1>1. r \in Engines(Item) /\ Size(r) <= Size(e) /\ r.current = NoItem
  BY RetireTyped, RetireAddsNothing
<1>2. AdvanceOp(e) = IF r.queue = <<>> THEN r ELSE PopFront(r)
  BY DEF AdvanceOp
<1> HIDE DEF r
<1>3. CASE r.queue = <<>>
  BY <1>1, <1>2, <1>3
<1>4. CASE r.queue # <<>>
  <2>1. Size(PopFront(r)) <= Size(r) /\ PopFront(r) \in Engines(Item)
    BY <1>1, <1>4, PopAddsNothing, PopTyped
  <2>2. \A u \in Engines(Item) : Size(u) \in Nat
    BY Measured, Totals
  <2>3. Size(PopFront(r)) \in Nat /\ Size(r) \in Nat /\ Size(e) \in Nat
    BY <1>1, <2>1, <2>2
  <2> QED
    BY <1>1, <1>2, <1>4, <2>1, <2>3
<1> QED
  BY <1>3, <1>4

\* An item put in front of a list makes it one longer.
LEMMA ConsLen ==
  ASSUME NEW It, NEW s \in Seq(It), NEW x \in It, NEW n \in Nat, Len(s) = n
  PROVE  Len(<<x>> \o s) = n + 1
BY ConsIds

\* Skip Back adds nothing.
LEMMA SkipBackAddsNothing ==
  ASSUME NEW e \in Engines(Item)
  PROVE  Size(SkipBackOp(e)) <= Size(e)
<1> DEFINE r == SkipBackOp(e)
<1>0. e.queue \in Seq(Item) /\ e.history \in Seq(Item) /\ e.current \in Item \cup {NoItem}
  BY EngineFields
<1>1. PICK a, b, c \in Nat : Measures(e, a, b, c) /\ b <= HistoryMax /\ c <= 1
  BY Measured
<1>2. r \in Engines(Item)
  BY SkipBackTyped
<1>3. PICK x, y, z \in Nat : Measures(r, x, y, z) /\ y <= HistoryMax /\ z <= 1
  BY <1>2, Measured
<1>4. Size(r) = x + y + z /\ Size(e) = a + b + c
  BY <1>1, <1>3, Totals
<1>5. CASE e.history = <<>>
  BY <1>4, <1>5 DEF SkipBackOp
<1>6. CASE e.history # <<>>
  <2>1. /\ r.queue = (IF e.current = NoItem THEN e.queue ELSE <<e.current>> \o e.queue)
        /\ r.history = Tail(e.history)
    BY <1>6 DEF SkipBackOp, Engines
  <2>2. Len(Tail(e.history)) = Len(e.history) - 1
    BY <1>0, <1>6, TailIds
  <2> HIDE DEF r
  <2>3. y = b - 1
    BY <1>1, <1>3, <2>1, <2>2 DEF Measures
  <2>4. x = a + c
    <3>1. CASE e.current = NoItem
      BY <1>1, <1>3, <2>1, <3>1 DEF Measures, Playing
    <3>2. CASE e.current # NoItem
      <4>1. c = 1 /\ Len(e.queue) = a /\ Len(r.queue) = x
        BY <1>1, <1>3, <3>2 DEF Measures, Playing
      <4>2. Len(<<e.current>> \o e.queue) = a + 1
        BY <1>0, <3>2, <4>1, ConsLen
      <4>3. r.queue = <<e.current>> \o e.queue
        BY <2>1, <3>2
      <4> QED
        BY <4>1, <4>2, <4>3
    <3> QED
      BY <3>1, <3>2
  <2> QED
    BY <1>3, <1>4, <2>3, <2>4 DEF r
<1> QED
  BY <1>5, <1>6

\* Moving the held pointer on adds nothing.
LEMMA SkipHeldAddsNothing ==
  ASSUME NEW e \in Engines(Item)
  PROVE  Size(SkipHeldOp(e)) <= Size(e)
<1> DEFINE r == SkipHeldOp(e)
           h == PushHistory(e.history, Head(e.queue))
<1>0. e.queue \in Seq(Item) /\ e.history \in Seq(Item) /\ Len(e.history) <= HistoryMax
  BY EngineFields
<1>1. PICK a, b, c \in Nat : Measures(e, a, b, c) /\ b <= HistoryMax /\ c <= 1
  BY Measured
<1>2. r \in Engines(Item)
  BY SkipHeldTyped
<1>3. PICK x, y, z \in Nat : Measures(r, x, y, z) /\ y <= HistoryMax /\ z <= 1
  BY <1>2, Measured
<1>4. Size(r) = x + y + z /\ Size(e) = a + b + c
  BY <1>1, <1>3, Totals
<1>5. CASE e.queue = <<>>
  BY <1>4, <1>5 DEF SkipHeldOp
<1>6. CASE e.queue # <<>>
  <2>1. r.queue = Tail(e.queue) /\ r.history = h /\ r.current = e.current
    BY <1>6 DEF SkipHeldOp, Engines
  <2>2. Len(Tail(e.queue)) = Len(e.queue) - 1 /\ Head(e.queue) \in Item
    BY <1>0, <1>6, TailIds
  <2>3. Len(e.history) = b /\ Len(r.history) = y
    BY <1>1, <1>3 DEF Measures
  <2>4. Len(h) <= b + 1
    BY <1>0, <2>2, <2>3, PushLen
  <2> HIDE DEF r, h
  <2>5. x = a - 1 /\ z = c
    BY <1>1, <1>3, <2>1, <2>2 DEF Measures, Playing
  <2>6. y <= b + 1
    BY <2>1, <2>3, <2>4
  <2> QED
    BY <1>4, <2>5, <2>6 DEF r
<1> QED
  BY <1>5, <1>6

\* Neither does moving it back.
LEMMA SkipBackHeldAddsNothing ==
  ASSUME NEW e \in Engines(Item)
  PROVE  Size(SkipBackHeldOp(e)) <= Size(e)
<1> DEFINE r == SkipBackHeldOp(e)
<1>0. e.queue \in Seq(Item) /\ e.history \in Seq(Item)
  BY EngineFields
<1>1. PICK a, b, c \in Nat : Measures(e, a, b, c) /\ b <= HistoryMax /\ c <= 1
  BY Measured
<1>2. r \in Engines(Item)
  BY SkipBackHeldTyped
<1>3. PICK x, y, z \in Nat : Measures(r, x, y, z) /\ y <= HistoryMax /\ z <= 1
  BY <1>2, Measured
<1>4. Size(r) = x + y + z /\ Size(e) = a + b + c
  BY <1>1, <1>3, Totals
<1>5. CASE e.history = <<>>
  BY <1>4, <1>5 DEF SkipBackHeldOp
<1>6. CASE e.history # <<>>
  <2>1. /\ r.queue = <<Head(e.history)>> \o e.queue /\ r.history = Tail(e.history)
        /\ r.current = e.current
    BY <1>6 DEF SkipBackHeldOp, Engines
  <2>2. Len(Tail(e.history)) = Len(e.history) - 1 /\ Head(e.history) \in Item
    BY <1>0, <1>6, TailIds
  <2>3. Len(e.queue) = a /\ Len(r.queue) = x
    BY <1>1, <1>3 DEF Measures
  <2>4. Len(<<Head(e.history)>> \o e.queue) = a + 1
    BY <1>0, <2>2, <2>3, ConsLen
  <2> HIDE DEF r
  <2>5. y = b - 1 /\ z = c
    BY <1>1, <1>3, <2>1, <2>2 DEF Measures, Playing
  <2>6. x = a + 1
    BY <2>1, <2>3, <2>4
  <2> QED
    BY <1>4, <2>5, <2>6 DEF r
<1> QED
  BY <1>5, <1>6

\* A hold moves the current item, a stop drops it.
LEMMA HoldAddsNothing ==
  ASSUME NEW e \in Engines(Item), NEW mark \in BOOLEAN
  PROVE  Size(HoldOp(e, mark)) <= Size(e) /\ Size(StopOp(e)) <= Size(e)
<1> DEFINE r == HoldOp(e, mark)
           s == StopOp(e)
           i == [e.current EXCEPT !.rec = mark]
<1>0. e.queue \in Seq(Item) /\ e.current \in Item \cup {NoItem}
  BY EngineFields
<1>1. PICK a, b, c \in Nat : Measures(e, a, b, c) /\ b <= HistoryMax /\ c <= 1
  BY Measured
<1>2. r \in Engines(Item) /\ s \in Engines(Item)
  BY HoldTyped, StopTyped
<1>3. PICK x, y, z \in Nat : Measures(r, x, y, z) /\ y <= HistoryMax /\ z <= 1
  BY <1>2, Measured
<1>4. PICK u, v, w \in Nat : Measures(s, u, v, w) /\ v <= HistoryMax /\ w <= 1
  BY <1>2, Measured
<1>5. Size(r) = x + y + z /\ Size(e) = a + b + c /\ Size(s) = u + v + w
  BY <1>1, <1>3, <1>4, Totals
<1>6. Size(r) <= Size(e)
  <2>1. CASE e.current = NoItem
    BY <1>5, <2>1 DEF HoldOp
  <2>2. CASE e.current # NoItem
    <3>1. i \in Item
      BY <1>0, <2>2 DEF Item
    <3>2. r.queue = <<i>> \o e.queue /\ r.history = e.history /\ r.current = NoItem
      BY <2>2 DEF HoldOp, Engines
    <3> HIDE DEF r, i
    <3>3. c = 1 /\ z = 0 /\ y = b /\ Len(e.queue) = a /\ Len(r.queue) = x
      BY <1>1, <1>3, <2>2, <3>2 DEF Measures, Playing
    <3>4. Len(<<i>> \o e.queue) = a + 1
      BY <1>0, <3>1, <3>3, ConsLen
    <3>5. x = a + 1
      BY <3>2, <3>3, <3>4
    <3> QED
      BY <1>5, <3>3, <3>5 DEF r
  <2> QED
    BY <2>1, <2>2
<1>7. Size(s) <= Size(e)
  <2>1. s.queue = e.queue /\ s.history = e.history /\ s.current = NoItem
    BY DEF StopOp, Engines
  <2> HIDE DEF s
  <2>2. u = a /\ v = b /\ w = 0
    BY <1>1, <1>4, <2>1 DEF Measures, Playing
  <2> QED
    BY <1>5, <2>2 DEF s
<1> QED
  BY <1>6, <1>7

\* Removal by receipts never lengthens a list.
LEMMA RemovalLen ==
  ASSUME NEW It, NEW q \in Seq(It), NEW receipts, Len(receipts) \in Nat
  PROVE  Len(RemoveEntriesOp(q, receipts)) <= Len(q)
<1> DEFINE L == Len(receipts)
<1>1. PICK f \in [0 .. L -> Seq(It)] :
        /\ f[0] = q
        /\ \A n \in 1 .. L : f[n] = RemoveLast(f[n - 1], receipts[n])
        /\ RemoveEntriesOp(q, receipts) = f[L]
  BY RemovalIterates
<1> HIDE DEF L
<1>0. L \in Nat /\ Len(q) \in Nat
  BY LenProperties DEF L
<1> DEFINE N == {n \in 0 .. L : Len(f[n]) <= Len(q)}
<1>2. 0 \in N
  BY <1>0, <1>1
<1>3. ASSUME NEW n \in 0 .. L - 1, n \in N PROVE n + 1 \in N
  <2>0. n + 1 \in 0 .. L /\ n + 1 \in 1 .. L /\ (n + 1) - 1 = n /\ n \in 0 .. L
    BY <1>0
  <2> DEFINE s == f[n]
             t == f[n + 1]
             r == receipts[n + 1]
  <2>1. s \in Seq(It) /\ t = RemoveLast(s, r) /\ Len(s) <= Len(q)
    BY <1>1, <1>3, <2>0
  <2> HIDE DEF s, r, t
  <2>2. t = s \/ \E i \in 1 .. Len(s) : t = Delete(s, i)
    BY <2>1, RemovesLast
  <2>3. Len(s) \in Nat
    BY <2>1, LenProperties
  <2>4. \A i \in 1 .. Len(s) : Len(Delete(s, i)) = Len(s) - 1
    BY <2>1, Deleted
  <2>5. Len(t) <= Len(q)
    BY <1>0, <2>1, <2>2, <2>3, <2>4
  <2> QED
    BY <2>0, <2>5 DEF t
<1>4. L \in N
  <2> HIDE DEF N
  <2>1. \A k \in 0 .. L : k \in N
    BY <1>0, <1>2, <1>3, UpTo
  <2> QED
    BY <1>0, <2>1
<1> QED
  BY <1>1, <1>4

\* A rollback makes a list longer by the entries it puts back.
LEMMA RestoreLen ==
  ASSUME NEW It, NEW s \in Seq(It), NEW entries \in Seq(Pairs(It))
  PROVE  Len(RestoreEntriesOp(s, entries)) = Len(s) + Len(entries)
<1> DEFINE L == Len(entries)
<1>0. L \in Nat /\ Len(s) \in Nat
  BY LenProperties
<1>f. PICK f \in [0 .. L -> Seq(It)] : PutsBack(f, s, entries)
  BY RestoreIterates
<1>1. /\ f[0] = s /\ RestoreEntriesOp(s, entries) = f[L]
      /\ \A n \in 1 .. L : f[n] = Put(f[n - 1], entries[n].pos, entries[n].item)
  BY <1>f DEF PutsBack
<1>e. \A n \in 1 .. L : entries[n] \in Pairs(It)
  BY ElementOfSeq
<1> HIDE DEF L
<1> DEFINE N == {n \in 0 .. L : Len(f[n]) = Len(s) + n}
<1>2. 0 \in N
  BY <1>0, <1>1
<1>3. ASSUME NEW n \in 0 .. L - 1, n \in N PROVE n + 1 \in N
  <2>0. n + 1 \in 0 .. L /\ n + 1 \in 1 .. L /\ (n + 1) - 1 = n /\ n \in 0 .. L
    BY <1>0
  <2> DEFINE r == f[n]
             t == f[n + 1]
             x == entries[n + 1].item
             pos == entries[n + 1].pos
  <2>1. r \in Seq(It) /\ t = Put(r, pos, x) /\ Len(r) = Len(s) + n
    BY <1>1, <1>3, <2>0
  <2>2. x \in It /\ pos \in Nat
    BY <1>e, <2>0 DEF Pairs
  <2> HIDE DEF r, t, x, pos
  <2>3. PICK at \in 1 .. Len(r) + 1 : t = Insert(r, at, x)
    <3> DEFINE at == 1 + (IF pos < Len(r) THEN pos ELSE Len(r))
    <3>1. at \in 1 .. Len(r) + 1 /\ Put(r, pos, x) = Insert(r, at, x)
      BY <2>1, <2>2, LenProperties DEF Put
    <3> HIDE DEF at
    <3> QED
      BY <2>1, <3>1
  <2>4. Len(t) = Len(r) + 1
    BY <2>1, <2>2, <2>3, Inserted, SMTT(30)
  <2>5. Len(t) = Len(s) + (n + 1)
    BY <1>0, <2>0, <2>1, <2>4
  <2> QED
    BY <2>0, <2>5 DEF t
<1>4. L \in N
  <2> HIDE DEF N
  <2>1. \A k \in 0 .. L : k \in N
    BY <1>0, <1>2, <1>3, UpTo
  <2> QED
    BY <1>0, <2>1
<1> QED
  BY <1>1, <1>4 DEF L

\* What is held exceeds the cap by no more than a full history, a current item
\* and what failed switches put back.
Shallow == Size(eng) <= Cap + HistoryMax + 1 + restored

\* A step that adds nothing.
LEMMA StaysShallow ==
  ASSUME Typed, Shallow, Typed', Size(eng') <= Size(eng), UNCHANGED restored
  PROVE  Shallow'
<1>1. \A e \in Engines(Item) : Size(e) \in Nat
  BY Measured, Totals
<1>2. Size(eng) \in Nat /\ Size(eng') \in Nat
  BY <1>1 DEF Typed
<1>3. Cap + HistoryMax + 1 + restored \in Nat
  BY HistoryMaxAssumption, QueueConstants DEF Typed
<1>4. \A x, y, z \in Nat : x <= y /\ y <= z => x <= z
  OBVIOUS
<1> QED
  BY <1>2, <1>3, <1>4 DEF Shallow

\* Appends look at the cap.
LEMMA EnqueueShallow ==
  ASSUME Typed, Shallow, Enqueue
  PROVE  Shallow'
<1>0. /\ eng \in Engines(Item) /\ eng.queue \in Seq(Item) /\ Cap \in Nat /\ HistoryMax \in Nat
      /\ restored \in Nat /\ nextId \in Nat /\ clock \in Nat
  BY EngineFields, HistoryMaxAssumption, QueueConstants DEF Typed
<1>t. eng' \in Engines(Item)
  BY EnqueueTyped DEF Typed
<1>1. PICK a, b, c \in Nat : Measures(eng, a, b, c) /\ b <= HistoryMax /\ c <= 1
  BY <1>0, Measured
<1>2. PICK x, y, z \in Nat : Measures(eng', x, y, z) /\ y <= HistoryMax /\ z <= 1
  BY <1>t, Measured
<1>3. Size(eng') = x + y + z
  BY <1>2, Totals
<1>g. ASSUME x <= Cap, restored' = restored PROVE Shallow'
  BY <1>0, <1>2, <1>3, <1>g DEF Shallow
<1>a. Len(eng.queue) = a /\ Len(eng'.queue) = x
  BY <1>1, <1>2 DEF Measures
<1>4. ASSUME NEW bypass \in BOOLEAN, NEW t \in Tracks, AppendTrack(t, bypass)
      PROVE  Shallow'
  <2>1. PICK s \in Stamps : eng' = [eng EXCEPT !.queue = Append(eng.queue, NewItem(t, s))]
    BY <1>4 DEF AppendTrack
  <2> DEFINE i == NewItem(t, s)
  <2>2. i \in Item
    BY <1>0, NewItemTyped
  <2>3. eng'.queue = Append(eng.queue, i)
    BY <1>0, <2>1 DEF Engines
  <2> HIDE DEF i
  <2>4. Len(Append(eng.queue, i)) = Len(eng.queue) + 1
    BY <1>0, <2>2, AppendProperties
  <2>5. Len(eng.queue) < Cap /\ restored' = restored
    BY <1>4 DEF AppendTrack
  <2>6. a < Cap /\ x = a + 1
    BY <1>a, <2>3, <2>4, <2>5
  <2> QED
    BY <1>0, <1>g, <2>5, <2>6
<1>5. ASSUME NEW bypass \in BOOLEAN, NEW t \in Tracks, NEW u \in Tracks,
             AppendMany(t, u, bypass)
      PROVE  Shallow'
  <2>1. PICK s \in Stamps, gap \in Ticks :
          eng' = [eng EXCEPT !.queue = eng.queue \o
                    <<NewItem(t, s), [NewItem(u, s + gap) EXCEPT !.id = nextId + 1]>>]
    BY <1>5 DEF AppendMany
  <2> DEFINE i == NewItem(t, s)
             j == [NewItem(u, s + gap) EXCEPT !.id = nextId + 1]
             d == <<i, j>>
  <2>2. eng'.queue = eng.queue \o d
    BY <1>0, <2>1 DEF Engines
  <2>3. d \in Seq({i, j}) /\ Len(d) = 2 /\ eng.queue \in Seq(Item \cup {i, j})
    <3> HIDE DEF i, j
    <3> QED
      BY <1>0
  <2>4. d \in Seq(Item \cup {i, j})
    <3> HIDE DEF i, j
    <3> QED
      OBVIOUS
  <2> HIDE DEF d, i, j
  <2>5. Len(eng.queue \o d) = Len(eng.queue) + Len(d)
    BY <2>3, <2>4, ConcatProperties
  <2>6. Len(eng.queue) + 2 <= Cap /\ restored' = restored
    BY <1>5 DEF AppendMany
  <2>7. a + 2 <= Cap /\ x = a + 2
    BY <1>a, <2>2, <2>3, <2>5, <2>6
  <2> QED
    BY <1>0, <1>g, <2>6, <2>7
<1> QED
  BY <1>4, <1>5 DEF Enqueue

\* The edits only take away.
LEMMA EditShallow ==
  ASSUME Typed, Shallow, Edit
  PROVE  Shallow'
<1>0. /\ eng \in Engines(Item) /\ eng.queue \in Seq(Item) /\ eng.history \in Seq(Item)
      /\ Len(eng.history) <= HistoryMax
  BY EngineFields DEF Typed
<1>t. Typed' /\ eng' \in Engines(Item)
  BY EditTyped DEF Typed
<1>1. PICK a, b, c \in Nat : Measures(eng, a, b, c) /\ b <= HistoryMax /\ c <= 1
  BY <1>0, Measured
<1>2. PICK x, y, z \in Nat : Measures(eng', x, y, z) /\ y <= HistoryMax /\ z <= 1
  BY <1>t, Measured
<1>3. Size(eng') = x + y + z /\ Size(eng) = a + b + c
  BY <1>1, <1>2, Totals
<1>a. /\ Len(eng.queue) = a /\ Len(eng.history) = b /\ Playing(eng) = c
      /\ Len(eng'.queue) = x /\ Len(eng'.history) = y /\ Playing(eng') = z
  BY <1>1, <1>2 DEF Measures
<1>q. ASSUME NEW q, eng' = [eng EXCEPT !.queue = q], Len(q) <= a, UNCHANGED restored
      PROVE  Shallow'
  <2>1. eng'.queue = q /\ eng'.history = eng.history /\ eng'.current = eng.current
    BY <1>0, <1>q DEF Engines
  <2>2. x <= a /\ y = b /\ z = c
    BY <1>a, <1>q, <2>1 DEF Playing
  <2>3. Size(eng') <= Size(eng)
    BY <1>3, <2>2
  <2> QED
    BY <1>q, <1>t, <2>3, StaysShallow
<1>4. ASSUME NEW receipts, Len(receipts) \in Nat, RemoveEntries(receipts)
      PROVE  Shallow'
  <2> DEFINE q == RemoveEntriesOp(eng.queue, receipts)
  <2>1. Len(q) <= Len(eng.queue)
    BY <1>0, <1>4, RemovalLen
  <2>2. eng' = [eng EXCEPT !.queue = q] /\ UNCHANGED restored
    BY <1>4 DEF RemoveEntries
  <2> HIDE DEF q
  <2> QED
    BY <1>a, <1>q, <2>1, <2>2
<1>5. ASSUME NEW r, RemoveHistoryEntry(r) PROVE Shallow'
  <2>1. PICK i \in DOMAIN eng.history : eng' = [eng EXCEPT !.history = Delete(eng.history, i)]
    BY <1>5 DEF RemoveHistoryEntry
  <2> DEFINE h == Delete(eng.history, i)
  <2>2. Len(h) = Len(eng.history) - 1
    BY <1>0, LenProperties, Deleted
  <2>3. eng'.queue = eng.queue /\ eng'.history = h /\ eng'.current = eng.current
    BY <1>0, <2>1 DEF Engines
  <2> HIDE DEF h
  <2>4. x = a /\ y = b - 1 /\ z = c
    BY <1>a, <2>2, <2>3 DEF Playing
  <2>5. Size(eng') <= Size(eng)
    BY <1>3, <2>4
  <2>6. UNCHANGED restored
    BY <1>5 DEF RemoveHistoryEntry
  <2> QED
    BY <1>t, <2>5, <2>6, StaysShallow
<1>6. ASSUME NEW i \in DOMAIN eng.queue,
             RemoveAtPosition(i) \/ \E j \in DOMAIN eng.queue : Move(i, j)
      PROVE  Shallow'
  <2> DEFINE d == Delete(eng.queue, i)
             it == eng.queue[i]
  <2>1. i \in 1 .. Len(eng.queue) /\ DOMAIN eng.queue = 1 .. Len(eng.queue)
    BY <1>0, LenProperties
  <2>2. d \in Seq(Item) /\ Len(d) = Len(eng.queue) - 1 /\ it \in Item
    BY <1>0, <2>1, Deleted, ElementOfSeq
  <2>3. UNCHANGED restored
    BY <1>6 DEF RemoveAtPosition, Move
  <2>4. CASE RemoveAtPosition(i)
    <3>1. eng' = [eng EXCEPT !.queue = d]
      BY <2>4 DEF RemoveAtPosition
    <3> HIDE DEF d
    <3>2. Len(d) <= a
      BY <1>a, <2>2
    <3> QED
      BY <1>q, <2>3, <3>1, <3>2
  <2>5. CASE \E j \in DOMAIN eng.queue : Move(i, j)
    <3>1. PICK j \in 1 .. Len(eng.queue) : Move(i, j)
      BY <2>1, <2>5
    <3>2. eng' = [eng EXCEPT !.queue = Insert(d, j, it)]
      BY <3>1 DEF Move
    <3> HIDE DEF d, it
    <3>3. j \in 1 .. Len(d) + 1
      BY <1>a, <2>2
    <3>4. Len(Insert(d, j, it)) = Len(d) + 1
      BY <2>2, <3>3, Inserted
    <3>5. Len(Insert(d, j, it)) <= a
      BY <1>a, <2>2, <3>4
    <3> QED
      BY <1>q, <2>3, <3>2, <3>5
  <2> QED
    BY <1>6, <2>4, <2>5
<1>7. CASE Clear
  <2>1. eng' = [eng EXCEPT !.queue = <<>>] /\ UNCHANGED restored /\ Len(<<>>) <= a
    BY <1>7 DEF Clear
  <2> QED
    BY <1>q, <2>1
<1>8. ASSUME NEW b0 \in BOOLEAN, SetLocked(b0) \/ SetEndBehavior(b0) PROVE Shallow'
  BY <1>8 DEF SetLocked, SetEndBehavior, Shallow
<1>9. \A r, s : Len(<<r>>) \in Nat /\ Len(<<r, s>>) \in Nat
  OBVIOUS
<1> QED
  BY <1>4, <1>5, <1>6, <1>7, <1>8, <1>9 DEF Edit

\* Playback only moves items; auto-fill creates one when nothing plays and
\* nothing is queued.
LEMMA PlayShallow ==
  ASSUME Typed, Shallow, Play
  PROVE  Shallow'
<1>0. eng \in Engines(Item) /\ Typed'
  BY PlayTyped DEF Typed
<1>g. ASSUME Size(eng') <= Size(eng), UNCHANGED restored PROVE Shallow'
  BY <1>0, <1>g, StaysShallow
<1>s. \A e \in Engines(Item) : Size(e) \in Nat
  BY Measured, Totals
<1>1. CASE Advance
  BY <1>0, <1>1, <1>g, AdvanceAddsNothing DEF Advance
<1>2. CASE AdvanceAsks \/ CloseOut
  BY <1>0, <1>2, <1>g, RetireAddsNothing DEF AdvanceAsks, CloseOut, Rearrange
<1>3. CASE AdvanceEmpty
  BY <1>3 DEF AdvanceEmpty, Shallow
<1>4. ASSUME NEW t \in Tracks, AdvanceFilled(t) PROVE Shallow'
  <2>1. PICK s \in Stamps : eng' = [eng EXCEPT !.current = NewItem(t, s), !.playing = TRUE]
    BY <1>4 DEF AdvanceFilled
  <2>2. eng'.queue = eng.queue /\ restored' = restored /\ eng.queue = <<>>
    BY <1>0, <1>4, <2>1 DEF AdvanceFilled, Typed, Engines
  <2>3. eng' \in Engines(Item)
    BY <1>0 DEF Typed
  <2>4. PICK x, y, z \in Nat : Measures(eng', x, y, z) /\ y <= HistoryMax /\ z <= 1
    BY <2>3, Measured
  <2>5. x = 0
    BY <2>2, <2>4 DEF Measures
  <2>6. Size(eng') = x + y + z
    BY <2>4, Totals
  <2>7. Cap \in Nat /\ HistoryMax \in Nat /\ restored \in Nat
    BY HistoryMaxAssumption, QueueConstants DEF Typed
  <2> QED
    BY <2>2, <2>4, <2>5, <2>6, <2>7 DEF Shallow
<1>5. CASE SkipBack \/ SkipHeldFront \/ SkipBackHeldFront \/ SetStopped
  <2>1. /\ Size(SkipBackOp(eng)) <= Size(eng) /\ Size(SkipHeldOp(eng)) <= Size(eng)
        /\ Size(SkipBackHeldOp(eng)) <= Size(eng) /\ Size(StopOp(eng)) <= Size(eng)
    BY <1>0, SkipBackAddsNothing, SkipHeldAddsNothing, SkipBackHeldAddsNothing, HoldAddsNothing
  <2> QED
    BY <1>5, <1>g, <2>1 DEF SkipBack, SkipHeldFront, SkipBackHeldFront, SetStopped, Rearrange
<1>6. ASSUME NEW b \in BOOLEAN, HoldCurrent(b) PROVE Shallow'
  BY <1>0, <1>6, <1>g, HoldAddsNothing DEF HoldCurrent, Rearrange
<1>7. ASSUME NEW b \in BOOLEAN, SetPaused(b) PROVE Shallow'
  <2>1. /\ eng'.queue = eng.queue /\ eng'.history = eng.history /\ eng'.current = eng.current
        /\ UNCHANGED restored
    BY <1>0, <1>7 DEF SetPaused, Rearrange, Engines
  <2>2. Size(eng') = Size(eng) /\ Size(eng) \in Nat
    BY <1>0, <1>s, <2>1 DEF Size, Playing
  <2> QED
    BY <1>g, <2>1, <2>2
<1> QED
  BY <1>1, <1>2, <1>3, <1>4, <1>5, <1>6, <1>7 DEF Play

\* A switch takes entries out, and puts back what it counts.
LEMMA SwitchShallow ==
  ASSUME Typed, Shallow, Switch
  PROVE  Shallow'
<1>0. /\ eng \in Engines(Item) /\ eng.queue \in Seq(Item) /\ strand \in Strands
      /\ restored \in Nat /\ Cap \in Nat /\ HistoryMax \in Nat
  BY EngineFields, HistoryMaxAssumption, QueueConstants DEF Typed
<1>t. Typed' /\ eng' \in Engines(Item)
  BY SwitchTyped DEF Typed
<1>1. PICK a, b, c \in Nat : Measures(eng, a, b, c) /\ b <= HistoryMax /\ c <= 1
  BY <1>0, Measured
<1>2. PICK x, y, z \in Nat : Measures(eng', x, y, z) /\ y <= HistoryMax /\ z <= 1
  BY <1>t, Measured
<1>3. Size(eng') = x + y + z /\ Size(eng) = a + b + c
  BY <1>1, <1>2, Totals
<1>a. /\ Len(eng.queue) = a /\ Len(eng.history) = b /\ Playing(eng) = c
      /\ Len(eng'.queue) = x /\ Len(eng'.history) = y /\ Playing(eng') = z
  BY <1>1, <1>2 DEF Measures
<1>4. ASSUME NEW S \in SUBSET Tracks, StrandedConfirm(S) PROVE Shallow'
  BY <1>4 DEF StrandedConfirm, Shallow
<1>5. CASE StrandedRemove
  <2> DEFINE q == Removal(strand.entries)
  <2>1. Len(q) <= Len(eng.queue)
    BY <1>0, ReceiptsLen, RemovalLen DEF Removal
  <2>2. eng' = [eng EXCEPT !.queue = q] /\ UNCHANGED restored
    BY <1>5 DEF StrandedRemove
  <2> HIDE DEF q
  <2>3. eng'.queue = q /\ eng'.history = eng.history /\ eng'.current = eng.current
    BY <1>0, <2>2 DEF Engines
  <2>4. x <= a /\ y = b /\ z = c
    BY <1>a, <2>1, <2>3 DEF Playing
  <2>5. Size(eng') <= Size(eng)
    BY <1>3, <2>4
  <2> QED
    BY <1>t, <2>2, <2>5, StaysShallow
<1>6. CASE SwitchSucceeds
  BY <1>6 DEF SwitchSucceeds, Shallow
<1>7. CASE SwitchFails
  <2> DEFINE q == RestoreEntriesOp(eng.queue, strand.entries)
             n == Len(strand.entries)
  <2>1. strand.entries \in Seq(Pairs(Item)) /\ n \in Nat
    BY <1>0, LenProperties DEF Strands, Entry, Pairs
  <2>2. Len(q) = Len(eng.queue) + n
    BY <1>0, <2>1, RestoreLen
  <2>3. eng' = [eng EXCEPT !.queue = q] /\ restored' = restored + n
    BY <1>7 DEF SwitchFails
  <2> HIDE DEF q, n
  <2>4. eng'.queue = q /\ eng'.history = eng.history /\ eng'.current = eng.current
    BY <1>0, <2>3 DEF Engines
  <2>5. x = a + n /\ y = b /\ z = c
    BY <1>a, <2>1, <2>2, <2>4 DEF Playing
  <2> QED
    BY <1>0, <1>3, <2>1, <2>3, <2>5, SMTT(30) DEF Shallow
<1> QED
  BY <1>4, <1>5, <1>6, <1>7 DEF Switch

\* The depth cap guards appends only; skips back, holds and rollbacks insert
\* past it (engine.py).  Even so the engine never holds more than the cap, a
\* full history, one current item and what failed switches put back, and this
\* with a removal that waits for the device too.
THEOREM DepthStaysBounded == Spec => []DepthBounded
<1>1. Init => Shallow
  <2> SUFFICES ASSUME Init PROVE Shallow
    OBVIOUS
  <2>1. Len(eng.queue) = 0 /\ Len(eng.history) = 0 /\ Playing(eng) = 0 /\ restored = 0
    BY DEF Init, Playing
  <2>2. Size(eng) = 0
    BY <2>1 DEF Size
  <2>3. Cap \in Nat /\ HistoryMax \in Nat
    BY HistoryMaxAssumption, QueueConstants
  <2> QED
    BY <2>1, <2>2, <2>3 DEF Shallow
<1>2. Typed /\ Shallow /\ [Next]_vars => Shallow'
  <2> SUFFICES ASSUME Typed, Shallow, [Next]_vars PROVE Shallow'
    OBVIOUS
  <2>1. CASE UNCHANGED vars
    BY <2>1 DEF Shallow, vars
  <2> QED
    BY <2>1, EnqueueShallow, EditShallow, PlayShallow, SwitchShallow DEF Next
<1>3. Shallow => DepthBounded
  BY DEF Shallow, DepthBounded, Size, Playing
<1> QED
  BY <1>1, <1>2, <1>3, AlwaysTyped, PTL DEF Spec
=============================================================================
