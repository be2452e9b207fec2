----------------------------- MODULE QueueEngine -----------------------------
(***************************************************************************)
(* The queue engine (app/queue/engine.py) with its callers' batch removal  *)
(* and rollback around an output switch (app/state.py, app/api/admin.py).  *)
(*                                                                         *)
(* Every method runs under the engine's asyncio lock and suspends inside   *)
(* it in one place only: advance() on an empty queue awaits the auto-fill  *)
(* provider with nothing playing.  `filling' is that suspension; every     *)
(* other locked operation waits for it.                                    *)
(***************************************************************************)
EXTENDS QueueOps, FiniteSets

CONSTANTS
    Tracks,          \* track ids a guest, the host or auto-fill can enqueue
    Cap,             \* _MAX_QUEUE_DEPTH
    MaxItems,        \* bound: QueueItems created in a behaviour
    MaxRestores,     \* bound: failed output switches
    StampsTie,       \* TRUE: two items may be created within one microsecond
    RevokeSuspends   \* TRUE: a stranded track may be the armed next, so that
                     \* removing it awaits the device and others run meanwhile

ASSUME QueueConstants ==
    /\ Cap \in Nat \ {0}
    /\ MaxItems \in Nat
    /\ MaxRestores \in Nat
    /\ {StampsTie, RevokeSuspends} \subseteq BOOLEAN

VARIABLES
    eng,        \* the lists and flags, see QueueOps
    locked,     \* _locked: guests may not append
    random,     \* _end_behavior is one of the two random modes
    filling,    \* advance() holds the engine lock awaiting the provider
    nextId,     \* identity of the next QueueItem object
    clock,      \* latest added_at stamp handed out
    strand,     \* the output switch that removed entries, if one is running
    restored,   \* entries put back by failed switches so far
    switches,   \* failed switches so far
    discarded   \* items an operation deliberately let go

vars == <<eng, locked, random, filling, nextId, clock, strand, restored,
          switches, discarded>>

Item == [id : Nat, track : Tracks, stamp : Nat, rec : BOOLEAN]

\* None is not a QueueItem.
ASSUME NoItemAssumption == NoItem \notin Item

Entry == [pos : Nat, item : Item]

IdsOf(s) == {s[i].id : i \in DOMAIN s}
Idle == [phase |-> "none", entries |-> <<>>, gone |-> {}]

NewItem(t, stamp) == [id |-> nextId, track |-> t, stamp |-> stamp, rec |-> FALSE]

\* datetime.now() at microsecond grain: two items can carry one stamp.
Ticks == IF StampsTie THEN {0, 1} ELSE {1}
Stamps == {clock + k : k \in Ticks}

Init ==
    /\ eng = [queue |-> <<>>, history |-> <<>>, current |-> NoItem,
              playing |-> FALSE, paused |-> FALSE]
    /\ locked = FALSE
    /\ random \in BOOLEAN
    /\ filling = FALSE
    /\ nextId = 1
    /\ clock = 0
    /\ strand = Idle
    /\ restored = 0
    /\ switches = 0
    /\ discarded = {}

-----------------------------------------------------------------------------
(* Enqueueing *)

\* Fault variant: the cap check is missing.
AppendUncapped(t, bypass) ==
    /\ ~filling /\ nextId <= MaxItems
    /\ ~locked \/ bypass
    /\ \E s \in Stamps :
        /\ eng' = [eng EXCEPT !.queue = Append(@, NewItem(t, s))]
        /\ clock' = s
    /\ nextId' = nextId + 1
    /\ UNCHANGED <<locked, random, filling, strand, restored, switches, discarded>>

\* append: a guest is refused while the queue is locked; the host is not.
AppendTrack(t, bypass) ==
    /\ ~filling /\ nextId <= MaxItems
    /\ ~locked \/ bypass
    /\ Len(eng.queue) < Cap
    /\ \E s \in Stamps :
        /\ eng' = [eng EXCEPT !.queue = Append(@, NewItem(t, s))]
        /\ clock' = s
    /\ nextId' = nextId + 1
    /\ UNCHANGED <<locked, random, filling, strand, restored, switches, discarded>>

\* append_many: an album, all or nothing.
AppendMany(t, u, bypass) ==
    /\ ~filling /\ nextId + 1 <= MaxItems
    /\ ~locked \/ bypass
    /\ Len(eng.queue) + 2 <= Cap
    /\ \E s \in Stamps, gap \in Ticks :
        /\ eng' = [eng EXCEPT !.queue =
                     @ \o <<NewItem(t, s), [NewItem(u, s + gap) EXCEPT !.id = nextId + 1]>>]
        /\ clock' = s + gap
    /\ nextId' = nextId + 2
    /\ UNCHANGED <<locked, random, filling, strand, restored, switches, discarded>>

-----------------------------------------------------------------------------
(* Removing and reordering *)

\* remove_last_matching and remove_entries: a guest hands back receipts.
RemoveEntries(receipts) ==
    /\ ~filling
    /\ LET q == RemoveEntriesOp(eng.queue, receipts)
       IN /\ q # eng.queue
          /\ eng' = [eng EXCEPT !.queue = q]
          /\ discarded' = discarded \cup (IdsOf(eng.queue) \ IdsOf(q))
    /\ UNCHANGED <<locked, random, filling, nextId, clock, strand, restored, switches>>

RemoveAtPosition(i) ==
    /\ ~filling /\ i \in DOMAIN eng.queue
    /\ eng' = [eng EXCEPT !.queue = Delete(@, i)]
    /\ discarded' = discarded \cup {eng.queue[i].id}
    /\ UNCHANGED <<locked, random, filling, nextId, clock, strand, restored, switches>>

Clear ==
    /\ ~filling
    /\ eng' = [eng EXCEPT !.queue = <<>>]
    /\ discarded' = discarded \cup IdsOf(eng.queue)
    /\ UNCHANGED <<locked, random, filling, nextId, clock, strand, restored, switches>>

\* remove_history_entry: the first match from the newest end, exactly one.
RemoveHistoryEntry(r) ==
    /\ ~filling
    /\ \E i \in DOMAIN eng.history :
        /\ Receipt(eng.history[i]) = r
        /\ \A j \in 1 .. i - 1 : Receipt(eng.history[j]) # r
        /\ eng' = [eng EXCEPT !.history = Delete(@, i)]
        /\ discarded' = discarded \cup {eng.history[i].id}
    /\ UNCHANGED <<locked, random, filling, nextId, clock, strand, restored, switches>>

\* move and promote: pop, then insert at the target position of the shorter
\* list (promote's target is the front).
Move(i, j) ==
    /\ ~filling /\ {i, j} \subseteq DOMAIN eng.queue
    /\ eng' = [eng EXCEPT !.queue = Insert(Delete(@, i), j, eng.queue[i])]
    /\ UNCHANGED <<locked, random, filling, nextId, clock, strand, restored,
                   switches, discarded>>

SetLocked(b) ==
    /\ ~filling
    /\ locked' = b
    /\ UNCHANGED <<eng, random, filling, nextId, clock, strand, restored,
                   switches, discarded>>

\* The end_behavior setter takes no lock.
SetEndBehavior(b) ==
    /\ random' = b
    /\ UNCHANGED <<eng, locked, filling, nextId, clock, strand, restored,
                   switches, discarded>>

-----------------------------------------------------------------------------
(* Playback *)

Lost(e) == IF e.current = NoItem THEN {} ELSE IdsOf(Evicted(e.history))

\* advance() with something queued, or with nothing to fill in.
Advance ==
    /\ ~filling
    /\ eng.queue # <<>> \/ ~random
    /\ eng' = AdvanceOp(eng)
    /\ discarded' = discarded \cup Lost(eng)
    /\ UNCHANGED <<locked, random, filling, nextId, clock, strand, restored, switches>>

\* advance() on an empty queue in a random mode: the engine lock stays held
\* across the provider call.
AdvanceAsks ==
    /\ ~filling /\ eng.queue = <<>> /\ random
    /\ eng' = RetireCurrent(eng)
    /\ discarded' = discarded \cup Lost(eng)
    /\ filling' = TRUE
    /\ UNCHANGED <<locked, random, nextId, clock, strand, restored, switches>>

AdvanceFilled(t) ==
    /\ filling /\ nextId <= MaxItems
    /\ \E s \in Stamps :
        /\ eng' = [eng EXCEPT !.current = NewItem(t, s), !.playing = TRUE]
        /\ clock' = s
    /\ nextId' = nextId + 1
    /\ filling' = FALSE
    /\ UNCHANGED <<locked, random, strand, restored, switches, discarded>>

AdvanceEmpty ==
    /\ filling
    /\ filling' = FALSE
    /\ UNCHANGED <<eng, locked, random, nextId, clock, strand, restored,
                   switches, discarded>>

\* The operations that only rearrange the lists.
Rearrange(e) ==
    /\ ~filling
    /\ eng' = e
    /\ UNCHANGED <<locked, random, filling, nextId, clock, strand, restored, switches>>

SkipBack         == Rearrange(SkipBackOp(eng)) /\ UNCHANGED discarded
HoldCurrent(m)   == Rearrange(HoldOp(eng, m)) /\ UNCHANGED discarded
SkipBackHeldFront == Rearrange(SkipBackHeldOp(eng)) /\ UNCHANGED discarded
SetPaused(b)     == Rearrange([eng EXCEPT !.paused = b]) /\ UNCHANGED discarded

SkipHeldFront ==
    /\ Rearrange(SkipHeldOp(eng))
    /\ discarded' = discarded \cup
         (IF eng.queue = <<>> THEN {} ELSE IdsOf(Evicted(eng.history)))

CloseOut == Rearrange(RetireCurrent(eng)) /\ discarded' = discarded \cup Lost(eng)

\* set_stopped drops the current item without recording it.
SetStopped ==
    /\ Rearrange(StopOp(eng))
    /\ discarded' = discarded \cup
         (IF eng.current = NoItem THEN {} ELSE {eng.current.id})

-----------------------------------------------------------------------------
(* An output switch to a Plex player removes the entries it could not play *)
(* and puts them back when the switch fails.                               *)

Removal(entries) == RemoveEntriesOp(eng.queue, ReceiptsOf(entries))

\* The confirmed switch: the stranded entries are snapshot.
StrandedConfirm(S) ==
    /\ ~filling /\ strand = Idle
    /\ LET entries == PositionsOf(eng.queue, S)
       IN /\ entries # <<>>
          /\ strand' = [phase |-> "revoking", entries |-> entries, gone |-> {}]
    /\ UNCHANGED <<eng, locked, random, filling, nextId, clock, restored,
                   switches, discarded>>

\* They are removed once the device gave up its armed next, which suspends
\* only if one of them is armed.
StrandedRemove ==
    /\ ~filling /\ strand.phase = "revoking"
    /\ LET q == Removal(strand.entries)
       IN /\ eng' = [eng EXCEPT !.queue = q]
          /\ strand' = [strand EXCEPT !.phase = "switching",
                                      !.gone = IdsOf(eng.queue) \ IdsOf(q)]
    /\ UNCHANGED <<locked, random, filling, nextId, clock, restored, switches, discarded>>

\* activate_backend succeeded: the removed entries are gone for good.
SwitchSucceeds ==
    /\ strand.phase = "switching"
    /\ discarded' = discarded \cup strand.gone
    /\ strand' = Idle
    /\ UNCHANGED <<eng, locked, random, filling, nextId, clock, restored, switches>>

\* activate_backend raised: restore_entries re-inserts the snapshot.
SwitchFails ==
    /\ ~filling /\ strand.phase = "switching" /\ switches < MaxRestores
    /\ eng' = [eng EXCEPT !.queue = RestoreEntriesOp(@, strand.entries)]
    /\ restored' = restored + Len(strand.entries)
    /\ switches' = switches + 1
    /\ strand' = Idle
    /\ UNCHANGED <<locked, random, filling, nextId, clock, discarded>>

-----------------------------------------------------------------------------
\* A receipt that matches nothing is a no-op, so only live ones are tried.
Receipts(s) == {Receipt(s[i]) : i \in DOMAIN s}

Enqueue == \E bypass \in BOOLEAN, t \in Tracks :
              \/ AppendTrack(t, bypass)
              \/ \E u \in Tracks : AppendMany(t, u, bypass)
Edit ==
    \/ \E r \in Receipts(eng.queue) :
          \/ RemoveEntries(<<r>>)
          \/ \E s \in Receipts(eng.queue) : RemoveEntries(<<r, s>>)
    \/ \E r \in Receipts(eng.history) : RemoveHistoryEntry(r)
    \/ \E i \in DOMAIN eng.queue :
          RemoveAtPosition(i) \/ \E j \in DOMAIN eng.queue : Move(i, j)
    \/ Clear
    \/ \E b \in BOOLEAN : SetLocked(b) \/ SetEndBehavior(b)
Play ==
    \/ Advance \/ AdvanceAsks \/ AdvanceEmpty
    \/ \E t \in Tracks : AdvanceFilled(t)
    \/ SkipBack \/ SkipHeldFront \/ SkipBackHeldFront
    \/ \E b \in BOOLEAN : HoldCurrent(b) \/ SetPaused(b)
    \/ CloseOut \/ SetStopped
Switch ==
    \/ \E S \in SUBSET Tracks : StrandedConfirm(S)
    \/ StrandedRemove \/ SwitchSucceeds \/ SwitchFails

Next ==
    \/ (strand.phase = "revoking" => RevokeSuspends) /\ (Enqueue \/ Edit \/ Play)
    \/ Switch

Spec == Init /\ [][Next]_vars

-----------------------------------------------------------------------------
(* Properties *)

\* Every variable has its type; while the provider is awaited nothing is
\* queued or playing (the body of advance, engine.py:303-331).
TypeOK ==
    /\ eng.queue \in Seq(Item)
    /\ eng.history \in Seq(Item) /\ Len(eng.history) <= HistoryMax
    /\ eng.current \in Item \cup {NoItem}
    /\ eng.playing \in BOOLEAN /\ eng.paused \in BOOLEAN
    /\ locked \in BOOLEAN /\ random \in BOOLEAN /\ filling \in BOOLEAN
    /\ nextId \in Nat /\ clock \in Nat /\ restored \in Nat /\ switches \in Nat
    /\ strand.phase \in {"none", "revoking", "switching"}
    /\ strand.entries \in Seq(Entry)
    /\ filling => eng.queue = <<>> /\ eng.current = NoItem

Lists == eng.queue \o eng.history
           \o (IF eng.current = NoItem THEN <<>> ELSE <<eng.current>>)

\* No item is both upcoming and playing or played, nor queued twice: a rolled
\* back switch puts back the entries it removed and no others
\* (state.py:4002-4005, admin.py:1240-1245).
NoItemTwice == \A i, j \in DOMAIN Lists : Lists[i].id = Lists[j].id => i = j

\* No item is lost and none is in two places: whatever sequence of skips,
\* holds, removals, rollbacks and auto-fills the engine performs, each item
\* ever created is at exactly one place in queue, history and current, or was
\* let go by an operation that says so, or waits in a running switch's
\* snapshot.
PlacedOnce ==
    /\ NoItemTwice
    /\ 1 .. nextId - 1 = IdsOf(Lists) \cup discarded \cup strand.gone
    /\ IdsOf(Lists) \cap discarded = {}

\* Skip Back followed by Skip returns to the interrupted track, with queue
\* and history as they were (skip_back's docstring, engine.py:336-345), even
\* when the history is full.
SkipBackRoundTrip ==
    (eng.current # NoItem /\ eng.history # <<>>) =>
        AdvanceOp(SkipBackOp(eng)) = [eng EXCEPT !.playing = TRUE, !.paused = FALSE]

\* The same for the held pointer: Skip then Skip Back during an outage
\* leaves the held front where it was; only the oldest history entry can go.
HeldPointerRoundTrip ==
    eng.queue # <<>> =>
        LET back == SkipBackHeldOp(SkipHeldOp(eng))
        IN /\ back.queue = eng.queue
           /\ back.history = SubSeq(eng.history, 1, Len(back.history))
           /\ Len(back.history) >= Len(eng.history) - 1

\* The rollback of a failed switch restores the queue exactly, whichever
\* tracks were stranded and however receipts repeat (state.py:3999-4017).
RollbackExact ==
    \A S \in SUBSET Tracks :
        LET entries == PositionsOf(eng.queue, S)
        IN RestoreEntriesOp(Removal(entries), entries) = eng.queue

\* The depth cap guards appends only; skips, holds and rollbacks insert past
\* it.  They still cannot grow the queue without bound: the overshoot is at
\* most the history, the current item and what rollbacks put back.
DepthBounded ==
    Len(eng.queue) + Len(eng.history) + (IF eng.current = NoItem THEN 0 ELSE 1)
        <= Cap + HistoryMax + 1 + restored
=============================================================================
