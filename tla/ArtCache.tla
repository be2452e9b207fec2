------------------------------ MODULE ArtCache ------------------------------
(***************************************************************************)
(* The art proxy's disk cache (app/cache/art_cache.py) under the requests  *)
(* of GET /art (api/guest.py) and the boot's enforce_cap_async (state.py). *)
(* The index and its byte count live in memory and move under an asyncio   *)
(* lock; files are written, read and unlinked by executor threads, and the *)
(* index is loaded by one.  Every file counts one byte.                    *)
(***************************************************************************)
EXTENDS Integers, Sequences, FiniteSets

LOCAL INSTANCE SequencesExt

CONSTANTS Keys, Requests, None,
          Boot,        \* the task that enforces the cap at start
          Cap,
          MaxAsks,     \* requests
          MaxFaults,   \* loads, writes and fetches that raise
          MaxCrashes

VARIABLES disk,    \* [key -> which of its two files are there]
          index,   \* the index, the least recently used first
          size,    \* _size_bytes
          loaded,  \* _loaded
          event,   \* _load_event: "none", "made" or "set"
          lock,    \* who holds _lock
          thread,  \* a loader thread: [pc, rows]
          task,    \* [task -> where it is and its key]
          overlap, \* a load began before another had ended
          spent    \* what the bounds count
artVars == <<disk, index, size, loaded, event, lock, thread, task, overlap, spent>>

Tasks == Requests \cup {Boot}
Idle == [pc |-> "idle", key |-> None]
NoThread == [pc |-> "none", rows |-> {}]
Whole(k) == disk[k].bytes /\ disk[k].meta
Fresh == /\ index' = <<>> /\ size' = 0 /\ loaded' = FALSE /\ event' = "none"
         /\ lock' = None /\ thread' = [t \in Tasks |-> NoThread]
         /\ task' = [t \in Tasks |-> IF t = Boot THEN [Idle EXCEPT !.pc = "start"] ELSE Idle]
         /\ overlap' = FALSE
ArtInit ==
    /\ disk \in [Keys -> {[bytes |-> b, meta |-> b] : b \in BOOLEAN}]
    /\ index = <<>> /\ size = 0 /\ loaded = FALSE /\ event = "none" /\ lock = None
    /\ thread = [t \in Tasks |-> NoThread]
    /\ task = [t \in Tasks |-> IF t = Boot THEN [Idle EXCEPT !.pc = "start"] ELSE Idle]
    /\ overlap = FALSE
    /\ spent = [asks |-> 0, faults |-> 0, crashes |-> 0]

Spends(k, max) == spent[k] < max /\ spent' = [spent EXCEPT ![k] = @ + 1]
Is(t, pc) == task[t].pc = pc
Goes(t, pc) == task' = [task EXCEPT ![t].pc = pc]
Key(t) == task[t].key
Loading == {t \in Tasks : thread[t].pc # "none"}

(***************************************************************************)
(* Loading the index: at boot, or by the first request that needs it.      *)
(***************************************************************************)
StartsThread(t) == /\ thread' = [thread EXCEPT ![t].pc = "clear"]
                   /\ overlap' = (overlap \/ Loading # {})
BootStarts ==
    /\ Is(Boot, "start")
    /\ IF loaded THEN Goes(Boot, "pass") /\ UNCHANGED <<thread, overlap>>
       ELSE Goes(Boot, "load") /\ StartsThread(Boot)
    /\ UNCHANGED <<disk, index, size, loaded, event, lock, spent>>
\* The first request makes the event and loads, the later ones wait for it.
Ensures(r) ==
    /\ Is(r, "ensure") /\ (loaded \/ lock = None)
    /\ IF loaded THEN Goes(r, "look") /\ UNCHANGED <<event, thread, overlap>>
       ELSE IF event = "none"
       THEN event' = "made" /\ Goes(r, "load") /\ StartsThread(r)
       ELSE Goes(r, "wait") /\ UNCHANGED <<event, thread, overlap>>
    /\ UNCHANGED <<disk, index, size, loaded, lock, spent>>
Clears(t) ==
    /\ thread[t].pc = "clear"
    /\ index' = <<>> /\ size' = 0
    /\ thread' = [thread EXCEPT ![t].pc = "scan"]
    /\ UNCHANGED <<disk, loaded, event, lock, task, overlap, spent>>
\* Bytes without their meta file are unlinked; meta files alone are passed over.
Scans(t) ==
    /\ thread[t].pc = "scan"
    /\ thread' = [thread EXCEPT ![t] = [pc |-> "fill", rows |-> {k \in Keys : Whole(k)}]]
    /\ disk' = [k \in Keys |-> [disk[k] EXCEPT !.bytes = @ /\ disk[k].meta]]
    /\ UNCHANGED <<index, size, loaded, event, lock, task, overlap, spent>>
\* Rows of the index by the age of their file: any order.
Fills(t) ==
    /\ thread[t].pc = "fill"
    /\ \E s \in SetToAllKPermutations(thread[t].rows) :
          /\ ToSet(s) = thread[t].rows
          /\ index' = index \o SelectSeq(s, LAMBDA k : k \notin ToSet(index))
    /\ size' = size + Cardinality(thread[t].rows)
    /\ thread' = [thread EXCEPT ![t] = [pc |-> "done", rows |-> {}]]
    /\ UNCHANGED <<disk, loaded, event, lock, task, overlap, spent>>
LoadRaises(t) ==
    /\ thread[t].pc = "scan" /\ Spends("faults", MaxFaults)
    /\ thread' = [thread EXCEPT ![t].pc = "done"]
    /\ UNCHANGED <<disk, index, size, loaded, event, lock, task, overlap>>
\* A load that leaves its waiters to the boot's one.
LoadEndsUnset(t) ==
    /\ Is(t, "load") /\ thread[t].pc = "done"
    /\ loaded' = TRUE /\ UNCHANGED event
    /\ Goes(t, IF t = Boot THEN "pass" ELSE "look")
    /\ thread' = [thread EXCEPT ![t] = NoThread]
    /\ UNCHANGED <<disk, index, size, lock, overlap, spent>>
\* The finally of both loaders; an error ends the boot's enforcement.
LoadEnds(t) ==
    /\ Is(t, "load") /\ thread[t].pc = "done"
    /\ loaded' = TRUE
    /\ event' = IF event = "none" THEN event ELSE "set"
    /\ Goes(t, IF t = Boot THEN "pass" ELSE "look")
    /\ thread' = [thread EXCEPT ![t] = NoThread]
    /\ UNCHANGED <<disk, index, size, lock, overlap, spent>>
Waits(r) ==
    /\ Is(r, "wait") /\ event = "set" /\ Goes(r, "look")
    /\ UNCHANGED <<disk, index, size, loaded, event, lock, thread, overlap, spent>>

(***************************************************************************)
(* GET /art: look, read; on a miss fetch and store.                        *)
(***************************************************************************)
Asks(r, k) ==
    /\ Is(r, "idle") /\ Spends("asks", MaxAsks)
    /\ task' = [task EXCEPT ![r] = [pc |-> "ensure", key |-> k]]
    /\ UNCHANGED <<disk, index, size, loaded, event, lock, thread, overlap>>
Without(k) == SelectSeq(index, LAMBDA x : x # k)
Has(k) == k \in ToSet(index)
Looks(r) ==
    /\ Is(r, "look") /\ lock = None
    /\ IF Has(Key(r)) THEN index' = Append(Without(Key(r)), Key(r)) /\ Goes(r, "read")
       ELSE UNCHANGED index /\ Goes(r, "fetch")
    /\ UNCHANGED <<disk, size, loaded, event, lock, thread, overlap, spent>>
Reads(r) ==
    /\ Is(r, "read")
    /\ task' = [task EXCEPT ![r] = IF disk[Key(r)].bytes THEN Idle ELSE [@ EXCEPT !.pc = "forget"]]
    /\ UNCHANGED <<disk, index, size, loaded, event, lock, thread, overlap, spent>>
Forgets(r) ==
    /\ Is(r, "forget") /\ lock = None
    /\ index' = Without(Key(r)) /\ size' = size - (IF Has(Key(r)) THEN 1 ELSE 0)
    /\ Goes(r, "fetch")
    /\ UNCHANGED <<disk, loaded, event, lock, thread, overlap, spent>>
Fetches(r) ==
    /\ Is(r, "fetch") /\ Goes(r, "meta")
    /\ UNCHANGED <<disk, index, size, loaded, event, lock, thread, overlap, spent>>
FetchRaises(r) ==
    /\ Is(r, "fetch") /\ Spends("faults", MaxFaults)
    /\ task' = [task EXCEPT ![r] = IF Has(Key(r)) THEN [@ EXCEPT !.pc = "look"] ELSE Idle]
    /\ UNCHANGED <<disk, index, size, loaded, event, lock, thread, overlap>>
\* _write_atomic: the meta file first, each by a rename.
WritesMeta(r) ==
    /\ Is(r, "meta") /\ disk' = [disk EXCEPT ![Key(r)].meta = TRUE] /\ Goes(r, "bytes")
    /\ UNCHANGED <<index, size, loaded, event, lock, thread, overlap, spent>>
WritesBytes(r) ==
    /\ Is(r, "bytes") /\ disk' = [disk EXCEPT ![Key(r)].bytes = TRUE] /\ Goes(r, "insert")
    /\ UNCHANGED <<index, size, loaded, event, lock, thread, overlap, spent>>
WriteRaises(r) ==
    /\ task[r].pc \in {"meta", "bytes"} /\ Spends("faults", MaxFaults)
    /\ task' = [task EXCEPT ![r] = Idle]
    /\ UNCHANGED <<disk, index, size, loaded, event, lock, thread, overlap>>
GrownAnew(k) == size + 1
Grown(k) == size + (IF Has(k) THEN 0 ELSE 1)
Inserts(r) ==
    /\ Is(r, "insert") /\ lock = None
    /\ index' = Append(Without(Key(r)), Key(r)) /\ size' = Grown(Key(r))
    /\ lock' = r /\ Goes(r, "evict")
    /\ UNCHANGED <<disk, loaded, event, thread, overlap, spent>>

(***************************************************************************)
(* Eviction, under the lock: by the store of a request and at boot.        *)
(***************************************************************************)
BootPasses ==
    /\ Is(Boot, "pass") /\ lock = None /\ lock' = Boot /\ Goes(Boot, "evict")
    /\ UNCHANGED <<disk, index, size, loaded, event, thread, overlap, spent>>
OverByOne == size > Cap + 1 /\ index # <<>>
Over == size > Cap /\ index # <<>>
Evicts(t) ==
    /\ Is(t, "evict") /\ Over
    /\ index' = Tail(index) /\ size' = size - 1
    /\ task' = [task EXCEPT ![t] = [pc |-> "unlink", key |-> Head(index)]]
    /\ UNCHANGED <<disk, loaded, event, lock, thread, overlap, spent>>
UnlinksBytes(t) ==
    /\ Is(t, "unlink") /\ disk' = [disk EXCEPT ![Key(t)].bytes = FALSE] /\ Goes(t, "unmeta")
    /\ UNCHANGED <<index, size, loaded, event, lock, thread, overlap, spent>>
UnlinksMeta(t) ==
    /\ Is(t, "unmeta") /\ disk' = [disk EXCEPT ![Key(t)].meta = FALSE] /\ Goes(t, "evict")
    /\ UNCHANGED <<index, size, loaded, event, lock, thread, overlap, spent>>
EvictEnds(t) ==
    /\ Is(t, "evict") /\ ~Over
    /\ lock' = None /\ task' = [task EXCEPT ![t] = Idle]
    /\ UNCHANGED <<disk, index, size, loaded, event, thread, overlap, spent>>

\* A crash leaves the files as they are.
Crashes == Spends("crashes", MaxCrashes) /\ Fresh /\ UNCHANGED disk

ArtNext ==
    \/ BootStarts \/ BootPasses
    \/ \E t \in Tasks :
         \/ Clears(t) \/ Scans(t) \/ Fills(t) \/ LoadRaises(t) \/ LoadEnds(t)
         \/ Evicts(t) \/ UnlinksBytes(t) \/ UnlinksMeta(t) \/ EvictEnds(t)
    \/ \E r \in Requests :
         \/ \E k \in Keys : Asks(r, k)
         \/ Ensures(r) \/ Waits(r) \/ Looks(r) \/ Reads(r) \/ Forgets(r)
         \/ Fetches(r) \/ FetchRaises(r) \/ WritesMeta(r) \/ WritesBytes(r)
         \/ WriteRaises(r) \/ Inserts(r)
    \/ Crashes

ArtSpec == ArtInit /\ [][ArtNext]_artVars
\* Threads, the event loop and the fetch go on; requests come as they like.
Steps(t) ==
    \/ Clears(t) \/ Scans(t) \/ Fills(t) \/ LoadEnds(t)
    \/ Evicts(t) \/ UnlinksBytes(t) \/ UnlinksMeta(t) \/ EvictEnds(t)
Serves(r) ==
    \/ Ensures(r) \/ Waits(r) \/ Looks(r) \/ Reads(r) \/ Forgets(r)
    \/ Fetches(r) \/ WritesMeta(r) \/ WritesBytes(r) \/ Inserts(r)
ArtWorks ==
    \/ BootStarts \/ BootPasses \/ \E t \in Tasks : Steps(t) \/ \E r \in Requests : Serves(r)
ArtFair == WF_artVars(ArtWorks)
ArtFairSpec == ArtSpec /\ ArtFair

-----------------------------------------------------------------------------
\* The state is well typed.
ArtTypeOK ==
    /\ disk \in [Keys -> [bytes : BOOLEAN, meta : BOOLEAN]]
    /\ ToSet(index) \subseteq Keys /\ IsInjective(index)
    /\ size \in Int /\ loaded \in BOOLEAN /\ event \in {"none", "made", "set"}
    /\ lock \in Tasks \cup {None} /\ overlap \in BOOLEAN
    /\ \A t \in Tasks : thread[t].pc \in {"none", "clear", "scan", "fill", "done"}
    /\ (lock # None => task[lock].pc \in {"evict", "unlink", "unmeta"})

\* The byte count the eviction goes by is the size of what the index holds,
\* whatever stores, reads of vanished files and evictions cross, unless two
\* loads of the index ran at once.
SizeIsIndex == ~overlap => size = Len(index)

\* Once the boot's enforcement is over and nobody is evicting, the cache is
\* within its cap.
CapKept == (task[Boot].pc = "idle" /\ lock = None /\ ~overlap) => size <= Cap

\* Every request for art is answered, also when the load of the index fails.
RequestsRest == \A r \in Requests : Is(r, "idle")
RequestsEnd == []<>RequestsRest

=============================================================================
