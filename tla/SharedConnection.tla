--------------------------- MODULE SharedConnection ---------------------------
(***************************************************************************)
(* app/database.py: every coroutine writes and reads through one SQLite    *)
(* connection.  Statements are serialised, transactions are not: a commit  *)
(* commits what everybody has written so far, a rollback drops it, and a   *)
(* read sees what is not committed yet.  _write_tx_lock covers the         *)
(* replacing writers and the per-track ones; the settings' writers stay    *)
(* outside it, and _begin_immediate waits for them a few times.            *)
(*                                                                         *)
(* A replaced table is a version and whether its rows are there; a play    *)
(* count and a setting are numbers.  The process may die between any two   *)
(* statements and comes back with what was committed.                      *)
(***************************************************************************)
EXTENDS Integers, Sequences, FiniteSets

CONSTANTS Writers,       \* the writes under way at once
          BeginRetries,  \* _BEGIN_RETRIES
          MaxWrites, MaxErrors, MaxCrashes

VARIABLES disk,    \* what is committed
          work,    \* what the connection shows: disk and the open transaction
          tx,      \* whether a transaction is open on the connection
          lock,    \* _write_tx_lock: its holder, then those that wait, in order
          job,     \* the writers: [kind, pc, v, tries]
          mem,     \* the queue engine's queue, by version
          acked,   \* what callers were told is written: [plays, setting]
          spent    \* what the bounds count
connVars == <<disk, work, tx, lock, job, mem, acked, spent>>

Tables == {"queue", "catalog"}
Off == [kind |-> "none", pc |-> "off", v |-> 0, tries |-> 0]
Fresh == [queue |-> [v |-> 0, whole |-> TRUE], catalog |-> [v |-> 0, whole |-> TRUE],
          plays |-> 0, setting |-> 0]

ConnInit ==
    /\ disk = Fresh /\ work = Fresh /\ tx = FALSE /\ lock = <<>> /\ mem = 0
    /\ job = [w \in Writers |-> Off]
    /\ acked = [plays |-> 0, setting |-> 0]
    /\ spent = [writes |-> 0, errors |-> 0, crashes |-> 0]

Step(w, pc) == job' = [job EXCEPT ![w].pc = pc]
Ends(w) == job' = [job EXCEPT ![w] = Off]
Holds(w) == lock # <<>> /\ Head(lock) = w
Spends(k) == spent' = [spent EXCEPT ![k] = @ + 1]

(***************************************************************************)
(* Who writes.                                                             *)
(***************************************************************************)
Begins(w, kind, v) ==
    /\ job[w] = Off /\ spent.writes < MaxWrites
    /\ \A u \in Writers : job[u].kind # kind \/ kind = "queue"
    /\ job' = [job EXCEPT ![w] = [kind |-> kind, pc |-> "start", v |-> v, tries |-> 0]]
    /\ Spends("writes")
    /\ UNCHANGED <<disk, work, tx, acked>>

\* Mutant of Persists: the newest waiter is woken first.
PersistsNewest(w) ==
    /\ Begins(w, "queue", mem + 1) /\ mem' = mem + 1
    /\ lock' = IF lock = <<>> THEN <<w>> ELSE <<Head(lock), w>> \o Tail(lock)

\* QueueEngine._persist: a task with the snapshot of this moment.  Ready
\* tasks run in the order they were made, and the lock is fair.
Persists(w) == Begins(w, "queue", mem + 1) /\ mem' = mem + 1 /\ lock' = Append(lock, w)

\* replace_catalog, set_browse_index, set_genre_cache, set_credit_cache.
Replaces(w) == Begins(w, "catalog", work.catalog.v + 1) /\ lock' = Append(lock, w) /\ UNCHANGED mem

\* increment_play_count, set_play_track_meta: locked, one statement.
Counts(w) == Begins(w, "play", 0) /\ lock' = Append(lock, w) /\ UNCHANGED mem

\* set_setting and its kind: no lock.
Sets(w) == Begins(w, "setting", acked.setting + 1) /\ UNCHANGED <<mem, lock>>

(***************************************************************************)
(* The statements.                                                         *)
(***************************************************************************)
\* An explicit BEGIN finds a transaction open: it waits and tries again, or
\* gives up and lets the lock go.
BeginsOrCollides(w) ==
    /\ job[w].kind = "catalog" /\ job[w].pc = "start" /\ Holds(w)
    /\ IF ~tx THEN tx' = TRUE /\ Step(w, "begun") /\ UNCHANGED lock
       ELSE /\ UNCHANGED tx
            /\ IF job[w].tries + 1 < BeginRetries
               THEN job' = [job EXCEPT ![w].tries = @ + 1] /\ UNCHANGED lock
               ELSE Ends(w) /\ lock' = Tail(lock)
    /\ UNCHANGED <<disk, work, mem, acked, spent>>

Ready(w) == \/ job[w].kind = "queue" /\ job[w].pc = "start" /\ Holds(w)
            \/ job[w].kind = "catalog" /\ job[w].pc = "begun"

Deletes(w) ==     \* DELETE FROM the table
    /\ Ready(w)
    /\ work' = [work EXCEPT ![job[w].kind].whole = FALSE]
    /\ tx' = TRUE /\ Step(w, "deleted")
    /\ UNCHANGED <<disk, lock, mem, acked, spent>>

Inserts(w) ==     \* executemany
    /\ job[w].pc = "deleted"
    /\ work' = [work EXCEPT ![job[w].kind] = [v |-> job[w].v, whole |-> TRUE]]
    /\ tx' = TRUE /\ Step(w, "written")
    /\ UNCHANGED <<disk, lock, mem, acked, spent>>

\* Mutant of Bumps: the increment does not wait for the lock.
BumpsUnlocked(w) ==
    /\ job[w].kind = "play" /\ job[w].pc = "start"
    /\ work' = [work EXCEPT !.plays = @ + 1]
    /\ tx' = TRUE /\ Step(w, "written")
    /\ UNCHANGED <<disk, lock, mem, acked, spent>>

Bumps(w) ==       \* count = count + 1
    /\ job[w].kind = "play" /\ job[w].pc = "start" /\ Holds(w)
    /\ work' = [work EXCEPT !.plays = @ + 1]
    /\ tx' = TRUE /\ Step(w, "written")
    /\ UNCHANGED <<disk, lock, mem, acked, spent>>

Puts(w) ==        \* the upsert of set_setting
    /\ job[w].kind = "setting" /\ job[w].pc = "start"
    /\ work' = [work EXCEPT !.setting = job[w].v]
    /\ tx' = TRUE /\ Step(w, "written")
    /\ UNCHANGED <<disk, lock, mem, acked, spent>>

Leaves(w) == lock' = IF Holds(w) THEN Tail(lock) ELSE lock

Commits(w) ==
    /\ job[w].pc = "written"
    /\ disk' = work /\ tx' = FALSE
    /\ acked' = CASE job[w].kind = "play" -> [acked EXCEPT !.plays = @ + 1]
                  [] job[w].kind = "setting" -> [acked EXCEPT !.setting = job[w].v]
                  [] OTHER -> acked
    /\ Leaves(w) /\ Ends(w)
    /\ UNCHANGED <<work, mem, spent>>

\* A statement of a replacing writer raises: rollback, and the error goes up.
RollsBack(w) ==
    /\ job[w].pc \in {"begun", "deleted", "written"} /\ job[w].kind \in Tables
    /\ spent.errors < MaxErrors
    /\ work' = disk /\ tx' = FALSE
    /\ Leaves(w) /\ Ends(w) /\ Spends("errors")
    /\ UNCHANGED <<disk, mem, acked>>

\* The process dies and comes back: load_from_db reads the committed queue.
Crashes ==
    /\ spent.crashes < MaxCrashes
    /\ work' = disk /\ tx' = FALSE /\ lock' = <<>>
    /\ job' = [w \in Writers |-> Off]
    /\ mem' = disk.queue.v
    /\ Spends("crashes")
    /\ UNCHANGED <<disk, acked>>

ConnNext ==
    \/ \E w \in Writers : \/ Persists(w) \/ Replaces(w) \/ Counts(w) \/ Sets(w)
                          \/ BeginsOrCollides(w) \/ Deletes(w) \/ Inserts(w) \/ Bumps(w)
                          \/ Puts(w) \/ Commits(w) \/ RollsBack(w)
    \/ Crashes
ConnSpec == ConnInit /\ [][ConnNext]_connVars

(***************************************************************************)
(* What should hold.                                                       *)
(***************************************************************************)
\* The state is of the shape the code keeps.
ConnTypeOK ==
    /\ \A d \in {disk, work} : d.plays \in 0..MaxWrites /\ d.setting \in 0..MaxWrites
    /\ tx \in BOOLEAN /\ Len(lock) <= Cardinality(Writers)
    /\ \A i, j \in DOMAIN lock : lock[i] = lock[j] => i = j

\* A play whose write returned is committed: nobody's rollback takes it with
\* it, no crash loses it (the lock increment_play_count holds).
PlaysKept == acked.plays <= disk.plays

\* When every save has ended and none failed, the stored queue is the
\* queue: the saves land in the order of the changes (_persist).
LastSaveWins ==
    (\A w \in Writers : job[w].kind # "queue") /\ spent.errors = 0 /\ spent.crashes = 0
    => disk.queue = [v |-> mem, whole |-> TRUE]

\* A crash leaves a queue that was once saved, not a table between its
\* DELETE and its INSERT (save_queue: the transaction around the pair).
StoredQueueWhole == disk.queue.whole

=============================================================================
