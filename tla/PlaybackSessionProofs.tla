------------------------ MODULE PlaybackSessionProofs ------------------------
(***************************************************************************)
(* Proofs about PlaybackSession for any number of tasks, items, dispatches,*)
(* signals, presses and failures and any history length, whichever of the  *)
(* interleavings DispatchGaps, EarlySignals and SourceVanishes allow.      *)
(***************************************************************************)
EXTENDS PlaybackSession, QueueOpsLemmas

\* What is dispatched with one token.
Dispatch == [id : 0 .. MaxItems, nth : Nat, mark : BOOLEAN, confirmed : BOOLEAN]

\* The steps a task takes under the lock, those while it has an item in hand,
\* and those after it was dispatched.
Locked == {"locked", "popped", "playing", "failed", "leaving", "stopping"}
InHand == {"popped", "playing", "failed"}
Given == {"playing", "failed"}
Presses == {"skip", "previous"}

-----------------------------------------------------------------------------
(* The inductive invariant: the lock *)

\* The lock and the tasks have their types.
LockTyped ==
    /\ gen \in Nat /\ owner \in Slots \cup {NoTask} /\ waitq \in Seq(Slots)
    /\ task \in [Slots -> Task] /\ token \in Nat

\* What a task captured is of the past.
Captured == \A s \in Slots : task[s].gen <= gen /\ task[s].tok <= token

\* Mutual exclusion: who takes such a step holds the lock, and the holder
\* takes such a step or enters the hold from it.
LockHeld ==
    /\ \A s \in Slots : task[s].pc \in Locked => owner = s
    /\ owner # NoTask => task[owner].pc \in Locked \cup {"holding"}

\* The waiters wait, each once.
Waiters ==
    /\ \A i \in DOMAIN waitq : task[waitq[i]].pc = "wait"
    /\ \A i, j \in DOMAIN waitq : waitq[i] = waitq[j] => i = j

\* An advance with a press behind it in the queue is outdated.
Outdated ==
    \A i, j \in DOMAIN waitq :
        i < j /\ task[waitq[i]].kind = "advance" /\ task[waitq[j]].kind \in Presses
            => task[waitq[i]].gen # gen

LockInv == LockTyped /\ Captured /\ LockHeld /\ Waiters /\ Outdated

-----------------------------------------------------------------------------
(* The inductive invariant: the queue, the hold and the dispatches *)

\* The rest of the variables have their types.
DataTyped ==
    /\ eng \in Engines(Item) /\ nextId \in 1 .. MaxItems + 1
    /\ hold \in BOOLEAN /\ outages \in Nat /\ outage \in 0 .. outages
    /\ token \in 0 .. MaxToken
    /\ cur \in 0 .. token /\ retired \in 0 .. token /\ sound \in 0 .. token
    /\ disp \in [Tokens -> Dispatch] /\ ended \in [Items -> Nat]

\* The lists hold no item twice, and no item that is still to be created.
Placed == Apart(eng) /\ \A i \in IdSet(eng) : i < nextId

\* The item a task has in hand is in the lists, and nothing else is current.
Holds ==
    \A s \in Slots : task[s].pc \in InHand =>
        /\ task[s].id \in IdSet(eng)
        /\ IdCurrent(eng) \subseteq {task[s].id}
        /\ task[s].pc \in Given => task[s].tok \in Tokens

\* Something is current while the session is held only for a resume that has
\* it in hand.
HeldByResume ==
    hold /\ eng.current # NoItem =>
        owner # NoTask /\ task[owner].kind = "resume" /\ task[owner].pc \in InHand

\* The record of a token that was not issued is untouched.
Blank == \A t \in Tokens : t > token => disp[t] = Unissued

IInv == LockInv /\ DataTyped /\ Placed /\ Holds /\ HeldByResume /\ Blank

-----------------------------------------------------------------------------
(* What a step may do to the lock *)

\* Only task s moves.
Moves(s) ==
    /\ task' \in [Slots -> Task]
    /\ \A u \in Slots : u # s => task'[u] = task[u]
    /\ token' \in Nat /\ token <= token'
    /\ task'[s].tok <= token'

\* The bounds are numbers.
LEMMA Bounds == MaxItems \in Nat /\ MaxToken \in Nat
  BY SessionConstants

\* So is what a task captured.
LEMMA TaskNumbers ==
  ASSUME NEW r \in Task PROVE r.gen \in Nat /\ r.tok \in Nat /\ r.id \in Nat /\ r.tok <= MaxToken
  BY Bounds DEF Task

\* Where a task can be suspended.
Pcs == {"free", "wait", "locked", "popped", "playing", "failed", "holding",
        "leaving", "stopping", "start", "probing", "notice"}

\* A free slot is a task, and so is a task that moved on.
LEMMA FreeTask ==
  /\ Free \in Task /\ Free.pc = "free" /\ Free.kind = "free"
  /\ Free.gen = 0 /\ Free.tok = 0 /\ Free.id = 0 /\ Free.ot = 0
<1>1. 0 \in 0 .. MaxItems /\ 0 \in 0 .. MaxToken /\ 0 \in Nat
  BY Bounds
<1> QED
  BY <1>1 DEF Free, Task

\* A task that goes on keeps what it is about.
LEMMA MovedTask ==
  ASSUME NEW r \in Task, NEW p \in Pcs
  PROVE  /\ [r EXCEPT !.pc = p] \in Task /\ [r EXCEPT !.pc = p].pc = p
         /\ [r EXCEPT !.pc = p].kind = r.kind /\ [r EXCEPT !.pc = p].gen = r.gen
         /\ [r EXCEPT !.pc = p].tok = r.tok /\ [r EXCEPT !.pc = p].id = r.id
         /\ [r EXCEPT !.pc = p].ot = r.ot
  BY DEF Task, Pcs
LEMMA WaitOrLocked == {"wait", "locked"} \subseteq Pcs
  BY DEF Pcs

\* A step of one task to a later state captures nothing of the future.
LEMMA CapturedKept ==
  ASSUME LockInv, NEW s \in Slots, Moves(s), gen' \in Nat, gen <= gen', task'[s].gen <= gen'
  PROVE  Captured'
<1> SUFFICES ASSUME NEW u \in Slots PROVE task'[u].gen <= gen' /\ task'[u].tok <= token'
  BY DEF Captured
<1>1. task[u] \in Task /\ token \in Nat /\ gen \in Nat /\ task[u].gen <= gen /\ task[u].tok <= token
  BY DEF LockInv, LockTyped, Captured
<1>2. task[u].gen \in Nat /\ task[u].tok \in Nat
  BY <1>1, TaskNumbers
<1> QED
  BY <1>1, <1>2 DEF Moves

\* Task s moves on without the lock changing hands.
LEMMA LockKept ==
  ASSUME LockInv, NEW s \in Slots, Moves(s), UNCHANGED lock,
         task[s].pc # "wait", task'[s].pc # "wait", task'[s].gen <= gen,
         owner = s => task'[s].pc \in Locked \cup {"holding"},
         owner # s => task'[s].pc \notin Locked
  PROVE  LockInv'
<1> USE DEF LockInv, lock, Moves
<1>1. LockTyped'
  BY DEF LockTyped
<1>2. Captured'
  <2>1. gen' \in Nat /\ gen <= gen' /\ task'[s].gen <= gen'
    BY TaskNumbers DEF LockTyped
  <2> QED
    BY <2>1, CapturedKept
<1>3. LockHeld'
  BY DEF LockHeld, LockTyped
<1>4. \A i \in DOMAIN waitq : waitq[i] \in Slots /\ waitq[i] # s
  BY DEF LockTyped, Waiters
<1>5. Waiters'
  BY <1>4 DEF Waiters
<1>6. Outdated'
  BY <1>4 DEF Outdated
<1> QED
  BY <1>1, <1>2, <1>3, <1>5, <1>6

\* The holder leaves.
LEMMA LockLeft ==
  ASSUME LockInv, NEW s \in Slots, Moves(s), owner = s, owner' = NoTask,
         gen' = gen, waitq' = waitq,
         task'[s].pc \notin Locked \cup {"wait"}, task'[s].gen <= gen
  PROVE  LockInv'
<1> USE DEF LockInv, Moves
<1>1. LockTyped'
  BY DEF LockTyped
<1>2. Captured'
  <2>1. gen' \in Nat /\ gen <= gen' /\ task'[s].gen <= gen'
    BY TaskNumbers DEF LockTyped
  <2> QED
    BY <2>1, CapturedKept
<1>3. LockHeld'
  BY NoTaskAssumption DEF LockHeld, LockTyped
<1>w. task[s].pc # "wait"
  BY NoTaskAssumption DEF LockHeld, Locked
<1>4. \A i \in DOMAIN waitq : waitq[i] \in Slots /\ waitq[i] # s
  BY <1>w DEF LockTyped, Waiters
<1>5. Waiters'
  BY <1>4 DEF Waiters
<1>6. Outdated'
  BY <1>4 DEF Outdated
<1> QED
  BY <1>1, <1>2, <1>3, <1>5, <1>6

\* A task takes the free lock, a press after it moved the generation.
LEMMA LockTaken ==
  ASSUME LockInv, NEW s \in Slots, Moves(s), owner = NoTask, owner' = s,
         waitq' = waitq, gen' \in {gen, gen + 1},
         task[s].pc # "wait", task'[s].pc = "locked", task'[s].gen <= gen
  PROVE  LockInv'
<1> USE DEF LockInv, Moves
<1>1. LockTyped'
  BY DEF LockTyped
<1>2. Captured'
  <2>1. gen' \in Nat /\ gen <= gen' /\ task'[s].gen <= gen'
    BY TaskNumbers DEF LockTyped
  <2> QED
    BY <2>1, CapturedKept
<1>3. LockHeld'
  BY NoTaskAssumption DEF LockHeld, LockTyped, Locked
<1>4. \A i \in DOMAIN waitq : waitq[i] \in Slots /\ waitq[i] # s
  BY DEF LockTyped, Waiters
<1>5. Waiters'
  BY <1>4 DEF Waiters
<1>6. Outdated'
  <2>1. \A i \in DOMAIN waitq : task'[waitq[i]] = task[waitq[i]] /\ task[waitq[i]].gen <= gen
                                /\ task[waitq[i]].gen \in Nat
    BY <1>4 DEF Captured, LockTyped, Task
  <2> QED
    BY <2>1 DEF Outdated, LockTyped
<1> QED
  BY <1>1, <1>2, <1>3, <1>5, <1>6

\* A task joins the waiters, a press after it moved the generation.
LEMMA LockAwaited ==
  ASSUME LockInv, NEW s \in Slots, Moves(s), owner # s, owner' = owner,
         waitq' = Append(waitq, s), gen' \in {gen, gen + 1},
         task[s].pc # "wait", task'[s].pc = "wait", task'[s].gen <= gen,
         task'[s].kind \in Presses => gen' = gen + 1
  PROVE  LockInv'
<1> USE DEF LockInv, Moves
<1>0. /\ waitq' \in Seq(Slots) /\ Len(waitq) \in Nat
      /\ DOMAIN waitq = 1 .. Len(waitq) /\ DOMAIN waitq' = 1 .. Len(waitq) + 1
      /\ \A i \in DOMAIN waitq : waitq'[i] = waitq[i]
      /\ waitq'[Len(waitq) + 1] = s
  BY DEF LockTyped
<1>1. LockTyped'
  BY <1>0 DEF LockTyped
<1>2. Captured'
  <2>1. gen' \in Nat /\ gen <= gen' /\ task'[s].gen <= gen'
    BY TaskNumbers DEF LockTyped
  <2> QED
    BY <2>1, CapturedKept
<1>3. LockHeld'
  BY NoTaskAssumption DEF LockHeld, LockTyped, Locked
<1>4. \A i \in DOMAIN waitq : waitq[i] \in Slots /\ waitq[i] # s
  BY DEF LockTyped, Waiters
<1>a. \A i \in DOMAIN waitq' : i \in DOMAIN waitq \/ i = Len(waitq) + 1
  BY <1>0
<1> HIDE DEF Moves
<1>b. \A i \in DOMAIN waitq : task'[waitq'[i]] = task[waitq[i]] /\ waitq'[i] # s
  BY <1>0, <1>4 DEF Moves
<1>5. Waiters'
  BY <1>0, <1>a, <1>b DEF Waiters
<1>6. Outdated'
  <2>1. \A i \in DOMAIN waitq : task[waitq[i]].gen <= gen /\ task[waitq[i]].gen \in Nat
    BY <1>4 DEF Captured, LockTyped, Task
  <2> SUFFICES ASSUME NEW i \in DOMAIN waitq', NEW j \in DOMAIN waitq', i < j,
                      task'[waitq'[i]].kind = "advance", task'[waitq'[j]].kind \in Presses
               PROVE  task'[waitq'[i]].gen # gen'
    BY DEF Outdated
  <2>2. i \in DOMAIN waitq
    BY <1>0, <1>a
  <2>3. CASE j \in DOMAIN waitq
    BY <1>b, <2>1, <2>2, <2>3 DEF Outdated, LockTyped
  <2>4. CASE j = Len(waitq) + 1
    BY <1>0, <1>b, <2>1, <2>2, <2>4 DEF LockTyped
  <2> QED
    BY <1>a, <2>3, <2>4
<1> QED
  BY <1>1, <1>2, <1>3, <1>5, <1>6

\* The free lock goes to the first waiter, or back if it is outdated.
LEMMA LockGranted ==
  ASSUME LockInv, NEW s \in Slots, Granted(s)
  PROVE  LockInv' /\ Moves(s) /\ task[s].pc = "wait" /\ task'[s].pc \in {"free", "locked"}
<1> USE DEF LockInv, Granted
<1>0. /\ waitq' \in Seq(Slots) /\ Len(waitq) \in Nat \ {0}
      /\ DOMAIN waitq = 1 .. Len(waitq) /\ DOMAIN waitq' = 1 .. Len(waitq) - 1
      /\ \A i \in DOMAIN waitq' : i + 1 \in DOMAIN waitq /\ waitq'[i] = waitq[i + 1]
      /\ waitq[1] = s /\ 1 \in DOMAIN waitq
  <2>1. waitq \in Seq(Slots) /\ waitq # <<>>
    BY DEF LockTyped
  <2>2. Tail(waitq) \in Seq(Slots) /\ Len(Tail(waitq)) = Len(waitq) - 1
        /\ \A i \in 1 .. Len(Tail(waitq)) : Tail(waitq)[i] = waitq[i + 1]
    BY <2>1, HeadTailProperties
  <2> QED
    BY <2>1, <2>2, EmptySeq, LenProperties
<1>a. task[s].pc = "wait"
  BY <1>0 DEF Waiters
<1>b. Moves(s) /\ task'[s].pc \in {"free", "locked"} /\ task'[s].gen <= gen
      /\ owner' = (IF task'[s].pc = "locked" THEN s ELSE NoTask) /\ gen' = gen
  <2>0. task[s] \in Task /\ token \in Nat /\ token' = token /\ gen \in Nat /\ gen' = gen
        /\ task[s].gen <= gen /\ task[s].tok <= token
    BY DEF LockTyped, Captured, supervisor
  <2>2. CASE Ends(s) /\ owner' = NoTask
    <3>1. task' = [task EXCEPT ![s] = Free]
      BY <2>2 DEF Ends
    <3> QED
      BY <2>0, <2>2, <3>1, FreeTask DEF Moves, LockTyped
  <2>3. CASE Goes(s, "locked") /\ owner' = s
    <3> DEFINE r == [task[s] EXCEPT !.pc = "locked"]
    <3>1. task' = [task EXCEPT ![s] = r]
      BY <2>3 DEF Goes
    <3>2. r \in Task /\ r.pc = "locked" /\ r.gen = task[s].gen /\ r.tok = task[s].tok
      BY <2>0, MovedTask, WaitOrLocked
    <3> HIDE DEF r
    <3> QED
      BY <2>0, <2>3, <3>1, <3>2 DEF Moves, LockTyped
  <2> QED
    BY <2>2, <2>3
<1>c. \A i \in DOMAIN waitq' : waitq'[i] \in Slots /\ waitq'[i] # s
  BY <1>0 DEF Waiters, LockTyped
<1> HIDE DEF Granted
<1>1. LockTyped'
  BY <1>0, <1>b DEF LockTyped, Moves
<1>2. Captured'
  <2>1. gen' \in Nat /\ gen <= gen' /\ task'[s].gen <= gen'
    BY <1>b DEF LockTyped
  <2> QED
    BY <1>b, <2>1, CapturedKept
<1>3. LockHeld'
  <2>1. owner = NoTask
    BY DEF Granted
  <2> QED
    BY <1>b, <2>1, NoTaskAssumption DEF LockHeld, LockTyped, Moves, Locked
<1>5. Waiters'
  BY <1>0, <1>b, <1>c, SMTT(30) DEF Waiters, Moves
<1>6. Outdated'
  BY <1>0, <1>b, <1>c, SMTT(30) DEF Outdated, Moves
<1> QED
  BY <1>1, <1>2, <1>3, <1>5, <1>6, <1>a, <1>b

\* A task that goes on, or ends.
LEMMA GoesMoves ==
  ASSUME LockInv, NEW s \in Slots, NEW p \in Pcs, Goes(s, p), token' = token
  PROVE  /\ Moves(s) /\ task'[s].pc = p /\ task'[s].kind = task[s].kind
         /\ task'[s].gen = task[s].gen /\ task'[s].gen <= gen
         /\ task'[s].tok = task[s].tok /\ task'[s].id = task[s].id
<1> DEFINE r == [task[s] EXCEPT !.pc = p]
<1>1. task' = [task EXCEPT ![s] = r]
  BY DEF Goes
<1>2. /\ r \in Task /\ r.pc = p /\ r.kind = task[s].kind /\ r.gen = task[s].gen
      /\ r.tok = task[s].tok /\ r.id = task[s].id /\ r.ot = task[s].ot
  BY MovedTask DEF LockInv, LockTyped
<1>3. task[s].gen <= gen /\ task[s].tok <= token /\ token \in Nat
  BY DEF LockInv, LockTyped, Captured
<1> HIDE DEF r
<1> QED
  BY <1>1, <1>2, <1>3 DEF Moves, LockInv, LockTyped

\* A task that ends moves to the free slot.
LEMMA EndsMoves ==
  ASSUME LockInv, NEW s \in Slots, Ends(s), token' = token
  PROVE  Moves(s) /\ task'[s].pc = "free" /\ task'[s].gen = 0 /\ task'[s].gen <= gen
<1>1. task' = [task EXCEPT ![s] = Free] /\ token \in Nat /\ gen \in Nat
  BY DEF Ends, LockInv, LockTyped
<1> QED
  BY <1>1, FreeTask DEF Moves, LockInv, LockTyped

\* The holder of the lock is somewhere under it.
LEMMA NotHolder ==
  ASSUME LockInv, NEW s \in Slots, task[s].pc \notin Locked \cup {"holding"}
  PROVE  owner # s
  BY NoTaskAssumption DEF LockInv, LockHeld

\* `async with lock' by an idle task.
LEMMA LockAcquires ==
  ASSUME LockInv, NEW s \in Slots, Idle(s), NEW r \in Task, Acquires(s, r),
         r.gen = 0, r.tok = 0, token' = token,
         r.kind \in Presses => gen' = gen + 1, gen' \in {gen, gen + 1}
  PROVE  LockInv' /\ Moves(s) /\ task'[s].pc \in {"wait", "locked"}
         /\ (owner = NoTask \/ owner' = owner)
<1>0. owner # s /\ task[s].pc # "wait" /\ token \in Nat /\ gen \in Nat
  BY NotHolder DEF Idle, Locked, LockInv, LockTyped
<1>1. CASE owner = NoTask /\ waitq = <<>>
  <2> DEFINE m == [r EXCEPT !.pc = "locked"]
  <2>1. m \in Task /\ m.pc = "locked" /\ m.gen = 0 /\ m.tok = 0
    BY MovedTask, WaitOrLocked
  <2>2. owner' = s /\ waitq' = waitq /\ task' = [task EXCEPT ![s] = m]
    BY <1>1 DEF Acquires
  <2> HIDE DEF m
  <2>3. Moves(s) /\ task'[s] = m
    BY <1>0, <2>1, <2>2 DEF Moves, LockInv, LockTyped
  <2>4. LockInv'
    BY <1>0, <1>1, <2>1, <2>2, <2>3, LockTaken
  <2> QED
    BY <1>1, <2>1, <2>2, <2>3, <2>4
<1>2. CASE ~(owner = NoTask /\ waitq = <<>>)
  <2> DEFINE m == [r EXCEPT !.pc = "wait"]
  <2>1. m \in Task /\ m.pc = "wait" /\ m.gen = 0 /\ m.tok = 0 /\ m.kind = r.kind
    BY MovedTask, WaitOrLocked
  <2>2. owner' = owner /\ waitq' = Append(waitq, s) /\ task' = [task EXCEPT ![s] = m]
    BY <1>2 DEF Acquires
  <2> HIDE DEF m
  <2>3. Moves(s) /\ task'[s] = m
    BY <1>0, <2>1, <2>2 DEF Moves, LockInv, LockTyped
  <2>4. LockInv'
    BY <1>0, <2>1, <2>2, <2>3, LockAwaited
  <2> QED
    BY <2>1, <2>2, <2>3, <2>4
<1> QED
  BY <1>1, <1>2

\* _do_advance up to the lock.
LEMMA LockStarts ==
  ASSUME LockInv, NEW s \in Slots, task[s].pc \notin Locked \cup {"holding", "wait"},
         NEW t \in 0 .. MaxToken, t <= token, NEW held, StartsAdvance(s, t, held, owner),
         gen' = gen, token' = token
  PROVE  LockInv' /\ Moves(s) /\ task'[s].pc \in {"free", "wait", "locked"}
         /\ (owner = NoTask \/ owner' = owner)
<1> DEFINE r == [Free EXCEPT !.kind = "advance", !.gen = gen, !.tok = t]
<1>0. owner # s /\ task[s].pc # "wait" /\ token \in Nat /\ gen \in Nat
  BY NotHolder DEF LockInv, LockTyped
<1>r. r \in Task /\ r.gen = gen /\ r.tok = t /\ r.kind = "advance"
  BY <1>0, FreeTask, Bounds DEF Task
<1>1. CASE held \/ owner # NoTask
  <2>1. owner' = owner /\ waitq' = waitq /\ Ends(s)
    BY <1>1 DEF StartsAdvance
  <2>2. Moves(s) /\ task'[s].pc = "free" /\ task'[s].gen <= gen
    BY <2>1, EndsMoves
  <2>3. LockInv'
    BY <1>0, <2>1, <2>2, LockKept DEF Locked, lock
  <2> QED
    BY <2>1, <2>2, <2>3
<1>2. CASE ~(held \/ owner # NoTask) /\ waitq = <<>>
  <2> DEFINE m == [r EXCEPT !.pc = "locked"]
  <2>1. m \in Task /\ m.pc = "locked" /\ m.gen = gen /\ m.tok = t
    BY <1>r, MovedTask, WaitOrLocked
  <2>2. owner' = s /\ waitq' = waitq /\ task' = [task EXCEPT ![s] = m]
    BY <1>2 DEF StartsAdvance
  <2> HIDE DEF m, r
  <2>3. Moves(s) /\ task'[s] = m
    BY <1>0, <2>1, <2>2 DEF Moves, LockInv, LockTyped
  <2>4. LockInv'
    BY <1>0, <1>2, <2>1, <2>2, <2>3, LockTaken
  <2> QED
    BY <1>2, <2>1, <2>2, <2>3, <2>4
<1>3. CASE ~(held \/ owner # NoTask) /\ waitq # <<>>
  <2> DEFINE m == [r EXCEPT !.pc = "wait"]
  <2>1. m \in Task /\ m.pc = "wait" /\ m.gen = gen /\ m.tok = t /\ m.kind = "advance"
    BY <1>r, MovedTask, WaitOrLocked
  <2>2. owner' = owner /\ waitq' = Append(waitq, s) /\ task' = [task EXCEPT ![s] = m]
    BY <1>3 DEF StartsAdvance
  <2> HIDE DEF m, r
  <2>3. Moves(s) /\ task'[s] = m
    BY <1>0, <2>1, <2>2 DEF Moves, LockInv, LockTyped
  <2>4. LockInv'
    BY <1>0, <2>1, <2>2, <2>3, LockAwaited DEF Presses
  <2> QED
    BY <2>1, <2>2, <2>3, <2>4
<1> QED
  BY <1>1, <1>2, <1>3

-----------------------------------------------------------------------------
(* What a step may do to the queue, the hold and the dispatches *)

DataInv == DataTyped /\ Placed /\ Holds /\ HeldByResume /\ Blank

\* What is in hand stays in the lists.
LEMMA HoldsKept ==
  ASSUME IInv, NEW s \in Slots, Moves(s),
         IdSet(eng) \subseteq IdSet(eng'), IdCurrent(eng') \subseteq IdCurrent(eng),
         task'[s].pc \in InHand =>
            /\ task[s].pc \in InHand /\ task'[s].id = task[s].id
            /\ task'[s].pc \in Given => task'[s].tok \in Tokens
  PROVE  Holds'
<1> SUFFICES ASSUME NEW u \in Slots, task'[u].pc \in InHand
             PROVE  /\ task'[u].id \in IdSet(eng')
                    /\ IdCurrent(eng') \subseteq {task'[u].id}
                    /\ task'[u].pc \in Given => task'[u].tok \in Tokens
  BY DEF Holds, Tokens
<1>1. task[u].pc \in InHand /\ task'[u].id = task[u].id
      /\ (task'[u].pc \in Given => task'[u].tok \in Tokens)
  BY DEF Moves, IInv, Holds
<1> QED
  BY <1>1 DEF IInv, Holds

\* What is current in a hold stays in the hand of its resume.
LEMMA HeldKept ==
  ASSUME IInv, NEW s \in Slots, Moves(s), hold' => hold,
         eng'.current # NoItem => eng.current # NoItem,
         owner # s => owner' = owner \/ owner = NoTask,
         owner = s /\ hold' /\ eng'.current # NoItem
             /\ task[s].kind = "resume" /\ task[s].pc \in InHand
           => owner' = s /\ task'[s].kind = "resume" /\ task'[s].pc \in InHand
  PROVE  HeldByResume'
<1> SUFFICES ASSUME hold', eng'.current # NoItem
             PROVE  owner' # NoTask /\ task'[owner'].kind = "resume" /\ task'[owner'].pc \in InHand
  BY DEF HeldByResume
<1>1. owner # NoTask /\ task[owner].kind = "resume" /\ task[owner].pc \in InHand /\ owner \in Slots
  BY DEF IInv, HeldByResume, LockInv, LockTyped
<1>2. CASE owner = s
  BY <1>1, <1>2
<1>3. CASE owner # s
  BY <1>1, <1>3 DEF Moves
<1> QED
  BY <1>2, <1>3

\* A step that leaves the queue and the dispatches alone, and enters no hold.
LEMMA DataKept ==
  ASSUME IInv, NEW s \in Slots, Moves(s),
         UNCHANGED <<eng, nextId, token, disp, ended>>,
         hold' \in BOOLEAN, hold' => hold, outages' \in Nat, outage' \in 0 .. outages',
         cur' \in 0 .. token, retired' \in 0 .. token, sound' \in 0 .. token,
         task'[s].pc \in InHand =>
            /\ task[s].pc \in InHand /\ task'[s].id = task[s].id
            /\ task'[s].pc \in Given => task'[s].tok \in Tokens,
         owner # s => owner' = owner \/ owner = NoTask,
         owner = s /\ hold' /\ task[s].kind = "resume" /\ task[s].pc \in InHand
           => owner' = s /\ task'[s].kind = "resume" /\ task'[s].pc \in InHand
  PROVE  DataInv'
<1>1. DataTyped'
  BY DEF DataTyped, IInv, Tokens, Items
<1>2. Placed'
  BY DEF IInv, Placed
<1>3. Holds'
  BY HoldsKept
<1>4. HeldByResume'
  BY HeldKept
<1>5. Blank'
  BY DEF IInv, Blank, Tokens
<1> QED
  BY <1>1, <1>2, <1>3, <1>4, <1>5 DEF DataInv

\* The inductive invariant is its two halves.
LEMMA BothKept == ASSUME IInv, LockInv', DataInv' PROVE IInv'
  BY DEF IInv, DataInv

\* The types in force, for the steps below.
LEMMA Numbers ==
  ASSUME IInv
  PROVE  /\ token \in 0 .. MaxToken /\ token \in Nat /\ gen \in Nat
         /\ hold \in BOOLEAN /\ outages \in Nat /\ outage \in 0 .. outages
         /\ cur \in 0 .. token /\ retired \in 0 .. token /\ sound \in 0 .. token
         /\ 0 \in 0 .. token /\ 0 \in 0 .. outages
         /\ \A s \in Slots : task[s] \in Task /\ task[s].tok \in 0 .. token
<1>1. /\ token \in 0 .. MaxToken /\ gen \in Nat
      /\ hold \in BOOLEAN /\ outages \in Nat /\ outage \in 0 .. outages
      /\ cur \in 0 .. token /\ retired \in 0 .. token /\ sound \in 0 .. token
      /\ task \in [Slots -> Task]
  BY DEF IInv, DataTyped, LockInv, LockTyped
<1>2. token \in Nat
  BY <1>1, Bounds
<1>3. \A s \in Slots : task[s].tok \in 0 .. token
  BY <1>1, <1>2, TaskNumbers DEF IInv, LockInv, Captured
<1> QED
  BY <1>1, <1>2, <1>3

-----------------------------------------------------------------------------
(* Steps that leave queue and dispatches alone *)

\* A waiting task gets the lock and finds out whether it is outdated.
LEMMA StepGranted == ASSUME IInv, NEW s \in Slots, Granted(s) PROVE IInv'
<1>1. LockInv' /\ Moves(s) /\ task[s].pc = "wait" /\ task'[s].pc \in {"free", "locked"}
  BY LockGranted DEF IInv
<1>2. UNCHANGED <<eng, nextId, session, supervisor, sound, ended>> /\ owner = NoTask
  BY DEF Granted
<1>3. DataInv'
  BY <1>1, <1>2, DataKept, Numbers, NoTaskAssumption DEF InHand, session, supervisor
<1> QED
  BY <1>1, <1>3, BothKept

\* A press supersedes the generation and asks for the lock.
LEMMA StepPress ==
  ASSUME IInv, NEW s \in Slots, NEW kind \in Presses, Press(s, kind) PROVE IInv'
<1> DEFINE r == [Free EXCEPT !.kind = kind]
<1>0. /\ Idle(s) /\ gen' = gen + 1 /\ Acquires(s, r)
      /\ UNCHANGED <<eng, nextId, session, supervisor, sound, ended>>
  BY DEF Press
<1>r. r \in Task /\ r.gen = 0 /\ r.tok = 0 /\ r.kind = kind
  BY FreeTask DEF Task, Presses
<1> HIDE DEF r
<1>1. LockInv' /\ Moves(s) /\ task'[s].pc \in {"wait", "locked"}
      /\ (owner = NoTask \/ owner' = owner)
  BY <1>0, <1>r, LockAcquires DEF IInv, supervisor
<1>2. owner # s
  BY <1>0, NotHolder DEF Idle, Locked, IInv
<1>3. DataInv'
  BY <1>0, <1>1, <1>2, DataKept, Numbers DEF InHand, session, supervisor
<1> QED
  BY <1>1, <1>3, BothKept

\* A resume captures the outage it is to end and asks for the lock.
LEMMA StepPressResume == ASSUME IInv, NEW s \in Slots, PressResume(s) PROVE IInv'
<1> DEFINE r == [Free EXCEPT !.kind = "resume", !.ot = outage]
<1>0. /\ Idle(s) /\ gen' = gen /\ Acquires(s, r)
      /\ UNCHANGED <<eng, nextId, session, supervisor, sound, ended>>
  BY DEF PressResume
<1>o. outage \in Nat
  BY Numbers
<1>r. r \in Task /\ r.gen = 0 /\ r.tok = 0 /\ r.kind = "resume"
  BY <1>o, FreeTask DEF Task
<1> HIDE DEF r
<1>1. LockInv' /\ Moves(s) /\ task'[s].pc \in {"wait", "locked"}
      /\ (owner = NoTask \/ owner' = owner)
  BY <1>0, <1>r, LockAcquires DEF IInv, supervisor, Presses
<1>2. owner # s
  BY <1>0, NotHolder DEF Idle, Locked, IInv
<1>3. DataInv'
  BY <1>0, <1>1, <1>2, DataKept, Numbers DEF InHand, session, supervisor
<1> QED
  BY <1>1, <1>3, BothKept

\* An advance that starts, on behalf of whom ever.
LEMMA StepStarts ==
  ASSUME IInv, NEW s \in Slots, task[s].pc \in {"free", "notice"},
         NEW t \in 0 .. token, NEW held, StartsAdvance(s, t, held, owner),
         UNCHANGED <<eng, nextId, gen, token, disp, ended, cur, retired>>,
         hold' \in BOOLEAN, hold' => hold, UNCHANGED <<outages, outage>>,
         sound' \in 0 .. token
  PROVE  IInv'
<1>0. t \in 0 .. MaxToken /\ t <= token
  BY Numbers, Bounds
<1>1. LockInv' /\ Moves(s) /\ task'[s].pc \in {"free", "wait", "locked"}
      /\ (owner = NoTask \/ owner' = owner)
  BY <1>0, LockStarts DEF IInv, Locked
<1>2. owner # s
  BY NotHolder DEF Locked, IInv
<1>3. DataInv'
  BY <1>1, <1>2, DataKept, Numbers DEF InHand
<1> QED
  BY <1>1, <1>3, BothKept

\* A resume without an outage context.
LEMMA StepResumeWithoutContext ==
  ASSUME IInv, NEW s \in Slots, ResumeWithoutContext(s) PROVE IInv'
  BY StepStarts, Numbers DEF ResumeWithoutContext, Idle, supervisor

\* The poll reports the end of the stream.
LEMMA StepEndOfStream == ASSUME IInv, NEW s \in Slots, EndOfStream(s) PROVE IInv'
  BY StepStarts, Numbers DEF EndOfStream, Idle, supervisor, session

\* The notice of a skipped track was sent.
LEMMA StepNoticeSent == ASSUME IInv, NEW s \in Slots, NoticeSent(s) PROVE IInv'
  BY StepStarts, Numbers DEF NoticeSent, supervisor, session

\* The holder leaves without touching the queue.
LEMMA StepLeaves ==
  ASSUME IInv, NEW s \in Slots, task[s].pc \in Locked, Leaves(s),
         ~(task[s].kind = "resume" /\ task[s].pc \in InHand) \/ ~hold',
         UNCHANGED <<eng, nextId, token, disp, ended, cur, retired>>,
         hold' \in BOOLEAN, hold' => hold, outages' \in Nat, outage' \in 0 .. outages',
         sound' \in 0 .. token
  PROVE  IInv'
<1>1. owner = s /\ owner' = NoTask /\ Ends(s) /\ gen' = gen /\ waitq' = waitq
  BY DEF IInv, LockInv, LockHeld, Leaves
<1>2. Moves(s) /\ task'[s].pc = "free" /\ task'[s].gen <= gen
  BY <1>1, EndsMoves DEF IInv
<1>3. LockInv'
  BY <1>1, <1>2, LockLeft DEF IInv, Locked
<1>4. DataInv'
  BY <1>1, <1>2, DataKept, Numbers DEF InHand
<1> QED
  BY <1>3, <1>4, BothKept

\* A task that goes on without touching the queue, and keeps the lock if it
\* holds it.
LEMMA StepGoes ==
  ASSUME IInv, NEW s \in Slots, NEW p \in Pcs, Goes(s, p), UNCHANGED lock,
         p # "wait", task[s].pc # "wait",
         owner = s => p \in Locked \cup {"holding"},
         owner # s => p \notin Locked,
         p \in InHand => task[s].pc \in InHand,
         p \in Given => task[s].tok \in Tokens,
         task[s].kind = "resume" /\ task[s].pc \in InHand => p \in InHand \/ ~hold',
         UNCHANGED <<eng, nextId, token, disp, ended, retired>>,
         cur' \in 0 .. token, sound' \in 0 .. token,
         hold' \in BOOLEAN, hold' => hold, outages' \in Nat, outage' \in 0 .. outages'
  PROVE  IInv'
<1>1. /\ Moves(s) /\ task'[s].pc = p /\ task'[s].kind = task[s].kind
      /\ task'[s].gen <= gen /\ task'[s].tok = task[s].tok /\ task'[s].id = task[s].id
  BY GoesMoves DEF IInv
<1>2. LockInv'
  BY <1>1, LockKept DEF IInv
<1>3. DataInv'
  BY <1>1, DataKept, Numbers DEF lock
<1> QED
  BY <1>2, <1>3, BothKept

\* A task without the lock that ends.
LEMMA StepEnds ==
  ASSUME IInv, NEW s \in Slots, Ends(s), UNCHANGED lock, owner # s, task[s].pc # "wait",
         UNCHANGED <<eng, nextId, token, disp, ended, cur, retired, sound>>,
         hold' \in BOOLEAN, hold' => hold, outages' \in Nat, outage' \in 0 .. outages'
  PROVE  IInv'
<1>1. Moves(s) /\ task'[s].pc = "free" /\ task'[s].gen <= gen
  BY EndsMoves DEF IInv
<1>2. LockInv'
  BY <1>1, LockKept DEF IInv, Locked
<1>3. DataInv'
  BY <1>1, DataKept, Numbers DEF InHand, lock
<1> QED
  BY <1>2, <1>3, BothKept

\* A task lets the lock go.
LEMMA StepLeft == ASSUME IInv, NEW s \in Slots, Left(s) PROVE IInv'
  BY StepLeaves, Numbers DEF Left, Locked, InHand, session, supervisor

\* No source can play the item.
LEMMA StepNoSource == ASSUME IInv, NEW s \in Slots, NoSource(s) PROVE IInv'
  BY StepLeaves, Numbers DEF NoSource, Is, Locked, InHand, session, supervisor

\* The hold opens its reconnect context.
LEMMA StepHoldOpens == ASSUME IInv, NEW s \in Slots, HoldOpens(s) PROVE IInv'
<1>0. /\ task[s].pc = "holding" /\ hold' = hold
      /\ outages' = outages + 1 /\ outage' = outages + 1
      /\ UNCHANGED <<eng, nextId, supervisor, sound, ended>>
  BY DEF HoldOpens
<1>n. outages' \in Nat /\ outage' \in 0 .. outages' /\ hold' \in BOOLEAN
  BY <1>0, Numbers
<1>1. CASE owner = s
  <2>1. owner' = NoTask /\ Ends(s) /\ gen' = gen /\ waitq' = waitq
    BY <1>1 DEF HoldOpens, Leaves
  <2>2. Moves(s) /\ task'[s].pc = "free" /\ task'[s].gen <= gen
    BY <1>0, <2>1, EndsMoves DEF IInv, supervisor
  <2>3. LockInv'
    BY <1>1, <2>1, <2>2, LockLeft DEF IInv, Locked
  <2>4. DataInv'
    BY <1>0, <1>1, <1>n, <2>1, <2>2, DataKept, Numbers DEF InHand, supervisor
  <2> QED
    BY <2>3, <2>4, BothKept
<1>2. CASE owner # s
  BY <1>0, <1>2, <1>n, StepEnds DEF HoldOpens, supervisor
<1> QED
  BY <1>1, <1>2

\* play() raised on a device that is reachable.
LEMMA StepTrackUnplayable == ASSUME IInv, NEW s \in Slots, TrackUnplayable(s) PROVE IInv'
<1>0. task[s].pc = "failed" /\ UNCHANGED <<eng, nextId, supervisor, sound, ended>> /\ owner = s
  BY DEF TrackUnplayable, IInv, LockInv, LockHeld, Locked
<1>1. CASE task[s].kind = "resume"
  <2>1. /\ hold' = FALSE /\ outage' = (IF hold THEN 0 ELSE outage) /\ outages' = outages
        /\ owner' = NoTask /\ gen' = gen /\ waitq' = waitq /\ Goes(s, "notice")
    BY <1>1 DEF TrackUnplayable, ClearsHold
  <2>2. Moves(s) /\ task'[s].pc = "notice" /\ task'[s].gen <= gen
    BY <1>0, <2>1, GoesMoves DEF IInv, Pcs, supervisor
  <2>3. LockInv'
    BY <1>0, <2>1, <2>2, LockLeft DEF IInv, Locked
  <2>4. DataInv'
    BY <1>0, <2>1, <2>2, DataKept, Numbers DEF InHand, supervisor
  <2> QED
    BY <2>3, <2>4, BothKept
<1>2. CASE task[s].kind # "resume"
  <2>1. Goes(s, "locked") /\ UNCHANGED <<session, lock>>
    BY <1>2 DEF TrackUnplayable
  <2> QED
    BY <1>0, <1>2, <2>1, StepGoes, Numbers DEF Pcs, Locked, InHand, Given, session, supervisor
<1> QED
  BY <1>1, <1>2

\* An outage report and an expired deadline.
LEMMA StepSuspects ==
  ASSUME IInv, NEW s \in Slots, NEW kind \in {"outage", "timeout"}, Suspects(s, kind),
         sound' \in {0, sound}
  PROVE  IInv'
<1> DEFINE r == [Free EXCEPT !.kind = kind, !.pc = "start", !.tok = cur]
<1>0. /\ Idle(s) /\ task' = [task EXCEPT ![s] = r]
      /\ cur' = 0 /\ retired' = (IF cur = 0 THEN retired ELSE cur)
      /\ UNCHANGED <<eng, nextId, lock, session, token, disp, ended>>
  BY DEF Suspects
<1>n. cur \in 0 .. MaxToken /\ cur \in 0 .. token /\ token \in Nat
  BY Numbers, Bounds
<1>r. r \in Task /\ r.gen = 0 /\ r.tok = cur /\ r.pc = "start"
  BY <1>n, FreeTask DEF Task
<1> HIDE DEF r
<1>1. Moves(s) /\ task'[s] = r
  BY <1>0, <1>n, <1>r DEF Moves, IInv, LockInv, LockTyped
<1>2. owner # s
  BY <1>0, NotHolder DEF Idle, Locked, IInv
<1>3. LockInv'
  BY <1>0, <1>1, <1>2, <1>r, LockKept, Numbers DEF IInv, Idle, Locked
<1>4. DataInv'
  BY <1>0, <1>1, <1>2, <1>r, DataKept, Numbers DEF InHand, lock, session
<1> QED
  BY <1>3, <1>4, BothKept

\* The device reports an outage.
LEMMA StepOnOutageReported == ASSUME IInv, NEW s \in Slots, OnOutageReported(s) PROVE IInv'
  BY StepSuspects DEF OnOutageReported

\* A dispatch was not confirmed in time.
LEMMA StepDeadlineExpires == ASSUME IInv, NEW s \in Slots, DeadlineExpires(s) PROVE IInv'
  BY StepSuspects DEF DeadlineExpires

\* Audio is confirmed.
LEMMA StepOnPlaybackConfirmed ==
  ASSUME IInv, NEW t \in Tokens, OnPlaybackConfirmed(t) PROVE IInv'
<1>0. /\ cur = t /\ disp' = [disp EXCEPT ![t].confirmed = TRUE]
      /\ hold' = FALSE /\ outage' = (IF hold THEN 0 ELSE outage) /\ outages' = outages
      /\ UNCHANGED <<eng, nextId, lock, task, token, cur, retired, sound, ended>>
  BY DEF OnPlaybackConfirmed, ClearsHold
<1>1. LockInv'
  BY <1>0 DEF IInv, LockInv, LockTyped, Captured, LockHeld, Waiters, Outdated, lock
<1>2. DataTyped'
  <2>1. disp' \in [Tokens -> Dispatch]
    BY <1>0 DEF IInv, DataTyped, Dispatch
  <2> QED
    BY <1>0, <2>1, Numbers DEF IInv, DataTyped, Tokens, Items, Dispatch
<1>3. Placed' /\ Holds' /\ HeldByResume'
  BY <1>0 DEF IInv, Placed, Holds, HeldByResume, Tokens, lock
<1>4. Blank'
  BY <1>0, Numbers DEF IInv, Blank, Tokens
<1> QED
  BY <1>1, <1>2, <1>3, <1>4 DEF IInv

-----------------------------------------------------------------------------
(* Steps that move the queue *)

\* A step that moves items and issues no dispatch.
LEMMA DataMoved ==
  ASSUME IInv, eng' \in Engines(Item), Apart(eng'), IdSet(eng') \subseteq IdSet(eng),
         nextId' = nextId, UNCHANGED <<token, disp, retired>>,
         cur' \in 0 .. token, sound' \in 0 .. token, ended' \in [Items -> Nat],
         hold' \in BOOLEAN, outages' \in Nat, outage' \in 0 .. outages',
         Holds', HeldByResume'
  PROVE  DataInv'
<1>1. DataTyped'
  BY Numbers DEF DataTyped, IInv, Tokens, Items, Item, Dispatch, Engines
<1>2. Placed'
  BY DEF IInv, Placed
<1>3. Blank'
  BY DEF IInv, Blank, Tokens
<1> QED
  BY <1>1, <1>2, <1>3 DEF DataInv

\* The identities in the lists are those of items created.
LEMMA IdsAreItems == ASSUME IInv PROVE IdSet(eng) \subseteq Items
<1>1. /\ eng.queue \in Seq(Item) /\ eng.history \in Seq(Item) /\ eng.current \in Item \cup {NoItem}
  BY DEF IInv, DataTyped, Engines
<1>2. \A s \in Seq(Item) : IdsIn(s) \subseteq Items
  <2> SUFFICES ASSUME NEW s \in Seq(Item), NEW i \in DOMAIN s PROVE s[i].id \in Items
    BY DEF IdsIn
  <2>1. s[i] \in Item
    BY LenProperties, ElementOfSeq
  <2> QED
    BY <2>1 DEF Item
<1>3. IdCurrent(eng) \subseteq Items
  BY <1>1 DEF IdCurrent, Item
<1> QED
  BY <1>1, <1>2, <1>3 DEF IdSet

\* The lists in a row, as Lists puts the engine's.
InARow(e) == e.queue \o e.history \o (IF e.current = NoItem THEN <<>> ELSE <<e.current>>)

\* They hold what the engine value holds, each item once.
LEMMA ListsIds ==
  ASSUME NEW e \in Engines(Item), Apart(e)
  PROVE  InARow(e) \in Seq(Item) /\ IdsIn(InARow(e)) = IdSet(e) /\ Uniq(InARow(e))
<1> DEFINE c == IF e.current = NoItem THEN <<>> ELSE <<e.current>>
           l == e.queue \o e.history
<1>1. /\ e.queue \in Seq(Item) /\ e.history \in Seq(Item) /\ e.current \in Item \cup {NoItem}
  BY DEF Engines
<1>2. c \in Seq(Item) /\ IdsIn(c) = IdCurrent(e) /\ Uniq(c)
  <2>1. CASE e.current = NoItem
    <3>1. c = <<>>
      BY <2>1
    <3> HIDE DEF c
    <3> QED
      BY <2>1, <3>1, SmallIds DEF IdCurrent
  <2>2. CASE e.current # NoItem
    <3>1. c = <<e.current>> /\ e.current \in Item
      BY <1>1, <2>2
    <3> HIDE DEF c
    <3>2. c \in Seq(Item)
      BY <3>1
    <3> QED
      BY <2>2, <3>1, <3>2, SmallIds DEF IdCurrent
  <2> QED
    BY <2>1, <2>2
<1>3. l \in Seq(Item) /\ IdsIn(l) = IdsIn(e.queue) \cup IdsIn(e.history) /\ Uniq(l)
  BY <1>1, ConcatIds DEF Apart
<1> HIDE DEF c, l
<1>4. l \o c \in Seq(Item) /\ IdsIn(l \o c) = IdsIn(l) \cup IdsIn(c) /\ Uniq(l \o c)
  BY <1>2, <1>3, ConcatIds DEF Apart
<1>5. InARow(e) = l \o c
  BY DEF InARow, l, c
<1> QED
  BY <1>2, <1>3, <1>4, <1>5 DEF IdSet

\* The object of an item in the lists is an item.
LEMMA ObjectItem ==
  ASSUME IInv, NEW i \in IdSet(eng)
  PROVE  Object(i) \in Item /\ Object(i).id = i
<1>1. Lists \in Seq(Item) /\ IdsIn(Lists) = IdSet(eng)
  BY ListsIds DEF Lists, InARow, IInv, DataTyped, Placed
<1>2. \E k \in DOMAIN Lists : Lists[k].id = i
  BY <1>1 DEF IdsIn
<1> DEFINE k == CHOOSE k \in DOMAIN Lists : Lists[k].id = i
<1>3. k \in DOMAIN Lists /\ Lists[k].id = i
  BY <1>2
<1>4. Object(i) = Lists[k]
  BY DEF Object
<1> HIDE DEF k
<1>5. Lists[k] \in Item
  BY <1>1, <1>3, LenProperties, ElementOfSeq
<1> QED
  BY <1>3, <1>4, <1>5

\* A play that ended is counted.
LEMMA EndedTyped == ASSUME IInv PROVE Ended \in [Items -> Nat]
  BY DEF Ended, IInv, DataTyped

\* Who has an item in hand holds the lock; so nobody else has.
LEMMA OnlyHolder ==
  ASSUME IInv, NEW s \in Slots, Moves(s), owner = s, NEW u \in Slots, u # s
  PROVE  task'[u].pc \notin InHand
  BY DEF IInv, LockInv, LockHeld, Moves, InHand, Locked

\* engine.advance() under the lock.
LEMMA StepPops ==
  ASSUME IInv, NEW s \in Slots, task[s].pc = "locked", NEW w \in {"leaving", "stopping"},
         Pops(s, w), hold => task[s].kind = "resume",
         UNCHANGED <<nextId, session, supervisor, sound>>
  PROVE  IInv'
<1> DEFINE e == AdvanceOp(eng)
           p == IF e.current = NoItem THEN w ELSE "popped"
           r == [task[s] EXCEPT !.pc = p, !.id = CurrentId(e)]
<1>0. /\ eng' = e /\ ended' = Ended /\ task' = [task EXCEPT ![s] = r]
      /\ UNCHANGED <<lock, token>> /\ owner = s
  BY DEF Pops, supervisor, IInv, LockInv, LockTyped, LockHeld, Locked
<1>1. /\ e \in Engines(Item) /\ Apart(e) /\ IdSet(e) \subseteq IdSet(eng)
  BY AdvanceIds, NoItemAssumption DEF IInv, DataTyped, Placed
<1> HIDE DEF e
<1>2. CurrentId(e) \in 0 .. MaxItems
      /\ (e.current # NoItem => CurrentId(e) \in IdSet(e) /\ IdCurrent(e) = {CurrentId(e)})
  <2>1. e.current \in Item \cup {NoItem}
    BY <1>1 DEF Engines
  <2> QED
    BY <2>1, Bounds DEF CurrentId, Item, Items, IdCurrent, IdSet
<1>3. /\ p \in Pcs /\ p \in Locked /\ r \in Task /\ r.pc = p /\ r.id = CurrentId(e)
      /\ r.kind = task[s].kind /\ r.gen = task[s].gen /\ r.tok = task[s].tok
  <2>1. p \in Pcs /\ p \in Locked
    BY DEF Pcs, Locked
  <2> HIDE DEF p
  <2>2. task[s] \in Task
    BY Numbers
  <2> QED
    BY <1>2, <2>1, <2>2 DEF Task, Pcs
<1> HIDE DEF r
<1>4. Moves(s) /\ task'[s] = r
  BY <1>0, <1>3, Numbers DEF Moves, IInv, LockInv, LockTyped
<1>5. LockInv'
  BY <1>0, <1>3, <1>4, LockKept DEF IInv, LockInv, Captured, lock
<1>6. Holds'
  <2> SUFFICES ASSUME NEW u \in Slots, task'[u].pc \in InHand
               PROVE  /\ task'[u].id \in IdSet(eng')
                      /\ IdCurrent(eng') \subseteq {task'[u].id}
                      /\ task'[u].pc \notin Given
    BY DEF Holds, Tokens
  <2>1. u = s
    BY <1>0, <1>4, OnlyHolder
  <2>2. e.current # NoItem /\ p = "popped"
    BY <1>3, <1>4, <2>1 DEF InHand
  <2> QED
    BY <1>0, <1>2, <1>3, <1>4, <2>1, <2>2 DEF Given
<1>7. HeldByResume'
  <2> SUFFICES ASSUME hold', eng'.current # NoItem
               PROVE  owner' # NoTask /\ task'[owner'].kind = "resume" /\ task'[owner'].pc \in InHand
    BY DEF HeldByResume
  <2> QED
    BY <1>0, <1>3, <1>4, NoTaskAssumption DEF session, InHand, lock
<1>8. DataInv'
  BY <1>0, <1>1, <1>6, <1>7, DataMoved, EndedTyped, Numbers DEF session, supervisor
<1> QED
  BY <1>5, <1>8, BothKept

\* The loop head of an advance.
LEMMA StepAdvanceMoves == ASSUME IInv, NEW s \in Slots, AdvanceMoves(s) PROVE IInv'
<1>1. /\ task[s].kind = "advance" /\ task[s].pc = "locked"
      /\ UNCHANGED <<nextId, session, supervisor, sound>>
  BY DEF AdvanceMoves, Is
<1>2. CASE hold
  BY <1>1, <1>2, StepLeaves, Numbers DEF AdvanceMoves, Locked, session, supervisor
<1>3. CASE ~hold
  BY <1>1, <1>3, StepPops DEF AdvanceMoves
<1> QED
  BY <1>2, <1>3

\* A held pointer moves: the holder leaves, nothing becomes current.
LEMMA StepHeldMoves ==
  ASSUME IInv, NEW s \in Slots, task[s].pc = "locked", Goes(s, "leaving"), UNCHANGED lock,
         UNCHANGED <<nextId, session, supervisor, sound, ended>>,
         eng' \in Engines(Item), Apart(eng'), IdSet(eng') \subseteq IdSet(eng),
         eng'.current = eng.current
  PROVE  IInv'
<1>1. /\ Moves(s) /\ task'[s].pc = "leaving" /\ task'[s].kind = task[s].kind
      /\ task'[s].gen <= gen
  BY GoesMoves DEF IInv, Pcs, supervisor
<1>2. owner = s
  BY DEF IInv, LockInv, LockHeld, Locked
<1>3. LockInv'
  BY <1>1, <1>2, LockKept DEF IInv, Locked
<1>4. Holds'
  <2>1. \A u \in Slots : task'[u].pc \notin InHand
    BY <1>1, <1>2, OnlyHolder DEF InHand
  <2> QED
    BY <2>1 DEF Holds
<1>5. HeldByResume'
  <2>1. hold' = hold
    BY DEF session
  <2>2. ~(hold /\ eng.current # NoItem)
    BY <1>2 DEF IInv, HeldByResume, InHand
  <2> QED
    BY <2>1, <2>2 DEF HeldByResume
<1>6. ended \in [Items -> Nat]
  BY DEF IInv, DataTyped
<1>7. DataInv'
  BY <1>4, <1>5, <1>6, DataMoved, Numbers DEF session, supervisor
<1> QED
  BY <1>3, <1>7, BothKept

\* playback_skip.
LEMMA StepSkipMoves == ASSUME IInv, NEW s \in Slots, SkipMoves(s) PROVE IInv'
<1>1. /\ task[s].kind = "skip" /\ task[s].pc = "locked"
      /\ UNCHANGED <<nextId, session, supervisor, sound>>
  BY DEF SkipMoves, Is
<1>2. CASE hold
  <2>1. eng' = SkipHeldOp(eng) /\ Goes(s, "leaving") /\ UNCHANGED <<ended, lock>>
    BY <1>2 DEF SkipMoves
  <2>2. /\ eng' \in Engines(Item) /\ Apart(eng') /\ eng'.current = eng.current
        /\ IdSet(eng') \subseteq IdSet(eng)
    BY <2>1, SkipHeldIds, NoItemAssumption DEF IInv, DataTyped, Placed
  <2> QED
    BY <1>1, <2>1, <2>2, StepHeldMoves
<1>3. CASE ~hold
  BY <1>1, <1>3, StepPops DEF SkipMoves
<1> QED
  BY <1>2, <1>3

\* The item Skip Back starts is in hand, as one popped by an advance is.
LEMMA StepPreviousMoves == ASSUME IInv, NEW s \in Slots, PreviousMoves(s) PROVE IInv'
<1>1. /\ task[s].kind = "previous" /\ task[s].pc = "locked" /\ owner = s
      /\ UNCHANGED <<nextId, session, supervisor, sound>>
  BY DEF PreviousMoves, Is, IInv, LockInv, LockHeld, Locked
<1>2. CASE eng.history = <<>>
  BY <1>1, <1>2, StepLeaves, Numbers DEF PreviousMoves, Locked, session, supervisor
<1>3. CASE eng.history # <<>> /\ hold
  <2>1. eng' = SkipBackHeldOp(eng) /\ Goes(s, "leaving") /\ UNCHANGED <<ended, lock>>
    BY <1>3 DEF PreviousMoves
  <2>2. /\ eng' \in Engines(Item) /\ Apart(eng') /\ eng'.current = eng.current
        /\ IdSet(eng') \subseteq IdSet(eng)
    BY <2>1, SkipBackHeldIds, NoItemAssumption DEF IInv, DataTyped, Placed
  <2> QED
    BY <1>1, <2>1, <2>2, StepHeldMoves
<1>4. CASE eng.history # <<>> /\ ~hold
  <2> DEFINE i == Head(eng.history).id
             r == [task[s] EXCEPT !.pc = "popped", !.id = i]
  <2>0. /\ eng' = SkipBackOp(eng) /\ ended' = Ended /\ task' = [task EXCEPT ![s] = r]
        /\ UNCHANGED <<lock, token>>
    BY <1>1, <1>4 DEF PreviousMoves, supervisor, IInv, LockInv, LockTyped
  <2>1. /\ eng' \in Engines(Item) /\ Apart(eng') /\ IdSet(eng') = IdSet(eng)
        /\ eng'.current = Head(eng.history) /\ eng'.current # NoItem
    BY <1>4, <2>0, SkipBackIds, NoItemAssumption DEF IInv, DataTyped, Placed
  <2>2. i \in Items /\ i \in IdSet(eng') /\ IdCurrent(eng') = {i}
    <3>1. eng'.current \in Item
      BY <2>1 DEF Engines
    <3> QED
      BY <2>1, <3>1 DEF Item, IdCurrent, IdSet
  <2> HIDE DEF i
  <2>3. /\ r \in Task /\ r.pc = "popped" /\ r.id = i
        /\ r.kind = task[s].kind /\ r.gen = task[s].gen /\ r.tok = task[s].tok
    <3>1. task[s] \in Task /\ i \in 0 .. MaxItems
      BY <2>2, Numbers, Bounds DEF Items
    <3> QED
      BY <3>1 DEF Task
  <2> HIDE DEF r
  <2>4. Moves(s) /\ task'[s] = r
    BY <2>0, <2>3, Numbers DEF Moves, IInv, LockInv, LockTyped
  <2>5. LockInv'
    BY <1>1, <2>0, <2>3, <2>4, LockKept DEF IInv, LockInv, Captured, lock, Locked
  <2>6. Holds'
    <3> SUFFICES ASSUME NEW u \in Slots, task'[u].pc \in InHand
                 PROVE  /\ task'[u].id \in IdSet(eng')
                        /\ IdCurrent(eng') \subseteq {task'[u].id}
                        /\ task'[u].pc \notin Given
      BY DEF Holds, Tokens
    <3>1. u = s
      BY <1>1, <2>4, OnlyHolder
    <3> QED
      BY <2>2, <2>3, <2>4, <3>1 DEF Given
  <2>7. HeldByResume'
    BY <1>1, <1>4 DEF HeldByResume, session
  <2>8. DataInv'
    BY <1>1, <2>0, <2>1, <2>6, <2>7, DataMoved, EndedTyped, Numbers DEF session, supervisor
  <2> QED
    BY <2>5, <2>8, BothKept
<1> QED
  BY <1>2, <1>3, <1>4

\* _resume_from_hold up to the queue move.
LEMMA StepResumeMoves == ASSUME IInv, NEW s \in Slots, ResumeMoves(s) PROVE IInv'
<1>1. /\ task[s].kind = "resume" /\ task[s].pc = "locked"
      /\ UNCHANGED <<nextId, supervisor, sound>>
  BY DEF ResumeMoves, Is
<1>2. CASE outage # task[s].ot \/ ~hold
  BY <1>1, <1>2, StepLeaves, Numbers DEF ResumeMoves, Locked, InHand, session, supervisor
<1>3. CASE ~(outage # task[s].ot \/ ~hold) /\ eng.queue = <<>>
  <2>1. Leaves(s) /\ hold' = FALSE /\ outage' = 0 /\ outages' = outages /\ UNCHANGED <<eng, ended>>
    BY <1>3 DEF ResumeMoves, ClearsHold
  <2> QED
    BY <1>1, <2>1, StepLeaves, Numbers DEF Locked, InHand, supervisor
<1>4. CASE ~(outage # task[s].ot \/ ~hold) /\ eng.queue # <<>>
  BY <1>1, <1>4, StepPops DEF ResumeMoves
<1> QED
  BY <1>2, <1>3, <1>4

-----------------------------------------------------------------------------
(* Dispatching *)

\* dispatch_play: a fresh record, with the item's mark or the one read first.
LEMMA StepDispatches == ASSUME IInv, NEW s \in Slots, Dispatches(s) PROVE IInv'
<1> DEFINE i == task[s].id
           read == IF task[s].pc = "failed" THEN disp[task[s].tok].mark ELSE Object(i).rec
           d == [id |-> i, nth |-> ended[i], mark |-> read, confirmed |-> FALSE]
           r == [task[s] EXCEPT !.pc = "playing", !.tok = token + 1]
<1>0. /\ task[s].pc \in {"popped", "failed"} /\ token < MaxToken
      /\ disp' = [disp EXCEPT ![token + 1] = d] /\ task' = [task EXCEPT ![s] = r]
      /\ token' = token + 1 /\ cur' = token + 1
      /\ UNCHANGED <<eng, nextId, lock, session, retired, sound, ended>>
  BY DEF Dispatches, IInv, LockInv, LockTyped
<1>n. /\ token \in Nat /\ MaxToken \in Nat /\ token + 1 \in Tokens /\ token' \in Nat
      /\ token' \in 0 .. MaxToken /\ 0 .. token \subseteq 0 .. token' /\ cur' \in 0 .. token'
  BY <1>0, Numbers, Bounds DEF Tokens
<1>1. task[s].pc \in InHand /\ i \in IdSet(eng) /\ i \in Items /\ owner = s
  BY <1>0, IdsAreItems DEF IInv, Holds, InHand, LockInv, LockHeld, Locked
<1>2. read \in BOOLEAN
  <2>1. CASE task[s].pc = "failed"
    BY <2>1 DEF IInv, Holds, InHand, Given, DataTyped, Dispatch
  <2>2. CASE task[s].pc # "failed"
    BY <1>1, <2>2, ObjectItem DEF Item
  <2> QED
    BY <2>1, <2>2
<1> HIDE DEF read
<1>3. d \in Dispatch
  <2>1. i \in 0 .. MaxItems /\ ended[i] \in Nat
    BY <1>1, Bounds DEF IInv, DataTyped, Items
  <2> QED
    BY <1>2, <2>1 DEF Dispatch
<1> HIDE DEF d
<1>4. /\ r \in Task /\ r.pc = "playing" /\ r.tok = token + 1
      /\ r.kind = task[s].kind /\ r.gen = task[s].gen /\ r.id = i
  <2>1. task[s] \in Task /\ token + 1 \in 0 .. MaxToken
    BY <1>0, <1>n, Numbers
  <2> QED
    BY <2>1 DEF Task
<1> HIDE DEF r
<1>5. Moves(s) /\ task'[s] = r
  BY <1>0, <1>n, <1>4 DEF Moves, IInv, LockInv, LockTyped
<1>6. LockInv'
  BY <1>0, <1>1, <1>4, <1>5, LockKept DEF IInv, LockInv, Captured, Locked
<1>7. DataTyped'
  <2>1. disp' \in [Tokens -> Dispatch]
    BY <1>0, <1>3, <1>n DEF IInv, DataTyped
  <2> QED
    BY <1>0, <1>n, <2>1, Numbers
    DEF IInv, DataTyped, session, Engines, Item, Items, Tokens, Dispatch
<1>8. Placed'
  BY <1>0 DEF IInv, Placed
<1>9. Holds'
  BY <1>0, <1>1, <1>4, <1>5, <1>n, HoldsKept DEF InHand, Given
<1>10. HeldByResume'
  BY <1>0, <1>1, <1>4, <1>5, HeldKept DEF InHand, lock, session
<1>11. Blank'
  BY <1>0, <1>n DEF IInv, Blank, Tokens, DataTyped
<1> QED
  BY <1>6, <1>7, <1>8, <1>9, <1>10, <1>11, BothKept DEF DataInv

\* The mark is cleared on the item, wherever it is; nothing moves.
LEMMA ClearMarkIds ==
  ASSUME NEW e \in Engines(Item), Apart(e), NEW i
  PROVE  LET r == ClearMark(e, i)
         IN /\ r \in Engines(Item) /\ Apart(r) /\ IdSet(r) = IdSet(e)
            /\ IdCurrent(r) = IdCurrent(e) /\ (r.current # NoItem => e.current # NoItem)
<1> DEFINE clear(x) == IF x.id = i THEN [x EXCEPT !.rec = FALSE] ELSE x
           q == [k \in DOMAIN e.queue |-> clear(e.queue[k])]
           h == [k \in DOMAIN e.history |-> clear(e.history[k])]
           c == IF e.current = NoItem THEN NoItem ELSE clear(e.current)
           r == [e EXCEPT !.queue = q, !.history = h, !.current = c]
<1>1. ASSUME NEW x \in Item PROVE clear(x) \in Item /\ clear(x).id = x.id
  BY DEF Item
<1>2. ClearMark(e, i) = r
  BY DEF ClearMark, Engines
<1> HIDE DEF clear
<1>3. ASSUME NEW l \in Seq(Item)
      PROVE  LET m == [k \in DOMAIN l |-> clear(l[k])]
             IN m \in Seq(Item) /\ Len(m) = Len(l) /\ IdsIn(m) = IdsIn(l) /\ (Uniq(l) => Uniq(m))
  <2> DEFINE m == [k \in DOMAIN l |-> clear(l[k])]
  <2>1. DOMAIN l = 1 .. Len(l) /\ Len(l) \in Nat
    BY LenProperties
  <2>2. \A k \in DOMAIN l : m[k] \in Item /\ m[k].id = l[k].id
    <3> SUFFICES ASSUME NEW k \in DOMAIN l PROVE m[k] \in Item /\ m[k].id = l[k].id
      OBVIOUS
    <3>1. l[k] \in Item
      BY <2>1, ElementOfSeq
    <3> QED
      BY <3>1, <1>1
  <2>3. DOMAIN m = DOMAIN l /\ m = [k \in 1 .. Len(l) |-> clear(l[k])]
    BY <2>1
  <2>4. m \in Seq(Item) /\ Len(m) = Len(l)
    BY <2>1, <2>2, <2>3
  <2> HIDE DEF m
  <2>5. IdsIn(m) = IdsIn(l) /\ (Uniq(l) => Uniq(m))
    BY <2>2, <2>3, SameIds
  <2> QED
    BY <2>4, <2>5 DEF m
<1>4. /\ q \in Seq(Item) /\ IdsIn(q) = IdsIn(e.queue) /\ Uniq(q)
  BY <1>3 DEF Engines, Apart
<1>5. /\ h \in Seq(Item) /\ Len(h) <= HistoryMax /\ IdsIn(h) = IdsIn(e.history) /\ Uniq(h)
  BY <1>3 DEF Engines, Apart
<1>6. /\ c \in Item \cup {NoItem} /\ (c # NoItem => e.current # NoItem)
      /\ (e.current # NoItem => c # NoItem /\ c.id = e.current.id)
  <2>1. CASE e.current = NoItem
    BY <2>1
  <2>2. CASE e.current # NoItem
    <3>1. e.current \in Item
      BY <2>2 DEF Engines
    <3> QED
      BY <2>2, <3>1, <1>1, NoItemAssumption
  <2> QED
    BY <2>1, <2>2
<1> HIDE DEF q, h, c
<1>7. /\ r.queue = q /\ r.history = h /\ r.current = c /\ r \in Engines(Item)
  BY <1>4, <1>5, <1>6 DEF Engines
<1> HIDE DEF r
<1>8. IdCurrent(r) = IdCurrent(e)
  BY <1>6, <1>7 DEF IdCurrent
<1>9. Apart(r) /\ IdSet(r) = IdSet(e)
  BY <1>4, <1>5, <1>7, <1>8, SameListsIds
<1> QED
  BY <1>2, <1>6, <1>7, <1>8, <1>9

\* play() returned.
LEMMA StepPlayReturns == ASSUME IInv, NEW s \in Slots, PlayReturns(s) PROVE IInv'
<1>0. /\ task[s].pc = "playing" /\ eng' = ClearMark(eng, task[s].id)
      /\ sound' = task[s].tok /\ Leaves(s) /\ UNCHANGED <<nextId, supervisor, ended>>
      /\ (hold' = hold \/ hold' = FALSE) /\ outages' = outages /\ outage' \in {outage, 0}
      /\ (task[s].kind = "resume" => hold' = FALSE)
  BY DEF PlayReturns, ClearsHold, session
<1>1. owner = s /\ owner' = NoTask /\ Ends(s) /\ gen' = gen /\ waitq' = waitq
  BY <1>0 DEF IInv, LockInv, LockHeld, Locked, Leaves
<1>2. Moves(s) /\ task'[s].pc = "free" /\ task'[s].gen <= gen
  BY <1>0, <1>1, EndsMoves DEF IInv, supervisor
<1>3. LockInv'
  BY <1>1, <1>2, LockLeft DEF IInv, Locked
<1>4. /\ eng' \in Engines(Item) /\ Apart(eng') /\ IdSet(eng') = IdSet(eng)
      /\ IdCurrent(eng') = IdCurrent(eng) /\ (eng'.current # NoItem => eng.current # NoItem)
  BY <1>0, ClearMarkIds DEF IInv, DataTyped, Placed
<1>5. Holds'
  BY <1>2, <1>4, HoldsKept DEF InHand
<1>n. hold' \in BOOLEAN /\ (hold' => hold) /\ outage' \in 0 .. outages' /\ outages' \in Nat
      /\ sound' \in 0 .. token
  <2>1. /\ hold \in BOOLEAN /\ outages \in Nat /\ {outage, 0} \subseteq 0 .. outages
        /\ task[s].tok \in 0 .. token
    BY Numbers
  <2>2. hold' \in BOOLEAN /\ (hold' => hold)
    <3>1. CASE hold' = hold
      BY <2>1, <3>1
    <3>2. CASE hold' = FALSE
      BY <3>2
    <3> QED
      BY <1>0, <3>1, <3>2
  <2>3. outage' \in 0 .. outages' /\ outages' \in Nat
    BY <1>0, <2>1
  <2>4. sound' \in 0 .. token
    BY <1>0, <2>1
  <2> QED
    BY <2>2, <2>3, <2>4
<1>6. HeldByResume'
  BY <1>0, <1>1, <1>2, <1>4, <1>n, HeldKept
<1>7. ended' \in [Items -> Nat] /\ cur' \in 0 .. token
  BY <1>0, Numbers DEF IInv, DataTyped, supervisor
<1>8. DataInv'
  BY <1>0, <1>4, <1>5, <1>6, <1>7, <1>n, DataMoved DEF supervisor
<1> QED
  BY <1>3, <1>8, BothKept

\* Nothing is current any more, and the lock stays with its holder, or the
\* task never had it.
LEMMA StepClears ==
  ASSUME IInv, NEW s \in Slots, NEW p \in {"leaving", "holding"}, Goes(s, p), UNCHANGED lock,
         task[s].pc # "wait", owner # s => p = "holding",
         eng' \in Engines(Item), Apart(eng'), eng'.current = NoItem,
         IdSet(eng') \subseteq IdSet(eng), p = "holding" => IdSet(eng') = IdSet(eng),
         UNCHANGED <<nextId, token, disp, retired, sound>>, cur' \in 0 .. token,
         ended' \in [Items -> Nat], hold' \in BOOLEAN, UNCHANGED <<outages, outage>>
  PROVE  IInv'
<1>1. Moves(s) /\ task'[s].pc = p /\ task'[s].gen <= gen
  BY GoesMoves DEF IInv, Pcs
<1>2. LockInv'
  BY <1>1, LockKept DEF IInv, Locked
<1>3. Holds'
  <2>1. CASE owner = s
    <3>1. \A u \in Slots : task'[u].pc \notin InHand
      BY <1>1, <2>1, OnlyHolder DEF InHand
    <3> QED
      BY <3>1 DEF Holds
  <2>2. CASE owner # s
    BY <1>1, <2>2, HoldsKept DEF InHand, IdCurrent
  <2> QED
    BY <2>1, <2>2
<1>4. HeldByResume'
  BY DEF HeldByResume
<1>5. DataInv'
  BY <1>3, <1>4, DataMoved, Numbers
<1> QED
  BY <1>2, <1>5, BothKept

\* play() raised.
LEMMA StepPlayRaises == ASSUME IInv, NEW s \in Slots, PlayRaises(s) PROVE IInv'
<1>0. /\ task[s].pc = "playing" /\ cur' = (IF cur = task[s].tok THEN 0 ELSE cur)
      /\ UNCHANGED <<nextId, lock, session, token, disp, retired, sound>>
  BY DEF PlayRaises
<1>1. owner = s /\ cur' \in 0 .. token
  BY <1>0, Numbers DEF IInv, LockInv, LockHeld, Locked
<1>2. CASE task[s].kind \in {"skip", "previous"}
  <2>1. eng' = StopOp(eng) /\ ended' = Ended /\ Goes(s, "leaving")
    BY <1>2 DEF PlayRaises
  <2>2. /\ eng' \in Engines(Item) /\ Apart(eng') /\ eng'.current = NoItem
        /\ IdSet(eng') \subseteq IdSet(eng)
    BY <2>1, StopIds DEF IInv, DataTyped, Placed
  <2> QED
    BY <1>0, <1>1, <2>1, <2>2, StepClears, EndedTyped, Numbers DEF session
<1>3. CASE task[s].kind \notin {"skip", "previous"}
  <2>1. UNCHANGED <<eng, ended>> /\ Goes(s, "failed")
    BY <1>3 DEF PlayRaises
  <2>2. task[s].tok \in Tokens
    BY <1>0 DEF IInv, Holds, InHand, Given
  <2> QED
    BY <1>0, <1>1, <2>1, <2>2, StepGoes, Numbers DEF Pcs, Locked, InHand, Given, session
<1> QED
  BY <1>2, <1>3

-----------------------------------------------------------------------------
(* The output hold *)

\* hold_current keeps the item, stamped with the mark.
LEMMA HoldKeeps ==
  ASSUME IInv, NEW mark \in BOOLEAN
  PROVE  LET r == HoldOp(eng, mark)
         IN r \in Engines(Item) /\ Apart(r) /\ r.current = NoItem /\ IdSet(r) = IdSet(eng)
<1>1. eng.current # NoItem => /\ [eng.current EXCEPT !.rec = mark] \in Item
                              /\ [eng.current EXCEPT !.rec = mark].id = eng.current.id
  BY DEF IInv, DataTyped, Engines, Item
<1> QED
  BY <1>1, HoldIds, NoItemAssumption DEF IInv, DataTyped, Placed

\* enter_output_hold, by the holder of the lock or by the classifier.
LEMMA StepEntersHold ==
  ASSUME IInv, NEW s \in Slots, NEW mark \in BOOLEAN, EntersHold(s, mark),
         task[s].pc # "wait", UNCHANGED lock, UNCHANGED <<nextId, supervisor, sound, ended>>
  PROVE  IInv'
<1>1. /\ hold' = TRUE /\ UNCHANGED <<outage, outages>> /\ Goes(s, "holding")
      /\ eng' = IF eng.current = NoItem THEN [eng EXCEPT !.paused = TRUE] ELSE HoldOp(eng, mark)
  BY DEF EntersHold
<1>2. /\ eng' \in Engines(Item) /\ Apart(eng') /\ eng'.current = NoItem
      /\ IdSet(eng') = IdSet(eng)
  <2>1. CASE eng.current = NoItem
    <3> DEFINE e == [eng EXCEPT !.paused = TRUE]
    <3>1. /\ e \in Engines(Item) /\ e.queue = eng.queue /\ e.history = eng.history
          /\ e.current = NoItem /\ eng' = e
      BY <1>1, <2>1 DEF IInv, DataTyped, Engines
    <3> HIDE DEF e
    <3>2. Apart(e) /\ IdSet(e) = IdSet(eng)
      BY <2>1, <3>1 DEF IInv, Placed, Apart, IdSet, IdCurrent
    <3> QED
      BY <3>1, <3>2
  <2>2. CASE eng.current # NoItem
    BY <1>1, <2>2, HoldKeeps
  <2> QED
    BY <2>1, <2>2
<1>3. ended \in [Items -> Nat]
  BY DEF IInv, DataTyped
<1> QED
  BY <1>1, <1>2, <1>3, StepClears, Numbers DEF supervisor

\* The device is gone.
LEMMA StepDeviceLost == ASSUME IInv, NEW s \in Slots, DeviceLost(s) PROVE IInv'
<1>0. /\ task[s].pc = "failed" /\ owner = s /\ UNCHANGED <<nextId, supervisor, sound, ended>>
      /\ task[s].id \in IdSet(eng) /\ ended \in [Items -> Nat]
  BY DEF DeviceLost, IInv, LockInv, LockHeld, Locked, Holds, InHand, DataTyped
<1>1. CASE task[s].kind = "resume"
  <2>1. eng' = HoldOp(eng, Object(task[s].id).rec) /\ Goes(s, "leaving") /\ UNCHANGED <<session, lock>>
    BY <1>1 DEF DeviceLost
  <2>2. Object(task[s].id).rec \in BOOLEAN
    BY <1>0, ObjectItem DEF Item
  <2>3. eng' \in Engines(Item) /\ Apart(eng') /\ eng'.current = NoItem /\ IdSet(eng') = IdSet(eng)
    BY <2>1, <2>2, HoldKeeps
  <2> QED
    BY <1>0, <2>1, <2>3, StepClears, Numbers DEF session, supervisor
<1>2. CASE task[s].kind # "resume" /\ hold
  <2>1. Leaves(s) /\ UNCHANGED <<eng, session>>
    BY <1>2 DEF DeviceLost
  <2> QED
    BY <1>0, <1>2, <2>1, StepLeaves, Numbers DEF Locked, session, supervisor
<1>3. CASE task[s].kind # "resume" /\ ~hold
  <2> DEFINE mark == eng.current # NoItem /\ eng.current.rec
  <2>1. EntersHold(s, mark) /\ UNCHANGED lock
    BY <1>3 DEF DeviceLost
  <2>2. mark \in BOOLEAN
    OBVIOUS
  <2> HIDE DEF mark
  <2> QED
    BY <1>0, <2>1, <2>2, StepEntersHold
<1> QED
  BY <1>1, <1>2, <1>3

\* Whether an issued dispatch counts as recorded is a Boolean.
LEMMA RecordedTyped == ASSUME IInv, NEW t PROVE PlayRecorded(t) \in BOOLEAN
  BY DEF PlayRecorded

\* The classifier up to its probe.
LEMMA StepClassifies == ASSUME IInv, NEW s \in Slots, Classifies(s) PROVE IInv'
<1>0. /\ task[s].pc = "start" /\ owner # s /\ UNCHANGED <<nextId, lock, supervisor, sound, ended>>
  BY NotHolder DEF Classifies, IInv, Locked
<1>1. CASE Ends(s) /\ UNCHANGED <<eng, session>>
  BY <1>0, <1>1, StepEnds, Numbers DEF session, supervisor
<1>2. CASE EntersHold(s, PlayRecorded(task[s].tok))
  BY <1>0, <1>2, StepEntersHold, RecordedTyped
<1>3. CASE Goes(s, "probing") /\ UNCHANGED <<eng, session>>
  BY <1>0, <1>3, StepGoes, Numbers DEF Pcs, Locked, InHand, Given, session, supervisor
<1>4. CASE Goes(s, "notice") /\ UNCHANGED <<eng, session>>
  BY <1>0, <1>4, StepGoes, Numbers DEF Pcs, Locked, InHand, Given, session, supervisor
<1> QED
  BY <1>1, <1>2, <1>3, <1>4 DEF Classifies

\* The probe answered.
LEMMA StepProbeAnswers ==
  ASSUME IInv, NEW s \in Slots, NEW reachable \in BOOLEAN, ProbeAnswers(s, reachable)
  PROVE  IInv'
<1>0. /\ task[s].pc = "probing" /\ owner # s /\ UNCHANGED <<nextId, lock, supervisor, sound, ended>>
  BY NotHolder DEF ProbeAnswers, IInv, Locked
<1>1. CASE Ends(s) /\ UNCHANGED <<eng, session>>
  BY <1>0, <1>1, StepEnds, Numbers DEF session, supervisor
<1>2. CASE EntersHold(s, PlayRecorded(task[s].tok))
  BY <1>0, <1>2, StepEntersHold, RecordedTyped
<1>3. CASE Goes(s, "notice") /\ UNCHANGED <<eng, session>>
  BY <1>0, <1>3, StepGoes, Numbers DEF Pcs, Locked, InHand, Given, session, supervisor
<1> QED
  BY <1>1, <1>2, <1>3 DEF ProbeAnswers

-----------------------------------------------------------------------------
(* A track is queued *)

\* The item gets an identity no list holds, and perhaps an advance starts.
LEMMA StepEnqueue == ASSUME IInv, NEW s \in Slots, Enqueue(s) PROVE IInv'
<1> DEFINE x == [id |-> nextId, rec |-> FALSE]
           q == Append(eng.queue, x)
<1>0. /\ Idle(s) /\ nextId \in Items /\ nextId' = nextId + 1
      /\ eng' = [eng EXCEPT !.queue = q]
      /\ UNCHANGED <<gen, session, supervisor, sound, ended>>
      /\ \/ UNCHANGED <<task, owner, waitq>>
         \/ StartsAdvance(s, 0, hold, owner)
  BY DEF Enqueue
<1>n. nextId \in Nat /\ nextId' \in 1 .. MaxItems + 1 /\ MaxItems \in Nat
  BY <1>0, Bounds DEF Items
<1>x. x \in Item /\ x.id = nextId
  BY <1>0 DEF Item
<1>1. /\ eng.queue \in Seq(Item) /\ Uniq(eng.queue) /\ nextId \notin IdSet(eng)
  BY <1>n DEF IInv, DataTyped, Placed, Engines, Apart
<1> HIDE DEF x
<1>2. q \in Seq(Item) /\ IdsIn(q) = IdsIn(eng.queue) \cup {nextId} /\ Uniq(q)
  BY <1>1, <1>x, AppendIds DEF IdSet
<1> HIDE DEF q
<1>3. /\ eng' \in Engines(Item) /\ eng'.queue = q /\ eng'.history = eng.history
      /\ eng'.current = eng.current
  BY <1>0, <1>2 DEF IInv, DataTyped, Engines
<1>4. IdCurrent(eng') = IdCurrent(eng)
  BY <1>3 DEF IdCurrent
<1>5. Apart(eng') /\ IdSet(eng') = IdSet(eng) \cup {nextId}
  BY <1>1, <1>2, <1>3, <1>4 DEF IInv, Placed, Apart, IdSet
<1>6. owner # s
  BY <1>0, NotHolder DEF Idle, Locked, IInv
<1>7. LockInv' /\ Moves(s) /\ task'[s].pc \in {"free", "wait", "locked"}
      /\ (owner = NoTask \/ owner' = owner)
  <2>1. CASE UNCHANGED <<task, owner, waitq>>
    <3>1. UNCHANGED <<task, owner, waitq, gen, token>>
      BY <1>0, <2>1 DEF supervisor
    <3>2. LockInv'
      BY <3>1 DEF IInv, LockInv, LockTyped, Captured, LockHeld, Waiters, Outdated
    <3> QED
      BY <1>0, <3>1, <3>2, Numbers DEF Idle, Moves, IInv, LockInv, LockTyped
  <2>2. CASE StartsAdvance(s, 0, hold, owner)
    <3>1. 0 \in 0 .. MaxToken /\ 0 <= token
      BY Numbers, Bounds
    <3> QED
      BY <1>0, <2>2, <3>1, LockStarts DEF Idle, Locked, IInv, supervisor
  <2> QED
    BY <1>0, <2>1, <2>2
<1>8. DataTyped'
  BY <1>0, <1>3, <1>n, Numbers
  DEF IInv, DataTyped, Tokens, Items, Dispatch, session, supervisor
<1>9. Placed'
  <2> SUFFICES ASSUME NEW i \in IdSet(eng') PROVE i < nextId'
    BY <1>5 DEF Placed
  <2>1. CASE i \in IdSet(eng)
    <3>1. i < nextId /\ i \in Nat
      BY <2>1, IdsAreItems DEF IInv, Placed, Items
    <3> QED
      BY <3>1, <1>0, <1>n
  <2>2. CASE i = nextId
    BY <2>2, <1>0, <1>n
  <2> QED
    BY <1>5, <2>1, <2>2
<1>10. Holds'
  BY <1>4, <1>5, <1>7, HoldsKept DEF InHand
<1>11. HeldByResume'
  BY <1>0, <1>3, <1>6, <1>7, HeldKept DEF session
<1>12. Blank'
  BY <1>0 DEF IInv, Blank, Tokens, supervisor
<1> QED
  BY <1>7, <1>8, <1>9, <1>10, <1>11, <1>12, BothKept DEF DataInv

-----------------------------------------------------------------------------
(* The invariance of IInv *)

\* The empty session satisfies the invariant.
LEMMA InitIInv == ASSUME Init PROVE IInv
<1>1. LockInv
  <2>1. waitq \in Seq(Slots) /\ DOMAIN waitq = {}
    BY DEF Init
  <2>2. \A s \in Slots : task[s] = Free
    BY DEF Init
  <2> QED
    BY <2>1, <2>2, FreeTask
    DEF Init, LockInv, LockTyped, Captured, LockHeld, Waiters, Outdated, Locked
<1>2. eng \in Engines(Item) /\ IdSet(eng) = {} /\ IdCurrent(eng) = {} /\ Apart(eng)
  BY SmallIds, HistoryMaxAssumption DEF Init, Engines, IdSet, IdCurrent, Apart
<1>3. DataTyped
  <2>1. nextId \in 1 .. MaxItems + 1 /\ 0 \in 0 .. MaxToken /\ 0 \in 0 .. MaxItems
    BY Bounds DEF Init
  <2>2. Unissued \in Dispatch
    BY <2>1 DEF Unissued, Dispatch
  <2>3. disp \in [Tokens -> Dispatch] /\ ended \in [Items -> Nat]
    BY <2>2 DEF Init
  <2>4. /\ outages \in Nat /\ outage \in 0 .. outages /\ token \in 0 .. MaxToken
        /\ cur \in 0 .. token /\ retired \in 0 .. token /\ sound \in 0 .. token
    BY <2>1 DEF Init
  <2>5. hold \in BOOLEAN
    BY DEF Init
  <2> QED
    BY <1>2, <2>1, <2>3, <2>4, <2>5 DEF DataTyped
<1>4. Placed /\ Holds /\ HeldByResume /\ Blank
  BY <1>2, FreeTask DEF Init, Placed, Holds, HeldByResume, Blank, InHand
<1> QED
  BY <1>1, <1>3, <1>4 DEF IInv

\* Every step keeps it.
LEMMA NextIInv == ASSUME IInv, [Next]_vars PROVE IInv'
<1>1. CASE UNCHANGED vars
  BY <1>1
  DEF vars, lock, session, supervisor, IInv, LockInv, LockTyped, Captured, LockHeld, Waiters,
      Outdated, DataTyped, Placed, Holds, HeldByResume, Blank
<1>2. ASSUME NEW s \in Slots, Works(s) PROVE IInv'
  BY <1>2, StepGranted, StepLeft, StepAdvanceMoves, StepSkipMoves, StepPreviousMoves,
     StepResumeMoves, StepDispatches, StepPlayReturns, StepPlayRaises, StepNoSource,
     StepHoldOpens, StepDeviceLost, StepTrackUnplayable, StepClassifies, StepNoticeSent,
     StepProbeAnswers
  DEF Works
<1>3. ASSUME NEW s \in Slots, Environment(s) PROVE IInv'
  BY <1>3, StepEnqueue, StepPressResume, StepResumeWithoutContext, StepPress,
     StepEndOfStream, StepOnOutageReported, StepDeadlineExpires
  DEF Environment, Presses
<1>4. ASSUME NEW t \in Tokens, OnPlaybackConfirmed(t) PROVE IInv'
  BY <1>4, StepOnPlaybackConfirmed
<1> QED
  BY <1>1, <1>2, <1>3, <1>4 DEF Next

\* Whatever the tasks do, the session keeps its inductive invariant.
THEOREM Invariance == Spec => []IInv
<1>1. Init => IInv
  BY InitIInv
<1>2. IInv /\ [Next]_vars => IInv'
  BY NextIInv
<1> QED
  BY <1>1, <1>2, PTL DEF Spec

-----------------------------------------------------------------------------
(* What a step may do to the items and to the waiters *)

\* Only four steps take an item from the lists: those that push on a full
\* history, and the failed play() of a press, which drops the item in hand.
LEMMA Drops ==
  ASSUME IInv, [Next]_vars, NEW i \in IdSet(eng), i \notin IdSet(eng')
  PROVE  \/ i \in Oldest(eng)
         \/ \E s \in Slots : /\ task[s].kind \in Presses
                             /\ task[s].pc = "playing" /\ task[s].id = i
<1>e. eng \in Engines(Item) /\ Apart(eng) /\ eng' # eng
  BY DEF IInv, DataTyped, Placed
<1>1. CASE eng' = AdvanceOp(eng) \/ eng' = SkipHeldOp(eng)
  BY <1>e, <1>1, AdvanceIds, SkipHeldIds, NoItemAssumption
<1>2. ASSUME NEW s \in Slots, PlayRaises(s) PROVE task[s].kind \in Presses
                                /\ task[s].pc = "playing" /\ task[s].id = i
  <2>1. task[s].pc = "playing" /\ task[s].kind \in Presses /\ eng' = StopOp(eng)
    BY <1>2, <1>e DEF PlayRaises, Presses
  <2>2. i \in IdCurrent(eng)
    BY <1>e, <2>1, StopIds
  <2> QED
    BY <2>1, <2>2 DEF IInv, Holds, InHand
<1>3. eng' # SkipBackOp(eng) \/ eng.history = <<>>
  BY <1>e, SkipBackIds, NoItemAssumption
<1>4. eng' # SkipBackHeldOp(eng)
  BY <1>e, SkipBackHeldIds, NoItemAssumption
<1>5. \A k : eng' # ClearMark(eng, k)
  BY <1>e, ClearMarkIds
<1>6. \A mark \in BOOLEAN : eng' # HoldOp(eng, mark)
  BY HoldKeeps
<1>7. eng.current = NoItem => eng' # [eng EXCEPT !.paused = TRUE]
  <2> SUFFICES ASSUME eng' = [eng EXCEPT !.paused = TRUE] PROVE FALSE
    OBVIOUS
  <2>1. eng'.queue = eng.queue /\ eng'.history = eng.history /\ eng'.current = eng.current
    BY <1>e DEF Engines
  <2> QED
    BY <2>1 DEF IdSet, IdCurrent
<1>8. \A mark \in BOOLEAN, s \in Slots : ~EntersHold(s, mark)
  BY <1>6, <1>7 DEF EntersHold
<1>9. ASSUME NEW s \in Slots, Works(s) PROVE \/ eng' = AdvanceOp(eng) \/ eng' = SkipHeldOp(eng)
                                            \/ PlayRaises(s)
  <2>1. ~DeviceLost(s)
    <3> SUFFICES ASSUME DeviceLost(s) PROVE FALSE
      OBVIOUS
    <3>1. task[s].id \in IdSet(eng)
      BY DEF DeviceLost, IInv, Holds, InHand
    <3>2. Object(task[s].id).rec \in BOOLEAN
      BY <3>1, ObjectItem DEF Item
    <3> DEFINE mark == eng.current # NoItem /\ eng.current.rec
    <3>3. mark \in BOOLEAN
      OBVIOUS
    <3>4. ~EntersHold(s, mark)
      BY <1>8, <3>3
    <3> HIDE DEF mark
    <3> QED
      BY <1>e, <1>6, <3>2, <3>4 DEF DeviceLost, mark
  <2>2. ~Classifies(s)
    BY <1>e, <1>8, RecordedTyped DEF Classifies
  <2>3. ASSUME NEW reachable \in BOOLEAN PROVE ~ProbeAnswers(s, reachable)
    BY <1>e, <1>8, RecordedTyped DEF ProbeAnswers
  <2>4. ~(Granted(s) \/ Left(s) \/ Dispatches(s) \/ NoSource(s) \/ HoldOpens(s)
          \/ TrackUnplayable(s) \/ NoticeSent(s))
    BY <1>e DEF Granted, Left, Dispatches, NoSource, HoldOpens, TrackUnplayable, NoticeSent
  <2>5. ~PlayReturns(s)
    BY <1>5 DEF PlayReturns
  <2>6. AdvanceMoves(s) \/ ResumeMoves(s) => eng' = AdvanceOp(eng)
    BY <1>e DEF AdvanceMoves, ResumeMoves, Pops
  <2>7. SkipMoves(s) => eng' = AdvanceOp(eng) \/ eng' = SkipHeldOp(eng)
    BY DEF SkipMoves, Pops
  <2>8. ~PreviousMoves(s)
    BY <1>e, <1>3, <1>4 DEF PreviousMoves
  <2> QED
    BY <1>9, <2>1, <2>2, <2>3, <2>4, <2>5, <2>6, <2>7, <2>8 DEF Works
<1>10. ASSUME NEW s \in Slots PROVE ~Environment(s)
  <2>1. ~Enqueue(s)
    <3> SUFFICES ASSUME Enqueue(s) PROVE FALSE
      OBVIOUS
    <3> DEFINE x == [id |-> nextId, rec |-> FALSE]
    <3>1. x \in Item /\ eng' = [eng EXCEPT !.queue = Append(@, x)]
      BY DEF Enqueue, Item
    <3> HIDE DEF x
    <3>2. /\ eng'.queue = Append(eng.queue, x) /\ eng'.history = eng.history
          /\ eng'.current = eng.current /\ eng.queue \in Seq(Item)
      BY <1>e, <3>1 DEF Engines
    <3>3. IdsIn(eng.queue) \subseteq IdsIn(eng'.queue)
      BY <3>1, <3>2, AppendIds
    <3> QED
      BY <3>2, <3>3 DEF IdSet, IdCurrent
  <2> QED
    BY <1>e, <2>1
    DEF Environment, PressResume, ResumeWithoutContext, Press, EndOfStream, OnOutageReported,
        DeadlineExpires, Suspects
<1>11. \A t \in Tokens : ~OnPlaybackConfirmed(t)
  BY <1>e DEF OnPlaybackConfirmed
<1>12. eng' # eng => ~(UNCHANGED vars)
  BY DEF vars
<1>13. \E s \in Slots : Works(s)
  BY <1>e, <1>10, <1>11, <1>12 DEF Next
<1> QED
  BY <1>1, <1>2, <1>9, <1>13

\* A wait ends only when the lock is granted.
LEMMA WaitEnds ==
  ASSUME IInv, [Next]_vars, NEW s \in Slots, task[s].pc = "wait", task'[s].pc # "wait"
  PROVE  Granted(s)
<1>t. task \in [Slots -> Task]
  BY DEF IInv, LockInv, LockTyped
<1>1. ASSUME NEW u \in Slots, NEW r, task' = [task EXCEPT ![u] = r] PROVE u = s
  BY <1>t, <1>1
<1>2. \A u \in Slots : \A p : Goes(u, p) \/ Ends(u) => u = s
  BY <1>t DEF Goes, Ends
<1>3. \A u \in Slots : \A p : Pops(u, p) => u = s
  BY <1>t DEF Pops
<1>4. \A u \in Slots : \A r : Acquires(u, r) => u = s
  BY <1>t DEF Acquires
<1>5. \A u \in Slots : \A t, held, holder : StartsAdvance(u, t, held, holder) => u = s
  BY <1>t, <1>2 DEF StartsAdvance
<1>6. ASSUME NEW u \in Slots, Works(u) PROVE Granted(s)
  <2>1. Granted(u) => u = s
    BY <1>2 DEF Granted
  <2>2. ~(Left(u) \/ HoldOpens(u) \/ NoSource(u) \/ PlayReturns(u))
    BY <1>2 DEF Left, HoldOpens, NoSource, PlayReturns, Leaves, Is
  <2>3. ~(AdvanceMoves(u) \/ SkipMoves(u) \/ ResumeMoves(u))
    BY <1>2, <1>3 DEF AdvanceMoves, SkipMoves, ResumeMoves, Leaves, Is
  <2>4. ~PreviousMoves(u)
    BY <1>t, <1>2 DEF PreviousMoves, Leaves, Is
  <2>5. ~Dispatches(u)
    BY <1>t DEF Dispatches
  <2>6. ~(PlayRaises(u) \/ TrackUnplayable(u))
    BY <1>2 DEF PlayRaises, TrackUnplayable
  <2>7. ~DeviceLost(u)
    BY <1>2 DEF DeviceLost, EntersHold, Leaves
  <2>8. ~Classifies(u) /\ ~NoticeSent(u)
    BY <1>2, <1>5 DEF Classifies, EntersHold, NoticeSent
  <2>9. \A reachable \in BOOLEAN : ~ProbeAnswers(u, reachable)
    BY <1>2 DEF ProbeAnswers, EntersHold
  <2> QED
    BY <1>6, <2>1, <2>2, <2>3, <2>4, <2>5, <2>6, <2>7, <2>8, <2>9 DEF Works
<1>7. \A u \in Slots : ~Environment(u)
  BY <1>1, <1>4, <1>5
  DEF Environment, Enqueue, PressResume, ResumeWithoutContext, Press, EndOfStream,
      OnOutageReported, DeadlineExpires, Suspects, Idle
<1>8. task' # task
  OBVIOUS
<1> QED
  BY <1>6, <1>7, <1>8 DEF Next, OnPlaybackConfirmed, vars

-----------------------------------------------------------------------------
(* The properties *)

\* Every variable keeps its type, and the lock is held by a running task.
THEOREM TypeCorrect == Spec => []TypeOK
<1>1. IInv => TypeOK
  <2> SUFFICES ASSUME IInv PROVE TypeOK
    OBVIOUS
  <2>1. eng.playing \in BOOLEAN /\ eng.paused \in BOOLEAN
    BY DEF IInv, DataTyped, Engines
  <2>2. owner # NoTask => ~Idle(owner)
    BY DEF IInv, LockInv, LockHeld, Locked, Idle
  <2> QED
    BY <2>1, <2>2, Numbers DEF TypeOK, IInv, DataTyped, LockInv, LockTyped
<1> QED
  BY <1>1, Invariance, PTL

\* No item is ever in two places, however many holds, skips, resumes and
\* advances interleave (engine.py's moves, state.py's lock).
THEOREM NothingTwice == Spec => []NoItemTwice
<1>1. IInv => NoItemTwice
  BY ListsIds DEF IInv, DataTyped, Placed, NoItemTwice, Uniq, Lists, InARow
<1> QED
  BY <1>1, Invariance, PTL

\* In a held session at rest nothing is current: the interrupted item waits
\* in the queue (hold.py:11-18).
THEOREM HeldIsQueued == Spec => []HeldHasNoCurrent
<1>1. IInv => HeldHasNoCurrent
  BY DEF IInv, HeldByResume, HeldHasNoCurrent, Quiet, Idle, InHand, LockInv, LockTyped
<1> QED
  BY <1>1, Invariance, PTL

\* No hold, resume, advance, dispatch or classification loses an item: it
\* leaves the lists as the oldest entry of a full history, or in the hand of
\* a press whose play() failed.
THEOREM NothingLost == Spec => NothingElseDropped
<1>1. IInv /\ [Next]_vars => [\A i \in Ids(Lists) \ Ids(Lists)' :
         \/ Len(eng.history) = HistoryMax /\ eng.history[HistoryMax].id = i
         \/ \E s \in Slots : /\ task[s].kind \in {"skip", "previous"}
                             /\ task[s].pc = "playing" /\ task[s].id = i]_vars
  <2> SUFFICES ASSUME IInv, [Next]_vars, NEW i \in Ids(Lists) \ Ids(Lists)'
      PROVE  \/ Len(eng.history) = HistoryMax /\ eng.history[HistoryMax].id = i
             \/ \E s \in Slots : /\ task[s].kind \in {"skip", "previous"}
                                 /\ task[s].pc = "playing" /\ task[s].id = i
    OBVIOUS
  <2>1. Ids(Lists) = IdSet(eng)
    BY ListsIds DEF Lists, InARow, IInv, DataTyped, Placed, Ids, IdsIn
  <2>2. IInv'
    BY NextIInv
  <2>3. Ids(Lists)' = IdSet(eng')
    BY <2>2, ListsIds DEF Lists, InARow, IInv, DataTyped, Placed, Ids, IdsIn
  <2> QED
    BY <2>1, <2>3, Drops DEF Oldest, Presses
<1> QED
  BY <1>1, Invariance, PTL DEF Spec, NothingElseDropped

\* An advance that waited while a press came never moves the queue before it.
THEOREM PressFirst == Spec => PressBeatsAdvance
<1>1. IInv /\ [Next]_vars =>
        [\A s \in Slots : Is(s, "advance", "wait") /\ task'[s].pc = "locked" =>
           \A i \in DOMAIN waitq' : task[waitq'[i]].kind \notin {"skip", "previous"}]_vars
  <2> SUFFICES ASSUME IInv, [Next]_vars, NEW s \in Slots, Is(s, "advance", "wait"),
                      task'[s].pc = "locked", NEW i \in DOMAIN waitq'
               PROVE  task[waitq'[i]].kind \notin {"skip", "previous"}
    OBVIOUS
  <2>1. Granted(s)
    BY WaitEnds DEF Is
  <2>2. waitq \in Seq(Slots) /\ waitq # <<>> /\ waitq' = Tail(waitq) /\ Head(waitq) = s
    BY <2>1 DEF Granted, IInv, LockInv, LockTyped
  <2>3. /\ i + 1 \in DOMAIN waitq /\ waitq'[i] = waitq[i + 1]
        /\ 1 \in DOMAIN waitq /\ waitq[1] = s /\ 1 < i + 1
    <3>1. Len(Tail(waitq)) = Len(waitq) - 1 /\ Tail(waitq) \in Seq(Slots)
          /\ \A k \in 1 .. Len(Tail(waitq)) : Tail(waitq)[k] = waitq[k + 1]
      BY <2>2, HeadTailProperties
    <3>2. i \in 1 .. Len(waitq) - 1 /\ Len(waitq) \in Nat /\ DOMAIN waitq = 1 .. Len(waitq)
      BY <2>2, <3>1, LenProperties
    <3> QED
      BY <2>2, <3>1, <3>2
  <2>4. task[s].kind = "advance" /\ task[s].gen = gen
    BY <2>1, FreeTask DEF Is, Granted, Ends, IInv, LockInv, LockTyped
  <2> QED
    BY <2>3, <2>4 DEF IInv, LockInv, Outdated, Presses
<1> QED
  BY <1>1, Invariance, PTL DEF Spec, PressBeatsAdvance

-----------------------------------------------------------------------------
(***************************************************************************)
(* PlaybackSession implements DispatchLedger: driven by advances, presses, *)
(* resumes and outages, the supervisor decides each dispatch once, and     *)
(* never counts one that was superseded, withdrawn or suspected.           *)
(***************************************************************************)

SameMarks == \A t \in Tokens : disp'[t].mark = disp[t].mark
SameCounts == \A t \in Tokens : Counts(t)' = Counts(t)

-----------------------------------------------------------------------------
(* The shapes of step, as the ledger sees them *)

\* A step that changes no fate and no count is a stutter of the ledger.
LEMMA Stutters ==
  ASSUME token' = token, SameMarks, SameCounts, \A t \in Tokens : Fate(t)' = Fate(t)
  PROVE  UNCHANGED Ledger!ledgerVars
<1>1. [t \in Tokens |-> Fate(t)]' = [t \in Tokens |-> Fate(t)]
  BY DEF Tokens
<1>2. {t \in Tokens : disp[t].mark}' = {t \in Tokens : disp[t].mark}
  BY DEF SameMarks, Tokens
<1>3. [t \in Tokens |-> IF Counts(t) THEN 1 ELSE 0]' = [t \in Tokens |-> IF Counts(t) THEN 1 ELSE 0]
  BY DEF SameCounts, Tokens
<1> QED
  BY <1>1, <1>2, <1>3 DEF Ledger!ledgerVars

\* A step that empties the current slot loses its dispatch, unless it was
\* heard before.
LEMMA EmptiesSlot ==
  ASSUME IInv, cur' = 0, token' = token, disp' = disp
  PROVE  Ledger!Next \/ UNCHANGED Ledger!ledgerVars
<1>t. cur \in 0 .. token /\ token \in 0 .. MaxToken /\ MaxToken \in Nat
  BY Numbers, Bounds
<1>1. SameMarks /\ SameCounts
  BY DEF SameMarks, SameCounts, Counts
<1>2. \A u \in Tokens : u # cur => Fate(u)' = Fate(u)
  BY <1>t DEF Fate, Tokens
<1>3. CASE cur = 0 \/ disp[cur].confirmed
  <2>1. \A u \in Tokens : Fate(u)' = Fate(u)
    BY <1>2, <1>3, <1>t DEF Fate, Tokens
  <2> QED
    BY <1>1, <2>1, Stutters
<1>4. CASE cur # 0 /\ ~disp[cur].confirmed
  <2> DEFINE F == [u \in Tokens |-> Fate(u)]
  <2>0. PICK t \in Tokens : t = cur
    BY <1>4, <1>t DEF Tokens
  <2>1. Fate(t) = "waiting" /\ Fate(t)' = "lost"
    BY <1>4, <1>t, <2>0 DEF Fate, Tokens
  <2>2. F' = [F EXCEPT ![t] = "lost"]
    BY <1>2, <2>0, <2>1 DEF Tokens
  <2>3. {u \in Tokens : disp[u].mark}' = {u \in Tokens : disp[u].mark}
    BY <1>1 DEF SameMarks, Tokens
  <2>4. [u \in Tokens |-> IF Counts(u) THEN 1 ELSE 0]' = [u \in Tokens |-> IF Counts(u) THEN 1 ELSE 0]
    BY <1>1 DEF SameCounts, Tokens
  <2>5. t \in Ledger!Waiting /\ t \in Ledger!Tokens
    BY <2>1 DEF Ledger!Waiting, Ledger!Tokens, Tokens
  <2>6. Ledger!Lose(t)
    BY <2>2, <2>3, <2>4, <2>5 DEF Ledger!Lose
  <2> QED
    BY <2>5, <2>6 DEF Ledger!Next
<1> QED
  BY <1>3, <1>4

\* Audio heard for the live dispatch is the ledger's Hear.
LEMMA RefineConfirmed ==
  ASSUME IInv, NEW t \in Tokens, OnPlaybackConfirmed(t)
  PROVE  Ledger!Hear(t)
<1> DEFINE F == [u \in Tokens |-> Fate(u)]
           M == {u \in Tokens : disp[u].mark}
           P == [u \in Tokens |-> IF Counts(u) THEN 1 ELSE 0]
<1>0. /\ cur = t /\ ~disp[t].confirmed /\ disp' = [disp EXCEPT ![t].confirmed = TRUE]
      /\ token' = token /\ cur' = cur
  BY DEF OnPlaybackConfirmed
<1>t. t \in Nat \ {0} /\ t <= token /\ token \in Nat /\ disp \in [Tokens -> Dispatch]
  BY <1>0, Numbers DEF IInv, DataTyped, Tokens
<1>d. /\ \A u \in Tokens : u # t => disp'[u] = disp[u]
      /\ disp'[t].confirmed /\ disp'[t].mark = disp[t].mark
  BY <1>0, <1>t DEF Dispatch
<1>1. Fate(t) = "waiting" /\ Fate(t)' = "heard"
  BY <1>0, <1>t, <1>d DEF Fate
<1>2. F' = [F EXCEPT ![t] = "heard"]
  <2>1. \A u \in Tokens : u # t => Fate(u)' = Fate(u)
    BY <1>0, <1>d DEF Fate
  <2> QED
    BY <1>1, <2>1 DEF Tokens
<1>3. M' = M
  BY <1>d DEF Tokens
<1>4. P' = [P EXCEPT ![t] = IF t \in M THEN 0 ELSE 1]
  <2>1. \A u \in Tokens : u # t => (Counts(u)' <=> Counts(u))
    BY <1>d DEF Counts
  <2>2. Counts(t)' <=> t \notin M
    BY <1>d DEF Counts
  <2> HIDE DEF M
  <2> QED
    BY <2>1, <2>2 DEF Tokens
<1>5. t \in Ledger!Waiting
  BY <1>1 DEF Ledger!Waiting, Ledger!Tokens, Tokens
<1> QED
  BY <1>0, <1>2, <1>3, <1>4, <1>5 DEF Ledger!Hear

\* A dispatch issues the next token; the one it supersedes is lost, unless
\* it was heard before.
LEMMA RefineDispatches ==
  ASSUME IInv, NEW s \in Slots, Dispatches(s)
  PROVE  Ledger!Next
<1> DEFINE F == [u \in Tokens |-> Fate(u)]
           M == {u \in Tokens : disp[u].mark}
           P == [u \in Tokens |-> IF Counts(u) THEN 1 ELSE 0]
           lost == {u \in Tokens : Fate(u) = "waiting" /\ Fate(u)' = "lost"}
           mark == disp'[token + 1].mark
           d == [id |-> task[s].id, nth |-> ended[task[s].id],
                 mark |-> IF task[s].pc = "failed" THEN disp[task[s].tok].mark
                                                   ELSE Object(task[s].id).rec,
                 confirmed |-> FALSE]
<1>0. /\ token < MaxToken /\ token' = token + 1 /\ cur' = token + 1
      /\ disp' = [disp EXCEPT ![token + 1] = d] /\ ~d.confirmed
  BY DEF Dispatches
<1> HIDE DEF d
<1>t. token \in 0 .. MaxToken /\ token + 1 \in Tokens /\ cur \in 0 .. token
      /\ disp \in [Tokens -> Dispatch] /\ MaxToken \in Nat
  BY <1>0, Numbers, Bounds DEF IInv, DataTyped, Tokens
<1>n. PICK n \in Tokens : n = token + 1
  BY <1>t
<1>i. disp' \in [Tokens -> Dispatch]
  BY StepDispatches DEF IInv, DataTyped, Tokens, Dispatch
<1>d. /\ ~disp'[token + 1].confirmed /\ mark \in BOOLEAN
      /\ \A u \in Tokens : u # token + 1 => disp'[u] = disp[u]
  BY <1>0, <1>t, <1>i DEF Dispatch
<1>u. \A u \in Tokens : u > token => ~disp[u].confirmed /\ ~disp[u].mark
  BY DEF IInv, Blank, Unissued
<1>1. Fate(n)' = "waiting" /\ Fate(n) = "unissued"
  BY <1>0, <1>t, <1>n, <1>d DEF Fate
<1>2. \A u \in Tokens : u > n => Fate(u)' = Fate(u) /\ Fate(u) = "unissued"
  BY <1>0, <1>t, <1>n DEF Fate, Tokens
<1>3. \A u \in Tokens : u <= token =>
         \/ Fate(u)' = Fate(u)
         \/ Fate(u) = "waiting" /\ Fate(u)' = "lost"
  BY <1>0, <1>t, <1>d DEF Fate, Tokens
<1> HIDE DEF mark
<1>4. F' = [u \in Tokens |-> CASE u = n       -> "waiting"
                               [] u \in lost  -> "lost"
                               [] OTHER       -> F[u]]
  <2>1. \A u \in Tokens : Fate(u)' = CASE u = n       -> "waiting"
                                       [] u \in lost  -> "lost"
                                       [] OTHER       -> F[u]
    <3> SUFFICES ASSUME NEW u \in Tokens
                 PROVE  Fate(u)' = CASE u = n       -> "waiting"
                                     [] u \in lost  -> "lost"
                                     [] OTHER       -> F[u]
      OBVIOUS
    <3>1. u = n \/ u > n \/ (u <= token /\ u # n)
      BY <1>t, <1>n DEF Tokens
    <3> QED
      BY <1>1, <1>2, <1>3, <3>1
  <2> QED
    BY <2>1 DEF Tokens
<1>5. M' = IF mark THEN M \cup {n} ELSE M
  BY <1>t, <1>n, <1>d, <1>u DEF Tokens, mark
<1>6. P' = [P EXCEPT ![n] = 0]
  <2>1. ~Counts(n)' /\ \A u \in Tokens : u # n => (Counts(u)' <=> Counts(u))
    BY <1>t, <1>n, <1>d DEF Counts
  <2> QED
    BY <1>t, <1>n, <2>1 DEF Tokens
<1>7. lost \subseteq Ledger!Waiting
  BY DEF Ledger!Waiting, Ledger!Tokens, Tokens
<1> HIDE DEF F, M, P, lost
<1>8. PICK L \in SUBSET Ledger!Waiting : L = lost
  BY <1>7
<1>9. Ledger!Issue(mark, FALSE, L)
  BY <1>0, <1>n, <1>4, <1>5, <1>6, <1>8 DEF Ledger!Issue, Ledger!Tokens, Tokens, F, M, P
<1> QED
  BY <1>9, <1>d DEF Ledger!Next

-----------------------------------------------------------------------------
(* The refinement *)

\* A task's step is a step or a stutter of the ledger.
LEMMA RefineTask ==
  ASSUME IInv, NEW s \in Slots, Works(s) \/ Environment(s)
  PROVE  Ledger!Next \/ UNCHANGED Ledger!ledgerVars
<1>1. CASE UNCHANGED supervisor
  BY <1>1, Stutters DEF supervisor, SameMarks, SameCounts, Counts, Fate
<1>2. CASE PlayRaises(s)
  <2>1. token' = token /\ disp' = disp /\ (cur' = 0 \/ cur' = cur)
    BY <1>2 DEF PlayRaises
  <2>2. CASE cur' = 0
    BY <2>1, <2>2, EmptiesSlot
  <2>3. CASE cur' = cur
    BY <2>1, <2>3, Stutters DEF SameMarks, SameCounts, Counts, Fate
  <2> QED
    BY <2>1, <2>2, <2>3
<1>3. CASE OnOutageReported(s) \/ DeadlineExpires(s)
  BY <1>3, EmptiesSlot DEF OnOutageReported, DeadlineExpires, Suspects
<1>4. CASE Dispatches(s)
  BY <1>4, RefineDispatches
<1>5. UNCHANGED supervisor \/ PlayRaises(s) \/ OnOutageReported(s) \/ DeadlineExpires(s)
         \/ Dispatches(s)
  BY DEF Works, Environment, Granted, Left, AdvanceMoves, SkipMoves, PreviousMoves, ResumeMoves,
         PlayReturns, NoSource, HoldOpens, DeviceLost, TrackUnplayable, Classifies, NoticeSent,
         ProbeAnswers, Enqueue, PressResume, ResumeWithoutContext, Press, EndOfStream
<1> QED
  BY <1>1, <1>2, <1>3, <1>4, <1>5

\* Every step is a step or a stutter of the ledger.
LEMMA RefineNext == IInv /\ [Next]_vars => [Ledger!Next]_(Ledger!ledgerVars)
<1> SUFFICES ASSUME IInv, [Next]_vars PROVE Ledger!Next \/ UNCHANGED Ledger!ledgerVars
  OBVIOUS
<1>1. ASSUME NEW t \in Tokens, OnPlaybackConfirmed(t) PROVE Ledger!Next
  BY <1>1, RefineConfirmed DEF Ledger!Next, Ledger!Tokens, Tokens
<1>2. CASE UNCHANGED vars
  BY <1>2, Stutters DEF vars, supervisor, SameMarks, SameCounts, Counts, Fate
<1> QED
  BY <1>1, <1>2, RefineTask DEF Next

\* The session starts as the ledger does.
LEMMA RefineInit == Init => Ledger!Init
<1> SUFFICES ASSUME Init PROVE Ledger!Init
  OBVIOUS
<1>1. \A t \in Tokens : Fate(t) = "unissued" /\ ~disp[t].mark /\ ~Counts(t)
  BY Bounds DEF Init, Fate, Tokens, Unissued, Counts
<1> QED
  BY <1>1 DEF Init, Ledger!Init, Ledger!Tokens, Tokens

\* Whoever dispatches, and however presses, outages and late signals
\* interleave, each dispatch is decided once, as heard or as lost, and one
\* that was superseded, withdrawn or suspected is never counted
\* (session.py:547-577, 601-637).
THEOREM SessionKeepsLedger == Spec => LedgerSpec
  BY RefineInit, RefineNext, Invariance, PTL DEF Spec, LedgerSpec, Ledger!Spec
=============================================================================
