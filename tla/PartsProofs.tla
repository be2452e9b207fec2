----------------------------- MODULE PartsProofs -----------------------------
(***************************************************************************)
(* Proofs about two of the parts that MCParts runs, for every value of the *)
(* constants: the output switch (OutputSwitch), and the shared database    *)
(* connection (SharedConnection, the instance Conn below).                 *)
(*                                                                         *)
(* The switch: who attaches has the lock; whatever is connected is in      *)
(* charge, about to be, or somebody's to release; an attempt that is not   *)
(* for the selected device is known to be late; and a held queue has a     *)
(* context that retries or a switch under way that will leave it one.      *)
(*                                                                         *)
(* The connection: those that wait for its lock are in its line once, in   *)
(* the order they came, and only the first of the line is past its start.  *)
(***************************************************************************)
EXTENDS OutputSwitch, SequenceTheorems, TLAPS

CONSTANTS Writers, BeginRetries, MaxWrites, MaxErrors, MaxCrashes
VARIABLES disk, work, tx, lock, writing, mem, acked, spent
Conn == INSTANCE SharedConnection WITH job <- writing

(* The switch: the inductive invariant. *)

Devices == CastDevices \cup DlnaDevices \cup {None, "default", CHOOSE c \in CastDevices : TRUE}
Contexts == [b : Backends, d : Devices, retired : BOOLEAN, attached : BOOLEAN, armed : BOOLEAN,
             inflight : BOOLEAN]
Stage(n, pc) ==
    /\ n \in Appliers => pc \in {"free", "queued", "connecting", "adopted", "saving"}
    /\ n \in Attempts => pc \in {"free", "queued", "seeding", "connecting", "adopted", "reached", "missed",
                                 "resume", "discovering"}
    /\ n \in Retirers => pc \in {"free", "spawned", "stopping"}
    /\ n = "play" => pc \in {"free", "spawned", "swapping", "dispatch"}
    /\ n = "holder" => pc \in {"free", "holding"}
JobOf(n, j, count) ==
    /\ DOMAIN j = {"pc", "b", "d", "old", "beaten", "ot", "was"}
    /\ Stage(n, j.pc) /\ j.ot \in 0 .. count /\ (n \in Loops /\ j.pc # "free" => j.ot # 0)
    /\ (n # "play" /\ j.pc # "free") \/ j.pc = "swapping" => j.b \in Backends
    /\ n \in Appliers \cup Attempts /\ j.pc # "free" => j.d \in Devices
JobsTyped == DOMAIN job = JobNames /\ \A n \in JobNames : JobOf(n, job[n], Len(ots))
HeldTyped ==
    /\ ots \in Seq(Contexts) /\ held \in [on : BOOLEAN, ot : 0 .. Len(ots)]
    /\ serial \in Seq(JobNames)
OutputsTyped ==
    /\ router.active \in Backends /\ router.pending \in Backends \cup {None}
    /\ DOMAIN router = {"active", "pending", "intent"} /\ DOMAIN truth = {"displaced", "late"}
    /\ be \in [Backends -> [conn : Devices, dev : Devices, playing : BOOLEAN]]
    /\ sel \in Backends \X Devices
SwitchShape == JobsTyped /\ HeldTyped /\ OutputsTyped

\* Who attaches has the lock.
Attaching(n) == job[n].pc \in {"seeding", "connecting", "adopted"}
OneAttaches == \A n \in JobNames : Attaching(n) => Holds(n)

\* Nothing is connected but what is in charge, what is about to be, and what
\* somebody is about to release.
Kept(b) == b \in {router.active, router.pending} \cup truth.displaced \cup truth.late
Releasing(r) == At(r, "stopping") \/ At(r, "swapping") \/ (r \in Retirers /\ At(r, "spawned"))
Leaving(b) == \E r \in JobNames : Releasing(r) /\ job[r].b = b /\ ~job[r].beaten
Landing(b) == \E n \in Appliers : At(n, "adopted") /\ job[n].b = b
NoneLeft == \A b \in Connected :
    /\ be[b].conn # None => Kept(b) \/ Leaving(b) \/ Landing(b)
    /\ \A n \in Attempts : At(n, "connecting") /\ ~job[n].beaten /\ job[n].b = b =>
         Kept(b) \/ Leaving(b)

\* The selected output is the one in charge, and an attempt that is not for the
\* selected device is known to be late.
Meant(n) == <<job[n].b, job[n].d>> = sel
OnlySelected ==
    /\ sel[1] = Effective
    /\ \A n \in Attempts : At(n, "seeding") => job[n].b \in truth.late \/ Meant(n)
    /\ \A n \in Attempts : At(n, "connecting") /\ job[n].b = Effective /\ Effective \in Connected =>
         job[n].b \in truth.late \/ Meant(n)
    /\ \A n \in Appliers, b \in Backends : At(n, "adopted") /\ job[n].b = b =>
         be[b].conn \in {None, job[n].d}
    /\ \A b \in Connected \ truth.late : b = Effective =>
         be[b].conn \in {None, sel[2]} \/ Landing(b)

\* A held queue has a context that retries, or will be given one, or be freed.
Ready(o) ==
    /\ o # 0 /\ ~ots[o].retired
    /\ ots[o].armed \/ ~Reconnectable(ots[o].b, ots[o].d)
Switching(n) == job[n].pc \in {"queued", "connecting", "adopted"} /\ job[n].ot # 0
WayBack ==
    held.on => \/ At("holder", "holding") \/ Ready(held.ot)
               \/ \E n \in Appliers : Switching(n) \/ At(n, "saving")

SwitchInv == SwitchShape /\ OneAttaches /\ NoneLeft /\ OnlySelected /\ WayBack

-----------------------------------------------------------------------------
(* What the operators of the switch return. *)

LEMMA SwitchRoles ==
         /\ JobNames = Appliers \cup Attempts \cup Retirers \cup {"play", "holder"}
         /\ Loops \subseteq Attempts /\ Appliers \cap Attempts = {} /\ Retirers \cap (Appliers \cup Attempts) = {}
         /\ "play" \notin Appliers \cup Attempts \cup Retirers
         /\ "holder" \notin Appliers \cup Attempts \cup Retirers
BY DEF JobNames, Appliers, Attempts, Retirers, Loops

\* What the contexts of the outages are after a step.
LEMMA ContextSet ==
  ASSUME NEW os \in Seq(Contexts), NEW o \in 1 .. Len(os), NEW c \in Contexts
  PROVE  /\ [os EXCEPT ![o] = c] \in Seq(Contexts) /\ Len([os EXCEPT ![o] = c]) = Len(os)
         /\ \A k \in 1 .. Len(os) : [os EXCEPT ![o] = c][k] = IF k = o THEN c ELSE os[k]
BY ExceptSeq

LEMMA ContextAt ==
  ASSUME NEW os \in Seq(Contexts), NEW o \in 1 .. Len(os)
  PROVE  os[o] \in Contexts
OBVIOUS

LEMMA RetiredContexts ==
  ASSUME NEW os \in Seq(Contexts), NEW o \in 0 .. Len(os)
  PROVE  /\ Retired(os, o) \in Seq(Contexts) /\ Len(Retired(os, o)) = Len(os)
         /\ \A k \in 1 .. Len(os) : k # o => Retired(os, o)[k] = os[k]
<1>1. CASE o = 0
  BY <1>1 DEF Retired
<1>2. CASE o # 0
  <2>0. o \in 1 .. Len(os)
    BY <1>2
  <2> DEFINE c == [os[o] EXCEPT !.retired = TRUE]
  <2>1. os[o] \in Contexts
    BY <2>0, ContextAt
  <2>2. c \in Contexts
    BY <2>1 DEF Contexts
  <2>3. Retired(os, o) = [os EXCEPT ![o] = c]
    BY <1>2 DEF Retired
  <2> HIDE DEF c
  <2> QED
    BY <2>0, <2>2, <2>3, ContextSet
<1> QED
  BY <1>1, <1>2

LEMMA OpenedContexts ==
  ASSUME NEW os \in Seq(Contexts), NEW h, h.ot \in 0 .. Len(os), NEW b \in Backends, NEW d \in Devices
  PROVE  /\ Opened(os, h, b, d) \in Seq(Contexts) /\ Len(Opened(os, h, b, d)) = Len(os) + 1
         /\ LET c == Opened(os, h, b, d)[Len(os) + 1] IN
              ~c.retired /\ (c.armed \/ ~Reconnectable(c.b, c.d))
<1> DEFINE c == [b |-> b, d |-> d, retired |-> FALSE, attached |-> FALSE,
                 armed |-> Reconnectable(b, d), inflight |-> FALSE]
<1>1. c \in Contexts
  BY DEF Contexts, Reconnectable
<1>2. Retired(os, h.ot) \in Seq(Contexts) /\ Len(Retired(os, h.ot)) = Len(os)
  BY RetiredContexts
<1>3. Opened(os, h, b, d) = Append(Retired(os, h.ot), c)
  BY DEF Opened
<1>4. ~c.retired /\ (c.armed \/ ~Reconnectable(c.b, c.d))
  OBVIOUS
<1> HIDE DEF c
<1> QED
  BY <1>1, <1>2, <1>3, <1>4, AppendProperties

-----------------------------------------------------------------------------
(* What a step keeps of each part. *)

LEMMA JobLater ==
  ASSUME NEW n, NEW j, NEW k \in Nat, NEW l \in Nat, k <= l, JobOf(n, j, k)
  PROVE  JobOf(n, j, l)
BY DEF JobOf

\* The jobs that change become what a job may be.
LEMMA JobsKept ==
  ASSUME JobsTyped, Len(ots) \in Nat, Len(ots') \in Nat, Len(ots) <= Len(ots'),
         DOMAIN job' = JobNames,
         \A n \in JobNames : job'[n] = job[n] \/ JobOf(n, job'[n], Len(ots'))
  PROVE  JobsTyped'
BY JobLater DEF JobsTyped

\* Nobody new attaches; somebody may queue for the lock.
LEMMA LockStays ==
  ASSUME OneAttaches, serial \in Seq(JobNames),
         serial' = serial \/ \E n \in JobNames : serial' = Append(serial, n),
         \A n \in JobNames : Attaching(n)' => Attaching(n) \/ Holds(n)
  PROVE  OneAttaches' /\ serial' \in Seq(JobNames)
<1>1. ASSUME NEW n \in JobNames, Attaching(n)' PROVE Holds(n)
  BY <1>1 DEF OneAttaches
<1>2. CASE serial' = serial
  BY <1>1, <1>2 DEF OneAttaches, Holds
<1>3. ASSUME NEW m \in JobNames, serial' = Append(serial, m) PROVE OneAttaches' /\ serial' \in Seq(JobNames)
  <2>1. serial' \in Seq(JobNames) /\ serial' # <<>> /\ (serial # <<>> => Head(serial') = Head(serial))
    BY <1>3, AppendProperties, HeadTailAppend
  <2> QED
    BY <1>1, <2>1 DEF OneAttaches, Holds
<1> QED
  BY <1>2, <1>3

\* The holder of the lock leaves.
LEMMA LockGiven ==
  ASSUME OneAttaches, serial \in Seq(JobNames), NEW m \in JobNames, Holds(m), serial' = Tail(serial),
         ~Attaching(m)', \A n \in JobNames \ {m} : Attaching(n)' => Attaching(n)
  PROVE  OneAttaches' /\ serial' \in Seq(JobNames)
<1>1. \A n \in JobNames : ~Attaching(n)'
  BY DEF OneAttaches, Holds
<1>2. serial' \in Seq(JobNames)
  BY DEF Holds
<1> QED
  BY <1>1, <1>2 DEF OneAttaches

\* Nothing is connected anew, nobody who releases or was to commit is gone.
SameAttach(n) ==
    job'[n].pc = job[n].pc /\ job'[n].b = job[n].b /\ job'[n].d = job[n].d /\ job'[n].beaten = job[n].beaten
Elsewhere(n) ==
    /\ ~Attaching(n)' /\ ~(n \in Appliers /\ At(n, "adopted"))
    /\ Releasing(n) => Releasing(n)' /\ job'[n].b = job[n].b /\ job'[n].beaten = job[n].beaten

LEMMA SameStage ==
  ASSUME NEW n, SameAttach(n)
  PROVE  /\ \A pc : At(n, pc)' <=> At(n, pc)
         /\ Attaching(n)' <=> Attaching(n)
         /\ Releasing(n)' <=> Releasing(n)
BY DEF SameAttach, At, Attaching, Releasing

LEMMA LeavingStays ==
  ASSUME \A n \in JobNames : SameAttach(n) \/ Elsewhere(n), NEW b
  PROVE  (Leaving(b) => Leaving(b)') /\ (Landing(b) => Landing(b)')
<1>1. ASSUME Leaving(b) PROVE Leaving(b)'
  <2>1. PICK r \in JobNames : Releasing(r) /\ job[r].b = b /\ ~job[r].beaten
    BY <1>1 DEF Leaving
  <2>2. Releasing(r)' /\ job'[r].b = b /\ ~job'[r].beaten
    BY <2>1, SameStage DEF SameAttach, Elsewhere
  <2> QED
    BY <2>2 DEF Leaving
<1>2. ASSUME Landing(b) PROVE Landing(b)'
  <2>1. PICK n \in Appliers : At(n, "adopted") /\ job[n].b = b
    BY <1>2 DEF Landing
  <2>2. SameAttach(n)
    BY <2>1, SwitchRoles DEF Elsewhere
  <2> QED
    BY <2>1, <2>2 DEF Landing, SameAttach, At
<1> QED
  BY <1>1, <1>2

LEMMA MeaningStays ==
  ASSUME JobsTyped, NoneLeft, OnlySelected,
         Effective' = Effective, \A b : Kept(b) => Kept(b)' \/ Leaving(b)', truth' = truth, sel' = sel,
         \A b \in Backends : be'[b].conn = be[b].conn,
         \A n \in JobNames : SameAttach(n) \/ Elsewhere(n)
  PROVE  NoneLeft' /\ OnlySelected'
<1>1. \A b : (Kept(b) => Kept(b)' \/ Leaving(b)') /\ (Leaving(b) => Leaving(b)') /\ (Landing(b) => Landing(b)')
  BY LeavingStays
<1>2. Connected \subseteq Backends
  BY DEF Backends
<1>3. ASSUME NEW n \in Attempts \cup Appliers, NEW pc \in {"seeding", "connecting", "adopted"}, At(n, pc)'
      PROVE  At(n, pc) /\ job'[n].b = job[n].b /\ job'[n].d = job[n].d /\ job'[n].beaten = job[n].beaten
  <2>1. SameAttach(n)
    BY <1>3, SwitchRoles DEF Elsewhere, Attaching, At
  <2> QED
    BY <1>3, <2>1 DEF SameAttach, At
<1>4. NoneLeft'
  <2>1. ASSUME NEW b \in Connected, be'[b].conn # None PROVE Kept(b)' \/ Leaving(b)' \/ Landing(b)'
    BY <1>1, <1>2, <2>1 DEF NoneLeft
  <2>2. ASSUME NEW b \in Connected, NEW n \in Attempts, At(n, "connecting")', ~job'[n].beaten, job'[n].b = b
        PROVE  Kept(b)' \/ Leaving(b)'
    <3>1. At(n, "connecting") /\ job[n].b = b /\ ~job[n].beaten
      BY <1>3, <2>2
    <3>2. Kept(b) \/ Leaving(b)
      BY <3>1 DEF NoneLeft
    <3> QED
      BY <1>1, <3>2
  <2> QED
    BY <2>1, <2>2 DEF NoneLeft
<1>5. OnlySelected'
  <2>1. ASSUME NEW n \in Attempts, At(n, "seeding")' PROVE job'[n].b \in truth'.late \/ Meant(n)'
    <3>1. At(n, "seeding") /\ job'[n].b = job[n].b /\ job'[n].d = job[n].d
      BY <1>3, <2>1
    <3> QED
      BY <3>1 DEF OnlySelected, Meant
  <2>2. ASSUME NEW n \in Attempts, At(n, "connecting")', job'[n].b = Effective, Effective \in Connected
        PROVE  job'[n].b \in truth'.late \/ Meant(n)'
    <3>1. At(n, "connecting") /\ job'[n].b = job[n].b /\ job'[n].d = job[n].d
      BY <1>3, <2>2
    <3> QED
      BY <2>2, <3>1 DEF OnlySelected, Meant
  <2>3. ASSUME NEW n \in Appliers, NEW b \in Backends, At(n, "adopted")', job'[n].b = b
        PROVE  be'[b].conn \in {None, job'[n].d}
    <3>1. At(n, "adopted") /\ job[n].b = b /\ job'[n].d = job[n].d
      BY <1>3, <2>3
    <3>2. be[b].conn \in {None, job[n].d}
      BY <3>1 DEF OnlySelected
    <3> QED
      BY <3>1, <3>2
  <2>4. ASSUME NEW b \in Connected \ truth'.late, b = Effective
        PROVE  be'[b].conn \in {None, sel'[2]} \/ Landing(b)'
    BY <1>1, <1>2, <2>4 DEF OnlySelected
  <2>5. sel'[1] = Effective'
    BY DEF OnlySelected
  <2> QED
    BY <1>2, <2>1, <2>2, <2>3, <2>4, <2>5 DEF OnlySelected
<1> QED
  BY <1>4, <1>5

\* Jobs that neither attach nor release nor commit may come and go.
LEMMA AsideJobs ==
  ASSUME SwitchInv, DOMAIN job' = JobNames, Len(ots') \in Nat, Len(ots) <= Len(ots'),
         \A n \in JobNames : job'[n] = job[n] \/ (JobOf(n, job'[n], Len(ots')) /\ (SameAttach(n) \/ Elsewhere(n))),
         Effective' = Effective, \A b : Kept(b) => Kept(b)' \/ Leaving(b)', truth' = truth, sel' = sel,
         \A b \in Backends : be'[b].conn = be[b].conn
  PROVE  JobsTyped' /\ NoneLeft' /\ OnlySelected'
<1>1. \A n \in JobNames : SameAttach(n) \/ Elsewhere(n)
  BY DEF SameAttach
<1>2. JobsTyped /\ NoneLeft /\ OnlySelected /\ Len(ots) \in Nat
  BY DEF SwitchInv, SwitchShape, HeldTyped
<1>3. JobsTyped'
  BY <1>2, JobsKept
<1> QED
  BY <1>1, <1>2, <1>3, MeaningStays

\* The hold and what gives its context back stay.
Pledged(n) == Switching(n) \/ At(n, "saving")
LEMMA HoldStays ==
  ASSUME WayBack, HeldTyped, held' = held,
         \A o \in 1 .. Len(ots) :
           /\ ots'[o].retired = ots[o].retired /\ ots'[o].b = ots[o].b /\ ots'[o].d = ots[o].d
           /\ ots[o].armed => ots'[o].armed,
         \A n \in Appliers : Pledged(n) => Pledged(n)',
         At("holder", "holding") => At("holder", "holding")'
  PROVE  WayBack'
<1>1. Ready(held.ot) => Ready(held.ot)'
  <2>1. held.ot \in 0 .. Len(ots)
    BY DEF HeldTyped
  <2> QED
    BY <2>1 DEF Ready, Reconnectable
<1>2. CASE \E n \in Appliers : Pledged(n)
  BY <1>2 DEF WayBack, Pledged
<1>3. CASE ~\E n \in Appliers : Pledged(n)
  BY <1>1, <1>3 DEF WayBack, Pledged
<1> QED
  BY <1>2, <1>3

LEMMA HoldEnds ==
  ASSUME held'.on = FALSE
  PROVE  WayBack'
BY DEF WayBack

LEMMA PledgedStays ==
  ASSUME NEW n, job'[n].pc = job[n].pc, job'[n].ot = job[n].ot
  PROVE  Pledged(n)' <=> Pledged(n)
BY DEF Pledged, Switching, At

LEMMA FreeJob ==
  ASSUME NEW n \in JobNames, NEW k \in Nat
  PROVE  JobOf(n, NoJob, k) /\ NoJob.pc = "free"
BY SwitchRoles DEF JobOf, NoJob, Stage

LEMMA JobSet ==
  ASSUME JobsTyped, NEW n \in JobNames, NEW j
  PROVE  /\ DOMAIN [job EXCEPT ![n] = j] = JobNames /\ [job EXCEPT ![n] = j][n] = j
         /\ \A m \in JobNames \ {n} : [job EXCEPT ![n] = j][m] = job[m]
BY DEF JobsTyped

\* Where an advance is started.
LEMMA SpawnedJobs ==
  ASSUME NEW js, DOMAIN js = JobNames, NEW k \in Nat, JobOf("play", js["play"], k), js["play"] = job["play"],
         job' = Spawned(js)
  PROVE  /\ DOMAIN job' = JobNames /\ \A n \in JobNames \ {"play"} : job'[n] = js[n]
         /\ job'["play"] = job["play"] \/ (JobOf("play", job'["play"], k) /\ Elsewhere("play"))
<1>1. "play" \in JobNames
  BY SwitchRoles
<1>2. DOMAIN job' = JobNames /\ \A n \in JobNames \ {"play"} : job'[n] = js[n]
  BY <1>1 DEF Spawned
<1>3. CASE js["play"].pc # "free"
  BY <1>3 DEF Spawned
<1>4. CASE js["play"].pc = "free"
  <2>1. job'["play"] = [job["play"] EXCEPT !.pc = "spawned"]
    BY <1>1, <1>4 DEF Spawned
  <2>2. JobOf("play", job'["play"], k) /\ job'["play"].pc = "spawned"
    BY <1>4, <2>1, SwitchRoles DEF JobOf, Stage
  <2>3. job["play"].pc = "free"
    BY <1>4
  <2>4. ~Releasing("play") /\ ~Attaching("play")'
    BY <2>2, <2>3 DEF Releasing, At, Attaching
  <2>5. Elsewhere("play")
    BY <2>2, <2>3, SwitchRoles DEF Elsewhere, At, Attaching, Releasing
  <2> QED
    BY <1>2, <2>2, <2>5
<1> QED
  BY <1>2, <1>3, <1>4

LEMMA Parts ==
  ASSUME SwitchInv
  PROVE  /\ JobsTyped /\ HeldTyped /\ OutputsTyped /\ OneAttaches /\ NoneLeft /\ OnlySelected /\ WayBack
         /\ DOMAIN job = JobNames /\ Len(ots) \in Nat /\ ots \in Seq(Contexts) /\ serial \in Seq(JobNames)
         /\ held \in [on : BOOLEAN, ot : 0 .. Len(ots)]
         /\ \A n \in JobNames : JobOf(n, job[n], Len(ots))
BY DEF SwitchInv, SwitchShape, HeldTyped, JobsTyped

\* The rest of the invariant where the lock is left alone and the hold stays.
LEMMA MovedStep ==
  ASSUME SwitchInv, DOMAIN job' = JobNames, ots' \in Seq(Contexts), Len(ots') \in Nat, Len(ots) <= Len(ots'),
         held' \in [on : BOOLEAN, ot : 0 .. Len(ots')],
         \A n \in JobNames : job'[n] = job[n] \/ (JobOf(n, job'[n], Len(ots')) /\ (SameAttach(n) \/ Elsewhere(n))),
         DOMAIN router' = DOMAIN router, router'.active \in Backends, router'.pending \in Backends \cup {None},
         Effective' = Effective, \A b : Kept(b) => Kept(b)' \/ Leaving(b)', truth' = truth, sel' = sel,
         be' \in [Backends -> [conn : Devices, dev : Devices, playing : BOOLEAN]],
         \A b \in Backends : be'[b].conn = be[b].conn,
         \/ serial' = serial
         \/ \E n \in JobNames : serial' = Append(serial, n)
         \/ \E m \in JobNames : Holds(m) /\ serial' = Tail(serial) /\ ~Attaching(m)',
         WayBack'
  PROVE  SwitchInv'
<1>1. JobsTyped' /\ NoneLeft' /\ OnlySelected'
  BY AsideJobs
<1>2. \A n \in JobNames : Attaching(n)' => Attaching(n)
  BY SameStage DEF Elsewhere, Attaching
<1>3. OneAttaches' /\ serial' \in Seq(JobNames)
  <2>1. OneAttaches /\ serial \in Seq(JobNames)
    BY Parts
  <2>2. CASE \E m \in JobNames : Holds(m) /\ serial' = Tail(serial) /\ ~Attaching(m)'
    BY <1>2, <2>1, <2>2, LockGiven
  <2>3. CASE serial' = serial \/ \E n \in JobNames : serial' = Append(serial, n)
    BY <1>2, <2>1, <2>3, LockStays
  <2> QED
    BY <2>2, <2>3
<1>4. HeldTyped'
  BY <1>3 DEF HeldTyped
<1>5. OutputsTyped'
  BY Parts DEF OutputsTyped
<1> QED
  BY <1>1, <1>3, <1>4, <1>5 DEF SwitchInv, SwitchShape

LEMMA AsideStep ==
  ASSUME SwitchInv, DOMAIN job' = JobNames, ots' \in Seq(Contexts), Len(ots') \in Nat, Len(ots) <= Len(ots'),
         held' \in [on : BOOLEAN, ot : 0 .. Len(ots')],
         \A n \in JobNames : job'[n] = job[n] \/ (JobOf(n, job'[n], Len(ots')) /\ (SameAttach(n) \/ Elsewhere(n))),
         DOMAIN router' = DOMAIN router,
         router'.active = router.active, router'.pending = router.pending, truth' = truth, sel' = sel,
         be' \in [Backends -> [conn : Devices, dev : Devices, playing : BOOLEAN]],
         \A b \in Backends : be'[b].conn = be[b].conn,
         \/ serial' = serial
         \/ \E n \in JobNames : serial' = Append(serial, n)
         \/ \E m \in JobNames : Holds(m) /\ serial' = Tail(serial) /\ ~Attaching(m)',
         WayBack'
  PROVE  SwitchInv'
<1>1. Effective' = Effective /\ \A b : Kept(b) => Kept(b)'
  BY DEF Effective, Kept
<1>2. router'.active \in Backends /\ router'.pending \in Backends \cup {None}
  BY Parts DEF OutputsTyped
<1> QED
  BY <1>1, <1>2, MovedStep

LEMMA AsideTo ==
  ASSUME NEW n, job'[n].pc \notin {"seeding", "connecting", "adopted"}, job[n].pc \notin {"stopping", "swapping"},
         n \in Retirers => job[n].pc # "spawned", n \in Appliers => job[n].pc # "adopted"
  PROVE  Elsewhere(n)
BY DEF Elsewhere, Attaching, Releasing, At

LEMMA OneAside ==
  ASSUME SwitchInv, NEW n \in JobNames, NEW j, job' = [job EXCEPT ![n] = j],
         JobOf(n, j, Len(ots')), j.pc \notin {"seeding", "connecting", "adopted"},
         job[n].pc \notin {"stopping", "swapping"},
         n \in Retirers => job[n].pc # "spawned", n \in Appliers => job[n].pc # "adopted"
  PROVE  /\ DOMAIN job' = JobNames /\ job'[n] = j /\ \A m \in JobNames \ {n} : job'[m] = job[m]
         /\ \A m \in JobNames :
              job'[m] = job[m] \/ (JobOf(m, job'[m], Len(ots')) /\ (SameAttach(m) \/ Elsewhere(m)))
<1>1. DOMAIN job' = JobNames /\ job'[n] = j /\ \A m \in JobNames \ {n} : job'[m] = job[m]
  BY Parts
<1>2. Elsewhere(n)
  BY <1>1, AsideTo
<1> QED
  BY <1>1, <1>2

LEMMA PlayingSet ==
  ASSUME OutputsTyped, NEW b \in Backends, NEW p \in BOOLEAN, be' = [be EXCEPT ![b].playing = p]
  PROVE  /\ be' \in [Backends -> [conn : Devices, dev : Devices, playing : BOOLEAN]]
         /\ \A x \in Backends : be'[x].conn = be[x].conn
BY DEF OutputsTyped

-----------------------------------------------------------------------------
(* One lemma per operation. *)

LEMMA AddsKeeps ==
  ASSUME SwitchInv, Adds
  PROVE  SwitchInv'
<1>0. JobsTyped /\ DOMAIN job = JobNames /\ WayBack /\ HeldTyped /\ OutputsTyped /\ Len(ots) \in Nat
      /\ JobOf("play", job["play"], Len(ots))
  BY Parts, SwitchRoles
<1>1. DOMAIN job' = JobNames /\ \A n \in JobNames : job'[n] = job[n] \/
        (n = "play" /\ JobOf(n, job'[n], Len(ots')) /\ Elsewhere(n))
  <2>1. CASE job' = job
    BY <1>0, <2>1
  <2>2. CASE job' = Spawned(job)
    BY <1>0, <2>2, SpawnedJobs DEF Adds
  <2> QED
    BY <2>1, <2>2 DEF Adds
<1>2. WayBack'
  <2>1. \A n \in Appliers \cup {"holder"} : job'[n] = job[n]
    BY <1>1, SwitchRoles
  <2> QED
    BY <1>0, <2>1, HoldStays, PledgedStays DEF Adds, At
<1> QED
  BY <1>0, <1>1, <1>2, AsideStep, Parts DEF Adds, OutputsTyped, HeldTyped

LEMMA TrackEndsKeeps ==
  ASSUME SwitchInv, TrackEnds
  PROVE  SwitchInv'
<1>0. JobsTyped /\ DOMAIN job = JobNames /\ WayBack /\ HeldTyped /\ OutputsTyped /\ Len(ots) \in Nat
      /\ JobOf("play", job["play"], Len(ots))
  BY Parts, SwitchRoles
<1>1. DOMAIN job' = JobNames /\ \A n \in JobNames : job'[n] = job[n] \/
        (n = "play" /\ JobOf(n, job'[n], Len(ots')) /\ Elsewhere(n))
  BY <1>0, SpawnedJobs DEF TrackEnds
<1>2. WayBack'
  <2>1. \A n \in Appliers \cup {"holder"} : job'[n] = job[n]
    BY <1>1, SwitchRoles
  <2> QED
    BY <1>0, <2>1, HoldStays, PledgedStays DEF TrackEnds, At
<1>3. /\ be' \in [Backends -> [conn : Devices, dev : Devices, playing : BOOLEAN]]
      /\ \A x \in Backends : be'[x].conn = be[x].conn
  BY <1>0, PlayingSet DEF TrackEnds, OutputsTyped
<1> QED
  BY <1>0, <1>1, <1>2, <1>3, AsideStep, Parts DEF TrackEnds

LEMMA DeviceLostKeeps ==
  ASSUME SwitchInv, OutputLost
  PROVE  SwitchInv'
<1>0. JobsTyped /\ DOMAIN job = JobNames /\ WayBack /\ HeldTyped /\ OutputsTyped /\ Len(ots) \in Nat
      /\ "holder" \in JobNames /\ router.active \in Backends
  BY Parts, SwitchRoles DEF OutputsTyped
<1> DEFINE j == [NoJob EXCEPT !.pc = "holding", !.b = router.active]
<1>1. job' = [job EXCEPT !["holder"] = j] /\ job["holder"].pc = "free"
  BY DEF OutputLost, At
<1>2. JobOf("holder", j, Len(ots')) /\ j.pc = "holding"
  BY <1>0, SwitchRoles DEF JobOf, NoJob, Stage, OutputLost
<1> HIDE DEF j
<1>3. /\ DOMAIN job' = JobNames /\ job'["holder"] = j
      /\ \A m \in JobNames :
           job'[m] = job[m] \/ (JobOf(m, job'[m], Len(ots')) /\ (SameAttach(m) \/ Elsewhere(m)))
  BY <1>0, <1>1, <1>2, OneAside
<1>4. WayBack'
  BY <1>2, <1>3 DEF WayBack, At
<1>5. /\ be' \in [Backends -> [conn : Devices, dev : Devices, playing : BOOLEAN]]
      /\ \A x \in Backends : be'[x].conn = be[x].conn
  BY <1>0, PlayingSet DEF OutputLost
<1>6. held' \in [on : BOOLEAN, ot : 0 .. Len(ots')]
  BY Parts DEF OutputLost
<1> QED
  BY <1>0, <1>3, <1>4, <1>5, <1>6, AsideStep, Parts DEF OutputLost

LEMMA OutageBegun ==
  ASSUME HeldTyped, NEW b \in Backends, NEW d \in Devices, BeginOutage(b, d)
  PROVE  /\ ots' \in Seq(Contexts) /\ Len(ots') = Len(ots) + 1 /\ Len(ots) \in Nat
         /\ held' \in [on : BOOLEAN, ot : 0 .. Len(ots')]
         /\ WayBack'
<1>1. held.ot \in 0 .. Len(ots) /\ ots \in Seq(Contexts) /\ Len(ots) \in Nat
  BY DEF HeldTyped
<1>2. ots' \in Seq(Contexts) /\ Len(ots') = Len(ots) + 1
  BY <1>1, OpenedContexts DEF BeginOutage
<1>3. held' \in [on : BOOLEAN, ot : 0 .. Len(ots')] /\ held'.ot = Len(ots) + 1
  BY <1>1, <1>2 DEF BeginOutage, HeldTyped
<1>4. LET c == ots'[Len(ots) + 1] IN ~c.retired /\ (c.armed \/ ~Reconnectable(c.b, c.d))
  BY <1>1, OpenedContexts DEF BeginOutage
<1>5. Ready(held.ot)'
  BY <1>1, <1>3, <1>4 DEF Ready
<1> QED
  BY <1>1, <1>2, <1>3, <1>5 DEF WayBack

LEMMA HoldOpensKeeps ==
  ASSUME SwitchInv, HoldBegins
  PROVE  SwitchInv'
<1>0. JobsTyped /\ DOMAIN job = JobNames /\ HeldTyped /\ OutputsTyped /\ Len(ots) \in Nat /\ "holder" \in JobNames
  BY Parts, SwitchRoles
<1> DEFINE b == job["holder"].b
<1>1. job' = [job EXCEPT !["holder"] = NoJob] /\ job["holder"].pc = "holding" /\ BeginOutage(b, be[b].dev)
  BY DEF HoldBegins, At, JobEnds
<1>2. b \in Backends /\ be[b].dev \in Devices
  BY <1>0, <1>1, SwitchRoles DEF JobsTyped, JobOf, OutputsTyped
<1> HIDE DEF b
<1>3. /\ ots' \in Seq(Contexts) /\ Len(ots') = Len(ots) + 1
      /\ held' \in [on : BOOLEAN, ot : 0 .. Len(ots')] /\ WayBack'
  BY <1>0, <1>1, <1>2, OutageBegun
<1>4. JobOf("holder", NoJob, Len(ots')) /\ NoJob.pc = "free"
  BY <1>0, <1>3, FreeJob
<1>5. /\ DOMAIN job' = JobNames
      /\ \A m \in JobNames :
           job'[m] = job[m] \/ (JobOf(m, job'[m], Len(ots')) /\ (SameAttach(m) \/ Elsewhere(m)))
  BY <1>0, <1>1, <1>4, SwitchRoles, OneAside
<1> QED
  BY <1>0, <1>3, <1>5, AsideStep DEF HoldBegins, OutputsTyped

\* What the steps of an attempt change of the contexts.
SameContexts ==
    /\ ots' \in Seq(Contexts) /\ Len(ots') = Len(ots)
    /\ \A o \in 1 .. Len(ots) :
         /\ ots'[o].retired = ots[o].retired /\ ots'[o].b = ots[o].b /\ ots'[o].d = ots[o].d
         /\ ots[o].armed => ots'[o].armed

LEMMA ContextFields ==
  ASSUME ots \in Seq(Contexts), NEW o \in 1 .. Len(ots), NEW a \in BOOLEAN, NEW r \in BOOLEAN, NEW i \in BOOLEAN,
         ots[o].armed => r,
         ots' = [ots EXCEPT ![o] = [ots[o] EXCEPT !.attached = a, !.armed = r, !.inflight = i]]
  PROVE  SameContexts
<1> DEFINE c == [ots[o] EXCEPT !.attached = a, !.armed = r, !.inflight = i]
<1>1. ots[o] \in Contexts
  BY ContextAt
<1>2. c \in Contexts /\ c.retired = ots[o].retired /\ c.b = ots[o].b /\ c.d = ots[o].d /\ c.armed = r
  BY <1>1 DEF Contexts
<1>3. ots' = [ots EXCEPT ![o] = c]
  OBVIOUS
<1> HIDE DEF c
<1> QED
  BY <1>2, <1>3, ContextSet DEF SameContexts

LEMMA ContextsAlike ==
  ASSUME SwitchInv, ots' = ots
  PROVE  SameContexts
BY Parts DEF SameContexts

\* An attempt that does not attach leaves the rest alone.
LEMMA AttemptEnds ==
  ASSUME SwitchInv, NEW n \in Attempts, NEW j, job' = [job EXCEPT ![n] = j], JobOf(n, j, Len(ots)),
         j.pc \notin {"seeding", "connecting", "adopted"},
         UNCHANGED <<router, be, sel, held, truth>>, SameContexts,
         \/ serial' = serial
         \/ \E m \in JobNames : serial' = Append(serial, m)
         \/ Holds(n) /\ serial' = Tail(serial)
  PROVE  SwitchInv'
<1>0. /\ DOMAIN job = JobNames /\ WayBack /\ HeldTyped /\ OutputsTyped /\ Len(ots) \in Nat /\ n \in JobNames
      /\ JobOf(n, job[n], Len(ots)) /\ ots' \in Seq(Contexts) /\ held' \in [on : BOOLEAN, ot : 0 .. Len(ots')]
      /\ Len(ots') = Len(ots)
  BY Parts, SwitchRoles DEF SameContexts
<1>1. n \notin Retirers /\ n \notin Appliers /\ job[n].pc \notin {"stopping", "swapping"} /\ n # "holder"
  BY <1>0, SwitchRoles DEF JobOf, Stage
<1>2. /\ DOMAIN job' = JobNames /\ job'[n] = j /\ \A m \in JobNames \ {n} : job'[m] = job[m]
      /\ \A m \in JobNames :
           job'[m] = job[m] \/ (JobOf(m, job'[m], Len(ots')) /\ (SameAttach(m) \/ Elsewhere(m)))
  BY <1>0, <1>1, OneAside
<1>3. ~Attaching(n)'
  BY <1>2 DEF Attaching
<1>4. WayBack'
  <2>1. \A m \in Appliers \cup {"holder"} : job'[m] = job[m]
    BY <1>1, <1>2, SwitchRoles
  <2> QED
    BY <1>0, <2>1, HoldStays, PledgedStays DEF At, SameContexts
<1>5. be' \in [Backends -> [conn : Devices, dev : Devices, playing : BOOLEAN]]
      /\ \A x \in Backends : be'[x].conn = be[x].conn
  BY <1>0 DEF OutputsTyped
<1> QED
  BY <1>0, <1>2, <1>3, <1>4, <1>5, AsideStep

LEMMA Attaches ==
  ASSUME SwitchInv, NEW n \in JobNames, job[n].pc \in {"seeding", "connecting", "adopted"}
  PROVE  Holds(n)
BY Parts DEF OneAttaches, Attaching

LEMMA IdleAttemptsKeeps ==
  ASSUME SwitchInv, IdleAttempts
  PROVE  SwitchInv'
<1> DEFINE j == [NoJob EXCEPT !.pc = "queued", !.b = sel[1], !.d = sel[2]]
<1>1. "idle" \in Attempts /\ "idle" \notin Loops /\ Len(ots) \in Nat /\ "idle" \in JobNames
  BY Parts, SwitchRoles DEF Attempts, Loops
<1>2. sel[1] \in Backends /\ sel[2] \in Devices
  BY Parts DEF OutputsTyped
<1>3. JobOf("idle", j, Len(ots)) /\ j.pc = "queued"
  BY <1>1, <1>2, SwitchRoles DEF JobOf, NoJob, Stage
<1>4. job' = [job EXCEPT !["idle"] = j] /\ serial' = Append(serial, "idle")
      /\ UNCHANGED <<router, be, sel, held, ots, truth>>
  BY DEF IdleAttempts, Queues
<1> HIDE DEF j
<1> QED
  BY <1>1, <1>3, <1>4, AttemptEnds, ContextsAlike

LEMMA IdleSettlesKeeps ==
  ASSUME SwitchInv, IdleSettles
  PROVE  SwitchInv'
<1>1. "idle" \in Attempts /\ "idle" \in JobNames /\ Len(ots) \in Nat
  BY Parts, SwitchRoles DEF Attempts
<1>2. Holds("idle")
  BY <1>1, Attaches DEF IdleSettles, At
<1>3. job' = [job EXCEPT !["idle"] = NoJob] /\ JobOf("idle", NoJob, Len(ots)) /\ NoJob.pc = "free"
  BY <1>1, FreeJob DEF IdleSettles, JobEnds
<1> QED
  BY <1>1, <1>2, <1>3, AttemptEnds, ContextsAlike DEF IdleSettles

LEMMA BootSettlesKeeps ==
  ASSUME SwitchInv, BootSettles
  PROVE  SwitchInv'
<1>1. "boot" \in Attempts /\ "boot" \notin Loops /\ "boot" \in JobNames /\ Len(ots) \in Nat
      /\ JobOf("boot", job["boot"], Len(ots))
  BY Parts, SwitchRoles DEF Attempts, Loops
<1>2. UNCHANGED <<router, be, sel, held, ots, truth>>
  BY DEF BootSettles
<1>3. ASSUME NEW pc \in {"discovering", "queued"}, NEW w, ~At("boot", "free")
      PROVE  JobOf("boot", [job["boot"] EXCEPT !.pc = pc, !.was = w], Len(ots))
             /\ JobOf("boot", [job["boot"] EXCEPT !.pc = pc], Len(ots))
  BY <1>1, <1>3, SwitchRoles DEF JobOf, Stage, At
<1>4. CASE serial' = Tail(serial) /\ job' = JobEnds("boot") /\ Holds("boot")
  <2>1. job' = [job EXCEPT !["boot"] = NoJob] /\ JobOf("boot", NoJob, Len(ots)) /\ NoJob.pc = "free"
    BY <1>1, <1>4, FreeJob DEF JobEnds
  <2> QED
    BY <1>1, <1>2, <1>4, <2>1, AttemptEnds, ContextsAlike
<1>5. CASE /\ At("boot", "connecting") /\ serial' = Tail(serial)
           /\ job' = [job EXCEPT !["boot"].pc = "discovering", !["boot"].was = TRUE]
  <2> DEFINE j == [job["boot"] EXCEPT !.pc = "discovering", !.was = TRUE]
  <2>1. JobOf("boot", j, Len(ots)) /\ j.pc = "discovering"
    BY <1>1, <1>3, <1>5 DEF At, JobOf
  <2>2. job' = [job EXCEPT !["boot"] = j] /\ Holds("boot")
    BY <1>1, <1>5, Attaches DEF At
  <2> HIDE DEF j
  <2> QED
    BY <1>1, <1>2, <1>5, <2>1, <2>2, AttemptEnds, ContextsAlike
<1>6. CASE At("boot", "discovering") /\ Queues("boot") /\ job' = JobGoes("boot", "queued")
  <2> DEFINE j == [job["boot"] EXCEPT !.pc = "queued"]
  <2>1. JobOf("boot", j, Len(ots)) /\ j.pc = "queued"
    BY <1>1, <1>3, <1>6 DEF At, JobOf
  <2>2. job' = [job EXCEPT !["boot"] = j] /\ serial' = Append(serial, "boot")
    BY <1>1, <1>6 DEF JobGoes, Queues
  <2> HIDE DEF j
  <2> QED
    BY <1>1, <1>2, <2>1, <2>2, AttemptEnds, ContextsAlike
<1> QED
  BY <1>1, <1>4, <1>5, <1>6, Attaches DEF BootSettles, At

LEMMA LoopStartsKeeps ==
  ASSUME SwitchInv, NEW n \in Loops, NEW trigger, LoopStarts(n, trigger)
  PROVE  SwitchInv'
<1> DEFINE o == held.ot
           j(pc) == [NoJob EXCEPT !.pc = pc, !.b = ots[o].b, !.d = ots[o].d, !.ot = o]
<1>1. n \in Attempts /\ n \in JobNames /\ Len(ots) \in Nat /\ o \in 1 .. Len(ots) /\ ots \in Seq(Contexts)
  BY Parts, SwitchRoles DEF LoopStarts
<1>2. ots[o] \in Contexts
  BY <1>1, ContextAt
<1>3. ASSUME NEW pc \in {"queued", "reached", "missed"} PROVE JobOf(n, j(pc), Len(ots)) /\ j(pc).pc = pc
  BY <1>1, <1>2, <1>3, SwitchRoles DEF JobOf, Stage, NoJob, Contexts
<1>4. SameContexts
  <2>1. ots' = [ots EXCEPT ![o].inflight = TRUE]
    BY DEF LoopStarts
  <2>2. ots' = [ots EXCEPT ![o] = [ots[o] EXCEPT !.attached = ots[o].attached, !.armed = ots[o].armed,
                                                 !.inflight = TRUE]]
    BY <1>2, <2>1 DEF Contexts
  <2> HIDE DEF o
  <2> QED
    BY <1>1, <1>2, <2>2, ContextFields DEF Contexts
<1>5. \E pc \in {"queued", "reached", "missed"} : job' = [job EXCEPT ![n] = j(pc)]
  <2>1. DOMAIN job = JobNames
    BY Parts
  <2>2. \/ job' = [job EXCEPT ![n] = j("queued")]
        \/ \E pc \in {"reached", "missed"} : job' = [[job EXCEPT ![n] = j("queued")] EXCEPT ![n].pc = pc]
    BY DEF LoopStarts
  <2>3. \A pc : [[job EXCEPT ![n] = j("queued")] EXCEPT ![n].pc = pc] = [job EXCEPT ![n] = j(pc)]
    <3> TAKE pc
    <3> DEFINE k == j("queued")
    <3>1. [k EXCEPT !.pc = pc] = j(pc)
      BY DEF NoJob
    <3> HIDE DEF k
    <3>2. [[job EXCEPT ![n] = k] EXCEPT ![n].pc = pc] = [job EXCEPT ![n] = [k EXCEPT !.pc = pc]]
      BY <1>1, <2>1
    <3> HIDE DEF j
    <3> QED
      BY <3>1, <3>2 DEF k
  <2> QED
    BY <2>2, <2>3
<1>6. UNCHANGED <<router, be, sel, held, truth>> /\ (serial' = serial \/ serial' = Append(serial, n))
  BY DEF LoopStarts, Queues
<1>7. PICK pc \in {"queued", "reached", "missed"} : job' = [job EXCEPT ![n] = j(pc)]
  BY <1>5
<1>8. JobOf(n, j(pc), Len(ots)) /\ j(pc).pc = pc
  BY <1>3
<1> HIDE DEF j, o
<1> QED
  BY <1>1, <1>4, <1>6, <1>7, <1>8, AttemptEnds

LEMMA LoopReturnsKeeps ==
  ASSUME SwitchInv, NEW n \in Loops, NEW ok \in BOOLEAN, ~At(n, "free"), LoopReturns(n, ok),
         UNCHANGED <<router, be, sel, held, truth>>,
         serial' = serial \/ (Holds(n) /\ serial' = Tail(serial))
  PROVE  SwitchInv'
<1> DEFINE o == job[n].ot
           stale == ~(~ots[o].retired /\ held.ot = o) \/ job[n].old
<1>1. n \in Attempts /\ n \in JobNames /\ Len(ots) \in Nat /\ ots \in Seq(Contexts) /\ JobOf(n, job[n], Len(ots))
  BY Parts, SwitchRoles
<1>2. o \in 1 .. Len(ots)
  BY <1>1 DEF JobOf, At
<1>3. ots[o] \in Contexts
  BY <1>1, <1>2, ContextAt
<1>4. SameContexts
  <2> DEFINE i == ok /\ ~stale
             a == IF ok /\ ~stale THEN TRUE ELSE ots[o].attached
  <2>1. ots' = [ots EXCEPT ![o].inflight = i, ![o].attached = IF ok /\ ~stale THEN TRUE ELSE @]
    BY DEF LoopReturns
  <2>2. a \in BOOLEAN /\ i \in BOOLEAN /\ ots[o].armed \in BOOLEAN
    BY <1>3 DEF Contexts
  <2>3. ots' = [ots EXCEPT ![o] = [ots[o] EXCEPT !.attached = a, !.armed = ots[o].armed, !.inflight = i]]
    BY <1>1, <1>2, <1>3, <2>1 DEF Contexts
  <2> HIDE DEF i, a, o
  <2> QED
    BY <1>1, <1>2, <2>2, <2>3, ContextFields
<1>5. CASE job' = JobEnds(n)
  <2>1. job' = [job EXCEPT ![n] = NoJob] /\ JobOf(n, NoJob, Len(ots)) /\ NoJob.pc = "free"
    BY <1>1, <1>5, FreeJob DEF JobEnds
  <2> QED
    BY <1>1, <1>4, <2>1, AttemptEnds
<1>6. CASE job' = JobGoes(n, "resume")
  <2> DEFINE j == [job[n] EXCEPT !.pc = "resume"]
  <2>1. JobOf(n, j, Len(ots)) /\ j.pc = "resume"
    BY <1>1, SwitchRoles DEF JobOf, Stage, At
  <2>2. job' = [job EXCEPT ![n] = j]
    BY <1>1, <1>6 DEF JobGoes
  <2> HIDE DEF j
  <2> QED
    BY <1>1, <1>4, <2>1, <2>2, AttemptEnds
<1> QED
  BY <1>5, <1>6 DEF LoopReturns

LEMMA LoopSettlesKeeps ==
  ASSUME SwitchInv, NEW n \in Loops, LoopSettles(n)
  PROVE  SwitchInv'
<1>1. n \in JobNames
  BY SwitchRoles
<1>2. UNCHANGED <<router, be, sel, held, truth>>
  BY DEF LoopSettles
<1>3. \E ok \in BOOLEAN : LoopReturns(n, ok)
  BY DEF LoopSettles
<1>4. ~At(n, "free") /\ (serial' = serial \/ (Holds(n) /\ serial' = Tail(serial)))
  BY <1>1, Attaches DEF LoopSettles, At
<1> QED
  BY <1>2, <1>3, <1>4, LoopReturnsKeeps

LEMMA ApplyFailsKeeps ==
  ASSUME SwitchInv, NEW n \in Appliers, ApplyFails(n)
  PROVE  SwitchInv'
<1>1. /\ n \in JobNames /\ Len(ots) \in Nat /\ JobOf(n, job[n], Len(ots)) /\ HeldTyped /\ OutputsTyped /\ WayBack
      /\ DOMAIN job = JobNames /\ ots \in Seq(Contexts) /\ held \in [on : BOOLEAN, ot : 0 .. Len(ots)]
  BY Parts, SwitchRoles
<1>2. job[n].pc = "connecting" /\ Holds(n) /\ serial' = Tail(serial) /\ job' = [job EXCEPT ![n] = NoJob]
  BY <1>1, Attaches DEF ApplyFails, At, JobEnds
<1>3. n \notin Retirers
  BY SwitchRoles
<1>4. /\ ots' \in Seq(Contexts) /\ Len(ots') \in Nat /\ Len(ots) <= Len(ots')
      /\ held' \in [on : BOOLEAN, ot : 0 .. Len(ots')]
  <2>1. CASE held.on /\ job[n].ot # 0
    <3>1. ots[job[n].ot] \in Contexts
      BY <1>1, <2>1, ContextAt DEF JobOf
    <3>2. BeginOutage(ots[job[n].ot].b, ots[job[n].ot].d)
      BY <2>1 DEF ApplyFails, HandsBack
    <3>3. ots[job[n].ot].b \in Backends /\ ots[job[n].ot].d \in Devices
      BY <3>1 DEF Contexts
    <3> QED
      BY <1>1, <3>2, <3>3, OutageBegun
  <2>2. CASE ~(held.on /\ job[n].ot # 0)
    BY <1>1, <2>2 DEF ApplyFails, HandsBack
  <2> QED
    BY <2>1, <2>2
<1>5. JobOf(n, NoJob, Len(ots')) /\ NoJob.pc = "free"
  BY <1>1, <1>4, FreeJob
<1>6. /\ DOMAIN job' = JobNames /\ job'[n] = NoJob /\ \A m \in JobNames \ {n} : job'[m] = job[m]
      /\ \A m \in JobNames :
           job'[m] = job[m] \/ (JobOf(m, job'[m], Len(ots')) /\ (SameAttach(m) \/ Elsewhere(m)))
  BY <1>1, <1>2, <1>3, <1>5, OneAside
<1>7. ~Attaching(n)'
  BY <1>5, <1>6 DEF Attaching
<1>8. WayBack'
  <2>1. CASE held.on /\ job[n].ot # 0
    <3>1. ots[job[n].ot] \in Contexts
      BY <1>1, <2>1, ContextAt DEF JobOf
    <3>2. BeginOutage(ots[job[n].ot].b, ots[job[n].ot].d)
      BY <2>1 DEF ApplyFails, HandsBack
    <3>3. ots[job[n].ot].b \in Backends /\ ots[job[n].ot].d \in Devices
      BY <3>1 DEF Contexts
    <3> QED
      BY <1>1, <3>2, <3>3, OutageBegun
  <2>2. CASE held.on /\ job[n].ot = 0
    <3>1. UNCHANGED <<held, ots>>
      BY <2>2 DEF ApplyFails, HandsBack
    <3>2. ~Pledged(n)
      BY <1>2, <2>2 DEF Pledged, Switching, At
    <3>3. \A m \in Appliers : Pledged(m) => Pledged(m)'
      BY <1>6, <3>2, SwitchRoles, PledgedStays
    <3>4. At("holder", "holding") => At("holder", "holding")'
      BY <1>6, SwitchRoles DEF At
    <3> QED
      BY <1>1, <3>1, <3>3, <3>4, HoldStays
  <2>3. CASE ~held.on
    <3>1. UNCHANGED <<held, ots>>
      BY <2>3 DEF ApplyFails, HandsBack
    <3> QED
      BY <2>3, <3>1 DEF WayBack
  <2> QED
    BY <2>1, <2>2, <2>3
<1>9. /\ DOMAIN router' = DOMAIN router /\ router'.active = router.active /\ router'.pending = router.pending
      /\ truth' = truth /\ sel' = sel /\ be' = be
  BY <1>1 DEF ApplyFails, OutputsTyped
<1> QED
  BY <1>1, <1>2, <1>4, <1>6, <1>7, <1>8, <1>9, AsideStep DEF OutputsTyped

LEMMA HoldCleared ==
  ASSUME HeldTyped, WayBack, ClearHold
  PROVE  /\ ots' \in Seq(Contexts) /\ Len(ots') = Len(ots) /\ Len(ots) \in Nat
         /\ held' \in [on : BOOLEAN, ot : 0 .. Len(ots')] /\ WayBack'
<1>1. ots \in Seq(Contexts) /\ Len(ots) \in Nat /\ held \in [on : BOOLEAN, ot : 0 .. Len(ots)]
  BY DEF HeldTyped
<1>2. CASE held.on
  <2>1. held.ot \in 0 .. Len(ots) /\ ots' = Retired(ots, held.ot) /\ held' = [held EXCEPT !.on = FALSE, !.ot = 0]
    BY <1>1, <1>2 DEF ClearHold
  <2>4. Retired(ots, held.ot) \in Seq(Contexts) /\ Len(Retired(ots, held.ot)) = Len(ots)
    <3> DEFINE o == held.ot
    <3>1. o \in 0 .. Len(ots)
      BY <2>1
    <3> HIDE DEF o
    <3>2. Retired(ots, o) \in Seq(Contexts) /\ Len(Retired(ots, o)) = Len(ots)
      BY <1>1, <3>1, RetiredContexts
    <3> QED
      BY <3>2 DEF o
  <2>2. ots' \in Seq(Contexts) /\ Len(ots') = Len(ots)
    BY <2>1, <2>4
  <2>3. held' \in [on : BOOLEAN, ot : 0 .. Len(ots')] /\ held'.on = FALSE
    <3>1. held' = [on |-> FALSE, ot |-> 0]
      BY <1>1, <2>1
    <3>2. 0 \in 0 .. Len(ots')
      BY <1>1, <2>2
    <3> QED
      BY <3>1, <3>2
  <2> QED
    BY <1>1, <2>2, <2>3, HoldEnds
<1>3. CASE ~held.on
  BY <1>1, <1>3 DEF ClearHold, WayBack
<1> QED
  BY <1>1, <1>2, <1>3

LEMMA ApplyEndsKeeps ==
  ASSUME SwitchInv, NEW n \in Appliers, ApplyEnds(n)
  PROVE  SwitchInv'
<1>1. /\ n \in JobNames /\ Len(ots) \in Nat /\ HeldTyped /\ OutputsTyped /\ WayBack /\ DOMAIN job = JobNames
      /\ JobOf("play", job["play"], Len(ots)) /\ n # "play" /\ n \notin Retirers /\ "play" \in JobNames
  BY Parts, SwitchRoles
<1>2. /\ ots' \in Seq(Contexts) /\ Len(ots') = Len(ots) /\ Len(ots) \in Nat
      /\ held' \in [on : BOOLEAN, ot : 0 .. Len(ots')] /\ WayBack'
  BY <1>1, HoldCleared DEF ApplyEnds
<1>3. JobOf(n, NoJob, Len(ots')) /\ NoJob.pc = "free"
  BY <1>1, <1>2, FreeJob
<1>4. /\ DOMAIN JobEnds(n) = JobNames /\ JobEnds(n)[n] = NoJob
      /\ \A m \in JobNames \ {n} : JobEnds(n)[m] = job[m]
  BY <1>1 DEF JobEnds
<1>5. /\ DOMAIN job' = JobNames /\ job'[n] = NoJob /\ \A m \in JobNames \ {n, "play"} : job'[m] = job[m]
      /\ job'["play"] = job["play"] \/ (JobOf("play", job'["play"], Len(ots')) /\ Elsewhere("play"))
  <2>1. CASE job' = JobEnds(n)
    BY <1>1, <1>4, <2>1
  <2>2. CASE job' = Spawned(JobEnds(n))
    BY <1>1, <1>2, <1>4, <2>2, SpawnedJobs
  <2> QED
    BY <2>1, <2>2 DEF ApplyEnds
<1>6. Elsewhere(n)
  BY <1>1, <1>3, <1>5, AsideTo DEF ApplyEnds, At
<1>7. \A m \in JobNames : job'[m] = job[m] \/ (JobOf(m, job'[m], Len(ots')) /\ (SameAttach(m) \/ Elsewhere(m)))
  BY <1>3, <1>5, <1>6
<1> QED
  BY <1>1, <1>2, <1>5, <1>7, AsideStep DEF ApplyEnds, OutputsTyped

LEMMA RetireDecidesKeeps ==
  ASSUME SwitchInv, NEW r \in Retirers, RetireDecides(r)
  PROVE  SwitchInv'
<1> DEFINE j == [job[r] EXCEPT !.pc = "stopping"]
<1>1. /\ r \in JobNames /\ Len(ots) \in Nat /\ HeldTyped /\ OutputsTyped /\ WayBack /\ DOMAIN job = JobNames
      /\ JobOf(r, job[r], Len(ots)) /\ ots \in Seq(Contexts) /\ held \in [on : BOOLEAN, ot : 0 .. Len(ots)]
  BY Parts, SwitchRoles
<1>2. job[r].pc = "spawned" /\ job' = [job EXCEPT ![r] = j]
  BY <1>1 DEF RetireDecides, JobGoes, At
<1>3. JobOf(r, j, Len(ots)) /\ j.pc = "stopping" /\ j.b = job[r].b /\ j.beaten = job[r].beaten
  BY <1>1, <1>2, SwitchRoles DEF JobOf, Stage
<1> HIDE DEF j
<1>4. DOMAIN job' = JobNames /\ job'[r] = j /\ \A m \in JobNames \ {r} : job'[m] = job[m]
  BY <1>1, <1>2
<1>5. Elsewhere(r)
  BY <1>3, <1>4, SwitchRoles DEF Elsewhere, Attaching, Releasing, At
<1>6. WayBack'
  <2>1. \A m \in Appliers \cup {"holder"} : job'[m] = job[m]
    BY <1>4, SwitchRoles
  <2> QED
    BY <1>1, <2>1, HoldStays, PledgedStays DEF RetireDecides, At
<1> QED
  BY <1>1, <1>3, <1>4, <1>5, <1>6, AsideStep DEF RetireDecides, OutputsTyped

LEMMA PlaysKeeps ==
  ASSUME SwitchInv, Plays
  PROVE  SwitchInv'
<1>1. /\ "play" \in JobNames /\ Len(ots) \in Nat /\ HeldTyped /\ OutputsTyped /\ WayBack /\ DOMAIN job = JobNames
      /\ ots \in Seq(Contexts) /\ held \in [on : BOOLEAN, ot : 0 .. Len(ots)] /\ "play" \notin Retirers \cup Appliers
  BY Parts, SwitchRoles
<1>2. job["play"].pc = "dispatch" /\ job' = [job EXCEPT !["play"] = NoJob]
  BY DEF Plays, At, JobEnds
<1>3. JobOf("play", NoJob, Len(ots)) /\ NoJob.pc = "free"
  BY <1>1, FreeJob
<1>4. /\ ots' \in Seq(Contexts) /\ Len(ots') = Len(ots) /\ held' \in [on : BOOLEAN, ot : 0 .. Len(ots')]
      /\ (job["play"].ot # 0 => WayBack')
  BY <1>1, HoldCleared DEF Plays
<1>5. /\ DOMAIN job' = JobNames /\ \A m \in JobNames \ {"play"} : job'[m] = job[m]
      /\ \A m \in JobNames :
           job'[m] = job[m] \/ (JobOf(m, job'[m], Len(ots')) /\ (SameAttach(m) \/ Elsewhere(m)))
  BY <1>1, <1>2, <1>3, <1>4, OneAside
<1>6. WayBack'
  <2>1. \A m \in Appliers \cup {"holder"} : job'[m] = job[m]
    BY <1>5, SwitchRoles
  <2>2. CASE job["play"].ot = 0
    BY <1>1, <2>1, <2>2, HoldStays, PledgedStays DEF Plays, At
  <2> QED
    BY <1>4, <2>2
<1>7. /\ be' \in [Backends -> [conn : Devices, dev : Devices, playing : BOOLEAN]]
      /\ \A x \in Backends : be'[x].conn = be[x].conn
  BY <1>1, PlayingSet DEF Plays, OutputsTyped
<1> QED
  BY <1>1, <1>4, <1>5, <1>6, <1>7, AsideStep DEF Plays

LEMMA PlayRaisesKeeps ==
  ASSUME SwitchInv, PlayMisses
  PROVE  SwitchInv'
<1> DEFINE o == job["play"].ot
           j == [NoJob EXCEPT !.pc = "holding", !.b = router.active]
<1>1. /\ "play" \in JobNames /\ "holder" \in JobNames /\ Len(ots) \in Nat /\ HeldTyped /\ OutputsTyped /\ WayBack
      /\ DOMAIN job = JobNames /\ ots \in Seq(Contexts) /\ held \in [on : BOOLEAN, ot : 0 .. Len(ots)]
      /\ "play" \notin Retirers \cup Appliers /\ "holder" \notin Retirers \cup Appliers
      /\ o \in 0 .. Len(ots) /\ router.active \in Backends
  BY Parts, SwitchRoles DEF JobOf, OutputsTyped
<1>2. job["play"].pc = "dispatch" /\ UNCHANGED <<router, be, serial, sel, truth>>
  BY DEF PlayMisses, At
<1>3. JobOf("play", NoJob, Len(ots)) /\ NoJob.pc = "free" /\ JobOf("holder", j, Len(ots)) /\ j.pc = "holding"
  BY <1>1, FreeJob, SwitchRoles DEF JobOf, NoJob, Stage
<1>4. ASSUME ots' \in Seq(Contexts), Len(ots') = Len(ots), held' \in [on : BOOLEAN, ot : 0 .. Len(ots')],
             DOMAIN job' = JobNames, job'["play"] = NoJob,
             \A m \in JobNames \ {"play"} : job'[m] = job[m] \/
                (m = "holder" /\ job[m].pc = "free" /\ JobOf(m, job'[m], Len(ots)) /\ job'[m].pc = "holding"),
             WayBack'
      PROVE  SwitchInv'
  <2>1. Elsewhere("play") /\ JobOf("play", job'["play"], Len(ots'))
    BY <1>1, <1>2, <1>3, <1>4, AsideTo
  <2>2. ASSUME job'["holder"] # job["holder"]
        PROVE  Elsewhere("holder") /\ JobOf("holder", job'["holder"], Len(ots'))
    <3>1. job["holder"].pc = "free" /\ job'["holder"].pc = "holding" /\ JobOf("holder", job'["holder"], Len(ots))
      BY <1>1, <1>4, <2>2
    <3> QED
      BY <1>1, <1>4, <3>1, AsideTo
  <2>3. \A m \in JobNames : job'[m] = job[m] \/ (JobOf(m, job'[m], Len(ots')) /\ (SameAttach(m) \/ Elsewhere(m)))
    BY <1>4, <2>1, <2>2
  <2> QED
    BY <1>1, <1>2, <1>4, <2>3, AsideStep DEF OutputsTyped
<1>5. CASE o = 0
  <2>1. held' = [held EXCEPT !.on = TRUE] /\ ots' = ots
    BY <1>5 DEF PlayMisses
  <2>2. CASE held.on
    <3>1. job' = [job EXCEPT !["play"] = NoJob]
      BY <1>5, <2>2 DEF PlayMisses, JobEnds
    <3>2. held' = held
      BY <1>1, <2>1, <2>2
    <3>3. \A m \in JobNames \ {"play"} : job'[m] = job[m]
      BY <1>1, <3>1
    <3>4. \A m \in Appliers \cup {"holder"} : job'[m] = job[m]
      BY <3>3, SwitchRoles
    <3>5. WayBack'
      BY <1>1, <2>1, <3>2, <3>4, HoldStays, PledgedStays DEF At
    <3> QED
      BY <1>1, <1>4, <2>1, <3>1, <3>2, <3>3, <3>5
  <2>3. CASE ~held.on
    <3>1. job["holder"].pc = "free" /\ job' = [[job EXCEPT !["play"] = NoJob] EXCEPT !["holder"] = j]
      BY <1>5, <2>3 DEF PlayMisses, JobEnds, At
    <3> HIDE DEF j
    <3>2. /\ job'["play"] = NoJob /\ job'["holder"] = j /\ DOMAIN job' = JobNames
          /\ \A m \in JobNames \ {"play", "holder"} : job'[m] = job[m]
      BY <1>1, <3>1
    <3>3. WayBack'
      BY <1>3, <3>2 DEF WayBack, At
    <3>4. held' \in [on : BOOLEAN, ot : 0 .. Len(ots')]
      BY <1>1, <2>1
    <3> QED
      BY <1>1, <1>3, <1>4, <2>1, <3>1, <3>2, <3>3, <3>4
  <2> QED
    BY <2>2, <2>3
<1>6. CASE o # 0
  <2>1. held' = held /\ ots' = Rearmed(o) /\ job' = [job EXCEPT !["play"] = NoJob]
    BY <1>6 DEF PlayMisses, JobEnds
  <2>2. o \in 1 .. Len(ots)
    BY <1>1, <1>6
  <2>3. ots[o] \in Contexts
    BY <1>1, <2>2, ContextAt
  <2>4. ots' = [ots EXCEPT ![o] = [ots[o] EXCEPT !.attached = FALSE, !.armed = TRUE, !.inflight = ots[o].inflight]]
    BY <1>1, <2>1, <2>2, <2>3 DEF Rearmed, Contexts
  <2>5. SameContexts
    BY <1>1, <2>2, <2>3, <2>4, ContextFields DEF Contexts
  <2>6. \A m \in JobNames \ {"play"} : job'[m] = job[m]
    BY <1>1, <2>1
  <2>7. \A m \in Appliers \cup {"holder"} : job'[m] = job[m]
    BY <2>6, SwitchRoles
  <2>8. WayBack'
    BY <1>1, <2>1, <2>5, <2>7, HoldStays, PledgedStays DEF At, SameContexts
  <2> QED
    BY <1>1, <1>4, <2>1, <2>5, <2>6, <2>8 DEF SameContexts
<1> QED
  BY <1>5, <1>6

-----------------------------------------------------------------------------
(* The play commits a deferred switch, and the output it leaves is let go. *)

LEMMA DispatchingKeeps ==
  ASSUME SwitchInv, NEW js, NEW o, DOMAIN js = JobNames, Dispatching(js, o), o \in 0 .. Len(ots'), None \notin Backends,
         ots' \in Seq(Contexts), Len(ots') \in Nat, Len(ots) <= Len(ots'), held' \in [on : BOOLEAN, ot : 0 .. Len(ots')],
         job["play"].pc \in {"free", "spawned"},
         \A m \in JobNames \ {"play"} :
           js[m] = job[m] \/ (m \in Loops /\ job[m].pc = "resume" /\ js[m] = NoJob),
         UNCHANGED <<be, serial, sel, truth>>, WayBack'
  PROVE  SwitchInv'
<1>1. /\ "play" \in JobNames /\ OutputsTyped /\ router.active \in Backends /\ router.pending \in Backends \cup {None}
      /\ "play" \notin Retirers \cup Appliers
  BY Parts, SwitchRoles DEF OutputsTyped
<1>2. DOMAIN job' = JobNames /\ \A m \in JobNames \ {"play"} : job'[m] = js[m]
  BY <1>1 DEF Dispatching
<1>3. /\ job'["play"].pc \in {"dispatch", "swapping"} /\ JobOf("play", job'["play"], Len(ots'))
      /\ router.pending # None => job'["play"].pc = "swapping" /\ job'["play"].b = router.active /\ ~job'["play"].beaten
  <2>1. CASE router.pending = None
    <3>1. job'["play"] = [NoJob EXCEPT !.pc = "dispatch", !.ot = o]
      BY <1>1, <2>1 DEF Dispatching
    <3> QED
      BY <2>1, <3>1, SwitchRoles DEF NoJob, JobOf, Stage
  <2>2. CASE router.pending # None
    <3>1. job'["play"] = [NoJob EXCEPT !.pc = "swapping", !.ot = o, !.b = router.active]
      BY <1>1, <2>2 DEF Dispatching
    <3> QED
      BY <1>1, <3>1, SwitchRoles DEF NoJob, JobOf, Stage
  <2> QED
    BY <2>1, <2>2
<1>4. Elsewhere("play")
  BY <1>1, <1>3, AsideTo
<1>5. ASSUME NEW m \in JobNames \ {"play"}
      PROVE  job'[m] = job[m] \/ (JobOf(m, job'[m], Len(ots')) /\ Elsewhere(m))
  <2>1. CASE js[m] = job[m]
    BY <1>2, <2>1
  <2>2. CASE m \in Loops /\ job[m].pc = "resume" /\ js[m] = NoJob
    BY <1>2, <2>2, FreeJob, AsideTo, SwitchRoles
  <2> QED
    BY <2>1, <2>2
<1>6. /\ DOMAIN router' = DOMAIN router /\ router'.active \in Backends /\ router'.pending \in Backends \cup {None}
      /\ Effective' = Effective
      /\ router.pending = None => router' = router
      /\ router.pending # None => router'.active = router.pending
  BY <1>1 DEF Dispatching, Effective, OutputsTyped
<1>7. ASSUME NEW b, Kept(b) PROVE Kept(b)' \/ Leaving(b)'
  <2>1. CASE router.pending = None
    BY <1>6, <1>7, <2>1 DEF Kept
  <2>2. CASE router.pending # None /\ b = router.active
    <3>1. Releasing("play")' /\ job'["play"].b = b /\ ~job'["play"].beaten
      BY <1>3, <2>2 DEF Releasing, At
    <3> QED
      BY <1>1, <3>1 DEF Leaving
  <2>3. CASE router.pending # None /\ b # router.active
    BY <1>6, <1>7, <2>3 DEF Kept
  <2> QED
    BY <2>1, <2>2, <2>3
<1>8. \A m \in JobNames : job'[m] = job[m] \/ (JobOf(m, job'[m], Len(ots')) /\ (SameAttach(m) \/ Elsewhere(m)))
  BY <1>3, <1>4, <1>5
<1> QED
  BY <1>1, <1>2, <1>6, <1>7, <1>8, MovedStep DEF OutputsTyped

LEMMA AdvancesKeeps ==
  ASSUME SwitchInv, None \notin Backends, Advances
  PROVE  SwitchInv'
<1>1. /\ "play" \in JobNames /\ Len(ots) \in Nat /\ HeldTyped /\ OutputsTyped /\ WayBack
      /\ DOMAIN job = JobNames /\ ots \in Seq(Contexts) /\ held \in [on : BOOLEAN, ot : 0 .. Len(ots)]
      /\ "play" \notin Retirers \cup Appliers
  BY Parts, SwitchRoles
<1>2. job["play"].pc = "spawned" /\ UNCHANGED <<be, serial, sel, held, ots, truth>>
  BY DEF Advances, At
<1>3. CASE held.on \/ host.left = 0
  <2>1. job' = [job EXCEPT !["play"] = NoJob] /\ router' = router
    BY <1>3 DEF Advances, JobEnds
  <2>2. JobOf("play", NoJob, Len(ots')) /\ NoJob.pc = "free"
    BY <1>1, <1>2, FreeJob
  <2>3. /\ DOMAIN job' = JobNames /\ \A m \in JobNames \ {"play"} : job'[m] = job[m]
        /\ \A m \in JobNames :
             job'[m] = job[m] \/ (JobOf(m, job'[m], Len(ots')) /\ (SameAttach(m) \/ Elsewhere(m)))
    BY <1>1, <1>2, <2>1, <2>2, OneAside
  <2>4. \A m \in Appliers \cup {"holder"} : job'[m] = job[m]
    BY <2>3, SwitchRoles
  <2>5. WayBack'
    BY <1>1, <1>2, <2>4, HoldStays, PledgedStays DEF At
  <2> QED
    BY <1>1, <1>2, <2>1, <2>3, <2>5, AsideStep DEF OutputsTyped
<1>4. CASE ~(held.on \/ host.left = 0)
  <2>1. Dispatching(job, 0)
    BY <1>4 DEF Advances
  <2>2. WayBack'
    BY <1>2, <1>4 DEF WayBack
  <2> QED
    BY <1>1, <1>2, <2>1, <2>2, DispatchingKeeps
<1> QED
  BY <1>3, <1>4

LEMMA ResumesKeeps ==
  ASSUME SwitchInv, None \notin Backends, NEW n \in Loops, Resumes(n)
  PROVE  SwitchInv'
<1> DEFINE o == job[n].ot
           done == [job EXCEPT ![n] = NoJob]
           calm == [ots EXCEPT ![o].inflight = FALSE]
<1>1. /\ n \in JobNames /\ n \in Attempts /\ Len(ots) \in Nat /\ HeldTyped /\ OutputsTyped /\ WayBack
      /\ DOMAIN job = JobNames /\ ots \in Seq(Contexts) /\ held \in [on : BOOLEAN, ot : 0 .. Len(ots)]
      /\ JobOf(n, job[n], Len(ots)) /\ n \notin Retirers \cup Appliers /\ n # "play" /\ n # "holder"
  BY Parts, SwitchRoles
<1>2. job[n].pc = "resume" /\ job["play"].pc = "free" /\ UNCHANGED <<be, serial, sel, truth>>
  BY DEF Resumes, At
<1>3. o \in 1 .. Len(ots)
  BY <1>1, <1>2 DEF JobOf
<1>4. ots[o] \in Contexts
  BY <1>1, <1>3, ContextAt
<1>5. JobOf(n, NoJob, Len(ots)) /\ NoJob.pc = "free"
  BY <1>1, FreeJob
<1>6. ASSUME ots' = calm PROVE SameContexts
  <2>1. ots' = [ots EXCEPT ![o] = [ots[o] EXCEPT !.attached = ots[o].attached, !.armed = ots[o].armed, !.inflight = FALSE]]
    BY <1>1, <1>3, <1>4, <1>6 DEF Contexts
  <2> HIDE DEF o
  <2> QED
    BY <1>1, <1>3, <1>4, <2>1, ContextFields DEF Contexts
<1>7. CASE ~Open(o)
  <2>1. ots' = calm /\ job' = done /\ UNCHANGED <<held, router>>
    BY <1>7 DEF Resumes
  <2> QED
    BY <1>1, <1>2, <1>5, <1>6, <2>1, AttemptEnds
<1>8. CASE Open(o) /\ host.left = 0
  <2>1. held' = [held EXCEPT !.on = FALSE, !.ot = 0] /\ ots' = [Retired(ots, o) EXCEPT ![o].inflight = FALSE]
        /\ job' = done /\ router' = router
    BY <1>8 DEF Resumes
  <2>2. ots' \in Seq(Contexts) /\ Len(ots') = Len(ots)
    <3>1. Retired(ots, o) \in Seq(Contexts) /\ Len(Retired(ots, o)) = Len(ots)
      <4> HIDE DEF o
      <4> QED
        BY <1>1, <1>3, RetiredContexts
    <3>2. Retired(ots, o)[o] \in Contexts
      <4> DEFINE os == Retired(ots, o)
      <4>1. os \in Seq(Contexts) /\ o \in 1 .. Len(os)
        BY <1>3, <3>1
      <4> HIDE DEF os
      <4>2. os[o] \in Contexts
        BY <4>1
      <4> QED
        BY <4>2 DEF os
    <3>3. [Retired(ots, o)[o] EXCEPT !.inflight = FALSE] \in Contexts
      BY <3>2 DEF Contexts
    <3>4. ots' = [Retired(ots, o) EXCEPT ![o] = [Retired(ots, o)[o] EXCEPT !.inflight = FALSE]]
      BY <2>1
    <3> DEFINE os == Retired(ots, o)
               c == [os[o] EXCEPT !.inflight = FALSE]
    <3>5. os \in Seq(Contexts) /\ o \in 1 .. Len(os) /\ c \in Contexts /\ ots' = [os EXCEPT ![o] = c] /\ Len(os) = Len(ots)
      BY <1>3, <3>1, <3>3, <3>4
    <3> HIDE DEF os, c, o
    <3> QED
      BY <3>5, ContextSet
  <2>3. held' \in [on : BOOLEAN, ot : 0 .. Len(ots')] /\ held'.on = FALSE
    <3>1. held' = [on |-> FALSE, ot |-> 0]
      BY <1>1, <2>1
    <3>2. 0 \in 0 .. Len(ots')
      BY <1>1, <2>2
    <3> QED
      BY <3>1, <3>2
  <2>4. WayBack'
    BY <2>3, HoldEnds
  <2>5. JobOf(n, NoJob, Len(ots'))
    BY <1>5, <2>2
  <2>6. /\ DOMAIN job' = JobNames
        /\ \A m \in JobNames :
             job'[m] = job[m] \/ (JobOf(m, job'[m], Len(ots')) /\ (SameAttach(m) \/ Elsewhere(m)))
    BY <1>1, <1>2, <1>5, <2>1, <2>5, OneAside
  <2> QED
    BY <1>1, <1>2, <2>1, <2>2, <2>3, <2>4, <2>6, AsideStep DEF OutputsTyped
<1>9. CASE Open(o) /\ host.left # 0
  <2>1. ots' = calm /\ held' = held /\ Dispatching(done, o)
    BY <1>9 DEF Resumes
  <2>2. SameContexts
    BY <1>6, <2>1
  <2>3. DOMAIN done = JobNames /\ done[n] = NoJob /\ \A m \in JobNames \ {n} : done[m] = job[m]
    BY <1>1
  <2>4. \A m \in Appliers \cup {"holder"} : job'[m] = job[m]
    <3>1. \A m \in JobNames \ {"play"} : job'[m] = done[m]
      BY <2>1, <2>3 DEF Dispatching
    <3> QED
      BY <1>1, <2>3, <3>1, SwitchRoles
  <2>5. WayBack'
    BY <1>1, <2>1, <2>2, <2>4, HoldStays, PledgedStays DEF At, SameContexts
  <2> HIDE DEF done, calm
  <2>6. o \in 0 .. Len(ots')
    BY <1>3, <2>2 DEF SameContexts
  <2>7. \A m \in JobNames \ {"play"} :
          done[m] = job[m] \/ (m \in Loops /\ job[m].pc = "resume" /\ done[m] = NoJob)
    BY <1>2, <2>3
  <2>8. /\ ots' \in Seq(Contexts) /\ Len(ots') \in Nat /\ Len(ots) <= Len(ots')
        /\ held' \in [on : BOOLEAN, ot : 0 .. Len(ots')]
    BY <1>1, <2>1, <2>2 DEF SameContexts
  <2> HIDE DEF o
  <2> QED
    BY <1>2, <2>1, <2>3, <2>5, <2>6, <2>7, <2>8, DispatchingKeeps
<1> QED
  BY <1>7, <1>8, <1>9

-----------------------------------------------------------------------------
(* The attach. *)

LEMMA OneHolder ==
  ASSUME SwitchInv, NEW n, Holds(n), NEW m \in JobNames, Attaching(m)
  PROVE  m = n
BY Parts DEF OneAttaches, Holds

\* A newer attach or a release outdates those of its output.
LEMMA BeatenJobs ==
  ASSUME SwitchInv, NEW b
  PROVE  /\ DOMAIN NewGen(job, b) = JobNames
         /\ \A m \in JobNames :
              /\ JobOf(m, NewGen(job, b)[m], Len(ots)) /\ NewGen(job, b)[m].pc = job[m].pc
              /\ NewGen(job, b)[m].b = job[m].b /\ NewGen(job, b)[m].d = job[m].d
              /\ NewGen(job, b)[m].ot = job[m].ot
              /\ job[m].b # b => NewGen(job, b)[m] = job[m]
              /\ job[m].b = b /\ job[m].pc \in {"connecting", "stopping", "swapping"} => NewGen(job, b)[m].beaten
<1>1. DOMAIN NewGen(job, b) = JobNames
  BY DEF NewGen
<1>2. ASSUME NEW m \in JobNames
      PROVE  /\ JobOf(m, NewGen(job, b)[m], Len(ots)) /\ NewGen(job, b)[m].pc = job[m].pc
             /\ NewGen(job, b)[m].b = job[m].b /\ NewGen(job, b)[m].d = job[m].d
             /\ NewGen(job, b)[m].ot = job[m].ot
             /\ job[m].b # b => NewGen(job, b)[m] = job[m]
             /\ job[m].b = b /\ job[m].pc \in {"connecting", "stopping", "swapping"} => NewGen(job, b)[m].beaten
  <2>1. JobOf(m, job[m], Len(ots))
    BY Parts
  <2>2. CASE job[m].b = b /\ job[m].pc \in {"connecting", "stopping", "swapping"}
    <3>1. NewGen(job, b)[m] = [job[m] EXCEPT !.beaten = TRUE]
      BY <2>2 DEF NewGen
    <3>2. \A f \in {"pc", "b", "d", "ot", "was", "old"} : NewGen(job, b)[m][f] = job[m][f]
      BY <2>1, <3>1 DEF JobOf
    <3>3. NewGen(job, b)[m].beaten /\ DOMAIN NewGen(job, b)[m] = DOMAIN job[m]
      BY <2>1, <3>1 DEF JobOf
    <3> QED
      BY <2>1, <2>2, <3>2, <3>3 DEF JobOf
  <2>3. CASE ~(job[m].b = b /\ job[m].pc \in {"connecting", "stopping", "swapping"})
    <3>1. NewGen(job, b)[m] = job[m]
      BY <2>3 DEF NewGen
    <3> QED
      BY <2>1, <2>3, <3>1
  <2> QED
    BY <2>2, <2>3
<1> QED
  BY <1>1, <1>2

LEMMA EntersKeeps ==
  ASSUME SwitchInv, None \notin Backends, NEW n \in Appliers \cup Attempts, job[n].pc \in {"queued", "seeding"},
         Holds(n), Enters(n), n \in Attempts /\ job[n].pc = "queued" => ~job[n].old,
         UNCHANGED <<router, serial, sel, held, ots>>
  PROVE  SwitchInv'
<1> DEFINE b == job[n].b
           js == NewGen(job, b)
<1>1. /\ n \in JobNames /\ JobsTyped /\ HeldTyped /\ OutputsTyped /\ OneAttaches /\ NoneLeft /\ OnlySelected /\ WayBack
      /\ Len(ots) \in Nat /\ DOMAIN job = JobNames /\ JobOf(n, job[n], Len(ots)) /\ n \notin Retirers
      /\ n # "play" /\ n # "holder"
  BY Parts, SwitchRoles
<1>2. b \in Backends /\ n \in Appliers => n \notin Attempts /\ job[n].pc # "seeding"
  BY <1>1, SwitchRoles DEF JobOf, Stage
<1>3. b \in Backends
  BY <1>1, SwitchRoles DEF JobOf, Stage
<1>4. /\ DOMAIN js = JobNames
      /\ \A m \in JobNames :
           /\ JobOf(m, js[m], Len(ots)) /\ js[m].pc = job[m].pc /\ js[m].b = job[m].b /\ js[m].d = job[m].d
           /\ js[m].ot = job[m].ot /\ (job[m].b # b => js[m] = job[m])
  <2> HIDE DEF b
  <2> QED
    BY BeatenJobs
<1>5. job' = [js EXCEPT ![n].pc = "connecting"]
  BY DEF Enters
<1> HIDE DEF js
<1>6. DOMAIN job' = JobNames /\ \A m \in JobNames \ {n} : job'[m] = js[m]
  BY <1>4, <1>5
<1>7. job'[n] = [js[n] EXCEPT !.pc = "connecting"]
  BY <1>1, <1>4, <1>5
<1>8. job'[n].pc = "connecting" /\ job'[n].b = b /\ job'[n].d = job[n].d /\ job'[n].ot = job[n].ot
      /\ JobOf(n, job'[n], Len(ots))
  BY <1>1, <1>4, <1>7, <1>3, SwitchRoles DEF JobOf, Stage
<1>9. JobsTyped'
  BY <1>1, <1>4, <1>6, <1>8 DEF JobsTyped
<1>10. \A m \in JobNames : Attaching(m) => m = n
  BY OneHolder
<1>11. \A m \in JobNames : Attaching(m)' => m = n
  BY <1>4, <1>6, <1>10 DEF Attaching
<1>12. OneAttaches'
  BY <1>11 DEF OneAttaches, Holds
<1>13. be' = [be EXCEPT ![b].conn = None, ![b].playing = IF b = "cast" THEN FALSE ELSE @]
  BY DEF Enters, Entered
<1>14. /\ be' \in [Backends -> [conn : Devices, dev : Devices, playing : BOOLEAN]]
       /\ be'[b].conn = None /\ \A x \in Backends \ {b} : be'[x] = be[x]
  <2>1. be \in [Backends -> [conn : Devices, dev : Devices, playing : BOOLEAN]]
    BY <1>1 DEF OutputsTyped
  <2>2. None \in Devices
    BY DEF Devices
  <2> DEFINE up == IF b = "cast" THEN FALSE ELSE be[b].playing
  <2>3. b \in Backends /\ be' = [be EXCEPT ![b] = [be[b] EXCEPT !.conn = None, !.playing = up]]
    BY <1>3, <1>13, <2>1
  <2>4. up \in BOOLEAN
    BY <1>3, <2>1
  <2> HIDE DEF b, up
  <2>5. be' \in [Backends -> [conn : Devices, dev : Devices, playing : BOOLEAN]]
    BY <2>1, <2>2, <2>3, <2>4
  <2>6. be'[b].conn = None /\ \A x \in Backends \ {b} : be'[x] = be[x]
    BY <2>1, <2>3
  <2> QED
    BY <2>5, <2>6
<1>16. /\ DOMAIN truth' = DOMAIN truth /\ truth'.displaced = truth.displaced
       /\ truth'.late = IF n \in Appliers \/ <<b, job[n].d>> = sel THEN truth.late \ {b}
                        ELSE IF job[n].old \/ job[n].pc = "seeding" THEN truth.late ELSE truth.late \cup {b}
  BY <1>1 DEF Enters, OutputsTyped, At
<1> HIDE DEF b
<1>17. OutputsTyped'
  BY <1>1, <1>14, <1>16 DEF OutputsTyped
<1>18. HeldTyped'
  BY <1>1 DEF HeldTyped
<1>19. \A x : x # b => (Kept(x) => Kept(x)')
  BY <1>16 DEF Kept
<1>20. n \in Attempts => b \in truth'.late \/ (Meant(n) /\ Meant(n)')
  <2>1. CASE <<b, job[n].d>> = sel
    BY <1>8, <2>1 DEF Meant, b
  <2>2. CASE <<b, job[n].d>> # sel /\ job[n].pc = "seeding" /\ n \in Attempts
    <3>1. b \in truth.late
      BY <1>1, <2>2 DEF OnlySelected, Meant, At, b
    <3> QED
      BY <1>2, <1>16, <2>2, <3>1, SwitchRoles
  <2>3. CASE <<b, job[n].d>> # sel /\ job[n].pc = "queued" /\ n \in Attempts
    BY <1>16, <2>3, SwitchRoles
  <2> QED
    BY <2>1, <2>2, <2>3
<1>21. sel[1] = Effective /\ Effective \in {router.active, router.pending} /\ Effective' = Effective
  BY <1>1 DEF OnlySelected, Effective
<1>22. ASSUME NEW x, n \in Attempts, x = b PROVE Kept(x)'
  <2>1. CASE b \in truth'.late
    BY <1>22, <2>1 DEF Kept
  <2>2. CASE Meant(n)
    <3>1. x = sel[1]
      BY <1>22, <2>2 DEF Meant, b
    <3> QED
      BY <1>21, <3>1 DEF Kept
  <2> QED
    BY <1>20, <1>22, <2>1, <2>2
<1>23. NoneLeft'
  <2>1. ASSUME NEW x \in Connected, be'[x].conn # None PROVE Kept(x)' \/ Leaving(x)' \/ Landing(x)'
    <3>1. x # b /\ x \in Backends /\ be[x].conn # None
      BY <1>14, <2>1 DEF Backends
    <3>2. ~Landing(x)
      BY <1>10, <3>1, SwitchRoles DEF Landing, At, Attaching, b
    <3>3. ASSUME Leaving(x) PROVE Leaving(x)'
      <4>1. PICK r \in JobNames : Releasing(r) /\ job[r].b = x /\ ~job[r].beaten
        BY <3>3 DEF Leaving
      <4>2. job'[r] = job[r]
        BY <1>4, <1>6, <3>1, <4>1 DEF b
      <4> QED
        BY <4>1, <4>2 DEF Leaving, Releasing, At
    <3> QED
      BY <1>1, <1>19, <3>1, <3>2, <3>3 DEF NoneLeft
  <2>2. ASSUME NEW x \in Connected, NEW m \in Attempts, At(m, "connecting")', ~job'[m].beaten, job'[m].b = x
        PROVE  Kept(x)' \/ Leaving(x)'
    <3>1. m = n
      BY <1>11, <2>2, SwitchRoles DEF At, Attaching
    <3> QED
      BY <1>8, <1>22, <2>2, <3>1
  <2> QED
    BY <2>1, <2>2 DEF NoneLeft
<1>24. OnlySelected'
  <2>1. \A m \in Attempts : At(m, "seeding")' => job'[m].b \in truth'.late \/ Meant(m)'
    BY <1>8, <1>11, SwitchRoles DEF At, Attaching
  <2>2. \A m \in Attempts : At(m, "connecting")' => job'[m].b \in truth'.late \/ Meant(m)'
    BY <1>8, <1>11, <1>20, SwitchRoles DEF At, Attaching
  <2>3. \A m \in Appliers : ~At(m, "adopted")'
    BY <1>8, <1>11, SwitchRoles DEF At, Attaching
  <2>4. ASSUME NEW x \in Connected \ truth'.late, x = Effective
        PROVE  be'[x].conn \in {None, sel'[2]}
    <3>1. CASE x = b
      BY <1>14, <3>1
    <3>2. CASE x # b
      <4>1. x \notin truth.late
        BY <1>16, <2>4, <3>2
      <4>2. ~Landing(x)
        BY <1>10, <3>2, SwitchRoles DEF Landing, At, Attaching, b
      <4> QED
        BY <1>1, <1>14, <2>4, <3>2, <4>1, <4>2 DEF OnlySelected, Backends
    <3> QED
      BY <3>1, <3>2
  <2> QED
    BY <1>21, <2>1, <2>2, <2>3, <2>4 DEF OnlySelected
<1>25. WayBack'
  <2>1. \A m \in Appliers : Pledged(m) => Pledged(m)'
    BY <1>1, <1>4, <1>6, <1>8, SwitchRoles DEF Pledged, Switching, At
  <2>2. At("holder", "holding") => At("holder", "holding")'
    BY <1>1, <1>4, <1>6, SwitchRoles DEF At
  <2> QED
    BY <1>1, <2>1, <2>2, HoldStays
<1> QED
  BY <1>9, <1>12, <1>17, <1>18, <1>23, <1>24, <1>25 DEF SwitchInv, SwitchShape

LEMMA SeededKeeps ==
  ASSUME SwitchInv, None \notin Backends, NEW n \in Appliers \cup Attempts, Seeded(n)
  PROVE  SwitchInv'
<1>1. n \in JobNames /\ job[n].pc = "seeding"
  BY SwitchRoles DEF Seeded, At
<1>2. Holds(n)
  BY <1>1, Attaches
<1> QED
  BY <1>1, <1>2, EntersKeeps DEF Seeded

LEMMA AcquiresKeeps ==
  ASSUME SwitchInv, None \notin Backends, NEW n \in Appliers \cup Attempts, AttachAcquires(n)
  PROVE  SwitchInv'
<1>1. job[n].pc = "queued" /\ Holds(n) /\ UNCHANGED <<router, serial, sel, held, ots>>
      /\ (n \in Attempts => ~job[n].old)
  BY SwitchRoles DEF AttachAcquires, At, Aborts
<1>2. CASE n \in Appliers \cup {"boot"}
  BY <1>1, <1>2, EntersKeeps DEF AttachAcquires
<1>3. CASE n \notin Appliers \cup {"boot"}
  <2> DEFINE b == job[n].b
  <2>1. /\ n \in JobNames /\ JobsTyped /\ HeldTyped /\ OutputsTyped /\ OneAttaches /\ NoneLeft /\ OnlySelected /\ WayBack
        /\ Len(ots) \in Nat /\ DOMAIN job = JobNames /\ JobOf(n, job[n], Len(ots)) /\ n \notin Retirers
        /\ n # "play" /\ n # "holder" /\ n \in Attempts /\ n \notin Appliers
    BY <1>3, Parts, SwitchRoles
  <2>2. job' = [job EXCEPT ![n] = [job[n] EXCEPT !.pc = "seeding"]] /\ be' = be
    BY <1>3, <2>1 DEF AttachAcquires, JobGoes
  <2>3. DOMAIN job' = JobNames /\ job'[n] = [job[n] EXCEPT !.pc = "seeding"]
        /\ \A m \in JobNames \ {n} : job'[m] = job[m]
    BY <2>1, <2>2
  <2>4. job'[n].pc = "seeding" /\ job'[n].b = b /\ job'[n].d = job[n].d /\ JobOf(n, job'[n], Len(ots))
    BY <1>1, <2>1, <2>3, SwitchRoles DEF JobOf, Stage
  <2>5. /\ DOMAIN truth' = DOMAIN truth /\ truth'.displaced = truth.displaced
        /\ truth'.late = IF <<b, job[n].d>> = sel THEN truth.late ELSE truth.late \cup {b}
    BY <1>1, <1>3, <2>1 DEF AttachAcquires, OutputsTyped
  <2>6. JobsTyped'
    BY <1>1, <2>1, <2>3, <2>4 DEF JobsTyped
  <2>7. \A m \in JobNames : (Attaching(m) => m = n) /\ (Attaching(m)' => m = n)
    BY <1>1, <2>3, OneHolder DEF Attaching
  <2>8. OneAttaches'
    BY <1>1, <2>7 DEF OneAttaches, Holds
  <2>9. \A x : (Kept(x) => Kept(x)') /\ (Leaving(x) => Leaving(x)')
    <3>1. \A x : Kept(x) => Kept(x)'
      BY <1>1, <2>5 DEF Kept
    <3>2. ASSUME NEW x, Leaving(x) PROVE Leaving(x)'
      <4>1. PICK r \in JobNames : Releasing(r) /\ job[r].b = x /\ ~job[r].beaten
        BY <3>2 DEF Leaving
      <4>2. job'[r] = job[r]
        BY <1>1, <2>1, <2>3, <4>1 DEF Releasing, At
      <4> QED
        BY <4>1, <4>2 DEF Leaving, Releasing, At
    <3> QED
      BY <3>1, <3>2
  <2>10. \A x : ~Landing(x)
    BY <1>1, <2>7, SwitchRoles DEF Landing, At, Attaching
  <2>11. NoneLeft'
    <3>1. ASSUME NEW x \in Connected, be'[x].conn # None PROVE Kept(x)' \/ Leaving(x)' \/ Landing(x)'
      BY <2>1, <2>2, <2>9, <2>10, <3>1 DEF NoneLeft
    <3>2. \A m \in Attempts : ~At(m, "connecting")'
      BY <2>4, <2>7, SwitchRoles DEF At, Attaching
    <3> QED
      BY <3>1, <3>2 DEF NoneLeft
  <2> HIDE DEF b
  <2>12. OnlySelected'
    <3>1. Effective' = Effective /\ sel' = sel /\ sel[1] = Effective
      BY <1>1, <2>1 DEF Effective, OnlySelected
    <3>2. ASSUME NEW m \in Attempts, At(m, "seeding")' PROVE job'[m].b \in truth'.late \/ Meant(m)'
      <4>1. m = n
        BY <2>7, <3>2, SwitchRoles DEF At, Attaching
      <4>2. job'[m].b = b /\ job'[m].d = job[n].d
        BY <2>4, <4>1
      <4> QED
        BY <2>5, <3>1, <4>2 DEF Meant
    <3>3. \A m \in Attempts \cup Appliers : ~At(m, "connecting")' /\ ~At(m, "adopted")'
      BY <2>4, <2>7, SwitchRoles DEF At, Attaching
    <3>4. ASSUME NEW x \in Connected \ truth'.late, x = Effective PROVE be'[x].conn \in {None, sel'[2]}
      BY <2>1, <2>2, <2>5, <2>10, <3>1, <3>4 DEF OnlySelected
    <3> QED
      BY <3>1, <3>2, <3>3, <3>4 DEF OnlySelected
  <2>13. WayBack'
    <3>1. \A m \in Appliers \cup {"holder"} : job'[m] = job[m]
      BY <2>1, <2>3, SwitchRoles
    <3> QED
      BY <1>1, <2>1, <3>1, HoldStays, PledgedStays DEF At
  <2>14. OutputsTyped' /\ HeldTyped'
    BY <1>1, <2>1, <2>2, <2>5 DEF OutputsTyped, HeldTyped
  <2> QED
    BY <2>6, <2>8, <2>11, <2>12, <2>13, <2>14 DEF SwitchInv, SwitchShape
<1> QED
  BY <1>2, <1>3

LEMMA AdoptsKeeps ==
  ASSUME SwitchInv, NEW n \in Appliers \cup Attempts, Adopts(n)
  PROVE  SwitchInv'
<1> DEFINE b == job[n].b
           d == job[n].d
<1>1. /\ n \in JobNames /\ JobsTyped /\ HeldTyped /\ OutputsTyped /\ OneAttaches /\ NoneLeft /\ OnlySelected /\ WayBack
      /\ Len(ots) \in Nat /\ DOMAIN job = JobNames /\ JobOf(n, job[n], Len(ots)) /\ n \notin Retirers
      /\ n # "play" /\ n # "holder"
  BY Parts, SwitchRoles
<1>2. job[n].pc = "connecting" /\ ~job[n].beaten /\ UNCHANGED <<router, serial, sel, held, ots, truth>>
  BY DEF Adopts, At, Superseded
<1>3. b \in Backends /\ d \in Devices /\ Holds(n)
  BY <1>1, <1>2, Attaches DEF JobOf
<1>4. job' = [job EXCEPT ![n] = [job[n] EXCEPT !.pc = "adopted"]] /\ be' = [be EXCEPT ![b].conn = d, ![b].dev = d]
  BY <1>1 DEF Adopts, JobGoes
<1>5. DOMAIN job' = JobNames /\ job'[n] = [job[n] EXCEPT !.pc = "adopted"]
      /\ \A m \in JobNames \ {n} : job'[m] = job[m]
  BY <1>1, <1>4
<1>6. job'[n].pc = "adopted" /\ job'[n].b = b /\ job'[n].d = d /\ job'[n].ot = job[n].ot /\ JobOf(n, job'[n], Len(ots))
  BY <1>1, <1>2, <1>5, SwitchRoles DEF JobOf, Stage
<1>7. JobsTyped'
  BY <1>1, <1>2, <1>5, <1>6 DEF JobsTyped
<1>8. \A m \in JobNames : (Attaching(m) => m = n) /\ (Attaching(m)' => m = n)
  BY <1>3, <1>5, OneHolder DEF Attaching
<1>9. OneAttaches'
  BY <1>2, <1>3, <1>8 DEF OneAttaches, Holds
<1> HIDE DEF b, d
<1>10. be' \in [Backends -> [conn : Devices, dev : Devices, playing : BOOLEAN]]
       /\ be'[b].conn = d /\ \A x \in Backends \ {b} : be'[x] = be[x]
  <2>1. be \in [Backends -> [conn : Devices, dev : Devices, playing : BOOLEAN]]
    BY <1>1 DEF OutputsTyped
  <2>2. b \in Backends /\ d \in Devices /\ be' = [be EXCEPT ![b].conn = d, ![b].dev = d]
    BY <1>3, <1>4
  <2>3. be' \in [Backends -> [conn : Devices, dev : Devices, playing : BOOLEAN]]
    BY <2>1, <2>2
  <2>4. be'[b].conn = d /\ \A x \in Backends \ {b} : be'[x] = be[x]
    BY <2>1, <2>2
  <2> QED
    BY <2>3, <2>4
<1>11. OutputsTyped' /\ HeldTyped'
  BY <1>1, <1>2, <1>10 DEF OutputsTyped, HeldTyped
<1>12. \A x : (Kept(x) => Kept(x)') /\ (Leaving(x) => Leaving(x)') /\ ~Landing(x)
  <2>1. \A x : (Kept(x) => Kept(x)')
    BY <1>2 DEF Kept
  <2>2. ASSUME NEW x, Leaving(x) PROVE Leaving(x)'
    <3>1. PICK r \in JobNames : Releasing(r) /\ job[r].b = x /\ ~job[r].beaten
      BY <2>2 DEF Leaving
    <3>2. job'[r] = job[r]
      BY <1>1, <1>2, <1>5, <3>1 DEF Releasing, At
    <3> QED
      BY <3>1, <3>2 DEF Leaving, Releasing, At
  <2>3. \A x : ~Landing(x)
    BY <1>2, <1>8, SwitchRoles DEF Landing, At, Attaching
  <2> QED
    BY <2>1, <2>2, <2>3
<1>13. \A x : n \in Appliers /\ x = b => Landing(x)'
  BY <1>6 DEF Landing, At
<1>14. NoneLeft'
  <2>1. ASSUME NEW x \in Connected, be'[x].conn # None PROVE Kept(x)' \/ Leaving(x)' \/ Landing(x)'
    <3>1. CASE x # b
      BY <1>1, <1>10, <1>12, <2>1, <3>1 DEF NoneLeft, Backends
    <3>2. CASE x = b /\ n \in Appliers
      BY <1>13, <3>2
    <3>3. CASE x = b /\ n \in Attempts
      <4>1. Kept(x) \/ Leaving(x)
        BY <1>1, <1>2, <3>3 DEF NoneLeft, At, b
      <4> QED
        BY <1>12, <4>1
    <3> QED
      BY <3>1, <3>2, <3>3
  <2>2. \A m \in Attempts : ~At(m, "connecting")'
    BY <1>6, <1>8, SwitchRoles DEF At, Attaching
  <2> QED
    BY <2>1, <2>2 DEF NoneLeft
<1>15. OnlySelected'
  <2>1. Effective' = Effective /\ sel' = sel /\ sel[1] = Effective
    BY <1>1, <1>2 DEF Effective, OnlySelected
  <2>2. \A m \in Attempts : ~At(m, "seeding")' /\ ~At(m, "connecting")'
    BY <1>6, <1>8, SwitchRoles DEF At, Attaching
  <2>3. ASSUME NEW m \in Appliers, NEW x \in Backends, At(m, "adopted")', job'[m].b = x
        PROVE  be'[x].conn \in {None, job'[m].d}
    <3>1. m = n
      BY <1>8, <2>3, SwitchRoles DEF At, Attaching
    <3> QED
      BY <1>6, <1>10, <2>3, <3>1
  <2>4. ASSUME NEW x \in Connected \ truth'.late, x = Effective
        PROVE  be'[x].conn \in {None, sel'[2]} \/ Landing(x)'
    <3>1. CASE x # b
      BY <1>1, <1>2, <1>10, <1>12, <2>4, <3>1 DEF OnlySelected, Backends
    <3>2. CASE x = b /\ n \in Appliers
      BY <1>13, <3>2
    <3>3. CASE x = b /\ n \in Attempts
      <4>1. Meant(n)
        BY <1>1, <1>2, <2>4, <3>3 DEF OnlySelected, At, b
      <4>2. d = sel[2]
        BY <4>1 DEF Meant, d
      <4> QED
        BY <1>10, <2>1, <3>3, <4>2
    <3> QED
      BY <3>1, <3>2, <3>3
  <2> QED
    BY <2>1, <2>2, <2>3, <2>4 DEF OnlySelected
<1>16. WayBack'
  <2>1. \A m \in Appliers : Pledged(m) => Pledged(m)'
    BY <1>1, <1>2, <1>5, <1>6, SwitchRoles DEF Pledged, Switching, At
  <2>2. At("holder", "holding") => At("holder", "holding")'
    BY <1>1, <1>5, SwitchRoles DEF At
  <2> QED
    BY <1>1, <1>2, <2>1, <2>2, HoldStays
<1> QED
  BY <1>7, <1>9, <1>11, <1>14, <1>15, <1>16 DEF SwitchInv, SwitchShape

-----------------------------------------------------------------------------
(* Letting an output go. *)

LEMMA ReleasesKeeps ==
  ASSUME SwitchInv, NEW r \in Retirers \cup {"play"}, NEW pc, StopsAndReleases(r, pc), None \notin Backends,
         \/ r \in Retirers /\ job[r].pc = "stopping" /\ pc = "free"
         \/ r = "play" /\ job[r].pc = "swapping" /\ pc = "dispatch",
         UNCHANGED <<router, serial, sel, held, ots, truth>>
  PROVE  SwitchInv'
<1> DEFINE b == job[r].b
           lets == b \in Connected /\ b # router.active /\ ~job[r].beaten
           js == IF lets THEN NewGen(job, b) ELSE job
           j == IF pc = "free" THEN NoJob ELSE [NoJob EXCEPT !.pc = pc, !.ot = job[r].ot]
<1>1. /\ r \in JobNames /\ JobsTyped /\ HeldTyped /\ OutputsTyped /\ OneAttaches /\ NoneLeft /\ OnlySelected /\ WayBack
      /\ Len(ots) \in Nat /\ DOMAIN job = JobNames /\ JobOf(r, job[r], Len(ots))
      /\ r \notin Appliers /\ r \notin Attempts /\ r # "holder" /\ \A m \in JobNames : JobOf(m, job[m], Len(ots))
  BY Parts, SwitchRoles
<1>2. b \in Backends /\ job[r].pc \in {"stopping", "swapping"}
  BY <1>1, SwitchRoles DEF JobOf
<1>3. job' = [js EXCEPT ![r] = j]
  BY DEF StopsAndReleases
<1>4. JobOf(r, j, Len(ots)) /\ j.pc \in {"free", "dispatch"}
  <2>1. CASE pc = "free"
    BY <1>1, <2>1, FreeJob
  <2>2. CASE pc = "dispatch" /\ r = "play"
    BY <1>1, <2>2, SwitchRoles DEF JobOf, Stage, NoJob
  <2> QED
    BY <2>1, <2>2
<1>5. be' = IF lets THEN [be EXCEPT ![b].conn = None, ![b].playing = FALSE] ELSE [be EXCEPT ![b].playing = FALSE]
  BY DEF StopsAndReleases, Released
<1>6. /\ DOMAIN js = JobNames
      /\ \A m \in JobNames :
           /\ JobOf(m, js[m], Len(ots)) /\ js[m].pc = job[m].pc /\ js[m].b = job[m].b /\ js[m].d = job[m].d
           /\ js[m].ot = job[m].ot /\ (job[m].b # b \/ ~lets => js[m] = job[m])
           /\ (lets /\ job[m].b = b /\ job[m].pc \in {"connecting", "stopping", "swapping"} => js[m].beaten)
  <2>1. CASE lets
    <3> HIDE DEF b
    <3> QED
      BY <2>1, BeatenJobs
  <2>2. CASE ~lets
    BY <1>1, <2>2
  <2> QED
    BY <2>1, <2>2
<1> HIDE DEF js, j
<1>7. DOMAIN job' = JobNames /\ job'[r] = j /\ \A m \in JobNames \ {r} : job'[m] = js[m]
  BY <1>1, <1>3, <1>6
<1>8. JobsTyped'
  BY <1>4, <1>6, <1>7 DEF JobsTyped
<1>9. \A m \in JobNames : Attaching(m)' => m # r /\ Attaching(m)
  BY <1>4, <1>6, <1>7 DEF Attaching
<1>10. OneAttaches'
  BY <1>1, <1>9 DEF OneAttaches, Holds
<1>11. /\ be' \in [Backends -> [conn : Devices, dev : Devices, playing : BOOLEAN]]
       /\ \A x \in Backends : be'[x].conn = IF x = b /\ lets THEN None ELSE be[x].conn
  <2>0. None \in Devices
    BY DEF Devices
  <2>1. be \in [Backends -> [conn : Devices, dev : Devices, playing : BOOLEAN]]
    BY <1>1 DEF OutputsTyped
  <2> HIDE DEF b, lets
  <2>2. CASE lets
    <3>1. b \in Backends /\ be' = [be EXCEPT ![b].conn = None, ![b].playing = FALSE]
      BY <1>2, <1>5, <2>2
    <3>2. /\ be' \in [Backends -> [conn : Devices, dev : Devices, playing : BOOLEAN]]
          /\ \A x \in Backends : be'[x].conn = IF x = b THEN None ELSE be[x].conn
      BY <2>0, <2>1, <3>1
    <3> QED
      BY <2>2, <3>2
  <2>3. CASE ~lets
    <3>1. b \in Backends /\ be' = [be EXCEPT ![b].playing = FALSE]
      BY <1>2, <1>5, <2>3
    <3>2. /\ be' \in [Backends -> [conn : Devices, dev : Devices, playing : BOOLEAN]]
          /\ \A x \in Backends : be'[x].conn = be[x].conn
      BY <2>1, <3>1
    <3> QED
      BY <2>3, <3>2
  <2> QED
    BY <2>2, <2>3
<1>12. OutputsTyped' /\ HeldTyped'
  BY <1>1, <1>11 DEF OutputsTyped, HeldTyped
<1>13. \A m \in Appliers \cup Attempts : \A p \in {"seeding", "connecting", "adopted"} :
         At(m, p)' => At(m, p) /\ job'[m].b = job[m].b /\ job'[m].d = job[m].d
                      /\ (lets /\ job[m].b = b /\ p = "connecting" => job'[m].beaten)
                      /\ (~lets \/ job[m].b # b => job'[m].beaten = job[m].beaten)
  BY <1>1, <1>6, <1>7, SwitchRoles DEF At
<1>14. \A x : (Kept(x) => Kept(x)') /\ (Landing(x) => Landing(x)')
  <2>1. \A x : Kept(x) => Kept(x)'
    BY DEF Kept
  <2>2. ASSUME NEW x, Landing(x) PROVE Landing(x)'
    <3>1. PICK m \in Appliers : At(m, "adopted") /\ job[m].b = x
      BY <2>2 DEF Landing
    <3>2. job'[m].pc = "adopted" /\ job'[m].b = x
      BY <1>1, <1>6, <1>7, <3>1, SwitchRoles DEF At
    <3> QED
      BY <3>2 DEF Landing, At
  <2> QED
    BY <2>1, <2>2
<1> HIDE DEF b
<1>15. ASSUME NEW x, x \in Connected, Leaving(x), ~(x = b /\ lets) PROVE Kept(x)' \/ Leaving(x)'
  <2>1. PICK m \in JobNames : Releasing(m) /\ job[m].b = x /\ ~job[m].beaten
    BY <1>15 DEF Leaving
  <2>2. CASE m = r
    <3>1. x = b /\ ~job[r].beaten
      BY <2>1, <2>2 DEF b
    <3>2. x = router.active
      BY <1>15, <3>1
    <3> QED
      BY <3>2 DEF Kept
  <2>3. CASE m # r
    <3>1. job'[m] = job[m]
      BY <1>6, <1>7, <1>15, <2>1, <2>3
    <3> QED
      BY <2>1, <3>1 DEF Leaving, Releasing, At
  <2> QED
    BY <2>2, <2>3
<1>16. NoneLeft'
  <2>1. ASSUME NEW x \in Connected, be'[x].conn # None PROVE Kept(x)' \/ Leaving(x)' \/ Landing(x)'
    <3>1. ~(x = b /\ lets) /\ be[x].conn # None
      BY <1>11, <2>1 DEF Backends
    <3> QED
      BY <1>1, <1>14, <1>15, <3>1 DEF NoneLeft
  <2>2. ASSUME NEW x \in Connected, NEW m \in Attempts, At(m, "connecting")', ~job'[m].beaten, job'[m].b = x
        PROVE  Kept(x)' \/ Leaving(x)'
    <3>1. At(m, "connecting") /\ job[m].b = x /\ ~(x = b /\ lets) /\ ~job[m].beaten
      BY <1>13, <2>2
    <3>2. Kept(x) \/ Leaving(x)
      BY <1>1, <3>1 DEF NoneLeft
    <3> QED
      BY <1>14, <1>15, <3>1, <3>2
  <2> QED
    BY <2>1, <2>2 DEF NoneLeft
<1>17. OnlySelected'
  <2>1. Effective' = Effective /\ sel[1] = Effective
    BY <1>1 DEF Effective, OnlySelected
  <2>2. \A m \in Attempts : At(m, "seeding")' => job'[m].b \in truth'.late \/ Meant(m)'
    BY <1>1, <1>13 DEF OnlySelected, Meant
  <2>3. ASSUME NEW m \in Attempts, At(m, "connecting")', job'[m].b = Effective, Effective \in Connected
        PROVE  job'[m].b \in truth'.late \/ Meant(m)'
    BY <1>1, <1>13, <2>3 DEF OnlySelected, Meant
  <2>4. ASSUME NEW m \in Appliers, NEW x \in Backends, At(m, "adopted")', job'[m].b = x
        PROVE  be'[x].conn \in {None, job'[m].d}
    <3>1. At(m, "adopted") /\ job[m].b = x /\ job'[m].d = job[m].d
      BY <1>13, <2>4
    <3>2. be[x].conn \in {None, job[m].d}
      BY <1>1, <3>1 DEF OnlySelected
    <3> QED
      BY <1>11, <3>1, <3>2
  <2>5. ASSUME NEW x \in Connected \ truth'.late, x = Effective
        PROVE  be'[x].conn \in {None, sel'[2]} \/ Landing(x)'
    <3>1. be[x].conn \in {None, sel[2]} \/ Landing(x)
      BY <1>1, <2>5 DEF OnlySelected
    <3>2. x \in Backends
      BY DEF Backends
    <3> QED
      BY <1>11, <1>14, <3>1, <3>2
  <2> QED
    BY <2>1, <2>2, <2>3, <2>4, <2>5 DEF OnlySelected
<1>18. WayBack'
  <2>1. \A m \in Appliers : Pledged(m) => Pledged(m)'
    BY <1>1, <1>6, <1>7, SwitchRoles DEF Pledged, Switching, At
  <2>2. At("holder", "holding") => At("holder", "holding")'
    BY <1>1, <1>6, <1>7, SwitchRoles DEF At
  <2> QED
    BY <1>1, <2>1, <2>2, HoldStays
<1> QED
  BY <1>8, <1>10, <1>12, <1>16, <1>17, <1>18 DEF SwitchInv, SwitchShape

LEMMA RetiresKeeps ==
  ASSUME SwitchInv, None \notin Backends, NEW r \in Retirers, Retires(r)
  PROVE  SwitchInv'
BY ReleasesKeeps DEF Retires, At

LEMMA SwapsKeeps ==
  ASSUME SwitchInv, None \notin Backends, Swaps
  PROVE  SwitchInv'
BY ReleasesKeeps DEF Swaps, At

-----------------------------------------------------------------------------
(* The switch commits. *)

LEMMA CommitsKeeps ==
  ASSUME SwitchInv, None \notin Backends, NEW n \in Appliers, NEW js, NEW to \in Backends, NEW d \in Devices, NEW was,
         Commits(js, n, to, d, was), Retirable, DOMAIN js = JobNames,
         \A m \in JobNames \ {n} :
           /\ JobOf(m, js[m], Len(ots')) /\ js[m].pc = job[m].pc /\ js[m].b = job[m].b /\ js[m].d = job[m].d
           /\ js[m].beaten = job[m].beaten /\ (m \notin Attempts => js[m] = job[m]),
         JobOf(n, js[n], Len(ots')), js[n].pc \in {"queued", "adopted"},
         to \in Connected => be[to].conn \in {None, d} /\ \A m \in JobNames \ {n} : ~Attaching(m),
         At(n, "adopted") => job[n].b = to,
         be' = be, ots' \in Seq(Contexts), Len(ots') = Len(ots), held' \in [on : BOOLEAN, ot : 0 .. Len(ots')],
         serial' = serial \/ (Holds(n) /\ serial' = Tail(serial))
  PROVE  SwitchInv'
<1> DEFINE old == router.active
           rest == [js EXCEPT ![n].pc = "saving"]
           leaves == ~(was \/ old = to)
           r == CHOOSE x \in Retirers : rest[x].pc = "free"
           gone == [NoJob EXCEPT !.pc = "spawned", !.b = old]
<1>1. /\ n \in JobNames /\ JobsTyped /\ HeldTyped /\ OutputsTyped /\ OneAttaches /\ NoneLeft /\ OnlySelected /\ WayBack
      /\ Len(ots) \in Nat /\ DOMAIN job = JobNames /\ n \notin Retirers /\ n \notin Attempts
      /\ n # "play" /\ n # "holder" /\ serial \in Seq(JobNames) /\ old \in Backends
  BY Parts, SwitchRoles DEF OutputsTyped
<1>2. job' = IF leaves THEN [rest EXCEPT ![r] = gone] ELSE rest
  BY DEF Commits, Retiring
<1>3. /\ DOMAIN rest = JobNames /\ rest[n] = [js[n] EXCEPT !.pc = "saving"]
      /\ \A m \in JobNames \ {n} : rest[m] = js[m]
  BY <1>1
<1>4. rest[n].pc = "saving" /\ JobOf(n, rest[n], Len(ots'))
  BY <1>1, <1>3, SwitchRoles DEF JobOf, Stage
<1> HIDE DEF rest
<1>5. r \in Retirers /\ rest[r].pc = "free" /\ r \in JobNames /\ r # n /\ r \notin Appliers \cup Attempts \cup {"holder"}
  <2>1. \E x \in Retirers : rest[x].pc = "free"
    BY <1>1, <1>3, SwitchRoles DEF Retirable, At
  <2> QED
    BY <1>1, <2>1, SwitchRoles
<1> HIDE DEF r
<1>6. JobOf(r, gone, Len(ots')) /\ gone.pc = "spawned" /\ gone.b = old /\ ~gone.beaten
  BY <1>1, <1>5, SwitchRoles DEF JobOf, Stage, NoJob
<1> HIDE DEF gone, leaves
<1>7. /\ DOMAIN job' = JobNames /\ job'[n] = rest[n]
      /\ \A m \in JobNames \ {n, r} : job'[m] = js[m]
      /\ job'[r] = IF leaves THEN gone ELSE js[r]
  BY <1>1, <1>2, <1>3, <1>5
<1>8. JobsTyped'
  <2>1. ASSUME NEW m \in JobNames PROVE JobOf(m, job'[m], Len(ots'))
    <3>1. CASE m = n
      BY <1>4, <1>7, <3>1
    <3>2. CASE m = r
      BY <1>5, <1>6, <1>7, <3>2
    <3>3. CASE m \notin {n, r}
      BY <1>7, <3>3
    <3> QED
      BY <3>1, <3>2, <3>3
  <2> QED
    BY <1>7, <2>1 DEF JobsTyped
<1>9. job[r].pc = "free" /\ js[r] = job[r]
  BY <1>3, <1>5
<1>10. \A m \in JobNames : Attaching(m)' => m # n /\ m # r /\ Attaching(m)
  BY <1>1, <1>4, <1>5, <1>6, <1>7, <1>9 DEF Attaching
<1>11. OneAttaches' /\ serial' \in Seq(JobNames)
  <2>1. CASE serial' = serial
    BY <1>1, <1>10, <2>1, LockStays
  <2>2. CASE Holds(n) /\ serial' = Tail(serial)
    BY <1>1, <1>10, <2>2, LockGiven
  <2> QED
    BY <2>1, <2>2
<1>12. /\ router'.active = IF was THEN old ELSE to
       /\ router'.pending = IF was THEN to ELSE None
       /\ DOMAIN router' = DOMAIN router /\ sel' = <<to, d>> /\ DOMAIN truth' = {"displaced", "late"}
       /\ truth'.displaced = (truth.displaced \cup ({router.pending} \ {None})) \ {to}
       /\ truth'.late = truth.late \cup {job[x].b : x \in {y \in Attempts : At(y, "seeding")}}
  BY <1>1 DEF Commits, OutputsTyped
<1>13. OutputsTyped' /\ HeldTyped'
  <2>1. sel' \in Backends \X Devices
    BY <1>12
  <2>2. router'.active \in Backends /\ router'.pending \in Backends \cup {None}
    BY <1>1, <1>12
  <2> QED
    BY <1>1, <1>11, <1>12, <2>1, <2>2 DEF OutputsTyped, HeldTyped
<1>14. Effective' = to
  BY <1>12 DEF Effective
<1>15. ASSUME NEW x \in Connected, Leaving(x) PROVE Leaving(x)'
  <2>1. PICK m \in JobNames : Releasing(m) /\ job[m].b = x /\ ~job[m].beaten
    BY <1>15 DEF Leaving
  <2>2. m # n
    BY <1>1, <2>1, SwitchRoles DEF JobsTyped, JobOf, Stage, Releasing, At
  <2>3. m # r /\ m \notin Attempts
    BY <1>1, <1>9, <2>1, SwitchRoles DEF JobsTyped, JobOf, Stage, Releasing, At
  <2>4. job'[m] = job[m]
    BY <1>7, <2>2, <2>3
  <2> QED
    BY <2>1, <2>4 DEF Leaving, Releasing, At
<1>16. ASSUME NEW x \in Connected, Kept(x) PROVE Kept(x)' \/ Leaving(x)'
  <2>1. CASE x = to
    BY <1>12, <2>1 DEF Kept
  <2>2. CASE x # to /\ x = old /\ was
    BY <1>12, <2>2 DEF Kept
  <2>3. CASE x # to /\ x = old /\ ~was
    <3>1. leaves
      BY <2>3 DEF leaves
    <3>2. job'[r] = gone
      BY <1>7, <3>1
    <3>3. Releasing(r)' /\ job'[r].b = x /\ ~job'[r].beaten
      BY <1>5, <1>6, <2>3, <3>2 DEF Releasing, At
    <3> QED
      BY <1>5, <3>3 DEF Leaving
  <2>4. CASE x # to /\ x # old
    <3>1. x # None
      BY DEF Backends
    <3>2. x \in {router.pending} \cup truth.displaced \cup truth.late
      BY <1>16, <2>4 DEF Kept
    <3> QED
      BY <1>12, <2>4, <3>1, <3>2 DEF Kept
  <2> QED
    BY <2>1, <2>2, <2>3, <2>4
<1>17. ASSUME NEW x \in Connected, Landing(x) PROVE Kept(x)' \/ Landing(x)'
  <2>1. PICK m \in Appliers : At(m, "adopted") /\ job[m].b = x
    BY <1>17 DEF Landing
  <2>2. CASE m = n
    BY <1>12, <2>1, <2>2 DEF Kept
  <2>3. CASE m # n
    <3>1. job'[m].pc = "adopted" /\ job'[m].b = x
      BY <1>5, <1>7, <2>1, <2>3, SwitchRoles DEF At
    <3> QED
      BY <3>1 DEF Landing, At
  <2> QED
    BY <2>2, <2>3
<1>18. ASSUME NEW m \in Attempts \cup Appliers, NEW p \in {"seeding", "connecting", "adopted"}, At(m, p)'
       PROVE  At(m, p) /\ m # n /\ job'[m].b = job[m].b /\ job'[m].d = job[m].d /\ job'[m].beaten = job[m].beaten
  <2>1. m # n /\ m # r /\ m \in JobNames
    BY <1>4, <1>5, <1>7, <1>18, SwitchRoles DEF At
  <2>2. job'[m] = js[m]
    BY <1>7, <2>1
  <2> QED
    BY <1>18, <2>1, <2>2 DEF At
<1>19. NoneLeft'
  <2>1. ASSUME NEW x \in Connected, be'[x].conn # None PROVE Kept(x)' \/ Leaving(x)' \/ Landing(x)'
    BY <1>1, <1>15, <1>16, <1>17, <2>1 DEF NoneLeft
  <2>2. ASSUME NEW x \in Connected, NEW m \in Attempts, At(m, "connecting")', ~job'[m].beaten, job'[m].b = x
        PROVE  Kept(x)' \/ Leaving(x)'
    <3>1. At(m, "connecting") /\ job[m].b = x /\ ~job[m].beaten
      BY <1>18, <2>2
    <3>2. Kept(x) \/ Leaving(x)
      BY <1>1, <3>1 DEF NoneLeft
    <3> QED
      BY <1>15, <1>16, <3>2
  <2> QED
    BY <2>1, <2>2 DEF NoneLeft
<1>20. OnlySelected'
  <2>1. sel'[1] = Effective' /\ sel'[2] = d
    BY <1>12, <1>14
  <2>2. ASSUME NEW m \in Attempts, At(m, "seeding")' PROVE job'[m].b \in truth'.late
    <3>1. At(m, "seeding") /\ job'[m].b = job[m].b
      BY <1>18, <2>2
    <3> QED
      BY <1>12, <3>1
  <2>3. ASSUME NEW m \in Attempts, At(m, "connecting")', to \in Connected PROVE FALSE
    <3>1. m \in JobNames \ {n} /\ At(m, "connecting")
      BY <1>18, <2>3, SwitchRoles
    <3>2. Attaching(m)
      BY <3>1 DEF At, Attaching
    <3> QED
      BY <2>3, <3>1, <3>2
  <2>4. ASSUME NEW m \in Appliers, NEW x \in Backends, At(m, "adopted")', job'[m].b = x
        PROVE  be'[x].conn \in {None, job'[m].d}
    <3>1. At(m, "adopted") /\ job[m].b = x /\ job'[m].d = job[m].d
      BY <1>18, <2>4
    <3> QED
      BY <1>1, <3>1 DEF OnlySelected
  <2>5. to \in Connected => be'[to].conn \in {None, d}
    OBVIOUS
  <2> QED
    BY <1>14, <2>1, <2>2, <2>3, <2>4, <2>5 DEF OnlySelected
<1>21. WayBack'
  BY <1>4, <1>7 DEF WayBack, At
<1> QED
  BY <1>8, <1>11, <1>13, <1>19, <1>20, <1>21 DEF SwitchInv, SwitchShape

LEMMA AppliedKeeps ==
  ASSUME SwitchInv, None \notin Backends, NEW n \in Appliers, Applied(n)
  PROVE  SwitchInv'
<1>1. /\ n \in JobNames /\ DOMAIN job = JobNames /\ OnlySelected /\ Len(ots) \in Nat /\ ots \in Seq(Contexts)
      /\ held \in [on : BOOLEAN, ot : 0 .. Len(ots)] /\ \A m \in JobNames : JobOf(m, job[m], Len(ots))
  BY Parts, SwitchRoles
<1>2. At(n, "adopted") /\ Retirable /\ Commits(job, n, job[n].b, job[n].d, job[n].was)
      /\ serial' = Tail(serial) /\ UNCHANGED <<be, held, ots>>
  BY DEF Applied
<1>3. job[n].b \in Backends /\ job[n].d \in Devices /\ job[n].pc = "adopted"
  BY <1>1, <1>2, SwitchRoles DEF JobOf, At
<1>4. Holds(n) /\ \A m \in JobNames \ {n} : ~Attaching(m)
  BY <1>1, <1>3, Attaches, OneHolder
<1>5. be[job[n].b].conn \in {None, job[n].d}
  BY <1>1, <1>2, <1>3 DEF OnlySelected
<1> DEFINE to == job[n].b
           d == job[n].d
           was == job[n].was
<1>6. /\ to \in Backends /\ d \in Devices /\ Commits(job, n, to, d, was) /\ be[to].conn \in {None, d}
      /\ job[n].b = to
  BY <1>2, <1>3, <1>5
<1> HIDE DEF to, d, was
<1> QED
  BY <1>1, <1>2, <1>3, <1>4, <1>6, CommitsKeeps

LEMMA RequestedJobs ==
  ASSUME SwitchInv, NEW n \in Appliers, NEW t \in Targets
  PROVE  /\ t[1] \in Backends /\ t[2] \in Devices /\ (t[1] # "direct" => t[1] \in Connected)
         /\ DOMAIN Requested(n, t) = JobNames
         /\ JobOf(n, Requested(n, t)[n], Len(ots)) /\ Requested(n, t)[n].pc = "queued"
         /\ Requested(n, t)[n].ot = held.ot
         /\ \A m \in JobNames \ {n} :
              /\ JobOf(m, Requested(n, t)[m], Len(ots)) /\ Requested(n, t)[m].pc = job[m].pc
              /\ Requested(n, t)[m].b = job[m].b /\ Requested(n, t)[m].d = job[m].d
              /\ Requested(n, t)[m].beaten = job[m].beaten /\ Requested(n, t)[m].ot = job[m].ot
              /\ m \notin Attempts => Requested(n, t)[m] = job[m]
<1>1. t[1] \in Backends /\ t[2] \in Devices /\ (t[1] # "direct" => t[1] \in Connected)
  BY DEF Targets, Backends, Connected, Devices
<1>2. n \in JobNames /\ held.ot \in 0 .. Len(ots) /\ Len(ots) \in Nat
  BY Parts, SwitchRoles
<1> DEFINE new == [NoJob EXCEPT !.pc = "queued", !.b = t[1], !.d = t[2], !.ot = held.ot,
                            !.was = be[router.active].playing]
<1>3. JobOf(n, new, Len(ots)) /\ new.pc = "queued" /\ new.ot = held.ot
  BY <1>1, <1>2, SwitchRoles DEF JobOf, Stage, NoJob
<1>4. Requested(n, t) = [NewEpoch(job) EXCEPT ![n] = new]
  BY DEF Requested
<1>5. DOMAIN NewEpoch(job) = JobNames
  BY DEF NewEpoch
<1> HIDE DEF new
<1>6. /\ DOMAIN Requested(n, t) = JobNames /\ Requested(n, t)[n] = new
      /\ \A m \in JobNames \ {n} : Requested(n, t)[m] = NewEpoch(job)[m]
  BY <1>2, <1>4, <1>5
<1>7. ASSUME NEW m \in JobNames
      PROVE  /\ JobOf(m, NewEpoch(job)[m], Len(ots)) /\ NewEpoch(job)[m].pc = job[m].pc
             /\ NewEpoch(job)[m].b = job[m].b /\ NewEpoch(job)[m].d = job[m].d
             /\ NewEpoch(job)[m].beaten = job[m].beaten /\ NewEpoch(job)[m].ot = job[m].ot
             /\ m \notin Attempts => NewEpoch(job)[m] = job[m]
  <2>1. JobOf(m, job[m], Len(ots))
    BY Parts
  <2>2. CASE m \in Attempts /\ job[m].pc # "free"
    <3>1. NewEpoch(job)[m] = [job[m] EXCEPT !.old = TRUE]
      BY <2>2 DEF NewEpoch
    <3>2. \A f \in {"pc", "b", "d", "ot", "was", "beaten"} : NewEpoch(job)[m][f] = job[m][f]
      BY <2>1, <3>1 DEF JobOf
    <3>3. DOMAIN NewEpoch(job)[m] = DOMAIN job[m]
      BY <2>1, <3>1 DEF JobOf
    <3> QED
      BY <2>1, <2>2, <3>2, <3>3 DEF JobOf
  <2>3. CASE ~(m \in Attempts /\ job[m].pc # "free")
    <3>1. NewEpoch(job)[m] = job[m]
      BY <2>3 DEF NewEpoch
    <3> QED
      BY <2>1, <3>1
  <2> QED
    BY <2>2, <2>3
<1> QED
  BY <1>1, <1>3, <1>6, <1>7

LEMMA ApplyKeeps ==
  ASSUME SwitchInv, None \notin Backends, NEW n \in Appliers, NEW t \in Targets, Apply(n, t)
  PROVE  SwitchInv'
<1> DEFINE js == Requested(n, t)
<1>1. /\ n \in JobNames /\ HeldTyped /\ OutputsTyped /\ WayBack /\ Len(ots) \in Nat /\ DOMAIN job = JobNames
      /\ ots \in Seq(Contexts) /\ held \in [on : BOOLEAN, ot : 0 .. Len(ots)] /\ n \notin Retirers
  BY Parts, SwitchRoles
<1>2. /\ t[1] \in Backends /\ t[2] \in Devices /\ (t[1] # "direct" => t[1] \in Connected) /\ DOMAIN js = JobNames
      /\ JobOf(n, js[n], Len(ots)) /\ js[n].pc = "queued" /\ js[n].ot = held.ot
      /\ \A m \in JobNames \ {n} :
           /\ JobOf(m, js[m], Len(ots)) /\ js[m].pc = job[m].pc /\ js[m].b = job[m].b /\ js[m].d = job[m].d
           /\ js[m].beaten = job[m].beaten /\ js[m].ot = job[m].ot /\ (m \notin Attempts => js[m] = job[m])
  BY RequestedJobs
<1> HIDE DEF js
<1>3. job[n].pc = "free" /\ held' = [held EXCEPT !.ot = 0] /\ ots' = Retired(ots, held.ot) /\ be' = be
  BY DEF Apply, At
<1>4. ots' \in Seq(Contexts) /\ Len(ots') = Len(ots)
  <2> DEFINE o == held.ot
  <2>1. o \in 0 .. Len(ots) /\ ots' = Retired(ots, o)
    BY <1>1, <1>3
  <2> HIDE DEF o
  <2>2. Retired(ots, o) \in Seq(Contexts) /\ Len(Retired(ots, o)) = Len(ots)
    BY <1>1, <2>1, RetiredContexts
  <2> QED
    BY <2>1, <2>2
<1>5. held' \in [on : BOOLEAN, ot : 0 .. Len(ots')] /\ held'.on = held.on
  <2>1. held' = [on |-> held.on, ot |-> 0]
    BY <1>1, <1>3
  <2>2. 0 \in 0 .. Len(ots') /\ held.on \in BOOLEAN
    BY <1>1, <1>4
  <2> QED
    BY <2>1, <2>2
<1>6. CASE t[1] = "direct"
  <2> DEFINE was == be[router.active].playing
             d == t[2]
  <2>1. Retirable /\ serial' = serial /\ Commits(js, n, "direct", d, was)
    BY <1>6 DEF Apply, js
  <2>2. "direct" \in Backends /\ "direct" \notin Connected /\ d \in Devices
    BY <1>2 DEF Backends, Connected
  <2>3. ~At(n, "adopted")
    BY <1>3 DEF At
  <2> HIDE DEF was, d
  <2>4. /\ \A m \in JobNames \ {n} : JobOf(m, js[m], Len(ots'))
        /\ JobOf(n, js[n], Len(ots'))
    BY <1>2, <1>4
  <2> QED
    BY <1>2, <1>3, <1>4, <1>5, <2>1, <2>2, <2>3, <2>4, CommitsKeeps
<1>7. CASE t[1] # "direct"
  <2>1. job' = js /\ serial' = Append(serial, n) /\ router' = [router EXCEPT !.intent = n] /\ UNCHANGED <<sel, truth>>
    BY <1>7 DEF Apply, Queues, js
  <2>2. Elsewhere(n)
    BY <1>1, <1>2, <1>3, <2>1, AsideTo
  <2>3. \A m \in JobNames : job'[m] = job[m] \/ (JobOf(m, job'[m], Len(ots')) /\ (SameAttach(m) \/ Elsewhere(m)))
    <3>1. \A m \in JobNames \ {n} : SameAttach(m) /\ JobOf(m, job'[m], Len(ots'))
      BY <1>2, <1>4, <2>1 DEF SameAttach
    <3>2. JobOf(n, job'[n], Len(ots'))
      BY <1>2, <1>4, <2>1
    <3> QED
      BY <2>2, <3>1, <3>2
  <2>4. WayBack'
    <3>1. CASE ~held.on
      BY <1>5, <3>1 DEF WayBack
    <3>2. CASE At("holder", "holding")
      BY <1>2, <2>1, <3>2, SwitchRoles DEF WayBack, At
    <3>3. CASE Ready(held.ot)
      <4>1. Switching(n)'
        BY <1>2, <2>1, <3>3 DEF Ready, Switching
      <4> QED
        BY <4>1 DEF WayBack
    <3>4. ASSUME NEW m \in Appliers, Pledged(m) PROVE WayBack'
      <4>1. m # n
        BY <1>3, <3>4 DEF Pledged, Switching, At
      <4>2. job'[m] = job[m]
        BY <1>2, <2>1, <4>1, SwitchRoles
      <4>3. Pledged(m)'
        BY <3>4, <4>2 DEF Pledged, Switching, At
      <4> QED
        BY <4>3 DEF WayBack, Pledged
    <3> QED
      BY <1>1, <3>1, <3>2, <3>3, <3>4 DEF WayBack, Pledged
  <2>5. DOMAIN router' = DOMAIN router /\ router'.active = router.active /\ router'.pending = router.pending
    BY <1>1, <2>1 DEF OutputsTyped
  <2> QED
    BY <1>1, <1>2, <1>3, <1>4, <1>5, <2>1, <2>3, <2>4, <2>5, AsideStep DEF OutputsTyped
<1> QED
  BY <1>6, <1>7

-----------------------------------------------------------------------------
(* The start, and the whole. *)

LEMMA SwitchStarts ==
  ASSUME SwitchInit, None \notin Backends
  PROVE  SwitchInv
<1>1. PICK d \in {"default", CHOOSE c \in CastDevices : TRUE} :
        LET b == IF d = "default" THEN "direct" ELSE Boot IN
        /\ router = [active |-> b, pending |-> None, intent |-> None]
        /\ be = [x \in Backends |->
                   [conn |-> None, dev |-> IF x = "direct" THEN d ELSE None, playing |-> FALSE]]
        /\ serial = IF b = Boot THEN <<"boot">> ELSE <<>>
        /\ job = [n \in JobNames |-> IF n = "boot" /\ b = Boot THEN Queued(b, d) ELSE NoJob]
        /\ sel = <<b, d>> /\ held = [on |-> FALSE, ot |-> 0] /\ ots = <<>>
        /\ truth = [displaced |-> {}, late |-> {}]
  BY DEF SwitchInit
<1> DEFINE b == IF d = "default" THEN "direct" ELSE Boot
<1>2. b \in Backends /\ d \in Devices /\ None \in Devices
  BY DEF Backends, Connected, Boot, Devices
<1>3. \A n \in JobNames : job[n].pc \in {"free", "queued"} /\ JobOf(n, job[n], 0)
  <2>1. \A n \in JobNames : JobOf(n, NoJob, 0) /\ NoJob.pc = "free"
    BY FreeJob
  <2>2. JobOf("boot", Queued(b, d), 0) /\ Queued(b, d).pc = "queued"
    BY <1>2, SwitchRoles DEF Queued, NoJob, JobOf, Stage, Attempts, Loops
  <2>3. \A n \in JobNames : job[n] = NoJob \/ (n = "boot" /\ job[n] = Queued(b, d))
    BY <1>1
  <2> QED
    BY <2>1, <2>2, <2>3
<1>4. Len(ots) = 0
  BY <1>1
<1>5. JobsTyped
  BY <1>1, <1>3, <1>4 DEF JobsTyped
<1>6. HeldTyped
  <2>1. ots \in Seq(Contexts)
    BY <1>1
  <2>2. held \in [on : BOOLEAN, ot : 0 .. Len(ots)]
    BY <1>1, <1>4
  <2>3. serial \in Seq(JobNames)
    <3>1. "boot" \in JobNames
      BY DEF JobNames, Attempts
    <3>2. <<"boot">> \in Seq({"boot"}) /\ <<>> \in Seq(JobNames)
      OBVIOUS
    <3>3. <<"boot">> \in Seq(JobNames)
      BY <3>1, <3>2
    <3>4. serial = <<"boot">> \/ serial = <<>>
      BY <1>1
    <3> QED
      BY <3>2, <3>3, <3>4
  <2> QED
    BY <2>1, <2>2, <2>3 DEF HeldTyped
<1>7. OutputsTyped
  BY <1>1, <1>2 DEF OutputsTyped
<1>8. OneAttaches
  BY <1>3 DEF OneAttaches, Attaching
<1>9. \A x \in Connected : be[x].conn = None
  BY <1>1 DEF Backends
<1>10. NoneLeft
  BY <1>3, <1>9, SwitchRoles DEF NoneLeft, At
<1>11. OnlySelected
  <2>1. sel[1] = Effective
    BY <1>1 DEF Effective
  <2>2. \A n \in Attempts \cup Appliers : ~At(n, "seeding") /\ ~At(n, "connecting") /\ ~At(n, "adopted")
    BY <1>3, SwitchRoles DEF At
  <2> QED
    BY <1>9, <2>1, <2>2 DEF OnlySelected
<1>12. WayBack
  BY <1>1 DEF WayBack
<1> QED
  BY <1>5, <1>6, <1>7, <1>8, <1>10, <1>11, <1>12 DEF SwitchInv, SwitchShape

LEMMA SwitchStutters ==
  ASSUME SwitchInv, UNCHANGED switchVars
  PROVE  SwitchInv'
<1>1. UNCHANGED <<router, be, serial, job, sel, held, ots, truth>>
  BY DEF switchVars
<1> QED
  BY <1>1, Parts, HoldStays, AsideStep DEF OutputsTyped, Pledged, Switching, At

LEMMA SwitchKept ==
  ASSUME SwitchInv, None \notin Backends, [SwitchNext]_switchVars
  PROVE  SwitchInv'
<1>1. ASSUME NEW n \in Appliers, ApplyWorks(n) PROVE SwitchInv'
  BY <1>1, AppliedKeeps, ApplyFailsKeeps, ApplyEndsKeeps DEF ApplyWorks
<1>2. CASE PlayWorks
  BY <1>2, AdvancesKeeps, SwapsKeeps, PlaysKeeps, PlayRaisesKeeps DEF PlayWorks
<1>3. ASSUME NEW n \in Appliers \cup Attempts, AttachAcquires(n) \/ Seeded(n) \/ Adopts(n) PROVE SwitchInv'
  BY <1>3, AcquiresKeeps, SeededKeeps, AdoptsKeeps
<1>4. ASSUME NEW n \in Loops, LoopSettles(n) \/ Resumes(n) \/ \E trigger : LoopStarts(n, trigger) PROVE SwitchInv'
  BY <1>4, LoopSettlesKeeps, ResumesKeeps, LoopStartsKeeps
<1>5. ASSUME NEW r \in Retirers, RetireDecides(r) \/ Retires(r) PROVE SwitchInv'
  BY <1>5, RetireDecidesKeeps, RetiresKeeps
<1>6. CASE IdleAttempts \/ IdleSettles \/ BootSettles
  BY <1>6, IdleAttemptsKeeps, IdleSettlesKeeps, BootSettlesKeeps
<1>7. CASE Adds \/ TrackEnds \/ OutputLost \/ HoldBegins
  BY <1>7, AddsKeeps, TrackEndsKeeps, DeviceLostKeeps, HoldOpensKeeps
<1>8. ASSUME NEW n \in Appliers, NEW t \in Targets, Apply(n, t) PROVE SwitchInv'
  BY <1>8, ApplyKeeps
<1>9. CASE SwitchNext
  BY <1>1, <1>2, <1>3, <1>4, <1>5, <1>6, <1>7, <1>8, <1>9 DEF SwitchNext
<1> QED
  BY <1>9, SwitchStutters

LEMMA SwitchRight ==
  ASSUME SwitchInv
  PROVE  OutputsRight
<1>1. ASSUME Settled
      PROVE  \A n \in JobNames : ~Attaching(n) /\ ~Releasing(n) /\ job[n].pc = "free"
  BY <1>1 DEF Settled, At, Attaching, Releasing
<1>2. ASSUME Settled, NEW b PROVE ~Leaving(b) /\ ~Landing(b)
  BY <1>1, <1>2, SwitchRoles DEF Leaving, Landing, At
<1>3. NoOrphan
  BY <1>2, Parts DEF NoOrphan, NoneLeft, Kept
<1>4. SelectedHeld
  BY <1>2, Parts DEF SelectedHeld, OnlySelected, HoldsSelected
<1>5. HeldHasWayBack
  BY <1>1, Parts, SwitchRoles DEF HeldHasWayBack, WayBack, Ready, Switching, At
<1> QED
  BY <1>3, <1>4, <1>5 DEF OutputsRight

\* Once all has settled, whatever switch, reconnect loop, idle or boot attach
\* crossed: only the outputs in charge are connected, the one in charge to the
\* device the host selected, and a held queue has a way back (state.py,
\* activate_backend; output/router.py, _apply_backend; output/session.py).
\* For any devices, and any number of switches, attempts, faults and tracks.
THEOREM OutputsKept ==
  ASSUME None \notin Backends
  PROVE  SwitchSpec => []OutputsRight
<1>1. SwitchInit => SwitchInv
  BY SwitchStarts
<1>2. SwitchInv /\ [SwitchNext]_switchVars => SwitchInv'
  BY SwitchKept
<1>3. SwitchInv => OutputsRight
  BY SwitchRight
<1> QED
  BY <1>1, <1>2, <1>3, PTL DEF SwitchSpec

-----------------------------------------------------------------------------
(* The connection: the inductive invariant. *)

Table == [v : Nat, whole : BOOLEAN]
Store == [queue : Table, catalog : Table, plays : Nat, setting : Nat]
Kinds == {"none", "queue", "catalog", "play", "setting"}
Stages == {"off", "start", "begun", "deleted", "written"}
Job == [kind : Kinds, pc : Stages, v : Nat, tries : Nat]

ConnShape ==
    /\ disk \in Store /\ work \in Store
    /\ lock \in Seq(Writers) /\ writing \in [Writers -> Job] /\ mem \in Nat
    /\ acked \in [plays : Nat, setting : Nat]
    /\ spent \in [writes : Nat, errors : Nat, crashes : Nat]

Locking == {"queue", "catalog", "play"}
Waits(w) == writing[w].kind \in Locking
Saving(w) == writing[w].kind = "queue"

\* The line of the lock: everyone that needs it is in it once.
InLine ==
    /\ \A i \in 1 .. Len(lock) : Waits(lock[i])
    /\ \A i, j \in 1 .. Len(lock) : lock[i] = lock[j] => i = j

\* Only the holder is past its start, and deletes or inserts a whole table.
Inside ==
    \A w \in Writers :
        /\ Waits(w) => writing[w].pc = "start" \/ Conn!Holds(w)
        /\ writing[w].pc = "deleted" => writing[w].kind \in Conn!Tables
        /\ writing[w].pc = "begun" => writing[w].kind = "catalog"

\* A play that was acknowledged is committed, one that is written is there.
PlaysSafe ==
    /\ acked.plays <= disk.plays /\ disk.plays <= work.plays
    /\ \A w \in Writers : writing[w].kind = "play" /\ writing[w].pc = "written" => acked.plays < work.plays

Saved(n) == [v |-> n, whole |-> TRUE]
Undisturbed == spent.errors = 0 /\ spent.crashes = 0

\* The saves stand in line in the order of the changes; the last one holds
\* the queue of now, or all are through and the table does.
SavesInOrder ==
    /\ \A w \in Writers : Saving(w) => writing[w].v <= mem
    /\ \A w \in Writers : Saving(w) => \E i \in 1 .. Len(lock) : lock[i] = w
    /\ \A i, j \in 1 .. Len(lock) :
          i < j /\ Saving(lock[i]) /\ Saving(lock[j]) => writing[lock[i]].v < writing[lock[j]].v
SaveWritten ==
    Undisturbed => \A w \in Writers : Saving(w) /\ writing[w].pc = "written" => work.queue = Saved(writing[w].v)
LastSaved ==
    Undisturbed => \/ \E w \in Writers : Saving(w) /\ writing[w].v = mem
                   \/ /\ \A w \in Writers : ~Saving(w)
                      /\ work.queue = Saved(mem) /\ disk.queue = Saved(mem)

ConnInv == ConnShape /\ InLine /\ Inside /\ PlaysSafe /\ SavesInOrder /\ SaveWritten /\ LastSaved

-----------------------------------------------------------------------------
(* The line *)

\* A writer that joins the line stands behind all the others.
LEMMA Joins ==
  ASSUME lock \in Seq(Writers), NEW w \in Writers, lock' = Append(lock, w)
  PROVE  /\ lock' \in Seq(Writers) /\ Len(lock) \in Nat /\ Len(lock') = Len(lock) + 1
         /\ \A i \in 1 .. Len(lock) : lock'[i] = lock[i]
         /\ lock'[Len(lock) + 1] = w
         /\ lock # <<>> => lock' # <<>> /\ Head(lock') = Head(lock)
<1>1. /\ lock' \in Seq(Writers) /\ lock' # <<>> /\ Len(lock') = Len(lock) + 1
      /\ \A i \in 1 .. Len(lock) : lock'[i] = lock[i]
      /\ lock'[Len(lock) + 1] = w
  BY AppendProperties
<1>2. Len(lock) \in Nat
  BY LenProperties
<1>3. ASSUME lock # <<>> PROVE Head(lock') = Head(lock)
  <2>1. Len(lock) # 0
    BY <1>3, EmptySeq
  <2>2. 1 \in 1 .. Len(lock)
    BY <1>2, <2>1
  <2>3. Head(lock) = lock[1] /\ Head(lock') = lock'[1]
    BY <1>1, <1>3, HeadTailProperties
  <2> QED
    BY <1>1, <2>2, <2>3
<1> QED
  BY <1>1, <1>2, <1>3

\* The holder is the first of the line; when it leaves the others move up.
LEMMA Fronts ==
  ASSUME lock \in Seq(Writers), NEW w \in Writers, Conn!Holds(w)
  PROVE  /\ Len(lock) \in Nat /\ 1 \in 1 .. Len(lock) /\ lock[1] = w
         /\ Tail(lock) \in Seq(Writers) /\ Len(Tail(lock)) = Len(lock) - 1
         /\ \A i \in 1 .. Len(lock) - 1 : Tail(lock)[i] = lock[i + 1]
<1>1. lock # <<>> /\ Head(lock) = w
  BY DEF Conn!Holds
<1>2. Len(lock) \in Nat /\ Len(lock) # 0
  BY <1>1, LenProperties, EmptySeq
<1>3. /\ Head(lock) = lock[1] /\ Tail(lock) \in Seq(Writers) /\ Len(Tail(lock)) = Len(lock) - 1
      /\ \A i \in 1 .. Len(Tail(lock)) : Tail(lock)[i] = lock[i + 1]
  BY <1>1, HeadTailProperties
<1> QED
  BY <1>1, <1>2, <1>3

\* The first of the line holds the lock.
LEMMA FirstHolds ==
  ASSUME lock \in Seq(Writers), 1 \in 1 .. Len(lock)
  PROVE  Conn!Holds(lock[1])
  BY HeadTailProperties, EmptySeq DEF Conn!Holds

\* A writer that has no job joins the line.
LEMMA JoinKeeps ==
  ASSUME ConnShape, InLine, Inside, NEW w \in Writers, NEW j \in Job,
         writing[w].kind = "none", j.kind \in Locking, j.pc = "start",
         writing' = [writing EXCEPT ![w] = j], lock' = Append(lock, w)
  PROVE  lock' \in Seq(Writers) /\ writing' \in [Writers -> Job] /\ InLine' /\ Inside'
<1>0. lock \in Seq(Writers) /\ writing \in [Writers -> Job]
  BY DEF ConnShape
<1>1. /\ lock' \in Seq(Writers) /\ Len(lock) \in Nat /\ Len(lock') = Len(lock) + 1
      /\ \A i \in 1 .. Len(lock) : lock'[i] = lock[i] /\ lock[i] \in Writers
      /\ lock'[Len(lock) + 1] = w
      /\ lock # <<>> => lock' # <<>> /\ Head(lock') = Head(lock)
  BY <1>0, Joins, ElementOfSeq
<1>2. writing' \in [Writers -> Job] /\ writing'[w] = j /\ \A u \in Writers \ {w} : writing'[u] = writing[u]
  BY <1>0
<1>3. \A i \in 1 .. Len(lock) : lock[i] # w /\ lock[i] \in Writers \ {w}
  BY <1>1 DEF InLine, Waits, Locking
<1>4. \A i \in 1 .. Len(lock') : i \in 1 .. Len(lock) \/ i = Len(lock) + 1
  BY <1>1
<1>5. InLine'
  <2>1. ASSUME NEW i \in 1 .. Len(lock') PROVE Waits(lock[i])'
    <3>1. CASE i \in 1 .. Len(lock)
      BY <1>1, <1>2, <1>3, <3>1 DEF InLine, Waits
    <3>2. CASE i = Len(lock) + 1
      BY <1>1, <1>2, <3>2 DEF Waits
    <3> QED
      BY <1>4, <3>1, <3>2
  <2>2. ASSUME NEW i \in 1 .. Len(lock'), NEW k \in 1 .. Len(lock'), lock'[i] = lock'[k] PROVE i = k
    <3>1. CASE i \in 1 .. Len(lock) /\ k \in 1 .. Len(lock)
      BY <1>1, <2>2, <3>1 DEF InLine
    <3>2. CASE i = Len(lock) + 1 \/ k = Len(lock) + 1
      BY <1>1, <1>3, <1>4, <2>2, <3>2
    <3> QED
      BY <1>4, <3>1, <3>2
  <2> QED
    BY <2>1, <2>2 DEF InLine
<1>6. Inside'
  <2> SUFFICES ASSUME NEW u \in Writers
               PROVE  /\ Waits(u)' => writing'[u].pc = "start" \/ Conn!Holds(u)'
                      /\ writing'[u].pc = "deleted" => writing'[u].kind \in Conn!Tables
                      /\ writing'[u].pc = "begun" => writing'[u].kind = "catalog"
    BY DEF Inside
  <2>1. CASE u = w
    BY <1>2, <2>1
  <2>2. CASE u # w
    BY <1>1, <1>2, <2>2 DEF Inside, Waits, Conn!Holds
  <2> QED
    BY <2>1, <2>2
<1> QED
  BY <1>1, <1>2, <1>5, <1>6

\* A step of a writer that stays where it is in the line.
LEMMA StayKeeps ==
  ASSUME ConnShape, InLine, Inside, NEW w \in Writers, NEW j \in Job,
         j.kind \in Locking <=> Waits(w), j.kind \in Locking => j.pc = "start" \/ Conn!Holds(w),
         j.pc = "deleted" => j.kind \in Conn!Tables, j.pc = "begun" => j.kind = "catalog",
         writing' = [writing EXCEPT ![w] = j], lock' = lock
  PROVE  lock' \in Seq(Writers) /\ writing' \in [Writers -> Job] /\ InLine' /\ Inside'
<1>0. lock \in Seq(Writers) /\ writing \in [Writers -> Job]
  BY DEF ConnShape
<1>1. \A i \in 1 .. Len(lock) : lock[i] \in Writers
  BY <1>0, ElementOfSeq
<1>2. writing' \in [Writers -> Job] /\ writing'[w] = j /\ \A u \in Writers \ {w} : writing'[u] = writing[u]
  BY <1>0
<1>3. \A u \in Writers : Waits(u)' <=> Waits(u)
  BY <1>2 DEF Waits
<1>4. InLine'
  BY <1>1, <1>3 DEF InLine
<1>5. Inside'
  <2> SUFFICES ASSUME NEW u \in Writers
               PROVE  /\ Waits(u)' => writing'[u].pc = "start" \/ Conn!Holds(u)'
                      /\ writing'[u].pc = "deleted" => writing'[u].kind \in Conn!Tables
                      /\ writing'[u].pc = "begun" => writing'[u].kind = "catalog"
    BY DEF Inside
  <2>1. CASE u = w
    BY <1>2, <2>1 DEF Conn!Holds, Waits
  <2>2. CASE u # w
    BY <1>2, <2>2 DEF Inside, Waits, Conn!Holds
  <2> QED
    BY <2>1, <2>2
<1> QED
  BY <1>0, <1>2, <1>4, <1>5

\* A writer that ends leaves the line, if it was in it at its front.
LEMMA LeaveKeeps ==
  ASSUME ConnShape, InLine, Inside, NEW w \in Writers, Waits(w) => Conn!Holds(w),
         writing' = [writing EXCEPT ![w] = Conn!Off], lock' = IF Conn!Holds(w) THEN Tail(lock) ELSE lock
  PROVE  /\ lock' \in Seq(Writers) /\ writing' \in [Writers -> Job] /\ InLine' /\ Inside'
         /\ Waits(w) <=> Conn!Holds(w)
<1>0. /\ lock \in Seq(Writers) /\ writing \in [Writers -> Job]
      /\ Conn!Off \in Job /\ Conn!Off.kind = "none" /\ Conn!Off.pc = "off" /\ Conn!Off.kind \notin Locking
  BY DEF ConnShape, Job, Conn!Off, Kinds, Stages, Locking
<1>w. Conn!Holds(w) => Waits(w)
  BY <1>0, Fronts DEF InLine
<1>1. CASE ~Waits(w)
  <2>1. lock' = lock
    BY <1>1, <1>w
  <2> QED
    BY <1>0, <1>1, <1>w, <2>1, StayKeeps
<1>2. CASE Waits(w)
  <2>1. /\ Len(lock) \in Nat /\ 1 \in 1 .. Len(lock) /\ lock[1] = w /\ lock' = Tail(lock)
        /\ lock' \in Seq(Writers) /\ Len(lock') = Len(lock) - 1
        /\ \A i \in 1 .. Len(lock) - 1 : lock'[i] = lock[i + 1]
    BY <1>0, <1>2, Fronts
  <2>2. writing' \in [Writers -> Job] /\ writing'[w] = Conn!Off /\ \A u \in Writers \ {w} : writing'[u] = writing[u]
    BY <1>0
  <2>3. \A i \in 1 .. Len(lock') : /\ i + 1 \in 1 .. Len(lock) /\ i + 1 # 1
                                   /\ lock'[i] = lock[i + 1]
    BY SMTT(30), <2>1
  <2>4. \A i \in 1 .. Len(lock') : lock'[i] \in Writers \ {w} /\ Waits(lock[i + 1])
    BY SMTT(30), <1>0, <2>1, <2>3, ElementOfSeq DEF InLine
  <2>5. InLine'
    <3>1. ASSUME NEW i \in 1 .. Len(lock') PROVE Waits(lock[i])'
      BY <2>2, <2>3, <2>4 DEF Waits
    <3>2. ASSUME NEW i \in 1 .. Len(lock'), NEW k \in 1 .. Len(lock'), lock'[i] = lock'[k] PROVE i = k
      <4>1. i + 1 = k + 1
        BY <2>3, <3>2 DEF InLine
      <4> QED
        BY <4>1
    <3> QED
      BY <3>1, <3>2 DEF InLine
  <2>6. Inside'
    <3> SUFFICES ASSUME NEW u \in Writers
                 PROVE  /\ Waits(u)' => writing'[u].pc = "start" \/ Conn!Holds(u)'
                        /\ writing'[u].pc = "deleted" => writing'[u].kind \in Conn!Tables
                        /\ writing'[u].pc = "begun" => writing'[u].kind = "catalog"
      BY DEF Inside
    <3>1. CASE u = w
      BY <1>0, <2>2, <3>1 DEF Waits
    <3>2. CASE u # w
      <4>1. ~Conn!Holds(u)
        BY <1>2, <3>2 DEF Conn!Holds
      <4> QED
        BY <2>2, <3>2, <4>1 DEF Inside, Waits
    <3> QED
      BY <3>1, <3>2
  <2> QED
    BY <1>2, <1>w, <2>1, <2>2, <2>5, <2>6
<1> QED
  BY <1>1, <1>2

-----------------------------------------------------------------------------
(* The saves in the line *)

\* A save that joins holds the newest queue.
LEMMA SaveJoins ==
  ASSUME ConnShape, InLine, SavesInOrder, NEW w \in Writers, NEW j \in Job,
         writing[w].kind = "none", j.kind = "queue" => j.v = mem + 1,
         mem' = IF j.kind = "queue" THEN mem + 1 ELSE mem,
         writing' = [writing EXCEPT ![w] = j], lock' = Append(lock, w)
  PROVE  SavesInOrder'
<1>0. lock \in Seq(Writers) /\ writing \in [Writers -> Job] /\ mem \in Nat /\ mem' \in Nat /\ mem <= mem'
  BY DEF ConnShape
<1>1. /\ Len(lock) \in Nat /\ Len(lock') = Len(lock) + 1
      /\ \A i \in 1 .. Len(lock) : lock'[i] = lock[i] /\ lock[i] \in Writers
      /\ lock'[Len(lock) + 1] = w
  BY <1>0, Joins, ElementOfSeq
<1>2. writing'[w] = j /\ \A u \in Writers \ {w} : writing'[u] = writing[u]
  BY <1>0
<1>3. \A i \in 1 .. Len(lock) : lock[i] \in Writers \ {w}
  BY <1>1 DEF InLine, Waits, Locking
<1>4. /\ \A i \in 1 .. Len(lock') : i \in 1 .. Len(lock) \/ i = Len(lock) + 1
      /\ \A i \in 1 .. Len(lock) : i \in 1 .. Len(lock')
      /\ Len(lock) + 1 \in 1 .. Len(lock')
  BY <1>1
<1>5. \A u \in Writers : writing[u].v \in Nat
  BY <1>0 DEF Job
<1>6. ASSUME NEW u \in Writers, Saving(u)'
      PROVE  writing'[u].v <= mem' /\ \E i \in 1 .. Len(lock') : lock'[i] = u
  <2>1. CASE u = w
    BY <1>0, <1>1, <1>2, <1>4, <1>6, <2>1 DEF Saving
  <2>2. CASE u # w
    <3>1. Saving(u) /\ writing'[u] = writing[u]
      BY <1>2, <1>6, <2>2 DEF Saving
    <3> QED
      BY <1>0, <1>1, <1>4, <1>5, <3>1 DEF SavesInOrder
  <2> QED
    BY <2>1, <2>2
<1>7. ASSUME NEW i \in 1 .. Len(lock'), NEW k \in 1 .. Len(lock'), i < k,
             Saving(lock[i])', Saving(lock[k])'
      PROVE  writing'[lock'[i]].v < writing'[lock'[k]].v
  <2>1. i \in 1 .. Len(lock)
    BY <1>1, <1>4, <1>7
  <2>2. lock'[i] = lock[i] /\ lock[i] \in Writers \ {w} /\ writing'[lock[i]] = writing[lock[i]] /\ Saving(lock[i])
    BY <1>1, <1>2, <1>3, <1>7, <2>1 DEF Saving
  <2>3. writing[lock[i]].v <= mem
    BY <2>2 DEF SavesInOrder
  <2>4. CASE k \in 1 .. Len(lock)
    <3>1. lock'[k] = lock[k] /\ lock[k] \in Writers \ {w} /\ writing'[lock[k]] = writing[lock[k]] /\ Saving(lock[k])
      BY <1>1, <1>2, <1>3, <1>7, <2>4 DEF Saving
    <3> QED
      BY <1>7, <2>1, <2>2, <2>4, <3>1 DEF SavesInOrder
  <2>5. CASE k = Len(lock) + 1
    <3>1. j.kind = "queue" /\ writing'[lock'[k]] = j
      BY <1>1, <1>2, <1>7, <2>5 DEF Saving
    <3>2. writing'[lock'[k]].v = mem + 1 /\ writing'[lock'[i]].v = writing[lock[i]].v
      BY <2>2, <3>1
    <3> QED
      BY <1>0, <1>5, <2>2, <2>3, <3>2
  <2> QED
    BY <1>4, <2>4, <2>5
<1> QED
  BY <1>6, <1>7 DEF SavesInOrder

\* A step inside a save changes nothing of the order.
LEMMA SaveStays ==
  ASSUME ConnShape, SavesInOrder, NEW w \in Writers, NEW j \in Job,
         j.kind = "queue" => Saving(w) /\ j.v = writing[w].v,
         writing' = [writing EXCEPT ![w] = j], lock' = lock, mem' = mem
  PROVE  SavesInOrder'
<1>0. lock \in Seq(Writers) /\ writing \in [Writers -> Job]
  BY DEF ConnShape
<1>1. \A i \in 1 .. Len(lock) : lock[i] \in Writers
  BY <1>0, ElementOfSeq
<1>2. \A u \in Writers : Saving(u)' => Saving(u) /\ writing'[u].v = writing[u].v
  BY <1>0 DEF Saving
<1>3. ASSUME NEW i \in 1 .. Len(lock'), NEW k \in 1 .. Len(lock'), i < k,
             Saving(lock[i])', Saving(lock[k])'
      PROVE  writing'[lock'[i]].v < writing'[lock'[k]].v
  BY <1>1, <1>2, <1>3 DEF SavesInOrder
<1> QED
  BY <1>2, <1>3 DEF SavesInOrder

\* When the front of the line leaves, the others keep their order.
LEMMA SaveLeaves ==
  ASSUME ConnShape, InLine, SavesInOrder, NEW w \in Writers, Waits(w) <=> Conn!Holds(w),
         writing' = [writing EXCEPT ![w] = Conn!Off], mem' = mem,
         lock' = IF Conn!Holds(w) THEN Tail(lock) ELSE lock
  PROVE  SavesInOrder'
<1>0. /\ lock \in Seq(Writers) /\ writing \in [Writers -> Job]
      /\ Conn!Off \in Job /\ Conn!Off.kind = "none"
  BY DEF ConnShape, Job, Conn!Off, Kinds, Stages
<1>1. CASE ~Conn!Holds(w)
  BY <1>0, <1>1, SaveStays
<1>2. CASE Conn!Holds(w)
  <2>1. /\ Len(lock) \in Nat /\ 1 \in 1 .. Len(lock) /\ lock[1] = w /\ lock' = Tail(lock)
        /\ lock' \in Seq(Writers) /\ Len(lock') = Len(lock) - 1
        /\ \A i \in 1 .. Len(lock) - 1 : lock'[i] = lock[i + 1]
    BY <1>0, <1>2, Fronts
  <2>2. writing'[w] = Conn!Off /\ \A u \in Writers \ {w} : writing'[u] = writing[u]
    BY <1>0
  <2>3. \A i \in 1 .. Len(lock') : /\ i + 1 \in 1 .. Len(lock) /\ i + 1 # 1
                                   /\ lock'[i] = lock[i + 1]
    BY SMTT(30), <2>1
  <2>4. \A i \in 1 .. Len(lock') : lock'[i] \in Writers \ {w}
    BY SMTT(30), <1>0, <2>1, <2>3, ElementOfSeq DEF InLine
  <2>5. ASSUME NEW u \in Writers, Saving(u)'
        PROVE  writing'[u].v <= mem' /\ \E i \in 1 .. Len(lock') : lock'[i] = u
    <3>1. u # w /\ Saving(u) /\ writing'[u] = writing[u]
      BY <1>0, <2>2, <2>5 DEF Saving
    <3>2. PICK i \in 1 .. Len(lock) : lock[i] = u
      BY <3>1 DEF SavesInOrder
    <3>3. i - 1 \in 1 .. Len(lock') /\ (i - 1) + 1 = i
      BY <2>1, <3>1, <3>2
    <3>4. lock'[i - 1] = u
      BY <2>3, <3>2, <3>3
    <3> QED
      BY <3>1, <3>3, <3>4 DEF SavesInOrder
  <2>6. ASSUME NEW i \in 1 .. Len(lock'), NEW k \in 1 .. Len(lock'), i < k,
               Saving(lock[i])', Saving(lock[k])'
        PROVE  writing'[lock'[i]].v < writing'[lock'[k]].v
    <3>1. /\ i + 1 \in 1 .. Len(lock) /\ k + 1 \in 1 .. Len(lock) /\ i + 1 < k + 1
          /\ lock'[i] = lock[i + 1] /\ lock'[k] = lock[k + 1]
      BY <2>3, <2>6
    <3>2. writing'[lock'[i]] = writing[lock[i + 1]] /\ writing'[lock'[k]] = writing[lock[k + 1]]
      BY <2>2, <2>4, <3>1
    <3>3. Saving(lock[i + 1]) /\ Saving(lock[k + 1])
      BY <2>6, <3>1, <3>2 DEF Saving
    <3> QED
      BY <3>1, <3>2, <3>3 DEF SavesInOrder
  <2> QED
    BY <2>5, <2>6 DEF SavesInOrder
<1> QED
  BY <1>1, <1>2

-----------------------------------------------------------------------------
(* The steps *)

\* One table of a store is rewritten, the rest of it stays.
LEMMA Rewritten ==
  ASSUME NEW s \in Store, NEW k \in Conn!Tables, NEW t \in Table
  PROVE  /\ [s EXCEPT ![k] = t] \in Store /\ [s EXCEPT ![k] = t].plays = s.plays
         /\ [s EXCEPT ![k] = t].queue = IF k = "queue" THEN t ELSE s.queue
  BY DEF Store, Conn!Tables

\* What no step of a writer touches but its own job.
LEMMA OthersJobs ==
  ASSUME ConnShape, NEW w \in Writers, NEW j, writing' = [writing EXCEPT ![w] = j]
  PROVE  /\ writing[w] \in Job /\ writing'[w] = j
         /\ \A u \in Writers : u # w => writing'[u] = writing[u]
  BY DEF ConnShape

\* A writer that begins behind the lock.
LEMMA BeginsKeeps ==
  ASSUME ConnInv, NEW w \in Writers, NEW kind \in Locking, NEW v \in Nat,
         Conn!Begins(w, kind, v), lock' = Append(lock, w), kind = "queue" => v = mem + 1,
         mem' = IF kind = "queue" THEN mem + 1 ELSE mem
  PROVE  ConnInv'
<1> DEFINE j == [kind |-> kind, pc |-> "start", v |-> v, tries |-> 0]
<1>0. ConnShape /\ InLine /\ Inside /\ PlaysSafe /\ SavesInOrder /\ SaveWritten /\ LastSaved
  BY DEF ConnInv
<1>1. j \in Job /\ j.kind = kind /\ j.pc = "start" /\ j.v = v
  BY DEF Job, Kinds, Stages, Locking
<1>2. /\ writing' = [writing EXCEPT ![w] = j] /\ writing[w].kind = "none"
      /\ spent' = [spent EXCEPT !.writes = @ + 1]
      /\ disk' = disk /\ work' = work /\ acked' = acked
  <2>1. writing[w] = Conn!Off /\ writing' = [writing EXCEPT ![w] = j] /\ Conn!Spends("writes")
    BY DEF Conn!Begins
  <2>2. disk' = disk /\ work' = work /\ acked' = acked
    BY DEF Conn!Begins
  <2>3. writing[w].kind = "none"
    BY <2>1 DEF Conn!Off
  <2>4. spent' = [spent EXCEPT !.writes = @ + 1]
    BY <2>1 DEF Conn!Spends
  <2> QED
    BY <2>1, <2>2, <2>3, <2>4
<1> HIDE DEF j
<1>3. lock' \in Seq(Writers) /\ writing' \in [Writers -> Job] /\ InLine' /\ Inside'
  BY <1>0, <1>1, <1>2, JoinKeeps
<1>4. SavesInOrder'
  BY <1>0, <1>1, <1>2, SaveJoins
<1>5. writing'[w] = j /\ \A u \in Writers : u # w => writing'[u] = writing[u]
  BY <1>0, <1>2, OthersJobs
<1>6. /\ spent' \in [writes : Nat, errors : Nat, crashes : Nat]
      /\ spent'.errors = spent.errors /\ spent'.crashes = spent.crashes /\ mem' \in Nat
  BY SMTT(30), <1>0, <1>2 DEF ConnShape
<1>7. ConnShape'
  BY <1>0, <1>2, <1>3, <1>6 DEF ConnShape
<1>8. PlaysSafe'
  BY <1>0, <1>1, <1>2, <1>5 DEF PlaysSafe
<1>9. SaveWritten'
  BY <1>0, <1>1, <1>2, <1>5, <1>6 DEF SaveWritten, Undisturbed, Saving
<1>10. LastSaved'
  <2>1. CASE kind = "queue"
    BY <1>1, <1>5, <2>1 DEF LastSaved, Saving
  <2>2. CASE kind # "queue"
    <3>1. mem' = mem /\ Undisturbed' = Undisturbed
      BY <1>6, <2>2 DEF Undisturbed
    <3>2. \A u \in Writers : /\ Saving(u)' <=> Saving(u)
                             /\ Saving(u) => writing'[u].v = writing[u].v
      BY <1>1, <1>2, <1>5, <2>2 DEF Saving
    <3> QED
      BY <1>0, <1>2, <3>1, <3>2 DEF LastSaved
  <2> QED
    BY <2>1, <2>2
<1> QED
  BY <1>3, <1>4, <1>7, <1>8, <1>9, <1>10 DEF ConnInv

\* A statement of one writer, which stays where it is: what it leaves in the
\* tables decides.
LEMMA StatementKeeps ==
  ASSUME ConnInv, NEW w \in Writers, NEW j \in Job,
         j.kind \in Locking <=> Waits(w), j.kind \in Locking => j.pc = "start" \/ Conn!Holds(w),
         j.pc = "deleted" => j.kind \in Conn!Tables, j.pc = "begun" => j.kind = "catalog",
         j.kind = "queue" <=> Saving(w), Saving(w) => j.v = writing[w].v,
         writing' = [writing EXCEPT ![w] = j], lock' = lock, mem' = mem, disk' = disk, acked' = acked,
         spent' \in [writes : Nat, errors : Nat, crashes : Nat],
         spent'.errors = spent.errors, spent'.crashes = spent.crashes,
         work' \in Store, work.plays <= work'.plays,
         j.kind = "play" /\ j.pc = "written" => work.plays < work'.plays,
         work'.queue = work.queue \/ (Saving(w) /\ Conn!Holds(w)),
         Saving(w) /\ j.pc = "written" => work'.queue = Saved(j.v)
  PROVE  ConnInv'
<1>0. ConnShape /\ InLine /\ Inside /\ PlaysSafe /\ SavesInOrder /\ SaveWritten /\ LastSaved
  BY DEF ConnInv
<1>1. lock' \in Seq(Writers) /\ writing' \in [Writers -> Job] /\ InLine' /\ Inside'
  BY <1>0, StayKeeps
<1>2. SavesInOrder'
  BY <1>0, SaveStays
<1>3. writing'[w] = j /\ \A u \in Writers : u # w => writing'[u] = writing[u]
  BY <1>0, OthersJobs
<1>4. ConnShape'
  BY <1>0, <1>1 DEF ConnShape
<1>5. PlaysSafe'
  <2>1. /\ acked.plays \in Nat /\ disk.plays \in Nat /\ work.plays \in Nat /\ work'.plays \in Nat
        /\ acked.plays <= disk.plays /\ disk.plays <= work.plays
    BY <1>0 DEF ConnShape, Store, PlaysSafe
  <2>2. ASSUME NEW u \in Writers, writing'[u].kind = "play", writing'[u].pc = "written"
        PROVE  acked.plays < work'.plays
    <3>1. CASE u = w
      BY <1>3, <2>1, <2>2, <3>1
    <3>2. CASE u # w
      <4>1. acked.plays < work.plays
        BY <1>0, <1>3, <2>2, <3>2 DEF PlaysSafe
      <4> QED
        BY <2>1, <4>1
    <3> QED
      BY <3>1, <3>2
  <2> QED
    BY <2>1, <2>2 DEF PlaysSafe
<1>6. SaveWritten'
  <2> SUFFICES ASSUME Undisturbed, NEW u \in Writers, Saving(u)', writing'[u].pc = "written"
               PROVE  work'.queue = Saved(writing'[u].v)
    BY DEF SaveWritten, Undisturbed
  <2>1. CASE u = w
    BY <1>3, <2>1 DEF Saving
  <2>2. CASE u # w
    <3>1. Saving(u) /\ writing[u].pc = "written" /\ writing'[u] = writing[u]
      BY <1>3, <2>2 DEF Saving
    <3>2. Conn!Holds(u)
      BY <1>0, <3>1 DEF Inside, Waits, Saving, Locking
    <3>3. ~Conn!Holds(w)
      BY <2>2, <3>2 DEF Conn!Holds
    <3> QED
      BY <1>0, <3>1, <3>3 DEF SaveWritten
  <2> QED
    BY <2>1, <2>2
<1>7. LastSaved'
  <2>1. Undisturbed' = Undisturbed
    BY DEF Undisturbed
  <2>2. \A u \in Writers : (Saving(u)' <=> Saving(u)) /\ (Saving(u) => writing'[u].v = writing[u].v)
    BY <1>3 DEF Saving
  <2> QED
    BY <1>0, <2>1, <2>2 DEF LastSaved
<1> QED
  BY <1>1, <1>2, <1>4, <1>5, <1>6, <1>7 DEF ConnInv

\* A writer that ends, its writes committed or never made.
LEMMA EndKeeps ==
  ASSUME ConnInv, NEW w \in Writers, Waits(w) => Conn!Holds(w), Conn!Ends(w), Conn!Leaves(w),
         disk' = disk \/ disk' = work, work' = work, mem' = mem, spent' = spent,
         acked' \in [plays : Nat, setting : Nat],
         \/ acked'.plays = acked.plays
         \/ /\ acked'.plays = acked.plays + 1 /\ disk' = work
            /\ writing[w].kind = "play" /\ writing[w].pc = "written",
         Saving(w) => writing[w].pc = "written" /\ disk' = work
  PROVE  ConnInv'
<1>0. ConnShape /\ InLine /\ Inside /\ PlaysSafe /\ SavesInOrder /\ SaveWritten /\ LastSaved
  BY DEF ConnInv
<1>1. writing' = [writing EXCEPT ![w] = Conn!Off] /\ lock' = IF Conn!Holds(w) THEN Tail(lock) ELSE lock
  BY DEF Conn!Ends, Conn!Leaves
<1>2. lock' \in Seq(Writers) /\ writing' \in [Writers -> Job] /\ InLine' /\ Inside' /\ (Waits(w) <=> Conn!Holds(w))
  BY <1>0, <1>1, LeaveKeeps
<1>3. SavesInOrder'
  BY <1>0, <1>1, <1>2, SaveLeaves
<1>4. /\ writing'[w].kind = "none" /\ writing'[w].pc = "off"
      /\ \A u \in Writers : u # w => writing'[u] = writing[u]
  <2>1. writing'[w] = Conn!Off /\ \A u \in Writers : u # w => writing'[u] = writing[u]
    BY <1>0, <1>1, OthersJobs
  <2> QED
    BY <2>1 DEF Conn!Off
<1>5. ConnShape'
  BY <1>0, <1>2 DEF ConnShape
<1>6. PlaysSafe'
  <2>1. /\ acked.plays \in Nat /\ disk.plays \in Nat /\ work.plays \in Nat
        /\ acked.plays <= disk.plays /\ disk.plays <= work.plays
    BY <1>0 DEF ConnShape, Store, PlaysSafe
  <2>2. acked'.plays <= disk'.plays /\ disk'.plays <= work'.plays
    <3>1. CASE acked'.plays = acked.plays
      BY <2>1, <3>1
    <3>2. CASE /\ acked'.plays = acked.plays + 1 /\ disk' = work
               /\ writing[w].kind = "play" /\ writing[w].pc = "written"
      <4>1. acked.plays < work.plays
        BY <1>0, <3>2 DEF PlaysSafe
      <4> QED
        BY <2>1, <3>2, <4>1
    <3> QED
      BY <3>1, <3>2
  <2>3. ASSUME NEW u \in Writers, writing'[u].kind = "play", writing'[u].pc = "written"
        PROVE  acked'.plays < work'.plays
    <3>1. u # w /\ writing[u].kind = "play" /\ writing[u].pc = "written"
      BY <1>4, <2>3
    <3>2. Conn!Holds(u)
      BY <1>0, <3>1 DEF Inside, Waits, Locking
    <3>3. ~Conn!Holds(w)
      BY <3>1, <3>2 DEF Conn!Holds
    <3>4. acked'.plays = acked.plays
      BY <1>2, <3>3 DEF Waits, Locking
    <3> QED
      BY <1>0, <3>1, <3>4 DEF PlaysSafe
  <2> QED
    BY <2>2, <2>3 DEF PlaysSafe
<1>7. SaveWritten'
  BY <1>0, <1>4 DEF SaveWritten, Undisturbed, Saving
<1>8. LastSaved'
  <2> SUFFICES ASSUME Undisturbed
               PROVE  \/ \E u \in Writers : Saving(u)' /\ writing'[u].v = mem
                      \/ /\ \A u \in Writers : ~Saving(u)'
                         /\ work.queue = Saved(mem) /\ disk'.queue = Saved(mem)
    BY DEF LastSaved, Undisturbed
  <2>0. \A u \in Writers : Saving(u)' <=> u # w /\ Saving(u)
    BY <1>4 DEF Saving
  <2>1. CASE ~Saving(w)
    <3>1. \A u \in Writers : (Saving(u)' <=> Saving(u)) /\ (Saving(u) => writing'[u].v = writing[u].v)
      BY <1>4, <2>0, <2>1
    <3> QED
      BY <1>0, <3>1 DEF LastSaved
  <2>2. CASE Saving(w)
    <3>1. work.queue = Saved(writing[w].v) /\ disk' = work
      BY <1>0, <2>2 DEF SaveWritten
    <3>2. PICK n \in Writers : Saving(n) /\ writing[n].v = mem
      BY <1>0, <2>2 DEF LastSaved
    <3>3. CASE n # w
      BY <1>4, <2>0, <3>2, <3>3
    <3>4. CASE n = w
      <4>1. ASSUME NEW u \in Writers, Saving(u)' PROVE FALSE
        <5>1. u # w /\ Saving(u)
          BY <2>0, <4>1
        <5>2. PICK i \in 1 .. Len(lock) : lock[i] = u
          BY <1>0, <5>1 DEF SavesInOrder
        <5>3. Len(lock) \in Nat /\ 1 \in 1 .. Len(lock) /\ lock[1] = w
          BY <1>0, <1>2, <2>2, Fronts DEF Waits, Saving, Locking, ConnShape
        <5>4. 1 < i
          BY <5>1, <5>2, <5>3
        <5>5. writing[w].v < writing[u].v
          BY <1>0, <2>2, <5>1, <5>2, <5>3, <5>4 DEF SavesInOrder
        <5>6. writing[u].v <= mem /\ writing[u].v \in Nat /\ writing[w].v \in Nat /\ mem \in Nat
          BY <1>0, <5>1 DEF SavesInOrder, ConnShape, Job
        <5> QED
          BY <3>2, <3>4, <5>5, <5>6
      <4> QED
        BY <3>1, <3>2, <3>4, <4>1
    <3> QED
      BY <3>3, <3>4
  <2> QED
    BY <2>1, <2>2
<1> QED
  BY <1>2, <1>3, <1>5, <1>6, <1>7, <1>8 DEF ConnInv

\* A rollback or a crash: what was open is as it was committed, and the saves
\* of this run owe nothing any more.
LEMMA DisturbedKeeps ==
  ASSUME ConnShape, PlaysSafe, disk' = disk, work' = disk, acked' = acked, mem' \in Nat,
         spent' \in [writes : Nat, errors : Nat, crashes : Nat],
         spent'.errors > 0 \/ spent'.crashes > 0,
         lock' \in Seq(Writers), writing' \in [Writers -> Job], InLine', Inside', SavesInOrder',
         \A w \in Writers : writing'[w].kind = "play" => writing'[w].pc # "written"
  PROVE  ConnInv'
<1>1. ~Undisturbed'
  BY DEF Undisturbed
<1>2. SaveWritten' /\ LastSaved'
  BY <1>1 DEF SaveWritten, LastSaved
<1>3. ConnShape'
  BY DEF ConnShape
<1>4. PlaysSafe'
  <2>1. disk.plays \in Nat /\ acked.plays <= disk.plays
    BY DEF ConnShape, Store, PlaysSafe
  <2> QED
    BY <2>1 DEF PlaysSafe
<1> QED
  BY <1>2, <1>3, <1>4 DEF ConnInv

LEMMA RollbackKeeps ==
  ASSUME ConnInv, NEW w \in Writers, Conn!RollsBack(w)
  PROVE  ConnInv'
<1>0. ConnShape /\ InLine /\ Inside /\ PlaysSafe /\ SavesInOrder
  BY DEF ConnInv
<1>1. /\ Waits(w) /\ writing[w].pc # "start" /\ Conn!Ends(w) /\ Conn!Leaves(w) /\ Conn!Spends("errors")
      /\ disk' = disk /\ work' = disk /\ acked' = acked /\ mem' = mem
  BY DEF Conn!RollsBack, Waits, Locking, Conn!Tables
<1>2. Conn!Holds(w)
  BY <1>0, <1>1 DEF Inside
<1>3. writing' = [writing EXCEPT ![w] = Conn!Off] /\ lock' = IF Conn!Holds(w) THEN Tail(lock) ELSE lock
  BY <1>1 DEF Conn!Ends, Conn!Leaves
<1>4. lock' \in Seq(Writers) /\ writing' \in [Writers -> Job] /\ InLine' /\ Inside' /\ (Waits(w) <=> Conn!Holds(w))
  BY <1>0, <1>2, <1>3, LeaveKeeps
<1>5. SavesInOrder'
  BY <1>0, <1>1, <1>3, <1>4, SaveLeaves
<1>6. spent' \in [writes : Nat, errors : Nat, crashes : Nat] /\ spent'.errors > 0
  <2>1. spent' = [spent EXCEPT !.errors = @ + 1]
    BY <1>1 DEF Conn!Spends
  <2> QED
    BY <1>0, <2>1 DEF ConnShape
<1>7. ASSUME NEW u \in Writers, writing'[u].kind = "play" PROVE writing'[u].pc # "written"
  <2>1. writing'[w] = Conn!Off /\ \A x \in Writers : x # w => writing'[x] = writing[x]
    BY <1>0, <1>3, OthersJobs
  <2>2. u # w /\ writing[u].kind = "play" /\ writing'[u] = writing[u]
    BY <1>7, <2>1 DEF Conn!Off
  <2>3. ~Conn!Holds(u)
    BY <1>2, <2>2 DEF Conn!Holds
  <2> QED
    BY <1>0, <2>2, <2>3 DEF Inside, Waits, Locking
<1>8. mem' \in Nat
  BY <1>0, <1>1 DEF ConnShape
<1> QED
  BY <1>0, <1>1, <1>4, <1>5, <1>6, <1>7, <1>8, DisturbedKeeps

LEMMA CrashKeeps ==
  ASSUME ConnInv, Conn!Crashes
  PROVE  ConnInv'
<1>0. ConnShape /\ PlaysSafe
  BY DEF ConnInv
<1>1. /\ disk' = disk /\ work' = disk /\ acked' = acked /\ mem' = disk.queue.v /\ lock' = <<>>
      /\ writing' = [w \in Writers |-> Conn!Off] /\ Conn!Spends("crashes")
  BY DEF Conn!Crashes
<1>2. spent' \in [writes : Nat, errors : Nat, crashes : Nat] /\ spent'.crashes > 0
  <2>1. spent' = [spent EXCEPT !.crashes = @ + 1]
    BY <1>1 DEF Conn!Spends
  <2> QED
    BY <1>0, <2>1 DEF ConnShape
<1>3. mem' \in Nat
  BY <1>0, <1>1 DEF ConnShape, Store, Table
<1>4. lock' \in Seq(Writers) /\ Len(lock') = 0
  BY <1>1, EmptySeq
<1>5. /\ writing' \in [Writers -> Job]
      /\ \A w \in Writers : writing'[w].kind = "none" /\ writing'[w].pc = "off"
  BY <1>1 DEF Conn!Off, Job, Kinds, Stages
<1>6. InLine'
  BY <1>4 DEF InLine
<1>7. Inside'
  BY <1>5 DEF Inside, Waits, Locking
<1>8. SavesInOrder'
  BY <1>4, <1>5 DEF SavesInOrder, Saving
<1> QED
  BY <1>0, <1>1, <1>2, <1>3, <1>4, <1>5, <1>6, <1>7, <1>8, DisturbedKeeps

\* The job of a writer that goes on to another statement.
LEMMA ConnGoes ==
  ASSUME ConnShape, NEW w \in Writers, NEW pc \in Stages, Conn!Step(w, pc)
  PROVE  \E j \in Job : /\ writing' = [writing EXCEPT ![w] = j] /\ j.pc = pc
                        /\ j.kind = writing[w].kind /\ j.v = writing[w].v
<1> DEFINE j == [writing[w] EXCEPT !.pc = pc]
<1>1. writing[w] \in Job
  BY DEF ConnShape
<1>2. j \in Job /\ j.pc = pc /\ j.kind = writing[w].kind /\ j.v = writing[w].v
  BY <1>1 DEF Job
<1>3. writing' = [writing EXCEPT ![w] = j]
  BY DEF Conn!Step
<1> QED
  BY <1>2, <1>3

LEMMA CommitKeeps ==
  ASSUME ConnInv, NEW w \in Writers, Conn!Commits(w)
  PROVE  ConnInv'
<1>0. ConnShape /\ Inside
  BY DEF ConnInv
<1>1. /\ writing[w].pc = "written" /\ disk' = work /\ work' = work /\ mem' = mem /\ spent' = spent
      /\ Conn!Leaves(w) /\ Conn!Ends(w)
  BY DEF Conn!Commits
<1>2. /\ acked' \in [plays : Nat, setting : Nat]
      /\ \/ acked'.plays = acked.plays
         \/ acked'.plays = acked.plays + 1 /\ writing[w].kind = "play"
  <2>0. acked \in [plays : Nat, setting : Nat] /\ writing[w].v \in Nat
    BY <1>0 DEF ConnShape, Job
  <2>1. CASE writing[w].kind = "play"
    <3>1. acked' = [acked EXCEPT !.plays = @ + 1]
      BY <2>1 DEF Conn!Commits
    <3> QED
      BY <2>0, <2>1, <3>1
  <2>2. CASE writing[w].kind = "setting"
    <3>1. acked' = [acked EXCEPT !.setting = writing[w].v]
      BY <2>2 DEF Conn!Commits
    <3> QED
      BY <2>0, <3>1
  <2>3. CASE writing[w].kind \notin {"play", "setting"}
    <3>1. acked' = acked
      BY <2>3 DEF Conn!Commits
    <3> QED
      BY <2>0, <3>1
  <2> QED
    BY <2>1, <2>2, <2>3
<1>3. Waits(w) => Conn!Holds(w)
  BY <1>0, <1>1 DEF Inside
<1> QED
  BY <1>1, <1>2, <1>3, EndKeeps

LEMMA SetsKeeps ==
  ASSUME ConnInv, NEW w \in Writers, Conn!Sets(w)
  PROVE  ConnInv'
<1> DEFINE j == [kind |-> "setting", pc |-> "start", v |-> acked.setting + 1, tries |-> 0]
<1>0. ConnShape
  BY DEF ConnInv
<1>1. Conn!Begins(w, "setting", acked.setting + 1) /\ mem' = mem /\ lock' = lock
  BY DEF Conn!Sets
<1>2. writing[w] = Conn!Off /\ writing' = [writing EXCEPT ![w] = j] /\ Conn!Spends("writes")
  BY <1>1 DEF Conn!Begins
<1>3. disk' = disk /\ work' = work /\ acked' = acked
  BY <1>1 DEF Conn!Begins
<1>4. /\ j \in Job /\ j.kind = "setting" /\ j.pc = "start"
      /\ j.kind \notin Locking /\ j.kind # "queue" /\ j.kind # "play"
  BY <1>0 DEF ConnShape, Job, Kinds, Stages, Locking
<1> HIDE DEF j
<1>5. ~Waits(w) /\ ~Saving(w)
  BY <1>2 DEF Waits, Saving, Locking, Conn!Off
<1>6. /\ spent' \in [writes : Nat, errors : Nat, crashes : Nat]
      /\ spent'.errors = spent.errors /\ spent'.crashes = spent.crashes
  <2>1. spent' = [spent EXCEPT !.writes = @ + 1]
    BY <1>2 DEF Conn!Spends
  <2> QED
    BY <1>0, <2>1 DEF ConnShape
<1>7. work' \in Store /\ work.plays \in Nat
  BY <1>0, <1>3 DEF ConnShape, Store
<1>8. j.pc # "deleted" /\ j.pc # "begun" /\ j.pc # "written" /\ work.plays <= work'.plays
  BY <1>3, <1>4, <1>7
<1> QED
  BY <1>1, <1>2, <1>3, <1>4, <1>5, <1>6, <1>7, <1>8, StatementKeeps

\* A statement of a writer at the front of the line, or of a setting.
LEMMA GoesKeeps ==
  ASSUME ConnInv, NEW w \in Writers, NEW pc \in Stages, Conn!Step(w, pc),
         Waits(w) => Conn!Holds(w),
         pc = "deleted" => writing[w].kind \in Conn!Tables, pc = "begun" => writing[w].kind = "catalog",
         lock' = lock, mem' = mem, disk' = disk, acked' = acked, spent' = spent,
         work' \in Store, work.plays <= work'.plays,
         writing[w].kind = "play" /\ pc = "written" => work.plays < work'.plays,
         work'.queue = work.queue \/ Saving(w),
         Saving(w) /\ pc = "written" => work'.queue = Saved(writing[w].v)
  PROVE  ConnInv'
<1>0. ConnShape
  BY DEF ConnInv
<1>1. PICK j \in Job : /\ writing' = [writing EXCEPT ![w] = j] /\ j.pc = pc
                       /\ j.kind = writing[w].kind /\ j.v = writing[w].v
  BY <1>0, ConnGoes
<1>2. /\ j.kind \in Locking <=> Waits(w)
      /\ j.kind = "queue" <=> Saving(w)
      /\ Saving(w) => Waits(w)
  BY <1>1 DEF Waits, Saving, Locking
<1>3. spent' \in [writes : Nat, errors : Nat, crashes : Nat]
  BY <1>0 DEF ConnShape
<1> QED
  BY <1>1, <1>2, <1>3, StatementKeeps

LEMMA BeginKeeps ==
  ASSUME ConnInv, NEW w \in Writers, Conn!BeginsOrCollides(w)
  PROVE  ConnInv'
<1>0. ConnShape
  BY DEF ConnInv
<1>1. /\ writing[w].kind = "catalog" /\ Conn!Holds(w) /\ writing[w].pc = "start"
      /\ disk' = disk /\ work' = work /\ mem' = mem /\ acked' = acked /\ spent' = spent
  BY DEF Conn!BeginsOrCollides
<1>2. Waits(w) /\ ~Saving(w) /\ work' \in Store /\ work.plays \in Nat
  BY <1>0, <1>1 DEF ConnShape, Store, Waits, Saving, Locking
<1>3. spent' \in [writes : Nat, errors : Nat, crashes : Nat] /\ acked' \in [plays : Nat, setting : Nat]
  BY <1>0, <1>1 DEF ConnShape
<1>4. CASE Conn!Step(w, "begun") /\ lock' = lock
  BY <1>1, <1>2, <1>4, GoesKeeps DEF Stages
<1>5. CASE writing' = [writing EXCEPT ![w].tries = @ + 1] /\ lock' = lock
  <2> DEFINE j == [writing[w] EXCEPT !.tries = @ + 1]
  <2>1. writing[w] \in Job
    BY <1>0 DEF ConnShape
  <2>2. j \in Job /\ j.pc = writing[w].pc /\ j.kind = writing[w].kind
    BY <2>1 DEF Job
  <2>3. writing' = [writing EXCEPT ![w] = j]
    BY <1>5
  <2> HIDE DEF j
  <2>4. j.kind \in Locking /\ j.kind # "queue" /\ j.kind # "play" /\ j.pc = "start"
    BY <1>1, <2>2 DEF Locking
  <2>5. /\ work.plays <= work'.plays /\ work'.queue = work.queue
        /\ spent'.errors = spent.errors /\ spent'.crashes = spent.crashes
    BY <1>1, <1>2
  <2>6. j.pc # "deleted" /\ j.pc # "begun" /\ j.pc # "written"
    BY <2>4
  <2> QED
    BY <1>1, <1>2, <1>3, <1>5, <2>2, <2>3, <2>4, <2>5, <2>6, StatementKeeps
<1>6. CASE Conn!Ends(w) /\ lock' = Tail(lock)
  <2>1. Conn!Leaves(w)
    BY <1>1, <1>6 DEF Conn!Leaves
  <2> QED
    BY <1>1, <1>2, <1>3, <1>6, <2>1, EndKeeps
<1> QED
  BY <1>4, <1>5, <1>6 DEF Conn!BeginsOrCollides

LEMMA DeleteKeeps ==
  ASSUME ConnInv, NEW w \in Writers, Conn!Deletes(w)
  PROVE  ConnInv'
<1> DEFINE k == writing[w].kind
           t == [work[k] EXCEPT !.whole = FALSE]
<1>0. ConnShape /\ Inside
  BY DEF ConnInv
<1>1. /\ Conn!Ready(w) /\ work' = [work EXCEPT ![k] = t] /\ Conn!Step(w, "deleted")
      /\ lock' = lock /\ disk' = disk /\ mem' = mem /\ acked' = acked /\ spent' = spent
  BY DEF Conn!Deletes
<1>2. k \in Conn!Tables /\ Conn!Holds(w)
  BY <1>0, <1>1 DEF Conn!Ready, Conn!Tables, Inside, Waits, Locking
<1>3. work \in Store /\ work.plays \in Nat
  BY <1>0 DEF ConnShape, Store
<1>4. t \in Table
  <2>1. work[k] \in Table
    BY <1>2, <1>3 DEF Store, Conn!Tables
  <2> QED
    BY <2>1 DEF Table
<1> HIDE DEF t
<1>5. /\ work' \in Store /\ work'.plays = work.plays
      /\ work'.queue = work.queue \/ Saving(w)
  <2>1. /\ work' \in Store /\ work'.plays = work.plays
        /\ work'.queue = IF k = "queue" THEN t ELSE work.queue
    BY <1>1, <1>2, <1>3, <1>4, Rewritten
  <2> QED
    BY <2>1 DEF Saving
<1>6. work.plays <= work'.plays
  BY <1>3, <1>5
<1> QED
  BY <1>1, <1>2, <1>5, <1>6, GoesKeeps DEF Stages

LEMMA InsertKeeps ==
  ASSUME ConnInv, NEW w \in Writers, Conn!Inserts(w)
  PROVE  ConnInv'
<1> DEFINE k == writing[w].kind
           t == [v |-> writing[w].v, whole |-> TRUE]
<1>0. ConnShape /\ Inside
  BY DEF ConnInv
<1>1. /\ writing[w].pc = "deleted" /\ work' = [work EXCEPT ![k] = t] /\ Conn!Step(w, "written")
      /\ lock' = lock /\ disk' = disk /\ mem' = mem /\ acked' = acked /\ spent' = spent
  BY DEF Conn!Inserts
<1>2. k \in Conn!Tables /\ Conn!Holds(w) /\ k # "play"
  BY <1>0, <1>1 DEF Conn!Tables, Inside, Waits, Locking
<1>3. work \in Store /\ work.plays \in Nat
  BY <1>0 DEF ConnShape, Store
<1>4. t \in Table /\ t = Saved(writing[w].v)
  BY <1>0 DEF ConnShape, Job, Table, Saved
<1> HIDE DEF t
<1>5. /\ work' \in Store /\ work'.plays = work.plays
      /\ work'.queue = IF k = "queue" THEN t ELSE work.queue
  BY <1>1, <1>2, <1>3, <1>4, Rewritten
<1>6. work.plays <= work'.plays
  BY <1>3, <1>5
<1>7. (work'.queue = work.queue \/ Saving(w)) /\ (Saving(w) => work'.queue = Saved(writing[w].v))
  BY <1>4, <1>5 DEF Saving
<1> QED
  BY <1>1, <1>2, <1>5, <1>6, <1>7, GoesKeeps DEF Stages

\* An upsert of one number of the store.
LEMMA BumpKeeps ==
  ASSUME ConnInv, NEW w \in Writers, Conn!Bumps(w)
  PROVE  ConnInv'
<1>0. ConnShape
  BY DEF ConnInv
<1>1. /\ writing[w].kind = "play" /\ Conn!Holds(w) /\ work' = [work EXCEPT !.plays = @ + 1] /\ Conn!Step(w, "written")
      /\ lock' = lock /\ disk' = disk /\ mem' = mem /\ acked' = acked /\ spent' = spent
  BY DEF Conn!Bumps
<1>2. /\ work' \in Store /\ work.plays < work'.plays /\ work.plays <= work'.plays
      /\ work'.queue = work.queue
  BY SMTT(30), <1>0, <1>1 DEF ConnShape, Store
<1>3. ~Saving(w)
  BY <1>1 DEF Saving
<1> QED
  BY <1>1, <1>2, <1>3, GoesKeeps DEF Stages

LEMMA PutKeeps ==
  ASSUME ConnInv, NEW w \in Writers, Conn!Puts(w)
  PROVE  ConnInv'
<1>0. ConnShape
  BY DEF ConnInv
<1>1. /\ writing[w].kind = "setting" /\ work' = [work EXCEPT !.setting = writing[w].v] /\ Conn!Step(w, "written")
      /\ lock' = lock /\ disk' = disk /\ mem' = mem /\ acked' = acked /\ spent' = spent
  BY DEF Conn!Puts
<1>2. /\ work' \in Store /\ work.plays <= work'.plays /\ work'.queue = work.queue
  <2>1. work \in Store /\ work.plays \in Nat /\ writing[w].v \in Nat
    BY <1>0 DEF ConnShape, Store, Job
  <2>2. work' \in Store /\ work'.plays = work.plays /\ work'.queue = work.queue
    BY <1>1, <2>1 DEF Store
  <2> QED
    BY <2>1, <2>2
<1>3. ~Saving(w) /\ ~Waits(w)
  BY <1>1 DEF Saving, Waits, Locking
<1> QED
  BY <1>1, <1>2, <1>3, GoesKeeps DEF Stages

-----------------------------------------------------------------------------
(* The specification *)

LEMMA ConnInitially == Conn!ConnInit => ConnInv
<1> SUFFICES ASSUME Conn!ConnInit PROVE ConnInv
  OBVIOUS
<1>1. Conn!Fresh \in Store /\ Conn!Fresh.plays = 0 /\ Conn!Fresh.queue = Saved(0)
  BY DEF Conn!Fresh, Store, Table, Saved
<1>2. Conn!Off \in Job /\ Conn!Off.kind = "none" /\ Conn!Off.pc = "off"
  BY DEF Conn!Off, Job, Kinds, Stages
<1>3. /\ disk = Conn!Fresh /\ work = Conn!Fresh /\ lock = <<>> /\ mem = 0
      /\ writing = [w \in Writers |-> Conn!Off] /\ acked = [plays |-> 0, setting |-> 0]
      /\ spent = [writes |-> 0, errors |-> 0, crashes |-> 0]
  BY DEF Conn!ConnInit
<1>4. lock \in Seq(Writers) /\ Len(lock) = 0
  BY <1>3, EmptySeq
<1>5. ConnShape
  BY <1>1, <1>2, <1>3, <1>4 DEF ConnShape
<1>6. InLine /\ Inside /\ PlaysSafe
  BY <1>1, <1>2, <1>3, <1>4 DEF InLine, Inside, PlaysSafe, Waits, Locking
<1>7. SavesInOrder /\ SaveWritten /\ LastSaved
  BY <1>1, <1>2, <1>3, <1>4 DEF SavesInOrder, SaveWritten, LastSaved, Saving
<1> QED
  BY <1>5, <1>6, <1>7 DEF ConnInv

LEMMA ConnSteps == ConnInv /\ [Conn!ConnNext]_(Conn!connVars) => ConnInv'
<1> SUFFICES ASSUME ConnInv, [Conn!ConnNext]_(Conn!connVars) PROVE ConnInv'
  OBVIOUS
<1>0. ConnShape
  BY DEF ConnInv
<1>1. ASSUME NEW w \in Writers, Conn!Persists(w) PROVE ConnInv'
  <2>1. Conn!Begins(w, "queue", mem + 1) /\ mem' = mem + 1 /\ lock' = Append(lock, w) /\ mem + 1 \in Nat
    BY <1>0, <1>1 DEF Conn!Persists, ConnShape
  <2> QED
    BY <2>1, BeginsKeeps DEF Locking
<1>2. ASSUME NEW w \in Writers, Conn!Replaces(w) PROVE ConnInv'
  <2>1. /\ Conn!Begins(w, "catalog", work.catalog.v + 1) /\ mem' = mem /\ lock' = Append(lock, w)
        /\ work.catalog.v + 1 \in Nat
    BY SMTT(30), <1>0, <1>2 DEF Conn!Replaces, ConnShape, Store, Table
  <2> QED
    BY <2>1, BeginsKeeps DEF Locking
<1>3. ASSUME NEW w \in Writers, Conn!Counts(w) PROVE ConnInv'
  <2>1. Conn!Begins(w, "play", 0) /\ mem' = mem /\ lock' = Append(lock, w)
    BY <1>3 DEF Conn!Counts
  <2> QED
    BY <2>1, BeginsKeeps DEF Locking
<1>4. CASE UNCHANGED Conn!connVars
  <2>1. /\ disk' = disk /\ work' = work /\ lock' = lock /\ writing' = writing /\ mem' = mem
        /\ acked' = acked /\ spent' = spent
    BY <1>4 DEF Conn!connVars
  <2> QED
    BY <2>1 DEF ConnInv, ConnShape, InLine, Inside, PlaysSafe, SavesInOrder, SaveWritten, LastSaved,
                Waits, Saving, Conn!Holds, Undisturbed
<1> QED
  BY <1>1, <1>2, <1>3, <1>4, SetsKeeps, BeginKeeps, DeleteKeeps, InsertKeeps, BumpKeeps, PutKeeps,
     CommitKeeps, RollbackKeeps, CrashKeeps DEF Conn!ConnNext

LEMMA ConnAlways == Conn!ConnSpec => []ConnInv
  BY ConnInitially, ConnSteps, PTL DEF Conn!ConnSpec

\* A play whose write returned is committed, whatever else is rolled back, and
\* survives the crash of the process: for any writers, bounds and retries
\* (database.py, increment_play_count under _write_tx_lock).
THEOREM CountedPlaysKept == Conn!ConnSpec => []Conn!PlaysKept
<1>1. ConnInv => Conn!PlaysKept
  BY DEF ConnInv, PlaysSafe, Conn!PlaysKept
<1> QED
  BY <1>1, ConnAlways, PTL

\* When every save has ended and none failed, the stored queue is the queue
\* of now and whole: the fair lock makes the saves land in the order of the
\* changes (database.py, save_queue; queue/engine.py, _persist).
THEOREM SavesLandInOrder == Conn!ConnSpec => []Conn!LastSaveWins
<1>1. ConnInv => Conn!LastSaveWins
  BY DEF ConnInv, LastSaved, Conn!LastSaveWins, Saving, Saved, Undisturbed
<1> QED
  BY <1>1, ConnAlways, PTL
=============================================================================
