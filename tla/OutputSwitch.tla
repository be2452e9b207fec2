---------------------------- MODULE OutputSwitch ----------------------------
(***************************************************************************)
(* Which output plays: the router with its deferred switch, the attach     *)
(* that every switch, reconnect and idle attempt makes under one lock, the *)
(* retirement of the output that is left, and the hold that a lost device  *)
(* opens.  A job is one task; a step is its code between two awaits.       *)
(***************************************************************************)
EXTENDS Naturals, Sequences, FiniteSets

CONSTANTS
    CastDevices, DlnaDevices, \* the devices of the two connected backends
    None,
    MaxApplies,  \* bound: switches the admin applies
    MaxAttempts, \* bound: attaches nobody pressed for, after an outage or idle
    MaxFaults,   \* bound: devices that fail or stay away, once each
    MaxAdds      \* bound: tracks queued

VARIABLES
    router, \* _active, _pending and the switch requested, the job's name
    be,     \* per backend: the connection, _device_id, is_playing
    serial, \* _attach_serial: its holder first, then its waiters
    job,    \* the tasks
    sel,    \* the selected output in memory
    held,   \* _output_hold and the supervisor's _outage
    ots,    \* the outage contexts opened so far
    host,   \* the queue: items left, whether one is current
    truth,  \* what no code reads: pending outputs displaced, attaches retired
    consumed
switchVars == <<router, be, serial, job, sel, held, ots, host, truth, consumed>>

Connected == {"cast", "dlna"}
Backends == Connected \cup {"direct"}
Targets == ({"cast"} \X CastDevices) \cup ({"dlna"} \X DlnaDevices) \cup {<<"direct", "default">>}
Appliers == {"apply1", "apply2"}
Loops == {"loop1", "loop2"}
Retirers == {"retire1", "retire2"}
Attempts == Loops \cup {"idle", "boot"}
JobNames == Appliers \cup Attempts \cup Retirers \cup {"play", "holder"}

\* old: attach_epoch moved since the job read it; beaten: its backend's
\* _attach_gen moved since; was: was_playing; ot: the context it works for.
NoJob == [pc |-> "free", b |-> None, d |-> None, old |-> FALSE, beaten |-> FALSE, ot |-> 0,
         was |-> FALSE]
At(n, pc) == job[n].pc = pc
JobGoes(n, pc) == [job EXCEPT ![n].pc = pc]
JobEnds(n) == [job EXCEPT ![n] = NoJob]
NewEpoch(js) == [n \in JobNames |->
    IF n \in Attempts /\ js[n].pc # "free" THEN [js[n] EXCEPT !.old = TRUE] ELSE js[n]]
NewGen(js, b) == [n \in JobNames |->
    IF js[n].b = b /\ js[n].pc \in {"connecting", "stopping", "swapping"}
    THEN [js[n] EXCEPT !.beaten = TRUE] ELSE js[n]]
Spends(what) == consumed' = [consumed EXCEPT ![what] = @ + 1]

\* The host starts with its own speakers, or with a device it attaches first.
Boot == "cast"
Queued(b, d) == [NoJob EXCEPT !.pc = "queued", !.b = b, !.d = d]
SwitchInit ==
    \E d \in {"default", CHOOSE c \in CastDevices : TRUE} :
      LET b == IF d = "default" THEN "direct" ELSE Boot IN
      /\ router = [active |-> b, pending |-> None, intent |-> None]
      /\ be = [x \in Backends |->
                 [conn |-> None, dev |-> IF x = "direct" THEN d ELSE None, playing |-> FALSE]]
      /\ serial = IF b = Boot THEN <<"boot">> ELSE <<>>
      /\ job = [n \in JobNames |-> IF n = "boot" /\ b = Boot THEN Queued(b, d) ELSE NoJob]
      /\ sel = <<b, d>>
      /\ held = [on |-> FALSE, ot |-> 0] /\ ots = <<>>
      /\ host = [left |-> 0, playing |-> FALSE]
      /\ truth = [displaced |-> {}, late |-> {}]
      /\ consumed = [applies |-> 0, attempts |-> 0, faults |-> 0, adds |-> 0]

-----------------------------------------------------------------------------
(* The hold and its reconnect context. *)

Retired(os, o) == IF o = 0 THEN os ELSE [os EXCEPT ![o].retired = TRUE]

Reconnectable(b, d) == b \in Connected /\ d # None
Opened(os, h, b, d) ==
    Append(Retired(os, h.ot), [b |-> b, d |-> d, retired |-> FALSE, attached |-> FALSE,
                               armed |-> Reconnectable(b, d), inflight |-> FALSE])
BeginOutage(b, d) ==
    /\ ots' = Opened(ots, held, b, d)
    /\ held' = [held EXCEPT !.ot = Len(ots) + 1]

ClearHold ==
    IF held.on THEN /\ held' = [held EXCEPT !.on = FALSE, !.ot = 0]
                    /\ ots' = Retired(ots, held.ot)
    ELSE UNCHANGED <<held, ots>>

\* An output the admin is leaving has no say over the hold any more.
ReporterIsActive(b) ==
    router.active = b /\ IF router.intent = None THEN TRUE ELSE job[router.intent].b = b

OutputLost ==
    /\ consumed.faults < MaxFaults /\ be[router.active].playing /\ ReporterIsActive(router.active)
    /\ ~held.on /\ At("holder", "free")
    /\ held' = [held EXCEPT !.on = TRUE]
    /\ be' = [be EXCEPT ![router.active].playing = FALSE]
    /\ job' = [job EXCEPT !["holder"] = [NoJob EXCEPT !.pc = "holding", !.b = router.active]]
    /\ Spends("faults") /\ UNCHANGED <<router, serial, sel, ots, host, truth>>

HoldBegins ==
    /\ At("holder", "holding")
    /\ host' = IF host.playing THEN [left |-> host.left + 1, playing |-> FALSE] ELSE host
    /\ BeginOutage(job["holder"].b, be[job["holder"].b].dev)
    /\ job' = JobEnds("holder")
    /\ UNCHANGED <<router, be, serial, sel, truth, consumed>>

-----------------------------------------------------------------------------
(* The attach, one at a time under the lock. *)

Queues(n) == serial' = Append(serial, n)
Holds(n) == serial # <<>> /\ Head(serial) = n

\* set_device frees the connection it replaces before it first waits.
Entered(b) == [be EXCEPT ![b].conn = None, ![b].playing = IF b = "cast" THEN FALSE ELSE @]
Enters(n) ==
    /\ be' = Entered(job[n].b)
    /\ job' = [NewGen(job, job[n].b) EXCEPT ![n].pc = "connecting"]
    /\ truth' = [truth EXCEPT !.late = LET at == <<job[n].b, job[n].d>> IN
                    IF n \in Appliers \/ at = sel THEN @ \ {at[1]}
                    ELSE IF job[n].old \/ At(n, "seeding") THEN @ ELSE @ \cup {at[1]}]

\* An attempt nobody pressed for first looks whether a switch came meanwhile;
\* those of the supervisor then read the stored address.
AbortsRetired(n) == n \notin Appliers /\ job[n].ot # 0 /\ ots[job[n].ot].retired
Aborts(n) ==
    /\ n \notin Appliers
    /\ \/ job[n].old
       \/ job[n].ot # 0 /\ ots[job[n].ot].retired
AttachAcquires(n) ==
    /\ At(n, "queued") /\ Holds(n) /\ ~Aborts(n)
    /\ IF n \in Appliers \cup {"boot"} THEN Enters(n)
       ELSE /\ job' = JobGoes(n, "seeding") /\ UNCHANGED be
            /\ truth' = [truth EXCEPT !.late =
                            IF job[n].old \/ <<job[n].b, job[n].d>> = sel THEN @ ELSE @ \cup {job[n].b}]
    /\ UNCHANGED <<router, serial, sel, held, ots, host, consumed>>
Seeded(n) ==
    /\ At(n, "seeding") /\ Enters(n)
    /\ UNCHANGED <<router, serial, sel, held, ots, host, consumed>>

Superseded(n) == job[n].beaten
\* The device does not answer, or a newer attach or a release came between.
Misses(n) ==
    \/ Superseded(n) /\ UNCHANGED consumed
    \/ consumed.faults < MaxFaults /\ Spends("faults")
Adopts(n) ==
    /\ At(n, "connecting") /\ ~Superseded(n)
    /\ be' = [be EXCEPT ![job[n].b].conn = job[n].d, ![job[n].b].dev = job[n].d]
    /\ job' = JobGoes(n, "adopted")
    /\ UNCHANGED <<router, serial, sel, held, ots, host, truth, consumed>>

-----------------------------------------------------------------------------
(* The switch the admin applies. *)

Retiring(js, b) ==
    LET r == CHOOSE x \in Retirers : js[x].pc = "free"
    IN [js EXCEPT ![r] = [NoJob EXCEPT !.pc = "spawned", !.b = b]]

\* Bound: two outputs are retired at a time.
Retirable == \E r \in Retirers : At(r, "free")

\* _apply_backend: what played when the switch was requested plays to its end.
Commits(js, n, to, d, was) ==
    LET old == router.active
        rest == [js EXCEPT ![n].pc = "saving"]
    IN /\ router' = [router EXCEPT !.active = IF was THEN @ ELSE to,
                                   !.pending = IF was THEN to ELSE None,
                                   !.intent = IF @ = n THEN None ELSE @]
       /\ job' = IF was \/ old = to THEN rest ELSE Retiring(rest, old)
       /\ truth' = [displaced |-> (truth.displaced \cup ({router.pending} \ {None})) \ {to},
                    late |-> truth.late \cup {job[x].b : x \in {y \in Attempts : At(y, "seeding")}}]
       /\ sel' = <<to, d>>

\* Fault variant: the device is the one the backend last had.
RequestedKnown(n, t) ==
    [NewEpoch(job) EXCEPT
        ![n] = [NoJob EXCEPT !.pc = "queued", !.b = t[1], !.d = be[t[1]].dev, !.ot = held.ot,
                            !.was = be[router.active].playing]]
Requested(n, t) ==
    [NewEpoch(job) EXCEPT
        ![n] = [NoJob EXCEPT !.pc = "queued", !.b = t[1], !.d = t[2], !.ot = held.ot,
                            !.was = be[router.active].playing]]
\* The host's own speakers need no attach: the request commits at once.
Apply(n, t) ==
    /\ At(n, "free") /\ consumed.applies < MaxApplies /\ Spends("applies")
    /\ held' = [held EXCEPT !.ot = 0] /\ ots' = Retired(ots, held.ot)
    /\ IF t[1] = "direct"
       THEN /\ Retirable /\ UNCHANGED serial
            /\ Commits(Requested(n, t), n, "direct", t[2], be[router.active].playing)
       ELSE /\ job' = Requested(n, t) /\ Queues(n)
            /\ router' = [router EXCEPT !.intent = n] /\ UNCHANGED <<sel, truth>>
    /\ UNCHANGED <<be, host>>

Applied(n) ==
    /\ n \in Appliers /\ At(n, "adopted") /\ Retirable /\ Commits(job, n, job[n].b, job[n].d, job[n].was)
    /\ serial' = Tail(serial)
    /\ UNCHANGED <<be, held, ots, host, consumed>>

\* A switch that fails hands the reconnect loop back.
ForgetsLoop(n) == UNCHANGED <<held, ots>>
HandsBack(n) ==
    IF held.on /\ job[n].ot # 0 THEN BeginOutage(ots[job[n].ot].b, ots[job[n].ot].d)
    ELSE UNCHANGED <<held, ots>>
ApplyFails(n) ==
    /\ n \in Appliers /\ At(n, "connecting")
    /\ Misses(n)
    /\ HandsBack(n)
    /\ router' = [router EXCEPT !.intent = IF @ = n THEN None ELSE @]
    /\ serial' = Tail(serial) /\ job' = JobEnds(n)
    /\ UNCHANGED <<be, sel, host, truth>>

Spawned(js) == IF js["play"].pc = "free" THEN [js EXCEPT !["play"].pc = "spawned"] ELSE js
ApplyEnds(n) ==
    /\ At(n, "saving") /\ ClearHold
    /\ job' = IF ~host.playing /\ host.left > 0 THEN Spawned(JobEnds(n)) ELSE JobEnds(n)
    /\ UNCHANGED <<router, be, serial, sel, host, truth, consumed>>

-----------------------------------------------------------------------------
(* Retiring an output, by a task of its own or before the next play. *)

RetireDecides(r) ==
    /\ At(r, "spawned") /\ r \in Retirers
    /\ job' = JobGoes(r, "stopping")
    /\ UNCHANGED <<router, be, serial, sel, held, ots, host, truth, consumed>>

OnlyStopped(b) == [be EXCEPT ![b].playing = FALSE]
Released(b) == [be EXCEPT ![b].conn = None, ![b].playing = FALSE]
StopsAndReleases(r, pc) ==
    LET b == job[r].b
        lets == b \in Connected /\ b # router.active /\ ~job[r].beaten
    IN /\ be' = IF lets THEN Released(b) ELSE [be EXCEPT ![b].playing = FALSE]
       /\ job' = LET js == IF lets THEN NewGen(job, b) ELSE job IN
                 [js EXCEPT ![r] = IF pc = "free" THEN NoJob
                                   ELSE [NoJob EXCEPT !.pc = pc, !.ot = job[r].ot]]
Retires(r) ==
    /\ At(r, "stopping") /\ r \in Retirers /\ StopsAndReleases(r, "free")
    /\ UNCHANGED <<router, serial, sel, held, ots, host, truth, consumed>>

-----------------------------------------------------------------------------
(* Playing: an advance, or the resume of the context o. *)

Adds ==
    /\ consumed.adds < MaxAdds /\ Spends("adds")
    /\ host' = [host EXCEPT !.left = @ + 1]
    /\ job' = IF host.playing \/ held.on THEN job ELSE Spawned(job)
    /\ UNCHANGED <<router, be, serial, sel, held, ots, truth>>
TrackEnds ==
    /\ be[router.active].playing /\ host.playing
    /\ be' = [be EXCEPT ![router.active].playing = FALSE]
    /\ job' = Spawned(job)
    /\ UNCHANGED <<router, serial, sel, held, ots, host, truth, consumed>>

\* router.play commits a deferred switch first.
Dispatching(js, o) ==
    IF router.pending = None
    THEN /\ job' = [js EXCEPT !["play"] = [NoJob EXCEPT !.pc = "dispatch", !.ot = o]]
         /\ UNCHANGED router
    ELSE /\ job' = [js EXCEPT !["play"] = [NoJob EXCEPT !.pc = "swapping", !.ot = o,
                       !.b = router.active]]
         /\ router' = [router EXCEPT !.active = router.pending, !.pending = None]
Advances ==
    /\ At("play", "spawned")
    /\ IF held.on \/ host.left = 0
       THEN /\ job' = JobEnds("play") /\ UNCHANGED router
            /\ host' = IF held.on THEN host ELSE [host EXCEPT !.playing = FALSE]
       ELSE host' = [left |-> host.left - 1, playing |-> TRUE] /\ Dispatching(job, 0)
    /\ UNCHANGED <<be, serial, sel, held, ots, truth, consumed>>
Swaps ==
    /\ At("play", "swapping") /\ StopsAndReleases("play", "dispatch")
    /\ UNCHANGED <<router, serial, sel, held, ots, host, truth, consumed>>
Attached(b) == b = "direct" \/ be[b].conn # None
Plays ==
    /\ At("play", "dispatch") /\ Attached(router.active)
    /\ be' = [be EXCEPT ![router.active].playing = TRUE]
    /\ IF job["play"].ot # 0 THEN ClearHold ELSE UNCHANGED <<held, ots>>
    /\ job' = JobEnds("play")
    /\ UNCHANGED <<router, serial, sel, host, truth, consumed>>
RearmedOnly(o) == [ots EXCEPT ![o].armed = TRUE]
Rearmed(o) == [ots EXCEPT ![o].attached = FALSE, ![o].armed = TRUE]
\* The device is not there: hold the item; a resume retries later.
PlayMisses ==
    /\ At("play", "dispatch")
    /\ \/ ~Attached(router.active) /\ UNCHANGED consumed
       \/ router.active # "direct" /\ consumed.faults < MaxFaults /\ Spends("faults")
    /\ LET o == job["play"].ot IN
       IF o = 0
       THEN /\ IF held.on THEN job' = JobEnds("play")
               ELSE At("holder", "free")
                    /\ job' = [JobEnds("play") EXCEPT !["holder"] =
                                 [NoJob EXCEPT !.pc = "holding", !.b = router.active]]
            /\ held' = [held EXCEPT !.on = TRUE] /\ UNCHANGED <<ots, host>>
       ELSE /\ ots' = Rearmed(o)
            /\ host' = [left |-> host.left + 1, playing |-> FALSE]
            /\ job' = JobEnds("play") /\ UNCHANGED held
    /\ UNCHANGED <<router, be, serial, sel, truth>>

-----------------------------------------------------------------------------
(* The reconnect loop of an outage, and the attempt made while idle. *)

Open(o) == ~ots[o].retired /\ held.ot = o /\ held.on
\* A backoff tick, or the device announcing itself.
LoopStarts(n, trigger) ==
    /\ n \in Loops /\ At(n, "free") /\ held.on /\ held.ot # 0
    /\ LET o == held.ot
           c == ots[o]
           tries == [job EXCEPT ![n] = [NoJob EXCEPT !.pc = "queued", !.b = c.b, !.d = c.d, !.ot = o]]
           Settles(pc) == job' = [tries EXCEPT ![n].pc = pc] /\ UNCHANGED serial
       IN /\ c.armed /\ ~c.attached /\ ~c.inflight
          /\ ots' = [ots EXCEPT ![o].inflight = TRUE]
          /\ IF c.b = "cast" /\ be["cast"].conn # None
             THEN \/ Settles("reached") /\ UNCHANGED consumed
                  \/ /\ consumed.faults < MaxFaults /\ Spends("faults")
                     /\ IF trigger = "backoff" THEN Settles("missed")
                        ELSE job' = tries /\ Queues(n)
             ELSE job' = tries /\ Queues(n) /\ UNCHANGED consumed
    /\ UNCHANGED <<router, be, sel, held, host, truth>>

\* Back from the attach, with the lock given up.
LoopReturns(n, ok) ==
    LET o == job[n].ot
        stale == ~(~ots[o].retired /\ held.ot = o) \/ job[n].old
    IN /\ ots' = [ots EXCEPT ![o].inflight = ok /\ ~stale,
                             ![o].attached = IF ok /\ ~stale THEN TRUE ELSE @]
       /\ job' = IF ok /\ ~stale THEN JobGoes(n, "resume") ELSE JobEnds(n)
LoopSettles(n) ==
    /\ n \in Loops
    /\ \/ At(n, "reached") /\ LoopReturns(n, TRUE) /\ UNCHANGED <<serial, consumed>>
       \/ At(n, "missed") /\ LoopReturns(n, FALSE) /\ UNCHANGED <<serial, consumed>>
       \/ At(n, "adopted") /\ LoopReturns(n, TRUE) /\ serial' = Tail(serial) /\ UNCHANGED consumed
       \/ /\ At(n, "queued") /\ Holds(n) /\ Aborts(n)
          /\ LoopReturns(n, FALSE) /\ serial' = Tail(serial) /\ UNCHANGED consumed
       \/ /\ At(n, "connecting")
          /\ Misses(n)
          /\ LoopReturns(n, FALSE) /\ serial' = Tail(serial)
    /\ UNCHANGED <<router, be, sel, held, host, truth>>

\* _resume_from_hold, once it has the advance lock.
Resumes(n) ==
    /\ n \in Loops /\ At(n, "resume") /\ At("play", "free")
    /\ LET o == job[n].ot
           done == [job EXCEPT ![n] = NoJob] IN
       IF ~Open(o)
       THEN /\ ots' = [ots EXCEPT ![o].inflight = FALSE]
            /\ job' = done /\ UNCHANGED <<held, host, router>>
       ELSE IF host.left = 0
       THEN /\ held' = [held EXCEPT !.on = FALSE, !.ot = 0]
            /\ ots' = [Retired(ots, o) EXCEPT ![o].inflight = FALSE]
            /\ job' = done /\ UNCHANGED <<host, router>>
       ELSE /\ ots' = [ots EXCEPT ![o].inflight = FALSE] /\ UNCHANGED held
            /\ host' = [left |-> host.left - 1, playing |-> TRUE] /\ Dispatching(done, o)
    /\ UNCHANGED <<be, serial, sel, truth, consumed>>

PlaybackOwns == host.playing /\ be[router.active].dev = sel[2]
IdleAttempts ==
    /\ At("idle", "free") /\ consumed.attempts < MaxAttempts /\ Spends("attempts")
    /\ sel[1] \in Connected /\ ~held.on /\ ~PlaybackOwns
    /\ be[sel[1]].conn = None
    /\ job' = [job EXCEPT !["idle"] = [NoJob EXCEPT !.pc = "queued", !.b = sel[1], !.d = sel[2]]]
    /\ Queues("idle")
    /\ UNCHANGED <<router, be, sel, held, ots, host, truth>>
\* The boot's second try goes through a discovery.
BootSettles ==
    /\ \/ At("boot", "adopted") /\ UNCHANGED consumed /\ serial' = Tail(serial) /\ job' = JobEnds("boot")
       \/ /\ At("boot", "queued") /\ Holds("boot") /\ Aborts("boot")
          /\ UNCHANGED consumed /\ serial' = Tail(serial) /\ job' = JobEnds("boot")
       \/ /\ At("boot", "connecting") /\ Superseded("boot")
          /\ UNCHANGED consumed /\ serial' = Tail(serial) /\ job' = JobEnds("boot")
       \/ /\ At("boot", "connecting") /\ consumed.faults < MaxFaults /\ Spends("faults")
          /\ serial' = Tail(serial)
          /\ job' = IF job["boot"].was \/ job["boot"].old THEN JobEnds("boot")
                    ELSE [job EXCEPT !["boot"].pc = "discovering", !["boot"].was = TRUE]
       \/ /\ At("boot", "discovering") /\ UNCHANGED consumed
          /\ Queues("boot") /\ job' = JobGoes("boot", "queued")
    /\ UNCHANGED <<router, be, sel, held, ots, host, truth>>
IdleSettles ==
    /\ \/ At("idle", "adopted") /\ UNCHANGED consumed
       \/ At("idle", "queued") /\ Holds("idle") /\ Aborts("idle") /\ UNCHANGED consumed
       \/ /\ At("idle", "connecting")
          /\ Misses("idle")
    /\ serial' = Tail(serial) /\ job' = JobEnds("idle")
    /\ UNCHANGED <<router, be, sel, held, ots, host, truth>>

-----------------------------------------------------------------------------
ApplyWorks(n) ==
    \/ Applied(n) \/ ApplyFails(n) \/ ApplyEnds(n)
PlayWorks == Advances \/ Swaps \/ Plays \/ PlayMisses
\* A task created while nothing awaits starts before anything else but the
\* next holder of the lock, which its release has woken already.
Starting == \E r \in Retirers : At(r, "spawned")
SwitchNext ==
    \/ \E r \in Retirers : RetireDecides(r)
    \/ \E n \in Appliers \cup Attempts : AttachAcquires(n)
    \/ /\ ~Starting
       /\ \/ \E n \in Appliers, t \in Targets : Apply(n, t)
          \/ \E n \in Appliers : ApplyWorks(n)
          \/ \E n \in Appliers \cup Attempts : Seeded(n) \/ Adopts(n)
          \/ \E r \in Retirers : Retires(r)
          \/ \E n \in Loops, trigger \in {"backoff", "discovery"} : LoopStarts(n, trigger)
          \/ \E n \in Loops : LoopSettles(n) \/ Resumes(n)
          \/ IdleAttempts \/ IdleSettles \/ BootSettles
          \/ Adds \/ TrackEnds \/ PlayWorks
          \/ OutputLost \/ HoldBegins

SwitchSpec == SwitchInit /\ [][SwitchNext]_switchVars
Runs(A) == ~Starting /\ A
SwitchWorks ==
    \/ \E r \in Retirers : RetireDecides(r) \/ Runs(Retires(r))
    \/ \E n \in Appliers \cup Attempts : AttachAcquires(n) \/ Runs(Seeded(n)) \/ Runs(Adopts(n))
    \/ \E n \in Appliers : Runs(ApplyWorks(n))
    \/ \E n \in Loops : Runs(LoopSettles(n) \/ Resumes(n) \/ LoopStarts(n, "discovery"))
    \/ Runs(IdleSettles \/ BootSettles \/ PlayWorks \/ HoldBegins)
SwitchFair == WF_switchVars(SwitchWorks)
SwitchFairSpec == SwitchSpec /\ SwitchFair
-----------------------------------------------------------------------------
\* The state of the switch is well formed.
SwitchTypeOK ==
    /\ router \in [active : Backends, pending : Backends \cup {None}, intent : Appliers \cup {None}]
    /\ \A b \in Backends : be[b].conn \in CastDevices \cup DlnaDevices \cup {None}
    /\ sel \in Targets
    /\ held.on \in BOOLEAN /\ held.ot \in 0 .. Len(ots)
    /\ Len(serial) <= Cardinality(JobNames)

Settled == \A n \in JobNames : At(n, "free")

\* What is held once everything has settled: the connections of the outputs in
\* charge only, apart from a pending output displaced by a later switch and an
\* attempt that took the lock after the switch it should have stood down for.
NoOrphan ==
    Settled => \A b \in Connected : be[b].conn # None =>
                 b \in {router.active, router.pending} \cup truth.displaced \cup truth.late
\* The output in charge is attached to the device the host selected.
Effective == IF router.pending = None THEN router.active ELSE router.pending
HoldsSelected(b) == b \in Connected => be[b].conn \in {None, sel[2]}
SelectedHeld == Settled /\ Effective \notin truth.late => HoldsSelected(Effective)
\* A held queue has a way back: a context that retries, unless its output
\* never was attached to a device.
HeldHasWayBack ==
    Settled /\ held.on =>
        /\ held.ot # 0 /\ ~ots[held.ot].retired
        /\ ots[held.ot].armed \/ ~Reconnectable(ots[held.ot].b, ots[held.ot].d)
\* The output in charge is the one that was selected, wherever a switch, a
\* reconnect loop, an idle or a boot attach crossed: once all has settled no
\* connection is left over, and a held queue has a way back (output/session.py,
\* output/router.py, api/admin.py).
OutputsRight == NoOrphan /\ SelectedHeld /\ HeldHasWayBack
\* A hold that retries the output in charge ends.
Retried == held.ot # 0 /\ ots[held.ot].armed /\ ots[held.ot].b = router.active
HoldWaits == held.on /\ Retried
HoldResolves == []<>~HoldWaits
=============================================================================
