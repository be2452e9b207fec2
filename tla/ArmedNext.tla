------------------------------ MODULE ArmedNext ------------------------------
(***************************************************************************)
(* The orchestrator of the gapless hand-over (app/state.py): it keeps one  *)
(* slot, the track armed on the device, in step with the effective next    *)
(* track of the queue while guests edit the queue, the host toggles        *)
(* gapless and the renderer of DlnaRenderer chains on its own.             *)
(***************************************************************************)
EXTENDS DlnaRenderer

CONSTANTS
    MaxInputs     \* bound: queue edits, toggles and presses

VARIABLES
    q,       \* the queue: current track, effective next, playing, gapless on
    orch,    \* _armed_next_track, its generation test, and the reconcile task
    play,    \* the track a play() under way was given, None without one
    inputs   \* inputs so far

vars == <<dev, be, poll, wire, reply, faults, q, orch, play, inputs>>

\* slot: _armed_next_track.  pc: where _reconcile_armed_next is suspended.
\* nxt, want: the next it works for and whether to arm it.  dirty: _arming_dirty, or a task just created.
\* stale: _armed_next_agen differs from arming_gen().
\* outer: a revoke on behalf of a stranded removal or a config edit is out.
Orchestrator == [slot : Maybe, pc : {"idle", "revoking", "warming", "arming"},
                 nxt : Maybe, want : BOOLEAN, dirty : BOOLEAN, stale : BOOLEAN, outer : BOOLEAN]
Queue == [cur : Maybe, nxt : Maybe, playing : BOOLEAN, gapless : BOOLEAN]

\* A behaviour begins with a dispatch under way.
Init ==
    /\ RendererInit
    /\ q \in [cur : Tracks, nxt : Maybe, playing : {TRUE}, gapless : {TRUE}]
    /\ orch = [slot |-> None, pc |-> "idle", nxt |-> None, want |-> FALSE,
               dirty |-> TRUE, stale |-> FALSE, outer |-> FALSE]
    /\ play = q.cur
    /\ inputs = 0

Input == inputs < MaxInputs /\ inputs' = inputs + 1

\* Fault variant: the pass under way is trusted to see the change.
TriggeredWhenIdle(o) == IF o.pc = "idle" THEN [o EXCEPT !.dirty = TRUE] ELSE o

\* _trigger_on_deck_eval: a change that arrives during a pass asks for another.
Triggered(o) == [o EXCEPT !.dirty = TRUE]

-----------------------------------------------------------------------------
(* The reconcile *)

WantNext == q.nxt # None /\ q.cur # None /\ q.playing
ArmWanted == WantNext /\ q.gapless

\* The slot no longer matches the arming inputs.
Mismatch == orch.slot # None /\ (~ArmWanted \/ orch.slot # q.nxt \/ orch.stale)

Onwards(o) == [o EXCEPT !.pc = IF o.nxt = None THEN "idle" ELSE "warming"]
Emptied(o) == [o EXCEPT !.slot = None, !.stale = FALSE]

\* The dirty flag is cleared before the inputs are read.
EvalStarts ==
    /\ orch.pc = "idle" /\ orch.dirty
    /\ LET o == [orch EXCEPT !.dirty = FALSE, !.want = ArmWanted,
                             !.nxt = IF WantNext THEN q.nxt ELSE None]
       IN IF Mismatch
          THEN /\ Revoke("revoke")
               /\ orch' = IF be.sent THEN [Emptied(o) EXCEPT !.pc = "revoking"]
                                     ELSE Onwards(Emptied(o))
          ELSE /\ be' = be /\ NoRequest
               /\ orch' = Onwards(o)
    /\ UNCHANGED <<dev, poll, faults, q, play, inputs>>

EvalRevoked ==
    /\ orch.pc = "revoking" /\ Answered("revoke")
    /\ reply' = Settled("revoke")
    /\ orch' = Onwards(orch)
    /\ UNCHANGED <<dev, be, poll, wire, faults, q, play, inputs>>

\* The next is warm; the inputs that may have moved are checked again before
\* the device is asked.
EvalWarmed ==
    /\ orch.pc = "warming"
    /\ IF orch.want /\ q.nxt = orch.nxt /\ q.gapless /\ orch.slot = None
       THEN /\ Arm(orch.nxt)
            /\ orch' = IF wire' # wire
                       THEN [orch EXCEPT !.pc = "arming"]
                       ELSE [orch EXCEPT !.pc = "idle", !.slot = orch.nxt, !.stale = FALSE]
       ELSE /\ be' = be /\ NoRequest
            /\ orch' = [orch EXCEPT !.pc = "idle"]
    /\ UNCHANGED <<dev, poll, faults, q, play, inputs>>

WarmFails ==
    /\ orch.pc = "warming"
    /\ orch' = [orch EXCEPT !.pc = "idle"]
    /\ UNCHANGED <<renderer, q, play, inputs>>

\* arm_next returned: the slot is set whatever came of the request.
EvalArmed ==
    /\ orch.pc = "arming" /\ Answered("arm")
    /\ be' = Delivered(be, "arm", reply["arm"].url, reply["arm"].st = "ok")
    /\ reply' = Settled("arm")
    /\ orch' = [orch EXCEPT !.pc = "idle", !.slot = orch.nxt, !.stale = FALSE]
    /\ UNCHANGED <<dev, poll, wire, faults, q, play, inputs>>

\* _revoke_armed_next by a stranded removal or an edit of Closing Time, which
\* does not wait for the reconcile.  The slot is cleared before the request.
RevokesElsewhere ==
    /\ orch.slot # None /\ ~orch.outer /\ Input
    /\ Revoke("outer")
    /\ IF be.sent
       THEN orch' = [Emptied(orch) EXCEPT !.outer = TRUE] /\ q' = q
       ELSE orch' = Triggered(Emptied(orch)) /\ \E t \in Maybe : q' = [q EXCEPT !.nxt = t]
    /\ UNCHANGED <<dev, poll, faults, play>>

RevokedElsewhere ==
    /\ orch.outer /\ Answered("outer")
    /\ reply' = Settled("outer")
    /\ orch' = [orch EXCEPT !.outer = FALSE, !.dirty = TRUE]
    /\ \E t \in Maybe : q' = [q EXCEPT !.nxt = t]
    /\ UNCHANGED <<dev, be, poll, wire, faults, play, inputs>>

-----------------------------------------------------------------------------
(* The queue and the host *)

\* queue_changed, or the toggle, which moves the arming generation.
EditsQueue ==
    /\ Input
    /\ \/ /\ \E t \in Maybe \ {q.nxt} : q' = [q EXCEPT !.nxt = t]
          /\ orch' = Triggered(orch)
       \/ /\ q' = [q EXCEPT !.gapless = ~@]
          /\ orch' = [Triggered(orch) EXCEPT !.stale = orch.slot # None]
    /\ UNCHANGED <<renderer, play>>

\* The queue's advance; what follows the new current track is any.
MovesOn(t) ==
    \E n \in Maybe : q' = [q EXCEPT !.cur = t, !.nxt = IF t = None THEN None ELSE n,
                                    !.playing = t # None]

\* The poll's advance_cb, a press, or the start: the front is dispatched.
Dispatches(t) ==
    /\ MovesOn(t)
    /\ orch' = Triggered(orch)
    /\ play' = t
    /\ PlayStarts

PollAdvances ==
    /\ poll = "advance" /\ play = None
    /\ IF q.nxt = None
       THEN /\ poll' = "none" /\ MovesOn(None) /\ orch' = Triggered(orch)
            /\ UNCHANGED <<dev, be, wire, reply, faults, play>>
       ELSE Dispatches(q.nxt)
    /\ UNCHANGED inputs

Skips ==
    /\ play = None /\ q.nxt # None /\ Input
    /\ Dispatches(q.nxt)

\* A play that outlived its poll (an outage) or failed is dispatched again.
Resumes ==
    /\ play = None /\ poll = "none" /\ q.cur # None /\ Input
    /\ play' = q.cur /\ PlayStarts
    /\ UNCHANGED <<q, orch>>

PlayEnds ==
    /\ play # None
    /\ PlayReturns(play)
    /\ play' = None
    /\ UNCHANGED <<q, orch, inputs>>

\* notify_gapless_boundary: the queue advances without a dispatch, behind a
\* dispatch that holds the lock; a press's play() cancels the poll.
PollNotified ==
    /\ poll = "notify" /\ play = None
    /\ MovesOn(q.nxt)
    /\ orch' = Triggered(orch)
    /\ poll' = "sleep"
    /\ UNCHANGED <<dev, be, wire, reply, faults, play, inputs>>

Paused ==
    /\ Input
    /\ Pause
    /\ UNCHANGED <<q, orch, play>>
Resumed == Resume /\ UNCHANGED <<q, orch, play, inputs>>

\* A skip with nothing behind the current track stops the backend.
StopsPlayback ==
    /\ play = None /\ q.playing /\ q.nxt = None /\ Input
    /\ Stop
    /\ q' = [q EXCEPT !.playing = FALSE, !.cur = None]
    /\ orch' = Triggered(orch)
    /\ play' = play

Renders == /\ (Nears \/ TrackEnds \/ ChainsUnreported \/ StoppedByHand \/ Serves)
           /\ UNCHANGED <<q, orch, play, inputs>>
Polls == /\ (PollReadsStopped \/ PollReads \/ PollSent \/ PollLooks \/ PollFixes \/ PollFails)
         /\ UNCHANGED <<q, orch, play, inputs>>
Reconciles == EvalStarts \/ EvalRevoked \/ EvalWarmed \/ WarmFails \/ EvalArmed
                \/ RevokesElsewhere \/ RevokedElsewhere
Hosts == EditsQueue \/ Skips \/ Resumes \/ PlayEnds \/ Paused \/ Resumed \/ StopsPlayback

Next == Renders \/ Polls \/ PollAdvances \/ PollNotified \/ Reconciles \/ Hosts

Spec == Init /\ [][Next]_vars

\* The poll's sleeps end, requests are answered or fail, tasks are scheduled:
\* each of these is fair, as is PlayEnds.
PollWorks == Polls \/ PollAdvances \/ PollNotified
RequestsServed == Serves /\ UNCHANGED <<q, orch, play, inputs>>
ArmingWorks == EvalStarts \/ EvalRevoked \/ EvalWarmed \/ EvalArmed \/ RevokedElsewhere

-----------------------------------------------------------------------------
\* Every part is of its type, what was delivered is what is armed, and a
\* request that still owns the pair has one.
TypeOK ==
    /\ dev \in Renderer /\ be \in Backend
    /\ be.sent => be.armed # None /\ be.sentUrl = be.armed
    /\ be.live # {} => be.armed # None
    /\ poll \in {"none", "sleep", "send", "look", "notify", "fix", "advance"}
    /\ q \in Queue /\ orch \in Orchestrator /\ play \in Maybe

\* After a pass of the poll the renderer plays what the backend takes for
\* the current track, where the firmware reports it: a next that was revoked,
\* refused or replaced while a request was out is never left audible, as the
\* docstring of revoke_next promises.
NoSilentWrongTrack ==
    poll = "sleep" /\ dev.seen /\ dev.tr = "playing" /\ be.on /\ ~dev.frozen
    => dev.uri = be.cur

\* The promise is kept as long as neither a failed request nor a revoke takes
\* the stale watch from a next that the renderer plays or still holds.
AudibleIsCurrent == be.forgot \/ NoSilentWrongTrack

\* A device is written off for gapless only after it failed a boundary it
\* had accepted: a revoke, a refusal or a stop in mid-track is no evidence.
VerdictOnEvidence == be.verdict = "unsupported" => dev.missed

\* What is armed is what comes next.  Always again: a track armed for an
\* outdated queue is revoked in the end, no change of the inputs is lost to the
\* coalescing of reconciles.
ArmFresh == orch.slot \in {None, q.nxt}
=============================================================================
