-------------------------- MODULE OutputSupervisor --------------------------
(***************************************************************************)
(* The confirmed-start chokepoint of app/output/session.py.                *)
(*                                                                         *)
(* Every play-start reports a dispatch and gets a token.  The play counts  *)
(* only when a backend confirms audio for that token; a dispatch that stays*)
(* unconfirmed past its deadline is handed to the outage classifier.       *)
(* Confirmations, failures, timers and outage reports reach the supervisor *)
(* in any order, late and more than once: backends marshal them from their *)
(* own threads.  All handlers are synchronous on the event loop, except    *)
(* the deadline task, which suspends in its reachability probe.            *)
(***************************************************************************)
EXTENDS Integers, FiniteSets

CONSTANTS
    MaxToken,   \* bound: dispatches in a behaviour
    FlowCap     \* _FLOW_DEFERRED_CAP

ASSUME SupervisorConstants == MaxToken \in Nat \ {0} /\ FlowCap \in Nat \ {0}

VARIABLES
    token,      \* _token: tokens issued so far
    disp,       \* the _Dispatch objects, by token
    cur,        \* _current, 0 for None
    retired,    \* _retired, 0 for None
    stash,      \* _flow_deferred: superseded dispatches awaiting a crossing
    timers,     \* dispatches whose deadline timer is armed
    task,       \* where each dispatch's deadline task is
    hold,       \* the output hold flag
    paused,     \* the queue engine's is_paused
    counted,    \* record_play calls, by token
    unheard,    \* tokens handed to the classifier before they were confirmed
    timedOut    \* tokens handed to the classifier by their deadline

supVars == <<token, disp, cur, retired, stash, timers, task, counted, unheard, timedOut>>
vars == <<token, disp, cur, retired, stash, timers, task, hold, paused,
          counted, unheard, timedOut>>

Tokens == 1 .. MaxToken
Dispatch == [mark : BOOLEAN,       \* play_recorded: already counted, do not recount
             probe : BOOLEAN,      \* the backend has a reachability probe
             confirmed : BOOLEAN, extended : BOOLEAN, deferred : BOOLEAN]
Unissued == [mark |-> FALSE, probe |-> FALSE, confirmed |-> FALSE,
             extended |-> FALSE, deferred |-> FALSE]

Init ==
    /\ token = 0
    /\ disp = [t \in Tokens |-> Unissued]
    /\ cur = 0 /\ retired = 0
    /\ stash = {} /\ timers = {}
    /\ task = [t \in Tokens |-> "none"]
    /\ hold = FALSE
    /\ paused = FALSE
    /\ counted = [t \in Tokens |-> 0]
    /\ unheard = {} /\ timedOut = {}

-----------------------------------------------------------------------------
(* Dispatching *)

\* Fault variant: a confirmed dispatch is parked as well.
ParksAnything(deadline) == cur # 0 /\ (disp[cur].deferred \/ ~deadline)

\* A flow boundary supersedes a dispatch whose audio still streams: it is
\* parked rather than dropped.
Parks(deadline) ==
    cur # 0 /\ ~disp[cur].confirmed /\ (disp[cur].deferred \/ ~deadline)

\* Fault variant: nothing is ever evicted.
ParkedUncapped(p) == stash \cup {p}

\* The stash after parking p: past the cap the oldest entry is evicted.
Parked(p) ==
    LET s == stash \cup {p}
    IN IF Cardinality(s) > FlowCap
       THEN s \ {CHOOSE t \in s : \A u \in s : t <= u}
       ELSE s

\* Fault variant: the token counter is not advanced, so tokens are reused.
OnDispatchedReusing(mark, probe, deadline) ==
    /\ token < MaxToken
    /\ cur' = token + 1
    /\ disp' = [disp EXCEPT ![token + 1] =
                  [Unissued EXCEPT !.mark = mark, !.probe = probe, !.deferred = ~deadline]]
    /\ timers' = (timers \ {cur}) \cup (IF deadline THEN {token + 1} ELSE {})
    /\ UNCHANGED <<token, retired, stash, task, hold, paused, counted, unheard, timedOut>>

\* on_dispatched: a new token supersedes the current dispatch, whose timer
\* is cancelled; deadline = FALSE is a flow boundary.
OnDispatched(mark, probe, deadline) ==
    /\ token < MaxToken
    /\ token' = token + 1
    /\ cur' = token + 1
    /\ disp' = [t \in Tokens |->
                  CASE t = token + 1 ->
                         [Unissued EXCEPT !.mark = mark, !.probe = probe,
                                          !.deferred = ~deadline]
                    [] t = cur /\ Parks(deadline) -> [disp[t] EXCEPT !.deferred = TRUE]
                    [] OTHER -> disp[t]]
    /\ stash' = IF Parks(deadline) THEN Parked(cur) ELSE stash
    /\ timers' = (timers \ {cur}) \cup (IF deadline THEN {token + 1} ELSE {})
    /\ UNCHANGED <<retired, task, hold, paused, counted,
                   unheard, timedOut>>

\* A gapless boundary (_boundary_advance with confirm_now): dispatched and
\* confirmed in one go, because the track is already audible.
OnGaplessBoundary(mark) ==
    /\ token < MaxToken
    /\ token' = token + 1
    /\ cur' = token + 1
    /\ disp' = [t \in Tokens |->
                  CASE t = token + 1 -> [Unissued EXCEPT !.mark = mark, !.confirmed = TRUE]
                    [] OTHER -> disp[t]]
    /\ stash' = IF Parks(TRUE) THEN Parked(cur) ELSE stash
    /\ timers' = timers \ {cur}
    /\ counted' = [counted EXCEPT ![token + 1] = IF mark THEN @ ELSE @ + 1]
    /\ hold' = FALSE
    /\ UNCHANGED <<retired, task, paused, unheard, timedOut>>

\* defer_confirmation: a skip landed as a reposition of a live flow session.
DeferConfirmation(t) ==
    /\ cur = t /\ ~disp[t].confirmed
    /\ timers' = timers \ {t}
    /\ disp' = [disp EXCEPT ![t].deferred = TRUE]
    /\ UNCHANGED <<token, cur, retired, stash, task, hold, paused,
                   counted, unheard, timedOut>>

\* on_dispatch_failed: play() raised, the dispatch is withdrawn.
OnDispatchFailed(t) ==
    /\ cur = t
    /\ cur' = 0
    /\ timers' = timers \ {t}
    /\ UNCHANGED <<token, disp, retired, stash, task, hold, paused,
                   counted, unheard, timedOut>>

-----------------------------------------------------------------------------
(* Confirmation *)

Confirmed(t) == [disp EXCEPT ![t].confirmed = TRUE]
Count(t) == [counted EXCEPT ![t] = IF disp[t].mark THEN @ ELSE @ + 1]

\* Fault variant: a repeated confirmation is not recognised.
ConfirmLiveAgain(t) ==
    /\ cur = t
    /\ disp' = Confirmed(t)
    /\ counted' = Count(t)
    /\ timers' = timers \ {t}
    /\ hold' = FALSE
    /\ UNCHANGED <<token, cur, retired, stash, task, paused, unheard, timedOut>>

\* Fault variant: audio heard after the classifier took over still counts.
ConfirmLate(t) ==
    /\ t \in {cur, retired} \ {0} /\ ~disp[t].confirmed
    /\ disp' = Confirmed(t)
    /\ counted' = Count(t)
    /\ timers' = timers \ {t}
    /\ hold' = FALSE
    /\ UNCHANGED <<token, cur, retired, stash, task, paused, unheard, timedOut>>

\* on_playback_confirmed for the live dispatch: proof that the output works.
ConfirmLive(t) ==
    /\ cur = t /\ ~disp[t].confirmed
    /\ disp' = Confirmed(t)
    /\ counted' = Count(t)
    /\ timers' = timers \ {t}
    /\ hold' = FALSE
    /\ UNCHANGED <<token, cur, retired, stash, task, paused, unheard, timedOut>>

\* _confirm_deferred_crossing: a parked dispatch was heard after all.
ConfirmParked(t) ==
    /\ ~(cur = t /\ ~disp[t].confirmed)
    /\ t \in stash
    /\ stash' = stash \ {t}
    /\ IF disp[t].confirmed
       THEN UNCHANGED <<disp, counted>>
       ELSE disp' = Confirmed(t) /\ counted' = Count(t)
    /\ UNCHANGED <<token, cur, retired, timers, task, hold, paused,
                   unheard, timedOut>>

OnPlaybackConfirmed(t) == ConfirmLive(t) \/ ConfirmParked(t)

-----------------------------------------------------------------------------
(* Classification *)

\* Fault variant: the dispatch stays current while the classifier runs.
EmitWithoutRetiring(t) ==
    /\ retired' = t
    /\ cur' = cur
    /\ unheard' = IF disp[t].confirmed THEN unheard ELSE unheard \cup {t}

\* _emit_outage_suspected: the dispatch is retired before listeners run.
Emit(t) ==
    /\ retired' = t
    /\ cur' = 0
    /\ unheard' = IF disp[t].confirmed THEN unheard ELSE unheard \cup {t}

\* on_outage_reported while a dispatch is live, by the active backend.
OnOutageReported ==
    /\ cur # 0
    /\ Emit(cur)
    /\ timers' = timers \ {cur}
    /\ UNCHANGED <<token, disp, stash, task, hold, paused, counted, timedOut>>

\* The classifier decided that the device is gone (see PlaybackSession).
EnterHold ==
    /\ cur = 0 /\ ~hold
    /\ hold' = TRUE
    /\ UNCHANGED <<supVars, paused>>

\* dispatch_play_recorded: has the play behind token t been counted?  Only
\* the live and the last retired dispatch are known; the rest read as counted.
DispatchPlayRecorded(t) ==
    t \in {cur, retired} \ {0} => disp[t].mark \/ disp[t].confirmed

-----------------------------------------------------------------------------
(* The confirmation deadline *)

\* _deadline_fired: the timer callback spawns the task.
DeadlineFires(t) ==
    /\ t \in timers /\ task[t] = "none"
    /\ timers' = timers \ {t}
    /\ task' = [task EXCEPT ![t] = "spawned"]
    /\ UNCHANGED <<token, disp, cur, retired, stash, hold, paused,
                   counted, unheard, timedOut>>

Awaited(t) == cur = t /\ ~disp[t].confirmed

\* _deadline_expired for a dispatch that no longer waits.
DeadlineStale(t) ==
    /\ task[t] = "spawned"
    /\ ~Awaited(t) \/ disp[t].deferred
    /\ task' = [task EXCEPT ![t] = "none"]
    /\ UNCHANGED <<token, disp, cur, retired, stash, timers, hold, paused, counted, unheard, timedOut>>

\* Fault variant: the suspended deadline is not armed again.
DeadlineForgets(t) ==
    /\ task[t] = "spawned"
    /\ Awaited(t) /\ ~disp[t].deferred /\ paused
    /\ task' = [task EXCEPT ![t] = "none"]
    /\ UNCHANGED <<token, disp, cur, retired, stash, timers, hold, paused,
                   counted, unheard, timedOut>>

\* Paused: nothing can confirm, so the deadline starts over and the single
\* extension is kept.
DeadlineSuspends(t) ==
    /\ task[t] = "spawned"
    /\ Awaited(t) /\ ~disp[t].deferred /\ paused
    /\ task' = [task EXCEPT ![t] = "none"]
    /\ timers' = timers \cup {t}
    /\ UNCHANGED <<token, disp, cur, retired, stash, hold, paused,
                   counted, unheard, timedOut>>

\* The probe decides between the extension and the classifier.
DeadlineProbes(t) ==
    /\ task[t] = "spawned"
    /\ Awaited(t) /\ ~disp[t].deferred /\ ~paused
    /\ ~disp[t].extended /\ disp[t].probe
    /\ task' = [task EXCEPT ![t] = "probing"]
    /\ UNCHANGED <<token, disp, cur, retired, stash, timers, hold, paused, counted, unheard, timedOut>>

Classify(t) ==
    /\ Emit(t)
    /\ timedOut' = timedOut \cup {t}
    /\ task' = [task EXCEPT ![t] = "none"]
    /\ UNCHANGED <<token, disp, stash, timers, hold, paused, counted>>

DeadlineClassifies(t) ==
    /\ task[t] = "spawned"
    /\ Awaited(t) /\ ~disp[t].deferred /\ ~paused
    /\ disp[t].extended \/ ~disp[t].probe
    /\ Classify(t)

\* Fault variant: every busy answer buys another extension.
ProbeExtendsForever(t, busy) ==
    /\ task[t] = "probing"
    /\ task' = [task EXCEPT ![t] = "none"]
    /\ timers' = IF Awaited(t) THEN timers \cup {t} ELSE timers
    /\ UNCHANGED <<token, disp, cur, retired, stash, hold, paused, counted,
                   unheard, timedOut>>

\* The probe returned.  `busy': reachable and in a pre-playback state.
ProbeReturns(t, busy) ==
    /\ task[t] = "probing"
    /\ \/ /\ ~Awaited(t)
          /\ task' = [task EXCEPT ![t] = "none"]
          /\ UNCHANGED <<token, disp, cur, retired, stash, timers, hold, paused, counted, unheard, timedOut>>
       \/ /\ Awaited(t) /\ busy
          /\ disp' = [disp EXCEPT ![t].extended = TRUE]
          /\ timers' = timers \cup {t}
          /\ task' = [task EXCEPT ![t] = "none"]
          /\ UNCHANGED <<token, cur, retired, stash, hold, paused,
                         counted, unheard, timedOut>>
       \/ Awaited(t) /\ ~busy /\ Classify(t)

\* The host pauses or resumes.
SetPaused(b) ==
    /\ paused # b
    /\ paused' = b
    /\ UNCHANGED <<supVars, hold>>

-----------------------------------------------------------------------------
Deadline(t) ==
    \/ DeadlineFires(t) \/ DeadlineStale(t) \/ DeadlineSuspends(t)
    \/ DeadlineProbes(t) \/ DeadlineClassifies(t)
    \/ \E busy \in BOOLEAN : ProbeReturns(t, busy)

Next ==
    \/ \E mark, probe, deadline \in BOOLEAN : OnDispatched(mark, probe, deadline)
    \/ \E mark \in BOOLEAN : OnGaplessBoundary(mark)
    \/ \E t \in Tokens : \/ DeferConfirmation(t) \/ OnDispatchFailed(t)
                         \/ OnPlaybackConfirmed(t) \/ Deadline(t)
    \/ OnOutageReported \/ EnterHold
    \/ \E b \in BOOLEAN : SetPaused(b)

Spec == Init /\ [][Next]_vars

\* The event loop runs armed timers and spawned tasks, and every backend's
\* probe is bounded by a timeout of its own.
FairSpec == Spec /\ \A t \in Tokens : WF_vars(Deadline(t))

-----------------------------------------------------------------------------
(* Properties *)

\* Every variable has its type.
TypeOK ==
    /\ token \in 0 .. MaxToken
    /\ disp \in [Tokens -> Dispatch]
    /\ cur \in 0 .. token /\ retired \in 0 .. token
    /\ stash \subseteq 1 .. token /\ timers \subseteq 1 .. token
    /\ task \in [Tokens -> {"none", "spawned", "probing"}]
    /\ hold \in BOOLEAN
    /\ paused \in BOOLEAN
    /\ counted \in [Tokens -> Nat]
    /\ unheard \subseteq Tokens /\ timedOut \subseteq Tokens

\* A play is counted at most once per dispatch, however often and however
\* late backends confirm it, and never for a dispatch carrying the mark
\* (session.py:547-551, R19).
CountedAtMostOnce ==
    \A t \in Tokens : counted[t] <= (IF disp[t].mark THEN 0 ELSE 1)

\* A dispatch handed to the classifier as unheard is never counted
\* afterwards, whatever confirmation still arrives (session.py:841-844).
UnheardNeverCounts == \A t \in unheard : counted[t] = 0 /\ ~disp[t].confirmed

\* No dispatch is left without a watchdog: one that still awaits its
\* confirmation has a timer armed or a deadline task under way, unless it
\* was deferred to the device clock.  Extensions and pauses must not lose it.
NeverOrphaned ==
    cur # 0 /\ ~disp[cur].confirmed /\ ~disp[cur].deferred
        => cur \in timers \/ task[cur] # "none"

\* A parked dispatch can still count: it is unconfirmed, superseded, and not
\* one the classifier already spoke for.
ParkedStillCounts ==
    \A t \in stash : t # cur /\ ~disp[t].confirmed /\ disp[t].deferred /\ t \notin unheard

\* The stash respects its cap, so its memory is bounded however fast
\* boundaries supersede each other (session.py:498-505).
StashBounded == Cardinality(stash) <= FlowCap

\* A deferred dispatch is never classified by a deadline: a callback already
\* in flight when the cancel landed "must not classify a dispatch whose
\* confirmation lawfully outlives any deadline" (session.py:798-801).
DeferredNeverTimesOut ==
    [][\A t \in timedOut' \ timedOut : ~disp[t].deferred]_vars

\* The supervisor keeps the promise of DispatchLedger: a token's fate is
\* decided once, through supersession, parking, eviction, withdrawal,
\* extension and late or repeated confirmation (session.py:547-599, 841-844).
Fate(t) == IF t > token THEN "unissued"
           ELSE IF disp[t].confirmed THEN "heard"
           ELSE IF t \in stash \cup {cur} THEN "waiting" ELSE "lost"
Ledger == INSTANCE DispatchLedger WITH
              issued <- token,
              fate <- [t \in Tokens |-> Fate(t)],
              marked <- {t \in Tokens : disp[t].mark},
              plays <- counted
LedgerSpec == Ledger!Spec

\* A dispatch that waits is eventually confirmed, superseded, withdrawn or
\* classified; only a deferral or a pause may keep it waiting.
EventuallyResolved ==
    \A t \in Tokens :
        (Awaited(t) /\ ~disp[t].deferred) ~> (~Awaited(t) \/ disp[t].deferred \/ paused)
=============================================================================
