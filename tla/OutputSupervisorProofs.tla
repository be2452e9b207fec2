----------------------- MODULE OutputSupervisorProofs -----------------------
(***************************************************************************)
(* Proofs about OutputSupervisor for every number of dispatches and every  *)
(* stash cap.                                                              *)
(***************************************************************************)
EXTENDS OutputSupervisor, FiniteSetTheorems, WellFoundedInduction, TLAPS

\* Nothing has happened yet to a token that was not issued.
Fresh ==
    \A t \in Tokens : t > token =>
        /\ counted[t] = 0 /\ task[t] = "none"
        /\ t \notin unheard

\* A play was counted only for a confirmed dispatch without the mark, once.
CountsConfirmed ==
    \A t \in Tokens : counted[t] # 0 =>
        counted[t] = 1 /\ disp[t].confirmed /\ ~disp[t].mark

\* What the classifier took as unheard has left the supervisor's hands.
UnheardIsGone ==
    \A t \in unheard : ~disp[t].confirmed /\ t # cur /\ t \notin stash

\* The inductive invariant.
IInv ==
    /\ TypeOK /\ Fresh /\ CountsConfirmed /\ UnheardIsGone
    /\ ParkedStillCounts /\ NeverOrphaned

-----------------------------------------------------------------------------
\* The initial state satisfies the invariant.
LEMMA InitIInv == Init => IInv
<1> SUFFICES ASSUME Init PROVE IInv
  OBVIOUS
<1> USE SupervisorConstants DEF Init, Tokens
<1>1. TypeOK
  <2>1. Unissued \in Dispatch
    BY DEF Dispatch, Unissued
  <2>2. disp \in [Tokens -> Dispatch]
    BY <2>1
  <2>3. task \in [Tokens -> {"none", "spawned", "probing"}] /\ counted \in [Tokens -> Nat]
    OBVIOUS
  <2>4. token \in 0 .. MaxToken /\ cur \in 0 .. token /\ retired \in 0 .. token
    OBVIOUS
  <2>5. stash \subseteq 1 .. token /\ timers \subseteq 1 .. token
    OBVIOUS
  <2> HIDE DEF Init
  <2>6. hold \in BOOLEAN /\ paused \in BOOLEAN /\ unheard \subseteq Tokens /\ timedOut \subseteq Tokens
    BY DEF Init
  <2> QED
    BY <2>2, <2>3, <2>4, <2>5, <2>6 DEF TypeOK
<1>2. Fresh
  BY DEF Fresh
<1>3. CountsConfirmed
  BY DEF CountsConfirmed
<1>4. UnheardIsGone /\ ParkedStillCounts /\ NeverOrphaned
  BY DEF UnheardIsGone, ParkedStillCounts, NeverOrphaned
<1> QED
  BY <1>1, <1>2, <1>3, <1>4 DEF IInv

\* A dispatch with one of its fields replaced is a dispatch.
LEMMA DispatchWith ==
  /\ Unissued \in Dispatch
  /\ \A d \in Dispatch, x \in BOOLEAN :
        /\ [d EXCEPT !.mark = x] \in Dispatch /\ [d EXCEPT !.probe = x] \in Dispatch
        /\ [d EXCEPT !.confirmed = x] \in Dispatch /\ [d EXCEPT !.extended = x] \in Dispatch
        /\ [d EXCEPT !.deferred = x] \in Dispatch
<1>1. Unissued \in Dispatch
  BY DEF Unissued, Dispatch
<1>2. ASSUME NEW d \in Dispatch, NEW x \in BOOLEAN
      PROVE  /\ [d EXCEPT !.mark = x] \in Dispatch /\ [d EXCEPT !.probe = x] \in Dispatch
             /\ [d EXCEPT !.confirmed = x] \in Dispatch
  BY DEF Dispatch
<1>3. ASSUME NEW d \in Dispatch, NEW x \in BOOLEAN
      PROVE  [d EXCEPT !.extended = x] \in Dispatch /\ [d EXCEPT !.deferred = x] \in Dispatch
  BY DEF Dispatch
<1> QED
  BY <1>1, <1>2, <1>3

\* What the two kinds of step issue.
LEMMA IssuedTyped ==
  ASSUME NEW m \in BOOLEAN, NEW p \in BOOLEAN, NEW d \in BOOLEAN
  PROVE  /\ [Unissued EXCEPT !.mark = m, !.probe = p, !.deferred = d] \in Dispatch
         /\ [Unissued EXCEPT !.mark = m, !.confirmed = TRUE] \in Dispatch
<1>1. [Unissued EXCEPT !.mark = m] \in Dispatch
  BY DispatchWith
<1>2. [Unissued EXCEPT !.mark = m, !.probe = p] \in Dispatch
  BY <1>1, DispatchWith
<1> QED
  BY <1>1, <1>2, DispatchWith

\* Parking a dispatch adds at most that dispatch to the stash.
LEMMA ParkedSubset == ASSUME NEW p PROVE Parked(p) \subseteq stash \cup {p}
  BY DEF Parked

\* A new dispatch supersedes, and may park, the one before it.
LEMMA StepDispatched ==
  ASSUME IInv, NEW mark \in BOOLEAN, NEW probe \in BOOLEAN, NEW deadline \in BOOLEAN,
         OnDispatched(mark, probe, deadline)
  PROVE  IInv'
<1> USE SupervisorConstants DEF Tokens, IInv, OnDispatched
<1>t. token \in 0 .. MaxToken /\ token + 1 \in Tokens /\ cur \in 0 .. token
  BY DEF TypeOK
<1>p. stash' \subseteq stash \cup {cur} /\ (~Parks(deadline) => stash' = stash)
  BY ParkedSubset
<1>d. /\ disp'[token + 1] = [Unissued EXCEPT !.mark = mark, !.probe = probe,
                                             !.deferred = ~deadline]
      /\ \A t \in Tokens : t # token + 1 /\ ~(t = cur /\ Parks(deadline)) => disp'[t] = disp[t]
      /\ Parks(deadline) => disp'[cur] = [disp[cur] EXCEPT !.deferred = TRUE]
  BY <1>t DEF Parks
<1>1. TypeOK'
  <2>1. \A t \in Tokens : disp'[t] \in Dispatch
    <3>1. \A t \in Tokens : disp[t] \in Dispatch
      BY DEF TypeOK
    <3>2. disp'[token + 1] \in Dispatch
      <4> DEFINE late == ~deadline
      <4>1. late \in BOOLEAN
        OBVIOUS
      <4> HIDE DEF late
      <4>2. [Unissued EXCEPT !.mark = mark, !.probe = probe, !.deferred = late] \in Dispatch
        BY <4>1, IssuedTyped
      <4> QED
        BY <1>d, <4>2 DEF late
    <3>3. Parks(deadline) => disp'[cur] \in Dispatch
      <4>1. Parks(deadline) => cur \in Tokens
        BY <1>t DEF Parks
      <4>2. \A d \in Dispatch : [d EXCEPT !.deferred = TRUE] \in Dispatch
        BY DispatchWith
      <4> QED
        BY <1>d, <3>1, <4>1, <4>2
    <3> QED
      BY <1>t, <1>d, <3>1, <3>2, <3>3
  <2>2. disp' \in [Tokens -> Dispatch]
    BY <2>1
  <2>3. stash' \subseteq 1 .. token' /\ timers' \subseteq 1 .. token'
    BY <1>t, <1>p DEF TypeOK, Parks
  <2> QED
    BY <1>t, <2>2, <2>3 DEF TypeOK
<1>2. Fresh'
  BY <1>t DEF Fresh
<1>3. CountsConfirmed'
  BY <1>t, <1>d DEF CountsConfirmed, Fresh, TypeOK, Dispatch, Unissued, Parks
<1>4. UnheardIsGone'
  BY <1>t, <1>p, <1>d DEF UnheardIsGone, Fresh, TypeOK, Dispatch, Unissued, Parks
<1>5. ParkedStillCounts'
  BY <1>t, <1>p, <1>d DEF ParkedStillCounts, UnheardIsGone, TypeOK, Dispatch, Unissued, Parks
<1>6. NeverOrphaned'
  BY <1>t, <1>d DEF NeverOrphaned, Unissued
<1> QED
  BY <1>1, <1>2, <1>3, <1>4, <1>5, <1>6

\* A gapless boundary supersedes the dispatch before it and counts at once.
LEMMA StepGapless ==
  ASSUME IInv, NEW mark \in BOOLEAN, OnGaplessBoundary(mark)
  PROVE  IInv'
<1> USE SupervisorConstants DEF Tokens, IInv, OnGaplessBoundary
<1>t. token \in 0 .. MaxToken /\ token + 1 \in Tokens /\ cur \in 0 .. token
  BY DEF TypeOK
<1>p. stash' \subseteq stash \cup {cur} /\ (~Parks(TRUE) => stash' = stash)
  BY ParkedSubset
<1>d. /\ disp'[token + 1] = [Unissued EXCEPT !.mark = mark, !.confirmed = TRUE]
      /\ \A t \in Tokens : t # token + 1 => disp'[t] = disp[t]
  BY <1>t
<1>c. /\ counted' \in [Tokens -> Nat]
      /\ counted'[token + 1] = IF mark THEN 0 ELSE 1
      /\ \A t \in Tokens : t # token + 1 => counted'[t] = counted[t]
  BY <1>t DEF TypeOK, Fresh
<1>1. TypeOK'
  <2>1. \A t \in Tokens : disp'[t] \in Dispatch
    <3>1. \A t \in Tokens : disp[t] \in Dispatch
      BY DEF TypeOK
    <3>2. disp'[token + 1] \in Dispatch
      BY <1>d, IssuedTyped
    <3> QED
      BY <1>d, <3>1, <3>2
  <2>2. disp' \in [Tokens -> Dispatch]
    BY <2>1
  <2>3. stash' \subseteq 1 .. token' /\ timers' \subseteq 1 .. token'
    BY <1>t, <1>p DEF TypeOK, Parks
  <2>4. token' \in 0 .. MaxToken /\ cur' \in 0 .. token' /\ retired' \in 0 .. token'
    BY <1>t DEF TypeOK
  <2>5. /\ task' \in [Tokens -> {"none", "spawned", "probing"}]
        /\ hold' \in BOOLEAN /\ paused' \in BOOLEAN
        /\ unheard' \subseteq Tokens /\ timedOut' \subseteq Tokens
    BY DEF TypeOK
  <2> QED
    BY <1>c, <2>2, <2>3, <2>4, <2>5 DEF TypeOK
<1>2. Fresh'
  BY <1>t, <1>c DEF Fresh
<1>3. CountsConfirmed'
  BY <1>t, <1>d, <1>c DEF CountsConfirmed, Unissued
<1>4. UnheardIsGone'
  BY <1>t, <1>p, <1>d DEF UnheardIsGone, Fresh, TypeOK, Parks
<1>5. ParkedStillCounts'
  BY <1>t, <1>p, <1>d DEF ParkedStillCounts, UnheardIsGone, TypeOK, Parks
<1>6. NeverOrphaned'
  BY <1>t, <1>d DEF NeverOrphaned, Unissued
<1> QED
  BY <1>1, <1>2, <1>3, <1>4, <1>5, <1>6

\* Deferring takes the deadline away but never the classification.
LEMMA StepDefer ==
  ASSUME IInv, NEW t \in Tokens, DeferConfirmation(t)
  PROVE  IInv'
<1> USE SupervisorConstants DEF Tokens, IInv, DeferConfirmation
<1>d. /\ disp' \in [Tokens -> Dispatch]
      /\ \A u \in Tokens : disp'[u] = IF u = t THEN [disp[u] EXCEPT !.deferred = TRUE] ELSE disp[u]
  BY DispatchWith DEF TypeOK
<1>1. TypeOK'
  BY <1>d DEF TypeOK
<1>2. Fresh'
  BY DEF Fresh
<1>3. CountsConfirmed'
  BY <1>d DEF CountsConfirmed, TypeOK, Dispatch
<1>4. UnheardIsGone'
  BY <1>d DEF UnheardIsGone, TypeOK, Dispatch
<1>5. ParkedStillCounts'
  BY <1>d DEF ParkedStillCounts, TypeOK, Dispatch
<1>6. NeverOrphaned'
  BY <1>d DEF NeverOrphaned, TypeOK, Dispatch
<1> QED
  BY <1>1, <1>2, <1>3, <1>4, <1>5, <1>6

\* A withdrawn dispatch leaves no watchdog to keep.
LEMMA StepFailed ==
  ASSUME IInv, NEW t \in Tokens, OnDispatchFailed(t)
  PROVE  IInv'
<1> USE SupervisorConstants DEF Tokens, IInv, OnDispatchFailed
<1>1. TypeOK'
  BY DEF TypeOK
<1>2. Fresh'
  BY DEF Fresh
<1>3. CountsConfirmed'
  BY DEF CountsConfirmed
<1>4. UnheardIsGone'
  BY DEF UnheardIsGone, TypeOK
<1>5. ParkedStillCounts'
  BY DEF ParkedStillCounts, TypeOK
<1>6. NeverOrphaned'
  BY DEF NeverOrphaned
<1> QED
  BY <1>1, <1>2, <1>3, <1>4, <1>5, <1>6

\* The live dispatch counts only when it was not yet confirmed.
LEMMA StepConfirmLive ==
  ASSUME IInv, NEW t \in Tokens, ConfirmLive(t)
  PROVE  IInv'
<1> USE SupervisorConstants DEF Tokens, IInv, ConfirmLive
<1>d. /\ disp' \in [Tokens -> Dispatch]
      /\ \A u \in Tokens : disp'[u] = IF u = t THEN [disp[u] EXCEPT !.confirmed = TRUE] ELSE disp[u]
  BY DispatchWith DEF TypeOK, Confirmed
<1>c. /\ counted' \in [Tokens -> Nat]
      /\ \A u \in Tokens : counted'[u] = IF u = t /\ ~disp[u].mark THEN counted[u] + 1 ELSE counted[u]
  BY DEF TypeOK, Dispatch, Count
<1>1. TypeOK'
  BY <1>d, <1>c DEF TypeOK
<1>2. Fresh'
  BY <1>c DEF Fresh, TypeOK
<1>3. CountsConfirmed'
  BY <1>d, <1>c DEF CountsConfirmed, TypeOK, Dispatch
<1>4. UnheardIsGone'
  BY <1>d DEF UnheardIsGone, TypeOK, Dispatch
<1>5. ParkedStillCounts'
  BY <1>d DEF ParkedStillCounts, TypeOK, Dispatch
<1>6. NeverOrphaned'
  BY <1>d DEF NeverOrphaned, TypeOK, Dispatch
<1> QED
  BY <1>1, <1>2, <1>3, <1>4, <1>5, <1>6

\* A crossing counts a parked dispatch, which is not the current one.
LEMMA StepConfirmParked ==
  ASSUME IInv, NEW t \in Tokens, ConfirmParked(t)
  PROVE  IInv'
<1> USE SupervisorConstants DEF Tokens, IInv, ConfirmParked
<1>n. ~disp[t].confirmed /\ t # cur
  BY DEF ParkedStillCounts
<1>e. disp' = Confirmed(t) /\ counted' = Count(t)
  BY <1>n
<1>d. /\ disp' \in [Tokens -> Dispatch]
      /\ \A u \in Tokens : disp'[u] = IF u = t THEN [disp[u] EXCEPT !.confirmed = TRUE] ELSE disp[u]
  BY <1>e, DispatchWith DEF TypeOK, Confirmed
<1>c. /\ counted' \in [Tokens -> Nat]
      /\ \A u \in Tokens : counted'[u] = IF u = t /\ ~disp[u].mark THEN counted[u] + 1 ELSE counted[u]
  BY <1>e DEF TypeOK, Dispatch, Count
<1>1. TypeOK'
  BY <1>d, <1>c DEF TypeOK
<1>2. Fresh'
  BY <1>c DEF Fresh, TypeOK
<1>3. CountsConfirmed'
  BY <1>d, <1>c, SMTT(30) DEF CountsConfirmed, TypeOK, Dispatch
<1>4. UnheardIsGone'
  BY <1>d, SMTT(30) DEF UnheardIsGone, ParkedStillCounts, TypeOK, Dispatch
<1>5. ParkedStillCounts'
  BY <1>d DEF ParkedStillCounts, TypeOK, Dispatch
<1>6. NeverOrphaned'
  BY <1>d DEF NeverOrphaned, ParkedStillCounts, TypeOK, Dispatch
<1> QED
  BY <1>1, <1>2, <1>3, <1>4, <1>5, <1>6

\* An outage report retires the live dispatch.
LEMMA StepOutage ==
  ASSUME IInv, OnOutageReported
  PROVE  IInv'
<1> USE SupervisorConstants DEF Tokens, IInv, OnOutageReported, Emit
<1>1. TypeOK'
  BY DEF TypeOK
<1>2. Fresh'
  BY DEF Fresh, TypeOK
<1>3. CountsConfirmed'
  BY DEF CountsConfirmed, TypeOK
<1>4. UnheardIsGone'
  BY DEF UnheardIsGone, ParkedStillCounts, TypeOK
<1>5. ParkedStillCounts'
  BY DEF ParkedStillCounts, TypeOK
<1>6. NeverOrphaned'
  BY DEF NeverOrphaned, TypeOK
<1> QED
  BY <1>1, <1>2, <1>3, <1>4, <1>5, <1>6

\* Entering the hold touches no dispatch.
LEMMA StepHold ==
  ASSUME IInv, EnterHold
  PROVE  IInv'
<1> USE SupervisorConstants DEF Tokens, IInv, EnterHold, supVars
<1>1. TypeOK'
  BY DEF TypeOK
<1>2. Fresh'
  BY DEF Fresh
<1>3. CountsConfirmed'
  BY DEF CountsConfirmed
<1>4. UnheardIsGone'
  BY DEF UnheardIsGone
<1>5. ParkedStillCounts'
  BY DEF ParkedStillCounts
<1>6. NeverOrphaned'
  BY DEF NeverOrphaned
<1> QED
  BY <1>1, <1>2, <1>3, <1>4, <1>5, <1>6

\* Pausing touches no dispatch.
LEMMA StepPaused ==
  ASSUME IInv, NEW b \in BOOLEAN, SetPaused(b)
  PROVE  IInv'
<1> USE SupervisorConstants DEF Tokens, IInv, SetPaused, supVars
<1>1. TypeOK'
  BY DEF TypeOK
<1>2. Fresh'
  BY DEF Fresh
<1>3. CountsConfirmed'
  BY DEF CountsConfirmed
<1>4. UnheardIsGone'
  BY DEF UnheardIsGone
<1>5. ParkedStillCounts'
  BY DEF ParkedStillCounts
<1>6. NeverOrphaned'
  BY DEF NeverOrphaned
<1> QED
  BY <1>1, <1>2, <1>3, <1>4, <1>5, <1>6

\* A timer that fires hands over to its task.
LEMMA StepFires ==
  ASSUME IInv, NEW t \in Tokens, DeadlineFires(t)
  PROVE  IInv'
<1> USE SupervisorConstants DEF Tokens, IInv, DeadlineFires
<1>1. TypeOK'
  BY DEF TypeOK
<1>2. Fresh'
  BY DEF Fresh, TypeOK
<1>3. CountsConfirmed'
  BY DEF CountsConfirmed, TypeOK
<1>4. UnheardIsGone'
  BY DEF UnheardIsGone, TypeOK
<1>5. ParkedStillCounts'
  BY DEF ParkedStillCounts, TypeOK
<1>6. NeverOrphaned'
  BY DEF NeverOrphaned, TypeOK
<1> QED
  BY <1>1, <1>2, <1>3, <1>4, <1>5, <1>6

\* A stale task had nothing left to watch.
LEMMA StepStale ==
  ASSUME IInv, NEW t \in Tokens, DeadlineStale(t)
  PROVE  IInv'
<1> USE SupervisorConstants DEF Tokens, IInv, DeadlineStale
<1>1. TypeOK'
  BY DEF TypeOK
<1>2. Fresh'
  BY DEF Fresh, TypeOK
<1>3. CountsConfirmed'
  BY DEF CountsConfirmed, TypeOK
<1>4. UnheardIsGone'
  BY DEF UnheardIsGone, TypeOK
<1>5. ParkedStillCounts'
  BY DEF ParkedStillCounts, TypeOK
<1>6. NeverOrphaned'
  BY DEF NeverOrphaned, Awaited, TypeOK
<1> QED
  BY <1>1, <1>2, <1>3, <1>4, <1>5, <1>6

\* A suspended deadline is armed again.
LEMMA StepSuspends ==
  ASSUME IInv, NEW t \in Tokens, DeadlineSuspends(t)
  PROVE  IInv'
<1> USE SupervisorConstants DEF Tokens, IInv, DeadlineSuspends, Awaited
<1>1. TypeOK'
  BY DEF TypeOK
<1>2. Fresh'
  BY DEF Fresh, TypeOK
<1>3. CountsConfirmed'
  BY DEF CountsConfirmed, TypeOK
<1>4. UnheardIsGone'
  BY DEF UnheardIsGone, TypeOK
<1>5. ParkedStillCounts'
  BY DEF ParkedStillCounts, TypeOK
<1>6. NeverOrphaned'
  BY DEF NeverOrphaned, TypeOK
<1> QED
  BY <1>1, <1>2, <1>3, <1>4, <1>5, <1>6

\* While the probe runs the task is the watchdog.
LEMMA StepProbes ==
  ASSUME IInv, NEW t \in Tokens, DeadlineProbes(t)
  PROVE  IInv'
<1> USE SupervisorConstants DEF Tokens, IInv, DeadlineProbes
<1>1. TypeOK'
  BY DEF TypeOK
<1>2. Fresh'
  BY DEF Fresh, TypeOK
<1>3. CountsConfirmed'
  BY DEF CountsConfirmed, TypeOK
<1>4. UnheardIsGone'
  BY DEF UnheardIsGone, TypeOK
<1>5. ParkedStillCounts'
  BY DEF ParkedStillCounts, TypeOK
<1>6. NeverOrphaned'
  BY DEF NeverOrphaned, TypeOK
<1> QED
  BY <1>1, <1>2, <1>3, <1>4, <1>5, <1>6

\* A deadline retires the dispatch it classifies, unheard.
LEMMA StepClassifies ==
  ASSUME IInv, NEW t \in Tokens, Awaited(t), task[t] # "none", Classify(t)
  PROVE  IInv'
<1> USE SupervisorConstants DEF Tokens, IInv, Classify, Emit, Awaited
<1>1. TypeOK'
  BY DEF TypeOK
<1>2. Fresh'
  BY DEF Fresh, TypeOK
<1>3. CountsConfirmed'
  BY DEF CountsConfirmed, TypeOK
<1>4. UnheardIsGone'
  BY DEF UnheardIsGone, ParkedStillCounts, TypeOK
<1>5. ParkedStillCounts'
  BY DEF ParkedStillCounts, TypeOK
<1>6. NeverOrphaned'
  BY DEF NeverOrphaned, TypeOK
<1> QED
  BY <1>1, <1>2, <1>3, <1>4, <1>5, <1>6

\* What the probe answers decides between nothing, the extension and the
\* classifier; the extension re-arms the timer.
LEMMA StepProbeReturns ==
  ASSUME IInv, NEW t \in Tokens, NEW busy \in BOOLEAN, ProbeReturns(t, busy)
  PROVE  IInv'
<1> USE DEF Tokens
<1>1. CASE ~Awaited(t)
  <2>1. /\ task' = [task EXCEPT ![t] = "none"]
        /\ UNCHANGED <<token, disp, cur, retired, stash, timers, hold, paused,
                       counted, unheard, timedOut>>
    BY <1>1 DEF ProbeReturns, Classify
  <2>2. TypeOK' /\ Fresh' /\ CountsConfirmed'
    BY <2>1 DEF IInv, TypeOK, Fresh, CountsConfirmed
  <2>3. UnheardIsGone' /\ ParkedStillCounts'
    BY <2>1 DEF IInv, UnheardIsGone, ParkedStillCounts
  <2>4. NeverOrphaned'
    BY <1>1, <2>1 DEF IInv, TypeOK, NeverOrphaned, Awaited
  <2> QED
    BY <2>2, <2>3, <2>4 DEF IInv
<1>2. CASE Awaited(t) /\ busy /\ ~Classify(t)
  <2>1. /\ disp' = [disp EXCEPT ![t].extended = TRUE]
        /\ timers' = timers \cup {t}
        /\ task' = [task EXCEPT ![t] = "none"]
        /\ UNCHANGED <<token, cur, retired, stash, hold, paused, counted, unheard, timedOut>>
    BY <1>2 DEF ProbeReturns
  <2>d. /\ disp' \in [Tokens -> Dispatch]
        /\ \A u \in Tokens : disp'[u] = IF u = t THEN [disp[u] EXCEPT !.extended = TRUE] ELSE disp[u]
    BY <2>1, DispatchWith DEF IInv, TypeOK
  <2>2. TypeOK'
    BY <1>2, <2>1, <2>d, SupervisorConstants DEF IInv, TypeOK, Awaited
  <2>3. Fresh' /\ CountsConfirmed'
    BY <2>1, <2>d DEF IInv, TypeOK, Dispatch, Fresh, CountsConfirmed
  <2>4. UnheardIsGone' /\ ParkedStillCounts'
    BY <2>1, <2>d, SupervisorConstants DEF IInv, TypeOK, Dispatch, UnheardIsGone, ParkedStillCounts
  <2>5. NeverOrphaned'
    BY <1>2, <2>1 DEF IInv, NeverOrphaned, Awaited
  <2> QED
    BY <2>2, <2>3, <2>4, <2>5 DEF IInv
<1>3. CASE Awaited(t) /\ Classify(t)
  <2>1. task[t] # "none"
    BY DEF ProbeReturns
  <2> QED
    BY <1>3, <2>1, StepClassifies
<1> QED
  BY <1>1, <1>2, <1>3 DEF ProbeReturns

-----------------------------------------------------------------------------
\* Every step keeps the inductive invariant.
LEMMA NextIInv == IInv /\ [Next]_vars => IInv'
<1> SUFFICES ASSUME IInv, [Next]_vars PROVE IInv'
  OBVIOUS
<1>1. CASE \E mark, probe, deadline \in BOOLEAN : OnDispatched(mark, probe, deadline)
  BY <1>1, StepDispatched
<1>2. CASE \E mark \in BOOLEAN : OnGaplessBoundary(mark)
  BY <1>2, StepGapless
<1>3. CASE \E t \in Tokens : DeferConfirmation(t) \/ OnDispatchFailed(t)
  BY <1>3, StepDefer, StepFailed
<1>4. CASE \E t \in Tokens : OnPlaybackConfirmed(t)
  BY <1>4, StepConfirmLive, StepConfirmParked DEF OnPlaybackConfirmed
<1>5. CASE \E t \in Tokens : Deadline(t)
  <2> SUFFICES ASSUME NEW t \in Tokens, Deadline(t) PROVE IInv'
    BY <1>5
  <2>1. CASE DeadlineFires(t) \/ DeadlineStale(t)
    BY <2>1, StepFires, StepStale
  <2>2. CASE DeadlineSuspends(t) \/ DeadlineProbes(t)
    BY <2>2, StepSuspends, StepProbes
  <2>3. CASE DeadlineClassifies(t)
    BY <2>3, StepClassifies DEF DeadlineClassifies
  <2>4. CASE \E busy \in BOOLEAN : ProbeReturns(t, busy)
    BY <2>4, StepProbeReturns
  <2> QED
    BY <2>1, <2>2, <2>3, <2>4 DEF Deadline
<1>6. CASE OnOutageReported \/ EnterHold
  BY <1>6, StepOutage, StepHold
<1>7. CASE \E b \in BOOLEAN : SetPaused(b)
  BY <1>7, StepPaused
<1>8. CASE UNCHANGED vars
  <2>1. TypeOK' /\ Fresh' /\ CountsConfirmed'
    BY <1>8 DEF IInv, vars, TypeOK, Fresh, CountsConfirmed
  <2>2. UnheardIsGone' /\ ParkedStillCounts' /\ NeverOrphaned'
    BY <1>8 DEF IInv, vars, UnheardIsGone, ParkedStillCounts, NeverOrphaned
  <2> QED
    BY <2>1, <2>2 DEF IInv
<1> QED
  BY <1>1, <1>2, <1>3, <1>4, <1>5, <1>6, <1>7, <1>8 DEF Next

\* The invariant holds in every behaviour.
LEMMA Invariance == Spec => []IInv
  BY InitIInv, NextIInv, PTL DEF Spec

-----------------------------------------------------------------------------
\* Variables keep their types (session.py:455-605).
THEOREM TypeCorrect == Spec => []TypeOK
<1>1. IInv => TypeOK
  BY DEF IInv
<1> QED
  BY <1>1, Invariance, PTL

\* However confirmations repeat, arrive late or cross a deadline, each
\* dispatched token counts at most one play and a marked one none
\* (on_playback_confirmed, session.py:547-599).
THEOREM CountOnce == Spec => []CountedAtMostOnce
<1>1. IInv => CountedAtMostOnce
  BY DEF IInv, TypeOK, CountsConfirmed, CountedAtMostOnce
<1> QED
  BY <1>1, Invariance, PTL

\* A play handed to the classifier unheard never counts afterwards
\* (_emit_outage_suspected, session.py:840-859).
THEOREM UnheardStaysUncounted == Spec => []UnheardNeverCounts
<1>1. IInv => UnheardNeverCounts
  BY DEF IInv, TypeOK, CountsConfirmed, UnheardIsGone, UnheardNeverCounts
<1> QED
  BY <1>1, Invariance, PTL

\* A dispatch that awaits confirmation always has a timer or a deadline task
\* (_deadline_expired, session.py:794-838).
THEOREM Watched == Spec => []NeverOrphaned
<1>1. IInv => NeverOrphaned
  BY DEF IInv
<1> QED
  BY <1>1, Invariance, PTL

\* Parked dispatches keep their right to count (on_dispatched, session.py:
\* 472-518, _confirm_deferred_crossing, 579-599).
THEOREM ParkedCanCount == Spec => []ParkedStillCounts
<1>1. IInv => ParkedStillCounts
  BY DEF IInv
<1> QED
  BY <1>1, Invariance, PTL
-----------------------------------------------------------------------------
(* The cap of the stash *)

\* A set of tokens that is not empty has an oldest one: the entry that
\* on_dispatched evicts exists.
LEMMA Oldest ==
  ASSUME NEW S \in SUBSET Nat, S # {}
  PROVE  \E t \in S : \A u \in S : t <= u
<1> DEFINE R == OpToRel(<, Nat)
<1>1. \E t \in S : \A u \in S : ~ (<<u, t>> \in R)
  <2> HIDE DEF R
  <2> QED
    BY NatLessThanWellFounded, WFMin DEF R
<1>2. \A t, u \in Nat : <<u, t>> \in R <=> u < t
  BY DEF OpToRel
<1> HIDE DEF R
<1>3. PICK t \in S : \A u \in S : ~ (<<u, t>> \in R)
  BY <1>1
<1>4. \A u \in S : ~ (u < t)
  BY <1>2, <1>3
<1>5. \A u \in S : t <= u
  BY <1>4
<1> QED
  BY <1>5

\* Parking keeps the stash within its cap, evicting when it must.
LEMMA ParkedBounded ==
  ASSUME TypeOK, StashBounded, NEW p \in Nat
  PROVE  IsFiniteSet(Parked(p)) /\ Cardinality(Parked(p)) <= FlowCap
<1> DEFINE s == stash \cup {p}
           oldest == CHOOSE t \in s : \A u \in s : t <= u
<1>1. token \in Nat /\ stash \in SUBSET (1 .. token)
  BY SupervisorConstants DEF TypeOK
<1>2. IsFiniteSet(stash) /\ Cardinality(stash) \in Nat
  <2>1. IsFiniteSet(1 .. token)
    BY <1>1, FS_Interval
  <2>2. IsFiniteSet(stash)
    BY <1>1, <2>1, FS_Subset
  <2> QED
    BY <2>2, FS_CardinalityType
<1>3. IsFiniteSet(s) /\ Cardinality(s) \in Nat /\ Cardinality(s) <= FlowCap + 1
  BY <1>2, FS_AddElement, FS_CardinalityType, SupervisorConstants DEF StashBounded
<1>4. oldest \in s
  <2>1. s \in SUBSET Nat /\ s # {}
    BY <1>1
  <2>2. \E t \in s : \A u \in s : t <= u
    BY <2>1, Oldest
  <2> QED
    BY <2>2
<1>5. IsFiniteSet(s \ {oldest}) /\ Cardinality(s \ {oldest}) = Cardinality(s) - 1
  <2> HIDE DEF s, oldest
  <2> QED
    BY <1>3, <1>4, FS_RemoveElement
<1>6. CASE Cardinality(s) > FlowCap
  BY <1>3, <1>5, <1>6, SupervisorConstants DEF Parked
<1>7. CASE ~ (Cardinality(s) > FlowCap)
  BY <1>3, <1>7, SupervisorConstants DEF Parked
<1> QED
  BY <1>6, <1>7

\* Only parking makes the stash grow; a crossing takes an entry out.
LEMMA StashSteps ==
  ASSUME TypeOK, [Next]_vars
  PROVE  \/ cur # 0 /\ stash' = Parked(cur)
         \/ stash' \in SUBSET stash
<1>1. CASE \E mark, probe, deadline \in BOOLEAN : OnDispatched(mark, probe, deadline)
  BY <1>1 DEF OnDispatched, Parks
<1>2. CASE \E mark \in BOOLEAN : OnGaplessBoundary(mark)
  BY <1>2 DEF OnGaplessBoundary, Parks
<1>3. CASE \E t \in Tokens : DeferConfirmation(t) \/ OnDispatchFailed(t)
  BY <1>3 DEF DeferConfirmation, OnDispatchFailed
<1>4. CASE \E t \in Tokens : OnPlaybackConfirmed(t)
  BY <1>4 DEF OnPlaybackConfirmed, ConfirmLive, ConfirmParked
<1>5. CASE \E t \in Tokens : Deadline(t)
  BY <1>5 DEF Deadline, DeadlineFires, DeadlineStale, DeadlineSuspends, DeadlineProbes,
              DeadlineClassifies, ProbeReturns, Classify
<1>6. CASE OnOutageReported \/ EnterHold \/ \E b \in BOOLEAN : SetPaused(b)
  BY <1>6 DEF OnOutageReported, EnterHold, SetPaused, supVars
<1>7. CASE UNCHANGED vars
  BY <1>7 DEF vars
<1> QED
  BY <1>1, <1>2, <1>3, <1>4, <1>5, <1>6, <1>7 DEF Next

\* However fast boundaries supersede each other, the stash of parked
\* dispatches stays within its cap, because what parking evicts is an entry
\* it really holds (on_dispatched, session.py:498-505).
THEOREM StashCapped == Spec => []StashBounded
<1>1. Init => StashBounded
  BY SupervisorConstants, FS_EmptySet DEF Init, StashBounded
<1>2. TypeOK /\ StashBounded /\ [Next]_vars => StashBounded'
  <2> SUFFICES ASSUME TypeOK, StashBounded, [Next]_vars PROVE StashBounded'
    OBVIOUS
  <2>1. cur \in Nat /\ token \in Nat /\ stash \in SUBSET (1 .. token)
    BY SupervisorConstants DEF TypeOK
  <2>2. CASE stash' = Parked(cur)
    BY <2>1, <2>2, ParkedBounded DEF StashBounded
  <2>3. CASE stash' \in SUBSET stash
    <3>0. IsFiniteSet(1 .. token)
      BY <2>1, FS_Interval
    <3>1. IsFiniteSet(stash)
      BY <2>1, <3>0, FS_Subset
    <3>2. /\ Cardinality(stash') <= Cardinality(stash)
          /\ Cardinality(stash) \in Nat /\ Cardinality(stash') \in Nat
      BY <2>3, <3>1, FS_Subset, FS_CardinalityType
    <3> QED
      BY <3>2, SupervisorConstants DEF StashBounded
  <2> QED
    BY <2>2, <2>3, StashSteps
<1> QED
  BY <1>1, <1>2, TypeCorrect, PTL DEF Spec

-----------------------------------------------------------------------------
(***************************************************************************)
(* OutputSupervisor implements DispatchLedger, for every number of         *)
(* dispatches and every stash cap.                                         *)
(***************************************************************************)

\* The dispatch record of a token that was not issued is untouched.
Blank == \A t \in Tokens : t > token => ~disp[t].mark

RInv == IInv /\ Blank

-----------------------------------------------------------------------------
\* No handler touches the record of a token that was not issued.
LEMMA StepBlank == RInv /\ [Next]_vars => Blank'
<1> SUFFICES ASSUME RInv, [Next]_vars PROVE Blank'
  OBVIOUS
<1> USE SupervisorConstants DEF Tokens, RInv, IInv
<1>t. token \in 0 .. MaxToken /\ cur \in 0 .. token /\ disp \in [Tokens -> Dispatch]
      /\ stash \subseteq 1 .. token
  BY DEF TypeOK
<1>1. ASSUME NEW mark \in BOOLEAN, NEW probe \in BOOLEAN, NEW deadline \in BOOLEAN,
             OnDispatched(mark, probe, deadline)
      PROVE  Blank'
  <2>1. token' = token + 1
    BY <1>1 DEF OnDispatched
  <2>2. \A t \in Tokens : t > token + 1 => disp'[t] = disp[t]
    BY <1>1, <1>t DEF OnDispatched
  <2> QED
    BY <2>1, <2>2, <1>t DEF Blank
<1>2. ASSUME NEW mark \in BOOLEAN, OnGaplessBoundary(mark) PROVE Blank'
  <2>1. token' = token + 1
    BY <1>2 DEF OnGaplessBoundary
  <2>2. \A t \in Tokens : t > token + 1 => disp'[t] = disp[t]
    BY <1>2, <1>t DEF OnGaplessBoundary
  <2> QED
    BY <2>1, <2>2, <1>t DEF Blank
<1>3. ASSUME token' = token, \A t \in Tokens : disp'[t].mark = disp[t].mark PROVE Blank'
  BY <1>3 DEF Blank
<1>4. ASSUME NEW t \in Tokens, DeferConfirmation(t) PROVE Blank'
  BY <1>4, <1>3, <1>t DEF DeferConfirmation, Dispatch
<1>5. ASSUME NEW t \in Tokens, OnPlaybackConfirmed(t) PROVE Blank'
  BY <1>5, <1>3, <1>t DEF OnPlaybackConfirmed, ConfirmLive, ConfirmParked, Confirmed, Dispatch
<1>6. ASSUME NEW t \in Tokens, NEW busy \in BOOLEAN, ProbeReturns(t, busy) PROVE Blank'
  BY <1>6, <1>3, <1>t DEF ProbeReturns, Classify, Dispatch
<1>7. ASSUME NEW t \in Tokens,
             DeadlineFires(t) \/ DeadlineStale(t) \/ DeadlineSuspends(t)
               \/ DeadlineProbes(t) \/ DeadlineClassifies(t)
      PROVE  Blank'
  BY <1>7, <1>3 DEF DeadlineFires, DeadlineStale, DeadlineSuspends, DeadlineProbes,
                    DeadlineClassifies, Classify
<1>8. ASSUME NEW t \in Tokens, OnDispatchFailed(t) PROVE Blank'
  BY <1>8, <1>3 DEF OnDispatchFailed
<1>9. ASSUME OnOutageReported \/ EnterHold \/ (\E b \in BOOLEAN : SetPaused(b))
                \/ UNCHANGED vars
      PROVE  Blank'
  BY <1>9, <1>3 DEF OnOutageReported, EnterHold, SetPaused, supVars, vars
<1> QED
  BY <1>1, <1>2, <1>4, <1>5, <1>6, <1>7, <1>8, <1>9 DEF Next, Deadline

\* The strengthened invariant holds in every behaviour.
LEMMA RInvariance == Spec => []RInv
<1>1. Init => RInv
  BY InitIInv DEF Init, RInv, Blank, Unissued, Tokens
<1>2. RInv /\ [Next]_vars => RInv'
  BY NextIInv, StepBlank DEF RInv
<1> QED
  BY <1>1, <1>2, PTL DEF Spec

-----------------------------------------------------------------------------
(* Three shapes of step, as the ledger sees them *)

SameMarks == \A t \in Tokens : disp'[t].mark = disp[t].mark

\* A step that changes no fate and no count is a stutter of the ledger.
LEMMA Stutters ==
  ASSUME token' = token, SameMarks, counted' = counted,
         \A t \in Tokens : Fate(t)' = Fate(t)
  PROVE  UNCHANGED Ledger!ledgerVars
<1>1. [t \in Tokens |-> Fate(t)]' = [t \in Tokens |-> Fate(t)]
  BY DEF Tokens
<1>2. {t \in Tokens : disp[t].mark}' = {t \in Tokens : disp[t].mark}
  BY DEF SameMarks, Tokens
<1> QED
  BY <1>1, <1>2 DEF Ledger!ledgerVars

\* A step that turns one waiting token into a lost one is the ledger's Lose.
LEMMA Loses ==
  ASSUME NEW t \in Tokens, token' = token, SameMarks, counted' = counted,
         Fate(t) = "waiting", Fate(t)' = "lost",
         \A u \in Tokens : u # t => Fate(u)' = Fate(u)
  PROVE  Ledger!Lose(t)
<1> DEFINE F == [u \in Tokens |-> Fate(u)]
<1>1. F' = [F EXCEPT ![t] = "lost"]
  BY DEF Tokens
<1>2. {u \in Tokens : disp[u].mark}' = {u \in Tokens : disp[u].mark}
  BY DEF SameMarks, Tokens
<1>3. t \in Ledger!Waiting
  BY DEF Ledger!Waiting, Ledger!Tokens, Tokens
<1> QED
  BY <1>1, <1>2, <1>3 DEF Ledger!Lose

\* A step that hears one waiting token and counts it is the ledger's Hear.
LEMMA Hears ==
  ASSUME RInv, NEW t \in Tokens, token' = token, SameMarks, counted' = Count(t),
         ~disp[t].confirmed, Fate(t) = "waiting", Fate(t)' = "heard",
         \A u \in Tokens : u # t => Fate(u)' = Fate(u)
  PROVE  Ledger!Hear(t)
<1> DEFINE F == [u \in Tokens |-> Fate(u)]
           M == {u \in Tokens : disp[u].mark}
<1>1. F' = [F EXCEPT ![t] = "heard"]
  BY DEF Tokens
<1>2. M' = M
  BY DEF SameMarks, Tokens
<1>3. t \in Ledger!Waiting
  BY DEF Ledger!Waiting, Ledger!Tokens, Tokens
<1>4. counted[t] = 0 /\ (t \in M <=> disp[t].mark)
  BY DEF RInv, IInv, CountsConfirmed
<1>5. counted' = [counted EXCEPT ![t] = IF t \in M THEN 0 ELSE 1]
  BY <1>4 DEF Count
<1> QED
  BY <1>1, <1>2, <1>3, <1>5 DEF Ledger!Hear

-----------------------------------------------------------------------------
(* Every handler is one of these shapes, or issues a token *)

\* A dispatch issues the next token; the superseded and the evicted are lost.
LEMMA RefineDispatched ==
  ASSUME RInv, NEW mark \in BOOLEAN, NEW probe \in BOOLEAN, NEW deadline \in BOOLEAN,
         OnDispatched(mark, probe, deadline)
  PROVE  \E lost \in SUBSET Ledger!Waiting : Ledger!Issue(mark, FALSE, lost)
<1> DEFINE F == [u \in Tokens |-> Fate(u)]
           M == {u \in Tokens : disp[u].mark}
           lost == {u \in Tokens : Fate(u) = "waiting" /\ Fate(u)' = "lost"}
<1> USE SupervisorConstants DEF Tokens, RInv, IInv, OnDispatched
<1>t. token \in 0 .. MaxToken /\ token + 1 \in Tokens /\ cur \in 0 .. token
      /\ stash \subseteq 1 .. token /\ disp \in [Tokens -> Dispatch]
      /\ counted \in [Tokens -> Nat]
  BY DEF TypeOK
<1>p. stash' \subseteq stash \cup {cur} /\ (~Parks(deadline) => stash' = stash)
  BY ParkedSubset
<1>d. /\ disp'[token + 1].mark = mark /\ ~disp'[token + 1].confirmed
      /\ \A u \in Tokens : u # token + 1 =>
            disp'[u].confirmed = disp[u].confirmed /\ disp'[u].mark = disp[u].mark
  BY <1>t DEF Unissued, Dispatch
<1>1. \A u \in Tokens : u = token + 1 => Fate(u)' = "waiting" /\ Fate(u) = "unissued"
  BY <1>t, <1>d DEF Fate
<1>2. \A u \in Tokens : u > token + 1 => Fate(u)' = Fate(u) /\ Fate(u) = "unissued"
  BY <1>t DEF Fate
<1>3. \A u \in Tokens : u <= token =>
         \/ Fate(u)' = Fate(u)
         \/ Fate(u) = "waiting" /\ Fate(u)' = "lost"
  BY <1>t, <1>p, <1>d DEF Fate, Parks
<1>4. F' = [u \in Tokens |-> CASE u = token + 1 -> "waiting"
                               [] u \in lost    -> "lost"
                               [] OTHER         -> F[u]]
  <2>1. \A u \in Tokens : F'[u] = CASE u = token + 1 -> "waiting"
                                    [] u \in lost    -> "lost"
                                    [] OTHER         -> F[u]
    BY <1>1, <1>2, <1>3, <1>t
  <2> QED
    BY <2>1
<1>5. M' = IF mark THEN M \cup {token + 1} ELSE M
  BY <1>t, <1>d DEF Blank
<1>6. counted' = [counted EXCEPT ![token + 1] = 0]
  <2>1. counted[token + 1] = 0 /\ counted' = counted
    BY <1>t DEF Fresh
  <2> QED
    BY <2>1, <1>t
<1>7. lost \subseteq Ledger!Waiting /\ lost \in SUBSET Ledger!Waiting
  BY DEF Ledger!Waiting, Ledger!Tokens
<1>8. token < MaxToken /\ token' = token + 1
  OBVIOUS
<1> HIDE DEF F, M, lost, OnDispatched, RInv, IInv, Tokens
<1>9. PICK L \in SUBSET Ledger!Waiting : L = lost
  BY <1>7
<1>10. Ledger!Issue(mark, FALSE, L)
  BY <1>4, <1>5, <1>6, <1>7, <1>8, <1>9 DEF Ledger!Issue, Ledger!Tokens, Tokens, F, M
<1> QED
  BY <1>10

\* A gapless boundary issues a token that is heard at once.
LEMMA RefineGapless ==
  ASSUME RInv, NEW mark \in BOOLEAN, OnGaplessBoundary(mark)
  PROVE  \E lost \in SUBSET Ledger!Waiting : Ledger!Issue(mark, TRUE, lost)
<1> DEFINE F == [u \in Tokens |-> Fate(u)]
           M == {u \in Tokens : disp[u].mark}
           lost == {u \in Tokens : Fate(u) = "waiting" /\ Fate(u)' = "lost"}
<1> USE SupervisorConstants DEF Tokens, RInv, IInv, OnGaplessBoundary
<1>t. token \in 0 .. MaxToken /\ token + 1 \in Tokens /\ cur \in 0 .. token
      /\ stash \subseteq 1 .. token /\ disp \in [Tokens -> Dispatch]
      /\ counted \in [Tokens -> Nat]
  BY DEF TypeOK
<1>p. stash' \subseteq stash \cup {cur} /\ (~Parks(TRUE) => stash' = stash)
  BY ParkedSubset
<1>d. /\ disp'[token + 1].mark = mark /\ disp'[token + 1].confirmed
      /\ \A u \in Tokens : u # token + 1 => disp'[u] = disp[u]
  BY <1>t DEF Unissued, Dispatch
<1>1. \A u \in Tokens : u = token + 1 => Fate(u)' = "heard" /\ Fate(u) = "unissued"
  BY <1>t, <1>d DEF Fate
<1>2. \A u \in Tokens : u > token + 1 => Fate(u)' = Fate(u) /\ Fate(u) = "unissued"
  BY <1>t DEF Fate
<1>3. \A u \in Tokens : u <= token =>
         \/ Fate(u)' = Fate(u)
         \/ Fate(u) = "waiting" /\ Fate(u)' = "lost"
  BY <1>t, <1>p, <1>d DEF Fate, Parks
<1>4. F' = [u \in Tokens |-> CASE u = token + 1 -> "heard"
                               [] u \in lost    -> "lost"
                               [] OTHER         -> F[u]]
  <2>1. \A u \in Tokens : F'[u] = CASE u = token + 1 -> "heard"
                                    [] u \in lost    -> "lost"
                                    [] OTHER         -> F[u]
    BY <1>1, <1>2, <1>3, <1>t
  <2> QED
    BY <2>1
<1>5. M' = IF mark THEN M \cup {token + 1} ELSE M
  BY <1>t, <1>d DEF Blank
<1>6. counted' = [counted EXCEPT ![token + 1] = IF ~mark THEN 1 ELSE 0]
  <2>1. counted[token + 1] = 0
    BY <1>t DEF Fresh
  <2>2. counted' = [counted EXCEPT ![token + 1] = IF mark THEN @ ELSE @ + 1]
    OBVIOUS
  <2>3. counted[token + 1] + 1 = 1
    BY <2>1
  <2> QED
    BY <2>1, <2>2, <2>3
<1>7. lost \subseteq Ledger!Waiting /\ lost \in SUBSET Ledger!Waiting
  BY DEF Ledger!Waiting, Ledger!Tokens
<1>8. token < MaxToken /\ token' = token + 1
  OBVIOUS
<1> HIDE DEF F, M, lost, OnGaplessBoundary, RInv, IInv, Tokens
<1>9. PICK L \in SUBSET Ledger!Waiting : L = lost
  BY <1>7
<1>10. Ledger!Issue(mark, TRUE, L)
  BY <1>4, <1>5, <1>6, <1>7, <1>8, <1>9 DEF Ledger!Issue, Ledger!Tokens, Tokens, F, M
<1> QED
  BY <1>10

\* Whatever leaves the current slot unheard is lost; a confirmed one keeps
\* its fate (withdrawal, outage report, deadline).
LEMMA LeavesSlot ==
  ASSUME RInv, NEW t \in Tokens, cur = t, cur' = 0, token' = token, disp' = disp,
         stash' = stash, counted' = counted
  PROVE  Ledger!Lose(t) \/ UNCHANGED Ledger!ledgerVars
<1> USE DEF RInv, IInv
<1>t. t \in Nat \ {0} /\ t <= token /\ token \in Nat
  BY SupervisorConstants DEF TypeOK, Tokens
<1>0. t \notin stash
  BY DEF ParkedStillCounts
<1>1. SameMarks
  BY DEF SameMarks
<1>2. \A u \in Tokens : u # t => Fate(u)' = Fate(u)
  BY DEF Fate, Tokens
<1>3. CASE disp[t].confirmed
  <2>1. Fate(t)' = Fate(t)
    BY <1>3, <1>t DEF Fate
  <2> QED
    BY <2>1, <1>1, <1>2, Stutters
<1>4. CASE ~disp[t].confirmed
  <2>1. Fate(t) = "waiting"
    BY <1>4, <1>t DEF Fate
  <2>2. Fate(t)' = "lost"
    BY <1>4, <1>0, <1>t DEF Fate
  <2> QED
    BY <2>1, <2>2, <1>1, <1>2, Loses
<1> QED
  BY <1>3, <1>4

\* Confirmation of the live dispatch is the ledger's Hear.
LEMMA RefineConfirmLive ==
  ASSUME RInv, NEW t \in Tokens, ConfirmLive(t)
  PROVE  Ledger!Hear(t)
<1> USE DEF ConfirmLive
<1>t. t \in Nat /\ t <= token /\ token \in Nat /\ disp \in [Tokens -> Dispatch]
  BY SupervisorConstants DEF RInv, IInv, TypeOK, Tokens
<1>d. \A u \in Tokens : disp'[u] = IF u = t THEN [disp[u] EXCEPT !.confirmed = TRUE] ELSE disp[u]
  BY <1>t DEF Confirmed
<1>1. SameMarks
  BY <1>t, <1>d DEF SameMarks, Dispatch
<1>2. Fate(t) = "waiting"
  BY <1>t DEF Fate
<1>c. disp'[t].confirmed /\ token' = token
  BY <1>t, <1>d DEF Dispatch
<1>4. Fate(t)' = "heard"
  BY <1>t, <1>c DEF Fate
<1>3. \A u \in Tokens : u # t => Fate(u)' = Fate(u)
  BY <1>d DEF Fate
<1> QED
  BY <1>1, <1>2, <1>3, <1>4, Hears

\* So is the confirmation of a parked one.
LEMMA RefineConfirmParked ==
  ASSUME RInv, NEW t \in Tokens, ConfirmParked(t)
  PROVE  Ledger!Hear(t)
<1> USE DEF ConfirmParked
<1>t. t \in Nat /\ t <= token /\ token \in Nat /\ disp \in [Tokens -> Dispatch]
      /\ ~disp[t].confirmed
  BY SupervisorConstants DEF RInv, IInv, TypeOK, Tokens, ParkedStillCounts
<1>d. \A u \in Tokens : disp'[u] = IF u = t THEN [disp[u] EXCEPT !.confirmed = TRUE] ELSE disp[u]
  BY <1>t DEF Confirmed
<1>1. SameMarks
  BY <1>t, <1>d DEF SameMarks, Dispatch
<1>2. Fate(t) = "waiting"
  BY <1>t DEF Fate
<1>c. disp'[t].confirmed /\ token' = token
  BY <1>t, <1>d DEF Dispatch
<1>4. Fate(t)' = "heard"
  BY <1>t, <1>c DEF Fate
<1>3. \A u \in Tokens : u # t => Fate(u)' = Fate(u)
  BY <1>d DEF Fate
<1> QED
  BY <1>t, <1>1, <1>2, <1>3, <1>4, Hears

\* Deferring, and the probe's extension, change no fate.
LEMMA RefineFlags ==
  ASSUME RInv, NEW t \in Tokens,
         DeferConfirmation(t) \/ \E busy \in BOOLEAN : ProbeReturns(t, busy) /\ cur' = cur
  PROVE  UNCHANGED Ledger!ledgerVars
<1>t. disp \in [Tokens -> Dispatch] /\ t \in Nat \ {0}
  BY SupervisorConstants DEF RInv, IInv, TypeOK, Tokens
<1>1. /\ token' = token /\ cur' = cur /\ stash' = stash /\ counted' = counted
      /\ \A u \in Tokens : /\ disp'[u].mark = disp[u].mark
                           /\ disp'[u].confirmed = disp[u].confirmed
  BY <1>t DEF DeferConfirmation, ProbeReturns, Classify, Emit, Awaited, Dispatch
<1>2. \A u \in Tokens : Fate(u)' = Fate(u)
  BY <1>1 DEF Fate
<1> QED
  BY <1>1, <1>2, Stutters DEF SameMarks

\* Handlers that touch none of the ledger's state stutter.
LEMMA RefineIdle ==
  ASSUME token' = token, cur' = cur, disp' = disp, stash' = stash, counted' = counted
  PROVE  UNCHANGED Ledger!ledgerVars
<1>1. \A u \in Tokens : Fate(u)' = Fate(u)
  BY DEF Fate
<1> QED
  BY <1>1, Stutters DEF SameMarks

\* Withdrawal, outage report and deadline empty the current slot.
LEMMA RefineEmptied ==
  ASSUME RInv, cur # 0,
         \/ \E t \in Tokens : OnDispatchFailed(t) \/ DeadlineClassifies(t)
         \/ \E t \in Tokens, busy \in BOOLEAN : ProbeReturns(t, busy) /\ cur' # cur
         \/ OnOutageReported
  PROVE  (\E t \in Tokens : Ledger!Lose(t)) \/ UNCHANGED Ledger!ledgerVars
<1>t. cur \in Tokens
  BY SupervisorConstants DEF RInv, IInv, TypeOK, Tokens
<1>1. cur' = 0 /\ token' = token /\ disp' = disp /\ stash' = stash /\ counted' = counted
  BY DEF OnDispatchFailed, DeadlineClassifies, ProbeReturns, OnOutageReported,
         Classify, Emit
<1>2. PICK t \in Tokens : cur = t
  BY <1>t
<1> QED
  BY <1>1, <1>2, LeavesSlot

\* Every step of the supervisor is a step or a stutter of the ledger.
LEMMA RefineNext == RInv /\ [Next]_vars => [Ledger!Next]_(Ledger!ledgerVars)
<1> SUFFICES ASSUME RInv, [Next]_vars PROVE Ledger!Next \/ UNCHANGED Ledger!ledgerVars
  OBVIOUS
<1>k. Ledger!Tokens = Tokens /\ 0 \notin Tokens
  BY DEF Ledger!Tokens, Tokens
<1>1. ASSUME NEW mark \in BOOLEAN, NEW probe \in BOOLEAN, NEW deadline \in BOOLEAN,
             OnDispatched(mark, probe, deadline)
      PROVE  Ledger!Next
  BY <1>1, RefineDispatched DEF Ledger!Next
<1>2. ASSUME NEW mark \in BOOLEAN, OnGaplessBoundary(mark) PROVE Ledger!Next
  BY <1>2, RefineGapless DEF Ledger!Next
<1>3. ASSUME NEW t \in Tokens, OnPlaybackConfirmed(t) PROVE Ledger!Next
  BY <1>3, <1>k, RefineConfirmLive, RefineConfirmParked DEF OnPlaybackConfirmed, Ledger!Next
<1>4. ASSUME NEW t \in Tokens, DeferConfirmation(t) PROVE UNCHANGED Ledger!ledgerVars
  BY <1>4, RefineFlags
<1>5. ASSUME NEW t \in Tokens, NEW busy \in BOOLEAN, ProbeReturns(t, busy)
      PROVE  Ledger!Next \/ UNCHANGED Ledger!ledgerVars
  <2>1. cur' = cur => UNCHANGED Ledger!ledgerVars
    BY <1>5, RefineFlags
  <2>2. cur' # cur => cur # 0
    BY <1>5, <1>k DEF ProbeReturns, Awaited
  <2>3. cur' # cur => (\E u \in Tokens : Ledger!Lose(u)) \/ UNCHANGED Ledger!ledgerVars
    BY <1>5, <2>2, RefineEmptied
  <2> QED
    BY <2>1, <2>3, <1>k DEF Ledger!Next
<1>6. ASSUME NEW t \in Tokens, OnDispatchFailed(t) \/ DeadlineClassifies(t)
      PROVE  Ledger!Next \/ UNCHANGED Ledger!ledgerVars
  <2>1. cur # 0
    BY <1>6, <1>k DEF OnDispatchFailed, DeadlineClassifies, Awaited
  <2> QED
    BY <1>6, <2>1, <1>k, RefineEmptied DEF Ledger!Next
<1>7. ASSUME OnOutageReported PROVE Ledger!Next \/ UNCHANGED Ledger!ledgerVars
  BY <1>7, <1>k, RefineEmptied DEF OnOutageReported, Ledger!Next
<1>8. ASSUME NEW t \in Tokens,
             DeadlineFires(t) \/ DeadlineStale(t) \/ DeadlineSuspends(t) \/ DeadlineProbes(t)
      PROVE  UNCHANGED Ledger!ledgerVars
  BY <1>8, RefineIdle DEF DeadlineFires, DeadlineStale, DeadlineSuspends, DeadlineProbes
<1>9. ASSUME EnterHold \/ (\E b \in BOOLEAN : SetPaused(b)) \/ UNCHANGED vars
      PROVE  UNCHANGED Ledger!ledgerVars
  BY <1>9, RefineIdle DEF EnterHold, SetPaused, supVars, vars
<1> QED
  BY <1>1, <1>2, <1>3, <1>4, <1>5, <1>6, <1>7, <1>8, <1>9 DEF Next, Deadline

\* The supervisor starts as the ledger does.
LEMMA RefineInit == Init => Ledger!Init
<1> SUFFICES ASSUME Init PROVE Ledger!Init
  OBVIOUS
<1>1. \A t \in Tokens : Fate(t) = "unissued" /\ ~disp[t].mark
  BY SupervisorConstants DEF Init, Fate, Tokens, Unissued
<1> QED
  BY <1>1 DEF Init, Ledger!Init, Ledger!Tokens, Tokens

\* The output session keeps the ledger's promise: each token is decided once,
\* as heard or as lost, and counted only when heard (session.py:455-859).
THEOREM ImplementsLedger == Spec => LedgerSpec
  BY RefineInit, RefineNext, RInvariance, PTL DEF Spec, LedgerSpec, Ledger!Spec
=============================================================================
