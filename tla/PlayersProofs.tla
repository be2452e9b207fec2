---------------------------- MODULE PlayersProofs ----------------------------
(***************************************************************************)
(* Proofs about the backends of MCPlayers, for any numbers of plays,       *)
(* presses, mishaps, senders and pipelines: no backend ends a play that is *)
(* neither gone nor crossed, none ends a play twice, and the flow mode of  *)
(* the Cast backend counts a play once, and only what was heard.  Every    *)
(* backend has an inductive invariant of its own, defined beside its       *)
(* model; it holds of MCPlayers whenever that backend is the one that      *)
(* runs.  The flow mode comes first, then the direct, the Cast, the Plex   *)
(* and the AirPlay backend, then the theorems about all of them.           *)
(***************************************************************************)
EXTENDS MCPlayers, TLAPS

FlowP == INSTANCE CastFlowProofs WITH
    queue <- v1, flow <- v2, dev <- v3, back <- v4, status <- v5, posted <- v6, host <- v7,
    told <- v8, truth <- v9, used <- v10, MaxPresses <- FlowPresses

FlowRuns == which = "flow" => FlowP!FlowInv

LEMMA FlowStarts ==
  ASSUME Flow!FlowInit
  PROVE  FlowP!FlowInit
  BY DEF Flow!FlowInit, FlowP!FlowInit, Flow!NoSession, FlowP!NoSession, Flow!FlowTracks,
         FlowP!FlowTracks, Flow!Tokens, FlowP!Tokens

LEMMA FlowPumps ==
  ASSUME Flow!Pump
  PROVE  FlowP!Pump
<1>1. Flow!PumpTakes => FlowP!PumpTakes
  BY DEF Flow!PumpTakes, FlowP!PumpTakes
<1>2. Flow!PumpOpens => FlowP!PumpOpens
  BY DEF Flow!PumpOpens, FlowP!PumpOpens, Flow!Superseded, FlowP!Superseded, Flow!Again,
         FlowP!Again, Flow!FirstOfAll, FlowP!FirstOfAll, Flow!Spliced, FlowP!Spliced,
         Flow!Emptied, FlowP!Emptied, Flow!Detached, FlowP!Detached, Flow!NoSession,
         FlowP!NoSession, Flow!Post, FlowP!Post
<1>3. Flow!PumpCrosses => FlowP!PumpCrosses
  BY DEF Flow!PumpCrosses, FlowP!PumpCrosses, Flow!BoundaryStale, FlowP!BoundaryStale,
         Flow!Spliced, FlowP!Spliced, Flow!Issues, FlowP!Issues
<1>4. Flow!PumpEofs => FlowP!PumpEofs
  BY DEF Flow!PumpEofs, FlowP!PumpEofs, Flow!Superseded, FlowP!Superseded
<1>5. Flow!PumpFinalizes => FlowP!PumpFinalizes
  BY DEF Flow!PumpFinalizes, FlowP!PumpFinalizes
<1> QED
  BY <1>1, <1>2, <1>3, <1>4, <1>5 DEF Flow!Pump, FlowP!Pump

LEMMA FlowMishaps ==
  ASSUME Flow!PumpFails \/ Flow!PumpBreaks \/ Flow!DevDropsStream \/ Flow!GraceExpires
  PROVE  FlowP!PumpFails \/ FlowP!PumpBreaks \/ FlowP!DevDropsStream \/ FlowP!GraceExpires
<1>1. Flow!PumpFails => FlowP!PumpFails
  BY DEF Flow!PumpFails, FlowP!PumpFails, Flow!Superseded, FlowP!Superseded, Flow!Again,
         FlowP!Again, Flow!Skipped, FlowP!Skipped, Flow!Mishap, FlowP!Mishap
<1>2. Flow!PumpBreaks => FlowP!PumpBreaks
  BY DEF Flow!PumpBreaks, FlowP!PumpBreaks, Flow!Mishap, FlowP!Mishap
<1>3. Flow!DevDropsStream => FlowP!DevDropsStream
  BY DEF Flow!DevDropsStream, FlowP!DevDropsStream, Flow!Fetching, FlowP!Fetching,
         Flow!Mishap, FlowP!Mishap
<1>4. Flow!GraceExpires => FlowP!GraceExpires
  BY DEF Flow!GraceExpires, FlowP!GraceExpires, Flow!Suspects, FlowP!Suspects, Flow!Emptied,
         FlowP!Emptied, Flow!Detached, FlowP!Detached, Flow!NoSession, FlowP!NoSession,
         Flow!Post, FlowP!Post
<1> QED
  BY <1>1, <1>2, <1>3, <1>4

LEMMA FlowReceives ==
  ASSUME Flow!Device \/ Flow!Listens
  PROVE  FlowP!Device \/ FlowP!Listens
<1>1. Flow!DevBinds => FlowP!DevBinds
  BY DEF Flow!DevBinds, FlowP!DevBinds
<1>2. Flow!DevReaches => FlowP!DevReaches
  BY DEF Flow!DevReaches, FlowP!DevReaches, Flow!Plays, FlowP!Plays, Flow!Fetching, FlowP!Fetching
<1>3. Flow!DevReports => FlowP!DevReports
  BY DEF Flow!DevReports, FlowP!DevReports, Flow!Plays, FlowP!Plays, Flow!Says, FlowP!Says
<1>4. Flow!DevStops => FlowP!DevStops
  BY DEF Flow!DevStops, FlowP!DevStops, Flow!Plays, FlowP!Plays, Flow!Says, FlowP!Says,
         Flow!Fetching, FlowP!Fetching, Flow!Mishap, FlowP!Mishap
<1>5. Flow!Listens => FlowP!Listens
  <2>1. ASSUME NEW s, Flow!PlayingHeard(s) PROVE FlowP!PlayingHeard(s)
    BY <2>1 DEF Flow!PlayingHeard, FlowP!PlayingHeard, Flow!Crossed, FlowP!Crossed,
                Flow!ConfirmAll, FlowP!ConfirmAll, Flow!Tokens, FlowP!Tokens
  <2> QED
    BY <2>1 DEF Flow!Listens, FlowP!Listens, Flow!Post, FlowP!Post
<1> QED
  BY <1>1, <1>2, <1>3, <1>4, <1>5 DEF Flow!Device, FlowP!Device

LEMMA FlowLoops ==
  ASSUME Flow!Loop
  PROVE  FlowP!Loop
<1>1. Flow!NaturalEnd => FlowP!NaturalEnd
  BY DEF Flow!NaturalEnd, FlowP!NaturalEnd, Flow!Runs, FlowP!Runs, Flow!StaleEnd, FlowP!StaleEnd,
         Flow!ConfirmAll, FlowP!ConfirmAll, Flow!Tokens, FlowP!Tokens, Flow!Emptied, FlowP!Emptied,
         Flow!Detached, FlowP!Detached, Flow!NoSession, FlowP!NoSession
<1>2. Flow!SuspectsOutage => FlowP!SuspectsOutage
  BY DEF Flow!SuspectsOutage, FlowP!SuspectsOutage, Flow!Runs, FlowP!Runs, Flow!Suspects,
         FlowP!Suspects, Flow!Emptied, FlowP!Emptied, Flow!Detached, FlowP!Detached,
         Flow!NoSession, FlowP!NoSession
<1>3. Flow!Advances \/ Flow!Judges => FlowP!Advances \/ FlowP!Judges
  BY DEF Flow!Advances, FlowP!Advances, Flow!Judges, FlowP!Judges, Flow!Runs, FlowP!Runs,
         Flow!Moves, FlowP!Moves, Flow!Dispatched, FlowP!Dispatched, Flow!Issues, FlowP!Issues
<1> QED
  BY <1>1, <1>2, <1>3 DEF Flow!Loop, FlowP!Loop

LEMMA FlowPlays ==
  ASSUME Flow!Play
  PROVE  FlowP!Play
<1>1. Flow!PlayRepositions => FlowP!PlayRepositions
  BY DEF Flow!PlayRepositions, FlowP!PlayRepositions, Flow!Reuses, FlowP!Reuses,
         Flow!Repositioned, FlowP!Repositioned, Flow!Emptied, FlowP!Emptied
<1>2. Flow!PlayCreates => FlowP!PlayCreates
  BY DEF Flow!PlayCreates, FlowP!PlayCreates, Flow!Reuses, FlowP!Reuses, Flow!NewSession,
         FlowP!NewSession, Flow!NoSession, FlowP!NoSession, Flow!Emptied, FlowP!Emptied
<1>3. Flow!PlayPerTrack => FlowP!PlayPerTrack
  BY DEF Flow!PlayPerTrack, FlowP!PlayPerTrack, Flow!Emptied, FlowP!Emptied, Flow!Detached,
         FlowP!Detached, Flow!NoSession, FlowP!NoSession
<1>4. Flow!LoadSent => FlowP!LoadSent
  BY DEF Flow!LoadSent, FlowP!LoadSent
<1>5. Flow!LoadReturns => FlowP!LoadReturns
  BY DEF Flow!LoadReturns, FlowP!LoadReturns, Flow!Mishap, FlowP!Mishap, Flow!Suspects,
         FlowP!Suspects, Flow!Emptied, FlowP!Emptied, Flow!Detached, FlowP!Detached,
         Flow!NoSession, FlowP!NoSession, Flow!Post, FlowP!Post
<1> QED
  BY <1>1, <1>2, <1>3, <1>4, <1>5 DEF Flow!Play, FlowP!Play

FlowPressed ==
    \/ FlowP!HostSkips \/ FlowP!HostSeeks \/ FlowP!HostPauses \/ FlowP!HostResumes
    \/ FlowP!HostStops \/ FlowP!HostEdits

LEMMA FlowHosted ==
  ASSUME \/ Flow!HostSkips \/ Flow!HostSeeks \/ Flow!HostPauses \/ Flow!HostResumes
         \/ Flow!HostStops \/ Flow!HostEdits
  PROVE  FlowPressed
<1>1. Flow!HostSkips => FlowP!HostSkips
  BY DEF Flow!HostSkips, FlowP!HostSkips, Flow!Pressed, FlowP!Pressed, Flow!Issues, FlowP!Issues,
         Flow!Dispatched, FlowP!Dispatched
<1>2. Flow!HostSeeks => FlowP!HostSeeks
  BY DEF Flow!HostSeeks, FlowP!HostSeeks, Flow!Pressed, FlowP!Pressed, Flow!Reuses, FlowP!Reuses,
         Flow!Repositioned, FlowP!Repositioned
<1>3. Flow!HostPauses \/ Flow!HostResumes => FlowP!HostPauses \/ FlowP!HostResumes
  BY DEF Flow!HostPauses, FlowP!HostPauses, Flow!HostResumes, FlowP!HostResumes, Flow!Plays,
         FlowP!Plays, Flow!Pressed, FlowP!Pressed
<1>4. Flow!HostStops \/ Flow!HostEdits => FlowP!HostStops \/ FlowP!HostEdits
  BY DEF Flow!HostStops, FlowP!HostStops, Flow!HostEdits, FlowP!HostEdits, Flow!Pressed,
         FlowP!Pressed, Flow!Emptied, FlowP!Emptied, Flow!Detached, FlowP!Detached,
         Flow!NoSession, FlowP!NoSession
<1> QED
  BY <1>1, <1>2, <1>3, <1>4 DEF FlowPressed

\* In flow mode a play is counted at most once, and only if the receiver was
\* heard to play it or a status or an end came late.
THEOREM FlowCountsTrue == Safe => []CountsHeard
<1>0. MaxTracks \in Nat
  BY PlayersConstants
<1>1. Init => FlowRuns
  BY <1>0, FlowStarts, FlowP!FlowInitially DEF Init, FlowRuns
<1>2. FlowRuns /\ [Next]_vars => FlowRuns'
  <2>1. ASSUME FlowP!FlowInv, Flow!FlowNext PROVE FlowP!FlowInv'
    <3>1. FlowP!FlowNext
      BY <2>1, FlowPumps, FlowMishaps, FlowReceives, FlowLoops, FlowPlays, FlowHosted
         DEF Flow!FlowNext, FlowP!FlowNext, FlowPressed
    <3> QED
      BY <2>1, <3>1, FlowP!FlowSteps
  <2>2. ASSUME FlowP!FlowInv, UNCHANGED vars PROVE FlowP!FlowInv'
    BY <2>2, FlowP!FlowSteps DEF vars, From10, FlowP!flowVars
  <2> QED
    BY <2>1, <2>2 DEF FlowRuns, Next, Is, vars
<1>3. FlowRuns => CountsHeard
  BY DEF FlowRuns, CountsHeard, FlowP!FlowInv, FlowP!OncePerToken, FlowP!ConfirmedHeard,
         Flow!FlowCountsHeard, Flow!FlowCountsOnce, Flow!Tokens, FlowP!Tokens
<1> QED
  BY <1>1, <1>2, <1>3, PTL DEF Safe

-----------------------------------------------------------------------------
(* What the proofs of the four other backends keep needing.                     *)

LEMMA AppendAt ==
  ASSUME NEW S, NEW s \in Seq(S), NEW x \in S
  PROVE  /\ Append(s, x) \in Seq(S)
         /\ DOMAIN Append(s, x) = 1 .. Len(s) + 1 /\ DOMAIN s = 1 .. Len(s) /\ Len(s) \in Nat
         /\ \A i \in DOMAIN s : Append(s, x)[i] = s[i]
         /\ Append(s, x)[Len(s) + 1] = x
  OBVIOUS

LEMMA TailAt ==
  ASSUME NEW S, NEW s \in Seq(S), s # <<>>
  PROVE  /\ Tail(s) \in Seq(S) /\ Head(s) = s[1] /\ 1 \in DOMAIN s /\ s[1] \in S
         /\ \A i \in DOMAIN Tail(s) : i \in Nat /\ i + 1 \in DOMAIN s /\ Tail(s)[i] = s[i + 1]
         /\ \A i \in DOMAIN Tail(s) : i + 1 # 1
  OBVIOUS

LEMMA PlaceOf ==
  ASSUME NEW S, NEW s \in Seq(S), NEW i \in DOMAIN s
  PROVE  s[i] \in S /\ i \in Nat
  OBVIOUS

LEMMA PlayersNats ==
  /\ MaxPlays \in Nat /\ MaxPipes \in Nat /\ RadioCap \in Nat /\ MaxSpawns \in Nat
  BY PlayersConstants

-----------------------------------------------------------------------------
(* The direct backend: v1 .. v8 are its pipes, made, bus, dir, runs, posted, *)
(* told and truth.                                                         *)

DirectMessage == [pipe : Direct!Pipes, kind : Direct!HaltKinds \cup {"state", "start", "done"}]
DirectPost == [kind : {"end", "boundary", "reconnect"}, gen : Nat, play : 0 .. MaxPlays]

LEMMA BusSays ==
  ASSUME Direct!BusTyped, NEW m \in DirectMessage, m.pipe <= v4.last, v4'.last = v4.last,
         v3' = Append(v3, m)
  PROVE  /\ Direct!BusTyped'
         /\ \A i \in DOMAIN v3' : (i \in DOMAIN v3 /\ v3'[i] = v3[i]) \/ v3'[i] = m
         /\ \A i, j \in DOMAIN v3' : i \notin DOMAIN v3 /\ j \notin DOMAIN v3 => i = j
  BY AppendAt DEF Direct!BusTyped, DirectMessage

LEMMA BusTakes ==
  ASSUME Direct!BusTyped, v4'.last = v4.last, v3 # <<>>, v3' = Tail(v3)
  PROVE  /\ Direct!BusTyped' /\ Head(v3) = v3[1] /\ 1 \in DOMAIN v3 /\ v3[1] \in DirectMessage
         /\ \A i \in DOMAIN v3' : i \in Nat /\ i + 1 \in DOMAIN v3 /\ v3'[i] = v3[i + 1] /\ i + 1 # 1
<1>1. v3 \in Seq(DirectMessage)
  BY DEF Direct!BusTyped, DirectMessage
<1>2. /\ v3' \in Seq(DirectMessage) /\ Head(v3) = v3[1] /\ 1 \in DOMAIN v3 /\ v3[1] \in DirectMessage
      /\ \A i \in DOMAIN v3' : i \in Nat /\ i + 1 \in DOMAIN v3 /\ v3'[i] = v3[i + 1] /\ i + 1 # 1
  BY <1>1, TailAt
<1>3. Direct!BusTyped'
  BY <1>2 DEF Direct!BusTyped, DirectMessage
<1> QED
  BY <1>2, <1>3

LEMMA BusStays ==
  ASSUME Direct!BusTyped, v4.last <= v4'.last, v4.last \in Nat, v4'.last \in Nat, v3' = v3
  PROVE  Direct!BusTyped'
<1>1. v3 \in Seq(DirectMessage)
  BY DEF Direct!BusTyped, DirectMessage
<1>2. ASSUME NEW i \in DOMAIN v3 PROVE v3[i].pipe <= v4'.last
  <2>0. v3[i] \in DirectMessage
    BY <1>1, PlaceOf
  <2>1. v3[i].pipe \in Nat
    BY <2>0, PlayersNats DEF DirectMessage, Direct!Pipes
  <2> QED
    BY <2>1 DEF Direct!BusTyped
<1> QED
  BY <1>2 DEF Direct!BusTyped

LEMMA PostsAdd ==
  ASSUME Direct!PostsTyped, NEW e \in DirectPost, e.gen = v4.gen, v4'.gen = v4.gen,
         v6' = Append(v6, e)
  PROVE  /\ Direct!PostsTyped'
         /\ \A i \in DOMAIN v6' : (i \in DOMAIN v6 /\ v6'[i] = v6[i]) \/ v6'[i] = e
         /\ \A i, j \in DOMAIN v6' : i \notin DOMAIN v6 /\ j \notin DOMAIN v6 => i = j
  BY AppendAt DEF Direct!PostsTyped, DirectPost

LEMMA PostsTake ==
  ASSUME Direct!PostsTyped, v4'.gen = v4.gen, v6 # <<>>, v6' = Tail(v6)
  PROVE  /\ Direct!PostsTyped' /\ Head(v6) = v6[1] /\ 1 \in DOMAIN v6 /\ v6[1] \in DirectPost
         /\ v6[1].gen <= v4.gen
         /\ \A i \in DOMAIN v6' : i \in Nat /\ i + 1 \in DOMAIN v6 /\ v6'[i] = v6[i + 1] /\ i + 1 # 1
<1>1. v6 \in Seq(DirectPost)
  BY DEF Direct!PostsTyped, DirectPost
<1>2. /\ v6' \in Seq(DirectPost) /\ Head(v6) = v6[1] /\ 1 \in DOMAIN v6 /\ v6[1] \in DirectPost
      /\ \A i \in DOMAIN v6' : i \in Nat /\ i + 1 \in DOMAIN v6 /\ v6'[i] = v6[i + 1] /\ i + 1 # 1
  BY <1>1, TailAt
<1>3. Direct!PostsTyped' /\ v6[1].gen <= v4.gen
  BY <1>2 DEF Direct!PostsTyped, DirectPost
<1> QED
  BY <1>2, <1>3

LEMMA PostsStay ==
  ASSUME Direct!PostsTyped, v4.gen \in Nat, v4'.gen \in Nat, v4.gen <= v4'.gen, v6' = v6
  PROVE  Direct!PostsTyped'
<1>1. v6 \in Seq(DirectPost)
  BY DEF Direct!PostsTyped, DirectPost
<1>2. ASSUME NEW i \in DOMAIN v6 PROVE v6[i].gen <= v4'.gen
  <2>0. v6[i] \in DirectPost
    BY <1>1, PlaceOf
  <2>1. v6[i].gen \in Nat
    BY <2>0 DEF DirectPost
  <2> QED
    BY <2>1 DEF Direct!PostsTyped
<1> QED
  BY <1>2 DEF Direct!PostsTyped

\* A step that adds no halt and no end.
LEMMA DirectKept ==
  ASSUME Direct!DirectInv, Direct!DirectShape', NEW d \in {0, 1}, NEW e \in {0, 1},
         v4'.cur = v4.cur, v4'.pipe = v4.pipe, v4'.gen = v4.gen, v2' = v2,
         v7'.ended = v7.ended, v8'.revived = v8.revived, v8.gone \subseteq v8'.gone,
         v8'.crossed = v8.crossed \/ v8'.crossed = Direct!DPlays,
         \A i \in DOMAIN v3' : v3'[i].kind \in Direct!HaltKinds =>
           i \in Nat /\ i + d \in DOMAIN v3 /\ v3'[i] = v3[i + d],
         \A i \in DOMAIN v6' : v6'[i].kind = "end" =>
           i \in Nat /\ i + e \in DOMAIN v6 /\ v6'[i] = v6[i + e],
         \A p \in Direct!Pipes : v1'[p] \notin {"none", "null"} => v1[p] \notin {"none", "null"},
         Direct!Alive' => Direct!Alive, Direct!Halted => Direct!Halted',
         \A r \in Direct!Runners : v5'[r] = "make" => v5[r] = "make",
         v8'.crossed # Direct!DPlays =>
           /\ v5'["host"] # "none" => v5'["reconnect"] \notin {"teardown", "make"}
           /\ Direct!Dispatching' <=> Direct!Dispatching
  PROVE  Direct!DirectInv'
<1>0. /\ Direct!DirectShape /\ Direct!OnePipeline /\ Direct!HaltsOnce /\ Direct!HaltsGone
      /\ Direct!DirectHealthyKept /\ Direct!DirectEndsOnce
  BY DEF Direct!DirectInv
<1>1. Direct!DirectHealthyKept' /\ Direct!DirectEndsOnce'
  BY <1>0 DEF Direct!DirectHealthyKept, Direct!DirectEndsOnce
<1>2. \A i \in DOMAIN v3' : Direct!Halting(i)' => i \in Nat /\ i + d \in DOMAIN v3 /\ Direct!Halting(i + d)
  BY DEF Direct!Halting
<1>3. Direct!OnePipeline'
  BY <1>0, <1>2 DEF Direct!OnePipeline
<1>4. \A i \in DOMAIN v6' : Direct!EndDue(i)' => i \in Nat /\ i + e \in DOMAIN v6 /\ Direct!EndDue(i + e)
  BY DEF Direct!EndDue
<1>5. Direct!HaltsGone'
  <2>1. ASSUME NEW i \in DOMAIN v3', v3'[i].kind \in Direct!HaltKinds
        PROVE  v2'[v3'[i].pipe] \in v8'.gone
    BY <1>0, <2>1 DEF Direct!HaltsGone
  <2>2. v4'.cur \in Direct!DPlays \ v8'.crossed =>
          v4.cur \in Direct!DPlays \ v8.crossed /\ (Direct!Dispatching' <=> Direct!Dispatching)
    OBVIOUS
  <2> QED
    BY <1>0, <1>4, <2>1, <2>2 DEF Direct!HaltsGone
<1>6. Direct!HaltsOnce'
  <2> SUFFICES ASSUME v4'.cur \in Direct!DPlays \ (v8'.revived \cup v8'.crossed)
               PROVE  Direct!HaltsOnce'
    BY DEF Direct!HaltsOnce
  <2>1. /\ v4.cur \in Direct!DPlays \ (v8.revived \cup v8.crossed)
        /\ Direct!Dispatching' <=> Direct!Dispatching
    OBVIOUS
  <2>2. /\ v7.ended[v4.cur] <= 1
        /\ Direct!Dispatching => v7.ended[v4.cur] = 0
        /\ ~Direct!Dispatching /\ (Direct!Alive \/ \E i \in DOMAIN v3 : Direct!Halting(i)) =>
             v7.ended[v4.cur] = 0 /\ \A i \in DOMAIN v6 : ~Direct!EndDue(i)
        /\ ~Direct!Dispatching => \A i, j \in DOMAIN v6 : Direct!EndDue(i) /\ Direct!EndDue(j) =>
             i = j /\ v7.ended[v4.cur] = 0
    BY <1>0, <2>1 DEF Direct!HaltsOnce
  <2>3. ~Direct!Dispatching' => \A i, j \in DOMAIN v6' : Direct!EndDue(i)' /\ Direct!EndDue(j)' =>
             i = j /\ v7'.ended[v4'.cur] = 0
    BY <1>4, <2>1, <2>2
  <2>4. ~Direct!Dispatching' /\ (Direct!Alive' \/ \E i \in DOMAIN v3' : Direct!Halting(i)') =>
             v7'.ended[v4'.cur] = 0 /\ \A i \in DOMAIN v6' : ~Direct!EndDue(i)'
    BY <1>2, <1>4, <2>1, <2>2
  <2> QED
    BY <2>1, <2>2, <2>3, <2>4 DEF Direct!HaltsOnce
<1> QED
  BY <1>0, <1>1, <1>3, <1>5, <1>6 DEF Direct!DirectInv

LEMMA DirectParts ==
  ASSUME Direct!DirectInv
  PROVE  /\ Direct!BackendTyped /\ Direct!PipesTyped /\ Direct!RunsTyped /\ Direct!BusTyped
         /\ Direct!PostsTyped /\ Direct!LedgerTyped /\ Direct!Unstarted
         /\ Direct!OnePipeline /\ Direct!HaltsOnce /\ Direct!HaltsGone
         /\ Direct!DirectHealthyKept /\ Direct!DirectEndsOnce
         /\ v4.cur \in Nat /\ v4.last \in Nat /\ v4.pipe \in Nat /\ v4.gen \in Nat
  BY PlayersNats DEF Direct!DirectInv, Direct!DirectShape, Direct!BackendTyped

\* ... whose posts stay, and whose bus says no halt.
LEMMA DirectQuiet ==
  ASSUME Direct!DirectInv, Direct!DirectShape', v6' = v6,
         v4'.cur = v4.cur, v4'.pipe = v4.pipe, v4'.gen = v4.gen, v2' = v2,
         v7'.ended = v7.ended, v8'.revived = v8.revived, v8.gone \subseteq v8'.gone,
         v8'.crossed = v8.crossed \/ v8'.crossed = Direct!DPlays,
         \A i \in DOMAIN v3' : v3'[i].kind \in Direct!HaltKinds => i \in DOMAIN v3 /\ v3'[i] = v3[i],
         \A p \in Direct!Pipes : v1'[p] \notin {"none", "null"} => v1[p] \notin {"none", "null"},
         Direct!Alive' => Direct!Alive, Direct!Halted => Direct!Halted',
         \A r \in Direct!Runners : v5'[r] = "make" => v5[r] = "make",
         v8'.crossed # Direct!DPlays =>
           /\ v5'["host"] # "none" => v5'["reconnect"] \notin {"teardown", "make"}
           /\ Direct!Dispatching' <=> Direct!Dispatching
  PROVE  Direct!DirectInv'
<1>1. \A i \in DOMAIN v3' : v3'[i].kind \in Direct!HaltKinds =>
        i \in Nat /\ i + 0 \in DOMAIN v3 /\ v3'[i] = v3[i + 0]
  BY DirectParts DEF Direct!BusTyped
<1>2. \A i \in DOMAIN v6' : i \in Nat /\ i + 0 \in DOMAIN v6 /\ v6'[i] = v6[i + 0]
  BY DirectParts DEF Direct!PostsTyped
<1> QED
  BY <1>1, <1>2, DirectKept

LEMMA PipeStartsKeeps ==
  ASSUME Direct!DirectInv, NEW p \in Direct!Pipes, Direct!PipeStarts(p)
  PROVE  Direct!DirectInv'
<1> USE DirectParts
<1>1. /\ v1[p] = "starting" /\ v1' = [v1 EXCEPT ![p] = "playing"] /\ v3' = Append(v3, [pipe |-> p, kind |-> "state"])
      /\ UNCHANGED <<v2, v4, v5, v6, v7, v8>>
  BY DEF Direct!PipeStarts, Direct!Says
<1>2. p <= v4.last /\ v1'[p] = "playing"
  BY <1>1, PlayersNats DEF Direct!PipesTyped, Direct!Pipes
<1>3. /\ Direct!BusTyped'
      /\ \A i \in DOMAIN v3' : v3'[i].kind \in Direct!HaltKinds => i \in DOMAIN v3 /\ v3'[i] = v3[i]
  <2>1. [pipe |-> p, kind |-> "state"] \in DirectMessage
    BY DEF DirectMessage
  <2> QED
    BY <1>1, <1>2, <2>1, BusSays DEF Direct!HaltKinds
<1>4. Direct!DirectShape'
  BY <1>1, <1>3 DEF Direct!DirectShape, Direct!BackendTyped, Direct!PipesTyped, Direct!RunsTyped,
         Direct!PostsTyped, Direct!LedgerTyped, Direct!Unstarted
<1>5. Direct!Alive' => Direct!Alive
  BY <1>1 DEF Direct!Alive, Direct!PipesTyped
<1>6. Direct!Halted => Direct!Halted'
  BY <1>1 DEF Direct!Halted, Direct!PipesTyped
<1> QED
  BY <1>1, <1>3, <1>4, <1>5, <1>6, DirectQuiet DEF Direct!PipesTyped, Direct!OnePipeline, Direct!Dispatching

LEMMA PressKeeps ==
  ASSUME Direct!DirectInv, Direct!Arms \/ Direct!PausesResumes
  PROVE  Direct!DirectInv'
<1> USE DirectParts
<1>1. CASE Direct!Arms
  <2>1. /\ UNCHANGED <<v1, v2, v3, v5, v6, v7, v8>>
        /\ \E b \in BOOLEAN : v4' = [v4 EXCEPT !.armed = b]
    BY <1>1 DEF Direct!Arms
  <2>2. /\ v4'.cur = v4.cur /\ v4'.pipe = v4.pipe /\ v4'.gen = v4.gen /\ v4'.last = v4.last
        /\ Direct!BackendTyped'
    BY <2>1 DEF Direct!BackendTyped
  <2>3. Direct!DirectShape'
    BY <2>1, <2>2, BusStays, PostsStay DEF Direct!DirectShape, Direct!PipesTyped, Direct!RunsTyped,
           Direct!LedgerTyped, Direct!Unstarted
  <2> QED
    BY <2>1, <2>2, <2>3, DirectQuiet DEF Direct!Alive, Direct!Halted, Direct!OnePipeline, Direct!Dispatching
<1>2. CASE Direct!PausesResumes
  <2>1. /\ v4.pipe # 0 /\ UNCHANGED <<v2, v5, v6, v7, v8>>
        /\ v4' = v4 \/ \E b \in BOOLEAN : v4' = [v4 EXCEPT !.playing = b]
        /\ \/ v3' = v3 /\ v1[v4.pipe] \in {"playing", "paused"} /\ \E s \in {"playing", "paused"} : v1' = [v1 EXCEPT ![v4.pipe] = s]
           \/ v1' = v1 /\ v3' = Append(v3, [pipe |-> v4.pipe, kind |-> "done"])
    BY <1>2 DEF Direct!PausesResumes, Direct!Says
  <2>2. /\ v4'.cur = v4.cur /\ v4'.pipe = v4.pipe /\ v4'.gen = v4.gen /\ v4'.last = v4.last
        /\ Direct!BackendTyped'
    BY <2>1 DEF Direct!BackendTyped
  <2>3. v4.pipe \in Direct!Pipes /\ v4.pipe <= v4.last
    BY <2>1, PlayersNats DEF Direct!BackendTyped, Direct!Pipes, Direct!PipesTyped
  <2>4. /\ Direct!BusTyped'
        /\ \A i \in DOMAIN v3' : v3'[i].kind \in Direct!HaltKinds => i \in DOMAIN v3 /\ v3'[i] = v3[i]
    <3>1. [pipe |-> v4.pipe, kind |-> "done"] \in DirectMessage
      BY <2>3 DEF DirectMessage
    <3> QED
      BY <2>1, <2>2, <2>3, <3>1, BusSays, BusStays, SMTT(30) DEF Direct!HaltKinds
  <2>5. Direct!PipesTyped'
    BY <2>1, <2>2, <2>3, PlayersNats, SMTT(30) DEF Direct!PipesTyped, Direct!Pipes
  <2>6. Direct!DirectShape'
    BY <2>1, <2>2, <2>4, <2>5, PostsStay DEF Direct!DirectShape, Direct!RunsTyped,
           Direct!LedgerTyped, Direct!Unstarted
  <2>7. /\ Direct!Alive' => Direct!Alive
        /\ Direct!Halted => Direct!Halted'
        /\ \A p \in Direct!Pipes : v1'[p] \notin {"none", "null"} => v1[p] \notin {"none", "null"}
    BY <2>1, <2>2, <2>3 DEF Direct!Alive, Direct!Halted, Direct!PipesTyped
  <2> QED
    BY <2>1, <2>2, <2>4, <2>6, <2>7, DirectQuiet DEF Direct!OnePipeline, Direct!Dispatching
<1> QED
  BY <1>1, <1>2

LEMMA ReconnectKeeps ==
  ASSUME Direct!DirectInv, Direct!Reconnects \/ Direct!BackedOff \/ Direct!Stops
  PROVE  Direct!DirectInv'
<1> USE DirectParts
<1>1. /\ UNCHANGED <<v1, v2, v3, v6>> /\ v7'.ended = v7.ended /\ v8'.revived = v8.revived
      /\ v8'.gone = v8.gone /\ DOMAIN v7' = DOMAIN v7 /\ DOMAIN v8' = DOMAIN v8
      /\ v8'.crossed = v8.crossed \/ v8'.crossed = Direct!DPlays
      /\ v4'.cur = v4.cur /\ v4'.pipe = v4.pipe /\ v4'.gen = v4.gen /\ v4'.last = v4.last
      /\ DOMAIN v4' = DOMAIN v4
  BY DEF Direct!Reconnects, Direct!BackedOff, Direct!Stops, Direct!BackendTyped, Direct!LedgerTyped
<1>2. /\ Direct!RunsTyped' /\ v4.cur # 0
      /\ \A r \in Direct!Runners : v5'[r] = "make" => v5[r] = "make"
      /\ v8'.crossed # Direct!DPlays =>
           /\ v5'["host"] # "none" => v5'["reconnect"] \notin {"teardown", "make"}
           /\ Direct!Dispatching' <=> Direct!Dispatching
  <2>1. CASE Direct!Reconnects
    BY <2>1 DEF Direct!Reconnects, Direct!RunsTyped, Direct!Runners, Direct!OnePipeline, Direct!Dispatching,
                Direct!Unstarted
  <2>2. CASE Direct!BackedOff
    BY <2>2 DEF Direct!BackedOff, Direct!RunsTyped, Direct!Runners, Direct!OnePipeline, Direct!Dispatching,
                Direct!LedgerTyped, Direct!Unstarted
  <2>3. CASE Direct!Stops
    BY <2>3 DEF Direct!Stops, Direct!RunsTyped, Direct!Runners, Direct!OnePipeline, Direct!Dispatching,
                Direct!Overlap, Direct!LedgerTyped, Direct!Unstarted
  <2> QED
    BY <2>1, <2>2, <2>3
<1>3. Direct!DirectShape'
  BY <1>1, <1>2, BusStays, PostsStay DEF Direct!DirectShape, Direct!PipesTyped, Direct!BackendTyped,
         Direct!LedgerTyped, Direct!Unstarted
<1> QED
  BY <1>1, <1>2, <1>3, DirectQuiet DEF Direct!Alive, Direct!Halted

\* A pipeline halts: its end or its error goes on the bus.
LEMMA HaltSaid ==
  ASSUME Direct!DirectInv, NEW p \in Direct!Pipes, v1[p] \in {"starting", "playing"},
         NEW k \in Direct!HaltKinds, v3' = Append(v3, [pipe |-> p, kind |-> k]),
         v1' = [v1 EXCEPT ![p] = "ended"], v8' = [v8 EXCEPT !.gone = @ \cup {v2[p]}],
         UNCHANGED <<v2, v4, v5, v6, v7>>
  PROVE  Direct!DirectInv'
<1> USE DirectParts
<1>0. /\ v8'.gone = v8.gone \cup {v2[p]} /\ v8'.crossed = v8.crossed /\ v8'.revived = v8.revived
      /\ DOMAIN v8' = DOMAIN v8
  BY DEF Direct!LedgerTyped
<1>1. p <= v4.last /\ p # 0 /\ v1'[p] = "ended" /\ \A x \in Direct!Pipes \ {p} : v1'[x] = v1[x]
  BY PlayersNats DEF Direct!PipesTyped, Direct!Pipes
<1>2. /\ Direct!BusTyped'
      /\ \A i \in DOMAIN v3' : (i \in DOMAIN v3 /\ v3'[i] = v3[i]) \/ v3'[i] = [pipe |-> p, kind |-> k]
      /\ \A i, j \in DOMAIN v3' : i \notin DOMAIN v3 /\ j \notin DOMAIN v3 => i = j
      /\ \A i \in DOMAIN v3 : v3'[i] = v3[i] \/ v3'[i] = [pipe |-> p, kind |-> k]
  <2>1. [pipe |-> p, kind |-> k] \in DirectMessage
    BY DEF DirectMessage
  <2>2. \A i \in DOMAIN v3 : v3'[i] = v3[i]
    BY <2>1, AppendAt DEF Direct!BusTyped, DirectMessage
  <2> QED
    BY <1>1, <2>1, <2>2, BusSays
<1>3. Direct!DirectShape'
  BY <1>0, <1>1, <1>2 DEF Direct!DirectShape, Direct!BackendTyped, Direct!PipesTyped, Direct!RunsTyped,
         Direct!PostsTyped, Direct!LedgerTyped, Direct!Unstarted
<1>4. v8.crossed # Direct!DPlays =>
        /\ p = v4.pipe /\ Direct!Alive /\ Direct!Halted' /\ ~Direct!Alive'
        /\ \A i \in DOMAIN v3 : ~Direct!Halting(i)
  BY <1>1 DEF Direct!OnePipeline, Direct!Alive, Direct!Halted
<1>5. \A i \in DOMAIN v3' : Direct!Halting(i)' => (i \in DOMAIN v3 /\ Direct!Halting(i)) \/ i \notin DOMAIN v3
  BY <1>2 DEF Direct!Halting
<1>6. Direct!OnePipeline'
  BY <1>0, <1>1, <1>2, <1>4, <1>5 DEF Direct!OnePipeline
<1>7. Direct!HaltsOnce'
  BY <1>0, <1>4 DEF Direct!HaltsOnce, Direct!EndDue, Direct!Dispatching
<1>8. Direct!HaltsGone'
  BY <1>0, <1>2 DEF Direct!HaltsGone, Direct!EndDue, Direct!Dispatching
<1>9. Direct!DirectHealthyKept' /\ Direct!DirectEndsOnce'
  BY <1>0 DEF Direct!DirectHealthyKept, Direct!DirectEndsOnce
<1> QED
  BY <1>3, <1>6, <1>7, <1>8, <1>9 DEF Direct!DirectInv

LEMMA PipeEndsKeeps ==
  ASSUME Direct!DirectInv, NEW p \in Direct!Pipes, Direct!PipeFinishes(p) \/ Direct!PipeErrs(p)
  PROVE  Direct!DirectInv'
<1> USE DirectParts
<1>1. CASE v1' = v1
  <2>1. /\ v1[p] = "playing" /\ v4.pipe = p /\ v3' = Append(v3, [pipe |-> p, kind |-> "start"])
        /\ v4' = [v4 EXCEPT !.armed = FALSE, !.boundary = TRUE]
        /\ UNCHANGED <<v1, v2, v5, v6, v7, v8>>
    BY <1>1 DEF Direct!PipeFinishes, Direct!PipeErrs, Direct!Says, Direct!PipesTyped
  <2>2. /\ v4'.cur = v4.cur /\ v4'.pipe = v4.pipe /\ v4'.gen = v4.gen /\ v4'.last = v4.last
        /\ Direct!BackendTyped'
    BY <2>1 DEF Direct!BackendTyped
  <2>3. /\ Direct!BusTyped'
        /\ \A i \in DOMAIN v3' : v3'[i].kind \in Direct!HaltKinds => i \in DOMAIN v3 /\ v3'[i] = v3[i]
    <3>1. [pipe |-> p, kind |-> "start"] \in DirectMessage
      BY DEF DirectMessage
    <3> QED
      BY <2>1, <2>2, <3>1, BusSays DEF Direct!HaltKinds, Direct!PipesTyped
  <2>4. Direct!DirectShape'
    BY <2>1, <2>2, <2>3, PostsStay DEF Direct!DirectShape, Direct!PipesTyped, Direct!RunsTyped,
           Direct!LedgerTyped, Direct!Unstarted
  <2> QED
    BY <2>1, <2>2, <2>3, <2>4, DirectQuiet DEF Direct!OnePipeline, Direct!Dispatching, Direct!Alive,
       Direct!Halted
<1>2. CASE v1' # v1
  BY <1>2, HaltSaid DEF Direct!PipeFinishes, Direct!PipeErrs, Direct!Says, Direct!HaltKinds
<1> QED
  BY <1>1, <1>2

\* A message of the bus: a halt of the one pipeline is posted, for its dispatch.
LEMMA DeliversKeeps ==
  ASSUME Direct!DirectInv, Direct!BusDelivers
  PROVE  Direct!DirectInv'
<1> USE DirectParts
<1>1. /\ v3 # <<>> /\ v3' = Tail(v3) /\ UNCHANGED <<v1, v2, v5, v8>> /\ v7'.ended = v7.ended
      /\ v4'.cur = v4.cur /\ v4'.pipe = v4.pipe /\ v4'.gen = v4.gen /\ v4'.last = v4.last
      /\ DOMAIN v4' = DOMAIN v4 /\ DOMAIN v7' = DOMAIN v7
  BY DEF Direct!BusDelivers, Direct!Halts, Direct!Starts, Direct!Confirms, Direct!BackendTyped,
         Direct!LedgerTyped
<1>2. /\ Direct!BusTyped' /\ Head(v3) = v3[1] /\ 1 \in DOMAIN v3 /\ v3[1] \in DirectMessage
      /\ \A i \in DOMAIN v3' : i \in Nat /\ i + 1 \in DOMAIN v3 /\ v3'[i] = v3[i + 1] /\ i + 1 # 1
  BY <1>1, BusTakes
<1>3. v3[1].pipe \in Direct!Pipes /\ v3[1].pipe # 0 /\ v1[v3[1].pipe] # "none" /\ v4.cur # 0
  BY <1>2, PlayersNats DEF DirectMessage, Direct!BusTyped, Direct!PipesTyped, Direct!Pipes, Direct!Unstarted
<1> DEFINE E(kind) == [kind |-> kind, gen |-> v4.gen, play |-> v4.cur]
<1>4. \/ v6' = v6
      \/ v6' = Append(v6, E("boundary")) \/ v6' = Append(v6, E("reconnect"))
      \/ /\ v6' = Append(v6, E("end")) /\ v3[1].kind \in Direct!HaltKinds
         /\ v1[v3[1].pipe] # "null"
  BY <1>2 DEF Direct!BusDelivers, Direct!Halts, Direct!Starts, Direct!Confirms, Direct!Posts, Direct!HaltKinds
<1>5. \A kind \in {"boundary", "reconnect", "end"} : E(kind) \in DirectPost /\ E(kind).gen = v4.gen
  BY DEF DirectPost, Direct!BackendTyped
<1>6. Direct!PostsTyped'
  BY <1>1, <1>4, <1>5, PostsAdd, PostsStay
<1>7. Direct!DirectShape'
  BY <1>1, <1>2, <1>3, <1>6 DEF Direct!DirectShape, Direct!BackendTyped, Direct!PipesTyped, Direct!RunsTyped,
         Direct!LedgerTyped, Direct!Unstarted
<1>8. CASE v6' = v6 \/ v6' = Append(v6, E("boundary")) \/ v6' = Append(v6, E("reconnect"))
  <2>1. \A i \in DOMAIN v6' : v6'[i].kind = "end" => i \in Nat /\ i + 0 \in DOMAIN v6 /\ v6'[i] = v6[i + 0]
    <3>1. CASE v6' = v6
      BY <3>1 DEF Direct!PostsTyped
    <3>2. ASSUME NEW kind \in {"boundary", "reconnect"}, v6' = Append(v6, E(kind))
          PROVE  \A i \in DOMAIN v6' : v6'[i].kind = "end" => i \in Nat /\ i + 0 \in DOMAIN v6 /\ v6'[i] = v6[i + 0]
      <4>1. \A i \in DOMAIN v6' : (i \in DOMAIN v6 /\ v6'[i] = v6[i]) \/ v6'[i] = E(kind)
        BY <1>1, <1>5, <3>2, PostsAdd
      <4>2. E(kind).kind # "end" /\ \A i \in DOMAIN v6 : i \in Nat /\ i + 0 = i
        BY DEF Direct!PostsTyped
      <4> HIDE DEF E
      <4> QED
        BY <4>1, <4>2
    <3> QED
      BY <1>8, <3>1, <3>2
  <2> QED
    BY <1>1, <1>2, <1>7, <2>1, DirectKept DEF Direct!Alive, Direct!Halted, Direct!OnePipeline, Direct!Dispatching
<1>9. CASE /\ v6' = Append(v6, E("end")) /\ v3[1].kind \in Direct!HaltKinds
           /\ v1[v3[1].pipe] # "null"
  <2>1. /\ \A i \in DOMAIN v6' : (i \in DOMAIN v6 /\ v6'[i] = v6[i]) \/ v6'[i] = E("end")
        /\ \A i, j \in DOMAIN v6' : i \notin DOMAIN v6 /\ j \notin DOMAIN v6 => i = j
    BY <1>1, <1>5, <1>9, PostsAdd
  <2>2. \A i \in DOMAIN v6' : i \in DOMAIN v6 => v6'[i] = v6[i]
    <3>1. v6 \in Seq(DirectPost)
      BY DEF Direct!PostsTyped, DirectPost
    <3> QED
      BY <1>5, <1>9, <3>1, AppendAt
  <2>3. v8.crossed # Direct!DPlays =>
          /\ v3[1].pipe = v4.pipe /\ Direct!Halting(1) /\ Direct!Halted /\ ~Direct!Alive
          /\ \A i \in DOMAIN v3' : ~Direct!Halting(i)'
    BY <1>1, <1>2, <1>3, <1>9 DEF Direct!OnePipeline, Direct!Halting, Direct!Halted, Direct!Alive
  <2>4. Direct!OnePipeline'
    BY <1>1, <1>3, <2>3 DEF Direct!OnePipeline
  <2>5. Direct!HaltsOnce'
    <3> SUFFICES ASSUME v4'.cur \in Direct!DPlays \ (v8'.revived \cup v8'.crossed)
                 PROVE  Direct!HaltsOnce'
      BY DEF Direct!HaltsOnce
    <3>1. /\ v7.ended[v4.cur] <= 1 /\ Direct!Dispatching' = Direct!Dispatching
          /\ Direct!Dispatching => v7.ended[v4.cur] = 0
          /\ ~Direct!Dispatching => v7.ended[v4.cur] = 0 /\ \A i \in DOMAIN v6 : ~Direct!EndDue(i)
      BY <1>1, <1>2, <2>3 DEF Direct!HaltsOnce, Direct!Dispatching
    <3>2. ~Direct!Dispatching => \A i \in DOMAIN v6' : Direct!EndDue(i)' => i \notin DOMAIN v6
      BY <1>1, <2>2, <3>1 DEF Direct!EndDue
    <3>3. ~Direct!Alive'
      BY <1>1, <2>3 DEF Direct!Alive
    <3> QED
      BY <1>1, <2>1, <2>3, <3>1, <3>2, <3>3 DEF Direct!HaltsOnce
  <2>6. Direct!HaltsGone'
    <3>1. \A i \in DOMAIN v3' : v3'[i].kind \in Direct!HaltKinds => v2'[v3'[i].pipe] \in v8'.gone
      BY <1>1, <1>2 DEF Direct!HaltsGone
    <3>2. v4.cur \in Direct!DPlays \ v8.crossed /\ ~Direct!Dispatching =>
            v4.pipe # 0 /\ v2[v4.pipe] = v4.cur /\ v4.cur \in v8.gone
      BY <1>2, <1>3, <1>9, <2>3 DEF Direct!HaltsGone
    <3> QED
      BY <1>1, <3>1, <3>2 DEF Direct!HaltsGone, Direct!Dispatching
  <2>7. Direct!DirectHealthyKept' /\ Direct!DirectEndsOnce'
    BY <1>1 DEF Direct!DirectHealthyKept, Direct!DirectEndsOnce
  <2> QED
    BY <1>7, <2>4, <2>5, <2>6, <2>7 DEF Direct!DirectInv
<1> QED
  BY <1>4, <1>8, <1>9

LEMMA LoopKeeps ==
  ASSUME Direct!DirectInv, Direct!LoopRuns
  PROVE  Direct!DirectInv'
<1> USE DirectParts
<1>1. v6 # <<>> /\ v6' = Tail(v6) /\ UNCHANGED <<v1, v2, v3, v4>>
  BY DEF Direct!LoopRuns
<1>2. /\ Direct!PostsTyped' /\ Head(v6) = v6[1] /\ 1 \in DOMAIN v6 /\ v6[1] \in DirectPost
      /\ \A i \in DOMAIN v6' : i \in Nat /\ i + 1 \in DOMAIN v6 /\ v6'[i] = v6[i + 1] /\ i + 1 # 1
  BY <1>1, PostsTake
<1>3. v4.cur \in Direct!DPlays
  BY <1>1, PlayersNats DEF Direct!Unstarted, Direct!DPlays, Direct!BackendTyped
<1>4. CASE v6[1].kind # "end"
  <2>1. /\ v7'.ended = v7.ended /\ DOMAIN v7' = DOMAIN v7 /\ v8' = v8
        /\ v5' = v5 \/ v5' = [v5 EXCEPT !["reconnect"] = IF @ = "none" THEN "loop" ELSE @]
    BY <1>2, <1>4 DEF Direct!LoopRuns, Direct!LedgerTyped, DirectPost
  <2>2. /\ Direct!RunsTyped' /\ v5'["host"] = v5["host"]
        /\ v5'["reconnect"] = v5["reconnect"] \/ v5'["reconnect"] = "loop"
    BY <2>1 DEF Direct!RunsTyped, Direct!Runners
  <2>3. Direct!DirectShape'
    <3>1. Direct!BackendTyped' /\ Direct!PipesTyped' /\ Direct!BusTyped'
      BY <1>1, BusStays DEF Direct!BackendTyped, Direct!PipesTyped
    <3>2. Direct!LedgerTyped'
      BY <1>1, <2>1 DEF Direct!LedgerTyped
    <3>3. Direct!Unstarted'
      BY <1>1, <1>3, PlayersNats DEF Direct!Unstarted, Direct!DPlays
    <3> QED
      BY <1>2, <2>2, <3>1, <3>2, <3>3 DEF Direct!DirectShape
  <2>4. \A i \in DOMAIN v3' : i \in Nat /\ i + 0 \in DOMAIN v3 /\ v3'[i] = v3[i + 0]
    BY <1>1 DEF Direct!BusTyped
  <2>5. /\ Direct!Alive' <=> Direct!Alive
        /\ Direct!Halted' <=> Direct!Halted
        /\ Direct!Dispatching' <=> Direct!Dispatching
    BY <1>1, <2>2 DEF Direct!Alive, Direct!Halted, Direct!Dispatching
  <2>6. \A r \in Direct!Runners : v5'[r] = "make" => v5[r] = "make"
    BY <2>2 DEF Direct!Runners
  <2>7. v8'.crossed # Direct!DPlays =>
          /\ v5'["host"] # "none" => v5'["reconnect"] \notin {"teardown", "make"}
          /\ \A p \in Direct!Pipes : v1'[p] \notin {"none", "null"} => v1[p] \notin {"none", "null"}
    BY <1>1, <2>1, <2>2 DEF Direct!OnePipeline
  <2>8. /\ \A i \in DOMAIN v3' : v3'[i] = v3[i] /\ i \in DOMAIN v3
        /\ v8'.gone = v8.gone /\ v8'.crossed = v8.crossed /\ v8'.revived = v8.revived
        /\ v2' = v2 /\ v1' = v1 /\ v4' = v4
    BY <1>1, <2>1
  <2>9. \A i \in DOMAIN v6' : i \in Nat /\ i + 1 \in DOMAIN v6 /\ v6'[i] = v6[i + 1]
    BY <1>2
  <2> QED
    BY <2>1, <2>3, <2>4, <2>5, <2>6, <2>7, <2>8, <2>9, DirectKept
<1>5. CASE v6[1].kind = "end"
  <2> DEFINE late == v6[1].play # v4.cur \/ v6[1].gen # v4.gen \/ v5["host"] # "none"
  <2>1. /\ v7' = [v7 EXCEPT !.ended[v4.cur] = @ + 1] /\ v5' = v5
        /\ v8' = IF late THEN [v8 EXCEPT !.crossed = @ \cup {v4.cur}] ELSE v8
    BY <1>2, <1>5 DEF Direct!LoopRuns
  <2>2. /\ v7'.ended = [v7.ended EXCEPT ![v4.cur] = @ + 1] /\ DOMAIN v7' = DOMAIN v7
        /\ v8'.crossed = IF late THEN v8.crossed \cup {v4.cur} ELSE v8.crossed
        /\ v8'.gone = v8.gone /\ v8'.revived = v8.revived /\ DOMAIN v8' = DOMAIN v8
    BY <2>1 DEF Direct!LedgerTyped
  <2>3. /\ v7'.ended \in [Direct!DPlays -> Nat] /\ v7'.ended[v4.cur] = v7.ended[v4.cur] + 1
        /\ \A n \in Direct!DPlays \ {v4.cur} : v7'.ended[n] = v7.ended[n]
    BY <1>3, <2>2 DEF Direct!LedgerTyped
  <2>4. Direct!DirectShape'
    BY <1>1, <1>2, <1>3, <2>1, <2>2, <2>3, PlayersNats, SMTT(30) DEF Direct!DirectShape, Direct!BackendTyped, Direct!PipesTyped,
           Direct!RunsTyped, Direct!BusTyped, Direct!LedgerTyped, Direct!Unstarted, Direct!DPlays
  <2>5. v8'.crossed # Direct!DPlays => v8.crossed # Direct!DPlays
    BY <1>3, <2>2 DEF Direct!LedgerTyped
  <2>6. Direct!OnePipeline'
    BY <1>1, <1>2, <2>1, <2>5 DEF Direct!OnePipeline, Direct!Halting, Direct!Halted
  <2>7. ~late => ~Direct!Dispatching /\ Direct!EndDue(1)
    BY <1>5 DEF Direct!EndDue, Direct!Dispatching
  <2>8. \A i \in DOMAIN v6' : i \in Nat /\ i + 1 \in DOMAIN v6 /\ i + 1 # 1 /\ (Direct!EndDue(i)' => Direct!EndDue(i + 1))
    BY <1>1, <1>2 DEF Direct!EndDue
  <2>9. ASSUME v4.cur \notin v8'.crossed PROVE v4.cur \notin v8.crossed /\ ~late
    BY <2>2, <2>9
  <2> HIDE DEF late
  <2>10. Direct!HaltsOnce'
    <3> SUFFICES ASSUME v4.cur \notin v8'.revived, v4.cur \notin v8'.crossed
                 PROVE  Direct!HaltsOnce'
      BY <1>1 DEF Direct!HaltsOnce
    <3>1. v4.cur \in Direct!DPlays \ (v8.revived \cup v8.crossed)
      BY <1>3, <2>2, <2>9
    <3>2. /\ v7.ended[v4.cur] = 0 /\ ~Direct!Dispatching
          /\ \A i \in DOMAIN v6' : ~Direct!EndDue(i)'
      BY <1>2, <2>7, <2>8, <2>9, <3>1 DEF Direct!HaltsOnce
    <3>3. ~Direct!Alive /\ \A i \in DOMAIN v3 : ~Direct!Halting(i)
      BY <1>2, <2>7, <2>9, <3>1, <3>2 DEF Direct!HaltsOnce
    <3>4. ~Direct!Alive' /\ (\A i \in DOMAIN v3' : ~Direct!Halting(i)') /\ ~Direct!Dispatching'
      BY <1>1, <2>1, <3>2, <3>3 DEF Direct!Alive, Direct!Halting, Direct!Dispatching
    <3>5. v7'.ended[v4'.cur] <= 1
      BY <1>1, <2>3, <3>2
    <3> QED
      BY <3>2, <3>4, <3>5 DEF Direct!HaltsOnce
  <2>11. Direct!HaltsGone'
    BY <1>1, <2>1, <2>2, <2>8, <2>9 DEF Direct!HaltsGone, Direct!Dispatching
  <2>12. Direct!DirectHealthyKept'
    <3>1. v4.cur \in v8'.gone \cup v8'.crossed
      BY <1>2, <1>3, <2>2, <2>7, <2>9 DEF Direct!HaltsGone
    <3> QED
      BY <2>2, <2>3, <3>1 DEF Direct!DirectHealthyKept, late
  <2>13. Direct!DirectEndsOnce'
    <3>1. v4.cur \in Direct!DPlays \ (v8'.revived \cup v8'.crossed) => v7'.ended[v4.cur] <= 1
      BY <1>1, <2>10 DEF Direct!HaltsOnce
    <3> QED
      BY <2>2, <2>3, <3>1 DEF Direct!DirectEndsOnce, late
  <2> QED
    BY <2>4, <2>6, <2>10, <2>11, <2>12, <2>13 DEF Direct!DirectInv
<1> QED
  BY <1>4, <1>5

LEMMA TeardownKeeps ==
  ASSUME Direct!DirectInv, NEW r \in Direct!Runners, Direct!Executes(r)
  PROVE  Direct!DirectInv'
<1> USE DirectParts
<1>1. /\ UNCHANGED <<v2, v3, v6, v7>>
      /\ v5[r] \in {"teardown", "stop"} /\ v5' = [v5 EXCEPT ![r] = IF @ = "stop" THEN "none" ELSE "make"]
      /\ v1' = IF v4.pipe \in Direct!Pipes THEN [v1 EXCEPT ![v4.pipe] = "null"] ELSE v1
  BY DEF Direct!Executes
<1>2. /\ v4'.cur = v4.cur /\ v4'.pipe = 0 /\ v4'.gen = v4.gen + 1 /\ v4'.last = v4.last
      /\ DOMAIN v4' = DOMAIN v4
  BY DEF Direct!Executes, Direct!BackendTyped
<1>3. /\ v8.gone \subseteq v8'.gone /\ v8'.crossed = v8.crossed /\ v8'.revived = v8.revived
      /\ DOMAIN v8' = DOMAIN v8
  BY DEF Direct!Executes, Direct!LedgerTyped
<1>4. v4.cur # 0 /\ Direct!RunsTyped'
  BY <1>1 DEF Direct!Unstarted, Direct!RunsTyped, Direct!Runners
<1>5. v4.pipe \in Direct!Pipes \/ v4.pipe = 0
  BY PlayersNats DEF Direct!BackendTyped, Direct!Pipes
<1>6. Direct!DirectShape'
  <2>1. Direct!BusTyped' /\ Direct!PostsTyped'
    BY <1>1, <1>2, BusStays, PostsStay
  <2>2. Direct!PipesTyped'
    BY <1>1, <1>2, <1>5, PlayersNats DEF Direct!PipesTyped, Direct!Pipes
  <2> QED
    BY <1>1, <1>2, <1>3, <1>4, <2>1, <2>2, PlayersNats DEF Direct!DirectShape, Direct!BackendTyped,
       Direct!LedgerTyped, Direct!Unstarted
<1>7. /\ \A i \in DOMAIN v6 : v6[i].gen < v4'.gen
      /\ \A i \in DOMAIN v6' : ~Direct!EndDue(i)'
  <2>1. v6 \in Seq(DirectPost)
    BY DEF Direct!PostsTyped, DirectPost
  <2>2. ASSUME NEW i \in DOMAIN v6 PROVE v6[i].gen < v4'.gen
    <3>1. v6[i] \in DirectPost
      BY <2>1, PlaceOf
    <3>2. v6[i].gen \in Nat /\ v6[i].gen <= v4.gen
      BY <3>1 DEF DirectPost, Direct!PostsTyped
    <3> QED
      BY <1>2, <3>2
  <2>3. \A i \in DOMAIN v6 : v6[i].gen # v4'.gen
    <3>1. \A i \in DOMAIN v6 : v6[i] \in DirectPost
      BY <2>1, PlaceOf
    <3>2. \A i \in DOMAIN v6 : v6[i].gen \in Nat
      BY <3>1 DEF DirectPost
    <3> QED
      BY <1>2, <2>2, <3>2
  <2> QED
    BY <1>1, <2>2, <2>3 DEF Direct!EndDue
<1>8. ~Direct!Alive' /\ \A i \in DOMAIN v3' : ~Direct!Halting(i)'
  <2>1. v3 \in Seq(DirectMessage)
    BY DEF Direct!BusTyped, DirectMessage
  <2>2. \A i \in DOMAIN v3 : v3[i] \in DirectMessage
    BY <2>1, PlaceOf
  <2>3. \A i \in DOMAIN v3 : v3[i].pipe # 0
    BY <2>2, PlayersNats DEF DirectMessage, Direct!Pipes
  <2> QED
    BY <1>1, <1>2, <2>3 DEF Direct!Alive, Direct!Halting
<1>9. Direct!OnePipeline'
  <2> SUFFICES ASSUME v8.crossed # Direct!DPlays PROVE Direct!OnePipeline'
    BY <1>3 DEF Direct!OnePipeline
  <2>1. v5'["host"] # "none" => v5'["reconnect"] \notin {"teardown", "make"}
    BY <1>1 DEF Direct!OnePipeline, Direct!RunsTyped, Direct!Runners
  <2>2. \A p \in Direct!Pipes : v1'[p] \in {"none", "null"}
    BY <1>1, <1>5 DEF Direct!OnePipeline, Direct!PipesTyped
  <2> QED
    BY <1>1, <1>2, <1>7, <1>8, <2>1, <2>2 DEF Direct!OnePipeline
<1>10. Direct!Dispatching' => Direct!Dispatching
  BY <1>1 DEF Direct!Dispatching, Direct!RunsTyped, Direct!Runners
<1>11. Direct!HaltsOnce'
  BY <1>1, <1>2, <1>3, <1>7, <1>8, <1>10 DEF Direct!HaltsOnce
<1>12. Direct!HaltsGone'
  BY <1>1, <1>2, <1>3, <1>7 DEF Direct!HaltsGone
<1>13. Direct!DirectHealthyKept' /\ Direct!DirectEndsOnce'
  BY <1>1, <1>3 DEF Direct!DirectHealthyKept, Direct!DirectEndsOnce
<1> QED
  BY <1>6, <1>9, <1>11, <1>12, <1>13 DEF Direct!DirectInv

\* A runner makes a pipeline: it is new, so the bus and the loop say nothing of it.
LEMMA MakesKeeps ==
  ASSUME Direct!DirectInv, NEW r \in Direct!Runners, Direct!Makes(r)
  PROVE  Direct!DirectInv'
<1> USE DirectParts
<1> DEFINE p == v4.last + 1
           again == v7.ended[v4.cur] > 0
<1>1. /\ UNCHANGED <<v3, v6, v7>> /\ v5[r] = "make" /\ v5' = [v5 EXCEPT ![r] = "none"]
      /\ v1' = [v1 EXCEPT ![p] = "starting"] /\ v2' = [v2 EXCEPT ![p] = v4.cur]
      /\ v8' = IF again THEN [v8 EXCEPT !.revived = @ \cup {v4.cur}] ELSE v8
      /\ v4.last < MaxPipes
  BY DEF Direct!Makes
<1>2. /\ v4'.cur = v4.cur /\ v4'.pipe = p /\ v4'.gen = v4.gen /\ v4'.last = p
      /\ DOMAIN v4' = DOMAIN v4
  BY DEF Direct!Makes, Direct!BackendTyped
<1>3. /\ v8'.gone = v8.gone /\ v8'.crossed = v8.crossed /\ DOMAIN v8' = DOMAIN v8
      /\ v8'.revived = IF again THEN v8.revived \cup {v4.cur} ELSE v8.revived
  BY <1>1 DEF Direct!LedgerTyped
<1>4. /\ v4.cur # 0 /\ v4.cur \in Direct!DPlays /\ p \in Direct!Pipes /\ p # 0
  BY <1>1, PlayersNats DEF Direct!Unstarted, Direct!DPlays, Direct!Pipes, Direct!BackendTyped
<1> HIDE DEF again
<1>5. /\ v1'[p] = "starting" /\ v2'[p] = v4.cur
      /\ \A x \in Direct!Pipes \ {p} : v1'[x] = v1[x] /\ v2'[x] = v2[x]
  BY <1>1, <1>4 DEF Direct!PipesTyped
<1>6. Direct!RunsTyped' /\ v5'[r] = "none" /\ \A x \in Direct!Runners \ {r} : v5'[x] = v5[x]
  BY <1>1 DEF Direct!RunsTyped, Direct!Runners
<1>7. /\ Direct!BusTyped'
      /\ \A i \in DOMAIN v3 : v3[i].pipe \in Direct!Pipes \ {p}
  <2>1. v3 \in Seq(DirectMessage) /\ \A i \in DOMAIN v3 : v3[i].pipe <= v4.last
    BY DEF Direct!BusTyped, DirectMessage
  <2>2. \A i \in DOMAIN v3 : v3[i] \in DirectMessage
    BY <2>1, PlaceOf
  <2>3. \A i \in DOMAIN v3 : v3[i].pipe \in Direct!Pipes
    BY <2>2 DEF DirectMessage
  <2>4. \A i \in DOMAIN v3 : v3[i].pipe <= p /\ v3[i].pipe # p
    BY <2>1, <2>3 DEF Direct!Pipes
  <2> QED
    BY <1>1, <1>2, <2>3, <2>4 DEF Direct!BusTyped
<1>8. Direct!DirectShape'
  <2>1. Direct!BackendTyped'
    BY <1>2, <1>4, PlayersNats DEF Direct!BackendTyped, Direct!Pipes
  <2>2. Direct!PipesTyped'
    <3>1. \A x \in Direct!Pipes : x > p <=> (x > v4.last /\ x # p)
      BY DEF Direct!Pipes
    <3> HIDE DEF p
    <3> QED
      BY <1>1, <1>2, <1>4, <1>5, <3>1, PlayersNats DEF Direct!PipesTyped, Direct!BackendTyped, Direct!Pipes
  <2>3. Direct!PostsTyped'
    BY <1>1, <1>2, PostsStay
  <2>4. Direct!LedgerTyped' /\ Direct!Unstarted'
    BY <1>1, <1>2, <1>3, <1>4 DEF Direct!LedgerTyped, Direct!Unstarted
  <2> QED
    BY <1>6, <1>7, <2>1, <2>2, <2>3, <2>4 DEF Direct!DirectShape
<1> HIDE DEF p
<1>9. \A i \in DOMAIN v3' : ~Direct!Halting(i)'
  BY <1>1, <1>2, <1>7 DEF Direct!Halting
<1>10. Direct!OnePipeline'
  <2> SUFFICES ASSUME v8.crossed # Direct!DPlays PROVE Direct!OnePipeline'
    BY <1>3 DEF Direct!OnePipeline
  <2>1. /\ v5["host"] # "none" => v5["reconnect"] \notin {"teardown", "make"}
        /\ \A x \in Direct!Pipes : v1[x] \notin {"none", "null"} => x = v4.pipe
        /\ v4.pipe = 0
    BY <1>1 DEF Direct!OnePipeline
  <2>2. \A x \in Direct!Runners : v5'[x] # "make"
    BY <1>1, <1>6, <2>1 DEF Direct!Runners
  <2>3. v5'["host"] # "none" => v5'["reconnect"] \notin {"teardown", "make"}
    BY <1>6, <2>1 DEF Direct!Runners
  <2>4. \A x \in Direct!Pipes : v1'[x] \notin {"none", "null"} => x = v4'.pipe
    BY <1>2, <1>5, <2>1, PlayersNats DEF Direct!Pipes
  <2> QED
    BY <1>9, <2>2, <2>3, <2>4 DEF Direct!OnePipeline
<1>11. ~(\E i \in DOMAIN v6 : Direct!EndDue(i)) \/ v8.crossed = Direct!DPlays
  BY <1>1 DEF Direct!OnePipeline, Direct!EndDue
<1>12. v8.crossed # Direct!DPlays => ~Direct!Dispatching'
  BY <1>1, <1>6 DEF Direct!OnePipeline, Direct!Dispatching, Direct!Runners
<1>13. \A i \in DOMAIN v6' : Direct!EndDue(i)' <=> Direct!EndDue(i)
  BY <1>1, <1>2 DEF Direct!EndDue
<1>14. Direct!HaltsOnce'
  <2> SUFFICES ASSUME v4.cur \notin v8'.revived, v4.cur \notin v8.crossed
               PROVE  Direct!HaltsOnce'
    BY <1>2, <1>3 DEF Direct!HaltsOnce
  <2>1. v8.crossed # Direct!DPlays /\ ~again
    BY <1>3, <1>4
  <2>2. v7'.ended[v4'.cur] = 0
    BY <1>1, <1>2, <1>4, <2>1 DEF again, Direct!LedgerTyped
  <2>3. \A i \in DOMAIN v6' : ~Direct!EndDue(i)'
    BY <1>1, <1>11, <1>13, <2>1
  <2> QED
    BY <1>12, <2>1, <2>2, <2>3 DEF Direct!HaltsOnce
<1>15. Direct!HaltsGone'
  <2>1. \A i \in DOMAIN v3' : v3'[i].kind \in Direct!HaltKinds => v2'[v3'[i].pipe] \in v8'.gone
    BY <1>1, <1>3, <1>5, <1>7 DEF Direct!HaltsGone
  <2>2. v4'.cur \in Direct!DPlays \ v8'.crossed => \A i \in DOMAIN v6' : ~Direct!EndDue(i)'
    BY <1>1, <1>2, <1>3, <1>11, <1>13
  <2> QED
    BY <1>2, <1>5, <2>1, <2>2 DEF Direct!HaltsGone
<1>16. Direct!DirectHealthyKept' /\ Direct!DirectEndsOnce'
  BY <1>1, <1>3 DEF Direct!DirectHealthyKept, Direct!DirectEndsOnce
<1> QED
  BY <1>8, <1>10, <1>14, <1>15, <1>16 DEF Direct!DirectInv

\* The sink cannot be had: a dispatch is over with, a reconnect tries again.
LEMMA MakeFailsKeeps ==
  ASSUME Direct!DirectInv, NEW r \in Direct!Runners, Direct!MakeFails(r)
  PROVE  Direct!DirectInv'
<1> USE DirectParts
<1>1. /\ UNCHANGED <<v1, v2, v3, v4, v6, v7>> /\ v5[r] = "make"
      /\ v5' = [v5 EXCEPT ![r] = IF r = "host" THEN "none" ELSE "loop"]
  BY DEF Direct!MakeFails
<1>2. /\ v8'.gone = v8.gone \cup {v4.cur} /\ v8'.crossed = v8.crossed /\ v8'.revived = v8.revived
      /\ DOMAIN v8' = DOMAIN v8
  BY DEF Direct!MakeFails, Direct!LedgerTyped
<1>3. v4.cur # 0 /\ Direct!RunsTyped' /\ v5'[r] \in {"none", "loop"} /\ \A x \in Direct!Runners \ {r} : v5'[x] = v5[x]
  BY <1>1 DEF Direct!Unstarted, Direct!RunsTyped, Direct!Runners
<1>4. Direct!DirectShape'
  <2>1. Direct!BusTyped' /\ Direct!PostsTyped'
    BY <1>1, BusStays, PostsStay
  <2> QED
    BY <1>1, <1>2, <1>3, <2>1 DEF Direct!DirectShape, Direct!BackendTyped, Direct!PipesTyped,
       Direct!LedgerTyped, Direct!Unstarted
<1>5. \A i \in DOMAIN v6 : Direct!EndDue(i)' <=> Direct!EndDue(i)
  BY <1>1 DEF Direct!EndDue
<1>6. \A i \in DOMAIN v3 : Direct!Halting(i)' <=> Direct!Halting(i)
  BY <1>1 DEF Direct!Halting
<1>7. v8.crossed # Direct!DPlays => v4.pipe = 0 /\ \A i \in DOMAIN v6 : ~Direct!EndDue(i)
  BY <1>1 DEF Direct!OnePipeline, Direct!EndDue
<1>8. \A i \in DOMAIN v3 : v3[i].pipe # 0
  <2>1. v3 \in Seq(DirectMessage)
    BY DEF Direct!BusTyped, DirectMessage
  <2>2. \A i \in DOMAIN v3 : v3[i] \in DirectMessage
    BY <2>1, PlaceOf
  <2> QED
    BY <2>2, PlayersNats DEF DirectMessage, Direct!Pipes
<1>9. Direct!OnePipeline'
  <2>1. v8.crossed # Direct!DPlays => (v5'["host"] # "none" => v5'["reconnect"] \notin {"teardown", "make"})
    BY <1>1, <1>3 DEF Direct!OnePipeline, Direct!Runners
  <2>2. \A x \in Direct!Runners : v5'[x] = "make" => v5[x] = "make"
    BY <1>3
  <2>3. Direct!Halted' <=> Direct!Halted
    BY <1>1 DEF Direct!Halted
  <2> QED
    BY <1>1, <1>2, <1>6, <2>1, <2>2, <2>3 DEF Direct!OnePipeline
<1>10. Direct!HaltsOnce'
  <2> SUFFICES ASSUME v4.cur \in Direct!DPlays \ (v8.revived \cup v8.crossed)
               PROVE  Direct!HaltsOnce'
    BY <1>1, <1>2 DEF Direct!HaltsOnce
  <2>1. v7.ended[v4.cur] <= 1 /\ (Direct!Dispatching => v7.ended[v4.cur] = 0)
    BY DEF Direct!HaltsOnce
  <2>2. /\ v4.pipe = 0 /\ \A i \in DOMAIN v6 : ~Direct!EndDue(i)
        /\ \A i \in DOMAIN v3 : ~Direct!Halting(i)
    BY <1>7, <1>8 DEF Direct!Halting
  <2>3. Direct!Dispatching' => Direct!Dispatching
    BY <1>3 DEF Direct!Dispatching, Direct!Runners
  <2>4. ~Direct!Alive'
    BY <1>1, <2>2 DEF Direct!Alive
  <2> QED
    BY <1>1, <1>5, <1>6, <2>1, <2>2, <2>3, <2>4 DEF Direct!HaltsOnce
<1>11. Direct!HaltsGone'
  BY <1>1, <1>2, <1>5, <1>7 DEF Direct!HaltsGone
<1>12. Direct!DirectHealthyKept' /\ Direct!DirectEndsOnce'
  BY <1>1, <1>2 DEF Direct!DirectHealthyKept, Direct!DirectEndsOnce
<1> QED
  BY <1>4, <1>9, <1>10, <1>11, <1>12 DEF Direct!DirectInv

\* A dispatch begins: nothing on the bus or in the loop is of it.
LEMMA DispatchKeeps ==
  ASSUME Direct!DirectInv, NEW mode, Direct!PlayStarts(mode)
  PROVE  Direct!DirectInv'
<1> USE DirectParts
<1>1. /\ UNCHANGED <<v1, v2, v3, v6, v7>> /\ v5["host"] = "none" /\ v4.cur < MaxPlays
      /\ v5' = [v5 EXCEPT !["host"] = "teardown"]
  BY DEF Direct!PlayStarts
<1>2. /\ v4'.cur = v4.cur + 1 /\ v4'.pipe = v4.pipe /\ v4'.gen = v4.gen /\ v4'.last = v4.last
      /\ DOMAIN v4' = DOMAIN v4
  BY DEF Direct!PlayStarts, Direct!BackendTyped
<1>3. /\ v8'.gone = v8.gone /\ v8'.crossed = IF Direct!Overlap THEN Direct!DPlays ELSE v8.crossed
      /\ v8'.revived = v8.revived /\ DOMAIN v8' = DOMAIN v8
  BY DEF Direct!PlayStarts, Direct!LedgerTyped
<1>4. /\ Direct!RunsTyped' /\ v5'["host"] = "teardown" /\ v5'["reconnect"] = v5["reconnect"]
      /\ v4'.cur \in Direct!DPlays /\ v4'.cur # 0 /\ v4'.cur # v4.cur /\ v4'.cur > v4.cur
  BY <1>1, <1>2, PlayersNats DEF Direct!RunsTyped, Direct!Runners, Direct!DPlays, Direct!BackendTyped
<1>5. Direct!DirectShape'
  <2>1. Direct!BusTyped' /\ Direct!PostsTyped'
    BY <1>1, <1>2, BusStays, PostsStay
  <2>2. Direct!BackendTyped'
    BY <1>2, <1>4 DEF Direct!BackendTyped, Direct!DPlays
  <2>3. Direct!LedgerTyped'
    <3>1. \A n \in Direct!DPlays : n > v4'.cur => n > v4.cur
      BY <1>2, <1>4 DEF Direct!DPlays
    <3> QED
      BY <1>1, <1>3, <3>1 DEF Direct!LedgerTyped
  <2> QED
    BY <1>1, <1>2, <1>4, <2>1, <2>2, <2>3 DEF Direct!DirectShape, Direct!PipesTyped, Direct!Unstarted
<1>6. Direct!OnePipeline'
  <2> SUFFICES ASSUME v8'.crossed # Direct!DPlays PROVE Direct!OnePipeline'
    BY DEF Direct!OnePipeline
  <2>1. v8.crossed # Direct!DPlays /\ v5["reconnect"] \notin {"teardown", "make"}
    BY <1>3 DEF Direct!Overlap
  <2>2. \A x \in Direct!Runners : v5'[x] = "make" => v5[x] = "make"
    BY <1>4 DEF Direct!Runners
  <2>3. /\ Direct!Halted' <=> Direct!Halted
        /\ \A i \in DOMAIN v3 : Direct!Halting(i)' <=> Direct!Halting(i)
    BY <1>1, <1>2 DEF Direct!Halted, Direct!Halting
  <2> QED
    BY <1>1, <1>2, <1>4, <2>1, <2>2, <2>3 DEF Direct!OnePipeline
<1>7. Direct!Dispatching'
  BY <1>4 DEF Direct!Dispatching
<1>8. v7'.ended[v4'.cur] = 0
  BY <1>1, <1>4 DEF Direct!LedgerTyped
<1>9. Direct!HaltsOnce'
  BY <1>7, <1>8 DEF Direct!HaltsOnce
<1>10. Direct!HaltsGone'
  BY <1>1, <1>3, <1>7 DEF Direct!HaltsGone
<1>11. Direct!DirectHealthyKept' /\ Direct!DirectEndsOnce'
  BY <1>1, <1>3 DEF Direct!DirectHealthyKept, Direct!DirectEndsOnce, Direct!LedgerTyped
<1> QED
  BY <1>5, <1>6, <1>9, <1>10, <1>11 DEF Direct!DirectInv

\* Every step of the backend keeps the invariant.
LEMMA DirectSteps ==
  ASSUME Direct!DirectInv, Direct!DirectNext
  PROVE  Direct!DirectInv'
BY PipeStartsKeeps, PipeEndsKeeps, DeliversKeeps, LoopKeeps, ReconnectKeeps, TeardownKeeps, MakesKeeps,
   MakeFailsKeeps, PressKeeps, DispatchKeeps DEF Direct!DirectNext

\* It holds before anything is dispatched.
LEMMA DirectBegins ==
  ASSUME Direct!DirectInit
  PROVE  Direct!DirectInv
<1>1. /\ v1 = [p \in Direct!Pipes |-> "none"] /\ v2 = [p \in Direct!Pipes |-> 0] /\ v3 = <<>> /\ v6 = <<>>
      /\ v4.cur = 0 /\ v4.last = 0 /\ v4.pipe = 0 /\ v4.gen = 0
      /\ v5 = [x \in Direct!Runners |-> "none"] /\ v7.ended = [n \in Direct!DPlays |-> 0]
      /\ v8.crossed = {}
  BY DEF Direct!DirectInit
<1>2. Direct!DirectShape
  <2>1. Direct!BackendTyped
    BY <1>1, PlayersNats DEF Direct!DirectInit, Direct!BackendTyped
  <2>2. Direct!PipesTyped /\ Direct!RunsTyped /\ Direct!Unstarted
    BY <1>1, PlayersNats DEF Direct!PipesTyped, Direct!RunsTyped, Direct!Runners, Direct!Unstarted, Direct!Pipes
  <2>3. Direct!BusTyped /\ Direct!PostsTyped
    BY <1>1 DEF Direct!BusTyped, Direct!PostsTyped
  <2>4. Direct!LedgerTyped
    BY <1>1 DEF Direct!DirectInit, Direct!LedgerTyped
  <2> QED
    BY <2>1, <2>2, <2>3, <2>4 DEF Direct!DirectShape
<1>3. Direct!OnePipeline
  BY <1>1 DEF Direct!OnePipeline, Direct!Runners
<1>4. Direct!HaltsOnce /\ Direct!HaltsGone
  BY <1>1, PlayersNats DEF Direct!HaltsOnce, Direct!HaltsGone, Direct!DPlays
<1>5. Direct!DirectHealthyKept /\ Direct!DirectEndsOnce
  BY <1>1 DEF Direct!DirectHealthyKept, Direct!DirectEndsOnce
<1> QED
  BY <1>2, <1>3, <1>4, <1>5 DEF Direct!DirectInv

-----------------------------------------------------------------------------
(* The Cast backend: v1 .. v11 are its variables, in the order of MCPlayers.     *)
CastStatus == [media : 0 .. MaxPlays, state : {"PLAYING"} \cup Cast!Terminal]
CastPost == [do : {"eos", "reconnect", "lost"}, play : 0 .. MaxPlays]

LEMMA StatusAdds ==
  ASSUME Cast!StatusTyped, NEW m \in CastStatus, m.media <= v3.cur, v3'.cur = v3.cur, v2' = Append(v2, m)
  PROVE  /\ Cast!StatusTyped'
         /\ \A i \in DOMAIN v2' : (i \in DOMAIN v2 /\ v2'[i] = v2[i]) \/ v2'[i] = m
  BY AppendAt DEF Cast!StatusTyped, CastStatus

LEMMA StatusTakes ==
  ASSUME Cast!StatusTyped, v3'.cur = v3.cur, v2 # <<>>, v2' = Tail(v2)
  PROVE  /\ Cast!StatusTyped' /\ Head(v2) = v2[1] /\ 1 \in DOMAIN v2 /\ v2[1] \in CastStatus
         /\ v2[1].media <= v3.cur
         /\ \A i \in DOMAIN v2' : i \in Nat /\ i + 1 \in DOMAIN v2 /\ v2'[i] = v2[i + 1]
<1>1. v2 \in Seq(CastStatus)
  BY DEF Cast!StatusTyped, CastStatus
<1>2. /\ v2' \in Seq(CastStatus) /\ Head(v2) = v2[1] /\ 1 \in DOMAIN v2 /\ v2[1] \in CastStatus
      /\ \A i \in DOMAIN v2' : i \in Nat /\ i + 1 \in DOMAIN v2 /\ v2'[i] = v2[i + 1]
  BY <1>1, TailAt
<1>3. Cast!StatusTyped' /\ v2[1].media <= v3.cur
  BY <1>2 DEF Cast!StatusTyped, CastStatus
<1> QED
  BY <1>2, <1>3

LEMMA StatusStays ==
  ASSUME Cast!StatusTyped, v3.cur \in Nat, v3'.cur \in Nat, v3.cur <= v3'.cur, v2' = v2
  PROVE  Cast!StatusTyped'
<1>1. v2 \in Seq(CastStatus)
  BY DEF Cast!StatusTyped, CastStatus
<1>2. ASSUME NEW i \in DOMAIN v2 PROVE v2[i].media <= v3'.cur
  <2>1. v2[i] \in CastStatus
    BY <1>1, PlaceOf
  <2>2. v2[i].media \in Nat
    BY <2>1, PlayersNats DEF CastStatus
  <2> QED
    BY <2>2 DEF Cast!StatusTyped
<1> QED
  BY <1>2 DEF Cast!StatusTyped

LEMMA PostAdds ==
  ASSUME Cast!PostedTyped, NEW e \in CastPost, e.play <= v3.cur, v3'.cur = v3.cur, v7' = Append(v7, e)
  PROVE  /\ Cast!PostedTyped'
         /\ \A i \in DOMAIN v7' : (i \in DOMAIN v7 /\ v7'[i] = v7[i]) \/ (i \notin DOMAIN v7 /\ v7'[i] = e)
         /\ \A i, j \in DOMAIN v7' : i \notin DOMAIN v7 /\ j \notin DOMAIN v7 => i = j
  BY AppendAt DEF Cast!PostedTyped, CastPost

LEMMA PostTakes ==
  ASSUME Cast!PostedTyped, v3'.cur = v3.cur, v7 # <<>>, v7' = Tail(v7)
  PROVE  /\ Cast!PostedTyped' /\ Head(v7) = v7[1] /\ 1 \in DOMAIN v7 /\ v7[1] \in CastPost
         /\ \A i \in DOMAIN v7' : i \in Nat /\ i + 1 \in DOMAIN v7 /\ v7'[i] = v7[i + 1] /\ i + 1 # 1
<1>1. v7 \in Seq(CastPost)
  BY DEF Cast!PostedTyped, CastPost
<1>2. /\ v7' \in Seq(CastPost) /\ Head(v7) = v7[1] /\ 1 \in DOMAIN v7 /\ v7[1] \in CastPost
      /\ \A i \in DOMAIN v7' : i \in Nat /\ i + 1 \in DOMAIN v7 /\ v7'[i] = v7[i + 1] /\ i + 1 # 1
  BY <1>1, TailAt
<1>3. Cast!PostedTyped'
  BY <1>2 DEF Cast!PostedTyped, CastPost
<1> QED
  BY <1>2, <1>3

LEMMA PostStays ==
  ASSUME Cast!PostedTyped, v3.cur \in Nat, v3'.cur \in Nat, v3.cur <= v3'.cur, v7' = v7
  PROVE  Cast!PostedTyped' /\ \A i \in DOMAIN v7 : i \in Nat /\ i + 0 = i
<1>1. v7 \in Seq(CastPost)
  BY DEF Cast!PostedTyped, CastPost
<1>2. ASSUME NEW i \in DOMAIN v7 PROVE v7[i].play <= v3'.cur /\ i \in Nat
  <2>1. v7[i] \in CastPost /\ i \in Nat
    BY <1>1, PlaceOf
  <2>2. v7[i].play \in Nat
    BY <2>1, PlayersNats DEF CastPost
  <2> QED
    BY <2>1, <2>2 DEF Cast!PostedTyped
<1> QED
  BY <1>2 DEF Cast!PostedTyped

LEMMA CastParts ==
  ASSUME Cast!CastInv
  PROVE  /\ Cast!RecordsTyped /\ Cast!NumbersTyped /\ Cast!StatusTyped /\ Cast!PostedTyped
         /\ Cast!ReportsOnce /\ Cast!ReportsGone /\ Cast!TrackLives
         /\ Cast!CastHealthyKept /\ Cast!CastEndsOnce
         /\ v3.cur \in 0 .. MaxPlays /\ v3.cur \in Nat
         /\ \A i \in DOMAIN v7 : i \in Nat /\ i + 0 = i
<1>1. /\ Cast!RecordsTyped /\ Cast!NumbersTyped /\ Cast!StatusTyped /\ Cast!PostedTyped
      /\ Cast!ReportsOnce /\ Cast!ReportsGone /\ Cast!TrackLives
      /\ Cast!CastHealthyKept /\ Cast!CastEndsOnce
  BY DEF Cast!CastInv, Cast!CastShape
<1>2. v3.cur \in 0 .. MaxPlays /\ v3.cur \in Nat
  BY <1>1, PlayersNats DEF Cast!NumbersTyped
<1>3. \A i \in DOMAIN v7 : i \in Nat
  BY <1>1 DEF Cast!PostedTyped
<1> QED
  BY <1>1, <1>2, <1>3

\* The watchdog is none, or is of the track whose token is the play token.
DogTyped == /\ v6.play \in {0, v3.armed} /\ v6.early \in BOOLEAN
            /\ v6.play = 0 => v6.pc = "none"

LEMMA DogIsTyped ==
  ASSUME Cast!NumbersTyped
  PROVE  DogTyped
BY DEF Cast!NumbersTyped, DogTyped

LEMMA DogStopped ==
  ASSUME Cast!RecordsTyped, v6' = Cast!NoDog
  PROVE  DogTyped' /\ DOMAIN v6' = DOMAIN v6 /\ v6'.play = 0 /\ v6'.pc = "none" /\ v6'.early = FALSE
BY DEF Cast!NoDog, Cast!RecordsTyped, DogTyped

\* A step that starts no play, arms no track and tells no end.
LEMMA NumbersKept ==
  ASSUME Cast!NumbersTyped, v3'.cur = v3.cur, v3'.armed = v3.armed, v3.mode = "track" => v3'.mode = "track",
         {v1'.media, v1'.load} \subseteq 0 .. v3.cur, DogTyped', v4 = "none" => v4' = "none",
         v8'.loading = v8.loading, v9'.ended = v9.ended
  PROVE  Cast!NumbersTyped'
<1>1. v3.cur \in 0 .. MaxPlays /\ v3.armed \in 0 .. v3.cur
  BY DEF Cast!NumbersTyped
<1>2. {v1'.media, v1'.load, v3'.armed} \subseteq 0 .. v3'.cur
  BY <1>1
<1>3. /\ v3.cur > 0 /\ v3.armed = v3.cur => v3.mode = "track" /\ v4 = "none"
      /\ v4 # "none" => v3.cur > 0
      /\ v8.loading \in [Cast!Plays -> Nat] /\ v9.ended \in [Cast!Plays -> Nat]
      /\ \A n \in Cast!Plays : n > v3.cur => v8.loading[n] = 0 /\ v9.ended[n] = 0
  BY DEF Cast!NumbersTyped
<1> QED
  BY <1>1, <1>2, <1>3 DEF Cast!NumbersTyped, DogTyped

\* A step that tells no end.
LEMMA CastKept ==
  ASSUME Cast!CastInv, Cast!CastShape', Cast!TrackLives', NEW e \in {0, 1},
         v3'.cur = v3.cur, v9'.ended = v9.ended,
         v10.gone \subseteq v10'.gone, v10.crossed \subseteq v10'.crossed, v10.revived \subseteq v10'.revived,
         \A i \in DOMAIN v2' : v2'[i].state \in Cast!Terminal => v2'[i].media \in v10'.gone,
         \A i \in DOMAIN v7' : v7'[i].do = "eos" => i \in Nat /\ i + e \in DOMAIN v7 /\ v7'[i] = v7[i + e],
         v3'.on \/ v3'.mode = "radio" =>
           \/ v3.on \/ v3.mode = "radio" \/ v3.cur \in v10'.revived \cup v10'.crossed
           \/ v9.ended[v3.cur] = 0 /\ \A i \in DOMAIN v7 : ~Cast!EosDue(i)
  PROVE  Cast!CastInv'
<1>1. \A i \in DOMAIN v7' : Cast!EosDue(i)' => i \in Nat /\ i + e \in DOMAIN v7 /\ Cast!EosDue(i + e)
  BY DEF Cast!EosDue
<1>2. Cast!ReportsOnce'
  <2> SUFFICES ASSUME v3.cur \in Cast!Plays \ (v10'.revived \cup v10'.crossed)
               PROVE  Cast!ReportsOnce'
    BY DEF Cast!ReportsOnce
  <2>1. /\ v9.ended[v3.cur] <= 1
        /\ v3.on \/ v3.mode = "radio" => v9.ended[v3.cur] = 0 /\ \A i \in DOMAIN v7 : ~Cast!EosDue(i)
        /\ \A i, j \in DOMAIN v7 : Cast!EosDue(i) /\ Cast!EosDue(j) => i = j /\ v9.ended[v3.cur] = 0
    BY CastParts DEF Cast!ReportsOnce
  <2>2. \A i, j \in DOMAIN v7' : Cast!EosDue(i)' /\ Cast!EosDue(j)' => i = j /\ v9.ended[v3.cur] = 0
    BY <1>1, <2>1
  <2>3. v3'.on \/ v3'.mode = "radio" => v9.ended[v3.cur] = 0 /\ \A i \in DOMAIN v7' : ~Cast!EosDue(i)'
    BY <1>1, <2>1
  <2> QED
    BY <2>1, <2>2, <2>3 DEF Cast!ReportsOnce
<1>3. Cast!ReportsGone'
  BY CastParts DEF Cast!ReportsGone
<1>4. Cast!CastHealthyKept' /\ Cast!CastEndsOnce'
  BY CastParts DEF Cast!CastHealthyKept, Cast!CastEndsOnce
<1> QED
  BY <1>2, <1>3, <1>4 DEF Cast!CastInv

\* A step that tells the current play its end.
LEMMA CastEndTold ==
  ASSUME Cast!CastInv, Cast!PostedTyped', UNCHANGED <<v1, v2, v4, v8>>, v6' = Cast!NoDog, v9' = Cast!Ended(v9),
         v3' = v3 \/ v3' = [v3 EXCEPT !.on = FALSE],
         DOMAIN v10' = DOMAIN v10,
         v10.gone \subseteq v10'.gone, v10.crossed \subseteq v10'.crossed, v10.revived \subseteq v10'.revived,
         \A i \in DOMAIN v7' : v7'[i].do = "eos" => v7'[i].play \in v10'.gone,
         v3.cur \in Cast!Plays => v3.cur \in v10'.gone \cup v10'.crossed,
         v3.cur \in Cast!Plays \ (v10'.revived \cup v10'.crossed) =>
           /\ v9.ended[v3.cur] = 0 /\ ~v3'.on /\ v3.mode # "radio"
           /\ \A i \in DOMAIN v7' : ~Cast!EosDue(i)'
  PROVE  Cast!CastInv'
<1>1. /\ v9'.ended = [v9.ended EXCEPT ![v3.cur] = @ + 1] /\ DOMAIN v9' = DOMAIN v9
      /\ v3'.cur = v3.cur /\ v3'.mode = v3.mode /\ DOMAIN v3' = DOMAIN v3 /\ (v3'.on => v3.on)
      /\ v3'.armed = v3.armed
      /\ v6'.play = 0 /\ v6'.pc = "none" /\ v6'.early \in BOOLEAN /\ DOMAIN v6' = DOMAIN v6
  BY CastParts DEF Cast!Ended, Cast!NoDog, Cast!RecordsTyped
<1>2. /\ v9'.ended \in [Cast!Plays -> Nat]
      /\ \A n \in Cast!Plays \ {v3.cur} : v9'.ended[n] = v9.ended[n]
      /\ v3.cur \in Cast!Plays => v9'.ended[v3.cur] = v9.ended[v3.cur] + 1
  <2>1. v9.ended \in [Cast!Plays -> Nat]
    BY CastParts DEF Cast!NumbersTyped
  <2>0. v9'.ended = [v9.ended EXCEPT ![v3.cur] = @ + 1]
    BY <1>1
  <2>2. CASE v3.cur \in Cast!Plays
    <3>1. v9.ended[v3.cur] + 1 \in Nat
      BY <2>1, <2>2
    <3> QED
      BY <2>0, <2>1, <2>2, <3>1
  <2>3. CASE v3.cur \notin Cast!Plays
    BY <2>0, <2>1, <2>3
  <2> QED
    BY <2>2, <2>3
<1>3. Cast!CastShape'
  <2>1. Cast!RecordsTyped'
    BY <1>1, CastParts DEF Cast!RecordsTyped
  <2>2. Cast!NumbersTyped'
    <3>1. /\ v8.loading \in [Cast!Plays -> Nat] /\ v3.cur \in Nat
          /\ \A n \in Cast!Plays : n > v3.cur => v8.loading[n] = 0 /\ v9.ended[n] = 0
      BY CastParts DEF Cast!NumbersTyped
    <3>2. \A n \in Cast!Plays : n > v3'.cur => v9'.ended[n] = 0 /\ v8'.loading[n] = 0
      <4>1. \A n \in Cast!Plays : n > v3'.cur => n # v3.cur
        BY <1>1, <3>1
      <4> QED
        BY <1>1, <1>2, <3>1, <4>1
    <3>3. /\ v3.cur \in 0 .. MaxPlays /\ {v1.media, v1.load, v3.armed} \subseteq 0 .. v3.cur
          /\ v3.cur > 0 /\ v3.armed = v3.cur => v3.mode = "track" /\ v4 = "none"
          /\ v4 # "none" => v3.cur > 0
      BY CastParts DEF Cast!NumbersTyped
    <3> QED
      BY <1>1, <1>2, <3>1, <3>2, <3>3 DEF Cast!NumbersTyped
  <2>3. Cast!StatusTyped'
    BY <1>1, CastParts, StatusStays
  <2> QED
    BY <2>1, <2>2, <2>3 DEF Cast!CastShape
<1>4. Cast!ReportsOnce' /\ Cast!CastEndsOnce'
  BY <1>1, <1>2, CastParts DEF Cast!ReportsOnce, Cast!CastEndsOnce
<1>5. Cast!ReportsGone' /\ Cast!TrackLives'
  BY <1>1, CastParts DEF Cast!ReportsGone, Cast!TrackLives
<1>6. Cast!CastHealthyKept'
  BY <1>1, <1>2, CastParts DEF Cast!CastHealthyKept
<1> QED
  BY <1>3, <1>4, <1>5, <1>6 DEF Cast!CastInv

\* The receiver of the Cast backend.
LEMMA ReceiverKeeps ==
  ASSUME Cast!CastInv, Cast!Receiver
  PROVE  Cast!CastInv'
<1> USE CastParts
<1>1. UNCHANGED <<v3, v4, v6, v8, v9>> /\ v3'.cur = v3.cur
  BY DEF Cast!Receiver, Cast!RxLoads, Cast!RxEnds, Cast!RxHangs, Cast!RxLost, Cast!RxBack
<1>2. CASE Cast!RxLoads
  <2>1. /\ v1.load # 0 /\ v1'.media = v1.load /\ v1'.load = 0 /\ v1'.st = "playing" /\ DOMAIN v1' = DOMAIN v1
        /\ v2' = Append(v2, [media |-> v1.load, state |-> "PLAYING"]) /\ UNCHANGED <<v7, v10>>
    BY <1>2 DEF Cast!RxLoads, Cast!RecordsTyped
  <2>2. [media |-> v1.load, state |-> "PLAYING"] \in CastStatus /\ v1.load <= v3.cur
    BY PlayersNats DEF Cast!NumbersTyped, CastStatus
  <2>3. /\ Cast!StatusTyped'
        /\ \A i \in DOMAIN v2' : v2'[i].state \in Cast!Terminal => i \in DOMAIN v2 /\ v2'[i] = v2[i]
    BY <1>1, <2>1, <2>2, StatusAdds DEF Cast!Terminal
  <2>4. Cast!CastShape'
    BY <1>1, <2>1, <2>2, <2>3, PostStays DEF Cast!CastShape, Cast!RecordsTyped, Cast!NumbersTyped
  <2>5. Cast!TrackLives'
    BY <1>1, <2>1 DEF Cast!TrackLives
  <2> QED
    BY <1>1, <2>1, <2>3, <2>4, <2>5, CastKept DEF Cast!ReportsGone
<1>3. CASE Cast!RxEnds \/ Cast!RxHangs
  <2>1. /\ v1'.media = v1.media /\ v1'.load = v1.load /\ v1'.st = "idle" /\ DOMAIN v1' = DOMAIN v1
        /\ v10'.gone = v10.gone \cup {v1.media} /\ v10'.crossed = v10.crossed /\ v10'.revived = v10.revived
        /\ DOMAIN v10' = DOMAIN v10 /\ v7' = v7
        /\ v2' = v2 \/ \E s \in Cast!Terminal : v2' = Append(v2, [media |-> v1.media, state |-> s])
    BY <1>3 DEF Cast!RxEnds, Cast!RxHangs, Cast!Says, Cast!RecordsTyped
  <2>2. ASSUME NEW s \in Cast!Terminal PROVE [media |-> v1.media, state |-> s] \in CastStatus /\ v1.media <= v3.cur
    BY PlayersNats DEF Cast!NumbersTyped, CastStatus
  <2>3. /\ Cast!StatusTyped'
        /\ \A i \in DOMAIN v2' : (i \in DOMAIN v2 /\ v2'[i] = v2[i]) \/ v2'[i].media = v1.media
    <3>1. CASE v2' = v2
      BY <1>1, <3>1, StatusStays
    <3>2. ASSUME NEW s \in Cast!Terminal, v2' = Append(v2, [media |-> v1.media, state |-> s])
          PROVE  <2>3
      BY <1>1, <2>2, <3>2, StatusAdds
    <3> QED
      BY <2>1, <3>1, <3>2
  <2>4. Cast!CastShape'
    BY <1>1, <2>1, <2>3, PostStays DEF Cast!CastShape, Cast!RecordsTyped, Cast!NumbersTyped
  <2>5. Cast!TrackLives'
    BY <1>1, <2>1 DEF Cast!TrackLives
  <2> QED
    BY <1>1, <2>1, <2>3, <2>4, <2>5, CastKept DEF Cast!ReportsGone
<1>4. CASE Cast!RxLost
  <2>1. /\ v1'.media = v1.media /\ v1'.load = 0 /\ DOMAIN v1' = DOMAIN v1
        /\ v10'.gone = v10.gone \cup {v3.cur} /\ v10'.crossed = v10.crossed /\ v10'.revived = v10.revived
        /\ DOMAIN v10' = DOMAIN v10 /\ v2' = v2 /\ v7' = Append(v7, [do |-> "lost", play |-> v3.cur])
    BY <1>4 DEF Cast!RxLost, Cast!Post, Cast!RecordsTyped
  <2>2. [do |-> "lost", play |-> v3.cur] \in CastPost
    BY DEF CastPost
  <2>3. /\ Cast!PostedTyped'
        /\ \A i \in DOMAIN v7' : v7'[i].do = "eos" => i \in DOMAIN v7 /\ v7'[i] = v7[i]
    BY <1>1, <2>1, <2>2, PostAdds
  <2>4. Cast!CastShape'
    BY <1>1, <2>1, <2>3, StatusStays DEF Cast!CastShape, Cast!RecordsTyped, Cast!NumbersTyped
  <2>5. Cast!TrackLives'
    BY <1>1, <2>1 DEF Cast!TrackLives
  <2> QED
    BY <1>1, <2>1, <2>3, <2>4, <2>5, CastKept DEF Cast!ReportsGone
<1>5. CASE Cast!RxBack
  <2>1. /\ v1'.media = v1.media /\ v1'.load = v1.load /\ v1'.st = v1.st /\ DOMAIN v1' = DOMAIN v1
        /\ UNCHANGED <<v2, v7, v10>>
    BY <1>5 DEF Cast!RxBack, Cast!RecordsTyped
  <2>2. Cast!CastShape'
    BY <1>1, <2>1, StatusStays, PostStays DEF Cast!CastShape, Cast!RecordsTyped, Cast!NumbersTyped
  <2>3. Cast!TrackLives'
    BY <1>1, <2>1 DEF Cast!TrackLives
  <2> QED
    BY <1>1, <2>1, <2>2, <2>3, CastKept DEF Cast!ReportsGone
<1> QED
  BY <1>2, <1>3, <1>4, <1>5 DEF Cast!Receiver

\* The status thread: a terminal status posts the end of its media and takes
\* the flag down.
LEMMA ListensKeeps ==
  ASSUME Cast!CastInv, Cast!Listens
  PROVE  Cast!CastInv'
<1> USE CastParts
<1>1. /\ v2 # <<>> /\ v2' = Tail(v2) /\ UNCHANGED <<v1, v4, v6, v8, v10>>
      /\ v3'.cur = v3.cur /\ v3'.mode = v3.mode /\ DOMAIN v3' = DOMAIN v3 /\ v9'.ended = v9.ended
      /\ v3'.armed = v3.armed /\ DOMAIN v9' = DOMAIN v9 /\ (v3'.on => v3.on)
  BY DEF Cast!Listens, Cast!Confirms, Cast!RecordsTyped
<1>2. /\ Cast!StatusTyped' /\ Head(v2) = v2[1] /\ 1 \in DOMAIN v2 /\ v2[1] \in CastStatus
      /\ v2[1].media <= v3.cur
      /\ \A i \in DOMAIN v2' : i \in Nat /\ i + 1 \in DOMAIN v2 /\ v2'[i] = v2[i + 1]
  BY <1>1, StatusTakes
<1>3. Cast!RecordsTyped' /\ Cast!NumbersTyped'
  BY <1>1 DEF Cast!RecordsTyped, Cast!NumbersTyped
<1>4. Cast!TrackLives'
  BY <1>1 DEF Cast!TrackLives
<1>5. \A i \in DOMAIN v2' : v2'[i].state \in Cast!Terminal => v2'[i].media \in v10'.gone
  BY <1>1, <1>2 DEF Cast!ReportsGone
<1>6. CASE v7' = v7
  <2>1. Cast!CastShape'
    BY <1>1, <1>2, <1>3, <1>6, PostStays DEF Cast!CastShape
  <2> QED
    BY <1>1, <1>4, <1>5, <1>6, <2>1, CastKept
<1>7. CASE v7' # v7
  <2>1. /\ v3.on /\ ~v3'.on /\ v2[1].state \in Cast!Terminal
        /\ v7' = Append(v7, [do |-> IF v3.mode = "radio" THEN "reconnect" ELSE "eos", play |-> v2[1].media])
    BY <1>2, <1>7 DEF Cast!Listens, Cast!EndsHere, Cast!Post, Cast!RecordsTyped
  <2> DEFINE e == [do |-> IF v3.mode = "radio" THEN "reconnect" ELSE "eos", play |-> v2[1].media]
  <2>2. e \in CastPost /\ e.play = v2[1].media /\ e.do \in {"eos", "reconnect"}
        /\ (v3.mode = "radio" => e.do = "reconnect")
    BY <1>2 DEF CastPost, CastStatus
  <2> HIDE DEF e
  <2>3. /\ Cast!PostedTyped'
        /\ \A i \in DOMAIN v7' : (i \in DOMAIN v7 /\ v7'[i] = v7[i]) \/ (i \notin DOMAIN v7 /\ v7'[i] = e)
        /\ \A i, j \in DOMAIN v7' : i \notin DOMAIN v7 /\ j \notin DOMAIN v7 => i = j
    BY <1>1, <1>2, <2>1, <2>2, PostAdds DEF e
  <2>4. Cast!CastShape'
    BY <1>2, <1>3, <2>3 DEF Cast!CastShape
  <2>5. CASE v3.mode = "radio"
    <3>1. \A i \in DOMAIN v7' : v7'[i].do = "eos" => i \in DOMAIN v7 /\ v7'[i] = v7[i]
      BY <2>2, <2>3, <2>5
    <3> QED
      BY <1>1, <1>4, <1>5, <2>4, <3>1, CastKept
  <2>6. CASE v3.mode # "radio"
    <3>1. v2[1].media \in v10.gone
      BY <1>2, <2>1 DEF Cast!ReportsGone
    <3>2. Cast!ReportsGone'
      BY <1>1, <1>5, <2>2, <2>3, <3>1 DEF Cast!ReportsGone
    <3>3. Cast!ReportsOnce'
      <4> SUFFICES ASSUME v3.cur \in Cast!Plays \ (v10.revived \cup v10.crossed)
                   PROVE  Cast!ReportsOnce'
        BY <1>1 DEF Cast!ReportsOnce
      <4>1. v9.ended[v3.cur] = 0 /\ \A i \in DOMAIN v7 : ~Cast!EosDue(i)
        BY <2>1 DEF Cast!ReportsOnce
      <4>2. \A i \in DOMAIN v7' : Cast!EosDue(i)' => i \notin DOMAIN v7
        BY <1>1, <2>3, <4>1 DEF Cast!EosDue
      <4> QED
        BY <1>1, <2>1, <2>3, <2>6, <4>1, <4>2 DEF Cast!ReportsOnce
    <3>4. Cast!CastHealthyKept' /\ Cast!CastEndsOnce'
      BY <1>1 DEF Cast!CastHealthyKept, Cast!CastEndsOnce
    <3> QED
      BY <1>4, <2>4, <3>2, <3>3, <3>4 DEF Cast!CastInv
  <2> QED
    BY <2>5, <2>6
<1> QED
  BY <1>6, <1>7

\* The event loop takes what was posted: an end, a lost link, a reconnect.
LEMMA LoopTakes ==
  ASSUME Cast!CastInv, Cast!HandlesEos \/ Cast!SchedulesReconnect \/ Cast!HandlesLost
  PROVE  Cast!CastInv'
<1> USE CastParts
<1>0. ASSUME NEW after, DOMAIN after = DOMAIN v3, after.cur = v3.cur, after.mode = v3.mode, after.on => v3.on,
             after.armed = v3.armed, Cast!Tries(after)
      PROVE  /\ v3'.cur = v3.cur /\ v3'.mode = v3.mode /\ DOMAIN v3' = DOMAIN v3 /\ (v3'.on => after.on)
             /\ v3'.armed = v3.armed /\ v8'.loading = v8.loading /\ DOMAIN v8' = DOMAIN v8
  <2>1. \E n : \/ v3' = [after EXCEPT !.attempts = n] /\ v8' = [v8 EXCEPT !.waiting = @ + 1]
               \/ v3' = [after EXCEPT !.on = FALSE, !.attempts = n] /\ v8' = v8
    BY <1>0 DEF Cast!Tries
  <2> QED
    BY <1>0, <2>1 DEF Cast!RecordsTyped
<1>1. v7 # <<>> /\ v7' = Tail(v7) /\ UNCHANGED <<v1, v2, v4>>
  BY DEF Cast!HandlesEos, Cast!SchedulesReconnect, Cast!HandlesLost, Cast!Runs
<1>2. v3'.cur = v3.cur /\ v3'.mode = v3.mode /\ DOMAIN v3' = DOMAIN v3 /\ (v3'.on => v3.on)
      /\ v3'.armed = v3.armed /\ v8'.loading = v8.loading /\ DOMAIN v8' = DOMAIN v8
  <2>1. CASE Cast!HandlesEos
    BY <2>1 DEF Cast!HandlesEos
  <2>2. CASE Cast!SchedulesReconnect
    BY <1>0, <2>2 DEF Cast!SchedulesReconnect, Cast!Quits
  <2>3. CASE Cast!HandlesLost
    <3> DEFINE a == [v3 EXCEPT !.on = FALSE]
    <3>1. DOMAIN a = DOMAIN v3 /\ a.cur = v3.cur /\ a.mode = v3.mode /\ a.armed = v3.armed /\ ~a.on
      BY DEF Cast!RecordsTyped
    <3>2. \/ Cast!Tries(a) \/ (v3' = a /\ v8' = v8) \/ (v3' = v3 /\ v8' = v8)
      BY <2>3 DEF Cast!HandlesLost
    <3> HIDE DEF a
    <3> QED
      BY <1>0, <3>1, <3>2
  <2> QED
    BY <2>1, <2>2, <2>3
<1>3. /\ Cast!PostedTyped' /\ Head(v7) = v7[1] /\ 1 \in DOMAIN v7
      /\ \A i \in DOMAIN v7' : i \in Nat /\ i + 1 \in DOMAIN v7 /\ v7'[i] = v7[i + 1] /\ i + 1 # 1
  BY <1>1, <1>2, PostTakes
<1>4. \A i \in DOMAIN v7' : v7'[i].do = "eos" => v7'[i].play \in v10.gone
  BY <1>3 DEF Cast!ReportsGone
<1>5. CASE Cast!HandlesEos
  <2>1. /\ v7[1].do = "eos" /\ v6' = Cast!NoDog /\ v9' = Cast!Ended(v9) /\ UNCHANGED <<v3, v8>>
        /\ v10' = IF v7[1].play = v3.cur THEN v10 ELSE [v10 EXCEPT !.crossed = @ \cup {v3.cur}]
    BY <1>3, <1>5 DEF Cast!HandlesEos, Cast!Runs
  <2>2. /\ DOMAIN v10' = DOMAIN v10 /\ v10'.gone = v10.gone /\ v10'.revived = v10.revived
        /\ v10.crossed \subseteq v10'.crossed
        /\ v3.cur \notin v10'.crossed => Cast!EosDue(1)
        /\ v7[1].play = v3.cur \/ v3.cur \in v10'.crossed
    BY <2>1 DEF Cast!RecordsTyped, Cast!EosDue
  <2>3. v3.cur \in v10'.gone \cup v10'.crossed
    BY <1>3, <2>1, <2>2 DEF Cast!ReportsGone
  <2>4. ASSUME v3.cur \in Cast!Plays \ (v10'.revived \cup v10'.crossed)
        PROVE  /\ v9.ended[v3.cur] = 0 /\ ~v3'.on /\ v3.mode # "radio"
               /\ \A i \in DOMAIN v7' : ~Cast!EosDue(i)'
    <3>1. v3.cur \in Cast!Plays \ (v10.revived \cup v10.crossed) /\ Cast!EosDue(1)
      BY <2>2, <2>4
    <3>2. v9.ended[v3.cur] = 0 /\ ~v3.on /\ v3.mode # "radio" /\ \A j \in DOMAIN v7 : Cast!EosDue(j) => j = 1
      BY <1>3, <3>1 DEF Cast!ReportsOnce
    <3>3. \A i \in DOMAIN v7' : Cast!EosDue(i)' => Cast!EosDue(i + 1)
      BY <1>3, <2>1 DEF Cast!EosDue
    <3> QED
      BY <1>3, <2>1, <3>2, <3>3
  <2> QED
    BY <1>1, <1>3, <1>4, <2>1, <2>2, <2>3, <2>4, CastEndTold
<1>6. CASE v9' = v9
  <2>1. /\ v6' = v6 \/ v6' = Cast!NoDog
        /\ DOMAIN v10' = DOMAIN v10 /\ v10.gone \subseteq v10'.gone /\ v10.crossed \subseteq v10'.crossed
        /\ v10'.revived = v10.revived
    <3>1. CASE Cast!HandlesEos
      <4>1. v10' = v10 \/ v10' = [v10 EXCEPT !.crossed = @ \cup {v3.cur}]
        BY <3>1 DEF Cast!HandlesEos
      <4> QED
        BY <3>1, <4>1 DEF Cast!HandlesEos, Cast!RecordsTyped
    <3>2. CASE Cast!SchedulesReconnect
      BY <3>2 DEF Cast!SchedulesReconnect
    <3>3. CASE Cast!HandlesLost
      BY <3>3 DEF Cast!HandlesLost, Cast!RecordsTyped
    <3> QED
      BY <3>1, <3>2, <3>3
  <2>2. /\ v6' = v6 \/ (v6'.play = 0 /\ v6'.pc = "none")
        /\ DOMAIN v6' = DOMAIN v6 /\ DogTyped'
    <3>1. DogTyped
      BY DogIsTyped
    <3>2. CASE v6' = v6
      BY <1>2, <3>1, <3>2 DEF DogTyped
    <3>3. CASE v6' = Cast!NoDog
      BY <3>3, DogStopped
    <3> QED
      BY <2>1, <3>2, <3>3
  <2>3. Cast!CastShape'
    <3>1. Cast!RecordsTyped'
      BY <1>1, <1>2, <1>6, <2>1, <2>2 DEF Cast!RecordsTyped
    <3>2. {v1.media, v1.load} \subseteq 0 .. v3.cur
      BY DEF Cast!NumbersTyped
    <3>3. Cast!NumbersTyped'
      BY <1>1, <1>2, <1>6, <2>2, <3>2, NumbersKept
    <3> QED
      BY <1>1, <1>2, <1>3, <3>1, <3>3, StatusStays DEF Cast!CastShape
  <2>4. Cast!TrackLives'
    BY <1>1, <1>2, <2>1, <2>2, PlayersNats DEF Cast!TrackLives, Cast!Plays
  <2>5. \A i \in DOMAIN v7' : i \in Nat /\ i + 1 \in DOMAIN v7 /\ v7'[i] = v7[i + 1]
    BY <1>3
  <2> QED
    BY <1>1, <1>2, <1>6, <2>1, <2>3, <2>4, <2>5, CastKept DEF Cast!ReportsGone
<1>7. CASE Cast!HandlesLost /\ v9' # v9
  <2>1. /\ v3.mode # "radio" /\ v3.on /\ v3' = [v3 EXCEPT !.on = FALSE]
        /\ v6' = Cast!NoDog /\ v9' = Cast!Ended(v9) /\ v8' = v8
        /\ v10' = [v10 EXCEPT !.gone = @ \cup {v3.cur}]
    BY <1>7 DEF Cast!HandlesLost
  <2>2. ~v3'.on /\ v10'.gone = v10.gone \cup {v3.cur} /\ v10'.crossed = v10.crossed /\ v10'.revived = v10.revived
        /\ DOMAIN v10' = DOMAIN v10
    BY <2>1 DEF Cast!RecordsTyped
  <2>3. ASSUME v3.cur \in Cast!Plays \ (v10'.revived \cup v10'.crossed)
        PROVE  v9.ended[v3.cur] = 0 /\ \A i \in DOMAIN v7' : ~Cast!EosDue(i)'
    <3>1. v9.ended[v3.cur] = 0 /\ \A i \in DOMAIN v7 : ~Cast!EosDue(i)
      BY <2>1, <2>2, <2>3 DEF Cast!ReportsOnce
    <3>2. \A i \in DOMAIN v7' : Cast!EosDue(i)' => Cast!EosDue(i + 1)
      BY <1>2, <1>3 DEF Cast!EosDue
    <3> QED
      BY <1>3, <3>1, <3>2
  <2> QED
    BY <1>1, <1>3, <1>4, <2>1, <2>2, <2>3, CastEndTold
<1>8. CASE Cast!SchedulesReconnect
  BY <1>6, <1>8 DEF Cast!SchedulesReconnect
<1> QED
  BY <1>5, <1>6, <1>7, <1>8

\* A radio reconnect: it meets the station it was for, or crosses another play.
LEMMA ReconnectsKeep ==
  ASSUME Cast!CastInv, Cast!ReconnectWakes \/ \E n \in Cast!Plays : Cast!ReconnectLoads(n)
  PROVE  Cast!CastInv'
<1> USE CastParts
<1>1. CASE Cast!ReconnectWakes
  <2>1. /\ UNCHANGED <<v1, v2, v3, v4, v6, v7, v9, v10>> /\ DOMAIN v8' = DOMAIN v8
        /\ v8'.loading = v8.loading \/ (v3.mode = "radio" /\ v8'.loading = [v8.loading EXCEPT ![v3.cur] = @ + 1])
    BY <1>1 DEF Cast!ReconnectWakes, Cast!RecordsTyped
  <2>2. v8'.loading \in [Cast!Plays -> Nat] /\ \A n \in Cast!Plays : n > v3.cur => v8'.loading[n] = 0
    <3>1. v8.loading \in [Cast!Plays -> Nat] /\ \A n \in Cast!Plays : n > v3.cur => v8.loading[n] = 0
      BY DEF Cast!NumbersTyped
    <3>2. CASE v3.cur \in Cast!Plays
      <4>1. v8.loading[v3.cur] + 1 \in Nat
        BY <3>1, <3>2
      <4>2. ~(v3.cur > v3.cur)
        OBVIOUS
      <4> QED
        BY <2>1, <3>1, <3>2, <4>1, <4>2
    <3>3. CASE v3.cur \notin Cast!Plays
      BY <2>1, <3>1, <3>3
    <3> QED
      BY <3>2, <3>3
  <2>3. Cast!CastShape'
    BY <2>1, <2>2, StatusStays, PostStays DEF Cast!CastShape, Cast!RecordsTyped, Cast!NumbersTyped
  <2>4. Cast!TrackLives'
    BY <2>1 DEF Cast!TrackLives
  <2> QED
    BY <2>1, <2>3, <2>4, CastKept DEF Cast!ReportsGone
<1>2. ASSUME NEW n \in Cast!Plays, Cast!ReconnectLoads(n) PROVE Cast!CastInv'
  <2> DEFINE mine == n = v3.cur /\ v3.mode = "radio"
  <2>1. /\ UNCHANGED <<v2, v4, v6, v7, v9>> /\ v8.loading[n] > 0
        /\ v10' = IF mine THEN v10 ELSE [v10 EXCEPT !.crossed = @ \cup {v3.cur}]
        /\ v1' = v1 \/ v1' = [v1 EXCEPT !.load = n]
    BY <1>2 DEF Cast!ReconnectLoads
  <2>2. /\ v3'.cur = v3.cur /\ v3'.mode = v3.mode /\ DOMAIN v3' = DOMAIN v3 /\ v3'.armed = v3.armed
        /\ v8'.loading = [v8.loading EXCEPT ![n] = @ - 1] /\ DOMAIN v8' = DOMAIN v8
    <3> DEFINE rest == [v8 EXCEPT !.loading[n] = @ - 1]
    <3>1. rest.loading = [v8.loading EXCEPT ![n] = @ - 1] /\ DOMAIN rest = DOMAIN v8
      BY DEF Cast!RecordsTyped
    <3>2. /\ v8' = rest \/ v8' = [rest EXCEPT !.waiting = @ + 1]
          /\ \E b \in BOOLEAN : \E a : v3' = [v3 EXCEPT !.on = b] \/ v3' = [v3 EXCEPT !.on = b, !.attempts = a]
      BY <1>2 DEF Cast!ReconnectLoads
    <3> HIDE DEF rest
    <3> QED
      BY <3>1, <3>2 DEF Cast!RecordsTyped
  <2>3. /\ DOMAIN v1' = DOMAIN v1 /\ v1'.media = v1.media /\ v1'.load \in {v1.load, n}
        /\ DOMAIN v10' = DOMAIN v10 /\ v10'.gone = v10.gone /\ v10'.revived = v10.revived
        /\ v10.crossed \subseteq v10'.crossed /\ (mine \/ v3.cur \in v10'.crossed)
    BY <2>1 DEF Cast!RecordsTyped
  <2>4. v8'.loading \in [Cast!Plays -> Nat] /\ (\A m \in Cast!Plays : m > v3.cur => v8'.loading[m] = 0)
        /\ n <= v3.cur
    <3>1. v8.loading \in [Cast!Plays -> Nat] /\ \A m \in Cast!Plays : m > v3.cur => v8.loading[m] = 0
      BY DEF Cast!NumbersTyped
    <3>2. v8.loading[n] - 1 \in Nat /\ n <= v3.cur
      <4>1. v8.loading[n] \in Nat /\ v8.loading[n] # 0
        BY <2>1, <3>1
      <4>2. ~(n > v3.cur)
        BY <3>1, <4>1
      <4>3. n \in Nat
        BY PlayersNats DEF Cast!Plays
      <4> QED
        BY <4>1, <4>2, <4>3
    <3>3. /\ v8'.loading[n] = v8.loading[n] - 1
          /\ \A m \in Cast!Plays \ {n} : v8'.loading[m] = v8.loading[m]
      BY <2>2, <3>1
    <3>4. \A m \in Cast!Plays : m > v3.cur => m # n
      BY <3>2 DEF Cast!Plays
    <3> QED
      BY <2>2, <3>1, <3>2, <3>3, <3>4
  <2>5. Cast!CastShape'
    <3>1. Cast!NumbersTyped'
      BY <2>1, <2>2, <2>3, <2>4 DEF Cast!NumbersTyped, Cast!Plays
    <3> QED
      BY <2>1, <2>2, <2>3, <3>1, StatusStays, PostStays DEF Cast!CastShape, Cast!RecordsTyped
  <2>6. Cast!TrackLives'
    BY <2>1, <2>2, <2>3 DEF Cast!TrackLives, Cast!NumbersTyped
  <2> QED
    BY <2>1, <2>2, <2>3, <2>5, <2>6, CastKept DEF Cast!ReportsGone
<1> QED
  BY <1>1, <1>2

\* The watchdog ends what fell silent, if it is still its play's turn.
LEMMA DogKeeps ==
  ASSUME Cast!CastInv, Cast!DogWakes \/ Cast!DogProbed
  PROVE  Cast!CastInv'
<1> USE CastParts
<1>0. {v1.media, v1.load} \subseteq 0 .. v3.cur
  BY DEF Cast!NumbersTyped
<1>1. UNCHANGED <<v1, v2, v4, v7, v8>>
  BY DEF Cast!DogWakes, Cast!DogProbed
<1>2. CASE Cast!DogWakes \/ (Cast!DogProbed /\ ~Cast!Mine)
  <2>1. /\ UNCHANGED <<v3, v9, v10>>
        /\ \/ v6' = Cast!NoDog
           \/ /\ v6.pc = "sleep" /\ v6' = [v6 EXCEPT !.pc = "probe"] /\ Cast!Mine
              /\ Cast!Silent(v6.play) \/ v6.early
    BY <1>2 DEF Cast!DogWakes, Cast!DogProbed
  <2>2. CASE v6' = Cast!NoDog
    <3>1. DogTyped' /\ DOMAIN v6' = DOMAIN v6 /\ v6'.play = 0 /\ v6'.pc = "none"
      BY <2>2, DogStopped
    <3>2. Cast!CastShape'
      BY <1>0, <1>1, <2>1, <3>1, NumbersKept, StatusStays, PostStays DEF Cast!CastShape, Cast!RecordsTyped
    <3>3. Cast!TrackLives'
      BY <1>1, <2>1, <3>1 DEF Cast!TrackLives
    <3> QED
      BY <1>1, <2>1, <3>2, <3>3, CastKept DEF Cast!ReportsGone
  <2>3. CASE v6' # Cast!NoDog
    <3>1. /\ DOMAIN v6' = DOMAIN v6 /\ v6'.play = v6.play /\ v6'.pc = "probe" /\ v6'.early = v6.early
          /\ v6.pc = "sleep" /\ v6.play = v3.armed /\ v3.on /\ (Cast!Silent(v6.play) \/ v6.early)
      BY <2>1, <2>3 DEF Cast!RecordsTyped, Cast!Mine
    <3>2. Cast!CastShape'
      <4>1. DogTyped'
        BY <2>1, <3>1, DogIsTyped DEF DogTyped
      <4> QED
        BY <1>0, <1>1, <2>1, <3>1, <4>1, NumbersKept, StatusStays, PostStays DEF Cast!CastShape, Cast!RecordsTyped
    <3>3. Cast!TrackLives'
      <4> SUFFICES ASSUME v3.cur \in Cast!Plays \ (v10.gone \cup v10.crossed), v6.play = v3.cur
                   PROVE  v6.early
        BY <1>1, <2>1, <3>1 DEF Cast!TrackLives
      <4>1. v3.mode = "track" /\ v4 = "none"
        BY <3>1 DEF Cast!NumbersTyped, Cast!Plays
      <4>2. ~Cast!Silent(v6.play)
        BY <3>1, <4>1 DEF Cast!TrackLives, Cast!Silent
      <4> QED
        BY <3>1, <4>2
    <3> QED
      BY <1>1, <2>1, <3>2, <3>3, CastKept DEF Cast!ReportsGone
  <2> QED
    BY <2>2, <2>3
<1>3. CASE Cast!DogProbed /\ Cast!Mine
  <2> DEFINE meets == v6.early \/ Cast!MeetsNext
  <2>1. /\ v3' = [v3 EXCEPT !.on = FALSE] /\ v9' = Cast!Ended(v9) /\ v6' = Cast!NoDog
        /\ v6.pc = "probe" /\ v6.play = v3.armed /\ v3.on
        /\ v10' = IF meets THEN [v10 EXCEPT !.crossed = @ \cup {v3.cur}] ELSE v10
    BY <1>3 DEF Cast!DogProbed, Cast!Mine
  <2>2. v3'.cur = v3.cur /\ ~v3'.on
    BY <2>1 DEF Cast!RecordsTyped
  <2>3. /\ DOMAIN v10' = DOMAIN v10 /\ v10'.gone = v10.gone /\ v10'.revived = v10.revived
        /\ v10.crossed \subseteq v10'.crossed /\ (meets => v3.cur \in v10'.crossed)
    BY <2>1 DEF Cast!RecordsTyped
  <2>4. ASSUME v3.cur \in Cast!Plays \ v10'.crossed
        PROVE  v3.cur \in v10.gone /\ v3.mode # "radio"
    <3>1. ~v6.early /\ (v6.play = v3.cur \/ (v4 = "none" /\ v3.cur \notin v10.gone))
      BY <2>3, <2>4 DEF Cast!MeetsNext
    <3>2. v3.cur \notin v10.gone \cup v10.crossed =>
            v6.play # v3.cur /\ (v4 = "none" => v3.armed \in {0, v3.cur})
      BY <2>1, <2>4, <3>1 DEF Cast!TrackLives
    <3>3. v6.play # 0
      BY <2>1 DEF Cast!NumbersTyped
    <3>4. v6.play = v3.cur /\ v3.cur \in v10.gone
      BY <2>1, <2>3, <2>4, <3>1, <3>2, <3>3
    <3>5. v3.cur > 0 /\ v3.armed = v3.cur
      BY <2>1, <2>4, <3>4 DEF Cast!Plays
    <3> QED
      BY <3>4, <3>5 DEF Cast!NumbersTyped
  <2>5. v3.cur \in Cast!Plays \ (v10'.revived \cup v10'.crossed) =>
          v9.ended[v3.cur] = 0 /\ \A i \in DOMAIN v7' : ~Cast!EosDue(i)'
    BY <1>1, <2>1, <2>2, <2>3 DEF Cast!ReportsOnce, Cast!EosDue
  <2>6. Cast!PostedTyped'
    BY <1>1, <2>2, PostStays
  <2>7. \A i \in DOMAIN v7' : v7'[i].do = "eos" => v7'[i].play \in v10'.gone
    BY <1>1, <2>3 DEF Cast!ReportsGone
  <2> HIDE DEF meets
  <2> QED
    BY <1>1, <2>1, <2>2, <2>3, <2>4, <2>5, <2>6, <2>7, CastEndTold
<1> QED
  BY <1>2, <1>3

\* The host's calls: a dispatch, its load, and the transport.
LEMMA CastPlayStartsKeeps ==
  ASSUME Cast!CastInv, NEW mode \in {"track", "radio"}, Cast!PlayStarts(mode)
  PROVE  Cast!CastInv'
<1> USE CastParts
<1>1. /\ UNCHANGED <<v1, v2, v6, v7, v8, v9, v10>> /\ v4' = "load" /\ v3.cur < MaxPlays
      /\ v3'.cur = v3.cur + 1 /\ v3'.armed = v3.armed /\ DOMAIN v3' = DOMAIN v3
  BY DEF Cast!PlayStarts, Cast!RecordsTyped
<1>2. v3'.cur \in Cast!Plays /\ v3'.cur > v3.cur /\ v3'.cur \in 0 .. MaxPlays
      /\ \A n \in Cast!Plays : n > v3'.cur => n > v3.cur
  BY <1>1, PlayersNats DEF Cast!Plays
<1>3. /\ {v1.media, v1.load, v3.armed} \subseteq 0 .. v3'.cur /\ v3.armed # v3'.cur
      /\ v6.play \in {0, v3.armed} /\ v6.play # v3'.cur /\ v3'.cur > 0
  BY <1>1, PlayersNats DEF Cast!NumbersTyped
<1>4. Cast!CastShape'
  <2>1. Cast!RecordsTyped'
    BY <1>1 DEF Cast!RecordsTyped
  <2>2. Cast!NumbersTyped'
    BY <1>1, <1>2, <1>3 DEF Cast!NumbersTyped
  <2>3. Cast!StatusTyped' /\ Cast!PostedTyped'
    BY <1>1, StatusStays, PostStays
  <2> QED
    BY <2>1, <2>2, <2>3 DEF Cast!CastShape
<1>5. v9.ended[v3'.cur] = 0 /\ \A i \in DOMAIN v7' : ~Cast!EosDue(i)'
  <2>1. v7 \in Seq(CastPost)
    BY DEF Cast!PostedTyped, CastPost
  <2>2. ASSUME NEW i \in DOMAIN v7 PROVE v7[i].play # v3'.cur
    <3>1. v7[i] \in CastPost
      BY <2>1, PlaceOf
    <3>2. v7[i].play \in Nat /\ v7[i].play <= v3.cur
      BY <3>1, PlayersNats DEF CastPost, Cast!PostedTyped
    <3> QED
      BY <1>1, <3>2
  <2> QED
    BY <1>1, <1>2, <2>2 DEF Cast!EosDue, Cast!NumbersTyped
<1>6. Cast!ReportsOnce'
  BY <1>1, <1>5 DEF Cast!ReportsOnce
<1>7. Cast!ReportsGone' /\ Cast!TrackLives'
  BY <1>1, <1>3 DEF Cast!ReportsGone, Cast!TrackLives
<1>8. Cast!CastHealthyKept' /\ Cast!CastEndsOnce'
  BY <1>1 DEF Cast!CastHealthyKept, Cast!CastEndsOnce
<1> QED
  BY <1>4, <1>6, <1>7, <1>8 DEF Cast!CastInv

\* Whatever takes the flag up again for an ended play revives it.
LEMMA RevivesOnly ==
  ASSUME Cast!CastInv, v10' = Cast!Revived(v10)
  PROVE  /\ DOMAIN v10' = DOMAIN v10 /\ v10'.gone = v10.gone /\ v10'.crossed = v10.crossed
         /\ v10.revived \subseteq v10'.revived
         /\ \/ v3.cur \in v10'.revived \/ v3.cur \notin Cast!Plays
            \/ v9.ended[v3.cur] = 0 /\ \A i \in DOMAIN v7 : ~Cast!EosDue(i)
<1> USE CastParts
<1>1. CASE v9.ended[v3.cur] > 0 \/ Cast!Posted("eos")
  BY <1>1 DEF Cast!Revived, Cast!RecordsTyped
<1>2. CASE ~(v9.ended[v3.cur] > 0 \/ Cast!Posted("eos"))
  <2>1. v10' = v10 /\ \A i \in DOMAIN v7 : ~Cast!EosDue(i)
    BY <1>2 DEF Cast!Revived, Cast!Posted, Cast!EosDue
  <2>2. v3.cur \in Cast!Plays => v9.ended[v3.cur] = 0
    BY <1>2 DEF Cast!NumbersTyped
  <2> QED
    BY <2>1, <2>2
<1> QED
  BY <1>1, <1>2

LEMMA CastPlaysKeep ==
  ASSUME Cast!CastInv, Cast!PlayLoads \/ Cast!PlayReturns
  PROVE  Cast!CastInv'
<1> USE CastParts
<1>1. /\ UNCHANGED <<v2, v7, v8, v9>> /\ v3'.cur = v3.cur /\ v3'.mode = v3.mode /\ DOMAIN v3' = DOMAIN v3
      /\ Cast!PlayLoads => v3'.armed = v3.armed /\ v4 = "load"
  BY DEF Cast!PlayLoads, Cast!PlayReturns, Cast!RecordsTyped
<1>2. CASE Cast!PlayReturns
  <2>1. /\ UNCHANGED <<v1, v10>> /\ v4 = "return" /\ v4' = "none" /\ v3'.on = v3.on
        /\ v3'.armed = IF v3.mode = "track" THEN v3.cur ELSE 0
        /\ v6' = IF v3.mode = "track" THEN [Cast!NoDog EXCEPT !.pc = "sleep", !.play = v3.cur] ELSE Cast!NoDog
    BY <1>2 DEF Cast!PlayReturns, Cast!RecordsTyped
  <2>2. v3.cur > 0
    BY <2>1 DEF Cast!NumbersTyped
  <2>3. /\ DOMAIN v6' = DOMAIN v6 /\ v6'.pc # "probe" /\ v6'.play = v3'.armed /\ v6'.early = FALSE
        /\ v6'.play = 0 => v6'.pc = "none"
    BY <2>1, <2>2 DEF Cast!RecordsTyped, Cast!NoDog
  <2>4. v3'.armed \in 0 .. v3.cur /\ (v3'.armed = v3.cur => v3.mode = "track") /\ v3'.armed \in {0, v3.cur}
    BY <2>1, <2>2
  <2>5. Cast!CastShape'
    <3>1. Cast!RecordsTyped'
      BY <1>1, <2>1, <2>3 DEF Cast!RecordsTyped
    <3>2. Cast!NumbersTyped'
      BY <1>1, <2>1, <2>3, <2>4 DEF Cast!NumbersTyped
    <3> QED
      BY <1>1, <3>1, <3>2, StatusStays, PostStays DEF Cast!CastShape
  <2>6. Cast!TrackLives'
    BY <1>1, <2>1, <2>3, <2>4 DEF Cast!TrackLives
  <2> QED
    BY <1>1, <2>1, <2>5, <2>6, CastKept DEF Cast!ReportsGone
<1>3. CASE Cast!PlayLoads /\ v4' = "return"
  <2>1. /\ v4 = "load" /\ v6' = v6 /\ v10' = Cast!Revived(v10)
        /\ v1'.load = v3.cur /\ v1'.media = v1.media /\ DOMAIN v1' = DOMAIN v1
    BY <1>3 DEF Cast!PlayLoads, Cast!RecordsTyped
  <2>2. Cast!CastShape'
    <3>1. Cast!RecordsTyped'
      BY <1>1, <1>3, <2>1, RevivesOnly DEF Cast!RecordsTyped
    <3>2. {v1'.media, v1'.load} \subseteq 0 .. v3.cur /\ DogTyped'
      BY <1>1, <1>3, <2>1, DogIsTyped DEF Cast!NumbersTyped, DogTyped
    <3>3. Cast!NumbersTyped'
      BY <1>1, <1>3, <2>1, <3>2, NumbersKept
    <3> QED
      BY <1>1, <3>1, <3>3, StatusStays, PostStays DEF Cast!CastShape
  <2>3. Cast!TrackLives'
    BY <1>1, <1>3, <2>1, RevivesOnly DEF Cast!TrackLives
  <2>4. CASE v3.cur \in Cast!Plays
    BY <1>1, <2>1, <2>2, <2>3, <2>4, RevivesOnly, CastKept DEF Cast!ReportsGone
  <2>5. CASE v3.cur \notin Cast!Plays
    BY <1>1, <2>1, <2>2, <2>3, <2>5, RevivesOnly DEF Cast!CastInv, Cast!ReportsOnce, Cast!ReportsGone,
       Cast!CastHealthyKept, Cast!CastEndsOnce
  <2> QED
    BY <2>4, <2>5
<1>4. CASE Cast!PlayLoads /\ v4' # "return"
  <2>1. /\ v4' = "none" /\ UNCHANGED <<v1, v6>> /\ ~v3'.on
        /\ v10'.gone = v10.gone \cup {v3.cur} /\ v10'.crossed = v10.crossed /\ v10'.revived = v10.revived
        /\ DOMAIN v10' = DOMAIN v10
    BY <1>4 DEF Cast!PlayLoads, Cast!RecordsTyped
  <2>2. Cast!CastShape'
    <3>1. {v1'.media, v1'.load} \subseteq 0 .. v3.cur /\ DogTyped'
      BY <1>1, <1>4, <2>1, DogIsTyped DEF Cast!NumbersTyped, DogTyped
    <3>2. Cast!NumbersTyped'
      BY <1>1, <1>4, <2>1, <3>1, NumbersKept
    <3> QED
      BY <1>1, <2>1, <3>2, StatusStays, PostStays DEF Cast!CastShape, Cast!RecordsTyped
  <2>3. Cast!TrackLives'
    BY <1>1, <2>1 DEF Cast!TrackLives
  <2> QED
    BY <1>1, <2>1, <2>2, <2>3, CastKept DEF Cast!ReportsGone
<1> QED
  BY <1>2, <1>3, <1>4

LEMMA TransportKeeps ==
  ASSUME Cast!CastInv,
         \/ Cast!PauseDone \/ Cast!ResumeDone \/ Cast!StopDone \/ Cast!SeekDone
         \/ \E p \in {"pause", "resume", "stop", "seek"} : Cast!Presses(p)
  PROVE  Cast!CastInv'
<1> USE CastParts
<1>1. /\ UNCHANGED <<v2, v4, v7, v8, v9>> /\ v3'.cur = v3.cur /\ DOMAIN v3' = DOMAIN v3
      /\ v1'.media = v1.media /\ v1'.load = v1.load /\ DOMAIN v1' = DOMAIN v1 /\ v3'.armed = v3.armed
      /\ \/ v6' = v6 \/ v6' = Cast!NoDog
         \/ v3.armed # 0 /\ \E e \in BOOLEAN : v6' = [pc |-> "sleep", play |-> v3.armed, early |-> e]
  BY DEF Cast!PauseDone, Cast!ResumeDone, Cast!StopDone, Cast!SeekDone, Cast!Presses, Cast!RecordsTyped
<1>2. DOMAIN v6' = DOMAIN v6 /\ (v6' = v6 \/ v6'.pc \in {"none", "sleep"}) /\ DogTyped'
  <2>1. DogTyped
    BY DogIsTyped
  <2>2. CASE v6' = v6
    BY <1>1, <2>1, <2>2 DEF DogTyped
  <2>3. CASE v6' = Cast!NoDog
    BY <2>3, DogStopped
  <2>4. ASSUME v3.armed # 0, NEW e \in BOOLEAN, v6' = [pc |-> "sleep", play |-> v3.armed, early |-> e]
        PROVE  <1>2
    BY <1>1, <2>4 DEF Cast!RecordsTyped, DogTyped
  <2> QED
    BY <1>1, <2>2, <2>3, <2>4
<1>3. v3'.mode = v3.mode \/ (v3.mode = "radio" /\ v3'.mode = "off")
  BY DEF Cast!PauseDone, Cast!ResumeDone, Cast!StopDone, Cast!SeekDone, Cast!Presses, Cast!RecordsTyped
<1>4. ASSUME DOMAIN v10' = DOMAIN v10 PROVE Cast!CastShape'
  <2>1. Cast!RecordsTyped'
    BY <1>1, <1>2, <1>4 DEF Cast!RecordsTyped
  <2>2. {v1'.media, v1'.load} \subseteq 0 .. v3.cur
    BY <1>1 DEF Cast!NumbersTyped
  <2>3. Cast!NumbersTyped'
    BY <1>1, <1>2, <1>3, <2>2, NumbersKept
  <2> QED
    BY <1>1, <2>1, <2>3, StatusStays, PostStays DEF Cast!CastShape
<1>5. CASE Cast!PauseDone
  <2>1. v10' = v10 /\ v6' = v6 /\ ~v3'.on /\ v3'.mode = v3.mode /\ v1'.st = IF v1.st = "playing" THEN "paused" ELSE v1.st
    BY <1>5 DEF Cast!PauseDone, Cast!RecordsTyped
  <2>2. Cast!TrackLives'
    BY <1>1, <2>1 DEF Cast!TrackLives
  <2> QED
    BY <1>1, <1>4, <2>1, <2>2, CastKept DEF Cast!ReportsGone
<1>6. CASE Cast!ResumeDone
  <2>1. /\ v10' = Cast!Revived(v10) /\ v6' = v6 /\ v3'.mode = v3.mode
        /\ v1'.st = IF v1.st = "paused" THEN "playing" ELSE v1.st
    BY <1>6 DEF Cast!ResumeDone, Cast!RecordsTyped
  <2>2. Cast!TrackLives'
    <3>1. v1.st \in {"playing", "paused"} => v1'.st = "playing"
      BY <2>1
    <3> QED
      BY <1>1, <2>1, <3>1, RevivesOnly DEF Cast!TrackLives, Cast!NumbersTyped
  <2>3. Cast!CastShape'
    BY <1>4, <2>1, RevivesOnly
  <2>4. CASE v3.cur \in Cast!Plays
    BY <1>1, <2>1, <2>2, <2>3, <2>4, RevivesOnly, CastKept DEF Cast!ReportsGone
  <2>5. CASE v3.cur \notin Cast!Plays
    BY <1>1, <2>1, <2>2, <2>3, <2>5, RevivesOnly DEF Cast!CastInv, Cast!ReportsOnce, Cast!ReportsGone,
       Cast!CastHealthyKept, Cast!CastEndsOnce
  <2> QED
    BY <2>4, <2>5
<1>7. CASE Cast!StopDone
  <2>1. /\ v6' = v6 /\ ~v3'.on /\ v3'.mode = v3.mode /\ v10'.gone = v10.gone \cup {v1.media}
        /\ v10'.crossed = v10.crossed /\ v10'.revived = v10.revived /\ DOMAIN v10' = DOMAIN v10
    BY <1>7 DEF Cast!StopDone, Cast!RecordsTyped
  <2>2. Cast!TrackLives'
    BY <1>1, <2>1 DEF Cast!TrackLives
  <2> QED
    BY <1>1, <1>4, <2>1, <2>2, CastKept DEF Cast!ReportsGone
<1>8. CASE Cast!SeekDone \/ \E p \in {"pause", "resume", "stop", "seek"} : Cast!Presses(p)
  <2>1. v10' = v10 /\ v1' = v1 /\ v3'.on = v3.on /\ (v3'.mode = "track" => v3.mode = "track")
        /\ (v3'.mode = "radio" => v3.mode = "radio")
    BY <1>3, <1>8 DEF Cast!Presses, Cast!SeekDone, Cast!RecordsTyped
  <2>2. Cast!TrackLives'
    BY <1>1, <1>2, <2>1, PlayersNats DEF Cast!TrackLives, Cast!Plays
  <2> QED
    BY <1>1, <1>4, <2>1, <2>2, CastKept DEF Cast!ReportsGone
<1> QED
  BY <1>5, <1>6, <1>7, <1>8

LEMMA CastSteps ==
  ASSUME Cast!CastInv, Cast!CastNext
  PROVE  Cast!CastInv'
BY ReceiverKeeps, ListensKeeps, LoopTakes, ReconnectsKeep, DogKeeps, CastPlayStartsKeeps, CastPlaysKeep,
   TransportKeeps DEF Cast!CastNext, Cast!Loop, Cast!Host

LEMMA CastBegins ==
  ASSUME Cast!CastInit
  PROVE  Cast!CastInv
<1>1. /\ v1 = [media |-> 0, load |-> 0, st |-> "idle", up |-> TRUE] /\ v2 = <<>> /\ v7 = <<>>
      /\ v3 = [mode |-> "off", cur |-> 0, on |-> FALSE, token |-> 0, attempts |-> 0, armed |-> 0]
      /\ v4 = "none" /\ v6 = [pc |-> "none", play |-> 0, early |-> FALSE]
      /\ v8 = [waiting |-> 0, loading |-> [n \in Cast!Plays |-> 0]]
      /\ v9 = [ended |-> [n \in Cast!Plays |-> 0], heard |-> [n \in Cast!Plays |-> 0]]
      /\ v10 = [gone |-> {}, crossed |-> {}, revived |-> {}]
  BY DEF Cast!CastInit, Cast!NoDog
<1>2. Cast!RecordsTyped
  BY <1>1 DEF Cast!RecordsTyped
<1>3. Cast!NumbersTyped
  BY <1>1, PlayersNats DEF Cast!NumbersTyped
<1>4. Cast!StatusTyped /\ Cast!PostedTyped
  BY <1>1 DEF Cast!StatusTyped, Cast!PostedTyped
<1>5. Cast!ReportsOnce /\ Cast!TrackLives
  BY <1>1, PlayersNats DEF Cast!ReportsOnce, Cast!TrackLives, Cast!Plays
<1>6. Cast!ReportsGone
  BY <1>1 DEF Cast!ReportsGone
<1>7. Cast!CastHealthyKept /\ Cast!CastEndsOnce
  BY <1>1 DEF Cast!CastHealthyKept, Cast!CastEndsOnce
<1> QED
  BY <1>2, <1>3, <1>4, <1>5, <1>6, <1>7 DEF Cast!CastInv, Cast!CastShape

-----------------------------------------------------------------------------
(* The Plex backend: v3 is plex, v4 the poll, v10 the watchdog.                  *)

\* A step of the Plex backend that reports no end and dispatches nothing.
LEMMA PlexKept ==
  ASSUME Plex!PlexInv, Plex!PlexShape', v11'.ended = v11.ended, v3'.gen = v3.gen,
         v12.crossed \subseteq v12'.crossed,
         v8' = "create" => v8 = "create" /\ (v4.pc = "none" => v4'.pc = "none")
                           /\ (v4.pc = "none" /\ v10.pc = "none" => v10'.pc = "none"),
         v3.gen \notin v12'.crossed /\ v4.pc = "none" /\ ~v3.on /\ v11.ended[v3.gen] > 0
           => v4'.pc = "none" /\ ~v3'.on,
         v3.gen \notin v12'.crossed /\ v4'.pc = "advance" /\ (v4.pc = "advance" => ~v3.on) => ~v3'.on
  PROVE  Plex!PlexInv'
<1>1. Plex!PlexCreating'
  BY DEF Plex!PlexInv, Plex!PlexCreating
<1>2. Plex!PlexOver'
  BY DEF Plex!PlexInv, Plex!PlexOver
<1>3. Plex!PlexEndsOnce'
  BY DEF Plex!PlexInv, Plex!PlexEndsOnce
<1> QED
  BY <1>1, <1>2, <1>3 DEF Plex!PlexInv

LEMMA PlexParts ==
  ASSUME Plex!PlexInv
  PROVE  /\ DOMAIN v11 = {"ended", "heard"} /\ DOMAIN v4 = {"pc", "ended", "line"} /\ DOMAIN v10 = {"pc", "play"}
         /\ DOMAIN v12 = {"gone", "foreign", "yielded", "crossed"}
         /\ DOMAIN v3 = {"on", "gen", "token", "selfStopped", "awaiting", "qid", "owned", "pending",
                         "armed", "stale", "epoch", "item", "window", "foreign", "refused"}
  BY DEF Plex!PlexInv, Plex!PlexShape

LEMMA PlexPlayerKeeps ==
  ASSUME Plex!PlexInv, Plex!Player
  PROVE  Plex!PlexInv'
<1>1. /\ UNCHANGED <<v3, v4, v8, v10, v11>> /\ v12.crossed = v12'.crossed /\ DOMAIN v12' = DOMAIN v12
  BY DEF Plex!PlexInv, Plex!PlexShape, Plex!Player, Plex!PlayerLoads, Plex!PlayerEnds, Plex!PlayerFails,
         Plex!PlayerBack, Plex!Gone
<1>2. Plex!PlexShape'
  BY <1>1 DEF Plex!PlexInv, Plex!PlexShape
<1> QED
  BY <1>1, <1>2, PlexKept

LEMMA PlexArmsKeep ==
  ASSUME Plex!PlexInv, Plex!Arms
  PROVE  Plex!PlexInv'
<1>1. /\ UNCHANGED <<v8, v10, v11>> /\ v3'.gen = v3.gen /\ v3'.on = v3.on /\ DOMAIN v3' = DOMAIN v3
      /\ v4' = v4 \/ (v4.pc = "deliver" /\ v4' = [v4 EXCEPT !.pc = "observe"])
      /\ v12.crossed \subseteq v12'.crossed /\ DOMAIN v12' = DOMAIN v12
  <2>1. ASSUME Plex!ArmReturns PROVE v4' = v4 \/ (v4.pc = "deliver" /\ v4' = [v4 EXCEPT !.pc = "observe"])
    BY <2>1 DEF Plex!ArmReturns
  <2>2. CASE Plex!ArmStarts \/ Plex!ArmResolves
    BY <2>1, <2>2, PlexParts DEF Plex!ArmStarts, Plex!ArmResolves
  <2>5. CASE Plex!ArmAppends
    BY <2>1, <2>5, PlexParts DEF Plex!ArmAppends
  <2>3. CASE Plex!ArmAppended
    BY <2>1, <2>3, PlexParts DEF Plex!ArmAppended
  <2>6. CASE Plex!ArmRefreshed
    <3>1. v12'.crossed = v12.crossed \cup {v3.gen} \/ v12' = v12
      BY <2>6, PlexParts DEF Plex!ArmRefreshed
    <3>2. DOMAIN v12' = DOMAIN v12
      BY <2>6, PlexParts DEF Plex!ArmRefreshed
    <3> QED
      BY <2>1, <2>6, <3>1, <3>2, PlexParts DEF Plex!ArmRefreshed
  <2>7. CASE Plex!ArmAbandons
    BY <2>1, <2>7, PlexParts DEF Plex!ArmAbandons
  <2>4. CASE Plex!Revokes \/ Plex!RevokeDeletes
    BY <2>4, PlexParts DEF Plex!Revokes, Plex!RevokeDeletes, Plex!Discard
  <2> QED
    BY <2>2, <2>3, <2>4, <2>5, <2>6, <2>7 DEF Plex!Arms
<1>2. /\ DOMAIN v4' = DOMAIN v4 /\ (v4'.pc = v4.pc \/ (v4.pc = "deliver" /\ v4'.pc = "observe"))
  BY <1>1, PlexParts
<1>3. Plex!PlexShape'
  BY <1>1, <1>2 DEF Plex!PlexInv, Plex!PlexShape
<1> QED
  BY <1>1, <1>2, <1>3, PlexKept

\* The poll of the timeline, short of the end it reports.
LEMMA PlexReadsKeep ==
  ASSUME Plex!PlexInv, Plex!PollReads \/ Plex!PollYields \/ Plex!PollCrosses \/ Plex!PollCorrects
                       \/ Plex!PollCorrected \/ Plex!PollPasses \/ Plex!PollEnds
  PROVE  Plex!PlexInv'
<1>1. /\ v8' = v8 /\ v4.pc # "none" /\ v3'.gen = v3.gen /\ DOMAIN v3' = DOMAIN v3
      /\ DOMAIN v4' = DOMAIN v4 /\ DOMAIN v10' = DOMAIN v10
      /\ v11'.ended = v11.ended /\ DOMAIN v11' = DOMAIN v11
      /\ v12.crossed \subseteq v12'.crossed /\ DOMAIN v12' = DOMAIN v12
      /\ v4'.pc = "advance" => ~v3'.on
  <2>1. CASE Plex!PollReads
    <3> DEFINE s == Plex!Adopted(v3, Plex!Line)
    <3>1. s.gen = v3.gen /\ s.on = v3.on /\ DOMAIN s = DOMAIN v3
      BY PlexParts DEF Plex!Adopted
    <3> HIDE DEF s
    <3>2. /\ UNCHANGED <<v8, v10, v11, v12>> /\ v4.pc = "sleep"
          /\ v3' = s \/ v3' = [s EXCEPT !.pending = None]
          /\ \E l : v4' = [v4 EXCEPT !.pc = "deliver", !.line = l] \/ v4' = [v4 EXCEPT !.pc = "observe", !.line = l]
      BY <2>1 DEF Plex!PollReads, s
    <3> QED
      BY <3>1, <3>2, PlexParts
  <2>2. CASE Plex!PollYields
    BY <2>2, PlexParts DEF Plex!PollYields, Plex!Discard, Plex!NoDog
  <2>5. CASE Plex!PollCrosses
    BY <2>5, PlexParts DEF Plex!PollCrosses, Plex!Discard
  <2>6. CASE Plex!PollCorrects
    BY <2>6, PlexParts DEF Plex!PollCorrects, Plex!Discard
  <2>3. CASE Plex!PollCorrected \/ Plex!PollEnds
    BY <2>3, PlexParts DEF Plex!PollCorrected, Plex!PollEnds, Plex!Discard, Plex!NoDog
  <2>4. CASE Plex!PollPasses
    BY <2>4, PlexParts DEF Plex!PollPasses
  <2> QED
    BY <2>1, <2>2, <2>3, <2>4, <2>5, <2>6
<1>2. Plex!PlexShape'
  BY <1>1 DEF Plex!PlexInv, Plex!PlexShape
<1> QED
  BY <1>1, <1>2, PlexKept

\* An end is reported once the poll is at its end or the watchdog finds silence.
LEMMA PlexEndTold ==
  ASSUME Plex!PlexInv, UNCHANGED <<v8, v12>>, v11' = Plex!Ended(v11),
         v3'.gen = v3.gen, DOMAIN v3' = DOMAIN v3, DOMAIN v4' = DOMAIN v4, DOMAIN v10' = DOMAIN v10,
         v4'.pc = "none", v3'.on => v4.pc = "advance" /\ v3.on,
         v3.on \/ v4.pc # "none", v4.pc # "none" \/ v10.pc # "none"
  PROVE  Plex!PlexInv'
<1>1. /\ v11'.ended = [v11.ended EXCEPT ![v3.gen] = @ + 1] /\ DOMAIN v11' = DOMAIN v11
  BY PlexParts DEF Plex!Ended
<1>2. /\ v11'.ended \in [Plex!Plays -> Nat]
      /\ \A n \in Plex!Plays \ {v3.gen} : v11'.ended[n] = v11.ended[n]
      /\ v3.gen \in Plex!Plays => v11'.ended[v3.gen] = v11.ended[v3.gen] + 1
  <2>1. v11.ended \in [Plex!Plays -> Nat]
    BY DEF Plex!PlexInv, Plex!PlexShape
  <2>2. CASE v3.gen \in Plex!Plays
    <3>1. v11.ended[v3.gen] + 1 \in Nat
      BY <2>1, <2>2
    <3> QED
      BY <1>1, <2>1, <2>2, <3>1
  <2>3. CASE v3.gen \notin Plex!Plays
    BY <1>1, <2>1, <2>3
  <2> QED
    BY <2>2, <2>3
<1>3. v3.gen \in Plex!Plays \ v12.crossed => v11.ended[v3.gen] = 0
  BY <1>2 DEF Plex!PlexInv, Plex!PlexShape, Plex!PlexOver
<1>4. Plex!PlexShape'
  BY <1>1, <1>2, PlayersNats DEF Plex!PlexInv, Plex!PlexShape, Plex!Plays
<1>5. Plex!PlexCreating' /\ Plex!PlexOver'
  BY DEF Plex!PlexInv, Plex!PlexCreating, Plex!PlexOver
<1>6. Plex!PlexEndsOnce'
  BY <1>2, <1>3 DEF Plex!PlexInv, Plex!PlexEndsOnce
<1> QED
  BY <1>4, <1>5, <1>6 DEF Plex!PlexInv

LEMMA PlexReportsKeep ==
  ASSUME Plex!PlexInv, Plex!PollFails \/ Plex!PollAdvances \/ Plex!DogWakes \/ Plex!DogProbed
  PROVE  Plex!PlexInv'
<1>1. CASE Plex!PollFails
  BY <1>1, PlexEndTold, PlexParts DEF Plex!PollFails
<1>2. CASE Plex!PollAdvances
  BY <1>2, PlexEndTold, PlexParts DEF Plex!PollAdvances
<1>3. CASE Plex!DogWakes \/ (Plex!DogProbed /\ ~Plex!Mine)
  <2>1. /\ UNCHANGED <<v3, v4, v8, v11, v12>> /\ v10.pc # "none" /\ DOMAIN v10' = DOMAIN v10
    BY <1>3, PlexParts DEF Plex!DogWakes, Plex!DogProbed, Plex!NoDog
  <2>2. Plex!PlexShape'
    BY <2>1 DEF Plex!PlexInv, Plex!PlexShape
  <2> QED
    BY <2>1, <2>2, PlexKept
<1>4. CASE Plex!DogProbed /\ Plex!Mine
  BY <1>4, PlexEndTold, PlexParts DEF Plex!DogProbed, Plex!Mine, Plex!NoDog, Plex!Discard
<1> QED
  BY <1>1, <1>2, <1>3, <1>4

LEMMA PlexHostKeeps ==
  ASSUME Plex!PlexInv, Plex!Host
  PROVE  Plex!PlexInv'
<1>1. /\ v8' = v8 /\ v11' = v11 /\ v3'.gen = v3.gen /\ DOMAIN v3' = DOMAIN v3
      /\ DOMAIN v4' = DOMAIN v4 /\ DOMAIN v10' = DOMAIN v10
      /\ v4' = v4 \/ v4'.pc = "none"
      /\ v10' = v10 \/ v10'.pc = "none"
      /\ v12.crossed \subseteq v12'.crossed /\ DOMAIN v12' = DOMAIN v12
      /\ \/ v3'.on = v3.on \/ ~v3'.on
         \/ v3'.on /\ v4' = v4 /\ (v11.ended[v3.gen] > 0 \/ v4.pc = "advance" => v3.gen \in v12'.crossed)
  <2>1. CASE Plex!EditsQueue
    BY <2>1, PlexParts DEF Plex!EditsQueue
  <2>3. CASE \E p \in {"pause", "resume", "stop"} : Plex!Presses(p)
    <3>1. /\ UNCHANGED <<v8, v11, v12>>
          /\ \/ UNCHANGED <<v3, v4, v10>>
             \/ /\ v3' = [v3 EXCEPT !.on = FALSE, !.selfStopped = TRUE]
                /\ v4' = [v4 EXCEPT !.pc = "none"] /\ v10' = [pc |-> "none", play |-> 0]
      BY <2>3 DEF Plex!Presses, Plex!NoDog
    <3>2. CASE UNCHANGED <<v3, v4, v10>>
      BY <3>1, <3>2
    <3>3. CASE /\ v3' = [v3 EXCEPT !.on = FALSE, !.selfStopped = TRUE]
               /\ v4' = [v4 EXCEPT !.pc = "none"] /\ v10' = [pc |-> "none", play |-> 0]
      BY <3>1, <3>3, PlexParts
    <3> QED
      BY <3>1, <3>2, <3>3
  <2>2. CASE Plex!PressDone
    <3>1. /\ UNCHANGED <<v4, v8, v10, v11>>
          /\ \/ v3' = v3 /\ (v12' = v12 \/ v12' = Plex!Gone(v12))
             \/ v3' = [v3 EXCEPT !.on = FALSE] /\ v12' = v12
             \/ /\ v3' = [v3 EXCEPT !.on = TRUE]
                /\ v12' = IF v11.ended[v3.gen] > 0 \/ v4.pc \in {"correct", "end", "advance"}
                          THEN [v12 EXCEPT !.crossed = @ \cup {v3.gen}] ELSE v12
      BY <2>2 DEF Plex!PressDone
    <3>2. CASE v3' = v3 /\ (v12' = v12 \/ v12' = Plex!Gone(v12))
      BY <3>1, <3>2, PlexParts DEF Plex!Gone
    <3>3. CASE v3' = [v3 EXCEPT !.on = FALSE] /\ v12' = v12
      BY <3>1, <3>3, PlexParts
    <3>4. CASE /\ v3' = [v3 EXCEPT !.on = TRUE]
               /\ v12' = IF v11.ended[v3.gen] > 0 \/ v4.pc \in {"correct", "end", "advance"}
                         THEN [v12 EXCEPT !.crossed = @ \cup {v3.gen}] ELSE v12
      <4>1. /\ DOMAIN v12' = DOMAIN v12 /\ v12.crossed \subseteq v12'.crossed
            /\ v11.ended[v3.gen] > 0 \/ v4.pc = "advance" => v3.gen \in v12'.crossed
        BY <3>4, PlexParts
      <4> QED
        BY <3>1, <3>4, <4>1, PlexParts
    <3> QED
      BY <3>1, <3>2, <3>3, <3>4
  <2> QED
    BY <2>1, <2>2, <2>3 DEF Plex!Host
<1>2. Plex!PlexShape'
  BY <1>1 DEF Plex!PlexInv, Plex!PlexShape
<1> QED
  BY <1>1, <1>2, PlexKept

\* A dispatch takes the poll and the watchdog away before it suspends.
LEMMA PlexPlaysKeep ==
  ASSUME Plex!PlexInv, Plex!PlayStarts \/ Plex!PlayReturns
  PROVE  Plex!PlexInv'
<1>1. CASE Plex!PlayStarts
  <2>1. /\ v8' = "create" /\ v11' = v11 /\ v12' = v12 /\ v3'.gen = v3.gen + 1 /\ DOMAIN v3' = DOMAIN v3
        /\ v3.gen < MaxPlays /\ DOMAIN v4' = DOMAIN v4 /\ v4'.pc = "none" /\ DOMAIN v10' = DOMAIN v10
        /\ v10'.pc = "none"
    BY <1>1, PlexParts DEF Plex!PlayStarts, Plex!Discard, Plex!NoDog
  <2>2. v3'.gen \in Plex!Plays /\ v11.ended[v3'.gen] = 0 /\ \A n \in Plex!Plays : n > v3'.gen => n > v3.gen
    BY <2>1, PlayersNats DEF Plex!Plays, Plex!PlexInv, Plex!PlexShape
  <2>3. Plex!PlexShape'
    BY <2>1, <2>2 DEF Plex!Plays, Plex!PlexInv, Plex!PlexShape
  <2> QED
    BY <2>1, <2>2, <2>3 DEF Plex!PlexInv, Plex!PlexCreating, Plex!PlexOver, Plex!PlexEndsOnce
<1>2. CASE Plex!PlayReturns
  <2>1. /\ v8 = "create" /\ v8' = "none" /\ v11' = v11 /\ v12'.crossed = v12.crossed /\ v3'.gen = v3.gen
        /\ DOMAIN v3' = DOMAIN v3 /\ DOMAIN v4' = DOMAIN v4 /\ DOMAIN v10' = DOMAIN v10
        /\ DOMAIN v12' = DOMAIN v12 /\ v4'.pc \in {"none", "sleep"}
    <3>1. v8 = "create" /\ v4.pc = "none"
      BY <1>2 DEF Plex!PlayReturns, Plex!PlexInv, Plex!PlexCreating
    <3>2. /\ v8' = "none" /\ v11' = v11
          /\ \/ /\ v3' = [v3 EXCEPT !.awaiting = TRUE, !.on = TRUE] /\ v12' = v12
                /\ v4' = [pc |-> "sleep", ended |-> 0, line |-> Plex!NoLine]
                /\ v10' = [pc |-> "sleep", play |-> v3.gen]
             \/ /\ UNCHANGED <<v3, v4, v10>>
                /\ v12' = [v12 EXCEPT !.gone = @ \cup {v3.gen}]
      BY <1>2 DEF Plex!PlayReturns
    <3>3. CASE /\ v3' = [v3 EXCEPT !.awaiting = TRUE, !.on = TRUE] /\ v12' = v12
               /\ v4' = [pc |-> "sleep", ended |-> 0, line |-> Plex!NoLine]
               /\ v10' = [pc |-> "sleep", play |-> v3.gen]
      BY <3>1, <3>2, <3>3, PlexParts
    <3>4. CASE UNCHANGED <<v3, v4, v10>> /\ v12' = [v12 EXCEPT !.gone = @ \cup {v3.gen}]
      BY <3>1, <3>2, <3>4, PlexParts
    <3> QED
      BY <3>2, <3>3, <3>4
  <2>2. Plex!PlexShape'
    BY <2>1 DEF Plex!PlexInv, Plex!PlexShape
  <2> QED
    BY <2>1, <2>2 DEF Plex!PlexInv, Plex!PlexCreating, Plex!PlexOver, Plex!PlexEndsOnce
<1> QED
  BY <1>1, <1>2

LEMMA PlexSteps ==
  ASSUME Plex!PlexInv, Plex!PlexNext
  PROVE  Plex!PlexInv'
BY PlexPlayerKeeps, PlexArmsKeep, PlexReadsKeep, PlexReportsKeep, PlexHostKeeps, PlexPlaysKeep
   DEF Plex!PlexNext, Plex!Polls

LEMMA PlexBegins ==
  ASSUME Plex!PlexInit
  PROVE  Plex!PlexInv
<1>1. Plex!PlexShape
  BY PlayersNats DEF Plex!PlexInit, Plex!PlexShape, Plex!NoDog, Plex!Plays
<1> QED
  BY <1>1 DEF Plex!PlexInit, Plex!PlexInv, Plex!PlexCreating, Plex!PlexOver, Plex!PlexEndsOnce, Plex!Plays

LEMMA PlexHealthParts ==
  ASSUME Plex!PlexInv, Plex!PlexHealthInv
  PROVE  /\ Plex!PlayerFollows /\ Plex!QueueTaken /\ Plex!LineTells /\ Plex!EndsMeant /\ Plex!PlexHealthyKept
         /\ Plex!PlexCreating /\ DOMAIN v1 = {"queue", "item", "copy", "st", "cmd", "up"}
         /\ v3.gen \in 0 .. MaxPlays /\ v3.gen \in Nat /\ v1.cmd \in 0 .. v3.gen
         /\ v3.gen \in Plex!Plays => v3.gen # Plex!Foreign
         /\ v11.ended \in [Plex!Plays -> Nat]
<1>1. /\ Plex!PlayerFollows /\ Plex!QueueTaken /\ Plex!LineTells /\ Plex!EndsMeant /\ Plex!PlexHealthyKept
      /\ Plex!PlexCreating /\ Plex!PlexShape
  BY DEF Plex!PlexInv, Plex!PlexHealthInv
<1>2. DOMAIN v1 = {"queue", "item", "copy", "st", "cmd", "up"} /\ v1.cmd \in 0 .. v3.gen
  BY <1>1 DEF Plex!PlayerFollows
<1>3. v3.gen \in 0 .. MaxPlays /\ v11.ended \in [Plex!Plays -> Nat]
  BY <1>1 DEF Plex!PlexShape
<1> QED
  BY <1>1, <1>2, <1>3, PlayersNats DEF Plex!Plays, Plex!Foreign

\* A step that dispatches nothing and adopts no queue, and reports an end only of what is lost.
LEMMA HealthStays ==
  ASSUME Plex!PlexInv, Plex!PlexHealthInv, Plex!PlayerFollows',
         v3'.gen = v3.gen, v3'.awaiting = v3.awaiting, v3'.owned = v3.owned, v1'.cmd = v1.cmd,
         v8' = v8, v3'.token = v3.token,
         v12.gone \subseteq v12'.gone, v12.crossed \subseteq v12'.crossed, v12.foreign => v12'.foreign,
         v12'.yielded => v12.yielded \/ v12'.foreign,
         Plex!Active' => Plex!Active,
         v4'.pc \in {"deliver", "observe"} => v4.pc \in {"deliver", "observe"} /\ v4'.line = v4.line,
         v4'.pc \in {"end", "advance"} => v4.pc \in {"end", "advance"} \/ Plex!Lost',
         v10'.pc = "probe" => v10.pc = "probe" \/ Plex!Lost',
         v11'.ended = v11.ended \/ (Plex!Lost' /\ v11' = Plex!Ended(v11) /\ DOMAIN v11 = {"ended", "heard"})
  PROVE  Plex!PlexHealthInv'
<1> USE PlexHealthParts
<1>1. Plex!Taken' = Plex!Taken /\ (Plex!Lost => Plex!Lost')
  BY DEF Plex!Taken, Plex!Lost
<1>2. Plex!QueueTaken'
  BY <1>1 DEF Plex!QueueTaken
<1>3. Plex!LineTells'
  BY DEF Plex!LineTells
<1>4. Plex!EndsMeant'
  BY <1>1 DEF Plex!EndsMeant
<1>5. \A n \in Plex!Plays : v11'.ended[n] > 0 => n \in v12'.gone \cup v12'.crossed
  <2> SUFFICES ASSUME NEW n \in Plex!Plays, v11'.ended[n] > 0 PROVE n \in v12'.gone \cup v12'.crossed
    OBVIOUS
  <2>1. CASE v11.ended[n] > 0
    BY <2>1 DEF Plex!PlexHealthyKept
  <2>2. CASE ~(v11.ended[n] > 0)
    <3>1. Plex!Lost' /\ v11'.ended = [v11.ended EXCEPT ![v3.gen] = @ + 1]
      BY <2>2 DEF Plex!Ended
    <3>2. n = v3.gen
      BY <2>2, <3>1
    <3> QED
      BY <3>1, <3>2 DEF Plex!Lost
  <2> QED
    BY <2>1, <2>2
<1>6. Plex!PlexHealthyKept'
  BY <1>5 DEF Plex!PlexHealthyKept
<1> QED
  BY <1>2, <1>3, <1>4, <1>6 DEF Plex!PlexHealthInv

LEMMA HealthPlayerLoads ==
  ASSUME Plex!PlexInv, Plex!PlexHealthInv, Plex!PlayerLoads
  PROVE  Plex!PlexHealthInv'
<1> USE PlexHealthParts
<1>1. /\ UNCHANGED <<v3, v4, v8, v10, v11, v12>> /\ v1.up /\ v1.cmd < v3.gen /\ v8 = "none" /\ v3.awaiting
      /\ v1'.queue = v3.gen /\ v1'.cmd = v3.gen /\ v1'.st = "playing" /\ v1'.up = v1.up /\ DOMAIN v1' = DOMAIN v1
  BY DEF Plex!PlayerLoads
<1>2. v3.gen \in Plex!Plays /\ v3.gen # Plex!Foreign
  BY <1>1, PlayersNats DEF Plex!Plays
<1>3. Plex!PlayerFollows'
  BY <1>1, <1>2 DEF Plex!PlayerFollows, Plex!Taken
<1>4. Plex!QueueTaken'
  BY <1>1 DEF Plex!QueueTaken, Plex!Active
<1>5. Plex!LineTells' /\ Plex!EndsMeant' /\ Plex!PlexHealthyKept'
  BY <1>1 DEF Plex!LineTells, Plex!EndsMeant, Plex!PlexHealthyKept, Plex!Lost
<1> QED
  BY <1>3, <1>4, <1>5 DEF Plex!PlexHealthInv

LEMMA HealthPlayer ==
  ASSUME Plex!PlexInv, Plex!PlexHealthInv, Plex!PlayerEnds \/ Plex!PlayerFails \/ Plex!PlayerBack
  PROVE  Plex!PlexHealthInv'
<1> USE PlexHealthParts, PlexParts
<1>1. /\ UNCHANGED <<v3, v4, v8, v10, v11>> /\ DOMAIN v1' = DOMAIN v1 /\ v1'.cmd = v1.cmd
      /\ v12'.crossed = v12.crossed /\ v12'.yielded = v12.yielded /\ DOMAIN v12' = DOMAIN v12
      /\ \/ v1'.queue = v1.queue /\ v1'.st = v1.st /\ v12' = v12 /\ (v1'.up = v1.up \/ v1'.up)
         \/ /\ v1'.queue = v1.queue /\ v1'.st \in {"stopped", "hung"} /\ v1'.up = v1.up /\ v1.st = "playing"
            /\ v12'.gone = v12.gone \cup {v1.queue} /\ v12'.foreign = v12.foreign
         \/ /\ v1'.queue = v1.queue /\ v1'.st = v1.st /\ ~v1'.up
            /\ v12'.gone = v12.gone \cup Plex!Plays /\ v12'.foreign = v12.foreign
         \/ /\ v1'.queue = Plex!Foreign /\ v1'.st = v1.st /\ v1'.up = v1.up
            /\ v12'.gone = v12.gone \cup {v1.queue} /\ v12'.foreign
  <2>1. CASE Plex!PlayerEnds
    <3>1. CASE v1.copy = <<>>
      BY <2>1, <3>1 DEF Plex!PlayerEnds, Plex!Gone
    <3>2. CASE v1.copy # <<>>
      BY <2>1, <3>2 DEF Plex!PlayerEnds, Plex!Gone
    <3> QED
      BY <3>1, <3>2
  <2>2. CASE Plex!PlayerFails
    <3>1. /\ UNCHANGED <<v3, v4, v8, v10, v11>> /\ v1.st = "playing"
          /\ \/ v1' = [v1 EXCEPT !.st = "hung"] /\ v12' = Plex!Gone(v12)
             \/ v1' = [v1 EXCEPT !.up = FALSE] /\ v12' = [v12 EXCEPT !.gone = @ \cup Plex!Plays]
             \/ /\ v1' = [v1 EXCEPT !.queue = Plex!Foreign, !.copy = <<>>, !.item = Plex!ForeignItem]
                /\ v12' = [Plex!Gone(v12) EXCEPT !.foreign = TRUE]
      BY <2>2 DEF Plex!PlayerFails
    <3>2. CASE v1' = [v1 EXCEPT !.st = "hung"] /\ v12' = Plex!Gone(v12)
      BY <3>1, <3>2 DEF Plex!Gone
    <3>3. CASE v1' = [v1 EXCEPT !.up = FALSE] /\ v12' = [v12 EXCEPT !.gone = @ \cup Plex!Plays]
      BY <3>1, <3>3
    <3>4. CASE /\ v1' = [v1 EXCEPT !.queue = Plex!Foreign, !.copy = <<>>, !.item = Plex!ForeignItem]
               /\ v12' = [Plex!Gone(v12) EXCEPT !.foreign = TRUE]
      BY <3>1, <3>4 DEF Plex!Gone
    <3> QED
      BY <3>1, <3>2, <3>3, <3>4
  <2>3. CASE Plex!PlayerBack
    BY <2>3 DEF Plex!PlayerBack
  <2> QED
    BY <2>1, <2>2, <2>3
<1>2. Plex!PlayerFollows'
  <2>1. v12.gone \subseteq v12'.gone
    BY <1>1
  <2>2. v1'.queue = Plex!Foreign => v12'.foreign
    BY <1>1 DEF Plex!PlayerFollows
  <2>3. ~v1'.up => Plex!Plays \subseteq v12'.gone
    BY <1>1 DEF Plex!PlayerFollows
  <2>4. Plex!Taken' => /\ v1'.queue # v3'.gen => v1'.queue = Plex!Foreign /\ v3'.gen \in v12'.gone
                       /\ v1'.st \in {"stopped", "hung"} => v3'.gen \in v12'.gone
                       /\ v1'.st = "paused" /\ v3'.on => Plex!Lost'
    BY <1>1 DEF Plex!PlayerFollows, Plex!Taken, Plex!Lost
  <2>5. v1'.cmd \in 0 .. v3'.gen /\ v1'.st \in {"stopped", "playing", "paused", "hung"}
    BY <1>1 DEF Plex!PlayerFollows
  <2> QED
    BY <1>1, <2>2, <2>3, <2>4, <2>5 DEF Plex!PlayerFollows
<1> QED
  BY <1>1, <1>2, HealthStays DEF Plex!Active, Plex!PlayerFollows

\* The player as the arms and the timeline leave it.
LEMMA FollowsStays ==
  ASSUME Plex!PlexInv, Plex!PlexHealthInv, v3'.gen = v3.gen,
         v1'.queue = v1.queue, v1'.st = v1.st, v1'.cmd = v1.cmd, v1'.up = v1.up, DOMAIN v1' = DOMAIN v1,
         v12.gone \subseteq v12'.gone, v12.crossed \subseteq v12'.crossed, v12.foreign => v12'.foreign,
         v3'.on => v3.on \/ Plex!Lost' \/ v1.st # "paused"
  PROVE  Plex!PlayerFollows'
<1> USE PlexHealthParts
<1>1. v1'.queue = Plex!Foreign => v12'.foreign
  BY DEF Plex!PlayerFollows
<1>2. ~v1'.up => Plex!Plays \subseteq v12'.gone
  BY DEF Plex!PlayerFollows
<1>3. Plex!Taken' => /\ v1'.queue # v3'.gen => v1'.queue = Plex!Foreign /\ v3'.gen \in v12'.gone
                     /\ v1'.st \in {"stopped", "hung"} => v3'.gen \in v12'.gone
                     /\ v1'.st = "paused" /\ v3'.on => Plex!Lost'
  BY DEF Plex!PlayerFollows, Plex!Taken, Plex!Lost
<1>4. v1'.cmd \in 0 .. v3'.gen /\ v1'.st \in {"stopped", "playing", "paused", "hung"}
  BY DEF Plex!PlayerFollows
<1> QED
  BY <1>1, <1>2, <1>3, <1>4 DEF Plex!PlayerFollows

LEMMA HealthArms ==
  ASSUME Plex!PlexInv, Plex!PlexHealthInv, Plex!Arms
  PROVE  Plex!PlexHealthInv'
<1> USE PlexHealthParts, PlexParts
<1>1. ASSUME Plex!ArmReturns PROVE v4' = v4 \/ (v4.pc = "deliver" /\ v4' = [v4 EXCEPT !.pc = "observe"])
  BY <1>1 DEF Plex!ArmReturns
<1>2. /\ UNCHANGED <<v8, v10, v11>> /\ v3'.gen = v3.gen /\ v3'.on = v3.on /\ v3'.awaiting = v3.awaiting
      /\ v3'.owned = v3.owned /\ v3'.token = v3.token
      /\ v4' = v4 \/ (v4.pc = "deliver" /\ v4' = [v4 EXCEPT !.pc = "observe"])
      /\ v12.crossed \subseteq v12'.crossed /\ v12'.gone = v12.gone /\ v12'.yielded = v12.yielded
      /\ v12'.foreign = v12.foreign
  <2>1. CASE Plex!ArmStarts \/ Plex!ArmResolves
    BY <1>1, <2>1 DEF Plex!ArmStarts, Plex!ArmResolves
  <2>2. CASE Plex!ArmAppends
    BY <1>1, <2>2 DEF Plex!ArmAppends
  <2>3. CASE Plex!ArmAppended
    BY <1>1, <2>3 DEF Plex!ArmAppended
  <2>4. CASE Plex!ArmRefreshed
    <3>1. v12' = [v12 EXCEPT !.crossed = @ \cup {v3.gen}] \/ v12' = v12
      BY <2>4 DEF Plex!ArmRefreshed
    <3> QED
      BY <1>1, <2>4, <3>1 DEF Plex!ArmRefreshed
  <2>5. CASE Plex!ArmAbandons
    BY <1>1, <2>5 DEF Plex!ArmAbandons
  <2>6. CASE Plex!Revokes \/ Plex!RevokeDeletes
    BY <2>6 DEF Plex!Revokes, Plex!RevokeDeletes, Plex!Discard
  <2> QED
    BY <2>1, <2>2, <2>3, <2>4, <2>5, <2>6 DEF Plex!Arms
<1>3. \E c : v1' = v1 \/ v1' = [v1 EXCEPT !.copy = c]
  <2>1. \E c : Plex!Refreshed = [v1 EXCEPT !.copy = c]
    BY DEF Plex!Refreshed
  <2>2. CASE Plex!ArmRefreshed
    BY <2>1, <2>2 DEF Plex!ArmRefreshed
  <2>3. ASSUME NEW id, Plex!Deletes(id) PROVE \E c : v1' = v1 \/ v1' = [v1 EXCEPT !.copy = c]
    <3>1. CASE v1' = Plex!Refreshed
      BY <2>1, <3>1
    <3> DEFINE less == [v2 EXCEPT !.past = Plex!Without(@, id), !.items = Plex!Without(@, id)]
               kept == IF v1.queue = v3.gen THEN less.items ELSE v1.copy
    <3>2. v1' = Plex!Refreshed \/ v1' = v1 \/ v1' = [v1 EXCEPT !.copy = kept]
      BY <2>3 DEF Plex!Deletes, kept, less
    <3> HIDE DEF kept
    <3> QED
      BY <3>1, <3>2
  <2>4. CASE Plex!ArmAbandons \/ Plex!RevokeDeletes
    BY <2>3, <2>4 DEF Plex!ArmAbandons, Plex!RevokeDeletes
  <2>5. CASE Plex!ArmStarts \/ Plex!ArmResolves \/ Plex!ArmAppends \/ Plex!ArmAppended \/ Plex!Revokes
    BY <2>5 DEF Plex!ArmStarts, Plex!ArmResolves, Plex!ArmAppends, Plex!ArmAppended, Plex!Revokes
  <2> QED
    BY <2>2, <2>4, <2>5 DEF Plex!Arms
<1>4. /\ v1'.queue = v1.queue /\ v1'.st = v1.st /\ v1'.cmd = v1.cmd /\ v1'.up = v1.up /\ DOMAIN v1' = DOMAIN v1
  BY <1>3
<1>5. Plex!PlayerFollows'
  BY <1>2, <1>4, FollowsStays
<1>6. \/ v4'.pc = v4.pc /\ v4'.line = v4.line
      \/ v4.pc = "deliver" /\ v4'.pc = "observe" /\ v4'.line = v4.line
  BY <1>2
<1>7. Plex!Active' => Plex!Active
  BY <1>2, <1>6 DEF Plex!Active
<1> QED
  BY <1>2, <1>4, <1>5, <1>6, <1>7, HealthStays

\* A timeline is read, and its queue perhaps adopted.
LEMMA HealthReads ==
  ASSUME Plex!PlexInv, Plex!PlexHealthInv, Plex!PollReads
  PROVE  Plex!PlexHealthInv'
<1> USE PlexHealthParts, PlexParts
<1> DEFINE l == Plex!Line
<1> DEFINE s == Plex!Adopted(v3, l)
<1> DEFINE adopts == l.queue # 0 /\ l.queue # v3.qid /\ v3.awaiting /\ ~Plex!StaleEcho(l)
<1>1. /\ v4.pc = "sleep" /\ UNCHANGED <<v1, v8, v10, v11, v12>>
      /\ v3' = s \/ v3' = [s EXCEPT !.pending = None]
      /\ \E pc \in {"deliver", "observe"} : v4' = [v4 EXCEPT !.pc = pc, !.line = l]
  BY DEF Plex!PollReads
<1>2. /\ l.st = v1.st /\ l.cmd = v1.cmd /\ l.queue \in {0, v1.queue}
      /\ l.st = "stopped" => l.queue = 0
  BY DEF Plex!Line
<1>3. /\ s.gen = v3.gen /\ s.on = v3.on /\ s.token = v3.token /\ DOMAIN s = DOMAIN v3
      /\ adopts => ~s.awaiting /\ l.queue \in s.owned
      /\ ~adopts => s.awaiting = v3.awaiting /\ s.owned = v3.owned
  BY DEF Plex!Adopted
<1>4. adopts => l.queue = v1.queue /\ v1.cmd = v3.gen
  BY <1>2 DEF Plex!StaleEcho
<1> HIDE DEF l, s, adopts
<1>5. /\ v3'.gen = v3.gen /\ v3'.on = v3.on /\ v3'.token = v3.token
      /\ v3'.awaiting = s.awaiting /\ v3'.owned = s.owned
  BY <1>1, <1>3
<1>6. v4'.pc \in {"deliver", "observe"} /\ v4'.line = l
  BY <1>1
<1>7. v3.gen \in Plex!Plays /\ (v1.cmd = v3.gen => v1.queue = v3.gen \/ v12.foreign)
  BY <1>1 DEF Plex!QueueTaken, Plex!Active, Plex!PlayerFollows, Plex!Taken
<1>8. Plex!PlayerFollows'
  BY <1>1, <1>5, FollowsStays
<1>9. Plex!QueueTaken'
  <2>1. CASE adopts
    BY <1>1, <1>3, <1>4, <1>5, <1>7, <2>1 DEF Plex!QueueTaken, Plex!Taken, Plex!Active
  <2>2. CASE ~adopts
    BY <1>1, <1>3, <1>5, <1>6, <2>2 DEF Plex!QueueTaken, Plex!Taken, Plex!Active
  <2> QED
    BY <2>1, <2>2
<1>10. Plex!LineTells'
  <2>1. l.st = "stopped" /\ ~v3.token => v3.gen \in v12.gone
    BY <1>1, <1>2 DEF Plex!QueueTaken, Plex!Active, Plex!PlayerFollows, Plex!Taken
  <2>2. l.cmd = v3.gen /\ l.queue # 0 => l.queue = v3.gen \/ v12.foreign
    BY <1>2, <1>7
  <2> QED
    BY <1>1, <1>2, <1>5, <1>6, <2>1, <2>2 DEF Plex!LineTells
<1>11. Plex!EndsMeant' /\ Plex!PlexHealthyKept'
  BY <1>1, <1>5, <1>6 DEF Plex!EndsMeant, Plex!PlexHealthyKept, Plex!Lost
<1> QED
  BY <1>8, <1>9, <1>10, <1>11 DEF Plex!PlexHealthInv

\* The poll yields, crosses to the armed item, corrects, or is at its end.
LEMMA HealthPolls ==
  ASSUME Plex!PlexInv, Plex!PlexHealthInv,
         Plex!PollYields \/ Plex!PollCrosses \/ Plex!PollCorrects \/ Plex!PollEnds
  PROVE  Plex!PlexHealthInv'
<1> USE PlexHealthParts, PlexParts
<1>1. /\ UNCHANGED <<v1, v8, v11>> /\ v4.pc # "none" /\ v3'.gen = v3.gen /\ (v3'.on => v3.on)
      /\ v3'.awaiting = v3.awaiting /\ v3'.owned = v3.owned /\ v3'.token = v3.token
      /\ v12'.gone = v12.gone /\ v12'.crossed = v12.crossed /\ v12'.foreign = v12.foreign
      /\ v10'.pc # "probe" \/ v10' = v10
      /\ v4'.pc \notin {"deliver", "observe", "end"} /\ (v4'.pc = "advance" => v4.pc = "end")
      /\ v12'.yielded => v12.yielded \/ (v4.pc = "observe" /\ Plex!Intruder(v4.line))
  <2>1. CASE Plex!PollYields
    <3>1. /\ UNCHANGED <<v1, v8, v11>> /\ v4.pc = "observe" /\ Plex!Intruder(v4.line)
          /\ \/ /\ v3' = [v3 EXCEPT !.foreign = 1] /\ v4' = [v4 EXCEPT !.pc = "sleep"]
                /\ UNCHANGED <<v10, v12>>
             \/ /\ v3' = [Plex!Discard(v3) EXCEPT !.on = FALSE] /\ v4' = [v4 EXCEPT !.pc = "none"]
                /\ v10'.pc = "none" /\ v12' = [v12 EXCEPT !.yielded = TRUE]
      BY <2>1 DEF Plex!PollYields, Plex!NoDog
    <3>2. CASE /\ v3' = [v3 EXCEPT !.foreign = 1] /\ v4' = [v4 EXCEPT !.pc = "sleep"]
               /\ UNCHANGED <<v10, v12>>
      BY <3>1, <3>2
    <3>3. CASE /\ v3' = [Plex!Discard(v3) EXCEPT !.on = FALSE] /\ v4' = [v4 EXCEPT !.pc = "none"]
               /\ v10'.pc = "none" /\ v12' = [v12 EXCEPT !.yielded = TRUE]
      <4>1. /\ v3'.gen = v3.gen /\ ~v3'.on /\ v3'.awaiting = v3.awaiting /\ v3'.owned = v3.owned
            /\ v3'.token = v3.token
        BY <3>3 DEF Plex!Discard
      <4>2. v4'.pc = "none" /\ v12'.gone = v12.gone /\ v12'.crossed = v12.crossed /\ v12'.foreign = v12.foreign
        BY <3>3
      <4> QED
        BY <3>1, <3>3, <4>1, <4>2
    <3> QED
      BY <3>1, <3>2, <3>3
  <2>2. CASE Plex!PollCrosses
    BY <2>2 DEF Plex!PollCrosses, Plex!Discard
  <2>3. CASE Plex!PollCorrects
    BY <2>3 DEF Plex!PollCorrects, Plex!Discard
  <2>4. CASE Plex!PollEnds
    BY <2>4 DEF Plex!PollEnds, Plex!Discard, Plex!NoDog
  <2> QED
    BY <2>1, <2>2, <2>3, <2>4
<1>2. v4.pc = "observe" /\ Plex!Intruder(v4.line) => v12.foreign
  BY DEF Plex!Intruder, Plex!Blind, Plex!StaleEcho, Plex!LineTells, Plex!QueueTaken, Plex!Active
<1>3. Plex!PlayerFollows'
  BY <1>1, FollowsStays
<1>4. v4.pc = "end" => Plex!Lost'
  BY <1>1 DEF Plex!EndsMeant, Plex!Lost
<1>5. Plex!Active
  BY <1>1 DEF Plex!Active
<1> QED
  BY <1>1, <1>2, <1>3, <1>4, <1>5, HealthStays

\* The correction stops the player.
LEMMA HealthCorrects ==
  ASSUME Plex!PlexInv, Plex!PlexHealthInv, Plex!PollCorrected
  PROVE  Plex!PlexHealthInv'
<1> USE PlexHealthParts, PlexParts
<1>1. /\ UNCHANGED <<v8, v11>> /\ v4.pc # "none" /\ v3'.gen = v3.gen /\ ~v3'.on
      /\ v3'.awaiting = v3.awaiting /\ v3'.owned = v3.owned /\ v3'.token = v3.token
      /\ v12'.gone = v12.gone \cup {v3.gen} /\ v12'.crossed = v12.crossed /\ v12'.foreign = v12.foreign
      /\ v12'.yielded = v12.yielded /\ v4'.pc = "advance" /\ v10'.pc = "none"
      /\ v1'.queue = v1.queue /\ v1'.cmd = v1.cmd /\ v1'.up = v1.up /\ DOMAIN v1' = DOMAIN v1
      /\ v1'.st \in {"stopped", v1.st}
  BY DEF Plex!PollCorrected, Plex!NoDog
<1>2. Plex!PlayerFollows'
  BY <1>1 DEF Plex!PlayerFollows, Plex!Taken
<1>3. Plex!Lost' /\ Plex!Active
  BY <1>1 DEF Plex!Lost, Plex!Active
<1> QED
  BY <1>1, <1>2, <1>3, HealthStays

\* An ordinary pass confirms, revives, or finds the player stopped for good.
LEMMA HealthPasses ==
  ASSUME Plex!PlexInv, Plex!PlexHealthInv, Plex!PollPasses
  PROVE  Plex!PlexHealthInv'
<1> USE PlexHealthParts, PlexParts
<1> DEFINE l == v4.line
<1> DEFINE confirms == l.st = "playing" /\ v3.token /\ ~v3.awaiting
<1> DEFINE revives == l.st = "playing" /\ ~v3.on /\ ~v3.selfStopped /\ ~Plex!StaleEcho(l) /\ l.queue \in v3.owned
<1>1. /\ v4.pc = "observe" /\ UNCHANGED <<v1, v8>>
      /\ v3'.gen = v3.gen /\ v3'.awaiting = v3.awaiting /\ v3'.owned = v3.owned
      /\ v3'.token = (v3.token /\ ~confirms) /\ v3'.on = (v3.on \/ revives)
      /\ v11'.ended = v11.ended
      /\ v10' = v10 \/ v10'.pc = "sleep"
      /\ v12' = IF revives /\ v1.st # "playing" THEN [v12 EXCEPT !.crossed = @ \cup {v3.gen}] ELSE v12
  BY DEF Plex!PollPasses
<1>2. /\ v4'.pc \in {"none", "sleep", "end"}
      /\ v4'.pc = "end" => l.st = "stopped" /\ ~v3.token
  BY DEF Plex!PollPasses, Plex!Terminal
<1>3. /\ v12'.gone = v12.gone /\ v12.crossed \subseteq v12'.crossed /\ v12'.foreign = v12.foreign
      /\ v12'.yielded = v12.yielded /\ (revives /\ v1.st # "playing" => v3.gen \in v12'.crossed)
  BY <1>1
<1> HIDE DEF confirms, revives
<1>4. Plex!PlayerFollows'
  BY <1>1, <1>3, FollowsStays DEF Plex!Lost
<1>5. Plex!Active
  BY <1>1 DEF Plex!Active
<1>6. Plex!QueueTaken'
  BY <1>1, <1>3, <1>5 DEF Plex!QueueTaken, Plex!Taken, confirms, Plex!PlexCreating
<1>7. Plex!LineTells'
  BY <1>2 DEF Plex!LineTells
<1>8. Plex!EndsMeant' /\ Plex!PlexHealthyKept'
  BY <1>1, <1>2, <1>3 DEF Plex!EndsMeant, Plex!PlexHealthyKept, Plex!Lost, Plex!LineTells
<1> QED
  BY <1>4, <1>6, <1>7, <1>8 DEF Plex!PlexHealthInv

\* The watchdog probes what has fallen silent; the ends are reported.
LEMMA HealthReports ==
  ASSUME Plex!PlexInv, Plex!PlexHealthInv,
         Plex!PollFails \/ Plex!PollAdvances \/ Plex!DogWakes \/ Plex!DogProbed
  PROVE  Plex!PlexHealthInv'
<1> USE PlexHealthParts, PlexParts
<1>1. CASE Plex!PollFails \/ Plex!PollAdvances
  <2>1. /\ UNCHANGED <<v1, v8, v10, v12>> /\ v11' = Plex!Ended(v11) /\ v4'.pc = "none" /\ v3'.gen = v3.gen
        /\ (v3'.on => v3.on) /\ v3'.awaiting = v3.awaiting /\ v3'.owned = v3.owned /\ v3'.token = v3.token
        /\ v4.pc = "advance" \/ (v4.pc = "sleep" /\ ~v1.up)
    BY <1>1 DEF Plex!PollFails, Plex!PollAdvances
  <2>2. Plex!Lost /\ Plex!Active
    BY <2>1 DEF Plex!EndsMeant, Plex!QueueTaken, Plex!Active, Plex!PlayerFollows, Plex!Lost
  <2>3. Plex!Lost'
    BY <2>1, <2>2 DEF Plex!Lost
  <2>4. Plex!PlayerFollows'
    BY <2>1, FollowsStays
  <2> QED
    BY <2>1, <2>2, <2>3, <2>4, HealthStays
<1>2. CASE Plex!DogWakes
  <2>1. /\ UNCHANGED <<v1, v3, v4, v8, v11, v12>> /\ v10.pc = "sleep" /\ Plex!Silent(v10.play)
        /\ v10'.pc = "none" \/ (v10'.pc = "probe" /\ v10.play = v3.gen /\ v3.on)
    BY <1>2 DEF Plex!DogWakes, Plex!Mine, Plex!NoDog
  <2>2. v10'.pc = "probe" => Plex!Lost
    BY <2>1 DEF Plex!Silent, Plex!QueueTaken, Plex!Active, Plex!PlayerFollows, Plex!Taken, Plex!Lost
  <2>3. Plex!PlayerFollows' /\ Plex!Active
    BY <2>1, FollowsStays DEF Plex!Active
  <2>4. v10'.pc = "probe" => Plex!Lost'
    BY <2>1, <2>2 DEF Plex!Lost
  <2> QED
    BY <2>1, <2>3, <2>4, HealthStays
<1>3. CASE Plex!DogProbed /\ ~Plex!Mine
  <2>1. UNCHANGED <<v1, v3, v4, v8, v11, v12>> /\ v10.pc = "probe" /\ v10'.pc = "none"
    BY <1>3 DEF Plex!DogProbed, Plex!NoDog
  <2>2. Plex!PlayerFollows' /\ Plex!Active
    BY <2>1, FollowsStays DEF Plex!Active
  <2> QED
    BY <2>1, <2>2, HealthStays
<1>4. CASE Plex!DogProbed /\ Plex!Mine
  <2>1. /\ UNCHANGED <<v1, v8, v12>> /\ v11' = Plex!Ended(v11) /\ v4'.pc = "none" /\ v3'.gen = v3.gen
        /\ ~v3'.on /\ v3'.awaiting = v3.awaiting /\ v3'.owned = v3.owned /\ v3'.token = v3.token
        /\ v10.pc = "probe" /\ v10'.pc = "none"
    BY <1>4, ZenonT(30) DEF Plex!DogProbed, Plex!NoDog, Plex!Discard
  <2>2. Plex!Lost /\ Plex!Active
    BY <2>1 DEF Plex!EndsMeant, Plex!Active
  <2>3. Plex!Lost'
    BY <2>1, <2>2 DEF Plex!Lost
  <2>4. Plex!PlayerFollows'
    BY <2>1, FollowsStays
  <2> QED
    BY <2>1, <2>2, <2>3, <2>4, HealthStays
<1> QED
  BY <1>1, <1>2, <1>3, <1>4

LEMMA HealthStarts ==
  ASSUME Plex!PlexInv, Plex!PlexHealthInv, Plex!PlayStarts
  PROVE  Plex!PlexHealthInv'
<1> USE PlexHealthParts, PlexParts
<1>1. /\ UNCHANGED <<v1, v11, v12>> /\ v8' = "create" /\ v3.gen < MaxPlays /\ v3'.gen = v3.gen + 1 /\ v3'.token
      /\ v4'.pc = "none" /\ v10'.pc = "none"
  BY DEF Plex!PlayStarts, Plex!Discard, Plex!NoDog
<1>2. v1.cmd < v3'.gen /\ v1.cmd \in 0 .. v3'.gen /\ v3'.gen \in Plex!Plays
  BY <1>1, PlayersNats DEF Plex!Plays
<1>3. Plex!PlayerFollows'
  BY <1>1, <1>2 DEF Plex!PlayerFollows, Plex!Taken
<1>4. Plex!QueueTaken' /\ Plex!LineTells' /\ Plex!EndsMeant'
  BY <1>1, <1>2 DEF Plex!QueueTaken, Plex!LineTells, Plex!EndsMeant, Plex!Active
<1>5. Plex!PlexHealthyKept'
  BY <1>1 DEF Plex!PlexHealthyKept
<1> QED
  BY <1>3, <1>4, <1>5 DEF Plex!PlexHealthInv

LEMMA HealthReturns ==
  ASSUME Plex!PlexInv, Plex!PlexHealthInv, Plex!PlayReturns
  PROVE  Plex!PlexHealthInv'
<1> USE PlexHealthParts, PlexParts
<1>1. /\ v8 = "create" /\ v8' = "none" /\ UNCHANGED <<v1, v11>>
      /\ v4.pc = "none" /\ v10.pc = "none" /\ v3.gen \in Plex!Plays /\ v1.cmd < v3.gen /\ v3.token
      /\ \/ /\ v3' = [v3 EXCEPT !.awaiting = TRUE, !.on = TRUE] /\ v12' = v12
            /\ v4'.pc = "sleep" /\ v10'.pc = "sleep"
         \/ /\ UNCHANGED <<v3, v4, v10>> /\ v12' = [v12 EXCEPT !.gone = @ \cup {v3.gen}]
  BY DEF Plex!PlayReturns, Plex!PlexCreating, Plex!QueueTaken
<1>2. /\ v3'.gen = v3.gen /\ v3'.token = v3.token
      /\ v12.gone \subseteq v12'.gone /\ v12'.crossed = v12.crossed /\ v12'.foreign = v12.foreign
      /\ v12'.yielded = v12.yielded /\ v10'.pc # "probe"
      /\ v4'.pc \in {"none", "sleep"} /\ (v4'.pc = "none" => v10'.pc = "none") /\ (v4'.pc = "sleep" => v3'.awaiting)
  BY <1>1
<1>3. Plex!PlayerFollows'
  BY <1>1, <1>2 DEF Plex!PlayerFollows, Plex!Taken
<1>4. Plex!QueueTaken' /\ Plex!LineTells' /\ Plex!EndsMeant'
  BY <1>1, <1>2 DEF Plex!QueueTaken, Plex!LineTells, Plex!EndsMeant, Plex!Active
<1>5. Plex!PlexHealthyKept'
  BY <1>1, <1>2 DEF Plex!PlexHealthyKept
<1> QED
  BY <1>3, <1>4, <1>5 DEF Plex!PlexHealthInv

LEMMA HealthHost ==
  ASSUME Plex!PlexInv, Plex!PlexHealthInv, Plex!Host
  PROVE  Plex!PlexHealthInv'
<1> USE PlexHealthParts, PlexParts
<1>1. CASE Plex!EditsQueue
  <2>1. UNCHANGED <<v1, v3, v4, v8, v10, v11, v12>>
    BY <1>1 DEF Plex!EditsQueue
  <2>2. Plex!PlayerFollows' /\ (Plex!Active' = Plex!Active)
    BY <2>1, FollowsStays DEF Plex!Active
  <2> QED
    BY <2>1, <2>2, HealthStays
<1>2. CASE \E p \in {"pause", "resume", "stop"} : Plex!Presses(p)
  <2>1. /\ UNCHANGED <<v1, v8, v11, v12>>
        /\ \/ UNCHANGED <<v3, v4, v10>>
           \/ /\ v3' = [v3 EXCEPT !.on = FALSE, !.selfStopped = TRUE]
              /\ v4' = [v4 EXCEPT !.pc = "none"] /\ v10' = [pc |-> "none", play |-> 0]
    BY <1>2 DEF Plex!Presses, Plex!NoDog
  <2>2. /\ v3'.gen = v3.gen /\ (v3'.on => v3.on) /\ v3'.awaiting = v3.awaiting /\ v3'.owned = v3.owned
        /\ v3'.token = v3.token
        /\ v4' = v4 \/ v4'.pc = "none"
        /\ v10' = v10 \/ v10'.pc = "none"
    <3>1. CASE UNCHANGED <<v3, v4, v10>>
      BY <3>1
    <3>2. CASE /\ v3' = [v3 EXCEPT !.on = FALSE, !.selfStopped = TRUE]
               /\ v4' = [v4 EXCEPT !.pc = "none"] /\ v10' = [pc |-> "none", play |-> 0]
      BY <3>2
    <3> QED
      BY <2>1, <3>1, <3>2
  <2>3. Plex!PlayerFollows' /\ (Plex!Active' => Plex!Active)
    BY <2>1, <2>2, FollowsStays DEF Plex!Active
  <2> QED
    BY <2>1, <2>2, <2>3, HealthStays
<1>3. CASE Plex!PressDone
  <2>1. UNCHANGED <<v4, v8, v10, v11>>
    BY <1>3 DEF Plex!PressDone
  <2>2. \/ UNCHANGED <<v1, v3, v12>>
        \/ /\ v1' = [v1 EXCEPT !.st = IF @ = "playing" THEN "paused" ELSE @]
           /\ v3' = [v3 EXCEPT !.on = FALSE] /\ v12' = v12
        \/ /\ v1' = [v1 EXCEPT !.st = IF @ = "paused" THEN "playing" ELSE @]
           /\ v3' = [v3 EXCEPT !.on = TRUE]
           /\ v12' = v12 \/ v12' = [v12 EXCEPT !.crossed = @ \cup {v3.gen}]
        \/ v1' = [v1 EXCEPT !.st = "stopped"] /\ v3' = v3 /\ v12' = [v12 EXCEPT !.gone = @ \cup {v1.queue}]
    BY <1>3 DEF Plex!PressDone, Plex!Gone
  <2>3. /\ v3'.gen = v3.gen /\ v3'.awaiting = v3.awaiting /\ v3'.owned = v3.owned /\ v3'.token = v3.token
        /\ v1'.queue = v1.queue /\ v1'.cmd = v1.cmd /\ v1'.up = v1.up /\ DOMAIN v1' = DOMAIN v1
        /\ v12.gone \subseteq v12'.gone /\ v12.crossed \subseteq v12'.crossed /\ v12'.foreign = v12.foreign
        /\ v12'.yielded = v12.yielded
        /\ \/ v1'.st = v1.st /\ v3'.on = v3.on
           \/ v1'.st = (IF v1.st = "playing" THEN "paused" ELSE v1.st) /\ ~v3'.on
           \/ v1'.st = (IF v1.st = "paused" THEN "playing" ELSE v1.st)
           \/ v1'.st = "stopped" /\ v12'.gone = v12.gone \cup {v1.queue}
    <3>1. CASE UNCHANGED <<v1, v3, v12>>
      BY <3>1
    <3>2. CASE /\ v1' = [v1 EXCEPT !.st = IF @ = "playing" THEN "paused" ELSE @]
               /\ v3' = [v3 EXCEPT !.on = FALSE] /\ v12' = v12
      BY <3>2
    <3>3. CASE /\ v1' = [v1 EXCEPT !.st = IF @ = "paused" THEN "playing" ELSE @]
               /\ v3' = [v3 EXCEPT !.on = TRUE]
               /\ v12' = v12 \/ v12' = [v12 EXCEPT !.crossed = @ \cup {v3.gen}]
      BY <3>3
    <3>4. CASE v1' = [v1 EXCEPT !.st = "stopped"] /\ v3' = v3 /\ v12' = [v12 EXCEPT !.gone = @ \cup {v1.queue}]
      BY <3>4
    <3> QED
      BY <2>2, <3>1, <3>2, <3>3, <3>4
  <2>4. Plex!PlayerFollows'
    <3>1. v1'.queue = Plex!Foreign => v12'.foreign
      BY <2>3 DEF Plex!PlayerFollows
    <3>2. ~v1'.up => Plex!Plays \subseteq v12'.gone
      BY <2>3 DEF Plex!PlayerFollows
    <3>3. Plex!Taken' => /\ v1'.queue # v3'.gen => v1'.queue = Plex!Foreign /\ v3'.gen \in v12'.gone
                         /\ v1'.st \in {"stopped", "hung"} => v3'.gen \in v12'.gone
                         /\ v1'.st = "paused" /\ v3'.on => Plex!Lost'
      BY <2>3 DEF Plex!PlayerFollows, Plex!Taken, Plex!Lost
    <3>4. v1'.cmd \in 0 .. v3'.gen /\ v1'.st \in {"stopped", "playing", "paused", "hung"}
      BY <2>3 DEF Plex!PlayerFollows
    <3> QED
      BY <2>3, <3>1, <3>2, <3>3, <3>4 DEF Plex!PlayerFollows
  <2>5. Plex!Active' = Plex!Active
    BY <2>1 DEF Plex!Active
  <2> QED
    BY <2>1, <2>3, <2>4, <2>5, HealthStays
<1> QED
  BY <1>1, <1>2, <1>3 DEF Plex!Host

LEMMA PlexHealthSteps ==
  ASSUME Plex!PlexInv, Plex!PlexHealthInv, Plex!PlexNext
  PROVE  Plex!PlexHealthInv'
BY HealthPlayerLoads, HealthPlayer, HealthArms, HealthReads, HealthPolls, HealthCorrects, HealthPasses,
   HealthReports, HealthStarts, HealthReturns, HealthHost DEF Plex!PlexNext, Plex!Player, Plex!Polls

LEMMA PlexHealthBegins ==
  ASSUME Plex!PlexInit
  PROVE  Plex!PlexHealthInv
<1> USE PlayersNats
<1>1. Plex!PlayerFollows
  BY DEF Plex!PlexInit, Plex!PlayerFollows, Plex!Taken, Plex!Plays, Plex!Foreign
<1>2. Plex!QueueTaken /\ Plex!LineTells /\ Plex!EndsMeant /\ Plex!PlexHealthyKept
  BY DEF Plex!PlexInit, Plex!QueueTaken, Plex!LineTells, Plex!EndsMeant, Plex!PlexHealthyKept, Plex!Active,
         Plex!NoDog
<1> QED
  BY <1>1, <1>2 DEF Plex!PlexHealthInv

-----------------------------------------------------------------------------
(* The AirPlay backend: v1 .. v8 are its senders, of, air, task, tear, ...       *)

LEMMA AirTasks ==
  /\ Air!Host \in Air!Tasks /\ Air!Seek \in Air!Tasks /\ Air!Senders \subseteq Air!Tasks
  /\ Air!Host \notin Air!Senders /\ Air!Seek \notin Air!Senders /\ Air!Host # Air!Seek
  /\ \A s \in Air!Senders : s \in Nat /\ s # 0
  /\ \A t \in Air!Tasks : t \in Air!Senders \/ t = Air!Host \/ t = Air!Seek
  BY PlayersNats DEF Air!Tasks, Air!Host, Air!Seek, Air!Senders

LEMMA AirParts ==
  ASSUME Air!AirInv
  PROVE  /\ Air!RecordsTyped /\ Air!NumbersTyped /\ Air!TearsTyped
         /\ Air!EntersAlone /\ Air!EntersFresh /\ Air!OneWaiter /\ Air!RestartsUnended /\ Air!ExitsGone
         /\ Air!OneRuns /\ Air!AirHealthyKept /\ Air!AirEndsOnce
         /\ v3.cur \in Nat /\ v3.cur \in 0 .. MaxPlays
         /\ v3.cur \in Air!AirPlays \/ v3.cur = 0
<1>1. /\ Air!RecordsTyped /\ Air!NumbersTyped /\ Air!TearsTyped
      /\ Air!EntersAlone /\ Air!EntersFresh /\ Air!OneWaiter /\ Air!RestartsUnended /\ Air!ExitsGone
      /\ Air!OneRuns /\ Air!AirHealthyKept /\ Air!AirEndsOnce
  BY DEF Air!AirInv, Air!AirShape
<1>2. v3.cur \in 0 .. MaxPlays
  BY <1>1 DEF Air!NumbersTyped
<1> QED
  BY <1>1, <1>2, PlayersNats DEF Air!AirPlays

LEMMA TaskGoes ==
  ASSUME Air!RecordsTyped, NEW t \in Air!Tasks, NEW pc, Air!Goes(t, pc)
  PROVE  /\ v4'[t].pc = pc /\ v4'[t].play \in {0, v4[t].play} /\ \A u \in Air!Tasks \ {t} : v4'[u] = v4[u]
         /\ DOMAIN v4' = Air!Tasks /\ \A u \in Air!Tasks : DOMAIN v4'[u] = {"pc", "play", "sender"}
<1> DEFINE new == IF pc \in {"none", "done"} THEN [Air!Idle EXCEPT !.pc = pc] ELSE [v4[t] EXCEPT !.pc = pc]
<1>1. new.pc = pc /\ new.play \in {0, v4[t].play} /\ DOMAIN new = {"pc", "play", "sender"}
  BY DEF Air!Idle, Air!RecordsTyped
<1>2. v4' = [v4 EXCEPT ![t] = new]
  BY DEF Air!Goes
<1> HIDE DEF new
<1> QED
  BY <1>1, <1>2 DEF Air!RecordsTyped

LEMMA TearGoes ==
  ASSUME Air!RecordsTyped, NEW t \in Air!Tasks, Air!Tears(t)
  PROVE  /\ v5'[t].on /\ v5'[t].sender = v3.proc /\ \A u \in Air!Tasks \ {t} : v5'[u] = v5[u]
         /\ DOMAIN v5' = Air!Tasks /\ \A u \in Air!Tasks : DOMAIN v5'[u] = {"on", "sender"}
         /\ DOMAIN v1' = Air!Senders
         /\ \A s \in Air!Senders : v1'[s] = v1[s] \/ (s = v3.proc /\ v1'[s] = "killed")
         /\ \A s \in Air!Senders : v1'[s] = "running" => v1[s] = "running" /\ s # v3.proc
  BY DEF Air!Tears, Air!RecordsTyped

\* A step that tells no end, starts no sender and lets nobody enter.
LEMMA AirKept ==
  ASSUME Air!AirInv, Air!AirShape', Air!ExitsGone', Air!OneRuns',
         v3'.cur = v3.cur, v3'.proc = v3.proc, v2' = v2, v7'.ended = v7.ended,
         v8.gone \subseteq v8'.gone,
         \A n \in Air!AirPlays \cup {v3.cur} : n \in v8.crossed => n \in v8'.crossed,
         \A u \in Air!Tasks : v4'[u].pc \in {"torn", "spawn", "backoff", "wait"} => v4'[u] = v4[u],
         \A u \in Air!Tasks : v5'[u].on => (v5[u].on /\ v5'[u].sender = v5[u].sender) \/ v5'[u].sender = v3.proc,
         v3.cur \notin v8'.crossed =>
           /\ \A u \in Air!Tasks : Air!Busy(u)' => Air!Busy(u) \/ \A x \in Air!Tasks : ~Air!Entering(x)
           /\ \A u \in Air!Senders : Air!Busy(u)' => Air!Busy(u)
           /\ v3'.stopReq = v3.stopReq \/ ~Air!Entering(Air!Seek)
           /\ \/ v3'.mode = v3.mode
              \/ \A u \in Air!Senders : ~Air!Busy(u)
              \/ \A u \in Air!Senders : ~Air!Waits(u)
  PROVE  Air!AirInv'
<1> USE AirParts, AirTasks
<1>1. \A u \in Air!Tasks : Air!Entering(u)' => Air!Entering(u) /\ v4'[u] = v4[u]
  BY DEF Air!Entering
<1>2. \A s \in Air!Senders : Air!Waits(s)' => Air!Waits(s)
  BY DEF Air!Waits
<1>3. Air!Clean' => Air!Clean
  BY DEF Air!Clean
<1>4. Air!EntersAlone'
  BY <1>1, <1>3 DEF Air!EntersAlone, Air!Clean
<1>5. Air!EntersFresh'
  <2> SUFFICES ASSUME Air!Clean' PROVE Air!EntersFresh'
    BY DEF Air!EntersFresh
  <2>1. Air!Clean
    BY <1>3
  <2>2. Air!Entering(Air!Host)' => v7'.ended[v3'.cur] = 0 /\ \A s \in Air!Senders : v2'[s] # v3'.cur
    BY <1>1, <2>1 DEF Air!EntersFresh
  <2>3. Air!Entering(Air!Seek)' => v3'.stopReq /\ (v4'[Air!Seek].play = v3'.cur => v7'.ended[v3'.cur] = 0)
    BY <1>1, <2>1 DEF Air!EntersFresh, Air!Clean
  <2>4. ASSUME NEW t \in Air!Tasks, Air!At(t, "spawn")' \/ (t \in Air!Senders /\ v4'[t].pc \in {"torn", "backoff"})
        PROVE  \A s \in Air!Senders : ~Air!Waits(s)'
    <3>1. Air!At(t, "spawn") \/ (t \in Air!Senders /\ v4[t].pc \in {"torn", "backoff"})
      BY <2>4 DEF Air!At
    <3> QED
      BY <1>2, <2>1, <3>1 DEF Air!EntersFresh
  <2> QED
    BY <2>2, <2>3, <2>4 DEF Air!EntersFresh
<1>6. Air!OneWaiter'
  BY <1>2, <1>3 DEF Air!OneWaiter, Air!Clean
<1>7. Air!RestartsUnended'
  BY <1>3 DEF Air!RestartsUnended, Air!Clean
<1>8. Air!AirHealthyKept' /\ Air!AirEndsOnce'
  BY DEF Air!AirHealthyKept, Air!AirEndsOnce
<1> QED
  BY <1>4, <1>5, <1>6, <1>7, <1>8 DEF Air!AirInv

\* ... and for who runs.
LEMMA RunsKept ==
  ASSUME Air!AirInv, v8'.crossed = {} => v8.crossed = {}, v3'.proc = v3.proc,
         \A s \in Air!Senders : v1'[s] = "running" => v1[s] = "running",
         \A u \in Air!Tasks : v5'[u].on => v5[u].on \/ \A s \in Air!Senders : v1[s] = "running" => v1'[s] # "running" \/ s # v3.proc,
         \A u \in Air!Tasks : v4'[u].pc = "spawn" => v4[u].pc = "spawn",
         v8'.crossed = {} /\ v3'.playing =>
           \/ v3.playing /\ v3'.writer = v3.writer
           \/ v3'.writer = v3'.proc /\ \A u \in Air!Tasks : v4[u].pc # "spawn"
  PROVE  Air!OneRuns'
BY AirParts DEF Air!OneRuns, Air!At

LEMMA ShapeKept ==
  ASSUME Air!AirInv, Air!RecordsTyped', Air!TearsTyped',
         v3'.cur = v3.cur, v3'.spawned = v3.spawned, v3'.url \in {0, v3.url}, v2' = v2, v7'.ended = v7.ended,
         \A u \in Air!Tasks : v4'[u].play \in {0, v4[u].play},
         \A s \in Air!Senders : v4[s].pc = "none" => v4'[s].pc = "none"
  PROVE  Air!AirShape'
<1>1. \A u \in Air!Tasks : v4'[u].play \in 0 .. v3.cur
  BY AirParts DEF Air!NumbersTyped
<1>2. v3'.url \in 0 .. v3.cur
  BY AirParts DEF Air!NumbersTyped
<1>3. \A s \in Air!Senders : v2[s] \in 0 .. v3.cur /\ (s > v3.spawned => v4'[s].pc = "none")
  BY AirParts DEF Air!NumbersTyped
<1>4. Air!NumbersTyped'
  BY <1>1, <1>2, <1>3, AirParts DEF Air!NumbersTyped
<1> QED
  BY <1>4 DEF Air!AirShape

\* A sender exits, a start is confirmed.
LEMMA ExitsKeep ==
  ASSUME Air!AirInv, Air!Confirms \/ \E s \in Air!Senders : Air!SenderExits(s)
  PROVE  Air!AirInv'
<1> USE AirParts, AirTasks
<1>1. /\ UNCHANGED <<v2, v3, v4, v5>> /\ v7'.ended = v7.ended /\ DOMAIN v7' = DOMAIN v7
      /\ v8.gone \subseteq v8'.gone /\ v8'.crossed = v8.crossed /\ DOMAIN v8' = DOMAIN v8 /\ DOMAIN v1' = DOMAIN v1
  BY DEF Air!Confirms, Air!SenderExits, Air!RecordsTyped
<1>2. /\ \A x \in Air!Senders : v1'[x] = "running" => v1[x] = "running"
      /\ \A x \in Air!Senders : v1'[x] \in {"ended", "crashed"} => v2[x] \in v8'.gone
  BY DEF Air!Confirms, Air!SenderExits, Air!RecordsTyped, Air!ExitsGone
<1>3. Air!RecordsTyped' /\ Air!TearsTyped'
  BY <1>1 DEF Air!RecordsTyped, Air!TearsTyped
<1>4. Air!AirShape'
  BY <1>1, <1>3, ShapeKept
<1>5. Air!ExitsGone'
  BY <1>1, <1>2 DEF Air!ExitsGone
<1>6. Air!OneRuns'
  BY <1>1, <1>2, RunsKept
<1>7. \A n \in Air!AirPlays \cup {v3.cur} : n \in v8.crossed => n \in v8'.crossed
  BY <1>1
<1>8. /\ \A u \in Air!Tasks : v4'[u].pc \in {"torn", "spawn", "backoff", "wait"} => v4'[u] = v4[u]
      /\ \A u \in Air!Tasks : v5'[u].on => v5[u].on /\ v5'[u].sender = v5[u].sender
      /\ \A u \in Air!Tasks : Air!Busy(u)' => Air!Busy(u)
      /\ v3'.cur = v3.cur /\ v3'.proc = v3.proc /\ v2' = v2 /\ v3'.stopReq = v3.stopReq /\ v3'.mode = v3.mode
  BY <1>1 DEF Air!Busy
<1> QED
  BY <1>1, <1>4, <1>5, <1>6, <1>7, <1>8, AirKept

\* A start goes on past its spawn, or fails.
LEMMA PipesKeep ==
  ASSUME Air!AirInv, NEW t \in Air!Tasks,
         Air!PipeOpens(t) \/ Air!PipeTimesOut(t) \/ Air!Raises(t) \/ (t \in Air!Senders /\ Air!RestartFails(t))
  PROVE  Air!AirInv'
<1> USE AirParts, AirTasks
<1>1. /\ UNCHANGED <<v1, v2, v5>> /\ v7'.ended = v7.ended /\ DOMAIN v7' = DOMAIN v7
      /\ v8.gone \subseteq v8'.gone /\ v8'.crossed = v8.crossed /\ DOMAIN v8' = DOMAIN v8
      /\ v3'.cur = v3.cur /\ v3'.spawned = v3.spawned /\ v3'.url = v3.url /\ v3'.proc = v3.proc
      /\ v3'.mode = v3.mode /\ DOMAIN v3' = DOMAIN v3
  <2>1. CASE Air!PipeOpens(t)
    BY <2>1 DEF Air!PipeOpens, Air!RecordsTyped
  <2>2. CASE Air!PipeTimesOut(t)
    BY <2>2 DEF Air!PipeTimesOut
  <2>3. CASE Air!Raises(t)
    BY <2>3 DEF Air!Raises, Air!RecordsTyped
  <2>4. CASE t \in Air!Senders /\ Air!RestartFails(t)
    BY <2>4 DEF Air!RestartFails, Air!RecordsTyped
  <2> QED
    BY <2>1, <2>2, <2>3, <2>4
<1>2. /\ v4[t].pc \in {"pipe", "raised", "failed"}
      /\ \E pc \in {"none", "done", "raised", "restart"} : Air!Goes(t, pc)
      /\ \/ v3'.stopReq = v3.stopReq /\ v3'.playing = v3.playing /\ v3'.writer = v3.writer
         \/ v3'.writer = v3.proc /\ v4[t].pc = "pipe"
  <2>1. CASE Air!PipeOpens(t)
    BY <2>1 DEF Air!PipeOpens, Air!RecordsTyped, Air!At
  <2>2. CASE Air!PipeTimesOut(t)
    BY <2>2 DEF Air!PipeTimesOut, Air!At
  <2>3. CASE Air!Raises(t)
    BY <2>3 DEF Air!Raises, Air!At
  <2>4. CASE t \in Air!Senders /\ Air!RestartFails(t)
    BY <2>4 DEF Air!RestartFails, Air!RecordsTyped, Air!At
  <2> QED
    BY <2>1, <2>2, <2>3, <2>4
<1>3. /\ v4'[t].pc \in {"none", "done", "raised", "restart"} /\ v4'[t].play \in {0, v4[t].play}
      /\ \A u \in Air!Tasks \ {t} : v4'[u] = v4[u]
      /\ DOMAIN v4' = Air!Tasks /\ \A u \in Air!Tasks : DOMAIN v4'[u] = {"pc", "play", "sender"}
  BY <1>2, TaskGoes
<1>4. Air!Busy(t) /\ v3.cur # 0 /\ ~v5[t].on
  BY <1>2 DEF Air!Busy, Air!TearsTyped
<1>5. Air!RecordsTyped' /\ Air!TearsTyped'
  BY <1>1, <1>3, <1>4 DEF Air!RecordsTyped, Air!TearsTyped
<1>6. Air!AirShape'
  BY <1>1, <1>2, <1>3, <1>5, ShapeKept
<1>7. Air!ExitsGone'
  BY <1>1 DEF Air!ExitsGone
<1>8. v3.cur \notin v8.crossed => \A x \in Air!Tasks : Air!Entering(x) => x = t
  BY <1>4 DEF Air!EntersAlone, Air!Clean
<1>9. ~Air!Entering(t)
  BY <1>2 DEF Air!Entering
<1>10. Air!OneRuns'
  <2>1. v8.crossed = {} => \A u \in Air!Tasks : v4[u].pc # "spawn"
    BY <1>8, <1>9 DEF Air!Entering
  <2>2. \A u \in Air!Tasks : v4'[u].pc = "spawn" => v4[u].pc = "spawn"
    BY <1>3
  <2>3. v8'.crossed = {} /\ v3'.playing =>
          \/ v3.playing /\ v3'.writer = v3.writer
          \/ v3'.writer = v3'.proc /\ \A u \in Air!Tasks : v4[u].pc # "spawn"
    BY <1>1, <1>2, <2>1
  <2> QED
    BY <1>1, <2>2, <2>3, RunsKept
<1>11. \A u \in Air!Tasks : v4'[u].pc \in {"torn", "spawn", "backoff", "wait"} => v4'[u] = v4[u]
  BY <1>3
<1>12. v3.cur \notin v8'.crossed =>
         /\ \A u \in Air!Tasks : Air!Busy(u)' => Air!Busy(u)
         /\ v3'.stopReq = v3.stopReq \/ ~Air!Entering(Air!Seek)
  BY <1>1, <1>2, <1>3, <1>4, <1>8, <1>9 DEF Air!Busy
<1>13. \A n \in Air!AirPlays \cup {v3.cur} : n \in v8.crossed => n \in v8'.crossed
  BY <1>1
<1>14. \A u \in Air!Tasks : v5'[u].on => v5[u].on /\ v5'[u].sender = v5[u].sender
  BY <1>1
<1>15. \A u \in Air!Senders : Air!Busy(u)' => Air!Busy(u)
  BY <1>3, <1>4 DEF Air!Busy
<1> QED
  BY <1>1, <1>6, <1>7, <1>10, <1>11, <1>12, <1>13, <1>14, <1>15, AirKept

\* The restart loop looks at the mode and tears down; so does a stop.
LEMMA RestartsKeep ==
  ASSUME Air!AirInv, NEW s \in Air!Senders, Air!Restarts(s)
  PROVE  Air!AirInv'
<1> USE AirParts, AirTasks
<1>1. /\ UNCHANGED <<v2, v6, v7, v8>> /\ v4[s].pc = "restart"
      /\ v3'.cur = v3.cur /\ v3'.spawned = v3.spawned /\ v3'.url = v3.url /\ v3'.proc = v3.proc
      /\ v3'.mode = v3.mode /\ DOMAIN v3' = DOMAIN v3 /\ v3'.stopReq = v3.stopReq /\ v3'.playing = v3.playing
      /\ v3'.writer = v3.writer
  BY DEF Air!Restarts, Air!RecordsTyped, Air!At
<1>2. \/ Air!Goes(s, "done") /\ UNCHANGED <<v5, v1>>
      \/ Air!Tears(s) /\ \E pc \in {"restarting", "offline"} : Air!Goes(s, pc)
  BY DEF Air!Restarts
<1>3. /\ v4'[s].pc \in {"done", "restarting", "offline"} /\ v4'[s].play \in {0, v4[s].play}
      /\ \A u \in Air!Tasks \ {s} : v4'[u] = v4[u]
      /\ DOMAIN v4' = Air!Tasks /\ \A u \in Air!Tasks : DOMAIN v4'[u] = {"pc", "play", "sender"}
  BY <1>2, TaskGoes
<1>4. /\ DOMAIN v5' = Air!Tasks /\ \A u \in Air!Tasks : DOMAIN v5'[u] = {"on", "sender"}
      /\ DOMAIN v1' = Air!Senders
      /\ \A u \in Air!Tasks \ {s} : v5'[u] = v5[u]
      /\ v5'[s].on => v5'[s].sender = v3.proc /\ v4'[s].pc \in {"restarting", "offline"}
      /\ \A x \in Air!Senders : v1'[x] = v1[x] \/ v1'[x] = "killed"
      /\ v5'[s].on => \A x \in Air!Senders : v1'[x] = "running" => x # v3.proc
  <2>1. CASE Air!Goes(s, "done") /\ UNCHANGED <<v5, v1>>
    <3>1. ~v5[s].on
      BY <1>1 DEF Air!TearsTyped
    <3> QED
      BY <2>1, <3>1 DEF Air!RecordsTyped
  <2>2. CASE Air!Tears(s) /\ \E pc \in {"restarting", "offline"} : Air!Goes(s, pc)
    <3>1. v4'[s].pc \in {"restarting", "offline"}
      BY <2>2, TaskGoes
    <3> QED
      BY <2>2, <3>1, TearGoes
  <2> QED
    BY <1>2, <2>1, <2>2
<1>5. Air!Busy(s) /\ v3.cur # 0 /\ ~v5[s].on
  BY <1>1 DEF Air!Busy, Air!TearsTyped
<1>6. Air!RecordsTyped' /\ Air!TearsTyped'
  BY <1>1, <1>3, <1>4, <1>5 DEF Air!RecordsTyped, Air!TearsTyped
<1>7. Air!AirShape'
  BY <1>1, <1>3, <1>6, ShapeKept
<1>8. Air!ExitsGone'
  BY <1>1, <1>4 DEF Air!ExitsGone
<1>9. Air!OneRuns'
  BY <1>1, <1>3, <1>4, RunsKept
<1>10. \A u \in Air!Tasks : v4'[u].pc \in {"torn", "spawn", "backoff", "wait"} => v4'[u] = v4[u]
  BY <1>3
<1>11. \A u \in Air!Tasks : Air!Busy(u)' => Air!Busy(u)
  BY <1>3, <1>5 DEF Air!Busy
<1>12. \A u \in Air!Tasks : v5'[u].on => (v5[u].on /\ v5'[u].sender = v5[u].sender) \/ v5'[u].sender = v3.proc
  BY <1>4
<1>13. \A n \in Air!AirPlays \cup {v3.cur} : n \in v8.crossed => n \in v8'.crossed
  BY <1>1
<1> QED
  BY <1>1, <1>7, <1>8, <1>9, <1>10, <1>11, <1>12, <1>13, AirKept

LEMMA StopsKeep ==
  ASSUME Air!AirInv, Air!Stops
  PROVE  Air!AirInv'
<1> USE AirParts, AirTasks
<1>1. /\ UNCHANGED <<v2, v6, v7>> /\ v4[Air!Host].pc = "none" /\ v3.cur > 0
      /\ v3'.cur = v3.cur /\ v3'.spawned = v3.spawned /\ v3'.url = 0 /\ v3'.proc = v3.proc
      /\ DOMAIN v3' = DOMAIN v3 /\ v3'.playing = v3.playing /\ v3'.writer = v3.writer
      /\ DOMAIN v8' = DOMAIN v8 /\ v8'.gone = v8.gone
      /\ v8'.crossed = IF Air!Overlaps(Air!Host) THEN Air!AirPlays ELSE v8.crossed
  BY DEF Air!Stops, Air!RecordsTyped, Air!At
<1>2. Air!Tears(Air!Host) /\ Air!Goes(Air!Host, "stopping")
  BY DEF Air!Stops
<1>3. /\ v4'[Air!Host].pc = "stopping" /\ v4'[Air!Host].play \in {0, v4[Air!Host].play}
      /\ \A u \in Air!Tasks \ {Air!Host} : v4'[u] = v4[u]
      /\ DOMAIN v4' = Air!Tasks /\ \A u \in Air!Tasks : DOMAIN v4'[u] = {"pc", "play", "sender"}
  BY <1>2, TaskGoes
<1>4. /\ DOMAIN v5' = Air!Tasks /\ \A u \in Air!Tasks : DOMAIN v5'[u] = {"on", "sender"}
      /\ DOMAIN v1' = Air!Senders
      /\ \A u \in Air!Tasks \ {Air!Host} : v5'[u] = v5[u]
      /\ v5'[Air!Host].sender = v3.proc
      /\ \A x \in Air!Senders : v1'[x] = v1[x] \/ v1'[x] = "killed"
      /\ \A x \in Air!Senders : v1'[x] = "running" => x # v3.proc
  BY <1>2, TearGoes
<1>5. Air!RecordsTyped' /\ Air!TearsTyped'
  BY <1>1, <1>3, <1>4 DEF Air!RecordsTyped, Air!TearsTyped
<1>6. Air!AirShape'
  BY <1>1, <1>3, <1>5, ShapeKept
<1>7. Air!ExitsGone'
  BY <1>1, <1>4 DEF Air!ExitsGone
<1>8. \A n \in Air!AirPlays \cup {v3.cur} : n \in v8.crossed => n \in v8'.crossed
  BY <1>1
<1>9. v3.cur \notin v8'.crossed => v8'.crossed = v8.crossed /\ \A u \in Air!Tasks \ {Air!Host} : ~Air!Busy(u)
  BY <1>1 DEF Air!Overlaps, Air!Busy
<1>10. Air!AirPlays # {} /\ (v8'.crossed = {} => v8.crossed = {})
  BY <1>1
<1>11. Air!OneRuns'
  BY <1>1, <1>3, <1>4, <1>10, RunsKept
<1>12. \A u \in Air!Tasks : v4'[u].pc \in {"torn", "spawn", "backoff", "wait"} => v4'[u] = v4[u]
  BY <1>3
<1>13. \A u \in Air!Tasks : v5'[u].on => (v5[u].on /\ v5'[u].sender = v5[u].sender) \/ v5'[u].sender = v3.proc
  BY <1>4
<1>14. v3.cur \notin v8'.crossed =>
         /\ \A u \in Air!Tasks : Air!Busy(u)' => Air!Busy(u) \/ \A x \in Air!Tasks : ~Air!Entering(x)
         /\ \A u \in Air!Senders : Air!Busy(u)' => Air!Busy(u)
         /\ ~Air!Entering(Air!Seek) /\ \A u \in Air!Senders : ~Air!Busy(u)
  BY <1>1, <1>3, <1>9 DEF Air!Busy, Air!Entering
<1> QED
  BY <1>1, <1>6, <1>7, <1>8, <1>9, <1>11, <1>12, <1>13, <1>14, AirKept

\* What a play, a seek or a restart does on its way to a new sender.
LEMMA EntersDoes ==
  ASSUME Air!RecordsTyped, Air!TearsTyped, NEW t \in Air!Tasks, NEW n \in Nat, Air!Enters(t, n),
         v4[t].pc \in {"none", "backoff"}
  PROVE  /\ v4'[t].pc \in {"torn", "spawn"} /\ v4'[t].play = n
         /\ \A u \in Air!Tasks \ {t} : v4'[u] = v4[u]
         /\ DOMAIN v4' = Air!Tasks /\ \A u \in Air!Tasks : DOMAIN v4'[u] = {"pc", "play", "sender"}
         /\ v4'[t].pc = "spawn" => ~v3.playing /\ v3.proc = 0 /\ ~v5'[t].on
         /\ v5'[t].on => v5'[t].sender = v3.proc
         /\ \A u \in Air!Tasks \ {t} : v5'[u] = v5[u]
         /\ DOMAIN v5' = Air!Tasks /\ \A u \in Air!Tasks : DOMAIN v5'[u] = {"on", "sender"}
         /\ DOMAIN v1' = Air!Senders
         /\ \A s \in Air!Senders : v1'[s] = v1[s] \/ v1'[s] = "killed"
         /\ \A s \in Air!Senders : v1'[s] = "running" => v1[s] = "running" /\ s # v3.proc
         /\ DOMAIN v8' = DOMAIN v8 /\ v8'.gone = v8.gone
         /\ (v8'.crossed = Air!AirPlays \/ (v8'.crossed = v8.crossed /\ ~Air!Overlaps(t)))
         /\ (t = Air!Seek /\ v7.ended[n] > 0) => v8'.crossed = Air!AirPlays
<1>1. ~v5[t].on
  BY DEF Air!TearsTyped
<1>2. /\ DOMAIN v8' = DOMAIN v8 /\ v8'.gone = v8.gone
      /\ (v8'.crossed = Air!AirPlays \/ (v8'.crossed = v8.crossed /\ ~Air!Overlaps(t)))
      /\ (t = Air!Seek /\ v7.ended[n] > 0) => v8'.crossed = Air!AirPlays
  <2>1. v8' = [v8 EXCEPT !.crossed = IF Air!Overlaps(t) \/ (t = Air!Seek /\ v7.ended[n] > 0) THEN Air!AirPlays ELSE @,
                         !.stopped = @ /\ t # Air!Host]
    BY DEF Air!Enters
  <2> QED
    BY <2>1 DEF Air!RecordsTyped
<1>3. CASE v3.playing \/ v3.proc # 0
  <2>1. v4' = [v4 EXCEPT ![t] = [Air!Idle EXCEPT !.pc = "torn", !.play = n]] /\ Air!Tears(t)
    BY <1>3 DEF Air!Enters
  <2>2. /\ v4'[t].pc = "torn" /\ v4'[t].play = n
        /\ \A u \in Air!Tasks \ {t} : v4'[u] = v4[u]
        /\ DOMAIN v4' = Air!Tasks /\ \A u \in Air!Tasks : DOMAIN v4'[u] = {"pc", "play", "sender"}
    BY <2>1 DEF Air!RecordsTyped, Air!Idle
  <2> QED
    BY <1>2, <2>1, <2>2, TearGoes
<1>4. CASE ~(v3.playing \/ v3.proc # 0)
  <2>1. v4' = [v4 EXCEPT ![t] = [Air!Idle EXCEPT !.pc = "spawn", !.play = n]] /\ v5' = v5 /\ v1' = v1
    BY <1>4 DEF Air!Enters
  <2>2. /\ v4'[t].pc = "spawn" /\ v4'[t].play = n
        /\ \A u \in Air!Tasks \ {t} : v4'[u] = v4[u]
        /\ DOMAIN v4' = Air!Tasks /\ \A u \in Air!Tasks : DOMAIN v4'[u] = {"pc", "play", "sender"}
    BY <2>1 DEF Air!RecordsTyped, Air!Idle
  <2>3. \A s \in Air!Senders : s # v3.proc
    BY <1>4, AirTasks
  <2> QED
    BY <1>1, <1>2, <1>4, <2>1, <2>2, <2>3 DEF Air!RecordsTyped
<1> QED
  BY <1>3, <1>4

\* Whoever enters leaves no sender running.
LEMMA EntersRuns ==
  ASSUME Air!AirInv, NEW t \in Air!Tasks, NEW n \in Nat, Air!Enters(t, n), v3.cur + 1 \in Air!AirPlays \/ v3.cur # 0,
         v4[t].pc \in {"none", "backoff"}, UNCHANGED v2,
         v3'.proc = v3.proc, v3'.playing = v3.playing, v3'.writer = v3.writer
  PROVE  Air!OneRuns' /\ Air!ExitsGone'
<1> USE AirParts, AirTasks
<1>1. Air!AirPlays # {}
  OBVIOUS
<1>2. Air!ExitsGone'
  BY EntersDoes DEF Air!ExitsGone
<1>3. SUFFICES ASSUME v8'.crossed = {} PROVE Air!OneRuns'
  BY <1>2 DEF Air!OneRuns
<1>4. v8.crossed = {} /\ ~Air!Overlaps(t)
  BY <1>1, <1>3, EntersDoes
<1>5. \A s \in Air!Senders : v1'[s] # "running"
  BY <1>4, EntersDoes DEF Air!OneRuns
<1>6. \A u \in Air!Tasks : Air!At(u, "spawn")' => ~v3'.playing
  BY <1>4, EntersDoes DEF Air!OneRuns, Air!At
<1> QED
  BY <1>4, <1>5, <1>6 DEF Air!OneRuns

LEMMA RestartPlaysKeep ==
  ASSUME Air!AirInv, NEW s \in Air!Senders, Air!RestartPlays(s)
  PROVE  Air!AirInv'
<1> USE AirParts, AirTasks
<1> DEFINE n == v4[s].play
<1>1. v4[s].pc = "backoff" /\ Air!Enters(s, n) /\ UNCHANGED <<v2, v3, v6, v7>>
  BY DEF Air!RestartPlays, Air!At
<1>2. n \in 0 .. v3.cur /\ n \in Nat /\ v3.cur # 0 /\ v3.cur \in Air!AirPlays
  BY <1>1 DEF Air!NumbersTyped, Air!TearsTyped
<1> HIDE DEF n
<1>3. /\ v4'[s].pc \in {"torn", "spawn"} /\ v4'[s].play = n
      /\ \A u \in Air!Tasks \ {s} : v4'[u] = v4[u]
      /\ DOMAIN v4' = Air!Tasks /\ \A u \in Air!Tasks : DOMAIN v4'[u] = {"pc", "play", "sender"}
      /\ v4'[s].pc = "spawn" => ~v5'[s].on
      /\ \A u \in Air!Tasks \ {s} : v5'[u] = v5[u]
      /\ DOMAIN v5' = Air!Tasks /\ \A u \in Air!Tasks : DOMAIN v5'[u] = {"on", "sender"}
      /\ DOMAIN v1' = Air!Senders
      /\ DOMAIN v8' = DOMAIN v8 /\ v8'.gone = v8.gone
      /\ (v8'.crossed = Air!AirPlays \/ (v8'.crossed = v8.crossed /\ ~Air!Overlaps(s)))
  BY <1>1, <1>2, EntersDoes
<1>4. Air!OneRuns' /\ Air!ExitsGone'
  BY <1>1, <1>2, EntersRuns
<1>5. Air!RecordsTyped' /\ Air!TearsTyped'
  BY <1>1, <1>2, <1>3 DEF Air!RecordsTyped, Air!TearsTyped
<1>6. Air!NumbersTyped'
  BY <1>1, <1>2, <1>3 DEF Air!NumbersTyped
<1>7. Air!Clean' => Air!Clean /\ v8'.crossed = v8.crossed /\ \A u \in Air!Tasks \ {s} : ~Air!Busy(u)
  BY <1>1, <1>2, <1>3 DEF Air!Clean, Air!Overlaps, Air!Busy
<1>8. Air!Clean' => /\ \A u \in Air!Tasks \ {s} : ~Air!Busy(u)' /\ ~Air!Entering(u)' /\ v4'[u].pc # "backoff"
                    /\ \A x \in Air!Senders : ~Air!Waits(x)' /\ v7'.ended[v3'.cur] = 0
  <2> SUFFICES ASSUME Air!Clean'
               PROVE  /\ \A u \in Air!Tasks \ {s} : ~Air!Busy(u)' /\ ~Air!Entering(u)' /\ v4'[u].pc # "backoff"
                      /\ \A x \in Air!Senders : ~Air!Waits(x)' /\ v7'.ended[v3'.cur] = 0
    OBVIOUS
  <2>1. \A x \in Air!Senders : ~Air!Waits(x)
    BY <1>1, <1>7 DEF Air!EntersFresh
  <2>2. v7.ended[v3.cur] = 0
    BY <1>1, <1>7 DEF Air!RestartsUnended, Air!Busy
  <2>3. \A x \in Air!Senders : ~Air!Waits(x)'
    BY <1>1, <1>3, <2>1 DEF Air!Waits
  <2>4. \A u \in Air!Tasks \ {s} : ~Air!Busy(u)' /\ ~Air!Entering(u)' /\ v4'[u].pc # "backoff"
    BY <1>3, <1>7 DEF Air!Busy, Air!Entering
  <2> QED
    BY <1>1, <2>2, <2>3, <2>4
<1>9. Air!EntersAlone'
  BY <1>8 DEF Air!EntersAlone
<1>10. Air!EntersFresh'
  BY <1>8 DEF Air!EntersFresh
<1>11. Air!OneWaiter' /\ Air!RestartsUnended'
  BY <1>8 DEF Air!OneWaiter, Air!RestartsUnended
<1>12. Air!AirHealthyKept' /\ Air!AirEndsOnce'
  BY <1>1, <1>3 DEF Air!AirHealthyKept, Air!AirEndsOnce
<1> QED
  BY <1>4, <1>5, <1>6, <1>9, <1>10, <1>11, <1>12 DEF Air!AirInv, Air!AirShape

LEMMA SeeksKeep ==
  ASSUME Air!AirInv, Air!Seeks
  PROVE  Air!AirInv'
<1> USE AirParts, AirTasks
<1> DEFINE s == Air!Seek
<1> DEFINE n == v3.url
<1>1. /\ v4[s].pc = "none" /\ Air!Enters(s, n) /\ UNCHANGED <<v2, v6, v7>> /\ n # 0
      /\ v3'.cur = v3.cur /\ v3'.spawned = v3.spawned /\ v3'.url = v3.url /\ v3'.proc = v3.proc
      /\ v3'.mode = v3.mode /\ DOMAIN v3' = DOMAIN v3 /\ v3'.stopReq /\ v3'.playing = v3.playing
      /\ v3'.writer = v3.writer
  BY DEF Air!Seeks, Air!At, Air!RecordsTyped
<1>2. n \in 1 .. v3.cur /\ n \in Nat /\ v3.cur # 0 /\ v3.cur \in Air!AirPlays /\ n \in Air!AirPlays
  <2>1. n \in 0 .. v3.cur /\ v3.cur \in 0 .. MaxPlays
    BY DEF Air!NumbersTyped
  <2> QED
    BY <1>1, <2>1, PlayersNats DEF Air!AirPlays
<1> HIDE DEF n
<1>3. /\ v4'[s].pc \in {"torn", "spawn"} /\ v4'[s].play = n
      /\ \A u \in Air!Tasks \ {s} : v4'[u] = v4[u]
      /\ DOMAIN v4' = Air!Tasks /\ \A u \in Air!Tasks : DOMAIN v4'[u] = {"pc", "play", "sender"}
      /\ v4'[s].pc = "spawn" => ~v5'[s].on /\ v3.proc = 0
      /\ v5'[s].on => v5'[s].sender = v3.proc
      /\ \A u \in Air!Tasks \ {s} : v5'[u] = v5[u]
      /\ DOMAIN v5' = Air!Tasks /\ \A u \in Air!Tasks : DOMAIN v5'[u] = {"on", "sender"}
      /\ DOMAIN v1' = Air!Senders
      /\ DOMAIN v8' = DOMAIN v8 /\ v8'.gone = v8.gone
      /\ (v8'.crossed = Air!AirPlays \/ (v8'.crossed = v8.crossed /\ ~Air!Overlaps(s)))
      /\ v7.ended[n] > 0 => v8'.crossed = Air!AirPlays
  BY <1>1, <1>2, EntersDoes
<1>4. Air!OneRuns' /\ Air!ExitsGone'
  BY <1>1, <1>2, EntersRuns
<1>5. Air!RecordsTyped' /\ Air!TearsTyped'
  BY <1>1, <1>2, <1>3 DEF Air!RecordsTyped, Air!TearsTyped
<1>6. Air!NumbersTyped'
  BY <1>1, <1>2, <1>3 DEF Air!NumbersTyped
<1>7. Air!Clean' => /\ Air!Clean /\ v8'.crossed = v8.crossed /\ \A u \in Air!Tasks \ {s} : ~Air!Busy(u)
                    /\ v7.ended[n] = 0
  <2>1. v7.ended[n] \in Nat
    BY <1>2 DEF Air!NumbersTyped
  <2> QED
    BY <1>1, <1>2, <1>3, <2>1 DEF Air!Clean, Air!Overlaps, Air!Busy
<1>8. Air!Clean' => \A u \in Air!Tasks \ {s} : ~Air!Busy(u)' /\ ~Air!Entering(u)' /\ v4'[u].pc # "backoff"
  BY <1>3, <1>7 DEF Air!Busy, Air!Entering
<1>9. \A x \in Air!Senders : Air!Waits(x)' => Air!Waits(x)
  BY <1>1, <1>3 DEF Air!Waits
<1>10. Air!EntersAlone'
  BY <1>8 DEF Air!EntersAlone
<1>11. Air!EntersFresh'
  <2> SUFFICES ASSUME Air!Clean' PROVE Air!EntersFresh'
    BY DEF Air!EntersFresh
  <2>1. ~Air!Entering(Air!Host)'
    BY <1>8
  <2>2. v3'.stopReq /\ (v4'[Air!Seek].play = v3'.cur => v7'.ended[v3'.cur] = 0)
    BY <1>1, <1>3, <1>7
  <2>3. ASSUME NEW t \in Air!Tasks, Air!At(t, "spawn")' \/ (t \in Air!Senders /\ v4'[t].pc \in {"torn", "backoff"})
        PROVE  \A x \in Air!Senders : ~Air!Waits(x)'
    <3>1. t = s /\ v4'[s].pc = "spawn"
      BY <1>8, <2>3 DEF Air!At, Air!Entering
    <3>2. v3.proc = 0
      BY <1>3, <3>1
    <3> QED
      BY <1>7, <1>9, <3>2 DEF Air!OneWaiter
  <2> QED
    BY <2>1, <2>2, <2>3 DEF Air!EntersFresh
<1>12. Air!OneWaiter'
  <2> SUFFICES ASSUME Air!Clean', NEW x \in Air!Senders, Air!Waits(x)'
               PROVE  /\ x = v3'.proc /\ v7'.ended[v3'.cur] = 0
                      /\ \A t \in Air!Tasks : v5'[t].on => v5'[t].sender = x
                      /\ \A u \in Air!Senders : Air!Busy(u)' => v3'.mode = "radio"
    BY DEF Air!OneWaiter
  <2>1. /\ x = v3.proc /\ v7.ended[v3.cur] = 0
        /\ \A t \in Air!Tasks : v5[t].on => v5[t].sender = x
    BY <1>7, <1>9 DEF Air!OneWaiter
  <2>2. \A u \in Air!Senders : ~Air!Busy(u)'
    BY <1>8
  <2> QED
    BY <1>1, <1>3, <2>1, <2>2
<1>13. Air!RestartsUnended'
  BY <1>8 DEF Air!RestartsUnended
<1>14. Air!AirHealthyKept' /\ Air!AirEndsOnce'
  BY <1>1, <1>3 DEF Air!AirHealthyKept, Air!AirEndsOnce
<1> QED
  BY <1>4, <1>5, <1>6, <1>10, <1>11, <1>12, <1>13, <1>14 DEF Air!AirInv, Air!AirShape

LEMMA PlaysKeep ==
  ASSUME Air!AirInv, NEW mode, Air!PlayStarts(mode)
  PROVE  Air!AirInv'
<1> USE AirParts, AirTasks
<1> DEFINE s == Air!Host
<1> DEFINE n == v3.cur + 1
<1>1. /\ v4[s].pc = "none" /\ Air!Enters(s, n) /\ UNCHANGED <<v2, v6, v7>> /\ v3.cur < MaxPlays
      /\ v3'.cur = n /\ v3'.spawned = v3.spawned /\ v3'.url = v3.url /\ v3'.proc = v3.proc
      /\ v3'.mode = v3.mode /\ DOMAIN v3' = DOMAIN v3 /\ v3'.playing = v3.playing
      /\ v3'.writer = v3.writer
  BY DEF Air!PlayStarts, Air!At, Air!RecordsTyped
<1>2. n \in Nat /\ n # 0 /\ n \in Air!AirPlays /\ n > v3.cur /\ n = v3.cur + 1
  BY <1>1, PlayersNats DEF Air!AirPlays
<1> HIDE DEF n
<1>3. /\ v4'[s].pc \in {"torn", "spawn"} /\ v4'[s].play = n
      /\ \A u \in Air!Tasks \ {s} : v4'[u] = v4[u]
      /\ DOMAIN v4' = Air!Tasks /\ \A u \in Air!Tasks : DOMAIN v4'[u] = {"pc", "play", "sender"}
      /\ v4'[s].pc = "spawn" => ~v5'[s].on
      /\ \A u \in Air!Tasks \ {s} : v5'[u] = v5[u]
      /\ DOMAIN v5' = Air!Tasks /\ \A u \in Air!Tasks : DOMAIN v5'[u] = {"on", "sender"}
      /\ DOMAIN v1' = Air!Senders
      /\ DOMAIN v8' = DOMAIN v8 /\ v8'.gone = v8.gone
      /\ (v8'.crossed = Air!AirPlays \/ (v8'.crossed = v8.crossed /\ ~Air!Overlaps(s)))
  BY <1>1, <1>2, EntersDoes
<1>4. Air!OneRuns' /\ Air!ExitsGone'
  BY <1>1, <1>2, EntersRuns
<1>5. Air!RecordsTyped' /\ Air!TearsTyped'
  BY <1>1, <1>2, <1>3 DEF Air!RecordsTyped, Air!TearsTyped
<1>6. Air!NumbersTyped'
  BY <1>1, <1>2, <1>3 DEF Air!NumbersTyped, Air!AirPlays
<1>7. Air!Clean' => \A u \in Air!Tasks \ {s} : ~Air!Busy(u)
  BY <1>1, <1>2, <1>3 DEF Air!Clean, Air!Overlaps, Air!Busy
<1>8. Air!Clean' => \A u \in Air!Tasks \ {s} : ~Air!Busy(u)' /\ ~Air!Entering(u)' /\ v4'[u].pc # "backoff"
  BY <1>3, <1>7 DEF Air!Busy, Air!Entering
<1>9. \A x \in Air!Senders : v2'[x] # v3'.cur
  BY <1>1, <1>2 DEF Air!NumbersTyped
<1>10. v7'.ended[v3'.cur] = 0
  BY <1>1, <1>2 DEF Air!NumbersTyped
<1>11. Air!EntersAlone'
  BY <1>8 DEF Air!EntersAlone
<1>12. Air!EntersFresh'
  BY <1>8, <1>9, <1>10 DEF Air!EntersFresh, Air!Waits
<1>13. Air!OneWaiter' /\ Air!RestartsUnended'
  BY <1>8, <1>9, <1>10 DEF Air!OneWaiter, Air!RestartsUnended, Air!Waits
<1>14. Air!AirHealthyKept' /\ Air!AirEndsOnce'
  BY <1>1, <1>3 DEF Air!AirHealthyKept, Air!AirEndsOnce
<1> QED
  BY <1>4, <1>5, <1>6, <1>11, <1>12, <1>13, <1>14 DEF Air!AirInv, Air!AirShape

\* A teardown ends.
LEMMA TearsKeep ==
  ASSUME Air!AirInv, NEW t \in Air!Tasks, Air!TornDown(t)
  PROVE  Air!AirInv'
<1> USE AirParts, AirTasks
<1>1. /\ v5[t].on /\ UNCHANGED <<v1, v2, v7, v8>> /\ v3'.cur = v3.cur /\ v3'.spawned = v3.spawned
      /\ v3'.proc = 0 /\ v3'.url = 0 /\ v3'.stopReq = v3.stopReq /\ ~v3'.playing /\ DOMAIN v3' = DOMAIN v3
      /\ v5[t].sender # 0 => v4[v5[t].sender].pc # "wait"
      /\ v5' = [v5 EXCEPT ![t] = Air!NoTear]
  BY DEF Air!TornDown, Air!At, Air!RecordsTyped
<1>2. \E next \in {<<"torn", "spawn">>, <<"stopping", "none">>, <<"eos", "done">>,
                   <<"restarting", "backoff">>, <<"offline", "failed">>, <<"aborting", "raised">>} :
         v4[t].pc = next[1] /\ Air!Goes(t, next[2])
  BY DEF Air!TornDown, Air!At
<1>3. /\ v4'[t].play \in {0, v4[t].play}
      /\ \A u \in Air!Tasks \ {t} : v4'[u] = v4[u]
      /\ DOMAIN v4' = Air!Tasks /\ \A u \in Air!Tasks : DOMAIN v4'[u] = {"pc", "play", "sender"}
      /\ v4'[t].pc \in {"spawn", "none", "done", "backoff", "failed", "raised"}
      /\ v4'[t].pc = "spawn" => v4[t].pc = "torn" /\ v4'[t].play = v4[t].play
      /\ v4[t].pc = "eos" => v4'[t].pc = "done"
      /\ v4[t].pc \notin {"none", "wait", "done"}
      /\ v4'[t].pc = "none" => v4[t].pc = "stopping"
      /\ v4'[t].pc = "backoff" => v4[t].pc = "restarting"
  <2>1. PICK next \in {<<"torn", "spawn">>, <<"stopping", "none">>, <<"eos", "done">>,
                   <<"restarting", "backoff">>, <<"offline", "failed">>, <<"aborting", "raised">>} :
         v4[t].pc = next[1] /\ Air!Goes(t, next[2])
    BY <1>2
  <2>2. /\ v4'[t].pc = next[2] /\ v4'[t].play \in {0, v4[t].play} /\ \A u \in Air!Tasks \ {t} : v4'[u] = v4[u]
        /\ DOMAIN v4' = Air!Tasks /\ \A u \in Air!Tasks : DOMAIN v4'[u] = {"pc", "play", "sender"}
    BY <2>1, TaskGoes
  <2>3. v4'[t].pc = "spawn" => v4'[t].play = v4[t].play
    BY <2>1, <2>2 DEF Air!Goes, Air!RecordsTyped
  <2> QED
    BY <2>1, <2>2, <2>3
<1>4. /\ DOMAIN v5' = Air!Tasks /\ \A u \in Air!Tasks : DOMAIN v5'[u] = {"on", "sender"}
      /\ ~v5'[t].on /\ \A u \in Air!Tasks \ {t} : v5'[u] = v5[u]
  BY <1>1 DEF Air!RecordsTyped, Air!NoTear
<1>5. Air!RecordsTyped' /\ Air!TearsTyped'
  BY <1>1, <1>3, <1>4 DEF Air!RecordsTyped, Air!TearsTyped
<1>6. Air!NumbersTyped'
  <2>1. \A u \in Air!Tasks : v4'[u].play \in 0 .. v3.cur
    BY <1>3 DEF Air!NumbersTyped
  <2>2. \A s \in Air!Senders : v2[s] \in 0 .. v3.cur /\ (s > v3.spawned => v4'[s].pc = "none")
    BY <1>3 DEF Air!NumbersTyped
  <2> QED
    BY <1>1, <2>1, <2>2 DEF Air!NumbersTyped
<1>7. Air!ExitsGone'
  BY <1>1 DEF Air!ExitsGone
<1>8. Air!OneRuns'
  <2>1. v8.crossed = {} => \A s \in Air!Senders : v1[s] # "running"
    BY <1>1 DEF Air!OneRuns
  <2> QED
    BY <1>1, <2>1 DEF Air!OneRuns
<1>9. Air!Clean' = Air!Clean
  BY <1>1 DEF Air!Clean
<1>10. Air!Clean => \A x \in Air!Senders : ~Air!Waits(x) /\ ~Air!Waits(x)'
  <2>1. Air!Clean => \A x \in Air!Senders : ~Air!Waits(x)
    BY <1>1 DEF Air!OneWaiter, Air!Waits
  <2>2. \A x \in Air!Senders : Air!Waits(x)' => Air!Waits(x)
    BY <1>1, <1>3 DEF Air!Waits
  <2> QED
    BY <2>1, <2>2
<1>11. \A u \in Air!Tasks : /\ Air!Busy(u)' => Air!Busy(u)
                            /\ Air!Entering(u)' => Air!Entering(u) /\ v4'[u].play = v4[u].play
  BY <1>3 DEF Air!Busy, Air!Entering
<1>12. Air!EntersAlone'
  BY <1>9, <1>11 DEF Air!EntersAlone
<1>13. Air!EntersFresh'
  <2> SUFFICES ASSUME Air!Clean' PROVE Air!EntersFresh'
    BY DEF Air!EntersFresh
  <2>1. Air!Entering(Air!Host)' => v7'.ended[v3'.cur] = 0 /\ \A s \in Air!Senders : v2'[s] # v3'.cur
    BY <1>1, <1>9, <1>11 DEF Air!EntersFresh
  <2>2. Air!Entering(Air!Seek)' => v3'.stopReq /\ (v4'[Air!Seek].play = v3'.cur => v7'.ended[v3'.cur] = 0)
    BY <1>1, <1>9, <1>11 DEF Air!EntersFresh
  <2> QED
    BY <1>9, <1>10, <2>1, <2>2 DEF Air!EntersFresh
<1>14. Air!OneWaiter' /\ Air!RestartsUnended'
  BY <1>1, <1>9, <1>10, <1>11 DEF Air!OneWaiter, Air!RestartsUnended
<1>15. Air!AirHealthyKept' /\ Air!AirEndsOnce'
  BY <1>1 DEF Air!AirHealthyKept, Air!AirEndsOnce
<1> QED
  BY <1>5, <1>6, <1>7, <1>8, <1>12, <1>13, <1>14, <1>15 DEF Air!AirInv, Air!AirShape

\* A watcher wakes: an expected exit is passed over.
LEMMA PassesKeep ==
  ASSUME Air!AirInv, NEW s \in Air!Senders, Air!WatcherWakes(s), Air!Expected
  PROVE  Air!AirInv'
<1> USE AirParts, AirTasks
<1>1. /\ v4[s].pc = "wait" /\ Air!Goes(s, "done") /\ UNCHANGED <<v1, v2, v3, v5, v7, v8>>
  BY DEF Air!WatcherWakes, Air!At
<1>2. /\ v4'[s].pc = "done" /\ v4'[s].play \in {0, v4[s].play} /\ \A u \in Air!Tasks \ {s} : v4'[u] = v4[u]
      /\ DOMAIN v4' = Air!Tasks /\ \A u \in Air!Tasks : DOMAIN v4'[u] = {"pc", "play", "sender"}
  BY <1>1, TaskGoes
<1>3. Air!RecordsTyped' /\ Air!TearsTyped'
  BY <1>1, <1>2 DEF Air!RecordsTyped, Air!TearsTyped
<1>4. Air!AirShape'
  BY <1>1, <1>2, <1>3, ShapeKept
<1>5. Air!ExitsGone'
  BY <1>1 DEF Air!ExitsGone
<1>6. Air!OneRuns'
  BY <1>1, <1>2, RunsKept
<1>7. /\ \A u \in Air!Tasks : v4'[u].pc \in {"torn", "spawn", "backoff", "wait"} => v4'[u] = v4[u]
      /\ \A u \in Air!Tasks : v5'[u].on => v5[u].on /\ v5'[u].sender = v5[u].sender
      /\ \A u \in Air!Tasks : Air!Busy(u)' => Air!Busy(u)
      /\ v3'.cur = v3.cur /\ v3'.proc = v3.proc /\ v3'.stopReq = v3.stopReq /\ v3'.mode = v3.mode
  BY <1>1, <1>2 DEF Air!Busy
<1> QED
  BY <1>1, <1>4, <1>5, <1>6, <1>7, AirKept

\* An exit nobody expects finds nobody entering; radio restarts, a track ends.
LEMMA WakesDoes ==
  ASSUME Air!AirInv, NEW s \in Air!Senders, Air!WatcherWakes(s), ~Air!Expected
  PROVE  /\ v4[s].pc = "wait" /\ UNCHANGED <<v1, v2>> /\ v3.cur \in Air!AirPlays /\ ~v3.stopReq
         /\ v3'.cur = v3.cur /\ v3'.spawned = v3.spawned /\ v3'.proc = v3.proc /\ v3'.url = v3.url
         /\ v3'.mode = v3.mode /\ ~v3'.playing /\ DOMAIN v3' = DOMAIN v3 /\ v1[s] # "running"
         /\ DOMAIN v8' = DOMAIN v8 /\ v8'.gone = v8.gone
         /\ \/ v8'.crossed = Air!AirPlays
            \/ v8'.crossed = v8.crossed /\ v2[s] = v3.cur /\ v1[s] # "killed" /\ v3.cur \in v8.gone
         /\ Air!Clean' => /\ Air!Clean /\ v8'.crossed = v8.crossed /\ s = v3.proc
                          /\ v7.ended[v3.cur] = 0 /\ v3.cur \in v8.gone
                          /\ \A t \in Air!Tasks : ~Air!Entering(t) /\ ~(t \in Air!Senders /\ v4[t].pc = "backoff")
                          /\ \A x \in Air!Senders \ {s} : ~Air!Waits(x)
                          /\ \A u \in Air!Senders : Air!Busy(u) => v3.mode = "radio"
                          /\ \A t \in Air!Tasks : v5[t].on => v5[t].sender = s
<1> USE AirParts, AirTasks
<1>1. /\ v4[s].pc = "wait" /\ UNCHANGED <<v1, v2>> /\ ~v3.stopReq
      /\ v3'.cur = v3.cur /\ v3'.spawned = v3.spawned /\ v3'.proc = v3.proc /\ v3'.url = v3.url
      /\ v3'.mode = v3.mode /\ ~v3'.playing /\ DOMAIN v3' = DOMAIN v3
      /\ v1[s] \in {"ended", "crashed", "killed"}
  BY DEF Air!WatcherWakes, Air!At, Air!Expected, Air!RecordsTyped, Air!Dead
<1>2. /\ DOMAIN v8' = DOMAIN v8 /\ v8'.gone = v8.gone
      /\ \/ v8'.crossed = Air!AirPlays
         \/ v8'.crossed = v8.crossed /\ v2[s] = v3.cur /\ v1[s] # "killed"
  <2>1. v8' = IF v1[s] = "killed" \/ v2[s] # v3.cur THEN [v8 EXCEPT !.crossed = Air!AirPlays] ELSE v8
    BY DEF Air!WatcherWakes
  <2> QED
    BY <2>1 DEF Air!RecordsTyped
<1>3. v3.cur \in Air!AirPlays
  BY <1>1 DEF Air!TearsTyped
<1>4. v2[s] = v3.cur /\ v1[s] # "killed" => v3.cur \in v8.gone
  BY <1>1 DEF Air!ExitsGone
<1>5. ASSUME Air!Clean'
      PROVE  /\ Air!Clean /\ v8'.crossed = v8.crossed /\ s = v3.proc
             /\ v7.ended[v3.cur] = 0 /\ v3.cur \in v8.gone
             /\ \A t \in Air!Tasks : ~Air!Entering(t) /\ ~(t \in Air!Senders /\ v4[t].pc = "backoff")
             /\ \A x \in Air!Senders \ {s} : ~Air!Waits(x)
             /\ \A u \in Air!Senders : Air!Busy(u) => v3.mode = "radio"
             /\ \A t \in Air!Tasks : v5[t].on => v5[t].sender = s
  <2>1. Air!Clean /\ v8'.crossed = v8.crossed /\ Air!Waits(s) /\ v3.cur \in v8.gone
    BY <1>1, <1>2, <1>3, <1>4, <1>5 DEF Air!Clean, Air!Waits
  <2>2. /\ s = v3.proc /\ v7.ended[v3.cur] = 0
        /\ \A x \in Air!Senders \ {s} : ~Air!Waits(x)
        /\ \A u \in Air!Senders : Air!Busy(u) => v3.mode = "radio"
        /\ \A t \in Air!Tasks : v5[t].on => v5[t].sender = s
    BY <2>1 DEF Air!OneWaiter
  <2>3. ~Air!Entering(Air!Host) /\ ~Air!Entering(Air!Seek)
    BY <1>1, <2>1 DEF Air!EntersFresh, Air!Waits
  <2>4. \A t \in Air!Senders : ~Air!Entering(t) /\ v4[t].pc # "backoff"
    BY <2>1 DEF Air!EntersFresh, Air!Entering, Air!At
  <2> QED
    BY <2>1, <2>2, <2>3, <2>4
<1> QED
  BY <1>1, <1>2, <1>3, <1>4, <1>5

LEMMA WakesKeep ==
  ASSUME Air!AirInv, NEW s \in Air!Senders, Air!WatcherWakes(s), ~Air!Expected
  PROVE  Air!AirInv'
<1> USE AirParts, AirTasks, WakesDoes
<1>1. \/ v3.mode = "radio" /\ v4' = [v4 EXCEPT ![s] = [Air!Idle EXCEPT !.pc = "restart", !.play = v3.url]]
                           /\ UNCHANGED <<v5, v7>>
      \/ v3.mode # "radio" /\ Air!Goes(s, "eos") /\ v5' = [v5 EXCEPT ![s] = [on |-> TRUE, sender |-> s]]
                           /\ v7' = [v7 EXCEPT !.ended[v3.cur] = @ + 1]
  BY DEF Air!WatcherWakes
<1>2. /\ \A u \in Air!Tasks \ {s} : v4'[u] = v4[u]
      /\ DOMAIN v4' = Air!Tasks /\ \A u \in Air!Tasks : DOMAIN v4'[u] = {"pc", "play", "sender"}
      /\ v4'[s].play \in {0, v3.url, v4[s].play}
      /\ \/ v4'[s].pc = "restart" /\ v3.mode = "radio"
         \/ v4'[s].pc = "eos" /\ v3.mode # "radio"
  <2>1. CASE v3.mode = "radio"
    <3> DEFINE new == [Air!Idle EXCEPT !.pc = "restart", !.play = v3.url]
    <3>1. new.pc = "restart" /\ new.play = v3.url /\ DOMAIN new = {"pc", "play", "sender"}
      BY DEF Air!Idle
    <3>2. v4' = [v4 EXCEPT ![s] = new]
      BY <1>1, <2>1
    <3> HIDE DEF new
    <3> QED
      BY <2>1, <3>1, <3>2 DEF Air!RecordsTyped
  <2>2. CASE v3.mode # "radio"
    BY <1>1, <2>2, TaskGoes
  <2> QED
    BY <2>1, <2>2
<1>3. /\ DOMAIN v5' = Air!Tasks /\ \A u \in Air!Tasks : DOMAIN v5'[u] = {"on", "sender"}
      /\ \A u \in Air!Tasks \ {s} : v5'[u] = v5[u]
      /\ v5'[s].on => v5'[s].sender = s /\ v4'[s].pc = "eos"
  <2>1. ~v5[s].on
    BY DEF Air!TearsTyped
  <2>2. v3.mode # "radio" => v4'[s].pc = "eos"
    BY <1>2
  <2> QED
    BY <1>1, <2>1, <2>2 DEF Air!RecordsTyped
<1>4. /\ DOMAIN v7' = DOMAIN v7 /\ v7'.ended \in [Air!AirPlays -> Nat]
      /\ \A n \in Air!AirPlays \ {v3.cur} : v7'.ended[n] = v7.ended[n]
      /\ v7'.ended[v3.cur] \in {v7.ended[v3.cur], v7.ended[v3.cur] + 1}
      /\ v3.mode = "radio" => v7' = v7
  <2> DEFINE e == v7.ended
  <2>1. e \in [Air!AirPlays -> Nat] /\ DOMAIN v7 = {"ended", "heard", "failed"}
    BY DEF Air!NumbersTyped, Air!RecordsTyped
  <2>2. CASE v7' = v7
    BY <2>1, <2>2
  <2>3. CASE v3.mode # "radio" /\ v7' = [v7 EXCEPT !.ended[v3.cur] = @ + 1]
    <3>1. DOMAIN v7' = DOMAIN v7 /\ v7'.ended = [e EXCEPT ![v3.cur] = e[v3.cur] + 1]
      BY <2>1, <2>3
    <3> HIDE DEF e
    <3>2. /\ [e EXCEPT ![v3.cur] = e[v3.cur] + 1] \in [Air!AirPlays -> Nat]
          /\ \A n \in Air!AirPlays \ {v3.cur} : [e EXCEPT ![v3.cur] = e[v3.cur] + 1][n] = e[n]
          /\ [e EXCEPT ![v3.cur] = e[v3.cur] + 1][v3.cur] = e[v3.cur] + 1
      BY <2>1
    <3> QED
      BY <2>3, <3>1, <3>2 DEF e
  <2> QED
    BY <1>1, <2>2, <2>3
<1>5. Air!RecordsTyped' /\ Air!TearsTyped'
  <2>1. v3.cur # 0
    BY DEF Air!AirPlays
  <2> QED
    BY <1>2, <1>3, <1>4, <2>1 DEF Air!RecordsTyped, Air!TearsTyped
<1>6. Air!NumbersTyped'
  <2>1. \A u \in Air!Tasks : v4'[u].play \in 0 .. v3.cur
    BY <1>2 DEF Air!NumbersTyped
  <2>2. \A x \in Air!Senders : v2[x] \in 0 .. v3.cur /\ (x > v3.spawned => v4'[x].pc = "none")
    BY <1>2 DEF Air!NumbersTyped
  <2>3. \A n \in Air!AirPlays : n > v3.cur => v7'.ended[n] = 0
    BY <1>4 DEF Air!NumbersTyped
  <2> QED
    BY <1>4, <2>1, <2>2, <2>3 DEF Air!NumbersTyped
<1>7. Air!ExitsGone'
  BY DEF Air!ExitsGone
<1>8. Air!AirPlays # {}
  OBVIOUS
<1>9. Air!OneRuns'
  <2> SUFFICES ASSUME v8'.crossed = {} PROVE Air!OneRuns'
    BY DEF Air!OneRuns
  <2>1. v8.crossed = {} /\ Air!Clean'
    BY <1>8 DEF Air!Clean
  <2>2. \A x \in Air!Senders : v1[x] # "running"
    BY <2>1 DEF Air!OneRuns
  <2> QED
    BY <2>2 DEF Air!OneRuns
<1>10. ASSUME Air!Clean'
       PROVE  /\ \A t \in Air!Tasks : ~Air!Entering(t)' /\ ~(t \in Air!Senders /\ v4'[t].pc = "backoff")
              /\ \A x \in Air!Senders : ~Air!Waits(x)'
              /\ \A x \in Air!Senders : Air!Busy(x)' => v7'.ended[v3'.cur] = 0
  <2>1. \A t \in Air!Tasks : ~Air!Entering(t)' /\ ~(t \in Air!Senders /\ v4'[t].pc = "backoff")
    BY <1>2, <1>10 DEF Air!Entering
  <2>2. \A x \in Air!Senders : ~Air!Waits(x)'
    BY <1>2, <1>10 DEF Air!Waits
  <2>3. ASSUME NEW x \in Air!Senders, Air!Busy(x)' PROVE v7'.ended[v3'.cur] = 0
    <3>1. v3.mode = "radio"
      BY <1>2, <1>10, <2>3 DEF Air!Busy
    <3> QED
      BY <1>4, <1>10, <3>1
  <2> QED
    BY <2>1, <2>2, <2>3
<1>11. Air!EntersAlone' /\ Air!OneWaiter' /\ Air!RestartsUnended'
  BY <1>10 DEF Air!EntersAlone, Air!OneWaiter, Air!RestartsUnended
<1>12. Air!EntersFresh'
  BY <1>10 DEF Air!EntersFresh, Air!Entering, Air!At
<1>13. Air!AirHealthyKept'
  BY <1>4 DEF Air!AirHealthyKept
<1>14. Air!AirEndsOnce'
  <2> SUFFICES ASSUME NEW n \in Air!AirPlays \ v8'.crossed PROVE v7'.ended[n] <= 1
    BY DEF Air!AirEndsOnce
  <2>1. CASE n = v3.cur
    <3>1. Air!Clean'
      BY <2>1 DEF Air!Clean
    <3> QED
      BY <1>4, <2>1, <3>1
  <2>2. CASE n # v3.cur
    BY <1>4, <2>2 DEF Air!AirEndsOnce
  <2> QED
    BY <2>1, <2>2
<1> QED
  BY <1>5, <1>6, <1>7, <1>9, <1>11, <1>12, <1>13, <1>14 DEF Air!AirInv, Air!AirShape

\* A new sender is spawned, and nobody else is near.
LEMMA SpawnsAlone ==
  ASSUME Air!AirInv, NEW t \in Air!Tasks, v4[t].pc = "spawn", Air!Clean, v4[t].play = v3.cur,
         \A s \in Air!Senders : Air!At(s, "eos") => ~v5[s].on
  PROVE  /\ \A u \in Air!Tasks \ {t} : ~Air!Busy(u) /\ ~Air!Entering(u)
         /\ \A u \in Air!Tasks : ~v5[u].on
         /\ \A x \in Air!Senders : ~Air!Waits(x)
         /\ v7.ended[v3.cur] = 0
<1> USE AirParts, AirTasks
<1>1. \A u \in Air!Tasks \ {t} : ~Air!Busy(u) /\ ~Air!Entering(u)
  BY DEF Air!EntersAlone, Air!Entering, Air!Busy
<1>2. \A u \in Air!Tasks : ~v5[u].on
  BY <1>1 DEF Air!TearsTyped, Air!Busy, Air!At
<1>3. \A x \in Air!Senders : ~Air!Waits(x)
  BY DEF Air!EntersFresh, Air!At
<1>4. v7.ended[v3.cur] = 0
  <2>1. CASE t = Air!Host
    BY <2>1 DEF Air!EntersFresh, Air!Entering
  <2>2. CASE t = Air!Seek
    BY <2>2 DEF Air!EntersFresh, Air!Entering
  <2>3. CASE t \in Air!Senders
    BY <2>3 DEF Air!RestartsUnended, Air!Busy
  <2> QED
    BY <2>1, <2>2, <2>3
<1> QED
  BY <1>1, <1>2, <1>3, <1>4

LEMMA SpawnsKeep ==
  ASSUME Air!AirInv, NEW t \in Air!Tasks, Air!Spawns(t), v3'.proc = v3.spawned + 1,
         v1' = [v1 EXCEPT ![v3.spawned + 1] = "running"],
         v2' = [v2 EXCEPT ![v3.spawned + 1] = v4[t].play],
         v4' = [v4 EXCEPT ![t].pc = "pipe", ![v3.spawned + 1] = [Air!Idle EXCEPT !.pc = "wait", !.play = v4[t].play]],
         v8' = [v8 EXCEPT !.crossed = IF v4[t].play # v3.cur THEN @ \cup {v4[t].play, v3.cur} ELSE @],
         UNCHANGED <<v5, v7>>,
         v3'.cur = v3.cur, v3'.spawned = v3.spawned + 1, v3'.url = v4[t].play, v3'.playing = v3.playing,
         v3'.stopReq = v3.stopReq, t \in Air!Senders => v3'.mode = "radio", DOMAIN v3' = DOMAIN v3,
         v3'.writer = v3.writer
  PROVE  Air!AirInv'
<1> USE AirParts, AirTasks
<1> DEFINE n == v4[t].play
<1> DEFINE s == v3.spawned + 1
<1>1. /\ v4[t].pc = "spawn" /\ v3.spawned < MaxSpawns
      /\ \A x \in Air!Senders : Air!At(x, "eos") => ~v5[x].on
  BY DEF Air!Spawns, Air!At
<1>2. /\ s \in Air!Senders /\ s # t /\ v4[s].pc = "none" /\ s \in Nat /\ s > v3.spawned
      /\ n \in 0 .. v3.cur /\ v3.cur # 0 /\ v3.cur \in Air!AirPlays
      /\ \A x \in Air!Senders : x > s => v4[x].pc = "none" /\ x # t
  <2>1. v3.spawned \in 0 .. MaxSpawns
    BY DEF Air!NumbersTyped
  <2>2. s \in Air!Senders /\ s \in Nat /\ s > v3.spawned
    BY <1>1, <2>1, PlayersNats DEF Air!Senders
  <2>3. v4[s].pc = "none" /\ s # t
    BY <1>1, <2>2 DEF Air!NumbersTyped
  <2>4. \A x \in Air!Senders : x > s => v4[x].pc = "none" /\ x # t
    BY <1>1, <2>1, <2>2 DEF Air!NumbersTyped
  <2>5. n \in 0 .. v3.cur /\ v3.cur # 0
    BY <1>1 DEF Air!NumbersTyped, Air!TearsTyped
  <2> QED
    BY <2>2, <2>3, <2>4, <2>5
<1>3. /\ v1'[s] = "running" /\ DOMAIN v1' = Air!Senders /\ \A x \in Air!Senders \ {s} : v1'[x] = v1[x]
      /\ v2'[s] = n /\ DOMAIN v2' = Air!Senders /\ \A x \in Air!Senders \ {s} : v2'[x] = v2[x]
  BY <1>2 DEF Air!RecordsTyped
<1>4. /\ v4'[t].pc = "pipe" /\ v4'[t].play = n /\ v4'[s].pc = "wait" /\ v4'[s].play = n
      /\ \A u \in Air!Tasks \ {t, s} : v4'[u] = v4[u]
      /\ DOMAIN v4' = Air!Tasks /\ \A u \in Air!Tasks : DOMAIN v4'[u] = {"pc", "play", "sender"}
  <2> DEFINE new == [Air!Idle EXCEPT !.pc = "wait", !.play = n]
  <2>1. new.pc = "wait" /\ new.play = n /\ DOMAIN new = {"pc", "play", "sender"}
    BY DEF Air!Idle
  <2>2. v4' = [v4 EXCEPT ![t].pc = "pipe", ![s] = new]
    OBVIOUS
  <2> HIDE DEF new, s
  <2>3. v4'[s] = new /\ v4'[t] = [v4[t] EXCEPT !.pc = "pipe"] /\ DOMAIN v4' = Air!Tasks
        /\ \A u \in Air!Tasks \ {t, s} : v4'[u] = v4[u]
    BY <1>2, <2>2 DEF Air!RecordsTyped
  <2>4. DOMAIN v4[t] = {"pc", "play", "sender"}
    BY DEF Air!RecordsTyped
  <2>5. v4'[t].pc = "pipe" /\ v4'[t].play = n /\ DOMAIN v4'[t] = {"pc", "play", "sender"}
    BY <2>3, <2>4
  <2>6. \A u \in Air!Tasks \ {t, s} : DOMAIN v4'[u] = {"pc", "play", "sender"}
    BY <2>3 DEF Air!RecordsTyped
  <2> QED
    BY <2>1, <2>3, <2>5, <2>6
<1>5. /\ DOMAIN v8' = DOMAIN v8 /\ v8'.gone = v8.gone
      /\ v8'.crossed = IF n # v3.cur THEN v8.crossed \cup {n, v3.cur} ELSE v8.crossed
  BY DEF Air!RecordsTyped
<1> HIDE DEF n, s
<1>6. ~v5[t].on /\ ~v5[s].on
  BY <1>1, <1>2 DEF Air!TearsTyped
<1>7. Air!RecordsTyped' /\ Air!TearsTyped'
  BY <1>2, <1>3, <1>4, <1>5, <1>6 DEF Air!RecordsTyped, Air!TearsTyped
<1>8. Air!NumbersTyped'
  <2>1. \A u \in Air!Tasks : v4'[u].play \in 0 .. v3.cur
    BY <1>2, <1>4 DEF Air!NumbersTyped
  <2>2. \A x \in Air!Senders : v2'[x] \in 0 .. v3.cur
    BY <1>2, <1>3 DEF Air!NumbersTyped
  <2>3. \A x \in Air!Senders : x > s => v4'[x].pc = "none"
    BY <1>2, <1>4
  <2>4. v3'.spawned = s /\ v3'.url = n /\ s \in 0 .. MaxSpawns
    BY <1>2 DEF s, n, Air!Senders
  <2> QED
    BY <1>2, <2>1, <2>2, <2>3, <2>4 DEF Air!NumbersTyped
<1>9. Air!ExitsGone'
  BY <1>3, <1>5 DEF Air!ExitsGone
<1>10. Air!Clean' => Air!Clean /\ n = v3.cur /\ v8'.crossed = v8.crossed
  BY <1>5 DEF Air!Clean
<1>11. ASSUME Air!Clean, n = v3.cur
       PROVE  /\ \A u \in Air!Tasks \ {t} : ~Air!Busy(u) /\ ~Air!Entering(u)
              /\ \A u \in Air!Tasks : ~v5[u].on
              /\ \A x \in Air!Senders : ~Air!Waits(x)
              /\ v7.ended[v3.cur] = 0
  BY <1>1, <1>11, SpawnsAlone DEF n
<1>12. ASSUME Air!Clean'
       PROVE  /\ \A u \in Air!Tasks : ~Air!Entering(u)' /\ v4'[u].pc # "backoff"
              /\ \A u \in Air!Tasks \ {t} : ~Air!Busy(u)'
              /\ \A u \in Air!Tasks : ~v5'[u].on
              /\ \A x \in Air!Senders : Air!Waits(x)' => x = s
              /\ v7'.ended[v3'.cur] = 0
  <2>1. /\ \A u \in Air!Tasks \ {t} : ~Air!Busy(u) /\ ~Air!Entering(u)
        /\ \A u \in Air!Tasks : ~v5[u].on
        /\ \A x \in Air!Senders : ~Air!Waits(x)
        /\ v7.ended[v3.cur] = 0
    BY <1>10, <1>11, <1>12
  <2>2. \A u \in Air!Tasks : ~Air!Entering(u)' /\ v4'[u].pc # "backoff"
    BY <1>4, <2>1 DEF Air!Entering, Air!Busy
  <2>3. \A u \in Air!Tasks \ {t} : ~Air!Busy(u)'
    BY <1>4, <2>1 DEF Air!Busy
  <2>4. \A x \in Air!Senders : Air!Waits(x)' => x = s
    <3> SUFFICES ASSUME NEW x \in Air!Senders, x # s, Air!Waits(x)' PROVE FALSE
      OBVIOUS
    <3>1. v4'[x].pc = "wait" /\ v2[x] = v3.cur
      BY <1>3 DEF Air!Waits
    <3>2. x # t /\ v4[x].pc = "wait"
      BY <1>4, <3>1
    <3> QED
      BY <2>1, <3>1, <3>2 DEF Air!Waits
  <2> QED
    BY <2>1, <2>2, <2>3, <2>4
<1>13. Air!EntersAlone' /\ Air!RestartsUnended'
  BY <1>12 DEF Air!EntersAlone, Air!RestartsUnended
<1>14. Air!EntersFresh'
  BY <1>12 DEF Air!EntersFresh, Air!Entering, Air!At
<1>15. Air!OneWaiter'
  <2>1. v3'.proc = s
    BY DEF s
  <2> QED
    BY <1>12, <2>1 DEF Air!OneWaiter
<1>16. Air!AirHealthyKept' /\ Air!AirEndsOnce'
  BY <1>5 DEF Air!AirHealthyKept, Air!AirEndsOnce
<1>17. Air!OneRuns'
  <2> SUFFICES ASSUME v8'.crossed = {} PROVE Air!OneRuns'
    BY DEF Air!OneRuns
  <2>1. v8.crossed = {} /\ Air!Clean' /\ v3'.proc = s
    BY <1>5 DEF Air!Clean, s
  <2>2. /\ \A x \in Air!Senders : v1[x] # "running"
        /\ ~v3.playing
    BY <1>1, <2>1 DEF Air!OneRuns, Air!At
  <2>3. \A u \in Air!Tasks : ~v5'[u].on /\ ~Air!At(u, "spawn")'
    BY <1>12, <2>1 DEF Air!Entering, Air!At
  <2> QED
    BY <1>3, <2>1, <2>2, <2>3 DEF Air!OneRuns
<1> QED
  BY <1>7, <1>8, <1>9, <1>13, <1>14, <1>15, <1>16, <1>17 DEF Air!AirInv, Air!AirShape

\* ... or cannot be, and what there is is torn down.
LEMMA AbortsKeep ==
  ASSUME Air!AirInv, NEW t \in Air!Tasks, v4[t].pc = "spawn", v3.spawned < MaxSpawns,
         Air!Tears(t), Air!Goes(t, "aborting"), UNCHANGED <<v2, v7, v8>>,
         v3'.cur = v3.cur, v3'.spawned = v3.spawned + 1, v3'.url = v4[t].play, v3'.playing = v3.playing,
         v3'.stopReq = v3.stopReq, v3'.proc = v3.proc, DOMAIN v3' = DOMAIN v3, v3'.writer = v3.writer
  PROVE  Air!AirInv'
<1> USE AirParts, AirTasks
<1>1. /\ v4'[t].pc = "aborting" /\ v4'[t].play \in {0, v4[t].play} /\ \A u \in Air!Tasks \ {t} : v4'[u] = v4[u]
      /\ DOMAIN v4' = Air!Tasks /\ \A u \in Air!Tasks : DOMAIN v4'[u] = {"pc", "play", "sender"}
  BY TaskGoes
<1>2. /\ DOMAIN v5' = Air!Tasks /\ \A u \in Air!Tasks : DOMAIN v5'[u] = {"on", "sender"}
      /\ DOMAIN v1' = Air!Senders
      /\ \A u \in Air!Tasks \ {t} : v5'[u] = v5[u]
      /\ v5'[t].sender = v3.proc
      /\ \A x \in Air!Senders : v1'[x] = v1[x] \/ v1'[x] = "killed"
      /\ \A x \in Air!Senders : v1'[x] = "running" => v1[x] = "running" /\ x # v3.proc
  BY TearGoes
<1>3. Air!RecordsTyped' /\ Air!TearsTyped'
  BY <1>1, <1>2 DEF Air!RecordsTyped, Air!TearsTyped
<1>4. Air!NumbersTyped'
  <2>1. v3.spawned \in 0 .. MaxSpawns /\ v4[t].play \in 0 .. v3.cur
    BY DEF Air!NumbersTyped
  <2>2. v3'.spawned \in 0 .. MaxSpawns /\ v3'.url \in 0 .. v3.cur
    BY <2>1, PlayersNats
  <2>3. \A u \in Air!Tasks : v4'[u].play \in 0 .. v3.cur
    BY <1>1 DEF Air!NumbersTyped
  <2>4. \A x \in Air!Senders : x > v3'.spawned => v4'[x].pc = "none"
    <3>1. \A x \in Air!Senders : x > v3'.spawned => x > v3.spawned
      BY <2>1, PlayersNats
    <3> QED
      BY <1>1, <3>1 DEF Air!NumbersTyped
  <2> QED
    BY <2>2, <2>3, <2>4 DEF Air!NumbersTyped
<1>5. Air!ExitsGone'
  BY <1>2 DEF Air!ExitsGone
<1>6. Air!OneRuns'
  BY <1>1, <1>2, RunsKept
<1>7. /\ \A u \in Air!Tasks : v4'[u].pc \in {"torn", "spawn", "backoff", "wait"} => v4'[u] = v4[u]
      /\ \A u \in Air!Tasks : v5'[u].on => (v5[u].on /\ v5'[u].sender = v5[u].sender) \/ v5'[u].sender = v3.proc
      /\ \A u \in Air!Tasks : Air!Busy(u)' => Air!Busy(u)
  BY <1>1, <1>2 DEF Air!Busy
<1>8. v3.cur \notin v8'.crossed => \A u \in Air!Senders : ~Air!Waits(u)
  BY DEF Air!EntersFresh, Air!At, Air!Clean
<1>9. Air!AirShape'
  BY <1>3, <1>4 DEF Air!AirShape
<1> QED
  BY <1>5, <1>6, <1>7, <1>8, <1>9, AirKept

LEMMA SpawnSteps ==
  ASSUME Air!AirInv, NEW t \in Air!Tasks, Air!Spawns(t)
  PROVE  Air!AirInv'
<1> USE AirParts, AirTasks
<1> DEFINE s == v3.spawned + 1
<1> DEFINE mode == IF t = Air!Host THEN v3.next ELSE IF t = Air!Seek THEN v3.mode ELSE "radio"
<1> DEFINE set == [v3 EXCEPT !.url = v4[t].play, !.mode = mode, !.spawned = s,
                             !.attempts = IF mode = "radio" /\ ~v3.restarting THEN 0 ELSE @]
<1>1. v4[t].pc = "spawn" /\ v3.spawned < MaxSpawns /\ UNCHANGED v7
  BY DEF Air!Spawns, Air!At
<1>2. /\ set.cur = v3.cur /\ set.spawned = s /\ set.url = v4[t].play /\ set.playing = v3.playing
      /\ set.stopReq = v3.stopReq /\ set.mode = mode /\ set.proc = v3.proc /\ set.writer = v3.writer
      /\ DOMAIN set = DOMAIN v3
  BY DEF Air!RecordsTyped
<1>3. t \in Air!Senders => mode = "radio"
  OBVIOUS
<1>4. \/ /\ v3' = [set EXCEPT !.proc = s]
         /\ v1' = [v1 EXCEPT ![s] = "running"] /\ v2' = [v2 EXCEPT ![s] = v4[t].play]
         /\ v4' = [v4 EXCEPT ![t].pc = "pipe", ![s] = [Air!Idle EXCEPT !.pc = "wait", !.play = v4[t].play]]
         /\ v8' = [v8 EXCEPT !.crossed = IF v4[t].play # v3.cur THEN @ \cup {v4[t].play, v3.cur} ELSE @]
         /\ UNCHANGED v5
      \/ v3' = set /\ Air!Tears(t) /\ Air!Goes(t, "aborting") /\ UNCHANGED <<v2, v8>>
  BY DEF Air!Spawns
<1>5. CASE /\ v3' = [set EXCEPT !.proc = s]
           /\ v1' = [v1 EXCEPT ![s] = "running"] /\ v2' = [v2 EXCEPT ![s] = v4[t].play]
           /\ v4' = [v4 EXCEPT ![t].pc = "pipe", ![s] = [Air!Idle EXCEPT !.pc = "wait", !.play = v4[t].play]]
           /\ v8' = [v8 EXCEPT !.crossed = IF v4[t].play # v3.cur THEN @ \cup {v4[t].play, v3.cur} ELSE @]
           /\ UNCHANGED v5
  <2> HIDE DEF set, mode
  <2>1. /\ v3'.cur = v3.cur /\ v3'.spawned = s /\ v3'.url = v4[t].play /\ v3'.playing = v3.playing
        /\ v3'.stopReq = v3.stopReq /\ v3'.mode = mode /\ v3'.proc = s /\ v3'.writer = v3.writer
        /\ DOMAIN v3' = DOMAIN v3
    BY <1>2, <1>5 DEF Air!RecordsTyped
  <2> QED
    BY <1>1, <1>3, <1>5, <2>1, SpawnsKeep
<1>6. CASE v3' = set /\ Air!Tears(t) /\ Air!Goes(t, "aborting") /\ UNCHANGED <<v2, v8>>
  <2> HIDE DEF set, mode
  <2> QED
    BY <1>1, <1>2, <1>6, AbortsKeep
<1> QED
  BY <1>4, <1>5, <1>6

LEMMA AirSteps ==
  ASSUME Air!AirInv, Air!AirNext
  PROVE  Air!AirInv'
<1>1. CASE \E s \in Air!Senders : Air!SenderExits(s) \/ Air!WatcherWakes(s) \/ Air!Restarts(s)
                                  \/ Air!RestartPlays(s) \/ Air!RestartFails(s)
  <2> PICK s \in Air!Senders : Air!SenderExits(s) \/ Air!WatcherWakes(s) \/ Air!Restarts(s)
                               \/ Air!RestartPlays(s) \/ Air!RestartFails(s)
    BY <1>1
  <2> s \in Air!Tasks
    BY AirTasks
  <2> QED
    BY ExitsKeep, PassesKeep, WakesKeep, RestartsKeep, RestartPlaysKeep, PipesKeep
<1>2. CASE \E t \in Air!Tasks : Air!TornDown(t) \/ Air!Spawns(t) \/ Air!PipeOpens(t) \/ Air!PipeTimesOut(t)
                                \/ Air!Raises(t)
  BY <1>2, TearsKeep, SpawnSteps, PipesKeep
<1>3. CASE \E mode \in {"track", "radio"} : Air!PlayStarts(mode)
  BY <1>3, PlaysKeep
<1>4. CASE Air!Confirms \/ Air!Stops \/ Air!Seeks
  BY <1>4, ExitsKeep, StopsKeep, SeeksKeep
<1> QED
  BY <1>1, <1>2, <1>3, <1>4 DEF Air!AirNext

LEMMA AirBegins ==
  ASSUME Air!AirInit
  PROVE  Air!AirInv
<1> USE AirTasks
<1>1. /\ \A s \in Air!Senders : v1[s] = "none" /\ v2[s] = 0
      /\ \A t \in Air!Tasks : v4[t].pc = "none" /\ v4[t].play = 0 /\ ~v5[t].on
      /\ v3.cur = 0 /\ v3.spawned = 0 /\ v3.url = 0 /\ v3.playing = FALSE
      /\ v7.ended = [n \in Air!AirPlays |-> 0] /\ v8.crossed = {}
  BY DEF Air!AirInit, Air!Idle, Air!NoTear
<1>2. Air!RecordsTyped
  BY DEF Air!AirInit, Air!RecordsTyped, Air!Idle, Air!NoTear
<1>3. Air!NumbersTyped /\ Air!TearsTyped
  BY <1>1, PlayersNats DEF Air!NumbersTyped, Air!TearsTyped
<1>4. Air!EntersAlone /\ Air!EntersFresh /\ Air!OneWaiter /\ Air!RestartsUnended
  BY <1>1 DEF Air!EntersAlone, Air!EntersFresh, Air!OneWaiter, Air!RestartsUnended, Air!Entering, Air!Waits,
              Air!Busy, Air!At
<1>5. Air!ExitsGone /\ Air!OneRuns
  BY <1>1 DEF Air!ExitsGone, Air!OneRuns, Air!At
<1>6. Air!AirHealthyKept /\ Air!AirEndsOnce
  BY <1>1 DEF Air!AirHealthyKept, Air!AirEndsOnce
<1> QED
  BY <1>2, <1>3, <1>4, <1>5, <1>6 DEF Air!AirInv, Air!AirShape

-----------------------------------------------------------------------------
(* All of them.                                                                *)

Sound ==
    /\ which \in {"cast", "plex", "air", "direct", "flow"}
    /\ which = "cast" => Cast!CastInv
    /\ which = "plex" => Plex!PlexInv /\ Plex!PlexHealthInv
    /\ which = "air" => Air!AirInv
    /\ which = "direct" => Direct!DirectInv

LEMMA SoundAtFirst ==
  ASSUME Init
  PROVE  Sound
BY CastBegins, PlexBegins, PlexHealthBegins, AirBegins, DirectBegins DEF Init, Sound

LEMMA CastStutters ==
  ASSUME Cast!CastInv, UNCHANGED <<v1, v2, v3, v4, v5, v6, v7, v8, v9, v10, v11>>
  PROVE  Cast!CastInv'
<1>1. Cast!CastShape'
  BY DEF Cast!CastInv, Cast!CastShape, Cast!RecordsTyped, Cast!NumbersTyped, Cast!StatusTyped, Cast!PostedTyped
<1>2. Cast!ReportsOnce' /\ Cast!ReportsGone' /\ Cast!TrackLives'
  BY DEF Cast!CastInv, Cast!ReportsOnce, Cast!ReportsGone, Cast!TrackLives, Cast!EosDue
<1>3. Cast!CastHealthyKept' /\ Cast!CastEndsOnce'
  BY DEF Cast!CastInv, Cast!CastHealthyKept, Cast!CastEndsOnce
<1> QED
  BY <1>1, <1>2, <1>3 DEF Cast!CastInv

LEMMA PlexStutters ==
  ASSUME Plex!PlexInv, Plex!PlexHealthInv,
         UNCHANGED <<v1, v2, v3, v4, v5, v6, v7, v8, v9, v10, v11, v12, v13>>
  PROVE  Plex!PlexInv' /\ Plex!PlexHealthInv'
<1>1. Plex!PlexShape' /\ Plex!PlexCreating' /\ Plex!PlexOver' /\ Plex!PlexEndsOnce'
  BY DEF Plex!PlexInv, Plex!PlexShape, Plex!PlexCreating, Plex!PlexOver, Plex!PlexEndsOnce
<1>2. Plex!PlayerFollows' /\ Plex!QueueTaken'
  BY DEF Plex!PlexHealthInv, Plex!PlayerFollows, Plex!QueueTaken, Plex!Taken, Plex!Lost, Plex!Active
<1>3. Plex!LineTells' /\ Plex!EndsMeant' /\ Plex!PlexHealthyKept'
  BY DEF Plex!PlexHealthInv, Plex!LineTells, Plex!EndsMeant, Plex!Lost, Plex!PlexHealthyKept
<1> QED
  BY <1>1, <1>2, <1>3 DEF Plex!PlexInv, Plex!PlexHealthInv

LEMMA AirStutters ==
  ASSUME Air!AirInv, UNCHANGED <<v1, v2, v3, v4, v5, v6, v7, v8, v9>>
  PROVE  Air!AirInv'
<1>1. Air!AirShape'
  BY DEF Air!AirInv, Air!AirShape, Air!RecordsTyped, Air!NumbersTyped, Air!TearsTyped
<1>2. Air!EntersAlone' /\ Air!RestartsUnended' /\ Air!ExitsGone'
  BY DEF Air!AirInv, Air!EntersAlone, Air!RestartsUnended, Air!ExitsGone, Air!Clean, Air!Busy, Air!Entering
<1>3. Air!EntersFresh'
  BY DEF Air!AirInv, Air!EntersFresh, Air!Clean, Air!Entering, Air!At, Air!Waits
<1>4. Air!OneWaiter' /\ Air!OneRuns'
  BY DEF Air!AirInv, Air!OneWaiter, Air!OneRuns, Air!Clean, Air!Waits, Air!Busy, Air!At
<1>5. Air!AirHealthyKept' /\ Air!AirEndsOnce'
  BY DEF Air!AirInv, Air!AirHealthyKept, Air!AirEndsOnce
<1> QED
  BY <1>1, <1>2, <1>3, <1>4, <1>5 DEF Air!AirInv

LEMMA DirectStutters ==
  ASSUME Direct!DirectInv, UNCHANGED <<v1, v2, v3, v4, v5, v6, v7, v8, v9>>
  PROVE  Direct!DirectInv'
<1>1. Direct!DirectShape'
  BY DEF Direct!DirectInv, Direct!DirectShape, Direct!BackendTyped, Direct!PipesTyped, Direct!RunsTyped,
         Direct!BusTyped, Direct!PostsTyped, Direct!LedgerTyped, Direct!Unstarted
<1>2. Direct!OnePipeline'
  BY DEF Direct!DirectInv, Direct!OnePipeline, Direct!Halting, Direct!Halted
<1>3. Direct!HaltsOnce'
  BY DEF Direct!DirectInv, Direct!HaltsOnce, Direct!Halting, Direct!EndDue, Direct!Alive, Direct!Dispatching
<1>4. Direct!HaltsGone'
  BY DEF Direct!DirectInv, Direct!HaltsGone, Direct!EndDue, Direct!Dispatching
<1>5. Direct!DirectHealthyKept' /\ Direct!DirectEndsOnce'
  BY DEF Direct!DirectInv, Direct!DirectHealthyKept, Direct!DirectEndsOnce
<1> QED
  BY <1>1, <1>2, <1>3, <1>4, <1>5 DEF Direct!DirectInv

LEMMA SoundStutters ==
  ASSUME Sound, UNCHANGED vars
  PROVE  Sound'
<1>1. UNCHANGED <<v1, v2, v3, v4, v5, v6, v7, v8, v9, v10, v11, v12, v13>> /\ which' = which
  BY DEF vars, From10
<1> QED
  BY <1>1, CastStutters, PlexStutters, AirStutters, DirectStutters DEF Sound

LEMMA SoundSteps ==
  ASSUME Sound, [Next]_vars
  PROVE  Sound'
<1>1. CASE Is("cast") /\ Cast!CastNext
  BY <1>1, CastSteps DEF Sound, Is
<1>2. CASE Is("plex") /\ Plex!PlexNext
  BY <1>2, PlexSteps, PlexHealthSteps DEF Sound, Is
<1>3. CASE Is("air") /\ Air!AirNext
  BY <1>3, AirSteps DEF Sound, Is
<1>4. CASE Is("direct") /\ Direct!DirectNext
  BY <1>4, DirectSteps DEF Sound, Is
<1>5. CASE Is("flow")
  BY <1>5 DEF Sound, Is
<1>6. CASE UNCHANGED vars
  BY <1>6, SoundStutters
<1> QED
  BY <1>1, <1>2, <1>3, <1>4, <1>5, <1>6 DEF Next

LEMMA SoundAlways == Safe => []Sound
<1>1. Init => Sound
  BY SoundAtFirst
<1>2. Sound /\ [Next]_vars => Sound'
  BY SoundSteps
<1> QED
  BY <1>1, <1>2, PTL DEF Safe

\* No backend ends a play that still sounds: an end is told of a play that is
\* gone, or that a reconnect, a restart, a seek or a resume crossed, whatever
\* timelines, statuses, watchdogs and teardowns are left of the plays before
\* it; and the AirPlay backend runs no sender beside the one it commands.
THEOREM HealthyKeptTrue == Safe => []HealthyKept
<1>1. Sound => HealthyKept
  <2>1. Cast!CastInv => Cast!CastHealthyKept
    BY DEF Cast!CastInv
  <2>2. Plex!PlexHealthInv => Plex!PlexHealthyKept
    BY DEF Plex!PlexHealthInv
  <2>3. Air!AirInv => Air!AirHealthyKept /\ Air!AirOneSender
    BY DEF Air!AirInv, Air!OneRuns, Air!AirOneSender
  <2>4. Direct!DirectInv => Direct!DirectHealthyKept
    BY DEF Direct!DirectInv
  <2>5. CASE which = "cast"
    BY <2>1, <2>5 DEF Sound, HealthyKept
  <2>6. CASE which = "plex"
    BY <2>2, <2>6 DEF Sound, HealthyKept
  <2>7. CASE which = "air"
    BY <2>3, <2>7 DEF Sound, HealthyKept
  <2>8. CASE which = "direct"
    BY <2>4, <2>8 DEF Sound, HealthyKept
  <2>9. CASE which = "flow"
    BY <2>9 DEF HealthyKept
  <2> QED
    BY <2>5, <2>6, <2>7, <2>8, <2>9 DEF Sound
<1> QED
  BY <1>1, SoundAlways, PTL

\* No backend tells the end of one play twice, so the queue is advanced once
\* for it, unless the play was crossed or revived in between.
THEOREM EndsOnceTrue == Safe => []EndsOnce
<1>1. Sound => EndsOnce
  <2>1. Cast!CastInv => Cast!CastEndsOnce
    BY DEF Cast!CastInv
  <2>2. Plex!PlexInv => Plex!PlexEndsOnce
    BY DEF Plex!PlexInv
  <2>3. Air!AirInv => Air!AirEndsOnce
    BY DEF Air!AirInv
  <2>4. Direct!DirectInv => Direct!DirectEndsOnce
    BY DEF Direct!DirectInv
  <2>5. CASE which = "cast"
    BY <2>1, <2>5 DEF Sound, EndsOnce
  <2>6. CASE which = "plex"
    BY <2>2, <2>6 DEF Sound, EndsOnce
  <2>7. CASE which = "air"
    BY <2>3, <2>7 DEF Sound, EndsOnce
  <2>8. CASE which = "direct"
    BY <2>4, <2>8 DEF Sound, EndsOnce
  <2>9. CASE which = "flow"
    BY <2>9 DEF EndsOnce
  <2> QED
    BY <2>5, <2>6, <2>7, <2>8, <2>9 DEF Sound
<1> QED
  BY <1>1, SoundAlways, PTL
==============================================================================
