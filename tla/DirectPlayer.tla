---------------------------- MODULE DirectPlayer ----------------------------
(***************************************************************************)
(* The direct backend (app/output/direct.py): a playbin pipeline whose bus *)
(* messages arrive on the GLib thread, whose about-to-finish fires on a    *)
(* streaming thread and whose teardown and start run in executor threads,  *)
(* while the host's calls and what the handlers post run on the event      *)
(* loop.  Only the swap of the pipeline handle is locked.                  *)
(*                                                                         *)
(* A pipeline is numbered as it is made; made[p] is the dispatch it is     *)
(* for.  A handler of the bus is one step.                                 *)
(***************************************************************************)
EXTENDS Naturals, Sequences

CONSTANTS
    MaxPlays,      \* bound: dispatches
    MaxPipes,      \* bound: pipelines made, reconnects of radio included
    MaxPresses,    \* bound: pauses, resumes, seeks, stops, arms and revocations
    MaxMishaps,    \* bound: errors of the pipeline and of the sink
    DirectCap      \* MAX_RECONNECT_ATTEMPTS

VARIABLES
    pipes,    \* the state of every pipeline
    made,     \* the dispatch a pipeline was made for
    bus,      \* messages on the bus, in order
    dir,      \* the backend object
    runs,     \* who is in an executor thread, and where
    posted,   \* what handlers posted to the event loop
    told, truth, used

directVars == <<pipes, made, bus, dir, runs, posted, told, truth, used>>

DPlays == 1 .. MaxPlays
Pipes == 1 .. MaxPipes
Runners == {"host", "reconnect"}

DirectInit ==
    /\ pipes = [p \in Pipes |-> "none"] /\ made = [p \in Pipes |-> 0]
    /\ bus = <<>> /\ posted = <<>>
    /\ dir = [cur |-> 0, last |-> 0, pipe |-> 0, playing |-> FALSE, token |-> 0, gen |-> 0,
              armed |-> FALSE, boundary |-> FALSE, mode |-> "off", attempts |-> 0]
    /\ runs = [r \in Runners |-> "none"]
    /\ told = [ended |-> [n \in DPlays |-> 0], heard |-> {}, crossings |-> 0, offline |-> 0]
    /\ truth = [gone |-> {}, crossed |-> {}, revived |-> {}, stopped |-> FALSE]
    /\ used = [presses |-> 0, mishaps |-> 0]

Mishap == used.mishaps < MaxMishaps /\ used' = [used EXCEPT !.mishaps = @ + 1]
Pressed == used.presses < MaxPresses /\ used' = [used EXCEPT !.presses = @ + 1]
Says(p, kind) == bus' = Append(bus, [pipe |-> p, kind |-> kind])
Posts(kind) == posted' = Append(posted, [kind |-> kind, gen |-> dir.gen, play |-> dir.cur])

-----------------------------------------------------------------------------
(* The pipeline and its messages *)

PipeStarts(p) ==
    /\ pipes[p] = "starting"
    /\ pipes' = [pipes EXCEPT ![p] = "playing"] /\ Says(p, "state")
    /\ UNCHANGED <<made, dir, runs, posted, told, truth, used>>

\* about-to-finish: the armed URI is handed over and playback flows on.
PipeFinishes(p) ==
    /\ pipes[p] = "playing" /\ Len(bus) < 3
    /\ IF dir.armed /\ dir.pipe = p
       THEN /\ dir' = [dir EXCEPT !.armed = FALSE, !.boundary = TRUE]
            /\ Says(p, "start") /\ UNCHANGED <<pipes, truth>>
       ELSE /\ pipes' = [pipes EXCEPT ![p] = "ended"]
            /\ Says(p, "eos") /\ dir' = dir
            /\ truth' = [truth EXCEPT !.gone = @ \cup {made[p]}]
    /\ UNCHANGED <<made, runs, posted, told, used>>

PipeErrs(p) ==
    /\ pipes[p] \in {"starting", "playing"} /\ Mishap
    /\ pipes' = [pipes EXCEPT ![p] = "ended"]
    /\ \E kind \in {"error", "sink"} : Says(p, kind)
    /\ truth' = [truth EXCEPT !.gone = @ \cup {made[p]}]
    /\ UNCHANGED <<made, dir, runs, posted, told>>

Radio == dir.mode = "radio"

\* _on_eos, _on_error: radio reconnects, an error of the sink is an outage,
\* anything else advances; an EOS in front of a handed-over track says nothing.
Halts(m) ==
    /\ m.kind \in {"eos", "error", "sink"}
    /\ IF m.kind = "eos" /\ ~Radio /\ dir.boundary
       THEN UNCHANGED <<dir, posted>>
       ELSE /\ dir' = [dir EXCEPT !.playing = FALSE,
                                  !.boundary = @ /\ m.kind = "eos"]
            /\ Posts(IF Radio /\ m.kind # "sink" THEN "reconnect" ELSE "end")
    /\ UNCHANGED told

\* _on_stream_start: the handed-over track is the audible one now.
Starts(m) ==
    /\ m.kind = "start"
    /\ dir' = [dir EXCEPT !.boundary = FALSE]
    /\ IF dir.boundary /\ m.pipe = dir.pipe THEN Posts("boundary") ELSE posted' = posted
    /\ UNCHANGED told

\* _on_state_changed speaks for its own pipeline, _on_async_done for whichever.
Confirms(m) ==
    /\ m.kind \in {"state", "done"}
    /\ IF dir.token # 0 /\ (IF m.kind = "state" THEN m.pipe = dir.pipe ELSE dir.playing)
       THEN /\ told' = [told EXCEPT !.heard = @ \cup {dir.token}]
            /\ dir' = [dir EXCEPT !.token = 0]
       ELSE UNCHANGED <<told, dir>>
    /\ posted' = posted

BusDelivers ==
    /\ bus # <<>>
    /\ bus' = Tail(bus)
    /\ IF pipes[Head(bus).pipe] = "null"
       THEN UNCHANGED <<dir, posted, told>>
       ELSE Halts(Head(bus)) \/ Starts(Head(bus)) \/ Confirms(Head(bus))
    /\ UNCHANGED <<pipes, made, runs, truth, used>>

-----------------------------------------------------------------------------
(* The executor: _teardown_pipeline and the rest of _sync_play *)

Executes(r) ==
    /\ runs[r] \in {"teardown", "stop"}
    /\ runs' = [runs EXCEPT ![r] = IF @ = "stop" THEN "none" ELSE "make"]
    /\ pipes' = IF dir.pipe \in Pipes THEN [pipes EXCEPT ![dir.pipe] = "null"] ELSE pipes
    /\ dir' = [dir EXCEPT !.gen = @ + 1, !.armed = FALSE, !.boundary = FALSE, !.pipe = 0,
                          !.playing = FALSE]
    /\ truth' = [truth EXCEPT !.gone = IF dir.pipe \in Pipes THEN @ \cup {made[dir.pipe]} ELSE @]
    /\ UNCHANGED <<made, bus, posted, told, used>>

\* A reconnect left over from an earlier station gives a play that was ended by
\* its sink another pipeline.
Makes(r) ==
    /\ runs[r] = "make" /\ dir.last < MaxPipes
    /\ runs' = [runs EXCEPT ![r] = "none"]
    /\ dir' = [dir EXCEPT !.last = @ + 1, !.pipe = dir.last + 1, !.playing = TRUE]
    /\ pipes' = [pipes EXCEPT ![dir.last + 1] = "starting"]
    /\ made' = [made EXCEPT ![dir.last + 1] = dir.cur]
    /\ truth' = IF told.ended[dir.cur] > 0 THEN [truth EXCEPT !.revived = @ \cup {dir.cur}] ELSE truth
    /\ UNCHANGED <<bus, posted, told, used>>

\* The sink cannot be had: the dispatch raises, a reconnect tries again.
MakeFails(r) ==
    /\ runs[r] = "make" /\ Mishap
    /\ runs' = [runs EXCEPT ![r] = IF r = "host" THEN "none" ELSE "loop"]
    /\ truth' = [truth EXCEPT !.gone = @ \cup {dir.cur}]
    /\ UNCHANGED <<pipes, made, bus, dir, posted, told>>

-----------------------------------------------------------------------------
(* The event loop *)

\* A posted end advances whatever plays; a boundary is dropped when a teardown
\* came between; a reconnect starts its loop.
LoopRuns ==
    LET e == Head(posted)
    IN /\ posted # <<>>
       /\ posted' = Tail(posted)
       /\ CASE e.kind = "end" ->
                 /\ told' = [told EXCEPT !.ended[dir.cur] = @ + 1]
                 /\ truth' = IF e.play # dir.cur \/ e.gen # dir.gen \/ runs["host"] # "none"
                             THEN [truth EXCEPT !.crossed = @ \cup {dir.cur}] ELSE truth
                 /\ runs' = runs
            [] e.kind = "boundary" ->
                 /\ told' = [told EXCEPT !.crossings = IF e.gen = dir.gen THEN @ + 1 ELSE @]
                 /\ UNCHANGED <<truth, runs>>
            [] e.kind = "reconnect" ->
                 /\ runs' = [runs EXCEPT !["reconnect"] = IF @ = "none" THEN "loop" ELSE @]
                 /\ UNCHANGED <<told, truth>>
       /\ UNCHANGED <<pipes, made, bus, dir, used>>

\* _radio_reconnect_run looks at the mode before the backoff ...
Reconnects ==
    /\ runs["reconnect"] = "loop"
    /\ IF ~Radio \/ dir.attempts = DirectCap
       THEN /\ runs' = [runs EXCEPT !["reconnect"] = "none"] /\ dir' = dir
            /\ told' = [told EXCEPT !.offline = IF Radio THEN @ + 1 ELSE @]
       ELSE /\ runs' = [runs EXCEPT !["reconnect"] = "backoff"] /\ told' = told
            /\ dir' = [dir EXCEPT !.attempts = @ + 1]
    /\ UNCHANGED <<pipes, made, bus, posted, truth, used>>

\* ... and after it; from there on a stop comes too late.
BackedOff ==
    /\ runs["reconnect"] = "backoff"
    /\ runs' = [runs EXCEPT !["reconnect"] = IF Radio THEN "teardown" ELSE "none"]
    /\ truth' = IF Radio /\ runs["host"] # "none" THEN [truth EXCEPT !.crossed = DPlays] ELSE truth
    /\ UNCHANGED <<pipes, made, bus, dir, posted, told, used>>

Overlap == runs["reconnect"] \in {"teardown", "make"}

PlayStarts(mode) ==
    /\ runs["host"] = "none" /\ dir.cur < MaxPlays
    /\ dir' = [dir EXCEPT !.cur = @ + 1, !.mode = mode, !.token = dir.cur + 1,
                          !.attempts = IF mode = "radio" THEN 0 ELSE @]
    /\ runs' = [runs EXCEPT !["host"] = "teardown"]
    /\ truth' = [truth EXCEPT !.crossed = IF Overlap THEN DPlays ELSE @, !.stopped = FALSE]
    /\ UNCHANGED <<pipes, made, bus, posted, told, used>>

Stops ==
    /\ runs["host"] = "none" /\ dir.cur > 0 /\ Pressed
    /\ dir' = [dir EXCEPT !.mode = "off"]
    /\ runs' = [runs EXCEPT !["host"] = "stop"]
    /\ truth' = [truth EXCEPT !.crossed = IF Overlap THEN DPlays ELSE @, !.stopped = TRUE]
    /\ UNCHANGED <<pipes, made, bus, posted, told>>

Arms == dir.cur > 0 /\ Pressed /\ \E b \in BOOLEAN : dir' = [dir EXCEPT !.armed = b]
          /\ UNCHANGED <<pipes, made, bus, runs, posted, told, truth>>

\* pause, resume and seek act on the pipeline of the moment.
PausesResumes ==
    /\ dir.pipe # 0 /\ Pressed
    /\ \/ /\ pipes[dir.pipe] = "playing"
          /\ pipes' = [pipes EXCEPT ![dir.pipe] = "paused"]
          /\ dir' = [dir EXCEPT !.playing = FALSE] /\ UNCHANGED <<bus, truth>>
       \/ /\ pipes[dir.pipe] = "paused"
          /\ pipes' = [pipes EXCEPT ![dir.pipe] = "playing"]
          /\ dir' = [dir EXCEPT !.playing = TRUE] /\ UNCHANGED <<bus, truth>>
       \/ /\ pipes[dir.pipe] = "playing"
          /\ Says(dir.pipe, "done")
          /\ UNCHANGED <<pipes, dir, truth>>
    /\ UNCHANGED <<made, runs, posted, told>>

DirectNext ==
    \/ \E p \in Pipes : PipeStarts(p) \/ PipeFinishes(p) \/ PipeErrs(p)
    \/ BusDelivers \/ LoopRuns \/ Reconnects \/ BackedOff
    \/ \E r \in Runners : Executes(r) \/ Makes(r) \/ MakeFails(r)
    \/ \E mode \in {"track", "radio"} : PlayStarts(mode)
    \/ Stops \/ Arms \/ PausesResumes

RunnerWorks(r) == Executes(r) \/ Makes(r)
DirectFair ==
    /\ WF_directVars(BusDelivers) /\ WF_directVars(LoopRuns)
    /\ WF_directVars(Reconnects \/ BackedOff)
    /\ \A r \in Runners : WF_directVars(RunnerWorks(r))
DirectSpec == DirectInit /\ [][DirectNext]_directVars /\ DirectFair

-----------------------------------------------------------------------------
DirectTypeOK ==
    /\ dir.pipe \in 0 .. MaxPipes /\ dir.token \in 0 .. MaxPlays
    /\ dir.attempts \in 0 .. DirectCap /\ told.heard \subseteq DPlays
    /\ dir.boundary => dir.pipe # 0 \/ truth.crossed # {}

\* A dispatch is ended because its audio is over, except by an end that was
\* posted before the dispatch took over.
DirectHealthyKept == \A n \in DPlays : told.ended[n] > 0 => n \in truth.gone \cup truth.crossed

\* A dispatch is ended once, unless a reconnect played it again after its end
\* or an end of an earlier pipeline met it.
DirectEndsOnce == \A n \in DPlays \ (truth.revived \cup truth.crossed) : told.ended[n] <= 1

-----------------------------------------------------------------------------
(* Why the two hold: the inductive invariant of the proofs in PlayersProofs. *)

Dispatching == runs["host"] \in {"teardown", "make"}
HaltKinds == {"eos", "error", "sink"}
Halting(i) == bus[i].kind \in HaltKinds /\ bus[i].pipe = dir.pipe
EndDue(i) == posted[i].kind = "end" /\ posted[i].play = dir.cur /\ posted[i].gen = dir.gen
Alive == dir.pipe # 0 /\ pipes[dir.pipe] \in {"starting", "playing", "paused"}
Halted == dir.pipe # 0 /\ pipes[dir.pipe] = "ended"

BackendTyped ==
    /\ DOMAIN dir = {"cur", "last", "pipe", "playing", "token", "gen", "armed", "boundary", "mode",
                     "attempts"}
    /\ dir.cur \in 0 .. MaxPlays /\ dir.last \in 0 .. MaxPipes /\ dir.pipe \in 0 .. MaxPipes
    /\ dir.gen \in Nat
PipesTyped ==
    /\ pipes \in [Pipes -> {"none", "starting", "playing", "paused", "ended", "null"}]
    /\ made \in [Pipes -> 0 .. MaxPlays]
    /\ \A p \in Pipes : pipes[p] = "none" <=> p > dir.last
    /\ dir.pipe <= dir.last
RunsTyped ==
    /\ runs \in [Runners -> {"none", "loop", "backoff", "teardown", "make", "stop"}]
    /\ runs["host"] \notin {"loop", "backoff"} /\ runs["reconnect"] # "stop"
BusTyped ==
    /\ bus \in Seq([pipe : Pipes, kind : HaltKinds \cup {"state", "start", "done"}])
    /\ \A i \in DOMAIN bus : bus[i].pipe <= dir.last
PostsTyped ==
    /\ posted \in Seq([kind : {"end", "boundary", "reconnect"}, gen : Nat, play : 0 .. MaxPlays])
    /\ \A i \in DOMAIN posted : posted[i].gen <= dir.gen
LedgerTyped ==
    /\ DOMAIN told = {"ended", "heard", "crossings", "offline"}
    /\ DOMAIN truth = {"gone", "crossed", "revived", "stopped"}
    /\ told.ended \in [DPlays -> Nat] /\ truth.crossed \subseteq DPlays
    /\ \A n \in DPlays : n > dir.cur => told.ended[n] = 0
Unstarted == dir.cur = 0 => dir.last = 0 /\ posted = <<>> /\ \A r \in Runners : runs[r] = "none"
DirectShape ==
    BackendTyped /\ PipesTyped /\ RunsTyped /\ BusTyped /\ PostsTyped /\ LedgerTyped /\ Unstarted

\* Until a reconnect overlaps a dispatch or a stop there is one pipeline, and it
\* halts once.
OnePipeline ==
    truth.crossed # DPlays =>
      /\ runs["host"] # "none" => runs["reconnect"] \notin {"teardown", "make"}
      /\ \A p \in Pipes : pipes[p] \notin {"none", "null"} => p = dir.pipe
      /\ \A r \in Runners : runs[r] = "make" =>
           dir.pipe = 0 /\ \A i \in DOMAIN posted : posted[i].kind = "end" => posted[i].gen < dir.gen
      /\ \A i \in DOMAIN bus : Halting(i) => Halted
      /\ \A i, j \in DOMAIN bus : Halting(i) /\ Halting(j) => i = j

\* The halt is posted once, and the end is told once.
HaltsOnce ==
    dir.cur \in DPlays \ (truth.revived \cup truth.crossed) =>
      /\ told.ended[dir.cur] <= 1
      /\ Dispatching => told.ended[dir.cur] = 0
      /\ ~Dispatching /\ (Alive \/ \E i \in DOMAIN bus : Halting(i)) =>
           told.ended[dir.cur] = 0 /\ \A i \in DOMAIN posted : ~EndDue(i)
      /\ ~Dispatching => \A i, j \in DOMAIN posted : EndDue(i) /\ EndDue(j) =>
           i = j /\ told.ended[dir.cur] = 0

\* What halts or is to end the current dispatch is the end of its audio.
HaltsGone ==
    /\ \A i \in DOMAIN bus : bus[i].kind \in HaltKinds => made[bus[i].pipe] \in truth.gone
    /\ dir.cur \in DPlays \ truth.crossed /\ ~Dispatching =>
         /\ dir.pipe # 0 => made[dir.pipe] = dir.cur
         /\ \A i \in DOMAIN posted : EndDue(i) => dir.cur \in truth.gone

DirectInv == DirectShape /\ OnePipeline /\ HaltsOnce /\ HaltsGone /\ DirectHealthyKept /\ DirectEndsOnce

-----------------------------------------------------------------------------
\* A track whose pipeline ended moves the queue on, unless the host does first.
DirectSilent(n) ==
    /\ dir.cur = n /\ dir.mode = "track" /\ runs["host"] = "none" /\ dir.pipe # 0
    /\ pipes[dir.pipe] = "ended" /\ made[dir.pipe] = n
DirectSettled(n) == told.ended[n] > 0 \/ dir.cur # n \/ dir.mode # "track" \/ n \in truth.crossed
DirectSilenceOver == \A n \in DPlays : DirectSilent(n) => DirectSettled(n)
DirectSilenceEnds == []<>DirectSilenceOver
=============================================================================
