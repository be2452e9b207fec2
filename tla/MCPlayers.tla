----------------------------- MODULE MCPlayers -----------------------------
(***************************************************************************)
(* The output backends one by one in a single run: Init picks which, the   *)
(* variables v1 .. v13 are that backend's, every step is a step of it.     *)
(***************************************************************************)
EXTENDS Naturals, Sequences

CONSTANTS
    Tracks, None, MaxPlays, MaxPresses, MaxMishaps, MaxSpawns, MaxPipes, RadioCap,
    MaxTracks, MaxSessions, MaxTokens, FlowPresses

ASSUME PlayersConstants ==
    /\ None \notin Tracks /\ MaxTracks \in Nat \ {0}
    /\ {MaxPlays, MaxPresses, MaxMishaps, MaxSpawns, MaxPipes, RadioCap, MaxSessions, MaxTokens,
        FlowPresses} \subseteq Nat

VARIABLES which, v1, v2, v3, v4, v5, v6, v7, v8, v9, v10, v11, v12, v13

Cast == INSTANCE ChromecastReceiver WITH
    rx <- v1, status <- v2, cast <- v3, call <- v4, press <- v5, dog <- v6, posted <- v7,
    drops <- v8, told <- v9, truth <- v10, used <- v11
Plex == INSTANCE PlexPlayer WITH
    player <- v1, pms <- v2, plex <- v3, poll <- v4, arm <- v5, undo <- v6, queue <- v7,
    call <- v8, press <- v9, dog <- v10, told <- v11, truth <- v12, used <- v13
Air == INSTANCE AirPlaySender WITH
    procs <- v1, of <- v2, air <- v3, task <- v4, tear <- v5, confirm <- v6, told <- v7,
    truth <- v8, used <- v9, AirRadioCap <- RadioCap
Direct == INSTANCE DirectPlayer WITH
    pipes <- v1, made <- v2, bus <- v3, dir <- v4, runs <- v5, posted <- v6, told <- v7,
    truth <- v8, used <- v9, DirectCap <- RadioCap
Flow == INSTANCE CastFlow WITH
    queue <- v1, flow <- v2, dev <- v3, back <- v4, status <- v5, posted <- v6, host <- v7,
    told <- v8, truth <- v9, used <- v10, MaxPresses <- FlowPresses

From10 == <<v10, v11, v12, v13>>
From11 == <<v11, v12, v13>>
From12 == <<v12, v13>>
vars == <<which, v1, v2, v3, v4, v5, v6, v7, v8, v9, From10>>

Init ==
    \/ which = "cast" /\ Cast!CastInit /\ v12 = 0 /\ v13 = 0
    \/ which = "plex" /\ Plex!PlexInit
    \/ which = "air" /\ Air!AirInit /\ v10 = 0 /\ v11 = 0 /\ v12 = 0 /\ v13 = 0
    \/ which = "direct" /\ Direct!DirectInit /\ v10 = 0 /\ v11 = 0 /\ v12 = 0 /\ v13 = 0
    \/ which = "flow" /\ Flow!FlowInit /\ v11 = 0 /\ v12 = 0 /\ v13 = 0

Is(w) == which = w /\ which' = w
Next ==
    \/ Is("cast") /\ Cast!CastNext /\ UNCHANGED From12
    \/ Is("plex") /\ Plex!PlexNext
    \/ Is("air") /\ Air!AirNext /\ UNCHANGED From10
    \/ Is("direct") /\ Direct!DirectNext /\ UNCHANGED From10
    \/ Is("flow") /\ Flow!FlowNext /\ UNCHANGED From11

\* The fairness of the five specifications.  A behaviour is one backend's for
\* ever, so the i-th condition of every backend makes one condition (MCParts).
Duty1 ==
    \/ Is("cast") /\ Cast!Listens /\ UNCHANGED From12
    \/ Is("plex") /\ Plex!Polls
    \/ Is("air") /\ Air!Works(Air!Host) /\ UNCHANGED From10
    \/ Is("direct") /\ Direct!BusDelivers /\ UNCHANGED From10
    \/ Is("flow") /\ Flow!Pump /\ UNCHANGED From11
Duty2 ==
    \/ Is("cast") /\ (Cast!DogWakes \/ Cast!DogProbed) /\ UNCHANGED From12
    \/ Is("plex") /\ Plex!Arms
    \/ Is("air") /\ Air!Works(Air!Seek) /\ UNCHANGED From10
    \/ Is("direct") /\ Direct!LoopRuns /\ UNCHANGED From10
    \/ Is("flow") /\ Flow!DevReaches /\ UNCHANGED From11
Duty3 ==
    \/ Is("cast") /\ (Cast!HandlesEos \/ Cast!SchedulesReconnect \/ Cast!HandlesLost) /\ UNCHANGED From12
    \/ Is("plex") /\ (Plex!DogWakes \/ Plex!DogProbed)
    \/ Is("air") /\ Air!Works(1) /\ UNCHANGED From10
    \/ Is("direct") /\ (Direct!Reconnects \/ Direct!BackedOff) /\ UNCHANGED From10
    \/ Is("flow") /\ Flow!DevReports /\ UNCHANGED From11
Duty4 ==
    \/ Is("cast") /\ (Cast!PlayLoads \/ Cast!PlayReturns) /\ UNCHANGED From12
    \/ Is("plex") /\ Plex!PlayReturns
    \/ Is("air") /\ Air!Works(2) /\ UNCHANGED From10
    \/ Is("direct") /\ Direct!RunnerWorks("host") /\ UNCHANGED From10
    \/ Is("flow") /\ Flow!Listens /\ UNCHANGED From11
Duty5 ==
    \/ Is("cast") /\ (Cast!PauseDone \/ Cast!ResumeDone \/ Cast!StopDone \/ Cast!SeekDone) /\ UNCHANGED From12
    \/ Is("plex") /\ Plex!PressDone
    \/ Is("air") /\ Air!WatcherWorks(1) /\ UNCHANGED From10
    \/ Is("direct") /\ Direct!RunnerWorks("reconnect") /\ UNCHANGED From10
    \/ Is("flow") /\ Flow!Loop /\ UNCHANGED From11
Duty6 ==
    \/ Is("plex") /\ Plex!PlayerLoads
    \/ Is("air") /\ Air!WatcherWorks(2) /\ UNCHANGED From10
    \/ Is("flow") /\ Flow!Play /\ UNCHANGED From11
Duty7 == Is("air") /\ Air!Confirms /\ UNCHANGED From10
Safe == Init /\ [][Next]_vars

-----------------------------------------------------------------------------
\* Every backend's state is well formed.
TypeOK ==
    CASE which = "cast" -> Cast!CastTypeOK [] which = "plex" -> Plex!PlexTypeOK
      [] which = "air" -> Air!AirTypeOK [] which = "direct" -> Direct!DirectTypeOK
      [] which = "flow" -> Flow!FlowTypeOK

\* No backend reports the end of a play whose audio goes on, whatever reports,
\* watchdogs and tasks are left over from the plays before it, where the model did
\* not mark the play as crossed by one of these; and the AirPlay backend never
\* leaves a sender running beside the one it commands.
HealthyKept ==
    CASE which = "cast" -> Cast!CastHealthyKept [] which = "plex" -> Plex!PlexHealthyKept
      [] which = "air" -> Air!AirHealthyKept /\ Air!AirOneSender [] which = "direct" -> Direct!DirectHealthyKept
      [] which = "flow" -> TRUE

\* No backend reports the end of one play twice, so the queue moves once.
EndsOnce ==
    CASE which = "cast" -> Cast!CastEndsOnce [] which = "plex" -> Plex!PlexEndsOnce
      [] which = "air" -> Air!AirEndsOnce [] which = "direct" -> Direct!DirectEndsOnce
      [] which = "flow" -> TRUE

\* In flow mode a play is counted by what the receiver was heard to play, once.
CountsHeard == which = "flow" => Flow!FlowCountsHeard /\ Flow!FlowCountsOnce

\* A device that falls silent under a track has its end reported in the end.
SilenceOver ==
    CASE which = "cast" -> Cast!CastSilenceOver [] which = "plex" -> Plex!PlexSilenceOver
      [] which = "air" -> Air!AirSilenceOver [] which = "direct" -> Direct!DirectSilenceOver
      [] which = "flow" -> TRUE

\* A reposition the stitcher accepted is spliced into the stream, and a count
\* the receiver has reached is confirmed.
FlowOver == which = "flow" => Flow!FlowTaken /\ Flow!FlowAllCounted
=============================================================================
