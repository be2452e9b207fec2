--------------------------- MODULE AirPlaySender ---------------------------
(***************************************************************************)
(* The AirPlay backend (app/output/airplay.py): each play spawns a sender  *)
(* process with a watcher task, a command pipe and a confirm task; a       *)
(* teardown, which several tasks may run at once, takes them down.  The    *)
(* watcher routes the sender's exit: an advance, an outage or, for radio,  *)
(* a restart loop that plays again.                                        *)
(*                                                                         *)
(* A sender is numbered when it is spawned; of[s] is the dispatch it       *)
(* serves.  ffmpeg and the readers of stderr follow the sender and are     *)
(* left out.  An exit wakes the watcher before any teardown that waits for *)
(* the same exit, which asyncio guarantees by the order of the waiters.    *)
(***************************************************************************)
EXTENDS Naturals

CONSTANTS
    MaxPlays,     \* bound: dispatches
    MaxSpawns,    \* bound: senders spawned, for dispatches, seeks and restarts
    MaxPresses,   \* bound: stops and seeks
    MaxMishaps,   \* bound: crashes of a sender, failing spawns and pipes
    AirRadioCap   \* MAX_RECONNECT_ATTEMPTS

VARIABLES
    procs,     \* the state of every sender
    of,        \* the dispatch a sender was spawned for
    air,       \* the backend object
    task,      \* where play, stop, seek and the watcher of each sender are
    tear,      \* where the teardown of each of these is, with what it waits for
    confirm,   \* the confirm task: the sender and the dispatch it speaks for
    told, truth, used

airVars == <<procs, of, air, task, tear, confirm, told, truth, used>>

AirPlays == 1 .. MaxPlays
Senders == 1 .. MaxSpawns
Host == 0
Seek == MaxSpawns + 1
Tasks == {Host, Seek} \cup Senders   \* a watcher is named by its sender
NoTear == [on |-> FALSE, sender |-> 0]
Idle == [pc |-> "none", play |-> 0, sender |-> 0]

AirInit ==
    /\ procs = [s \in Senders |-> "none"] /\ of = [s \in Senders |-> 0]
    /\ air = [cur |-> 0, spawned |-> 0, proc |-> 0, writer |-> 0, playing |-> FALSE,
              stopReq |-> FALSE, handled |-> FALSE, mode |-> "off", next |-> "track",
              url |-> 0, restarting |-> FALSE, attempts |-> 0]
    /\ task = [t \in Tasks |-> Idle] /\ tear = [t \in Tasks |-> NoTear]
    /\ confirm = Idle
    /\ told = [ended |-> [n \in AirPlays |-> 0], heard |-> {}, failed |-> 0]
    /\ truth = [gone |-> {}, crossed |-> {}, stopped |-> FALSE]
    /\ used = [presses |-> 0, mishaps |-> 0]

Mishap == used.mishaps < MaxMishaps /\ used' = [used EXCEPT !.mishaps = @ + 1]
Pressed == used.presses < MaxPresses /\ used' = [used EXCEPT !.presses = @ + 1]
At(t, pc) == task[t].pc = pc
Goes(t, pc) ==
    task' = [task EXCEPT ![t] = IF pc \in {"none", "done"} THEN [Idle EXCEPT !.pc = pc]
                                ELSE [@ EXCEPT !.pc = pc]]

-----------------------------------------------------------------------------
(* Senders and their watchers *)

\* A sender reaches the end of its input or crashes.
SenderExits(s) ==
    /\ procs[s] = "running"
    /\ \/ procs' = [procs EXCEPT ![s] = "ended"] /\ used' = used
       \/ procs' = [procs EXCEPT ![s] = "crashed"] /\ Mishap
    /\ truth' = [truth EXCEPT !.gone = @ \cup {of[s]}]
    /\ UNCHANGED <<of, air, task, tear, confirm, told>>

Dead(s) == s \in Senders => procs[s] \in {"ended", "crashed", "killed"}

\* _process_watcher_body: an exit that a stop asked for, or that another exit
\* was handled for, is passed over.  Radio restarts; a track is torn down in a
\* task of its own while the exit is reported.
Expected == air.stopReq \/ air.handled
WatcherWakes(s) ==
    /\ At(s, "wait") /\ Dead(s)
    /\ IF Expected
       THEN /\ Goes(s, "done") /\ UNCHANGED <<air, tear, told, truth>>
       ELSE /\ air' = [air EXCEPT !.handled = TRUE, !.playing = FALSE,
                                  !.restarting = @ \/ (air.mode = "radio")]
            /\ IF air.mode = "radio"
               THEN /\ task' = [task EXCEPT ![s] = [Idle EXCEPT !.pc = "restart", !.play = air.url]]
                    /\ UNCHANGED <<tear, told>>
               ELSE /\ Goes(s, "eos")
                    /\ tear' = [tear EXCEPT ![s] = [on |-> TRUE, sender |-> s]]
                    /\ told' = [told EXCEPT !.ended[air.cur] = @ + 1]
            /\ truth' = IF procs[s] = "killed" \/ of[s] # air.cur
                        THEN [truth EXCEPT !.crossed = AirPlays] ELSE truth
    /\ UNCHANGED <<procs, of, confirm, used>>

-----------------------------------------------------------------------------
(* _teardown *)

\* The sender is asked to stop and is terminated.  A teardown whose waits are
\* over runs to its end before anything else gets as far as a new sender.
Tears(t) ==
    /\ tear' = [tear EXCEPT ![t] = [on |-> TRUE, sender |-> air.proc]]
    /\ procs' = [s \in Senders |-> IF s = air.proc /\ procs[s] = "running" THEN "killed"
                                   ELSE procs[s]]

\* It is gone, and so are the handles, whatever they refer to by now.
TornDown(t) ==
    /\ tear[t].on /\ Dead(tear[t].sender)
    /\ tear[t].sender # 0 => ~At(tear[t].sender, "wait")
    /\ tear' = [tear EXCEPT ![t] = NoTear]
    /\ air' = [air EXCEPT !.proc = 0, !.writer = 0, !.url = 0, !.playing = FALSE,
                          !.mode = IF air.restarting THEN @ ELSE "off"]
    /\ confirm' = Idle
    /\ \E next \in {<<"torn", "spawn">>, <<"stopping", "none">>, <<"eos", "done">>,
                    <<"restarting", "backoff">>, <<"offline", "failed">>, <<"aborting", "raised">>} :
         At(t, next[1]) /\ Goes(t, next[2])
    /\ UNCHANGED <<procs, of, told, truth, used>>

-----------------------------------------------------------------------------
(* play, for a dispatch, a seek or a restart *)

\* A running session is torn down first.  Nothing keeps a seek or a restart
\* apart from another call, which truth notes.
Overlaps(t) == \E u \in Tasks \ {t} : task[u].pc \notin {"none", "wait", "eos", "done"}

\* Fault variant: the running sender is left to itself.
EntersRunning(t, n) ==
    /\ task' = [task EXCEPT ![t] = [Idle EXCEPT !.pc = "spawn", !.play = n]]
    /\ UNCHANGED <<truth, tear, procs>>

Enters(t, n) ==
    /\ truth' = [truth EXCEPT
                    !.crossed = IF Overlaps(t) \/ (t = Seek /\ told.ended[n] > 0) THEN AirPlays ELSE @,
                    !.stopped = @ /\ t # Host]
    /\ IF air.playing \/ air.proc # 0
       THEN task' = [task EXCEPT ![t] = [Idle EXCEPT !.pc = "torn", !.play = n]] /\ Tears(t)
       ELSE task' = [task EXCEPT ![t] = [Idle EXCEPT !.pc = "spawn", !.play = n]]
              /\ UNCHANGED <<tear, procs>>

PlayStarts(mode) ==
    /\ At(Host, "none") /\ air.cur < MaxPlays
    /\ Enters(Host, air.cur + 1)
    /\ air' = [air EXCEPT !.cur = @ + 1, !.next = mode]
    /\ UNCHANGED <<of, confirm, told, used>>

\* The protocol is read from the settings, which outlasts an ending teardown;
\* the session's state is set and the sender is spawned.
Spawns(t) ==
    /\ At(t, "spawn") /\ air.spawned < MaxSpawns
    /\ \A s \in Senders : At(s, "eos") => ~tear[s].on
    /\ LET n == task[t].play
           s == air.spawned + 1
           mode == IF t = Host THEN air.next ELSE IF t = Seek THEN air.mode ELSE "radio"
           set == [air EXCEPT !.url = n, !.mode = mode, !.spawned = s,
                              !.attempts = IF mode = "radio" /\ ~air.restarting THEN 0 ELSE @]
       IN \/ /\ air' = [set EXCEPT !.proc = s]
             /\ procs' = [procs EXCEPT ![s] = "running"]
             /\ of' = [of EXCEPT ![s] = n]
             /\ task' = [task EXCEPT ![t].pc = "pipe", ![s] = [Idle EXCEPT !.pc = "wait", !.play = n]]
             /\ truth' = [truth EXCEPT !.crossed = IF n # air.cur THEN @ \cup {n, air.cur} ELSE @]
             /\ UNCHANGED <<tear, used>>
          \/ /\ Mishap /\ air' = set /\ Tears(t) /\ Goes(t, "aborting")
             /\ UNCHANGED <<of, truth>>
    /\ UNCHANGED <<confirm, told>>

\* Fault variant: the exit handled for the sender before stays handled.
PipeOpensHandled(t) ==
    /\ At(t, "pipe")
    /\ air' = [air EXCEPT !.writer = air.proc, !.playing = TRUE, !.stopReq = FALSE]
    /\ confirm' = [pc |-> "sleep", play |-> air.cur, sender |-> air.proc]
    /\ Goes(t, IF t \in Senders THEN "done" ELSE "none")
    /\ UNCHANGED <<procs, of, tear, told, truth, used>>

\* The sender opened its end of the command pipe; from here its exit counts.
PipeOpens(t) ==
    /\ At(t, "pipe")
    /\ air' = [air EXCEPT !.writer = air.proc, !.playing = TRUE, !.stopReq = FALSE,
                          !.handled = FALSE,
                          !.restarting = IF t \in Senders THEN FALSE ELSE @]
    /\ confirm' = [pc |-> "sleep", play |-> air.cur, sender |-> air.proc]
    /\ Goes(t, IF t \in Senders THEN "done" ELSE "none")
    /\ UNCHANGED <<procs, of, tear, told, truth, used>>

\* It never does: play raises and leaves the session as it is.
PipeTimesOut(t) ==
    /\ At(t, "pipe") /\ Mishap
    /\ Goes(t, "raised")
    /\ UNCHANGED <<procs, of, air, tear, confirm, told, truth>>

\* A failed dispatch is the caller's; a failed restart is the next attempt's.
Raises(t) ==
    /\ At(t, "raised")
    /\ Goes(t, IF t \in Senders THEN "restart" ELSE "none")
    /\ truth' = [truth EXCEPT !.gone = @ \cup {air.cur}]
    /\ UNCHANGED <<procs, of, air, tear, confirm, told, used>>

\* _confirm_start_body, after the startup delay.
Confirms ==
    /\ confirm.pc = "sleep"
    /\ confirm' = Idle
    /\ told' = IF ~air.stopReq /\ air.playing /\ confirm.sender = air.proc /\ ~Dead(air.proc)
               THEN [told EXCEPT !.heard = @ \cup {confirm.play}] ELSE told
    /\ UNCHANGED <<procs, of, air, task, tear, truth, used>>

-----------------------------------------------------------------------------
(* The radio restart loop and the transport *)

\* _radio_restart: the mode is looked at before the backoff only.
Restarts(s) ==
    /\ At(s, "restart")
    /\ \/ /\ air.mode # "radio"
          /\ Goes(s, "done") /\ air' = [air EXCEPT !.restarting = FALSE]
          /\ UNCHANGED <<tear, procs>>
       \/ /\ air.mode = "radio"
          /\ air' = [air EXCEPT !.attempts = IF @ < AirRadioCap THEN @ + 1 ELSE @]
          /\ Goes(s, IF air.attempts < AirRadioCap THEN "restarting" ELSE "offline")
          /\ Tears(s)
    /\ UNCHANGED <<of, confirm, told, truth, used>>

RestartPlays(s) ==
    /\ At(s, "backoff")
    /\ Enters(s, task[s].play)
    /\ UNCHANGED <<of, air, confirm, told, used>>

RestartFails(s) ==
    /\ At(s, "failed")
    /\ Goes(s, "done")
    /\ air' = [air EXCEPT !.restarting = FALSE]
    /\ told' = [told EXCEPT !.failed = @ + 1]
    /\ UNCHANGED <<procs, of, tear, confirm, truth, used>>

Stops ==
    /\ At(Host, "none") /\ air.cur > 0 /\ Pressed
    /\ air' = [air EXCEPT !.stopReq = TRUE, !.mode = "off", !.url = 0]
    /\ Goes(Host, "stopping") /\ Tears(Host)
    /\ truth' = IF Overlaps(Host)
                THEN [truth EXCEPT !.stopped = TRUE, !.crossed = AirPlays]
                ELSE [truth EXCEPT !.stopped = TRUE]
    /\ UNCHANGED <<of, confirm, told>>

\* seek plays the loaded track again, and no lock keeps it from a dispatch.
Seeks ==
    /\ At(Seek, "none") /\ air.url # 0 /\ Pressed
    /\ air' = [air EXCEPT !.stopReq = TRUE]
    /\ Enters(Seek, air.url)
    /\ UNCHANGED <<of, confirm, told>>

AirNext ==
    \/ \E s \in Senders : \/ SenderExits(s) \/ WatcherWakes(s) \/ Restarts(s)
                          \/ RestartPlays(s) \/ RestartFails(s)
    \/ \E t \in Tasks : \/ TornDown(t) \/ Spawns(t)
                        \/ PipeOpens(t) \/ PipeTimesOut(t) \/ Raises(t)
    \/ \E mode \in {"track", "radio"} : PlayStarts(mode)
    \/ Confirms \/ Stops \/ Seeks

Works(t) == TornDown(t) \/ Spawns(t) \/ PipeOpens(t) \/ Raises(t)
WatcherWorks(s) == WatcherWakes(s) \/ Restarts(s) \/ RestartPlays(s) \/ RestartFails(s)
AirFair == /\ \A t \in Tasks : WF_airVars(Works(t))
           /\ \A s \in Senders : WF_airVars(WatcherWorks(s))
           /\ WF_airVars(Confirms)
AirSpec == AirInit /\ [][AirNext]_airVars /\ AirFair

-----------------------------------------------------------------------------
AirTypeOK ==
    /\ air.proc \in 0 .. MaxSpawns /\ air.mode \in {"off", "track", "radio"}
    /\ air.attempts \in 0 .. AirRadioCap
    /\ told.heard \subseteq AirPlays
    /\ \A t \in Tasks : ~tear[t].on => ~At(t, "torn") /\ ~At(t, "stopping") /\ ~At(t, "restarting")

\* A dispatch is not ended while its sender plays, unless an exit was laid at
\* its door.
AirHealthyKept == \A n \in AirPlays : told.ended[n] > 0 => n \in truth.gone \cup truth.crossed

AirEndsOnce == \A n \in AirPlays \ truth.crossed : told.ended[n] <= 1

\* Once nothing is under way, commands go to the sender that plays and no
\* other sender is left running.
Settled == \A t \in Tasks : ~tear[t].on /\ task[t].pc \in {"none", "wait", "done"}
AirOneSender ==
    Settled /\ truth.crossed = {} => /\ air.playing => air.writer = air.proc
                                     /\ \A s \in Senders : procs[s] = "running" => s = air.proc

-----------------------------------------------------------------------------
(* Why the three hold: the inductive invariant of the proofs in PlayersProofs. *)
(* A dispatch is clean until a restart or a seek overlaps it.                  *)

Clean == air.cur \notin truth.crossed
Busy(t) == task[t].pc \notin {"none", "wait", "eos", "done"}
Entering(t) == task[t].pc \in {"torn", "spawn"}
Waits(s) == task[s].pc = "wait" /\ of[s] = air.cur

RecordsTyped ==
    /\ DOMAIN air = {"cur", "spawned", "proc", "writer", "playing", "stopReq", "handled", "mode", "next",
                     "url", "restarting", "attempts"}
    /\ DOMAIN told = {"ended", "heard", "failed"} /\ DOMAIN truth = {"gone", "crossed", "stopped"}
    /\ DOMAIN procs = Senders /\ DOMAIN of = Senders /\ DOMAIN task = Tasks /\ DOMAIN tear = Tasks
    /\ \A t \in Tasks : DOMAIN task[t] = {"pc", "play", "sender"} /\ DOMAIN tear[t] = {"on", "sender"}
NumbersTyped ==
    /\ air.cur \in 0 .. MaxPlays /\ air.spawned \in 0 .. MaxSpawns /\ air.url \in 0 .. air.cur
    /\ \A t \in Tasks : task[t].play \in 0 .. air.cur
    /\ \A s \in Senders : of[s] \in 0 .. air.cur /\ (s > air.spawned => task[s].pc = "none")
    /\ told.ended \in [AirPlays -> Nat]
    /\ \A n \in AirPlays : n > air.cur => told.ended[n] = 0
TearsTyped ==
    \A t \in Tasks :
      /\ tear[t].on => task[t].pc \in {"torn", "stopping", "eos", "restarting", "offline", "aborting"}
      /\ task[t].pc = "eos" => t \in Senders
      /\ air.cur = 0 => task[t].pc = "none"
AirShape == RecordsTyped /\ NumbersTyped /\ TearsTyped

\* Who is about to spawn is alone, and what it spawns for has not ended.
EntersAlone == Clean => \A t \in Tasks : Entering(t) => \A u \in Tasks \ {t} : ~Busy(u)
EntersFresh ==
    Clean =>
      /\ Entering(Host) => told.ended[air.cur] = 0 /\ \A s \in Senders : of[s] # air.cur
      /\ Entering(Seek) => air.stopReq /\ (task[Seek].play = air.cur => told.ended[air.cur] = 0)
      /\ \A t \in Tasks : At(t, "spawn") \/ (t \in Senders /\ task[t].pc \in {"torn", "backoff"}) =>
           \A s \in Senders : ~Waits(s)

\* One watcher waits for the dispatch, and every teardown under way waits for
\* the same sender.
OneWaiter ==
    Clean => \A s \in Senders : Waits(s) =>
      /\ s = air.proc /\ told.ended[air.cur] = 0
      /\ \A t \in Tasks : tear[t].on => tear[t].sender = s
      /\ \A u \in Senders : Busy(u) => air.mode = "radio"
RestartsUnended == Clean => \A s \in Senders : Busy(s) => told.ended[air.cur] = 0

ExitsGone == \A s \in Senders : procs[s] \in {"ended", "crashed"} => of[s] \in truth.gone

\* At most one sender runs, and none from a teardown to the next spawn.
OneRuns ==
    truth.crossed = {} =>
      /\ \A s \in Senders : procs[s] = "running" => s = air.proc
      /\ \A t \in Tasks : tear[t].on \/ At(t, "spawn") => \A s \in Senders : procs[s] # "running"
      /\ \A t \in Tasks : At(t, "spawn") => ~air.playing
      /\ air.playing => air.writer = air.proc

AirInv ==
    /\ AirShape /\ EntersAlone /\ EntersFresh /\ OneWaiter /\ RestartsUnended /\ ExitsGone /\ OneRuns
    /\ AirHealthyKept /\ AirEndsOnce

-----------------------------------------------------------------------------
\* A track that was heard and whose sender then exits is reported, unless the
\* host moves on first.
AirSilent(n) ==
    /\ air.cur = n /\ air.mode = "track" /\ n \in told.heard
    /\ \E s \in Senders : of[s] = n /\ air.proc = s /\ procs[s] \in {"ended", "crashed"}
AirSettled(n) == told.ended[n] > 0 \/ air.cur # n \/ air.stopReq \/ n \in truth.crossed
AirSilenceOver == \A n \in AirPlays : AirSilent(n) => AirSettled(n)
AirSilenceEnds == []<>AirSilenceOver

\* "a stop raced us - nothing to restart": once stop has returned nothing plays
\* until the next dispatch.
AirStopStays == truth.stopped /\ At(Host, "none") => \A s \in Senders : procs[s] # "running"

\* The exit of a sender the backend itself terminated is nobody's crash or end.
AirKilledUnreported ==
    \A s \in Senders : procs[s] = "killed" => task[s].pc \in {"wait", "done"}
=============================================================================
