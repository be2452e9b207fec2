---------------------------- MODULE ServerFedHost ----------------------------
(***************************************************************************)
(* Turning the embedded Snapcast server on and off.  A toggle builds the   *)
(* backend, which starts a supervised snapserver and connects to it; a     *)
(* failed start undoes what it did.  The supervisor restarts a server that *)
(* dies, within a budget.  No lock orders two toggles.                     *)
(***************************************************************************)
EXTENDS Naturals, FiniteSets

CONSTANTS
    MaxToggles,   \* bound: toggles pressed
    MaxRestarts,  \* _MAX_CONSECUTIVE_RESTARTS
    MaxCrashes    \* bound: servers that die, starts and connects that fail

VARIABLES
    reg,      \* _server_fed_backends: the instance registered, 0 if none
    enabled,  \* _server_fed_enabled
    saved,    \* the flag in the database
    inst,     \* the instances: _connected and their supervisor, 0 if none
    sup,      \* the supervisors, each with its runner and its process
    tog,      \* the toggles
    truth     \* how many toggles and crashes there were; whether toggles overlapped
hostVars == <<reg, enabled, saved, inst, sup, tog, truth>>

Toggles == 1 .. MaxToggles
NoInst == [on |-> FALSE, sup |-> 0]
NoSup == [stop |-> FALSE, running |-> FALSE, runner |-> "none", proc |-> "none", fails |-> 0]
ServerFedInit ==
    /\ reg = 0 /\ enabled = FALSE /\ saved = FALSE
    /\ inst = [i \in Toggles |-> NoInst] /\ sup = [s \in Toggles |-> NoSup]
    /\ tog = [t \in Toggles |-> [pc |-> "free", kind |-> "on", inst |-> 0, sup |-> 0]]
    /\ truth = [pressed |-> 0, crashes |-> 0, crossed |-> FALSE]

Busy == \E t \in Toggles : tog[t].pc \notin {"free", "done"}
AliveServer(s) == sup[s].proc \in {"starting", "ready"}
PortsFree == \A s \in Toggles : ~AliveServer(s)
Goes(t, pc) == tog' = [tog EXCEPT ![t].pc = pc]
Crashes == truth.crashes < MaxCrashes /\ truth' = [truth EXCEPT !.crashes = @ + 1]

\* A stop of the supervisor: its flag, its runner cancelled.
Flagged(s) == [sup[s] EXCEPT !.stop = TRUE, !.running = FALSE, !.runner = "none"]
\* ... and its process reaped.
Killed(s) == IF s = 0 THEN sup ELSE [sup EXCEPT ![s].proc = "none"]

-----------------------------------------------------------------------------
(* Turning it on.  "again" is a reconfiguration: off, unsaved, then on. *)

\* A second enable of a started backend starts nothing.
Enables(t, rg) ==
    LET i == IF rg = 0 THEN t ELSE rg
    IN /\ reg' = i
       /\ IF inst[i].on THEN enabled' = TRUE /\ tog' = [tog EXCEPT ![t].pc = "save", ![t].inst = i]
          ELSE UNCHANGED enabled /\ tog' = [tog EXCEPT ![t].pc = "config", ![t].inst = i]
DisablesShown(t) ==
    /\ reg' = 0 /\ UNCHANGED enabled
    /\ tog' = [tog EXCEPT ![t].pc = IF reg = 0 THEN "off" ELSE "stopping", ![t].inst = reg]
Disables(t) ==
    /\ reg' = 0 /\ enabled' = FALSE
    /\ tog' = [tog EXCEPT ![t].pc = IF reg = 0 THEN "off" ELSE "stopping", ![t].inst = reg]
Press(t) ==
    /\ tog[t].pc = "free" /\ truth.pressed = t - 1
    /\ truth' = [truth EXCEPT !.pressed = t, !.crossed = @ \/ Busy]
    /\ UNCHANGED <<saved, inst, sup>>
TogglesOn(t) == Press(t) /\ Enables(t, reg)
TogglesOff(t) == Press(t) /\ Disables(t)
\* Only an enabled one is turned off before.
Reconfigures(t) ==
    /\ Press(t)
    /\ IF enabled
       THEN /\ reg' = 0 /\ enabled' = FALSE
            /\ tog' = [tog EXCEPT ![t] = [pc |-> IF reg = 0 THEN "reenable" ELSE "stopping",
                                         kind |-> "again", inst |-> reg, sup |-> 0]]
       ELSE Enables(t, reg)

Configured(t) ==
    /\ tog[t].pc = "config" /\ inst' = [inst EXCEPT ![tog[t].inst].sup = t] /\ Goes(t, "ports")
    /\ UNCHANGED <<reg, enabled, saved, sup, truth>>
\* What is undone is what the instance holds now.
Undoes(t, sp) ==
    LET s == inst[tog[t].inst].sup
    IN /\ inst' = [inst EXCEPT ![tog[t].inst].on = FALSE]
       /\ sup' = IF s = 0 THEN sp ELSE [sp EXCEPT ![s] = Flagged(s)]
       /\ tog' = [tog EXCEPT ![t].pc = "undo", ![t].sup = s]
Preflights(t) ==
    /\ tog[t].pc = "ports"
    /\ IF PortsFree THEN sup' = [sup EXCEPT ![t].proc = "starting"] /\ Goes(t, "marker") /\ UNCHANGED inst
       ELSE Undoes(t, sup)
    /\ UNCHANGED <<reg, enabled, saved, truth>>
\* The banner and the grace: from here the runner watches the process.
Ready(t) ==
    /\ tog[t].pc = "marker" /\ sup[t].proc = "starting" /\ Goes(t, "control")
    /\ sup' = [sup EXCEPT ![t].proc = "ready", ![t].running = TRUE,
                          ![t].runner = IF sup[t].stop THEN "none" ELSE "watch"]
    /\ UNCHANGED <<reg, enabled, saved, inst, truth>>
\* It exits or times out, or a stop has taken it away; the start reaps it itself.
StartFails(t) ==
    /\ tog[t].pc = "marker"
    /\ IF sup[t].proc = "none" THEN UNCHANGED truth ELSE Crashes
    /\ Undoes(t, [sup EXCEPT ![t].proc = "none"]) /\ UNCHANGED <<reg, enabled, saved>>
ControlUp(t) ==
    /\ tog[t].pc = "control" /\ sup[t].proc = "ready" /\ Goes(t, "save") /\ enabled' = TRUE
    /\ inst' = [inst EXCEPT ![tog[t].inst].on = TRUE]
    /\ UNCHANGED <<reg, saved, sup, truth>>
ControlFails(t) ==
    /\ tog[t].pc = "control"
    /\ IF sup[t].proc = "ready" THEN Crashes ELSE UNCHANGED truth
    /\ Undoes(t, sup) /\ UNCHANGED <<reg, enabled, saved>>
\* The instance goes from the registry, whichever is there, and nothing is saved.
Undone(t) ==
    /\ tog[t].pc = "undo"
    /\ sup' = Killed(tog[t].sup) /\ inst' = [inst EXCEPT ![tog[t].inst].sup = 0]
    /\ reg' = 0 /\ enabled' = FALSE /\ Goes(t, "done") /\ UNCHANGED <<saved, truth>>
Saves(t) ==
    /\ tog[t].pc = "save" /\ saved' = TRUE /\ Goes(t, "done")
    /\ UNCHANGED <<reg, enabled, inst, sup, truth>>

-----------------------------------------------------------------------------
(* Turning it off. *)

StopsFeed(t) ==
    /\ tog[t].pc = "stopping"
    /\ inst' = [inst EXCEPT ![tog[t].inst].on = FALSE] /\ sup' = IF inst[tog[t].inst].sup = 0 THEN sup
              ELSE [sup EXCEPT ![inst[tog[t].inst].sup] = Flagged(inst[tog[t].inst].sup)]
    /\ tog' = [tog EXCEPT ![t].pc = "reaping", ![t].sup = inst[tog[t].inst].sup]
    /\ UNCHANGED <<reg, enabled, saved, truth>>
ReapedKeeps(t) ==
    /\ tog[t].pc = "reaping" /\ UNCHANGED sup
    /\ inst' = [inst EXCEPT ![tog[t].inst].sup = 0]
    /\ Goes(t, IF tog[t].kind = "again" THEN "reenable" ELSE "off")
    /\ UNCHANGED <<reg, enabled, saved, truth>>
Reaped(t) ==
    /\ tog[t].pc = "reaping"
    /\ sup' = Killed(tog[t].sup) /\ inst' = [inst EXCEPT ![tog[t].inst].sup = 0]
    /\ Goes(t, IF tog[t].kind = "again" THEN "reenable" ELSE "off")
    /\ UNCHANGED <<reg, enabled, saved, truth>>
SavesOff(t) ==
    /\ tog[t].pc = "off" /\ saved' = FALSE /\ Goes(t, "done")
    /\ UNCHANGED <<reg, enabled, inst, sup, truth>>
Reenables(t) ==
    /\ tog[t].pc = "reenable" /\ Enables(t, reg) /\ UNCHANGED <<saved, inst, sup, truth>>

-----------------------------------------------------------------------------
(* The supervisor's runner. *)

Dies(s) ==
    /\ sup[s].proc = "ready" /\ Crashes /\ sup' = [sup EXCEPT ![s].proc = "dead"]
    /\ UNCHANGED <<reg, enabled, saved, inst, tog>>
SeesExit(s) ==
    /\ sup[s].runner = "watch" /\ sup[s].proc = "dead"
    /\ sup' = [sup EXCEPT ![s].runner = "delay", ![s].running = FALSE]
    /\ UNCHANGED <<reg, enabled, saved, inst, tog, truth>>
\* The control port is checked, and the spawn made either way.
Respawns(s) ==
    /\ sup[s].runner = "delay"
    /\ sup' = [sup EXCEPT ![s].runner = "spawning", ![s].proc = IF PortsFree THEN "starting" ELSE "dead"]
    /\ UNCHANGED <<reg, enabled, saved, inst, tog, truth>>
RestartedUnwatched(s) ==
    /\ sup[s].runner = "spawning" /\ sup[s].proc = "starting"
    /\ sup' = [sup EXCEPT ![s].runner = "none", ![s].proc = "ready", ![s].running = TRUE, ![s].fails = 0]
    /\ UNCHANGED <<reg, enabled, saved, inst, tog, truth>>
Restarted(s) ==
    /\ sup[s].runner = "spawning" /\ sup[s].proc = "starting"
    /\ sup' = [sup EXCEPT ![s].runner = "watch", ![s].proc = "ready", ![s].running = TRUE, ![s].fails = 0]
    /\ UNCHANGED <<reg, enabled, saved, inst, tog, truth>>
RestartFails(s) ==
    /\ sup[s].runner = "spawning"
    /\ IF sup[s].proc = "starting" THEN Crashes ELSE UNCHANGED truth
    /\ sup' = [sup EXCEPT ![s].proc = "none", ![s].fails = @ + 1,
                          ![s].runner = IF sup[s].fails + 1 < MaxRestarts THEN "delay" ELSE "none"]
    /\ UNCHANGED <<reg, enabled, saved, inst, tog>>

Turns(t) ==
    \/ Configured(t) \/ Preflights(t) \/ Ready(t) \/ StartFails(t) \/ ControlUp(t) \/ ControlFails(t)
    \/ Undone(t) \/ Saves(t) \/ StopsFeed(t) \/ Reaped(t) \/ SavesOff(t) \/ Reenables(t)
Runs(s) == SeesExit(s) \/ Respawns(s) \/ Restarted(s) \/ RestartFails(s)
ServerFedNext ==
    \E n \in Toggles : TogglesOn(n) \/ TogglesOff(n) \/ Reconfigures(n) \/ Turns(n) \/ Runs(n) \/ Dies(n)
ServerFedSpec == ServerFedInit /\ [][ServerFedNext]_hostVars
HostWorks == \E n \in Toggles : Turns(n) \/ Runs(n)
ServerFedFair == WF_hostVars(HostWorks)
ServerFedFairSpec == ServerFedSpec /\ ServerFedFair

-----------------------------------------------------------------------------
ServerFedTypeOK ==
    /\ reg \in 0 .. MaxToggles /\ {enabled, saved} \subseteq BOOLEAN
    /\ \A s \in Toggles : sup[s].fails \in 0 .. MaxRestarts /\ inst[s].sup \in 0 .. MaxToggles
\* A server lives only under the backend that is registered and connected:
\* whatever start failed and whenever a server died, none is left on the ports.
\* (Toggles pressed over one another do leave one: see OrphanFree.)
ServerOwned ==
    ~Busy /\ ~truth.crossed =>
        \A s \in Toggles : AliveServer(s) => reg # 0 /\ inst[reg].on /\ inst[reg].sup = s
\* The host shows it as enabled exactly when a connected backend is there, and
\* then the flag was saved.
EnabledIsReal ==
    ~Busy /\ ~truth.crossed => (enabled <=> reg # 0 /\ inst[reg].on) /\ (enabled => saved)
\* A server that died comes back, is given up within the budget, or was stopped.
CrashLingers == \E s \in Toggles :
    sup[s].proc = "dead" /\ ~sup[s].stop /\ sup[s].fails # MaxRestarts
CrashSettles == []<>~CrashLingers
OrphanFree == ~Busy => \A s \in Toggles : AliveServer(s) => reg # 0 /\ inst[reg].sup = s
=============================================================================
