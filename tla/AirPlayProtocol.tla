--------------------------- MODULE AirPlayProtocol ---------------------------
(***************************************************************************)
(* Which AirPlay generation a speaker is driven with (output/airplay.py):  *)
(* the probes that run cliap2 against a silent input and store "ap2" or    *)
(* "ap1" per device, the play that reads the stored value, the admin's     *)
(* "No audio?" and Re-test (api/admin.py), and the label the admin page    *)
(* keeps from the event that follows each of them.                         *)
(*                                                                         *)
(* A probe that nobody forced looks at the stored value three times: before *)
(* it queues for the device's lock, when it holds it, and once more when    *)
(* the subprocess has answered.                                            *)
(***************************************************************************)
EXTENDS Integers, Sequences, FiniteSets

CONSTANTS Speakers,  \* devices whose TXT record advertises AirPlay 2
          None,
          Slots,     \* _AIRPLAY_PROBE_CONCURRENCY
          MaxProbes, \* probe tasks: scans, the picker's probes, re-tests
          MaxPlays, MaxPresses,
          MaxFaults  \* database writes and plays that raise

VARIABLES stored,   \* [speaker -> "ap1", "ap2" or None]: the setting
          probes,   \* probe tasks in the order they reached the lock
          device,   \* the speaker the backend is set to
          playing,  \* the binary that plays on it, or None
          press,    \* the "No audio?" request: [pc, dev]
          label,    \* what the admin page shows of a speaker
          user,     \* [speaker -> whether the user decided "ap1"]
          crossed,  \* speakers whose decision met a probe past its last look, or a re-test
          runs,     \* [speaker -> unforced runs of cliap2]
          spent     \* what the bounds count
protocolVars == <<stored, probes, device, playing, press, label, user, crossed, runs, spent>>

Free == [pc |-> "idle", dev |-> None]
ProtocolInit ==
    /\ stored \in [Speakers -> {None, "ap1", "ap2"}]
    /\ probes = <<>> /\ device \in Speakers /\ playing = None
    /\ press = Free
    /\ label = stored
    /\ user = [d \in Speakers |-> FALSE] /\ crossed = {}
    /\ runs = [d \in Speakers |-> 0]
    /\ spent = [probes |-> 0, plays |-> 0, presses |-> 0, faults |-> 0]

Spends(k, max) == spent[k] < max /\ spent' = [spent EXCEPT ![k] = @ + 1]
Step(i, pc) == [probes EXCEPT ![i].pc = pc]
Drop(i) == SubSeq(probes, 1, i - 1) \o SubSeq(probes, i + 1, Len(probes))
At(i, pc) == i \in DOMAIN probes /\ probes[i].pc = pc

(***************************************************************************)
(* Probes.                                                                 *)
(***************************************************************************)
\* _probe_device_if_unprobed of a scan, probe_device of the picker: the first
\* look.  Re-test skips it, and is refused while the speaker plays.
Looks(d) ==
    /\ Spends("probes", MaxProbes)
    /\ IF stored[d] # None THEN UNCHANGED probes
       ELSE probes' = Append(probes, [dev |-> d, force |-> FALSE, pc |-> "lock", verdict |-> None])
    /\ UNCHANGED <<stored, device, playing, press, label, user, crossed, runs>>
Retests(d) ==
    /\ Spends("probes", MaxProbes)
    /\ ~(device = d /\ playing # None)
    /\ probes' = Append(probes, [dev |-> d, force |-> TRUE, pc |-> "lock", verdict |-> None])
    /\ crossed' = crossed \cup {d}
    /\ UNCHANGED <<stored, device, playing, press, label, user, runs>>
\* The lock is fair: no earlier probe of this device is still there.
Granted(i) == \A j \in 1 .. i - 1 : probes[j].dev # probes[i].dev
\* The look under the lock forgotten.
LooksNot(i) ==
    /\ At(i, "lock") /\ Granted(i)
    /\ probes' = Step(i, "slot")
    /\ UNCHANGED <<stored, device, playing, press, label, user, crossed, runs, spent>>
LooksAgain(i) ==
    /\ At(i, "lock") /\ Granted(i)
    /\ probes' = IF ~probes[i].force /\ stored[probes[i].dev] # None THEN Drop(i)
                 ELSE Step(i, "slot")
    /\ UNCHANGED <<stored, device, playing, press, label, user, crossed, runs, spent>>
Running == {i \in DOMAIN probes : probes[i].pc = "runs"}
Spawns(i) ==
    /\ At(i, "slot") /\ Cardinality(Running) < Slots
    /\ probes' = Step(i, "runs")
    /\ runs' = [runs EXCEPT ![probes[i].dev] = IF probes[i].force THEN @ ELSE @ + 1]
    /\ UNCHANGED <<stored, device, playing, press, label, user, crossed, spent>>
\* A failure marker, a bad exit or no FIFO says "ap1"; silence says "ap2".
RunEnds(i) ==
    /\ i \in Running
    /\ \E v \in {"ap1", "ap2"} :
         probes' = [Step(i, IF probes[i].force THEN "writes" ELSE "looks") EXCEPT ![i].verdict = v]
    /\ UNCHANGED <<stored, device, playing, press, label, user, crossed, runs, spent>>
DiffersNot(i) == FALSE
\* The last look: a value written meanwhile stays.
Differs(i) == stored[probes[i].dev] \notin {None, probes[i].verdict}
LastLook(i) ==
    /\ At(i, "looks")
    /\ probes' = IF Differs(i) THEN Drop(i) ELSE Step(i, "writes")
    /\ UNCHANGED <<stored, device, playing, press, label, user, crossed, runs, spent>>
Writes(i) ==
    /\ At(i, "writes")
    /\ stored' = [stored EXCEPT ![probes[i].dev] = probes[i].verdict]
    /\ user' = [user EXCEPT ![probes[i].dev] = @ /\ ~probes[i].force]
    /\ probes' = Step(i, "tells")
    /\ UNCHANGED <<device, playing, press, label, crossed, runs, spent>>
\* The database refuses: the caller logs it and nothing is stored.
WriteRaises(i) ==
    /\ At(i, "writes") /\ Spends("faults", MaxFaults)
    /\ probes' = Drop(i)
    /\ runs' = [runs EXCEPT ![probes[i].dev] = 0]
    /\ UNCHANGED <<stored, device, playing, press, label, user, crossed>>
Told(i) ==
    /\ At(i, "tells")
    /\ label' = [label EXCEPT ![probes[i].dev] = probes[i].verdict]
    /\ probes' = Drop(i)
    /\ UNCHANGED <<stored, device, playing, press, user, crossed, runs, spent>>

(***************************************************************************)
(* Playing, and "No audio?", which holds the advance lock to its end.      *)
(***************************************************************************)
\* The setting read as the TXT record would have it.
BinaryByTxt(d) == "cliap2"
Binary(d) == IF stored[d] = "ap1" THEN "cliraop" ELSE "cliap2"
Plays ==
    /\ press.pc = "idle" /\ Spends("plays", MaxPlays)
    /\ playing' = Binary(device)
    /\ UNCHANGED <<stored, probes, device, press, label, user, crossed, runs>>
TrackEnds ==
    /\ playing # None /\ playing' = None
    /\ UNCHANGED <<stored, probes, device, press, label, user, crossed, runs, spent>>
\* set_device tears the session down; an output switch does not take the lock.
SetDevice(d) ==
    /\ d # device /\ Spends("plays", MaxPlays)
    /\ device' = d /\ playing' = None
    /\ UNCHANGED <<stored, probes, press, label, user, crossed, runs>>
NoAudio ==
    /\ press.pc = "idle" /\ playing # None /\ Spends("presses", MaxPresses)
    /\ press' = [pc |-> "persist", dev |-> device]
    /\ UNCHANGED <<stored, probes, device, playing, label, user, crossed, runs>>
Busy(d) == \E i \in DOMAIN probes : probes[i].dev = d /\ (probes[i].force \/ probes[i].pc = "writes")
Persists ==
    /\ press.pc = "persist"
    /\ stored' = [stored EXCEPT ![press.dev] = "ap1"]
    /\ user' = [user EXCEPT ![press.dev] = TRUE]
    /\ crossed' = IF Busy(press.dev) THEN crossed \cup {press.dev} ELSE crossed
    /\ press' = [press EXCEPT !.pc = "stop"]
    /\ UNCHANGED <<probes, device, playing, label, runs, spent>>
Stops ==
    /\ press.pc = "stop" /\ playing' = None
    /\ press' = [press EXCEPT !.pc = "play"]
    /\ UNCHANGED <<stored, probes, device, label, user, crossed, runs, spent>>
Restarts ==
    /\ press.pc = "play" /\ playing' = Binary(device)
    /\ press' = [press EXCEPT !.pc = "tell"]
    /\ UNCHANGED <<stored, probes, device, label, user, crossed, runs, spent>>
RestartRaises ==
    /\ press.pc = "play" /\ Spends("faults", MaxFaults)
    /\ press' = Free
    /\ UNCHANGED <<stored, probes, device, playing, label, user, crossed, runs>>
Tells ==
    /\ press.pc = "tell"
    /\ label' = [label EXCEPT ![press.dev] = "ap1"]
    /\ press' = Free
    /\ UNCHANGED <<stored, probes, device, playing, user, crossed, runs, spent>>

ProtocolNext ==
    \/ \E d \in Speakers : Looks(d) \/ Retests(d) \/ SetDevice(d)
    \/ \E i \in DOMAIN probes :
         \/ LooksAgain(i) \/ Spawns(i) \/ RunEnds(i) \/ LastLook(i)
         \/ Writes(i) \/ WriteRaises(i) \/ Told(i)
    \/ Plays \/ TrackEnds \/ NoAudio \/ Persists \/ Stops \/ Restarts
    \/ RestartRaises \/ Tells

ProtocolSpec == ProtocolInit /\ [][ProtocolNext]_protocolVars

-----------------------------------------------------------------------------
\* The state is well typed.
ProtocolTypeOK ==
    /\ stored \in [Speakers -> {None, "ap1", "ap2"}]
    /\ label \in [Speakers -> {None, "ap1", "ap2"}]
    /\ \A i \in DOMAIN probes :
         /\ probes[i].dev \in Speakers
         /\ probes[i].pc \in {"lock", "slot", "runs", "looks", "writes", "tells"}
    /\ device \in Speakers /\ playing \in {None, "cliap2", "cliraop"}
    /\ press.pc \in {"idle", "persist", "stop", "play", "tell"}
    /\ Cardinality(Running) <= Slots

\* However many scans and page loads ask for a speaker at once, cliap2 is run
\* against it once: the others find the answer under the lock.
ProbedOnce == \A d \in Speakers : runs[d] <= 1

\* The user's "No audio?" survives the probe that was running: it is lost only
\* to a re-test the user asked for, or in the gap between a probe's last look
\* and its write.
DecisionKept == \A d \in Speakers : user[d] /\ d \notin crossed => stored[d] = "ap1"

\* Once the user said that a speaker is silent, every later play on it uses
\* cliraop.
SilentPathLeftStep ==
    \A d \in Speakers : (user[d] /\ d \notin crossed /\ device' = d /\ playing' # playing)
        => playing' # "cliap2"
SilentPathLeft == [][SilentPathLeftStep]_protocolVars

=============================================================================
