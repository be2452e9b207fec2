---------------------------- MODULE DevicePicker ----------------------------
(***************************************************************************)
(* The device picker: the watcher's registry rendered into one row per     *)
(* physical device (app/output/discovery.py), pushed to the admins by a    *)
(* debounced broadcast (watcher.py), fetched by GET /output/devices        *)
(* (admin.py), and verified by background probes whose answers are kept    *)
(* per host and backend (probe_runner.py, probe_cache.py).                 *)
(*                                                                         *)
(* A snapshot reads the registry at once and then suspends three times: for *)
(* Direct's own devices, for the stored host of the selected output and    *)
(* for the verdicts.  Everything else may move under it.                   *)
(***************************************************************************)
EXTENDS Integers, Sequences, FiniteSets

LOCAL INSTANCE SequencesExt

CONSTANTS Walk,      \* the entries in the order the aggregator walks them
          HostOf,    \* [entry -> host]
          BackendOf, \* [entry -> backend]
          Selected,  \* the entry the admin selected, or None
          None,
          Slots,     \* _PROBE_CONCURRENCY
          MaxMoves, MaxGets

VARIABLES reg,      \* [entry -> its state in the registry and when it went offline]
          seen,     \* the entries a backend ever discovered
          due,      \* the debounce timer runs
          snaps,    \* snapshots being built, oldest first
          shown,    \* the rows the admin page shows
          version,  \* changes of the registry so far, and the newest one shown
          probes,   \* probes, the waiting ones in order: [entry, pc, ok]
          verdict,  \* what the probe cache holds for an entry's host and backend
          spent     \* what the bounds count
pickerVars == <<reg, seen, due, snaps, shown, version, probes, verdict, spent>>

Entries == ToSet(Walk)
HostsOf(S) == {HostOf[x] : x \in S}
Absent == [st |-> "none", since |-> 0]
Known == {x \in Entries : reg[x].st # "none"}
\* A stamp of 0 is no stamp: a remembered device has none.
Maximum(S) == CHOOSE x \in S : \A y \in S : y <= x

PickerInit ==
    /\ reg = [x \in Entries |-> Absent]
    /\ seen = {} /\ due = FALSE
    /\ snaps = <<>> /\ shown = <<>>
    /\ version = [at |-> 0, shown |-> 0]
    /\ probes = <<>> /\ verdict = [x \in Entries |-> "none"]
    /\ spent = [moves |-> 0, gets |-> 0]

(***************************************************************************)
(* aggregate_devices: rows is a function from entries to [st, since].      *)
(***************************************************************************)
\* A bucket opened as online masks a device whose entries are all gone.
OpensOnline == [online |-> TRUE, since |-> 0, protocols |-> {}]
Opens == [online |-> FALSE, since |-> 0, protocols |-> {}]
MergeAvailability(b, row) ==
    LET on == b.online \/ row.st = "online"
    IN  [b EXCEPT !.online = on,
                  !.since = IF on THEN 0 ELSE Maximum({@, row.since})]
\* One protocol per backend and host: the entry that comes first.
Lists(b, x) ==
    IF \E y \in b.protocols : BackendOf[y] = BackendOf[x] THEN b
    ELSE [b EXCEPT !.protocols = @ \cup {x}]
Folds(rows, acc, x) ==
    LET h == HostOf[x]
        old == IF h \in DOMAIN acc THEN acc[h] ELSE Opens
        new == Lists(MergeAvailability(old, rows[x]), x)
    IN  [k \in DOMAIN acc \cup {h} |-> IF k = h THEN new ELSE acc[k]]
Aggregated(rows) ==
    FoldLeft(LAMBDA acc, x : Folds(rows, acc, x), [h \in {} |-> Opens],
             SelectSeq(Walk, LAMBDA x : x \in DOMAIN rows))

(***************************************************************************)
(* The registry, and the probe an arrival starts.                          *)
(***************************************************************************)
Moved == /\ spent.moves < MaxMoves
         /\ spent' = [spent EXCEPT !.moves = @ + 1]
         /\ due' = TRUE /\ version' = [version EXCEPT !.at = @ + 1]
         /\ UNCHANGED <<snaps, shown, verdict>>
Queued(x) == [entry |-> x, pc |-> "waits", ok |-> FALSE]
Arrives(x) ==
    /\ reg[x].st # "online" /\ Moved
    /\ reg' = [reg EXCEPT ![x] = [st |-> "online", since |-> 0]]
    /\ seen' = seen \cup {x}
    /\ probes' = Append(probes, Queued(x))
GraceExpires(x) ==
    /\ reg[x].st = "online" /\ Moved
    /\ reg' = [reg EXCEPT ![x] = [st |-> "offline", since |-> version.at + 1]]
    /\ UNCHANGED <<seen, probes>>
\* Purged, or dropped by a Scan that did not find it.
Purged(x) ==
    /\ reg[x].st = "offline" /\ Moved
    /\ reg' = [reg EXCEPT ![x] = Absent]
    /\ UNCHANGED <<seen, probes>>

(***************************************************************************)
(* A snapshot, for the broadcast ("push") or a GET ("get", "scan").        *)
(***************************************************************************)
Reads(kind) == [kind |-> kind, pc |-> "direct", at |-> version.at,
                rows |-> [x \in Known |-> reg[x]], remembered |-> {}]
\* A debounce that stays armed for the build under way, which read too early.
DebounceMerged ==
    /\ due /\ due' = FALSE
    /\ snaps' = IF \E i \in DOMAIN snaps : snaps[i].kind = "push" THEN snaps
                ELSE Append(snaps, Reads("push"))
    /\ UNCHANGED <<reg, seen, shown, version, probes, verdict, spent>>
DebounceFires ==
    /\ due /\ due' = FALSE
    /\ snaps' = Append(snaps, Reads("push"))
    /\ UNCHANGED <<reg, seen, shown, version, probes, verdict, spent>>
GetDevices(kind) ==
    /\ spent.gets < MaxGets /\ spent' = [spent EXCEPT !.gets = @ + 1]
    /\ snaps' = Append(snaps, Reads(kind))
    /\ UNCHANGED <<reg, seen, due, shown, version, probes, verdict>>

At(i, pc) == i \in DOMAIN snaps /\ snaps[i].pc = pc
StaysSnap == UNCHANGED <<reg, seen, due, version, verdict, spent>>
\* Direct answered: the selection is looked up in the registry as it is now.
ReadsSelection(i) ==
    /\ At(i, "direct")
    /\ snaps' = [snaps EXCEPT ![i].pc =
          IF Selected = None THEN "verdicts"
          ELSE IF Selected \in Known THEN "verdicts" ELSE "host"]
    /\ UNCHANGED <<shown, probes>> /\ StaysSnap
\* The stored host: a registered neighbour at that address wins.
AppendsPlaceholder(i) ==
    /\ At(i, "host")
    /\ LET taken == \E x \in Known \ {Selected} : HostOf[x] = HostOf[Selected]
       IN  snaps' = [snaps EXCEPT ![i].pc = "verdicts",
             ![i].rows = IF taken THEN @
                 ELSE [x \in DOMAIN @ \cup {Selected} |->
                         IF x \in DOMAIN @ /\ x # Selected THEN @[x]
                         ELSE [st |-> "offline", since |-> 0]],
             ![i].remembered = IF taken THEN {} ELSE {Selected}]
    /\ UNCHANGED <<shown, probes>> /\ StaysSnap
\* The filter forgotten.
ProbedAll(s) == UNION {b.protocols : b \in {Aggregated(s.rows)[h] : h \in DOMAIN Aggregated(s.rows)}}
\* What a GET hands to schedule_probes: never the host of a remembered device.
Probed(s) ==
    LET agg == Aggregated(s.rows)
    IN  UNION {agg[h].protocols : h \in DOMAIN agg \ HostsOf(s.remembered)}
Schedules(s) ==
    LET wanted == {x \in Probed(s) : s.kind = "scan" \/ verdict[x] = "none"}
    IN  SelectSeq(Walk, LAMBDA x : x \in wanted)
Built(i) ==
    /\ At(i, "verdicts")
    /\ snaps' = RemoveAt(snaps, i)
    /\ LET s == snaps[i] IN
       IF s.kind = "push"
       THEN /\ shown' = Aggregated(s.rows) /\ probes' = probes
            /\ version' = [version EXCEPT !.shown = Maximum({@, s.at})]
       ELSE /\ probes' = probes \o [j \in DOMAIN Schedules(s) |-> Queued(Schedules(s)[j])]
            /\ UNCHANGED <<shown, version>>
    /\ UNCHANGED <<reg, seen, due, verdict, spent>>

(***************************************************************************)
(* The probes: at most Slots at a time, the first come first.              *)
(***************************************************************************)
Running == {i \in DOMAIN probes : probes[i].pc = "probes"}
\* A backend that never discovered the entry answers no.
Probes(i) ==
    /\ i \in DOMAIN probes /\ probes[i].pc = "waits"
    /\ \A j \in 1 .. i - 1 : probes[j].pc # "waits"
    /\ Cardinality(Running) < Slots
    /\ \E ok \in BOOLEAN :
          /\ ok => probes[i].entry \in seen
          /\ probes' = [probes EXCEPT ![i].pc = "probes", ![i].ok = ok]
    /\ UNCHANGED <<reg, seen, due, snaps, shown, version, verdict, spent>>
Answers(i) ==
    /\ i \in Running
    /\ probes' = RemoveAt(probes, i)
    /\ verdict' = [verdict EXCEPT ![probes[i].entry] = IF probes[i].ok THEN "ok" ELSE "bad"]
    /\ UNCHANGED <<reg, seen, due, snaps, shown, version, spent>>

PickerNext ==
    \/ \E x \in Entries : Arrives(x) \/ GraceExpires(x) \/ Purged(x)
    \/ DebounceFires \/ \E k \in {"get", "scan"} : GetDevices(k)
    \/ \E i \in DOMAIN snaps : ReadsSelection(i) \/ AppendsPlaceholder(i) \/ Built(i)
    \/ \E i \in DOMAIN probes : Probes(i) \/ Answers(i)

PickerSpec == PickerInit /\ [][PickerNext]_pickerVars
\* Timers fire, and every read of the host's own devices and of the database
\* comes back.
PickerWorks ==
    \/ DebounceFires
    \/ \E i \in DOMAIN snaps : ReadsSelection(i) \/ AppendsPlaceholder(i) \/ Built(i)
    \/ \E i \in DOMAIN probes : Probes(i) \/ Answers(i)
PickerFair == WF_pickerVars(PickerWorks)
PickerFairSpec == PickerSpec /\ PickerFair

-----------------------------------------------------------------------------
\* The state is well typed.
PickerTypeOK ==
    /\ reg \in [Entries -> [st : {"none", "online", "offline"}, since : 0 .. MaxMoves]]
    /\ seen \in SUBSET Entries /\ due \in BOOLEAN
    /\ \A i \in DOMAIN snaps : /\ snaps[i].kind \in {"push", "get", "scan"}
                               /\ snaps[i].pc \in {"direct", "host", "verdicts"}
                               /\ DOMAIN snaps[i].rows \subseteq Entries
    /\ \A i \in DOMAIN probes : probes[i].entry \in Entries
    /\ Cardinality(Running) <= Slots
    /\ verdict \in [Entries -> {"none", "ok", "bad"}]

\* Every snapshot the picker renders says of a physical device that it is
\* online exactly when one of its entries is, and otherwise since when the
\* last of them was; no entry of another host is folded into its row.
AggregateRight ==
    \A i \in DOMAIN snaps :
        LET rows == snaps[i].rows
            agg == Aggregated(rows)
        IN  /\ DOMAIN agg = HostsOf(DOMAIN rows)
            /\ \A h \in DOMAIN agg :
                 LET here == {x \in DOMAIN rows : HostOf[x] = h}
                 IN  /\ agg[h].online = \E x \in here : rows[x].st = "online"
                     /\ agg[h].since = IF agg[h].online THEN 0
                                       ELSE Maximum({rows[x].since : x \in here})
                     /\ agg[h].protocols \subseteq here
                     /\ {BackendOf[x] : x \in agg[h].protocols} = {BackendOf[x] : x \in here}

\* A device that is only remembered is never probed: its backend would answer
\* no, and the stored verdict would hide the real one when it comes back.
RememberedNeverProbed == \A i \in DOMAIN probes : probes[i].entry \in seen

\* Every change of the registry reaches the admin page in a snapshot that was
\* read after it, however many builds are under way.
Shown == version.shown = version.at
ChangeShown == []<>Shown

=============================================================================
