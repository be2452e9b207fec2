----------------------------- MODULE DeviceScan -----------------------------
(***************************************************************************)
(* Cast and AirPlay discovery when a host avahi owns the mDNS port: one-   *)
(* shot browses over D-Bus (app/output/mdns_dbus.py), asked for by the     *)
(* watcher's sweep and by the admin's Scan, serialised by the backend's    *)
(* lock, merged into its address cache and then into the registry          *)
(* (chromecast.py, airplay.py, watcher.py, admin.py _forced_one_shots).    *)
(*                                                                         *)
(* A browse answers None when it could not look and a set when it did; the *)
(* sweep tells the two apart, the Scan gets an empty set for both and      *)
(* looks at the health it read before it started.                          *)
(***************************************************************************)
EXTENDS Integers, Sequences, FiniteSets

CONSTANTS Devices, None,
          Selected,    \* the device the admin selected, or None
          MaxMoves,    \* devices that come and go
          MaxFaults,   \* changes of the bus's health, unresolved names, timeouts
          MaxScans

VARIABLES there,    \* the devices on the network
          avahi,    \* whether avahi owns its name on the bus, or only systemd-resolved
          bus,      \* "up", "sick": avahi fails, "down": the socket is gone
          cache,    \* devices whose address the backend knows
          reg,      \* the registry: "none", "online" or "offline"
          grace,    \* devices whose grace timer runs
          status,   \* the watcher's health of the backend
          browse,   \* the sweep's and the Scan's: [pc, items, found, live, blind]
          lock,     \* _dbus_discover_lock: who holds it, then who waits
          excuse,   \* why a device may be taken for gone since it was online: away, it
                    \* left or a browse that could look missed it; failed, a browse
                    \* under a failing daemon did
          spent     \* what the bounds count
scanVars == <<there, avahi, bus, cache, reg, grace, status, browse, lock, excuse, spent>>

Whos == {"sweep", "scan"}
\* live: the health read at the start; blind: the daemon failed under it.
NoBrowse == [pc |-> "idle", items |-> {}, found |-> None, live |-> "ok", blind |-> FALSE]

ScanInit ==
    /\ there \in SUBSET Devices /\ bus = "up"
    /\ avahi \in BOOLEAN
    /\ cache = {} /\ reg = [d \in Devices |-> "none"] /\ grace = {}
    /\ status = "ok"
    /\ browse = [w \in Whos |-> NoBrowse] /\ lock = <<>>
    /\ excuse = [away |-> {}, failed |-> {}]
    /\ spent = [moves |-> 0, faults |-> 0, scans |-> 0]

Spends(k) == spent' = [spent EXCEPT ![k] = @ + 1]
Faults == spent.faults < MaxFaults /\ Spends("faults")
Goes(w, pc) == browse' = [browse EXCEPT ![w].pc = pc]
Known(d) == reg[d] # "none"

(***************************************************************************)
(* The network and the daemon.                                             *)
(***************************************************************************)
Moves(d) ==
    /\ spent.moves < MaxMoves /\ Spends("moves")
    /\ there' = IF d \in there THEN there \ {d} ELSE there \cup {d}
    /\ excuse' = [excuse EXCEPT !.away = @ \cup {d}]
    /\ UNCHANGED <<avahi, bus, cache, reg, grace, status, browse, lock>>

BusChanges ==
    /\ Faults /\ bus' \in {"up", "sick", "down"} \ {bus}
    /\ UNCHANGED <<there, avahi, cache, reg, grace, status, browse, lock, excuse>>

(***************************************************************************)
(* One browse.                                                             *)
(***************************************************************************)
Begins(w) ==
    /\ browse[w].pc = "idle"
    /\ browse' = [browse EXCEPT ![w] = [NoBrowse EXCEPT !.pc = "wait", !.live = status]]
    /\ lock' = Append(lock, w)
    /\ UNCHANGED <<there, avahi, bus, cache, reg, grace, status, excuse>>
\* _sweep_once, from its timer, again and again; one at a time.
SweepStarts == Begins("sweep") /\ UNCHANGED spent
\* _forced_one_shots, from the admin's Scan.
ScanStarts == spent.scans < MaxScans /\ Spends("scans") /\ Begins("scan")

Answers(w, found, blind) ==
    browse' = [browse EXCEPT ![w].pc = "done", ![w].found = found, ![w].blind = blind]

\* _discover_in_context, up to ServiceBrowserNew: no socket is None, a
\* daemon that does not answer or whose call fails is an empty list.
Opens(w) ==
    /\ browse[w].pc = "wait" /\ Head(lock) = w
    /\ CASE bus = "down" -> Answers(w, None, TRUE) /\ lock' = Tail(lock)
         [] bus = "sick" -> Answers(w, {}, TRUE) /\ lock' = Tail(lock)
         [] OTHER -> avahi /\ Goes(w, "browsing") /\ UNCHANGED lock
    /\ UNCHANGED <<there, avahi, bus, cache, reg, grace, status, excuse, spent>>

ItemNew(w, d) ==
    /\ browse[w].pc = "browsing" /\ d \in there \ browse[w].items /\ bus = "up"
    /\ browse' = [browse EXCEPT ![w].items = @ \cup {d}]
    /\ UNCHANGED <<there, avahi, bus, cache, reg, grace, status, lock, excuse, spent>>

\* AllForNow ends a browse that has items; an empty one waits for its timer.
AllForNow(w) ==
    /\ browse[w].pc = "browsing" /\ bus = "up" /\ browse[w].items # {}
    /\ Goes(w, "resolving")
    /\ UNCHANGED <<there, avahi, bus, cache, reg, grace, status, lock, excuse, spent>>

\* Mutant of TimesOut: the browse's own timer is not attached.
TimesOutNever(w) == FALSE /\ UNCHANGED scanVars
\* The browse's own five seconds.
TimesOut(w) ==
    /\ browse[w].pc = "browsing" /\ Goes(w, "resolving")
    /\ UNCHANGED <<there, avahi, bus, cache, reg, grace, status, lock, excuse, spent>>

\* avahi's Failure signal: the browse goes on with what it has.
Failure(w) ==
    /\ browse[w].pc = "browsing" /\ bus = "sick"
    /\ browse' = [browse EXCEPT ![w].pc = "resolving", ![w].blind = TRUE]
    /\ UNCHANGED <<there, avahi, bus, cache, reg, grace, status, lock, excuse, spent>>

\* Mutant of Merged: the cache is what this browse found.
MergedFresh(found) == found
\* The address cache is added to, never cleared.
Merged(found) == cache \cup found

\* ResolveService for each item, in turn; one that fails is left out.
Resolves(w) ==
    /\ browse[w].pc = "resolving"
    /\ \/ /\ Answers(w, browse[w].items, browse[w].blind \/ bus # "up")
          /\ cache' = Merged(browse[w].items) /\ UNCHANGED spent
       \/ \E d \in browse[w].items :
            /\ Faults
            /\ Answers(w, browse[w].items \ {d}, browse[w].blind \/ bus # "up")
            /\ cache' = Merged(browse[w].items \ {d})
    /\ lock' = Tail(lock)
    /\ UNCHANGED <<there, avahi, bus, reg, grace, status, excuse>>

\* _resolved_discover: the names, then each one's port and address, in
\* blocking calls; a name that fails is left out.
ResolvedAnswers(w) ==
    /\ browse[w].pc = "wait" /\ Head(lock) = w /\ ~avahi /\ bus = "up"
    /\ \/ Answers(w, there, FALSE) /\ cache' = Merged(there) /\ UNCHANGED spent
       \/ \E d \in there : Faults /\ Answers(w, there \ {d}, FALSE) /\ cache' = Merged(there \ {d})
    /\ lock' = Tail(lock)
    /\ UNCHANGED <<there, avahi, bus, reg, grace, status, excuse>>

\* discover's fifteen seconds: None, and the lock goes.
GivesUp(w) ==
    /\ browse[w].pc \in {"browsing", "resolving"} /\ Faults
    /\ Answers(w, None, TRUE) /\ lock' = Tail(lock)
    /\ UNCHANGED <<there, avahi, bus, cache, reg, grace, status, excuse>>

(***************************************************************************)
(* What becomes of the answer.                                             *)
(***************************************************************************)
Refound(found) == [away |-> excuse.away \ (found \cap there), failed |-> excuse.failed \ (found \cap there)]
Online(found) == [d \in Devices |-> IF d \in found THEN "online" ELSE reg[d]]
Absent(found) == {d \in Devices \ found : reg[d] = "online"}

\* Mutant of Unseen: the sweep, too, gets an empty list for a failed browse.
UnseenFlat(found) == FALSE
\* sweep_devices raises for None (DiscoveryUnavailable).
Unseen(found) == found = None

SweepMerges ==
    LET b == browse["sweep"]
        found == IF b.found = None THEN {} ELSE b.found
    IN /\ b.pc = "done"
       /\ IF Unseen(b.found)
          THEN status' = "unavailable" /\ UNCHANGED <<reg, grace, excuse>>
          ELSE /\ status' = "ok"
               /\ reg' = Online(found)
               /\ grace' = (grace \ found) \cup Absent(found)
               /\ excuse' = CASE b.found = None -> Refound(found)
                              [] b.blind -> [Refound(found) EXCEPT !.failed = @ \cup (Devices \ found)]
                              [] OTHER -> [Refound(found) EXCEPT !.away = @ \cup (Devices \ found)]
       /\ browse' = [browse EXCEPT !["sweep"] = NoBrowse]
       /\ UNCHANGED <<there, avahi, bus, cache, lock, spent>>

Evicted(found) == {d \in Devices \ found : reg[d] = "offline" /\ d # Selected}

\* Mutant of Counts: the Scan's answer counts whatever the health.
CountsAlways(b) == TRUE
\* The health read before the browse lets its answer count.
Counts(b) == b.live = "ok"

\* watcher.reconcile with the flattened answer.
ScanMerges ==
    LET b == browse["scan"]
        found == IF b.found = None THEN {} ELSE b.found
    IN /\ b.pc = "done"
       /\ IF Counts(b)
          THEN /\ reg' = [d \in Devices |-> IF d \in Evicted(found) THEN "none" ELSE Online(found)[d]]
               /\ grace' = grace \ (found \cup Evicted(found))
               /\ excuse' = Refound(found)
          ELSE UNCHANGED <<reg, grace, excuse>>
       /\ browse' = [browse EXCEPT !["scan"] = NoBrowse]
       /\ UNCHANGED <<there, avahi, bus, cache, status, lock, spent>>

GraceExpires(d) ==
    /\ d \in grace
    /\ grace' = grace \ {d} /\ reg' = [reg EXCEPT ![d] = "offline"]
    /\ UNCHANGED <<there, avahi, bus, cache, status, browse, lock, excuse, spent>>

Works(w) == Opens(w) \/ TimesOut(w) \/ Failure(w) \/ Resolves(w) \/ ResolvedAnswers(w)
ScanNext ==
    \/ \E d \in Devices : Moves(d) \/ GraceExpires(d) \/ \E w \in Whos : ItemNew(w, d)
    \/ BusChanges \/ SweepStarts \/ ScanStarts \/ SweepMerges \/ ScanMerges
    \/ \E w \in Whos : Works(w) \/ AllForNow(w) \/ GivesUp(w)
ScanSpec == ScanInit /\ [][ScanNext]_scanVars
ScanWorks == SweepMerges \/ ScanMerges \/ \E w \in Whos : Works(w)
ScanFair ==
    /\ WF_scanVars(ScanWorks) /\ WF_scanVars(SweepStarts)
    /\ \A d \in Devices : SF_scanVars(GraceExpires(d))
ScanFairSpec == ScanSpec /\ ScanFair

(***************************************************************************)
(* What should hold.                                                       *)
(***************************************************************************)
\* The state is of the shape the code keeps: a browse under way holds the
\* lock, and only online devices have a grace timer.
ScanTypeOK ==
    /\ \A w \in Whos : browse[w].pc \in {"browsing", "resolving"} => lock # <<>> /\ Head(lock) = w
    /\ \A d \in grace : reg[d] = "online"
    /\ status \in {"ok", "unavailable"}

\* A device in the registry has an address in its backend's cache, online or
\* not: it can be selected and played to (KTD9, register_resolved).
ListedAddressed == \A d \in Devices : Known(d) => d \in cache

\* A device that stayed on the network is taken for gone only by a list that
\* left it out, and only until a list holds it again: a browse without a list
\* (no bus, fifteen seconds over; not the short list of a failing daemon) starts no grace timer, and what is found
\* stops the one that runs (sweep_devices raises, _apply_arrival).
GoneByListOnly == \A d \in Devices : reg[d] = "offline" => d \in excuse.away \cup excuse.failed

\* "Same rule": a failed browse grace-flips no device (watcher.py:814-817,
\* airplay.py:740-743).  The code does not keep it: while avahi fails under a browse the list comes back empty, or
\* short, without an error, and the sweep starts the grace timers.  No run checks it.
OutageIsNotAbsence == \A d \in Devices : reg[d] = "offline" => d \in excuse.away

\* A device that left is shown as gone in the end, as long as the daemon
\* answers (the sweep, its grace timer).
ShownGone == bus = "up" => \A d \in Devices \ there : reg[d] # "online"
GoneShown == []<>ShownGone

\* A Scan that began while discovery was known to be down evicts nobody.
ScanSparesStep ==
    browse["scan"].pc = "done" /\ browse'["scan"].pc = "idle" /\ browse["scan"].live # "ok"
        => \A d \in Devices : Known(d) => reg'[d] # "none"
ScanSpares == [][ScanSparesStep]_scanVars

\* A Scan evicts only when it saw the network (admin.py, AE4: "only when its
\* scan actually saw the network").
EvictsOnEvidence ==
    [][ \A d \in Devices : Known(d) /\ reg'[d] = "none" => ~browse["scan"].blind ]_scanVars
=============================================================================
