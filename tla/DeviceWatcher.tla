---------------------------- MODULE DeviceWatcher ----------------------------
(***************************************************************************)
(* The live registry of output devices, fed by mDNS events, SSDP notices,  *)
(* periodic sweeps and the Scan button, with its grace and purge timers;   *)
(* and the idle re-attach, which listens for the selected device while it  *)
(* is away and attaches it when it is back.  A listener is called within   *)
(* the step that marks the device online.                                  *)
(***************************************************************************)
EXTENDS Naturals, FiniteSets

CONSTANTS
    CastDevices,  \* announced over mDNS, with a stable id
    DlnaDevices,  \* announced over SSDP, found by sweeps
    Namesakes,    \* devices without a stable id that carry one name
    None,
    MaxMoves,     \* bound: times a device comes or goes
    MaxMisses,    \* bound: lookups that miss a device, attaches that fail
    MaxSwitches,  \* bound: outputs the admin applies
    MaxPlays      \* bound: plays begun

VARIABLES
    there,  \* what no code reads: the devices on the network
    reg,    \* registry
    names,  \* the devices in _name_index
    timer,  \* _grace_timers and _purge_timers
    look,   \* the lookups under way
    lock,   \* who holds _attach_serial
    host,   \* the selection, the connection, what plays, the hold
    apply,  \* the switch under way
    idle,   \* the listener, the retry and the attempt of the coordinator
    spent
watchVars == <<there, reg, names, timer, look, lock, host, apply, idle, spent>>

Devices == CastDevices \cup DlnaDevices
Spend(what) == spent' = [spent EXCEPT ![what] = @ + 1]
NoLook == [on |-> FALSE, found |-> {}]
NoTry == [key |-> None, pc |-> "none", old |-> FALSE]
NoApply == [to |-> None, pc |-> "none"]

\* The host starts with the device selected before, which it attaches.
Boots == CHOOSE d \in CastDevices : TRUE
WatchInit ==
    /\ there \in SUBSET Devices
    /\ reg = [d \in Devices |-> "absent"] /\ names = {}
    /\ timer = [grace |-> {}, purge |-> {}]
    /\ look = [verify |-> {}, sweep |-> NoLook, scan |-> NoLook]
    /\ lock = "boot"
    /\ host = [sel |-> Boots, conn |-> None, playing |-> None, hold |-> FALSE]
    /\ apply = NoApply
    /\ idle = [listen |-> Boots, retry |-> Boots, try |-> NoTry]
    /\ spent = [moves |-> 0, misses |-> 0, switches |-> 0, plays |-> 0]

Leaves(d) ==
    /\ d \in there /\ spent.moves < MaxMoves /\ Spend("moves")
    /\ there' = there \ {d}
    /\ UNCHANGED <<reg, names, timer, look, lock, host, apply, idle>>
Returns(d) ==
    /\ d \notin there /\ spent.moves < MaxMoves /\ Spend("moves")
    /\ there' = there \cup {d}
    /\ UNCHANGED <<reg, names, timer, look, lock, host, apply, idle>>

-----------------------------------------------------------------------------
(* The coordinator: what it should listen for follows from the rest.       *)

Away(rg, d) == rg[d] # "online"
ShouldWatch(rg, h) ==
    IF h.sel # None /\ ~h.hold /\ Away(rg, h.sel) /\ h.playing # h.sel THEN h.sel ELSE None
Reconciled(i, rg, h) ==
    LET wanted == ShouldWatch(rg, h)
    IN IF i.listen = wanted THEN i ELSE [i EXCEPT !.listen = wanted, !.retry = wanted]

StillOurs(h, d) == h.sel = d /\ ~h.hold /\ h.playing # d
OnArrival(i, d, rg, h) ==
    IF i.try.key # None THEN i
    ELSE IF StillOurs(h, d) THEN [i EXCEPT !.try = [key |-> d, pc |-> "waiting", old |-> FALSE]]
    ELSE Reconciled(i, rg, h)

\* The retry looks again only at a device the registry holds for present.
RetryFires ==
    /\ idle.retry # None /\ ~Away(reg, idle.retry)
    /\ idle' = OnArrival([idle EXCEPT !.retry = None], idle.retry, reg, host)
    /\ UNCHANGED <<there, reg, names, timer, look, lock, host, apply, spent>>

-----------------------------------------------------------------------------
(* The registry. *)

\* Devices seen: what counted against them is called off, who listens is told.
Arrive(ds) ==
    /\ reg' = [d \in Devices |-> IF d \in ds THEN "online" ELSE reg[d]]
    /\ idle' = IF idle.listen \in ds THEN OnArrival(idle, idle.listen, reg', host) ELSE idle
Counting(ds, t) == [t EXCEPT !.grace = @ \cup {d \in ds : reg[d] = "online"}]
Cleared(ds, t) == [grace |-> t.grace \ ds, purge |-> t.purge \ ds]

Announced(d) ==
    /\ d \in CastDevices \cap there /\ (d \notin names \/ reg[d] # "online" \/ d \in timer.grace)
    /\ Arrive({d}) /\ names' = names \cup {d} /\ timer' = Cleared({d}, timer)
    /\ UNCHANGED <<there, look, lock, host, apply, spent>>
\* A removal under a name never seen is ignored.
RemovedKnown(d) == d \in names
Removed(d) ==
    /\ d \in CastDevices \ there /\ RemovedKnown(d) /\ reg[d] = "online" /\ d \notin timer.grace
    /\ timer' = Counting({d}, timer)
    /\ UNCHANGED <<there, reg, names, look, lock, host, apply, idle, spent>>

\* A notice from an unknown renderer is verified first, once at a time.
Alive(d) ==
    /\ d \in DlnaDevices \cap there
    /\ IF reg[d] # "absent"
       THEN Arrive({d}) /\ timer' = Cleared({d}, timer) /\ UNCHANGED look
       ELSE look' = [look EXCEPT !.verify = @ \cup {d}] /\ UNCHANGED <<reg, idle, timer>>
    /\ UNCHANGED <<there, names, lock, host, apply, spent>>
\* The description may have been fetched before the device left.
Verified(d) ==
    /\ d \in look.verify /\ look' = [look EXCEPT !.verify = @ \ {d}]
    /\ \/ Arrive({d}) /\ timer' = Cleared({d}, timer)
       \/ d \notin there /\ UNCHANGED <<reg, idle, timer>>
    /\ UNCHANGED <<there, names, lock, host, apply, spent>>
Byebye(d) ==
    /\ d \in DlnaDevices \ there /\ timer' = Counting({d}, timer)
    /\ UNCHANGED <<there, reg, names, look, lock, host, apply, idle, spent>>

\* What a lookup finds is fixed before it is merged; a reply can be missed.
Looks(kind, ds) ==
    /\ ~look[kind].on
    /\ \E missed \in {{}} \cup {{d} : d \in ds \cap there} :
         /\ IF missed = {} THEN UNCHANGED spent ELSE spent.misses < MaxMisses /\ Spend("misses")
         /\ look' = [look EXCEPT ![kind] = [on |-> TRUE, found |-> (ds \cap there) \ missed]]
    /\ UNCHANGED <<there, reg, names, timer, lock, host, apply, idle>>
SweepStarts == Looks("sweep", DlnaDevices)
SweepMerges ==
    /\ look.sweep.on /\ look' = [look EXCEPT !.sweep = NoLook]
    /\ Arrive(look.sweep.found)
    /\ timer' = Counting(DlnaDevices \ look.sweep.found, Cleared(look.sweep.found, timer))
    /\ UNCHANGED <<there, names, lock, host, apply, spent>>
ScanStarts == Looks("scan", Devices)
\* A Scan marks what it found online without telling who listens, and evicts
\* what it did not find and was offline already.
Evicted(d) == d \notin look.scan.found /\ reg[d] = "offline" /\ d # host.sel
ScanMerges ==
    /\ look.scan.on /\ look' = [look EXCEPT !.scan = NoLook]
    /\ LET gone == {d \in Devices : Evicted(d)} IN
       /\ reg' = [d \in Devices |-> IF d \in look.scan.found THEN "online"
                                    ELSE IF d \in gone THEN "absent" ELSE reg[d]]
       /\ names' = names \ gone
       /\ timer' = Cleared(look.scan.found \cup gone, timer)
    /\ UNCHANGED <<there, lock, host, apply, idle, spent>>

ArmedPurgeAll(ds, t, h) == [t EXCEPT !.purge = @ \cup ds]
ArmedPurgeNever(ds, t, h) == t
ArmedPurge(ds, t, h) == [t EXCEPT !.purge = @ \cup (ds \ {h.sel})]
GraceExpires(d) ==
    /\ d \in timer.grace
    /\ IF reg[d] = "online"
       THEN /\ reg' = [reg EXCEPT ![d] = "offline"]
            /\ timer' = ArmedPurge({d}, [timer EXCEPT !.grace = @ \ {d}], host)
            /\ idle' = Reconciled(idle, reg', host)
       ELSE timer' = [timer EXCEPT !.grace = @ \ {d}] /\ UNCHANGED <<reg, idle>>
    /\ UNCHANGED <<there, names, look, lock, host, apply, spent>>
\* Minutes pass before it does: no lookup that began earlier is still open.
PurgeExpires(d) ==
    /\ d \in timer.purge /\ ~look.sweep.on /\ ~look.scan.on /\ d \notin look.verify
    /\ reg' = [reg EXCEPT ![d] = IF @ = "online" THEN @ ELSE "absent"]
    /\ names' = IF reg[d] = "online" THEN names ELSE names \ {d}
    /\ timer' = Cleared({d}, timer)
    /\ UNCHANGED <<there, look, lock, host, apply, idle, spent>>

\* After a switch: the device selected is exempt, the one left is counted.
RefreshExemptOnly(t, h) == [t EXCEPT !.purge = @ \ {h.sel}]
RefreshExempt(t, h) ==
    ArmedPurge({d \in Devices : reg[d] = "offline"}, [t EXCEPT !.purge = @ \ {h.sel}], h)

-----------------------------------------------------------------------------
(* Attaching: at boot, by the coordinator, by the admin, one at a time. *)

Misses == spent.misses < MaxMisses /\ Spend("misses")
BootDone ==
    /\ lock = "boot" /\ lock' = "free"
    /\ \/ host.sel \in there /\ host' = [host EXCEPT !.conn = host.sel] /\ UNCHANGED spent
       \/ host.sel \notin there /\ UNCHANGED <<host, spent>>
       \/ host.sel \in there /\ Misses /\ UNCHANGED host
    /\ idle' = Reconciled(idle, reg, host)
    /\ UNCHANGED <<there, reg, names, timer, look, apply>>

Confirmed(d) ==
    reg[d] # "absent" /\ (d \in Namesakes => \A x \in Namesakes \ {d} : reg[x] = "absent")
TryEndsOnce(ok) == idle' = Reconciled([idle EXCEPT !.try = NoTry, !.retry = None], reg, host)
TryEnds(ok) ==
    idle' = LET over == [idle EXCEPT !.try = NoTry] IN
            IF ok THEN Reconciled([over EXCEPT !.retry = None], reg, host)
            ELSE [over EXCEPT !.retry = idle.try.key]
TryDeclines ==
    /\ idle.try.pc = "waiting" /\ ~Confirmed(idle.try.key)
    /\ idle' = [idle EXCEPT !.try = NoTry]
    /\ UNCHANGED <<there, reg, names, timer, look, lock, host, apply, spent>>
\* A Cast connection that still answers needs no attach; a switch made since
\* makes the attempt stand down.
TryBegins ==
    /\ idle.try.pc = "waiting" /\ Confirmed(idle.try.key)
    /\ IF idle.try.key \in CastDevices \cap there /\ host.conn = idle.try.key
       THEN TryEnds(TRUE) /\ UNCHANGED <<lock, host>>
       ELSE /\ lock = "free"
            /\ IF idle.try.old THEN TryEnds(FALSE) /\ UNCHANGED <<lock, host>>
               ELSE /\ idle' = [idle EXCEPT !.try.pc = "connecting"]
                    /\ lock' = "idle" /\ host' = [host EXCEPT !.conn = None]
    /\ UNCHANGED <<there, reg, names, timer, look, apply, spent>>
TryConnects ==
    /\ idle.try.pc = "connecting" /\ idle.try.key \in there
    /\ lock' = "free" /\ host' = [host EXCEPT !.conn = idle.try.key]
    /\ TryEnds(TRUE)
    /\ UNCHANGED <<there, reg, names, timer, look, apply, spent>>
TryFails ==
    /\ idle.try.pc = "connecting" /\ lock' = "free"
    /\ IF idle.try.key \in there THEN Misses ELSE UNCHANGED spent
    /\ TryEnds(FALSE)
    /\ UNCHANGED <<there, reg, names, timer, look, host, apply>>

Applies(d) ==
    /\ apply = NoApply /\ spent.switches < MaxSwitches /\ Spend("switches")
    /\ apply' = [to |-> d, pc |-> "waiting"]
    /\ idle' = IF idle.try.key = None THEN idle ELSE [idle EXCEPT !.try.old = TRUE]
    /\ UNCHANGED <<there, reg, names, timer, look, lock, host>>
\* The host's own speakers need no attach.
ApplyBegins ==
    /\ apply.pc = "waiting"
    /\ IF apply.to = None
       THEN /\ host' = [host EXCEPT !.sel = None]
            /\ apply' = [apply EXCEPT !.pc = "saving"] /\ UNCHANGED lock
       ELSE /\ lock = "free" /\ lock' = "apply"
            /\ host' = [host EXCEPT !.conn = None]
            /\ apply' = [apply EXCEPT !.pc = "connecting"]
    /\ UNCHANGED <<there, reg, names, timer, look, idle, spent>>
ApplyConnects ==
    /\ apply.pc = "connecting" /\ apply.to \in there /\ lock' = "free"
    /\ host' = [host EXCEPT !.conn = apply.to, !.sel = apply.to]
    /\ apply' = [apply EXCEPT !.pc = "saving"]
    /\ UNCHANGED <<there, reg, names, timer, look, idle, spent>>
Settles(h) ==
    /\ host' = h /\ apply' = NoApply
    /\ idle' = Reconciled(idle, reg, h) /\ timer' = RefreshExempt(timer, h)
ApplyFails ==
    /\ apply.pc = "connecting" /\ lock' = "free"
    /\ IF apply.to \in there THEN Misses ELSE UNCHANGED spent
    /\ Settles(host)
    /\ UNCHANGED <<there, reg, names, look>>
\* The settings are written before the coordinator and the timers are told.
ApplySaved ==
    /\ apply.pc = "saving" /\ Settles([host EXCEPT !.hold = FALSE])
    /\ UNCHANGED <<there, reg, names, look, lock, spent>>

-----------------------------------------------------------------------------
(* Playback and the hold, as far as they own the device. *)

PlayBegins ==
    /\ host.playing = None /\ ~host.hold /\ host.sel # None /\ host.conn = host.sel
    /\ spent.plays < MaxPlays /\ Spend("plays")
    /\ host' = [host EXCEPT !.playing = host.sel]
    /\ UNCHANGED <<there, reg, names, timer, look, lock, apply, idle>>
\* Nothing reconciles when the queue runs out.
PlayEnds ==
    /\ host.playing # None /\ host' = [host EXCEPT !.playing = None]
    /\ UNCHANGED <<there, reg, names, timer, look, lock, apply, idle, spent>>
PlayLost ==
    /\ host.playing # None /\ host.playing \notin there /\ host.playing = host.sel
    /\ host' = [host EXCEPT !.playing = None, !.hold = TRUE]
    /\ idle' = Reconciled(idle, reg, host')
    /\ UNCHANGED <<there, reg, names, timer, look, lock, apply, spent>>
\* The supervisor attached the device and resumed.
HoldEnds ==
    /\ host.hold /\ host.sel # None /\ host.sel \in there /\ lock = "free"
    /\ host' = [host EXCEPT !.hold = FALSE, !.conn = host.sel, !.playing = host.sel]
    /\ idle' = Reconciled(idle, reg, host')
    /\ UNCHANGED <<there, reg, names, timer, look, lock, apply, spent>>

-----------------------------------------------------------------------------
Hears(d) == Announced(d) \/ Removed(d) \/ Alive(d) \/ Verified(d) \/ Byebye(d)
Tries == TryDeclines \/ TryBegins \/ TryConnects \/ TryFails
ApplyWorks == ApplyBegins \/ ApplyConnects \/ ApplyFails \/ ApplySaved
WatchNext ==
    \/ \E d \in Devices : Leaves(d) \/ Returns(d) \/ Hears(d) \/ GraceExpires(d) \/ PurgeExpires(d)
    \/ SweepStarts \/ SweepMerges \/ ScanStarts \/ ScanMerges
    \/ RetryFires \/ BootDone \/ Tries
    \/ \E d \in Devices \cup {None} : Applies(d)
    \/ ApplyWorks \/ PlayBegins \/ PlayEnds \/ PlayLost \/ HoldEnds

WatchSpec == WatchInit /\ [][WatchNext]_watchVars
\* The retries, the Scans, the sweeps and the timers go round, each on its own.
Told(d) == Announced(d) \/ Removed(d) \/ Verified(d)
Retries == RetryFires \/ BootDone \/ Tries \/ ApplyWorks \/ HoldEnds
WatchFair ==
    /\ WF_watchVars(Retries) /\ WF_watchVars(ScanMerges)
    /\ WF_watchVars(SweepStarts) /\ WF_watchVars(SweepMerges)
    /\ \A d \in Devices : WF_watchVars(Told(d)) /\ WF_watchVars(GraceExpires(d)) /\ SF_watchVars(PurgeExpires(d))
WatchFairSpec == WatchSpec /\ WatchFair

-----------------------------------------------------------------------------
WatchTypeOK ==
    /\ there \subseteq Devices /\ reg \in [Devices -> {"absent", "online", "offline"}]
    /\ names \subseteq CastDevices
    /\ timer \in [grace : SUBSET Devices, purge : SUBSET Devices]
    /\ host.sel \in Devices \cup {None} /\ host.conn \in Devices \cup {None}
    /\ {idle.listen, idle.retry, idle.try.key} \subseteq Devices \cup {None}

\* A timer counts only against a device it may still mark offline or evict, and
\* an offline device nobody selected is counted: it does not stay for ever.
Counted ==
    /\ \A d \in timer.grace : reg[d] = "online"
    /\ \A d \in timer.purge : reg[d] = "offline"
    /\ apply.pc # "saving" =>
         \A d \in Devices : d \in timer.purge <=> reg[d] = "offline" /\ d # host.sel
\* The device the admin selected is never evicted, once its switch is saved.
SelectedKeptStep ==
    \A d \in Devices :
        host.sel = d /\ apply.pc # "saving" /\ reg[d] # "absent" => reg'[d] # "absent"
SelectedKept == [][SelectedKeptStep]_watchVars
\* A device listened for that is back is attached, or no longer listened for,
\* whether it announced itself, a Scan found it or its first attach failed --
\* unless an attempt left over from another device took the retry's place.
LeftOver(d) == {idle.retry, idle.try.key} \ {None, d} # {}
Listened(d) == idle.listen = d /\ d \in there /\ ~LeftOver(d)
Taken == \A d \in Devices : Listened(d) => host.conn = d
ArrivalTaken == []<>Taken
\* A device that left is marked offline in the end, and then evicted.
Left == \A d \in Devices \ there :
    /\ reg[d] = "online" => d \notin names \cup DlnaDevices
    /\ reg[d] = "offline" => d = host.sel
GoneLeaves == []<>Left
=============================================================================
