---------------------------- MODULE SourceCaches ----------------------------
(***************************************************************************)
(* The connected media sources and what is cached of them: the registry    *)
(* built under a lock from one table after another, the enabled-libraries  *)
(* list with its generation, and the single-flight crawls of the browse    *)
(* index, the catalog, the credits and the genres.  Admin edits, guests'   *)
(* refreshes and crawls interleave at every suspension.  A source has one  *)
(* library, named like the source, and every source its own table.         *)
(***************************************************************************)
EXTENDS Integers, Sequences, FiniteSets

CONSTANTS
    Tables,     \* the sources, in the order the registry reads their tables
    Admins,     \* admin requests under way at a time
    Crawls,     \* the crawls followed, some of "index", "catalog", "credits", "genres"
    None,
    MaxEdits,   \* bound: admin requests
    MaxAsks,    \* bound: guests' refreshes and crawls for age
    MaxFaults   \* bound: listings a source does not answer

VARIABLES
    rows, libs, off, \* stored: sources connected, libraries enabled, sources vetoed
    reg, bld,        \* the registry (None: not built), its construction
    gen, cache,      \* the generation and the enabled libraries listed (None: cleared)
    shown,           \* what each crawl's store holds
    task,            \* the admin requests, refreshes and crawls
    spent            \* the bounds
sourceVars == <<rows, libs, off, reg, bld, gen, cache, shown, task, spent>>

Sources == {Tables[i] : i \in DOMAIN Tables}
Refreshers == {"cold", "background"}
Tasks == Admins \cup Crawls \cup Refreshers
\* A value of its own beside sets: not there at all, or there with its members.
Absent == [up |-> FALSE, set |-> {}]
There(x) == [up |-> TRUE, set |-> x]
Idle == [pc |-> "idle", kind |-> "none", src |-> None, seen |-> {}, under |-> {}, on |-> FALSE, gen |-> 0]
Begun(k) == [Idle EXCEPT !.pc = "client", !.kind = k]
\* Of which sources a store holds the first listing, the artists, the credits or
\* the genres, and of which the second: the index has albums, the catalog tracks.
Nothing == [first |-> {}, second |-> {}]
Twofold == {"index", "catalog"}
NoBuild == [by |-> None, at |-> 0, got |-> {}]

\* Start-up warms the list and begins the crawls.
SourcesInit ==
    /\ rows \in SUBSET Sources /\ libs = rows /\ off = {}
    /\ reg = Absent /\ bld = NoBuild /\ gen = 0 /\ cache = Absent
    /\ shown = [k \in Crawls |-> Nothing]
    /\ spent \in [edits : {0}, asks : {0}, faults : {0}, follow : Crawls \cup {"list"}]
    /\ task = [t \in Tasks |-> IF t = spent.follow \/ (t = "background" /\ spent.follow = "list") THEN Begun("none") ELSE Idle]

stored == <<rows, libs, off>>
built == <<reg, bld>>
listed == <<gen, cache>>
Goes(t, pc) == task' = [task EXCEPT ![t].pc = pc]
Ends(t) == task' = [task EXCEPT ![t] = Idle]
\* A trigger is dropped while a crawl of that kind runs.  The list and the crawls
\* write to stores of their own: a behaviour follows one of them, chosen at the
\* start, beside the registry and the admin's requests.
Triggered(ts, ks) ==
    [t \in Tasks |-> IF t \in ks /\ t = spent.follow /\ ts[t].pc = "idle" THEN Begun("none") ELSE ts[t]]

-----------------------------------------------------------------------------
(* The registry. *)

\* A task gets the registry as it is, or builds it under the lock.
ClientThere(t) ==
    /\ task[t].pc = "client" /\ reg.up
    /\ task' = [task EXCEPT ![t].pc = "got", ![t].seen = reg.set]
    /\ UNCHANGED <<stored, built, listed, shown, spent>>
BuildBegins(t) ==
    /\ task[t].pc = "client" /\ ~reg.up /\ bld.by = None
    /\ bld' = [by |-> t, at |-> 1, got |-> {}] /\ UNCHANGED <<stored, reg, listed, shown, task, spent>>
BuildReads ==
    /\ bld.by # None /\ bld.at \in DOMAIN Tables
    /\ bld' = [bld EXCEPT !.at = @ + 1, !.got = @ \cup ({Tables[bld.at]} \cap rows)]
    /\ UNCHANGED <<stored, reg, listed, shown, task, spent>>
\* What the tables held when each was read; with no source there is no registry.
BuildEnds ==
    /\ bld.by # None /\ bld.at \notin DOMAIN Tables
    /\ reg' = (IF bld.got = {} THEN reg ELSE There(bld.got)) /\ bld' = NoBuild
    /\ task' = [task EXCEPT ![bld.by].pc = "got", ![bld.by].seen = bld.got]
    /\ UNCHANGED <<stored, listed, shown, spent>>

-----------------------------------------------------------------------------
(* The admin's requests. *)

Edit(a, k, s) ==
    /\ task[a].pc = "idle" /\ spent.edits < MaxEdits
    /\ spent' = [spent EXCEPT !.edits = @ + 1] /\ task' = [task EXCEPT ![a] = [Idle EXCEPT
            !.kind = k, !.src = s,
            !.pc = CASE k \in {"connect", "remove", "off", "on"} -> "veto" [] OTHER -> "client"]]
    /\ UNCHANGED <<built, listed, shown>>
Connects(a, s) == rows' = rows \cup {s} /\ UNCHANGED <<libs, off>> /\ Edit(a, "connect", s)
Removes(a, s) == s \in rows /\ rows' = rows \ {s} /\ UNCHANGED <<libs, off>> /\ Edit(a, "remove", s)
Switches(a, s) == \E k \in {"off", "on"} : UNCHANGED stored /\ Edit(a, k, s)
EnablesLibrary(a, s) == UNCHANGED stored /\ Edit(a, "enable", s)
DisablesLibrary(a, s) == libs' = libs \ {s} /\ UNCHANGED <<rows, off>> /\ Edit(a, "disable", s)
Rescans(a) == UNCHANGED stored /\ Edit(a, "rescan", None)

\* The veto list is read, and written from what was read.
ReadsVeto(a) ==
    /\ task[a].pc = "veto"
    /\ task' = [task EXCEPT ![a].seen = off,
            ![a].pc = IF (task[a].src \in off) = (task[a].kind = "off") THEN "invalidate" ELSE "write"]
    /\ UNCHANGED <<stored, built, listed, shown, spent>>
WritesVeto(a) ==
    /\ task[a].pc = "write" /\ Goes(a, "invalidate")
    /\ off' = IF task[a].kind = "off" THEN task[a].seen \cup {task[a].src} ELSE task[a].seen \ {task[a].src}
    /\ UNCHANGED <<rows, libs, built, listed, shown, spent>>
\* One step: registry and list dropped, the generation bumped, crawls triggered.
Invalidates(a) ==
    /\ task[a].pc = "invalidate" /\ reg' = Absent /\ cache' = Absent /\ gen' = gen + 1
    /\ task' = IF task[a].kind = "connect" THEN [task EXCEPT ![a].pc = "client"]
               ELSE [Triggered(task, Crawls \cap (IF task[a].kind = "remove" THEN {"catalog"} ELSE {"index", "catalog"}))
                     EXCEPT ![a] = Idle]
    /\ UNCHANGED <<stored, bld, shown, spent>>
\* The library named is listed and enabled; a connected source's as well.
Seeds(a) ==
    /\ task[a].pc = "got" /\ task[a].kind \in {"connect", "enable"} /\ task[a].src \in task[a].seen
    /\ libs' = libs \cup {task[a].src} /\ Goes(a, "trigger") /\ UNCHANGED <<rows, off, built, listed, shown, spent>>
Missed(n) == spent.faults + n <= MaxFaults /\ spent' = [spent EXCEPT !.faults = @ + n]
\* Not in the registry, or it does not answer: nothing is enabled.
SeedFails(a) ==
    /\ task[a].pc = "got" /\ task[a].kind \in {"connect", "enable"}
    /\ IF task[a].src \in task[a].seen THEN Missed(1) ELSE UNCHANGED spent
    /\ IF task[a].kind = "enable" THEN Ends(a) ELSE Goes(a, "trigger")
    /\ UNCHANGED <<stored, built, listed, shown>>
GoesOn(a) ==
    /\ task[a].pc = "got" /\ task[a].kind \in {"disable", "rescan"} /\ Goes(a, "trigger")
    /\ UNCHANGED <<stored, built, listed, shown, spent>>
Triggers(a) ==
    /\ task[a].pc = "trigger"
    /\ task' = [Triggered(task, Crawls \cap (CASE task[a].kind = "connect" -> {"catalog"}
                                               [] task[a].kind = "rescan" -> Crawls
                                               [] OTHER -> {"index", "catalog"})) EXCEPT ![a] = Idle]
    /\ UNCHANGED <<stored, built, listed, shown, spent>>

-----------------------------------------------------------------------------
(* Refreshes of the list and crawls. *)

AskBudget == spent.asks < MaxAsks /\ spent' = [spent EXCEPT !.asks = @ + 1]
\* Without a list the request itself refreshes, with an old one a background task.
Asks(r) ==
    /\ AskBudget /\ spent.follow = "list" /\ task[r].pc = "idle" /\ (r = "cold") = ~cache.up
    /\ task' = [task EXCEPT ![r] = [Begun("none") EXCEPT !.gen = gen]]
    /\ UNCHANGED <<stored, built, listed, shown>>
Ages(k) ==
    /\ AskBudget /\ k = spent.follow /\ task[k].pc = "idle" /\ task' = Triggered(task, {k})
    /\ UNCHANGED <<stored, built, listed, shown>>
\* Of the sources in the registry, those enabled and not vetoed now.
Effective == libs \ off
Gone(t) ==
    /\ t \in Refreshers \cup Crawls /\ task[t].pc = "got" /\ task[t].seen = {} /\ Ends(t)
    /\ UNCHANGED <<stored, built, listed, shown, spent>>
\* With nothing enabled the index and the catalog are cleared, the network apart.
ReadsKeys(t) ==
    /\ t \in Refreshers \cup Crawls /\ task[t].pc = "got" /\ task[t].seen # {}
    /\ task' = IF Effective # {} \/ t \in Refreshers
               THEN [task EXCEPT ![t].pc = "list", ![t].seen = @ \cap Effective, ![t].on = (t \in Crawls)]
               ELSE IF t \in {"index", "catalog"} THEN [task EXCEPT ![t].pc = "install", ![t].seen = {}]
               ELSE [task EXCEPT ![t] = Idle]
    /\ UNCHANGED <<stored, built, listed, shown, spent>>
\* Which of the sources answer.  A crawl asks two listings of them if it needs two.
Answering(t, ok) ==
    /\ ok \subseteq task[t].seen
    /\ Missed(Cardinality(task[t].seen \ ok))
BothAnswering(k, ok, under) ==
    IF k \in Twofold THEN /\ ok \cup under \subseteq task[k].seen
                          /\ Missed(Cardinality(task[k].seen \ ok) + Cardinality(task[k].seen \ under))
    ELSE ok = under /\ Answering(k, ok)
ListsOlder(r, ok) ==
    /\ r \in Refreshers /\ task[r].pc = "list" /\ Answering(r, ok) /\ Ends(r)
    /\ cache' = There(ok) /\ UNCHANGED <<stored, built, gen, shown>>
\* A list of before an invalidation is dropped.
Lists(r, ok) ==
    /\ r \in Refreshers /\ task[r].pc = "list" /\ Answering(r, ok) /\ Ends(r)
    /\ cache' = (IF task[r].gen = gen THEN There(ok) ELSE cache) /\ UNCHANGED <<stored, built, gen, shown>>
CrawledAll(k, ok, under) ==
    /\ k \in Crawls /\ task[k].pc = "list" /\ BothAnswering(k, ok, under)
    /\ task' = [task EXCEPT ![k].pc = "install", ![k].seen = ok, ![k].under = under]
    /\ UNCHANGED <<stored, built, listed, shown>>
\* When what was crawled before stays: the index needs some source's artists and
\* some source's albums, the catalog only artists, the credits a listing.  The
\* genres of an install of Plex servers only are replaced by whatever came.
IndexKept(ok, under) == ok = {} \/ under = {}
CatalogKept(ok) == ok = {}
CreditsKept(ok) == ok = {}
GenresKept == FALSE
Kept(k, ok, under) ==
    CASE k = "index" -> IndexKept(ok, under)
      [] k = "catalog" -> CatalogKept(ok)
      [] k = "credits" -> CreditsKept(ok)
      [] OTHER -> GenresKept
Crawled(k, ok, under) ==
    /\ k \in Crawls /\ task[k].pc = "list" /\ BothAnswering(k, ok, under)
    /\ IF Kept(k, ok, under) THEN Ends(k)
       ELSE task' = [task EXCEPT ![k].pc = "install", ![k].seen = ok, ![k].under = under]
    /\ UNCHANGED <<stored, built, listed, shown>>
Stores(k) == shown' = [shown EXCEPT ![k] = [first |-> task[k].seen, second |-> task[k].under]]
InstallsStuck(k) ==
    /\ k \in Crawls /\ task[k].pc = "install" /\ Stores(k)
    /\ IF task[k].seen = {} THEN Goes(k, "stuck") ELSE Ends(k)
    /\ UNCHANGED <<stored, built, listed, spent>>
Installs(k) ==
    /\ k \in Crawls /\ task[k].pc = "install" /\ Stores(k) /\ Ends(k)
    /\ UNCHANGED <<stored, built, listed, spent>>

-----------------------------------------------------------------------------
Edits ==
    \E a \in Admins : \/ \E s \in Sources : \/ Connects(a, s) \/ Removes(a, s) \/ Switches(a, s)
                                            \/ EnablesLibrary(a, s) \/ DisablesLibrary(a, s)
                      \/ Rescans(a)
Moves(t) ==
    \/ ClientThere(t) \/ BuildBegins(t) \/ (bld.by = t /\ (BuildReads \/ BuildEnds))
    \/ Gone(t) \/ ReadsKeys(t) \/ Installs(t)
    \/ \E ok \in SUBSET Sources : Lists(t, ok) \/ \E under \in SUBSET Sources : Crawled(t, ok, under)
    \/ t \in Admins /\ (ReadsVeto(t) \/ WritesVeto(t) \/ Invalidates(t) \/ Seeds(t) \/ SeedFails(t)
                        \/ GoesOn(t) \/ Triggers(t))
SourcesNext ==
    \/ Edits \/ \E t \in Tasks : Moves(t)
    \/ \E r \in Refreshers : Asks(r)
    \/ \E k \in Crawls : Ages(k)
SourcesSpec == SourcesInit /\ [][SourcesNext]_sourceVars
SourcesWork == \E t \in Tasks : Moves(t)
SourcesFair == WF_sourceVars(SourcesWork)
SourcesFairSpec == SourcesSpec /\ SourcesFair

-----------------------------------------------------------------------------
SourcesTypeOK ==
    /\ libs \cup rows \cup off \cup reg.set \cup cache.set \subseteq Sources /\ gen \in 0 .. MaxEdits
    /\ \A k \in Crawls : shown[k].first \cup shown[k].second \subseteq Sources
    /\ bld.by # None => task[bld.by].pc = "client"
\* However a refresh, a rebuild of the registry and the switch of a source cross:
\* when no switch is under way, the list guests search does not hold a source
\* that is switched off.
SwitchedOffUnlisted ==
    (\A a \in Admins : task[a].pc \notin {"write", "invalidate"}) => cache.set \cap off = {}
\* "A fully-failed scan must not wipe a good cache" (state.py:2441), "never install
\* a PARTIAL index" (state.py:2615).  Of the catalog and the genres the code does
\* not keep it: a catalog whose sources list artists but no tracks is installed
\* without tracks, and genres no source lists are stored as none.  Unchecked.
EmptiedOnlyWhenOffStep ==
    \A k \in Crawls : \A l \in {"first", "second"} :
        shown[k][l] # {} /\ shown'[k][l] = {} => task[k].on = FALSE
\* What the guards do keep: sources that do not answer, whichever of the listings
\* it is that fails, empty neither listing of the index, no artists of the
\* catalog and no credits; only a crawl that found nothing enabled does.
GuardedKeptStep ==
    \A k \in Crawls \ {"genres"} : \A l \in {"first"} \cup (IF k = "index" THEN {"second"} ELSE {}) :
        shown[k][l] # {} /\ shown'[k][l] = {} => task[k].on = FALSE
GuardedKept == [][GuardedKeptStep]_sourceVars
\* The lock of the registry is passed on and a flag of a crawl falls: whatever
\* runs comes to its end.
SourcesRest == \A t \in Tasks : task[t].pc = "idle"
TasksEnd == []<>SourcesRest
=============================================================================
