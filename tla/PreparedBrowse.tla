--------------------------- MODULE PreparedBrowse ---------------------------
(***************************************************************************)
(* The prepared browse answer: the rows of a facet are derived once per    *)
(* change of their inputs, stored under a signature of these inputs and    *)
(* served while the published inputs carry that signature.  Edits of the   *)
(* inputs, the single-flight rebuild with its dirty flag, requests with    *)
(* validators and restarts interleave at every suspension.  The inputs are *)
(* two, the library index and a policy, read one after the other, with the *)
(* path the answer is for; an answer is named by what it was derived from. *)
(***************************************************************************)
EXTENDS Naturals, FiniteSets

CONSTANTS
    Inputs,    \* the states of a stored input an answer derives from
    None,
    MaxEdits,  \* bound: edits of an input, forced rebuilds, changes of path
    MaxFaults, \* bound: derivations, digests and writes that fail, restarts
    MaxPasses  \* passes of one rebuild

VARIABLES
    live,    \* the inputs as stored; the path that is active; edits not armed yet
    pub,     \* the inputs the requests compare with (None: none)
    mem, db, \* the answer of each facet, in memory and stored
    build,   \* the one rebuild
    client,  \* what a browser holds: validator and body, by facet
    spent    \* the bounds; whether an input came back to a value it had before,
             \* or a derivation began on another path than its build
prepVars == <<live, pub, mem, db, build, client, spent>>

Facets == {"albums", "artists"}
Kinds == {"index", "policy"}
NoAnswer == [sig |-> None, body |-> None]
NoBuild == [pc |-> "idle", pass |-> 0, dirty |-> FALSE, read |-> None, snap |-> None,
            built |-> [f \in Facets |-> None]]
PrepInit ==
    /\ live = [index |-> CHOOSE v \in Inputs : TRUE, policy |-> CHOOSE v \in Inputs : TRUE,
               path |-> "native", unarmed |-> 0]
    /\ spent = [edits |-> 0, faults |-> 0, seen |-> [k \in Kinds |-> {live[k]}], returned |-> FALSE,
                mixed |-> FALSE]
    /\ pub = None /\ mem = [f \in Facets |-> NoAnswer] /\ db = mem /\ build = NoBuild
    /\ client = mem

EditBudget == spent.edits < MaxEdits
Fault == spent.faults < MaxFaults /\ spent' = [spent EXCEPT !.faults = @ + 1]
\* While a rebuild runs, a trigger marks it dirty; else a rebuild begins.
Triggered ==
    IF build.pc = "idle" THEN [NoBuild EXCEPT !.pc = "snapshot", !.pass = 1]
    ELSE [build EXCEPT !.dirty = TRUE]

-----------------------------------------------------------------------------
(* What changes the inputs, and what arms the rebuild afterwards. *)

Edits(k, v) ==
    /\ EditBudget /\ v # live[k] /\ live' = [live EXCEPT ![k] = v, !.unarmed = @ + 1]
    /\ spent' = [spent EXCEPT !.edits = @ + 1, !.seen[k] = @ \cup {v}, !.returned = @ \/ v \in spent.seen[k]]
    /\ UNCHANGED <<pub, mem, db, build, client>>
\* A policy edit arms after its write, a crawl when it ends.
Arms ==
    /\ live.unarmed > 0 /\ live' = [live EXCEPT !.unarmed = @ - 1] /\ build' = Triggered
    /\ UNCHANGED <<pub, mem, db, client, spent>>
\* A source of another kind comes or goes; its invalidation arms at once.
ChangesPath ==
    /\ EditBudget /\ live' = [live EXCEPT !.path = IF @ = "native" THEN "catalog" ELSE "native"] /\ build' = Triggered
    /\ spent' = [spent EXCEPT !.edits = @ + 1] /\ UNCHANGED <<pub, mem, db, client>>
ForcesRebuild ==
    /\ EditBudget /\ spent' = [spent EXCEPT !.edits = @ + 1]
    /\ db' = [f \in Facets |-> NoAnswer] /\ mem' = db' /\ pub' = None /\ build' = Triggered
    /\ UNCHANGED <<live, client>>

-----------------------------------------------------------------------------
(* The rebuild. *)

\* A pass ends; a dirty one is followed by another, as long as passes are left.
PassesUnbounded(b) == IF b.dirty THEN [NoBuild EXCEPT !.pc = "snapshot", !.pass = b.pass] ELSE NoBuild
PassEnds(b) ==
    IF b.dirty /\ b.pass < MaxPasses THEN [NoBuild EXCEPT !.pc = "snapshot", !.pass = b.pass + 1]
    ELSE NoBuild
\* The path is decided once per pass.  The catalog path is opt-in: nothing is
\* stored for it.
Begins ==
    /\ build.pc = "snapshot"
    /\ build' = IF live.path = "catalog" THEN PassEnds(build) ELSE [build EXCEPT !.pc = "compose"]
    /\ UNCHANGED <<live, pub, mem, db, client, spent>>
\* The first of the reads: a snapshot and a check are of the build's path, a
\* derivation asks anew which path is active.
Deriving == build.pc \in {"derive", "derive2"}
Reads ==
    /\ build.pc \in {"compose", "check"} \/ Deriving
    /\ build.read = None
    /\ build' = [build EXCEPT !.read = [index |-> live.index, path |-> IF Deriving THEN live.path ELSE "native"]]
    /\ spent' = [spent EXCEPT !.mixed = @ \/ (Deriving /\ live.path # "native")]
    /\ UNCHANGED <<live, pub, mem, db, client>>
\* What has been read once the policy is, too.
Whole == [index |-> build.read.index, policy |-> live.policy, path |-> build.read.path]
Snapshots ==
    /\ build.pc = "compose" /\ build.read # None
    /\ build' = [build EXCEPT !.pc = "derive", !.snap = Whole, !.read = None]
    /\ UNCHANGED <<live, pub, mem, db, client, spent>>
\* A facet is derived from what it reads; a failure is that facet's.
Derived(f, body) ==
    /\ build.pc = IF f = "albums" THEN "derive" ELSE "derive2"
    /\ build.read # None
    /\ build' = [build EXCEPT !.pc = IF f = "albums" THEN "derive2" ELSE "check", !.read = None,
                              !.built[f] = body, !.dirty = @ \/ body = None]
    /\ UNCHANGED <<live, pub, mem, db, client>>
Derives(f) == Derived(f, Whole) /\ UNCHANGED spent
DeriveFails(f) == Derived(f, None) /\ Fault
\* The total guard: every input is as it was in the snapshot, or all is discarded.
ChecksNothing ==
    /\ build.pc = "check" /\ build.read # None /\ build' = [build EXCEPT !.pc = "store", !.read = None]
    /\ UNCHANGED <<live, pub, mem, db, client, spent>>
Checks ==
    /\ build.pc = "check" /\ build.read # None
    /\ build' = IF \A f \in Facets : build.built[f] = None THEN PassEnds(build)
                ELSE IF Whole # build.snap THEN PassEnds([build EXCEPT !.dirty = TRUE])
                ELSE [build EXCEPT !.pc = "store", !.read = None]
    /\ UNCHANGED <<live, pub, mem, db, client, spent>>
DigestFails ==
    /\ build.pc \in {"compose", "check"} /\ Fault /\ build' = PassEnds([build EXCEPT !.dirty = TRUE])
    /\ UNCHANGED <<live, pub, mem, db, client>>
Stored(f, ok) ==
    LET a == [sig |-> build.snap, body |-> build.built[f]]
    IN /\ build.pc = "store" /\ build.built[f] # None
       /\ build' = [build EXCEPT !.built[f] = None, !.dirty = @ \/ ~ok]
       /\ db' = IF ok THEN [db EXCEPT ![f] = a] ELSE db
       /\ mem' = IF ok THEN [mem EXCEPT ![f] = a] ELSE mem
       /\ UNCHANGED <<live, pub, client>>
Stores(f) == Stored(f, TRUE) /\ UNCHANGED spent
StoreFails(f) == Stored(f, FALSE) /\ Fault
Publishes ==
    /\ build.pc = "store" /\ \A f \in Facets : build.built[f] = None
    /\ pub' = build.snap /\ build' = PassEnds(build) /\ UNCHANGED <<live, mem, db, client, spent>>

-----------------------------------------------------------------------------
(* Requests and restarts. *)

\* Prepared only on the path that was published, under its signature.
Hit(f) == pub # None /\ live.path = "native" /\ mem[f].sig = pub
\* The validator is confirmed, or the body sent with it.
ServesPrepared(f) ==
    /\ Hit(f) /\ client' = [client EXCEPT ![f] = IF @.sig = mem[f].sig THEN @ ELSE mem[f]]
    /\ client' # client /\ UNCHANGED <<live, pub, mem, db, build, spent>>
\* A live answer carries no validator, and arms the rebuild.
ServesLive(f) ==
    /\ ~Hit(f) /\ client' = [client EXCEPT ![f] = NoAnswer]
    /\ build' = Triggered /\ UNCHANGED <<live, pub, mem, db, spent>>
Restarts ==
    /\ Fault /\ build' = NoBuild
    /\ mem' = IF live.path = "catalog" THEN [f \in Facets |-> NoAnswer] ELSE db
    /\ pub' = IF live.path = "catalog" THEN None
              ELSE [index |-> live.index, policy |-> live.policy, path |-> "native"]
    /\ live' = [live EXCEPT !.unarmed = 1] /\ UNCHANGED <<db, client>>

Builds ==
    \/ Begins \/ Reads \/ Snapshots \/ Checks \/ DigestFails \/ Publishes
    \/ \E f \in Facets : Derives(f) \/ DeriveFails(f) \/ Stores(f) \/ StoreFails(f)
PrepNext ==
    \/ \E k \in Kinds, v \in Inputs : Edits(k, v)
    \/ Arms \/ ChangesPath \/ ForcesRebuild \/ Builds \/ Restarts
    \/ \E f \in Facets : ServesPrepared(f) \/ ServesLive(f)
PrepSpec == PrepInit /\ [][PrepNext]_prepVars
PrepWorks == Builds \/ Arms
PrepFairSpec == PrepSpec /\ WF_prepVars(PrepWorks)

-----------------------------------------------------------------------------
Signed == [index : Inputs, policy : Inputs, path : {"native", "catalog"}]
PrepTypeOK ==
    /\ {live.index, live.policy} \subseteq Inputs /\ pub \in Signed \cup {None}
    /\ build.pass \in 0 .. MaxPasses
    /\ \A f \in Facets : {mem[f].sig, db[f].sig, client[f].sig} \subseteq Signed \cup {None}
\* "discard unless EVERY component still matches" (state.py:3173-3174).  The code
\* does not keep it: the derivation asks anew for the path, the check does not, so
\* catalog rows are stored as the native answer.  No run checks it.
AnswerOfItsPath ==
    spent.returned \/ \A f \in Facets : \A a \in {mem[f], db[f], client[f]} :
        a.sig # None => a.body = a.sig
\* Whatever was edited, forced, failed or restarted during a build, also between
\* two reads of its inputs: the answer stored under a signature, or held by a
\* browser under it as a validator, is the answer of these inputs.  (Left out: an
\* input that came back to a former value, a derivation on another path.)
PreparedRight == spent.mixed \/ AnswerOfItsPath
\* Nothing keeps the rebuild going for ever: failures do not, and edits end.
Idle == build.pc = "idle"
RebuildEnds == []<>Idle
=============================================================================
