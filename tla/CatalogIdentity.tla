-------------------------- MODULE CatalogIdentity ---------------------------
(***************************************************************************)
(* The unified catalog of tracks: a scan crawls the sources, clusters      *)
(* their items, gives every cluster an identity through the durable alias  *)
(* table, replaces the catalog and moves the ratings and play counts that  *)
(* are kept under other keys.  Edits of the sources, plays, ratings, and   *)
(* a crash between two steps of a scan interleave with it.  All items have *)
(* one name; what tells them apart is source and external id.              *)
(***************************************************************************)
EXTENDS Integers, Sequences, SequencesExt

CONSTANTS
    ItemSeq,    \* the items, by the order of the crawl and of their local keys
    ExtSeq,     \* the external ids, in order
    SourceOf,   \* the source of each item
    Duplicates, \* whether two items of one source may carry the same external id
    None,
    MaxEdits, MaxScans, MaxPlays, MaxCrashes, \* bounds: by name
    MaxInputs   \* bound: edits and plays together

VARIABLES
    meta,     \* the items in the sources: there or not, with which external id
    alias,    \* the identity each lookup key is bound to
    catalog,  \* the rows, and what they were crawled from
    plays, stars, \* play counts and ratings, by key
    scan,     \* the one scan
    spent     \* the bounds
catalogVars == <<meta, alias, catalog, plays, stars, scan, spent>>

Items == ToSet(ItemSeq)
KeySeq == ExtSeq \o ItemSeq
Keys == ToSet(KeySeq)
Origins == {SourceOf[i] : i \in Items}
\* The suffixed identity, for a cluster all of whose keys are taken.
Suffixed(k) == <<k, 2>>
Identities == Keys \cup {Suffixed(k) : k \in Keys}
Away == [up |-> FALSE, ext |-> None]
NoScan == [pc |-> "idle", from |-> [i \in Items |-> Away], blocks |-> {}, out |-> <<>>, todo |-> {}, read |-> <<>>, key |-> None, late |-> FALSE]

CatalogInit ==
    /\ meta = [i \in Items |-> Away] /\ alias = [k \in Keys |-> None]
    /\ catalog = [rows |-> {}, from |-> meta]
    /\ plays = [k \in Identities |-> 0] /\ stars = [k \in Identities |-> 0]
    /\ scan = NoScan /\ spent = [edits |-> 0, scans |-> 0, plays |-> 0, crashes |-> 0]

-----------------------------------------------------------------------------
(* Clustering. *)

BlockOf(P, i) == CHOOSE b \in P : i \in b
\* Two clusters become one, unless both hold an item of one source.
Joined(P, i, j) ==
    LET b == BlockOf(P, i)  c == BlockOf(P, j)
    IN IF \E x \in b, y \in c : SourceOf[x] = SourceOf[y] THEN P ELSE (P \ {b, c}) \cup {b \cup c}
HasExt(m, b) == \E i \in b : m[i].ext # None
There(m) == SelectSeq(ItemSeq, LAMBDA i : m[i].up)
\* First by external id, with the first item that carries it.
ByExternalId(m) ==
    FoldLeft(LAMBDA P, i : IF m[i].ext = None THEN P
                           ELSE Joined(P, i, SelectSeq(There(m), LAMBDA j : m[j].ext = m[i].ext)[1]),
             {{i} : i \in ToSet(There(m))}, There(m))
\* Then by name, pair by pair, unless both clusters carry external ids.
Clusters(m) ==
    FoldLeft(LAMBDA P, i : FoldLeft(LAMBDA Q, j :
                 IF HasExt(m, BlockOf(Q, i)) /\ HasExt(m, BlockOf(Q, j)) THEN Q ELSE Joined(Q, i, j),
                 P, There(m)),
             ByExternalId(m), There(m))
LookupKeys(m, b) == SelectSeq(KeySeq, LAMBDA k : k \in b \/ \E i \in b : m[i].ext = k)

-----------------------------------------------------------------------------
(* The sources, the plays and the ratings. *)

Distinct(m) == \A i, j \in Items : i # j /\ SourceOf[i] = SourceOf[j] /\ m[i].ext # None => m[i].ext # m[j].ext
Edits(i) ==
    /\ spent.edits < MaxEdits /\ spent.edits + spent.plays < MaxInputs /\ spent' = [spent EXCEPT !.edits = @ + 1]
    /\ \E x \in [up : {TRUE}, ext : {None} \cup ToSet(ExtSeq)] \cup {Away} :
           x # meta[i] /\ meta' = [meta EXCEPT ![i] = x]
    /\ (Duplicates \/ Distinct(meta')) /\ UNCHANGED <<alias, catalog, plays, stars, scan>>
\* Tracks are played and rated under the id they were listed by: a row's identity
\* or, queued earlier, an identity or local key of before.
Known == {r.identity : r \in catalog.rows} \cup {k \in Items : alias[k] # None}
\* Where a row of metadata belongs now, if that is another key.
Target(k) == IF k \in Keys /\ alias[k] # None /\ alias[k] # k THEN {alias[k]} ELSE {}
Writing == scan.pc \in {"write", "raise"}
Touched(k) ==
    /\ spent.plays < MaxPlays /\ spent.edits + spent.plays < MaxInputs /\ k \in Known
    /\ spent' = [spent EXCEPT !.plays = @ + 1]
    /\ scan' = [scan EXCEPT !.late = @ \/ (Writing /\ k \in Target(scan.key))]
Records(k) ==
    Touched(k) /\ plays' = [plays EXCEPT ![k] = @ + 1] /\ UNCHANGED <<meta, alias, catalog, stars>>
\* Without a star the rating is cleared.
Rates(k) ==
    /\ Touched(k) /\ \E v \in 0 .. 2 \ {stars[k]} : stars' = [stars EXCEPT ![k] = v]
    /\ UNCHANGED <<meta, alias, catalog, plays>>

-----------------------------------------------------------------------------
(* The scan. *)

\* A source whose listing of tracks fails contributes none.  If no source has
\* listed its artists either the catalog is left as it is; if one has, it is
\* replaced by what there is, by nothing even.
Crawls ==
    /\ scan.pc = "idle" /\ spent.scans < MaxScans /\ spent' = [spent EXCEPT !.scans = @ + 1]
    /\ \E failed, artists \in SUBSET Origins :
           IF artists = {} THEN UNCHANGED scan
           ELSE LET m == [i \in Items |-> IF SourceOf[i] \in failed THEN Away ELSE meta[i]]
                IN scan' = [NoScan EXCEPT !.pc = "resolve", !.from = m, !.blocks = Clusters(m),
                                          !.todo = Clusters(m), !.out = [b \in {} |-> None]]
    /\ UNCHANGED <<meta, alias, catalog, plays, stars>>
\* The cluster of the first item not resolved yet.
Turn == LET left == SelectSeq(ItemSeq, LAMBDA i : \E b \in scan.todo : i \in b) IN BlockOf(scan.todo, left[1])
Resolved(b, id, a) ==
    /\ scan' = [scan EXCEPT !.todo = @ \ {b}, !.out = [c \in DOMAIN @ \cup {b} |-> IF c = b THEN id ELSE @[c]],
                            !.pc = IF scan.todo = {b} THEN "replace" ELSE @]
    /\ alias' = a /\ UNCHANGED <<meta, catalog, plays, stars, spent>>
\* What one of its keys is bound to already, or the first of them.
Found(ks) == LET bound == SelectSeq(ks, LAMBDA k : alias[k] # None)
             IN IF bound = <<>> THEN ks[1] ELSE alias[bound[1]]
ResolvesAlone ==
    /\ scan.pc = "resolve" /\ scan.todo # {}
    /\ LET ks == LookupKeys(scan.from, Turn)
       IN Resolved(Turn, Found(ks), [k \in Keys |-> IF k \in ToSet(ks) /\ alias[k] = None THEN Found(ks) ELSE alias[k]])
\* An identity given before in this scan is not given again: the cluster gets a
\* key of its own, and all its keys are bound to that.
Resolves ==
    /\ scan.pc = "resolve" /\ scan.todo # {}
    /\ LET ks == LookupKeys(scan.from, Turn)
           taken == {scan.out[b] : b \in DOMAIN scan.out}
           free == SelectSeq(ks, LAMBDA k : k \notin taken)
           fresh == IF free = <<>> THEN Suffixed(ks[1]) ELSE free[1]
       IN IF Found(ks) \in taken
          THEN Resolved(Turn, fresh, [k \in Keys |-> IF k \in ToSet(ks) THEN fresh ELSE alias[k]])
          ELSE Resolved(Turn, Found(ks), [k \in Keys |-> IF k \in ToSet(ks) /\ alias[k] = None THEN Found(ks) ELSE alias[k]])
FoundNothing ==
    /\ scan.pc = "resolve" /\ scan.todo = {}
    /\ scan' = [scan EXCEPT !.pc = "replace"] /\ UNCHANGED <<meta, alias, catalog, plays, stars, spent>>
\* One transaction; of two rows with one identity the first is inserted.
Before(b, c) == LET first == SelectSeq(ItemSeq, LAMBDA i : i \in b \cup c)[1] IN first \in b
Replaces ==
    /\ scan.pc = "replace"
    /\ catalog' = [from |-> scan.from,
                   rows |-> {[identity |-> scan.out[b], items |-> b] : b \in
                       {x \in scan.blocks : \A y \in scan.blocks : scan.out[x] = scan.out[y] => Before(x, y)}}]
    /\ scan' = [scan EXCEPT !.pc = "migrate", !.out = "stars", !.from = NoScan.from, !.blocks = {}]
    /\ UNCHANGED <<meta, alias, plays, stars, spent>>

\* The ratings, then the counts: all rows are read at once.
Tabled == IF scan.out = "stars" THEN stars ELSE plays
ReadsRows ==
    /\ scan.pc = "migrate"
    /\ scan' = [scan EXCEPT !.pc = "compare", !.read = Tabled, !.todo = {k \in Keys : Tabled[k] > 0}]
    /\ UNCHANGED <<meta, alias, catalog, plays, stars, spent>>
\* A row is copied if its identity has no value, looked up row by row ...
Looked(k, pc) == scan' = [scan EXCEPT !.todo = @ \ {k}, !.pc = pc, !.key = IF pc = scan.pc THEN @ ELSE k]
ComparesNothing(k) ==
    /\ scan.pc = "compare" /\ k \in scan.todo /\ Looked(k, IF Target(k) # {} THEN "write" ELSE "compare")
    /\ UNCHANGED <<meta, alias, catalog, plays, stars, spent>>
Compares(k) ==
    /\ scan.pc = "compare" /\ k \in scan.todo
    /\ Looked(k, IF \E id \in Target(k) : Tabled[id] = 0 THEN "write" ELSE "compare")
    /\ UNCHANGED <<meta, alias, catalog, plays, stars, spent>>
\* ... and the identity is given what was read at first, whatever came in between.
Put(f, v) == [id \in Identities |-> IF id \in Target(scan.key) THEN v ELSE f[id]]
Copies ==
    /\ scan.pc = "write" /\ scan' = [scan EXCEPT !.pc = "compare", !.key = None, !.late = FALSE]
    /\ stars' = IF scan.out = "stars" THEN Put(stars, scan.read[scan.key]) ELSE stars
    /\ plays' = IF scan.out = "plays" THEN Put(plays, scan.read[scan.key]) ELSE plays
    /\ UNCHANGED <<meta, alias, catalog, spent>>
Copied ==
    /\ scan.pc = "compare" /\ scan.todo = {}
    /\ scan' = [scan EXCEPT !.out = "plays", !.read = <<>>,
                            !.pc = IF scan.out = "stars" THEN "migrate" ELSE "read"]
    /\ UNCHANGED <<meta, alias, catalog, plays, stars, spent>>
\* The counts are read again, then folded row by row.
ReadsCounts ==
    /\ scan.pc = "read" /\ scan' = [scan EXCEPT !.pc = "fold", !.read = plays, !.todo = {k \in Keys : plays[k] > 0}]
    /\ UNCHANGED <<meta, alias, catalog, plays, stars, spent>>
Live(id) == \E r \in catalog.rows : r.identity = id
\* A count whose identity is live is folded into it: compared with what the
\* identity has, written there if it is the greater, and its row deleted,
\* whatever was counted on either meanwhile.
Folds(k) ==
    /\ scan.pc = "fold" /\ k \in scan.todo
    /\ Looked(k, IF ~\E id \in Target(k) : Live(id) THEN "fold"
                 ELSE IF \E id \in Target(k) : scan.read[k] > plays[id] THEN "raise" ELSE "drop")
    /\ UNCHANGED <<meta, alias, catalog, plays, stars, spent>>
Raises ==
    /\ scan.pc = "raise" /\ scan' = [scan EXCEPT !.pc = "drop", !.late = FALSE]
    /\ plays' = Put(plays, scan.read[scan.key]) /\ UNCHANGED <<meta, alias, catalog, stars, spent>>
Drops ==
    /\ scan.pc = "drop" /\ scan' = [scan EXCEPT !.pc = "fold", !.key = None]
    /\ plays' = [plays EXCEPT ![scan.key] = 0] /\ UNCHANGED <<meta, alias, catalog, stars, spent>>
ScanEnds ==
    /\ scan.pc = "fold" /\ scan.todo = {} /\ scan' = NoScan
    /\ UNCHANGED <<meta, alias, catalog, plays, stars, spent>>
Crashes ==
    /\ scan.pc # "idle" /\ spent.crashes < MaxCrashes /\ spent' = [spent EXCEPT !.crashes = @ + 1]
    /\ scan' = NoScan /\ UNCHANGED <<meta, alias, catalog, plays, stars>>

CatalogNext ==
    \/ \E i \in Items : Edits(i)
    \/ \E k \in Identities : Records(k) \/ Rates(k)
    \/ Crawls \/ Resolves \/ FoundNothing \/ Replaces \/ ReadsRows \/ Copies \/ Copied
    \/ \E k \in Keys : Compares(k) \/ Folds(k)
    \/ ReadsCounts \/ Raises \/ Drops \/ ScanEnds \/ Crashes
CatalogSpec == CatalogInit /\ [][CatalogNext]_catalogVars

-----------------------------------------------------------------------------
CatalogTypeOK ==
    /\ \A k \in Keys : alias[k] \in Identities \cup {None}
    /\ \A r \in catalog.rows : r.identity \in Identities /\ r.items \subseteq Items /\ r.items # {}
    /\ \A k \in Identities : plays[k] \in 0 .. MaxPlays /\ stars[k] \in 0 .. 2
\* Whatever was merged and split in earlier scans, and wherever one of them was
\* cut off: a scan drops no track, each one crawled is in a row of the catalog.
EveryTrackHeld == \A i \in Items : catalog.from[i].up => \E r \in catalog.rows : i \in r.items
\* "A direct identity value is never overwritten" (migrate.py:13-15).  The code
\* does not keep it: a rating given, or a play counted, between the look-up and
\* the write of a copy, or of a raised count, is replaced.  No run checks it.
NeverOverwrittenStep ==
    Writing /\ ~Writing' =>
        \A k \in Identities : (stars[k] # 0 => stars'[k] = stars[k]) /\ plays'[k] >= plays[k]
\* What the migration keeps: it overwrites a rating, or lowers a count, only
\* where one was given after the look-up; and it deletes the row of a count only
\* while its identity is in the catalog and holds at least what was read of the
\* row: plays of a source that is disconnected stay.
MigrationSparesStep ==
    /\ ~scan.late => NeverOverwrittenStep
    /\ scan.pc = "drop" /\ scan'.pc = "fold" =>
         \E id \in Target(scan.key) : Live(id) /\ plays[id] >= scan.read[scan.key]
MigrationSpares == [][MigrationSparesStep]_catalogVars
\* A scan that finds what the last one found gives every track its identity again.
RescanStable ==
    [][catalog'.from = catalog.from /\ catalog.rows # {} => catalog'.rows = catalog.rows]_catalogVars
=============================================================================
