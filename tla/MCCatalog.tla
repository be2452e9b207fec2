------------------------------ MODULE MCCatalog ------------------------------
(***************************************************************************)
(* CatalogIdentity with one source that lists two tracks under the same    *)
(* external id.                                                            *)
(***************************************************************************)
EXTENDS CatalogIdentity

CONSTANTS a1, a2, b1, e1, e2

TwoAlike == <<a1, a2, b1>>
TwoIds == <<e1, e2>>
TwoSources == [i \in {a1, a2, b1} |-> IF i = b1 THEN "B" ELSE "A"]
=============================================================================
