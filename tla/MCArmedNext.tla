----------------------------- MODULE MCArmedNext -----------------------------
(* Instance of ArmedNext for TLC. *)
EXTENDS ArmedNext, TLC

\* Tracks are told apart by equality only.
AnyTrack == Permutations(Tracks)
=============================================================================
