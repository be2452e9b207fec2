---------------------------- MODULE MCQueueEngine ----------------------------
(* Instance of QueueEngine for TLC: two interchangeable tracks, so that two   *)
(* entries can carry one receipt.                                             *)
EXTENDS QueueEngine, TLC
MCSymmetry == Permutations(Tracks)
=============================================================================
