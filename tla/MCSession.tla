------------------------------ MODULE MCSession ------------------------------
(***************************************************************************)
(* Instances of PlaybackSession and OutputSwitch for TLC, each by itself:  *)
(* what is played, and where it is heard.  Init picks which of the two     *)
(* runs; the other one stays where it starts.                              *)
(***************************************************************************)
EXTENDS PlaybackSession, OutputSwitch

VARIABLE part

Starts ==
    /\ Init /\ SwitchInit /\ part \in {"playback", "output"}
    /\ part = "playback" => router.active = "direct"

Steps ==
    /\ UNCHANGED part
    /\ \/ part = "playback" /\ Next /\ UNCHANGED switchVars
       \/ part = "output" /\ SwitchNext /\ UNCHANGED vars

Safe == Starts /\ [][Steps]_<<part, vars, switchVars>>
=============================================================================
