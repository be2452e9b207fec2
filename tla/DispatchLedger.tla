---------------------------- MODULE DispatchLedger ----------------------------
(***************************************************************************)
(* What the output-session supervisor promises about play-starts, whatever *)
(* timers, probes and late signals it juggles (the contract stated in the  *)
(* docstrings of app/output/session.py): tokens are issued in order, each  *)
(* is decided once, as heard or as lost, and a lost one is never counted.  *)
(***************************************************************************)
EXTENDS Integers

CONSTANT MaxToken   \* bound: dispatches in a behaviour

VARIABLES
    issued,   \* tokens handed out so far
    fate,     \* what became of each token
    marked,   \* tokens dispatched with the mark "already counted"
    plays     \* record_play calls, by token

ledgerVars == <<issued, fate, marked, plays>>

Tokens == 1 .. MaxToken

Init ==
    /\ issued = 0
    /\ fate = [t \in Tokens |-> "unissued"]
    /\ marked = {}
    /\ plays = [t \in Tokens |-> 0]

Waiting == {t \in Tokens : fate[t] = "waiting"}

\* A new token waits, or is heard at once (a gapless boundary); tokens that
\* waited may be lost to it.
Issue(mark, heard, lost) ==
    /\ issued < MaxToken
    /\ lost \subseteq Waiting
    /\ issued' = issued + 1
    /\ fate' = [t \in Tokens |->
                  CASE t = issued + 1 -> IF heard THEN "heard" ELSE "waiting"
                    [] t \in lost     -> "lost"
                    [] OTHER          -> fate[t]]
    /\ marked' = IF mark THEN marked \cup {issued + 1} ELSE marked
    /\ plays' = [plays EXCEPT ![issued + 1] = IF heard /\ ~mark THEN 1 ELSE 0]

\* Audio was heard for a waiting token: counted, unless it carries the mark.
Hear(t) ==
    /\ t \in Waiting
    /\ fate' = [fate EXCEPT ![t] = "heard"]
    /\ plays' = [plays EXCEPT ![t] = IF t \in marked THEN 0 ELSE 1]
    /\ UNCHANGED <<issued, marked>>

\* Withdrawn, superseded or handed to the outage classifier.
Lose(t) ==
    /\ t \in Waiting
    /\ fate' = [fate EXCEPT ![t] = "lost"]
    /\ UNCHANGED <<issued, marked, plays>>

Next ==
    \/ \E mark, heard \in BOOLEAN, lost \in SUBSET Waiting : Issue(mark, heard, lost)
    \/ \E t \in Tokens : Hear(t) \/ Lose(t)

Spec == Init /\ [][Next]_ledgerVars
=============================================================================
