----------------------------- MODULE RadioStream -----------------------------
(***************************************************************************)
(* The server-side encoder of a radio station for Cast and DLNA: one       *)
(* session per started station, each with an encoder process, the task     *)
(* that pumps its output into a bounded buffer, a watchdog, and the one    *)
(* device that fetches it.  Starting a station first reaps the session     *)
(* before it.  Starts and stops arrive one at a time.                      *)
(***************************************************************************)
EXTENDS Naturals, FiniteSets

CONSTANTS
    MaxSessions,   \* bound: stations started
    Cap,           \* the chunks the buffer holds
    MaxReconnects, \* the reconnect budget of a session
    MaxFaults,     \* bound: encoders that end, wedge, or fail to spawn
    MaxBinds       \* bound: fetches by the device

VARIABLES
    sess,    \* the sessions
    cur,     \* _current_session, 0 if none
    caller,  \* the start or stop under way: what it waits for
    spent
streamVars == <<sess, cur, caller, spent>>

Sessions == 1 .. MaxSessions
Fresh == [pc |-> "none", enc |-> "none", made |-> FALSE, room |-> Cap, reconnects |-> 0,
          watch |-> FALSE, closed |-> FALSE, ended |-> FALSE,
          bound |-> "no", heard |-> FALSE, grace |-> FALSE, reported |-> FALSE]
RadioStreamInit ==
    /\ sess = [n \in Sessions |-> Fresh] /\ cur = 0 /\ caller = [pc |-> "idle", then |-> "stop"]
    /\ spent = [starts |-> 0, faults |-> 0, binds |-> 0]

Alive(n) == sess[n].enc \in {"silent", "live", "wedged"}
Upd(n, r) == sess' = [sess EXCEPT ![n] = r]
Spends(what) == spent' = [spent EXCEPT ![what] = @ + 1]

-----------------------------------------------------------------------------
(* Minting, superseding, closing. *)

\* The flag is set and the tasks cancelled at once; the encoder is reaped later.
Closes(s) == [s EXCEPT !.closed = TRUE, !.pc = "reaping", !.watch = FALSE, !.grace = FALSE]
Open(n) == n # 0 /\ ~sess[n].closed
Mints(ss) ==
    /\ cur' = spent.starts + 1 /\ Spends("starts")
    /\ sess' = [ss EXCEPT ![spent.starts + 1].pc = "spawning"]
StartsStreamAtOnce ==
    /\ caller.pc = "idle" /\ spent.starts < MaxSessions
    /\ Mints(IF Open(cur) THEN [sess EXCEPT ![cur] = Closes(sess[cur])] ELSE sess)
    /\ UNCHANGED caller
StartsStream ==
    /\ caller.pc = "idle" /\ spent.starts < MaxSessions
    /\ IF Open(cur)
       THEN /\ Upd(cur, Closes(sess[cur])) /\ cur' = 0
            /\ caller' = [pc |-> "waiting", then |-> "start"] /\ UNCHANGED spent
       ELSE Mints(sess) /\ UNCHANGED caller
StopsStream ==
    /\ caller.pc = "idle" /\ Open(cur)
    /\ Upd(cur, Closes(sess[cur])) /\ caller' = [pc |-> "waiting", then |-> "stop"]
    /\ UNCHANGED <<cur, spent>>
\* The encoder is gone; a start that waited for it goes on.
Reaped(n) ==
    /\ sess[n].pc = "reaping"
    /\ LET gone == [sess EXCEPT ![n].pc = "done", ![n].enc = "none"] IN
       IF caller.then = "start"
       THEN Mints(gone)
       ELSE sess' = gone /\ cur' = (IF cur = n THEN 0 ELSE cur) /\ UNCHANGED spent
    /\ caller' = [caller EXCEPT !.pc = "idle"]

-----------------------------------------------------------------------------
(* The pump. *)

Spawned(s) == [s EXCEPT !.enc = "silent", !.made = FALSE, !.pc = "read", !.watch = TRUE]
Spawns(n) ==
    /\ sess[n].pc = "spawning" /\ Upd(n, Spawned(sess[n])) /\ UNCHANGED <<cur, caller, spent>>
EndsIngest(s) == [s EXCEPT !.pc = "ended", !.ended = TRUE]
\* The first spawn's failure closes the session, with no process to wait for;
\* a respawn's ends its output.
SpawnFails(n) ==
    /\ sess[n].pc = "spawning" /\ spent.faults < MaxFaults /\ Spends("faults")
    /\ IF sess[n].reconnects = 0
       THEN /\ Upd(n, [Closes(sess[n]) EXCEPT !.pc = "done", !.ended = TRUE])
            /\ cur' = IF cur = n THEN 0 ELSE cur
       ELSE Upd(n, EndsIngest(sess[n])) /\ UNCHANGED cur
    /\ UNCHANGED caller
Pushed(s) == IF s.room > 0 THEN [s EXCEPT !.room = @ - 1, !.pc = "read"] ELSE [s EXCEPT !.pc = "push"]
Reads(n) ==
    /\ sess[n].pc = "read" /\ sess[n].enc \in {"silent", "live"}
    /\ Upd(n, Pushed([sess[n] EXCEPT !.enc = "live", !.made = TRUE]))
    /\ UNCHANGED <<cur, caller, spent>>
Fits(n) ==
    /\ sess[n].pc = "push" /\ sess[n].room > 0 /\ Upd(n, Pushed(sess[n]))
    /\ UNCHANGED <<cur, caller, spent>>
\* The end of the encoder's output: a fresh one from now, within the budget.
Exhausted(s) == s.reconnects >= MaxReconnects
Drops(n) ==
    /\ sess[n].pc = "read" /\ sess[n].enc = "dead"
    /\ LET s == [sess[n] EXCEPT !.enc = "none", !.reconnects = @ + 1] IN
       Upd(n, IF Exhausted(sess[n]) THEN EndsIngest(s) ELSE [s EXCEPT !.pc = "spawning"])
    /\ UNCHANGED <<cur, caller, spent>>

EncoderEnds(n) ==
    /\ Alive(n) /\ spent.faults < MaxFaults /\ Spends("faults")
    /\ sess' = [sess EXCEPT ![n].enc = "dead"] /\ UNCHANGED <<cur, caller>>
EncoderWedges(n) ==
    /\ sess[n].enc \in {"silent", "live"} /\ spent.faults < MaxFaults /\ Spends("faults")
    /\ sess' = [sess EXCEPT ![n].enc = "wedged"] /\ UNCHANGED <<cur, caller>>

\* No first byte in time, fetched or not; or nothing new for long while fetched,
\* which is also what a pump that waits for room looks like.
OverdueIfFetched(s) == (s.bound # "no" /\ s.enc = "wedged") \/ (s.bound = "streaming" /\ s.pc = "push")
Overdue(s) == OverdueIfFetched(s) \/ (~s.made /\ s.enc \in {"silent", "wedged"})
WatchKills(n) ==
    /\ sess[n].watch /\ Alive(n) /\ Overdue(sess[n])
    /\ sess' = [sess EXCEPT ![n].enc = "dead"] /\ UNCHANGED <<cur, caller, spent>>

-----------------------------------------------------------------------------
(* The device. *)

Binds(n) ==
    /\ n = cur /\ Open(n) /\ sess[n].bound = "no" /\ spent.binds < MaxBinds /\ Spends("binds")
    /\ sess' = [sess EXCEPT ![n].bound = "priming", ![n].heard = TRUE, ![n].grace = FALSE]
    /\ UNCHANGED <<cur, caller>>
Takes1(n) ==
    /\ sess[n].bound # "no" /\ ~sess[n].closed /\ sess[n].room < Cap
    /\ sess' = [sess EXCEPT ![n].room = @ + 1, ![n].bound = "streaming"]
    /\ UNCHANGED <<cur, caller, spent>>
\* The fetch is over: a timer runs for the next one.
UnboundForgets(s) == [s EXCEPT !.bound = "no"]
Unbound(s) == [s EXCEPT !.bound = "no", !.grace = ~s.closed]
DeviceLeaves(n) ==
    /\ sess[n].bound = "streaming" /\ Upd(n, Unbound(sess[n])) /\ UNCHANGED <<cur, caller, spent>>
RunsDryParked(n) ==
    /\ sess[n].bound # "no" /\ sess[n].ended /\ sess[n].room = Cap
    /\ Upd(n, Unbound(sess[n])) /\ UNCHANGED <<cur, caller, spent>>
RunsDry(n) ==
    /\ sess[n].bound # "no"
    /\ sess[n].closed \/ (sess[n].ended /\ sess[n].room = Cap)
    /\ Upd(n, Unbound(sess[n])) /\ UNCHANGED <<cur, caller, spent>>
\* No fetch within the grace: the station is reported as failed.
GraceExpires(n) ==
    /\ sess[n].grace
    /\ sess' = [sess EXCEPT ![n].grace = FALSE,
                            ![n].reported = @ \/ (~sess[n].closed /\ sess[n].bound = "no")]
    /\ UNCHANGED <<cur, caller, spent>>

-----------------------------------------------------------------------------
Pump(n) == Spawns(n) \/ Reads(n) \/ Fits(n) \/ Drops(n)
Device(n) == Binds(n) \/ Takes1(n) \/ DeviceLeaves(n)
RadioStreamNext ==
    \/ StartsStream \/ StopsStream
    \/ \E n \in Sessions :
        \/ Reaped(n) \/ Pump(n) \/ SpawnFails(n) \/ EncoderEnds(n) \/ EncoderWedges(n)
        \/ WatchKills(n) \/ Device(n) \/ RunsDry(n) \/ GraceExpires(n)
RadioStreamSpec == RadioStreamInit /\ [][RadioStreamNext]_streamVars
\* The event loop runs its tasks and timers; the device takes what it will.
SessionWorks(n) ==
    Reaped(n) \/ Spawns(n) \/ Drops(n) \/ WatchKills(n) \/ RunsDry(n) \/ GraceExpires(n)
RadioStreamFair == \A n \in Sessions : WF_streamVars(Fits(n)) /\ WF_streamVars(SessionWorks(n))
RadioStreamFairSpec == RadioStreamSpec /\ RadioStreamFair

-----------------------------------------------------------------------------
StreamTypeOK ==
    /\ \A n \in Sessions : sess[n].room \in 0 .. Cap /\ sess[n].reconnects \in 0 .. MaxReconnects + 1
    /\ cur \in 0 .. MaxSessions
\* Rapid station flips never stack encoders: at most one process lives, and
\* between calls it belongs to the session in charge.
OneEncoder ==
    /\ Cardinality({n \in Sessions : Alive(n)}) <= 1
    /\ caller.pc = "idle" => \A n \in Sessions : Alive(n) => n = cur /\ Open(n)
\* The device of a closed or ended session is let go, not left in silence.
LetGo == \A n \in Sessions : sess[n].closed => sess[n].bound = "no"
SilenceLetsGo == []<>LetGo
\* An encoder that never gives a byte does not live on, fetched or not.
NoSilentEncoder == \A n \in Sessions : Alive(n) => sess[n].made
SilentEncoderGoes == []<>NoSilentEncoder
\* A session whose output ended after the device had fetched it is reported as
\* failed when the device does not come back, or it is closed.
Reported == \A n \in Sessions :
    sess[n].ended /\ sess[n].heard /\ sess[n].room = Cap => sess[n].reported \/ sess[n].closed
EndReported == []<>Reported
=============================================================================
