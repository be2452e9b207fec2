---------------------------- MODULE SendspinRoom ----------------------------
(***************************************************************************)
(* The Sendspin room: speakers connect and drop, one long-lived group is   *)
(* reconciled with who is connected, the feed loop pushes slices into a    *)
(* stream of a group or paces itself, a resync task follows the speakers'  *)
(* events, and pairing records are granted, timed out and revoked.  The    *)
(* server library is external: it keeps a client in a group until it is    *)
(* removed, and a speaker that comes back is a new client of the same id.  *)
(***************************************************************************)
EXTENDS Naturals, FiniteSets

CONSTANTS
    Speakers,
    MaxTracks, \* bound: tracks started
    MaxDrops,  \* bound: speakers that drop (each may come back)
    MaxPairs   \* bound: pairing attempts and revocations

VARIABLES
    conn,   \* the session of each connected speaker, 0 when it is not
    group,  \* id of the adapter's group (0: none) and the clients of every group
    feed,   \* the feed loop and the group its stream pushes to (0: no stream)
    resync, \* the one resync task
    pair,   \* per speaker: stored record, attempt, its timer, a revocation
    spent   \* the bounds, and the last session
roomVars == <<conn, group, feed, resync, pair, spent>>

Groups == 1 .. MaxTracks + 2 * MaxDrops + Cardinality(Speakers)
Live == {s \in Speakers : conn[s] # 0}
Clients == {<<s, conn[s]>> : s \in Live}
RoomInit ==
    /\ conn = [s \in Speakers |-> 0]
    /\ group = [id |-> 0, last |-> 0, of |-> [g \in Groups |-> {}]]
    /\ feed = [pc |-> "off", stream |-> 0, into |-> 0]
    /\ resync = "idle"
    /\ pair \in [Speakers -> {[record |-> r, attempt |-> "no", begun |-> FALSE, timer |-> FALSE,
                               revoke |-> "none"] :
                              r \in BOOLEAN}]
    /\ spent = [tracks |-> 0, drops |-> 0, pairs |-> 0, session |-> 0]

\* An empty room has no group; otherwise the members follow the ids connected.
Ensured ==
    IF Live = {} THEN [group EXCEPT !.id = 0]
    ELSE IF group.id = 0
    THEN [id |-> group.last + 1, last |-> group.last + 1,
          of |-> [group.of EXCEPT ![group.last + 1] = Clients]]
    ELSE [group EXCEPT !.of[group.id] =
            {m \in @ : m[1] \in Live} \cup {c \in Clients : \A m \in @ : m[1] # c[1]}]

-----------------------------------------------------------------------------
\* Every event of the server asks for a resync; one under way swallows it.
Resynced == resync' = IF resync = "idle" THEN "queued" ELSE resync
Joins(s) ==
    /\ conn[s] = 0 /\ spent.session < MaxDrops + Cardinality(Speakers)
    /\ spent' = [spent EXCEPT !.session = @ + 1] /\ conn' = [conn EXCEPT ![s] = spent.session + 1]
    /\ Resynced /\ UNCHANGED <<group, feed, pair>>
Drops(s) ==
    /\ conn[s] # 0 /\ spent.drops < MaxDrops
    /\ spent' = [spent EXCEPT !.drops = @ + 1] /\ conn' = [conn EXCEPT ![s] = 0]
    /\ Resynced /\ UNCHANGED <<group, feed, pair>>
\* configure_controls, then, with a track, set_now_playing: each ensures the
\* group first and then talks to the speakers.
ResyncRuns ==
    /\ \/ resync = "queued" /\ resync' = "controls"
       \/ resync = "controls" /\ feed.pc # "off" /\ resync' = "screens"
    /\ group' = Ensured /\ UNCHANGED <<conn, feed, pair, spent>>
ResyncEnds ==
    /\ resync = "screens" \/ (resync = "controls" /\ feed.pc = "off")
    /\ resync' = "idle" /\ UNCHANGED <<conn, group, feed, pair, spent>>

-----------------------------------------------------------------------------
\* A track begins: the old stream is stopped, the group ensured, a stream opened.
TrackStarts ==
    /\ feed.pc = "off" /\ spent.tracks < MaxTracks /\ spent' = [spent EXCEPT !.tracks = @ + 1]
    /\ group' = Ensured /\ feed' = [pc |-> "slice", stream |-> Ensured.id, into |-> 0]
    /\ UNCHANGED <<conn, resync, pair>>
TrackEnds ==
    /\ feed.pc = "slice" /\ feed' = [feed EXCEPT !.pc = "off"]
    /\ UNCHANGED <<conn, group, resync, pair, spent>>
\* With a stream and anybody there the buffer paces the loop, else the clock.
HasStream == feed.stream # 0 /\ Live # {}
Slice ==
    /\ feed.pc = "slice" /\ feed' = [feed EXCEPT !.pc = IF HasStream THEN "buffer" ELSE "clock"]
    /\ UNCHANGED <<conn, group, resync, pair, spent>>
BufferDrains ==
    /\ feed.pc = "buffer" /\ feed' = [feed EXCEPT !.pc = "slice"]
    /\ UNCHANGED <<conn, group, resync, pair, spent>>
ReconciledAttachOnly ==
    /\ feed.pc = "clock"
    /\ IF Live = {} \/ feed.stream # 0
       THEN feed' = [feed EXCEPT !.pc = "slice"] /\ UNCHANGED group
       ELSE /\ group' = Ensured
            /\ feed' = [feed EXCEPT !.pc = "attach", !.into = Ensured.id]
    /\ UNCHANGED <<conn, resync, pair, spent>>
Reconciled ==
    /\ feed.pc = "clock"
    /\ IF Live = {} \/ feed.stream # 0
       THEN /\ feed' = [feed EXCEPT !.pc = "slice", !.stream = IF Live = {} THEN 0 ELSE @]
            /\ UNCHANGED group
       ELSE /\ group' = Ensured
            /\ feed' = [feed EXCEPT !.pc = "attach", !.into = Ensured.id]
    /\ UNCHANGED <<conn, resync, pair, spent>>
Attached ==
    /\ feed.pc = "attach" /\ feed' = [pc |-> "slice", stream |-> feed.into, into |-> 0]
    /\ UNCHANGED <<conn, group, resync, pair, spent>>

-----------------------------------------------------------------------------
Pairing(s, p) == pair' = [pair EXCEPT ![s] = p] /\ UNCHANGED <<conn, group, feed, resync>>
PairBudget == spent.pairs < MaxPairs /\ spent' = [spent EXCEPT !.pairs = @ + 1]
\* Whether an attempt begins before or after the last revocation ended them.
Age(s) == IF pair[s].revoke \in {"none", "attempt"} THEN "before" ELSE "after"
\* The attempt is registered with the server; then its timer is armed anew.
PairBegins(s) ==
    /\ ~pair[s].begun /\ PairBudget
    /\ Pairing(s, [pair[s] EXCEPT !.attempt = Age(s), !.begun = TRUE])
TimerArmed(s) ==
    /\ pair[s].begun /\ Pairing(s, [pair[s] EXCEPT !.begun = FALSE, !.timer = TRUE])
    /\ UNCHANGED spent
\* The speaker completes the handshake: its record is stored.
PairCompletes(s) ==
    /\ pair[s].attempt # "no" /\ Pairing(s, [pair[s] EXCEPT !.attempt = "no", !.record = TRUE])
    /\ UNCHANGED spent
\* The expiry reaps an attempt, unless the speaker is listed as paired.
TimerFires(s) ==
    /\ pair[s].timer
    /\ Pairing(s, [pair[s] EXCEPT !.timer = FALSE, !.attempt = IF pair[s].record THEN @ ELSE "no"])
    /\ UNCHANGED spent
CancelPairing(s) ==
    /\ PairBudget /\ Pairing(s, [pair[s] EXCEPT !.timer = FALSE, !.attempt = "no"])

\* A revocation: the record, the attempt, the live session, then the check.
RevokeBegins(s) ==
    /\ pair[s].revoke \notin {"attempt", "session", "check"} /\ PairBudget
    /\ Pairing(s, [pair[s] EXCEPT !.record = FALSE, !.revoke = "attempt",
                                  !.attempt = IF @ = "after" THEN "before" ELSE @])
TimerOnly(s) ==
    /\ pair[s].revoke = "attempt"
    /\ Pairing(s, [pair[s] EXCEPT !.timer = FALSE, !.revoke = "session"]) /\ UNCHANGED spent
EndsAttempt(s) ==
    /\ pair[s].revoke = "attempt"
    /\ Pairing(s, [pair[s] EXCEPT !.attempt = "no", !.timer = FALSE, !.revoke = "session"])
    /\ UNCHANGED spent
Disconnects(s) ==
    /\ pair[s].revoke = "session" /\ pair' = [pair EXCEPT ![s].revoke = "check"]
    /\ conn' = [conn EXCEPT ![s] = 0]
    /\ group' = IF group.id = 0 THEN group
                ELSE IF {m[1] : m \in group.of[group.id]} = {s} THEN [group EXCEPT !.id = 0]
                ELSE [group EXCEPT !.of[group.id] = {m \in @ : m[1] # s}]
    /\ IF conn[s] # 0 THEN Resynced ELSE UNCHANGED resync
    /\ UNCHANGED <<feed, spent>>
RevokeEndsUnchecked(s) ==
    /\ pair[s].revoke = "check" /\ Pairing(s, [pair[s] EXCEPT !.revoke = "ok"]) /\ UNCHANGED spent
RevokeEnds(s) ==
    /\ pair[s].revoke = "check"
    /\ Pairing(s, [pair[s] EXCEPT !.revoke = IF pair[s].record THEN "raised" ELSE "ok"])
    /\ UNCHANGED spent

Paired(s) == TimerArmed(s) \/ TimerFires(s) \/ EndsAttempt(s) \/ Disconnects(s) \/ RevokeEnds(s)
Loop == Slice \/ BufferDrains \/ Reconciled \/ Attached
RoomNext ==
    \/ \E s \in Speakers : \/ Joins(s) \/ Drops(s) \/ Paired(s)
                           \/ PairBegins(s) \/ PairCompletes(s) \/ CancelPairing(s) \/ RevokeBegins(s)
    \/ ResyncRuns \/ ResyncEnds \/ TrackStarts \/ TrackEnds \/ Loop
RoomSpec == RoomInit /\ [][RoomNext]_roomVars
RoomWorks ==
    \/ ResyncRuns \/ ResyncEnds
    \/ \E s \in Speakers : TimerArmed(s) \/ TimerFires(s) \/ EndsAttempt(s) \/ Disconnects(s) \/ RevokeEnds(s)
RoomFair ==
    /\ WF_roomVars(Loop)
    /\ WF_roomVars(RoomWorks)
RoomFairSpec == RoomSpec /\ RoomFair

-----------------------------------------------------------------------------
RoomTypeOK ==
    /\ conn \in [Speakers -> 0 .. MaxDrops + Cardinality(Speakers)]
    /\ group.id \in {0} \cup Groups /\ feed.stream \in {0} \cup Groups
    /\ resync \in {"idle", "queued", "controls", "screens"}
\* A revocation holds: it reports success only with the record gone, whatever
\* handshake completed meanwhile, and no attempt begun before it pairs the
\* speaker again afterwards.
RevocationHoldsStep ==
    \A s \in Speakers :
        /\ pair'[s].revoke = "ok" /\ pair[s].revoke # "ok" => ~pair'[s].record
        /\ ~pair[s].record /\ pair'[s].record /\ pair[s].attempt = "before" =>
             pair[s].revoke \in {"none", "attempt"}
RevocationHolds == [][RevocationHoldsStep]_roomVars
\* While a track plays to a room that stays empty, the stream is given up: the
\* loop then paces itself and does not read the track to its end at once.
Paced == feed.pc # "off" /\ Live = {} => feed.stream = 0
EmptyRoomPaced == []<>Paced
\* An attempt of a speaker that never completes does not stay registered.
Reaped == \A s \in Speakers : pair[s].attempt # "no" => pair[s].record
AttemptReaped == []<>Reaped
=============================================================================
