--------------------------- MODULE ServerFedPlayer ---------------------------
(***************************************************************************)
(* The multi-room backends play a track by running an ffmpeg feed into     *)
(* their own server.  A play tears down the feed before, resolves the      *)
(* source and spawns the next one; a watcher (Snapcast) or the feed loop   *)
(* (Sendspin) reports its end.  Presses come over the API, on no lock.     *)
(***************************************************************************)
EXTENDS Naturals, FiniteSets

CONSTANTS
    MaxPlays,   \* bound: dispatches
    MaxPresses, \* bound: pauses, resumes, seeks and stops
    MaxFaults   \* bound: feeds that break, sources that do not resolve

VARIABLES
    kind,   \* "snapcast" or "sendspin"
    fed,    \* the backend: track, gen, the feed and its task, flags, the confirm token
    feeds,  \* the ffmpeg processes
    ops,    \* the play and the presses under way
    told,   \* what the host was told: confirmed tokens, ends and outages by play
    truth   \* counts; whether calls overlapped
fedVars == <<kind, fed, feeds, ops, told, truth>>

Plays == 1 .. MaxPlays
Presses == MaxPlays + 1 .. MaxPlays + MaxPresses
Ops == Plays \cup Presses
Feeds == 1 .. MaxPlays + MaxPresses
NoFeed == [proc |-> "none", of |-> 0, gen |-> 0, watched |-> FALSE]
ServerFedInit ==
    /\ kind \in {"snapcast", "sendspin"}
    /\ fed = [track |-> 0, gen |-> 0, feed |-> 0, task |-> 0, playing |-> FALSE, paused |-> FALSE,
              token |-> 0]
    /\ feeds = [f \in Feeds |-> NoFeed]
    /\ ops = [n \in Ops |-> [pc |-> "free", do |-> "play", src |-> 0, feed |-> 0, close |-> 0]]
    /\ told = [confirmed |-> {}, ended |-> [p \in Plays |-> 0], outage |-> FALSE]
    /\ truth = [plays |-> 0, presses |-> 0, faults |-> 0, crossed |-> FALSE]

Open == {n \in Ops : ops[n].pc \notin {"free", "done"}}
Goes(n, pc) == ops' = [ops EXCEPT ![n].pc = pc]
Faults == truth.faults < MaxFaults /\ truth' = [truth EXCEPT !.faults = @ + 1]
EndTold == fed.track # 0 /\ told.ended[fed.track] > 0
\* Bound: calls overlap once; what follows an overlap is not explored further.
Begins(what, late) ==
    ~truth.crossed /\ truth' = [truth EXCEPT ![what] = @ + 1, !.crossed = @ \/ Open # {} \/ late]

\* The feed and its task are taken away at once and closed later.
Torn(keep) == [fed EXCEPT !.gen = @ + 1, !.playing = @ /\ keep, !.feed = 0, !.task = 0]
Unwatched == IF fed.task = 0 THEN feeds ELSE [feeds EXCEPT ![fed.task].watched = FALSE]
Tears(n, keep, src, extra) ==
    /\ fed' = extra
    /\ feeds' = Unwatched
    /\ ops' = [ops EXCEPT ![n].pc = "closing", ![n].close = fed.feed, ![n].src = src]

-----------------------------------------------------------------------------
\* The session dispatches a play under the token it just issued.
PlayBegins(n) ==
    /\ n \in Plays /\ truth.plays = n - 1 /\ \A k \in Plays : ops[k].pc \in {"free", "done"}
    /\ Begins("plays", FALSE)
    /\ Tears(n, FALSE, n, [Torn(FALSE) EXCEPT !.token = n])
    /\ UNCHANGED <<kind, told>>
PressAllowed(n) == n \in Presses /\ truth.presses = n - MaxPlays - 1 /\ Begins("presses", EndTold)
PausesFlagged(n) ==
    /\ PressAllowed(n) /\ fed' = [fed EXCEPT !.paused = @ \/ fed.playing]
    /\ Goes(n, "done") /\ UNCHANGED <<kind, feeds, told>>
Pauses(n) ==
    /\ PressAllowed(n) /\ Tears(n, TRUE, 0, [Torn(TRUE) EXCEPT !.paused = @ \/ fed.playing])
    /\ UNCHANGED <<kind, told>>
Stops(n) ==
    /\ PressAllowed(n)
    /\ Tears(n, FALSE, 0, [Torn(FALSE) EXCEPT !.track = 0, !.paused = FALSE])
    /\ UNCHANGED <<kind, told>>
Resumes(n) ==
    /\ PressAllowed(n) /\ fed.track # 0 /\ fed.paused
    /\ ops' = [ops EXCEPT ![n] = [@ EXCEPT !.pc = "resolving", !.do = "resume", !.src = fed.track]]
    /\ UNCHANGED <<kind, fed, feeds, told>>
\* On a paused Sendspin only the position moves.
Seeks(n) ==
    /\ PressAllowed(n) /\ fed.track # 0 /\ ~(kind = "sendspin" /\ fed.paused)
    /\ ops' = [ops EXCEPT ![n] = [@ EXCEPT !.pc = "resolving", !.do = "seek", !.src = fed.track]]
    /\ UNCHANGED <<kind, fed, feeds, told>>

ClosedLeaves(n) ==
    /\ ops[n].pc = "closing"
    /\ Goes(n, IF ops[n].src = 0 THEN "done"
               ELSE IF ops[n].do = "play" THEN "resolving" ELSE "spawning")
    /\ UNCHANGED <<kind, fed, feeds, told, truth>>
Closed(n) ==
    /\ ops[n].pc = "closing"
    /\ feeds' = IF ops[n].close = 0 THEN feeds
                ELSE [feeds EXCEPT ![ops[n].close].proc = "none"]
    /\ Goes(n, IF ops[n].src = 0 THEN "done"
               ELSE IF ops[n].do = "play" THEN "resolving" ELSE "spawning")
    /\ UNCHANGED <<kind, fed, told, truth>>
\* A resume spawns over what is there; a seek tears it down first.
Resolves(n) ==
    /\ ops[n].pc = "resolving"
    /\ CASE ops[n].do = "play" -> fed' = [fed EXCEPT !.track = n] /\ Goes(n, "spawning")
                                  /\ UNCHANGED feeds
         [] ops[n].do = "resume" -> fed' = [fed EXCEPT !.paused = FALSE] /\ Goes(n, "spawning")
                                    /\ UNCHANGED feeds
         [] ops[n].do = "seek" -> Tears(n, TRUE, ops[n].src, Torn(TRUE))
    /\ UNCHANGED <<kind, told, truth>>
\* A play raises to the host; a press gives up.
Unresolved(n) ==
    /\ ops[n].pc = "resolving" /\ Faults /\ Goes(n, "done") /\ UNCHANGED <<kind, fed, feeds, told>>
Spawns(n) ==
    /\ ops[n].pc = "spawning"
    /\ LET f == CHOOSE x \in Feeds : feeds[x] = NoFeed IN
       /\ feeds' = [feeds EXCEPT ![f] = [proc |-> "run", of |-> ops[n].src, gen |-> fed.gen + 1,
                                         watched |-> FALSE]]
       /\ fed' = [fed EXCEPT !.gen = @ + 1, !.feed = f]
       /\ ops' = [ops EXCEPT ![n].pc = "started", ![n].feed = f]
    /\ UNCHANGED <<kind, told, truth>>
\* The first spawn of a play confirms it, before any byte.
StartedUnwatched(n) ==
    /\ ops[n].pc = "started" /\ Goes(n, "done")
    /\ fed' = [fed EXCEPT !.paused = FALSE, !.playing = TRUE, !.token = 0, !.task = ops[n].feed]
    /\ UNCHANGED <<kind, feeds, told, truth>>
Started(n) ==
    /\ ops[n].pc = "started" /\ Goes(n, "done")
    /\ fed' = [fed EXCEPT !.paused = FALSE, !.playing = TRUE, !.token = 0, !.task = ops[n].feed]
    /\ told' = IF fed.token = 0 THEN told ELSE [told EXCEPT !.confirmed = @ \cup {fed.token}]
    /\ feeds' = [feeds EXCEPT ![ops[n].feed].watched = TRUE]
    /\ UNCHANGED <<kind, truth>>

-----------------------------------------------------------------------------
PlaysOut(f) ==
    /\ feeds[f].proc = "run" /\ feeds' = [feeds EXCEPT ![f].proc = "ended"]
    /\ UNCHANGED <<kind, fed, ops, told, truth>>
Breaks(f) ==
    /\ feeds[f].proc = "run" /\ Faults /\ feeds' = [feeds EXCEPT ![f].proc = "broken"]
    /\ UNCHANGED <<kind, fed, ops, told>>
\* The watcher or the loop: superseded or stopped, the end is nobody's.
StillMine(f) == feeds[f].gen = fed.gen /\ fed.playing
PlayedOut(f) == feeds[f].proc = "ended"
SeesEnd(f) ==
    /\ feeds[f].watched /\ feeds[f].proc # "run"
    /\ feeds' = [feeds EXCEPT ![f].watched = FALSE]
    /\ IF StillMine(f)
       THEN /\ fed' = [fed EXCEPT !.playing = FALSE]
            /\ told' = IF PlayedOut(f) THEN [told EXCEPT !.ended[feeds[f].of] = @ + 1]
                       ELSE [told EXCEPT !.outage = TRUE]
       ELSE UNCHANGED <<fed, told>>
    /\ truth' = [truth EXCEPT !.crossed = @ \/ (StillMine(f) /\ Open # {})]
    /\ UNCHANGED <<kind, ops>>

Works(n) == Closed(n) \/ Resolves(n) \/ Unresolved(n) \/ Spawns(n) \/ Started(n)
Pressed(n) == Pauses(n) \/ Stops(n) \/ Resumes(n) \/ Seeks(n)
ServerFedPlayNext ==
    \/ \E n \in Ops : PlayBegins(n) \/ Pressed(n) \/ Works(n)
    \/ \E f \in Feeds : PlaysOut(f) \/ Breaks(f) \/ SeesEnd(f)
ServerFedPlaySpec == ServerFedInit /\ [][ServerFedPlayNext]_fedVars
FedWorks == \E n \in Ops : Works(n) \/ \E f \in Feeds : SeesEnd(f)
ServerFedPlayFair == WF_fedVars(FedWorks)
ServerFedPlayFairSpec == ServerFedPlaySpec /\ ServerFedPlayFair

-----------------------------------------------------------------------------
Running == {f \in Feeds : feeds[f].proc = "run"}
FedTypeOK ==
    /\ fed.track \in 0 .. MaxPlays /\ fed.feed \in {0} \cup Feeds
    /\ told.confirmed \subseteq Plays
\* One track, one feed: whatever was paused, resumed, sought or stopped, at
\* most one ffmpeg runs, and between calls it is the backend's, of its track.
\* (Calls that overlap are left out here: see FeedIsOwned.)
OneFeed ==
    ~truth.crossed =>
        /\ Cardinality(Running) <= 1
        /\ Open = {} => \A f \in Running : fed.feed = f /\ feeds[f].of = fed.track
\* A play's end advances the queue once, and only while it is the current
\* play.  (Calls that overlap, and presses around an end that was told, are
\* left out: a seek that resolves while the track plays out feeds it again.)
FedEndsOnceStep ==
    \A p \in Plays : told'.ended[p] # told.ended[p] =>
        truth.crossed \/ (told.ended[p] = 0 /\ p = fed.track /\ ~fed.paused)
FedEndsOnce == [][FedEndsOnceStep]_fedVars
\* A feed that ends while it is the current one is reported, as an end or an outage.
EndUntold ==
    fed.feed # 0 /\ fed.playing /\ feeds[fed.feed].proc \in {"ended", "broken"} /\ ~truth.crossed
FedEndTold == []<>~EndUntold
=============================================================================
