------------------------------- MODULE MCParts -------------------------------
(***************************************************************************)
(* The parts around the playback core one by one in a single run, in the   *)
(* manner of MCPlayers: Init picks which, the variables v1 .. v15 are that *)
(* part's, every step is a step of it.  The bounds are given here, first   *)
(* those of the safety run, then those of the liveness run.                *)
(***************************************************************************)
EXTENDS Integers, Sequences, FiniteSets, TLC

CONSTANTS Liveness, \* which run this is
          None, upnp, boot, a1, a2, b1, e1

ASSUME PartsConstants ==
    /\ Liveness \in BOOLEAN
    /\ Cardinality({None, upnp, boot, a1, a2, b1, e1}) = 7

Bound(safe, live) == IF Liveness THEN live ELSE safe

VARIABLES which, v1, v2, v3, v4, v5, v6, v7, v8, v9, v10, v11, v12, v13, v14, v15

\* The output switch, whose safety MCSession checks.
Switch == INSTANCE OutputSwitch WITH
    router <- v1, be <- v2, serial <- v3, job <- v4, sel <- v5, held <- v6, ots <- v7, host <- v8,
    truth <- v9, consumed <- v10,
    CastDevices <- {"c1"}, DlnaDevices <- {"r1"}, MaxApplies <- 1, MaxAttempts <- 1, MaxFaults <- 1, MaxAdds <- 1
Watch == INSTANCE DeviceWatcher WITH
    there <- v1, reg <- v2, names <- v3, timer <- v4, look <- v5, lock <- v6, host <- v7, apply <- v8,
    idle <- v9, spent <- v10,
    CastDevices <- {"c1"}, DlnaDevices <- Bound({"r1", "r2"}, {"r1"}), Namesakes <- Bound({"r1", "r2"}, {}),
    MaxMoves <- 1, MaxMisses <- Bound(0, 1), MaxSwitches <- Bound(1, 0), MaxPlays <- Bound(0, 1)
Scan == INSTANCE DeviceScan WITH
    there <- v1, avahi <- v2, bus <- v3, cache <- v4, reg <- v5, grace <- v6, status <- v7,
    browse <- v8, lock <- v9, excuse <- v10, spent <- v11,
    Devices <- Bound({"d1", "d2"}, {"d1"}), Selected <- Bound("d1", None), MaxMoves <- 2,
    MaxFaults <- Bound(1, 2), MaxScans <- 1
Picker == INSTANCE DevicePicker WITH
    reg <- v1, seen <- v2, due <- v3, snaps <- v4, shown <- v5, version <- v6, probes <- v7,
    verdict <- v8, spent <- v9,
    Walk <- <<"air", "cast">>, HostOf <- [x \in {"air", "cast"} |-> "h1"],
    BackendOf <- [x \in {"air", "cast"} |-> x],
    Selected <- "cast", Slots <- 1, MaxMoves <- 2, MaxGets <- 1
Discovery == INSTANCE LiveDiscovery WITH
    net <- v1, cached <- v2, renderer <- v3, posted <- v4, resolving <- v5, datagrams <- v6,
    describing <- v7, sub <- v8, phase <- v9, reg <- v10, names <- v11, timers <- v12,
    debounce <- v13, missed <- v14, spent <- v15,
    Names <- {"n1"}, Addresses <- {"x1", "x2"}, Renderer <- upnp,
    MaxMoves <- 3, MaxMisses <- 1, MaxSweeps <- Bound(1, 0)
Protocol == INSTANCE AirPlayProtocol WITH
    stored <- v1, probes <- v2, device <- v3, playing <- v4, press <- v5, label <- v6, user <- v7,
    crossed <- v8, runs <- v9, spent <- v10,
    Speakers <- {"d1", "d2"}, Slots <- 1, MaxProbes <- 2, MaxPlays <- 1, MaxPresses <- 1, MaxFaults <- 1
Radio == INSTANCE RadioMode WITH
    line <- v1, adv <- v2, due <- v3, radio <- v4, rlock <- v5, job <- v6, out <- v7, hold <- v8,
    truth <- v9, used <- v10,
    Stations <- Bound({"s1", "s2"}, {"s1"}), MaxStarts <- 2, MaxStops <- 1, MaxTracks <- 1,
    MaxSkips <- 1, MaxFaults <- 1
Stream == INSTANCE RadioStream WITH
    sess <- v1, cur <- v2, caller <- v3, spent <- v4,
    MaxSessions <- 2, Cap <- 1, MaxReconnects <- 1, MaxFaults <- Bound(2, 1), MaxBinds <- 2
Host == INSTANCE ServerFedHost WITH
    reg <- v1, enabled <- v2, saved <- v3, inst <- v4, sup <- v5, tog <- v6, truth <- v7,
    MaxToggles <- 2, MaxRestarts <- 2, MaxCrashes <- 3
Fed == INSTANCE ServerFedPlayer WITH
    kind <- v1, fed <- v2, feeds <- v3, ops <- v4, told <- v5, truth <- v6,
    MaxPlays <- 2, MaxPresses <- 2, MaxFaults <- 1
Room == INSTANCE SendspinRoom WITH
    conn <- v1, group <- v2, feed <- v3, resync <- v4, pair <- v5, spent <- v6,
    Speakers <- {"s1"}, MaxTracks <- 1, MaxDrops <- 1, MaxPairs <- Bound(3, 2)
Party == INSTANCE PartyQueue WITH
    queue <- v1, play <- v2, adv <- v3, start <- v4, skip <- v5, freeze <- v6, deck <- v7, warm <- v8,
    cfg <- v9, press <- v10, used <- v11,
    Guests <- {"g1"}, Tracks <- {"t1", "t2"}, PlexOnly <- {"t1"}, Trigger <- "t1", MaxFailures <- 2,
    MaxAdds <- Bound(2, 1), MaxEdits <- 1, MaxSkips <- 1, MaxFills <- Bound(1, 0), MaxSwitches <- Bound(0, 1)
Browse == INSTANCE PreparedBrowse WITH
    live <- v1, pub <- v2, mem <- v3, db <- v4, build <- v5, client <- v6, spent <- v7,
    Inputs <- {"i1", "i2"}, MaxEdits <- Bound(2, 1), MaxFaults <- 1, MaxPasses <- 2
Sources == INSTANCE SourceCaches WITH
    rows <- v1, libs <- v2, off <- v3, reg <- v4, bld <- v5, gen <- v6, cache <- v7, shown <- v8,
    task <- v9, spent <- v10,
    Tables <- <<"A", "B">>, Admins <- {"admin"}, Crawls <- {"catalog", "index", "credits", "genres"},
    MaxEdits <- Bound(2, 1), MaxAsks <- Bound(0, 1), MaxFaults <- Bound(2, 0)
Catalog == INSTANCE CatalogIdentity WITH
    meta <- v1, alias <- v2, catalog <- v3, plays <- v4, stars <- v5, scan <- v6, spent <- v7,
    ItemSeq <- <<a1, a2, b1>>, ExtSeq <- <<e1>>,
    SourceOf <- [i \in {a1, a2, b1} |-> IF i = b1 THEN "B" ELSE "A"], Duplicates <- FALSE,
    MaxEdits <- 3, MaxScans <- 2, MaxPlays <- 2, MaxCrashes <- 1, MaxInputs <- 4
Conn == INSTANCE SharedConnection WITH
    disk <- v1, work <- v2, tx <- v3, lock <- v4, job <- v5, mem <- v6, acked <- v7, spent <- v8,
    Writers <- {"w1", "w2", "w3"}, BeginRetries <- 2, MaxWrites <- 4, MaxErrors <- 1, MaxCrashes <- 1
Relay == INSTANCE StreamRelay WITH
    relay <- v1, dry <- v2, astray <- v3, left <- v4,
    Size <- 3, MaxResumes <- 3, MaxDrops <- 5, MaxAsks <- 2
Proxy == INSTANCE TranscodeCache WITH
    cache <- v1, inflight <- v2, job <- v3, files <- v4, req <- v5, cur <- v6, spent <- v7,
    Keys <- {"k1", "k2"}, Requests <- {"q1", "q2"}, CacheMax <- 1, Size <- 2, MaxResumes <- 1,
    MaxJobs <- 2, MaxFaults <- 1, MaxCancels <- Bound(0, 1), MaxTracks <- Bound(1, 0)
Art == INSTANCE ArtCache WITH
    disk <- v1, index <- v2, size <- v3, loaded <- v4, event <- v5, lock <- v6, thread <- v7,
    task <- v8, overlap <- v9, spent <- v10,
    Keys <- {"k1", "k2"}, Requests <- {"q1", "q2"}, Boot <- boot, Cap <- 1, MaxAsks <- 2,
    MaxFaults <- Bound(1, 0), MaxCrashes <- Bound(1, 0)
\* The next track armed on a renderer, whose safety has a run of its own, too.
Armed == INSTANCE ArmedNext WITH
    dev <- v1, be <- v2, poll <- v3, wire <- v4, reply <- v5, faults <- v6, q <- v7, orch <- v8,
    play <- v9, inputs <- v10,
    Tracks <- {"t1", "t2"}, MaxFaults <- 0, MaxInputs <- 1
\* The output backends, whose safety has a run of its own.
Players == INSTANCE MCPlayers WITH
    which <- v14, Tracks <- {"t1"}, MaxPlays <- 2, MaxPresses <- 0, MaxMishaps <- 1, MaxSpawns <- 2,
    MaxPipes <- 3, RadioCap <- 1, MaxTracks <- 2, MaxSessions <- 2, MaxTokens <- 3, FlowPresses <- 1

\* What a part of so many variables leaves: unchanged, and 0.
T11 == <<v12, v13, v14, v15>>
T10 == <<v11, T11>>
T9 == <<v10, T10>>
T8 == <<v9, T9>>
T7 == <<v8, T8>>
T6 == <<v7, T7>>
T4 == <<v5, v6, T6>>
vars == <<which, v1, v2, v3, v4, T4>>
Z11 == v12 = 0 /\ v13 = 0 /\ v14 = 0 /\ v15 = 0
Z10 == v11 = 0 /\ Z11
Z9 == v10 = 0 /\ Z10
Z8 == v9 = 0 /\ Z9
Z7 == v8 = 0 /\ Z8
Z6 == v7 = 0 /\ Z7
Z4 == v5 = 0 /\ v6 = 0 /\ Z6

Init ==
    \/ Liveness /\ which = "switch" /\ Switch!SwitchInit /\ Z10
    \/ which = "watch" /\ Watch!WatchInit /\ Z10
    \/ which = "scan" /\ Scan!ScanInit /\ Z11
    \/ which = "picker" /\ Picker!PickerInit /\ Z9
    \/ which = "discovery" /\ Discovery!LiveInit
    \/ ~Liveness /\ which = "protocol" /\ Protocol!ProtocolInit /\ Z10
    \/ which = "radio" /\ Radio!RadioInit /\ Z10
    \/ which = "stream" /\ Stream!RadioStreamInit /\ Z4
    \/ which = "host" /\ Host!ServerFedInit /\ Z7
    \/ which = "fed" /\ Fed!ServerFedInit /\ Z6
    \/ which = "room" /\ Room!RoomInit /\ Z6
    \/ which = "party" /\ Party!PartyInit /\ Z11
    \/ which = "browse" /\ Browse!PrepInit /\ Z7
    \/ which = "sources" /\ Sources!SourcesInit /\ Z10
    \/ ~Liveness /\ which = "catalog" /\ Catalog!CatalogInit /\ Z7
    \/ ~Liveness /\ which = "conn" /\ Conn!ConnInit /\ Z8
    \/ ~Liveness /\ which = "relay" /\ Relay!RelayInit /\ Z4
    \/ which = "proxy" /\ Proxy!ProxyInit /\ Z7
    \/ which = "art" /\ Art!ArtInit /\ Z10
    \/ /\ Liveness /\ which = "armed" /\ Armed!Init /\ Z10
       /\ v7.cur = "t1" /\ v7.nxt = "t2" /\ ~v1.deaf
    \/ Liveness /\ which = "players" /\ Players!Init /\ v15 = 0

Is(w) == which = w /\ which' = w
Next ==
    \/ Is("switch") /\ Switch!SwitchNext /\ UNCHANGED T10
    \/ Is("watch") /\ Watch!WatchNext /\ UNCHANGED T10
    \/ Is("scan") /\ Scan!ScanNext /\ UNCHANGED T11
    \/ Is("picker") /\ Picker!PickerNext /\ UNCHANGED T9
    \/ Is("discovery") /\ Discovery!LiveNext
    \/ Is("protocol") /\ Protocol!ProtocolNext /\ UNCHANGED T10
    \/ Is("radio") /\ Radio!RadioNext /\ UNCHANGED T10
    \/ Is("stream") /\ Stream!RadioStreamNext /\ UNCHANGED T4
    \/ Is("host") /\ Host!ServerFedNext /\ UNCHANGED T7
    \/ Is("fed") /\ Fed!ServerFedPlayNext /\ UNCHANGED T6
    \/ Is("room") /\ Room!RoomNext /\ UNCHANGED T6
    \/ Is("party") /\ Party!PartyNext /\ UNCHANGED T11
    \/ Is("browse") /\ Browse!PrepNext /\ UNCHANGED T7
    \/ Is("sources") /\ Sources!SourcesNext /\ UNCHANGED T10
    \/ Is("catalog") /\ Catalog!CatalogNext /\ UNCHANGED T7
    \/ Is("conn") /\ Conn!ConnNext /\ UNCHANGED T8
    \/ Is("relay") /\ Relay!RelayNext /\ UNCHANGED T4
    \/ Is("proxy") /\ Proxy!ProxyNext /\ UNCHANGED T7
    \/ Is("art") /\ Art!ArtNext /\ UNCHANGED T10
    \/ Is("armed") /\ Armed!Next /\ UNCHANGED T10
    \/ Is("players") /\ Players!Next /\ UNCHANGED v15
Safe == Init /\ [][Next]_vars

\* The fairness of the specifications.  A behaviour is one part's for ever, so
\* the i-th condition of every part makes one condition here.
Duty1 ==
    \/ Is("switch") /\ Switch!SwitchWorks /\ UNCHANGED T10
    \/ Is("watch") /\ Watch!Retries /\ UNCHANGED T10
    \/ Is("scan") /\ Scan!ScanWorks /\ UNCHANGED T11
    \/ Is("picker") /\ Picker!PickerWorks /\ UNCHANGED T9
    \/ Is("discovery") /\ Discovery!LiveWorks
    \/ Is("radio") /\ Radio!RadioWorks /\ UNCHANGED T10
    \/ Is("stream") /\ Stream!Fits(1) /\ UNCHANGED T4
    \/ Is("host") /\ Host!HostWorks /\ UNCHANGED T7
    \/ Is("fed") /\ Fed!FedWorks /\ UNCHANGED T6
    \/ Is("room") /\ Room!Loop /\ UNCHANGED T6
    \/ Is("party") /\ Party!PartyEdits /\ UNCHANGED T11
    \/ Is("browse") /\ Browse!PrepWorks /\ UNCHANGED T7
    \/ Is("sources") /\ Sources!SourcesWork /\ UNCHANGED T10
    \/ Is("proxy") /\ Proxy!JobSteps(1) /\ UNCHANGED T7
    \/ Is("art") /\ Art!ArtWorks /\ UNCHANGED T10
    \/ Is("armed") /\ Armed!PollWorks /\ UNCHANGED T10
    \/ Is("players") /\ Players!Duty1 /\ UNCHANGED v15
Duty2 ==
    \/ Is("watch") /\ Watch!SweepStarts /\ UNCHANGED T10
    \/ Is("scan") /\ Scan!SweepStarts /\ UNCHANGED T11
    \/ Is("stream") /\ Stream!Fits(2) /\ UNCHANGED T4
    \/ Is("room") /\ Room!RoomWorks /\ UNCHANGED T6
    \/ Is("party") /\ Party!PartyPlays /\ UNCHANGED T11
    \/ Is("proxy") /\ Proxy!JobSteps(2) /\ UNCHANGED T7
    \/ Is("armed") /\ Armed!RequestsServed /\ UNCHANGED T10
    \/ Is("players") /\ Players!Duty2 /\ UNCHANGED v15
Duty3 ==
    \/ Is("watch") /\ Watch!SweepMerges /\ UNCHANGED T10
    \/ Is("stream") /\ Stream!SessionWorks(1) /\ UNCHANGED T4
    \/ Is("proxy") /\ Proxy!RequestWorks("q1") /\ UNCHANGED T7
    \/ Is("armed") /\ Armed!ArmingWorks /\ UNCHANGED T10
    \/ Is("players") /\ Players!Duty3 /\ UNCHANGED v15
Duty4 ==
    \/ Is("watch") /\ Watch!GraceExpires("c1") /\ UNCHANGED T10
    \/ Is("stream") /\ Stream!SessionWorks(2) /\ UNCHANGED T4
    \/ Is("proxy") /\ Proxy!RequestWorks("q2") /\ UNCHANGED T7
    \/ Is("armed") /\ Armed!PlayEnds /\ UNCHANGED T10
    \/ Is("players") /\ Players!Duty4 /\ UNCHANGED v15
Duty5 ==
    \/ Is("watch") /\ Watch!GraceExpires("r1") /\ UNCHANGED T10
    \/ Is("players") /\ Players!Duty5 /\ UNCHANGED v15
Duty6 ==
    \/ Is("watch") /\ Watch!ScanMerges /\ UNCHANGED T10
    \/ Is("players") /\ Players!Duty6 /\ UNCHANGED v15
Duty7 ==
    \/ Is("watch") /\ Watch!Told("c1") /\ UNCHANGED T10
    \/ Is("players") /\ Players!Duty7 /\ UNCHANGED v15
Duty8 == Is("watch") /\ Watch!Told("r1") /\ UNCHANGED T10
Timer1 ==
    \/ Is("watch") /\ Watch!PurgeExpires("c1") /\ UNCHANGED T10
    \/ Is("scan") /\ Scan!GraceExpires("d1") /\ UNCHANGED T11
Timer2 == Is("watch") /\ Watch!PurgeExpires("r1") /\ UNCHANGED T10
Spec ==
    /\ Safe
    /\ WF_vars(Duty1) /\ WF_vars(Duty2) /\ WF_vars(Duty3) /\ WF_vars(Duty4)
    /\ WF_vars(Duty5) /\ WF_vars(Duty6) /\ WF_vars(Duty7) /\ WF_vars(Duty8)
    /\ SF_vars(Timer1) /\ SF_vars(Timer2)

-----------------------------------------------------------------------------
\* The state of every part is well formed.
TypeOK ==
    CASE which = "watch" -> Watch!WatchTypeOK
      [] which = "scan" -> Scan!ScanTypeOK [] which = "picker" -> Picker!PickerTypeOK
      [] which = "discovery" -> Discovery!LiveTypeOK [] which = "protocol" -> Protocol!ProtocolTypeOK
      [] which = "radio" -> Radio!RadioTypeOK [] which = "stream" -> Stream!StreamTypeOK
      [] which = "host" -> Host!ServerFedTypeOK [] which = "fed" -> Fed!FedTypeOK
      [] which = "room" -> Room!RoomTypeOK [] which = "party" -> Party!PartyTypeOK
      [] which = "browse" -> Browse!PrepTypeOK [] which = "sources" -> Sources!SourcesTypeOK
      [] which = "catalog" -> Catalog!CatalogTypeOK [] which = "conn" -> Conn!ConnTypeOK
      [] which = "relay" -> Relay!RelayTypeOK [] which = "proxy" -> Proxy!ProxyTypeOK
      [] which = "art" -> Art!ArtTypeOK

\* What the admin page says of the devices follows from what was seen of them:
\* the watcher's timers count against the right devices, only a list that left it
\* out makes a device go, every listed device can be addressed, a picker row
\* is the sum of its entries, no remembered device is probed, no speaker is
\* probed twice and a user's decision on its protocol stands.
DevicesRight ==
    CASE which = "watch" -> Watch!Counted
      [] which = "scan" -> Scan!ListedAddressed /\ Scan!GoneByListOnly
      [] which = "picker" -> Picker!AggregateRight /\ Picker!RememberedNeverProbed
      [] which = "protocol" -> Protocol!ProbedOnce /\ Protocol!DecisionKept
      [] OTHER -> TRUE

\* What plays is what the host shows, from one source only: a radio takeover
\* loses no track and leaves none stranded, one encoder and one feed run, a
\* Sendspin or Snapcast server lives only under its backend, a freeze stays
\* quiet and the pick on deck is of the settings of now.
SoundRight ==
    CASE which = "radio" -> Radio!StopIsLast /\ Radio!QueueWhole /\ Radio!HeardIsMeant /\ Radio!NotStranded
      [] which = "stream" -> Stream!OneEncoder
      [] which = "host" -> Host!ServerOwned /\ Host!EnabledIsReal
      [] which = "fed" -> Fed!OneFeed
      [] which = "party" -> Party!PickIsFresh /\ Party!FreezeKeepsQuiet
      [] OTHER -> TRUE

\* What is stored, cached or relayed is what it stands for: a prepared answer
\* names its inputs, no source that is off is listed, a scan drops no track,
\* what a write reported is on disk, a relayed body has no hole, a cached
\* transcode is whole and the art cache knows its size.
DataRight ==
    CASE which = "browse" -> Browse!PreparedRight
      [] which = "sources" -> Sources!SwitchedOffUnlisted
      [] which = "catalog" -> Catalog!EveryTrackHeld
      [] which = "conn" -> Conn!PlaysKept /\ Conn!LastSaveWins
      [] which = "relay" -> Relay!BodyContiguous /\ Relay!ShortOnlyWhenDry
      [] which = "proxy" -> Proxy!ArtifactWhole
      [] which = "art" -> Art!SizeIsIndex /\ Art!CapKept
      [] OTHER -> TRUE

\* What no step does: evict the selected device or one a blind Scan missed,
\* touch the registry after the stop, advance the queue twice for one play,
\* pair a speaker again after its revocation, empty the artists of the
\* catalog or the index because the sources did not answer, overwrite a rating or drop a count nobody holds, evict the
\* file that plays, or take the silent path the user left.
StepsRight ==
    [][/\ which = "watch" => Watch!SelectedKeptStep
       /\ which = "scan" => Scan!ScanSparesStep
       /\ which = "discovery" => Discovery!StopIsQuietStep
       /\ which = "fed" => Fed!FedEndsOnceStep
       /\ which = "room" => Room!RevocationHoldsStep
       /\ which = "sources" => Sources!GuardedKeptStep
       /\ which = "catalog" => Catalog!MigrationSparesStep
       /\ which = "proxy" => Proxy!CurrentKeptStep
       /\ which = "protocol" => Protocol!SilentPathLeftStep]_vars

\* The devices settle: a hold that retries ends, a device that is back is
\* attached, one that left is shown as gone, a change reaches the picker.
DevicesSettle ==
    []<>CASE which = "switch" -> ~Switch!HoldWaits
          [] which = "watch" -> Watch!Taken /\ Watch!Left
          [] which = "scan" -> Scan!ShownGone
          [] which = "picker" -> Picker!Shown
          [] which = "discovery" -> Discovery!StayersUp
          [] OTHER -> TRUE

\* What plays settles: a stop gets through, a silent encoder goes, a device of
\* a closed station is let go and an ended one reported, a server that died is
\* back or given up, the end of a feed is told, an empty room paces itself, a
\* stale pairing attempt is reaped, requests and draws of the party end.  An outdated
\* arm is revoked, a device that
\* falls silent under a track has its end reported, a reposition the stitcher
\* accepted is spliced in, a count the receiver has reached is confirmed.
SoundSettles ==
    []<>CASE which = "radio" -> ~Radio!StopsWait
          [] which = "stream" -> Stream!LetGo /\ Stream!NoSilentEncoder /\ Stream!Reported
          [] which = "host" -> ~Host!CrashLingers
          [] which = "fed" -> ~Fed!EndUntold
          [] which = "room" -> Room!Paced /\ Room!Reaped
          [] which = "party" -> Party!PartyRests
          [] which = "armed" -> Armed!ArmFresh
          [] which = "players" -> Players!SilenceOver /\ Players!FlowOver
          [] OTHER -> TRUE

\* Every rebuild, crawl, refresh, transcode and art request comes to its end.
DataSettles ==
    []<>CASE which = "browse" -> Browse!Idle
          [] which = "sources" -> Sources!SourcesRest
          [] which = "proxy" -> Proxy!NoneInflight
          [] which = "art" -> Art!RequestsRest
          [] OTHER -> TRUE
=============================================================================
