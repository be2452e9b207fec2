# Jukeplox: TLA+ models, model checking and proofs

Jukeplox is a party jukebox: guests queue tracks from Plex, Jellyfin, Emby,
Subsonic or local sources, and one server process plays the queue on one output
(Cast, DLNA, AirPlay, a local device, a Plex player, multiroom). It is a single
asyncio program. Its hard part is what happens between two `await`s: ends of
streams, host presses, outage reports from backend threads, timers, reconnects,
scans and rebuilds all touch the same state. These modules model that.

## Parts of the system

| part | state it keeps | modelled in |
|---|---|---|
| queue engine (`queue/engine.py`) | queue, history (bounded deque), current, transport flags, guest lock, end behaviour | `QueueOps`, `QueueEngine` |
| stranded-track gate (`state.py`, `api/admin.py`) | snapshot of removed entries | `QueueEngine`, `PartyQueue` |
| confirmed starts (`output/session.py`) | token, live and retired dispatch, stash, timers | `DispatchLedger`, `OutputSupervisor` |
| advance and presses (`state.py`, `playback_control.py`) | `_advance_lock`, `_advance_gen` | `PlaybackSession` |
| output hold and classifier (`output/hold.py`, `output/session.py`) | `_output_hold` | `PlaybackSession` |
| router, switch, reconnect loop, attaches (`output/router.py`, `output/session.py`, `output/base.py`, `state.py`) | active and pending backend, epochs, generations, `_Outage`, attach lock | `OutputSwitch` |
| watcher and idle re-attach (`output/watcher.py`, `output/idle_reattach.py`) | registry, grace and purge timers, listener, retry slot | `DeviceWatcher` |
| Scan and avahi browsing (`api/admin.py`, `output/mdns_dbus.py`) | one-shot results, mDNS status | `DeviceScan` |
| zeroconf and SSDP callbacks (`output/mdns_zeroconf.py`, `output/watcher.py`) | resolves under way, sub-names | `LiveDiscovery` |
| device picker and probes (`output/discovery.py`, `output/probe_runner.py`) | snapshots, versions, probe cache | `DevicePicker` |
| gapless arming (`state.py`, `output/dlna.py`) | `_armed_next_track`, request, watch, verdict | `ArmedNext`, `DlnaRenderer` |
| Cast, Cast flow mode, Plex player, AirPlay, direct | each backend's play, watchdog, polls, processes | `ChromecastReceiver`, `CastFlow`, `PlexPlayer`, `AirPlaySender`, `DirectPlayer` |
| AirPlay protocol choice (`output/airplay.py`, `api/admin.py`) | stored verdicts, probes, label | `AirPlayProtocol` |
| radio (`radio/session.py`, `radio/stream.py`) | station, held queue; encoder, consumer | `RadioMode`, `RadioStream` |
| multiroom (`output/multiroom.py`, `snapcast*.py`, `sendspin*.py`) | toggle, server, supervisor; feed; group, pairing | `ServerFedHost`, `ServerFedPlayer`, `SendspinRoom` |
| requests, auto-start, Closing Time, surprise pick (`api/guest.py`, `state.py`) | queue, freeze, on-deck slot and generation | `PartyQueue` |
| prepared browse answers (`browse_prepared.py`) | signatures in memory, in the database, published | `PreparedBrowse` |
| sources and their caches (`state.py`, `api/guest.py`) | tables, registry, indexes | `SourceCaches` |
| catalog (`catalog/`) | aliases, rows, ratings, counts | `CatalogIdentity` |
| database connection (`database.py`) | one connection, one transaction, write lock | `SharedConnection` |
| stream proxy (`api/stream.py`) | relay position; transcodes in flight and cached | `StreamRelay`, `TranscodeCache` |
| art cache (`cache/art_cache.py`) | index, byte count, load event | `ArtCache` |

`PROJECT.json` lists every part with what is left out of it. Not modelled at all:
wire formats (DACP, Companion, ICY), HTTP clients, events and lyrics caches, the
browser front ends.

**How they interact.** An end of stream, an enqueue on an idle queue and a
track-level failure call `_do_advance`; Skip and Skip Back bump `_advance_gen`
first. All of them, and the resume from an outage, pop an item from the engine
and call `dispatch_play` while holding `_advance_lock`. `dispatch_play` reports
to the supervisor, which counts the play when a backend confirms audio, or hands
the dispatch to the classifier when a backend reports an outage or the deadline
runs out. The classifier enters the hold or skips the track. The hold opens a
reconnect loop, whose attaches share one lock with the attaches of an Apply, of
the boot and of the idle re-attach. The router commits a deferred switch at the
next dispatch. The watcher tells the re-attach what arrived. Radio and Closing
Time gate the same advance.

**What is hard.** Suspensions with a lock held (event delivery, `play()`,
probes), state read before a suspension and used after it, signals from threads
that are late, repeated or about something that is over, a second failure during
the recovery from the first, timers that race what cancels them. `PROJECT.json`
"hazards" lists each at its line with the properties that watch it.

## Modules

* `QueueOps`: every queue operation as a function from one engine value to the
  next. Each method edits its lists between taking and releasing the engine lock
  without suspending, so a function is faithful. Items are objects: two entries
  with the same receipt (track, `added_at`) stay two items.
* `QueueEngine`: the state machine over `QueueOps`. The one suspension inside
  the lock, the auto-fill provider in `advance()`, is the variable `filling`; the
  stranded-track gate has its own phases because it may suspend between
  snapshot and removal (`RevokeSuspends`).
* `DispatchLedger`: what the supervisor promises, in three actions. A token is
  issued, then heard or lost, once; only heard tokens without the mark count.
* `OutputSupervisor`: the supervisor itself: dispatch records, one live and one
  retired slot, the stash of superseded flow dispatches with its cap, one timer
  and one deadline task per dispatch, the probe as a separate step.
* `PlaybackSession`: queue, lock, supervisor, hold and the tasks that drive
  them. A task slot holds one asyncio task; `pc` is where it is suspended. The
  lock serves its waiters in order and, as in asyncio, is free for one loop
  iteration between release and grant. `ended` and `used` are bookkeeping of the
  model: which play of an item a dispatch belongs to, and the consumed bounds.
* `DlnaRenderer` is the renderer with the DLNA backend, `ArmedNext` composes it
  with the orchestrator's arming loop and the queue.
* The backend modules each pair the code with the device as the code sees it;
  the device's own steps are marked external in the map. `MCPlayers` chooses one
  of the five in `Init`, so that one run checks them all.
* The other parts are one module each. `MCParts` chooses one of them in `Init`
  (and, in the liveness run, `MCPlayers`), so that a run checks every part; the
  safety of `OutputSwitch` is checked beside the session (`MCSession`).
* `MCCatalog` is `CatalogIdentity` where a source lists an external id twice.
* The theorems are in `QueueEngineProofs`, `OutputSupervisorProofs`,
  `PlaybackSessionProofs`, `ArmedNextProofs`, `CastFlowProofs`, `PlayersProofs`
  and `PartsProofs`. `QueueOpsLemmas` has the lemmas about the queue
  operations that the engine's and the session's proofs share (identities kept,
  lists apart), and those about removal by receipts, snapshots and re-insertion.

Operators whose comment begins "Fault variant", and those that follow a
definition's name with what they get wrong, are plausible bugs of that
definition; no specification uses them. Each shows that the property it breaks
can fail.

## Runs

| run | instance | question | answer |
|---|---|---|---|
| `queue_engine` | 2 tracks, 3 items, stamps may tie, history 2, cap 2 | does any sequence of operations lose or duplicate an item; do Skip Back, the held pointer and a rollback undo exactly? | no item is lost or doubled; the round trips hold |
| `supervisor_safety` | 3 dispatches, stash of 1 | can late, repeated or reordered confirmations miscount, can a dispatch lose its watchdog? | no |
| `supervisor_promises` | 2 dispatches | does the supervisor implement `DispatchLedger`, and is every waiting dispatch decided? | yes |
| `session_safety`: playback | 2 items, 4 dispatches, 2 tasks, all interleavings | is an item lost or doubled, does a press lose to an advance, is something current under a hold at rest? | no |
| `session_safety`: the output switch | a Cast device beside the speakers, 2 switches, an outage, an idle or boot attach | is the selected output the one that is held once all has settled? | yes |
| `session_promises` | 1 item, 8 dispatches, all interleavings | does every task end; is the ledger kept when these tasks drive the supervisor? | yes |
| `gapless` | 3 tracks, one renderer, 2 faults, 2 inputs | is what is audible what the backend takes for current? | yes, unless the stale watch let a next go |
| `players` | each of five backends, 2 plays, a press, a mishap | is a healthy play ended, a play ended twice, something unheard counted? | no |
| `parts` | each of eighteen parts, bounds in `MCParts` | what each part keeps (below) | kept |
| `parts_live` | fourteen of them, the output switch, the arming and the backends | does what is under way end? | yes |
| `session_counting` | 2 items, 5 dispatches, 2 tasks, 2 signals, no gaps, no early signals | is a play that outages interrupt counted once? | refuted |
| `session_overrun` | 2 items, 4 dispatches, 2 tasks, no gaps, no early signals | does an automatic advance spare a newer dispatch? | refuted |
| `catalog_rescan` | 3 tracks of 2 sources, 3 scans | does a scan that finds what the last one found keep every identity? | refuted |

`OutputsRight` of `session_safety`: no connection is left to a device nobody
selected, the selected device is attached once a switch, reconnects and idle
attaches have settled, a held queue has a way back.

The properties of `parts` and `parts_live` have one conjunct per part, each
defined with its comment in the part's module:

* `DevicesRight`: grace and purge timers count against the device that left; every
  listed device can be addressed; a device that stayed is taken for gone only by
  a list that left it out, never by a browse without a list (the short list of a
  failing daemon counts as a list, see "Disagreements"); a picker row is the sum of its entries; no remembered device is probed, none twice; a user's
  protocol decision stands.
* `SoundRight`: a radio stop pressed last has the last word, the held queue is
  whole, what is heard is what is meant, no track is stranded; one encoder, one
  feed, one owned server; the on-deck pick belongs to the settings of now; a
  freeze stays quiet.
* `DataRight`: prepared answers name the inputs they were built from; no source
  that is off is listed; a scan drops no track; a reported play is on disk, the
  last saved queue wins; a relayed body has no hole and is short only when the
  source ran dry; a cached transcode is whole; the art cache knows its size.
* `StepsRight`: the selected device is not purged, a blind Scan evicts nobody,
  nothing enters the registry after the stop, a feed ends its play once, a
  revoked pairing stays revoked, sources that do not answer empty neither
  listing of the index, no artists of the catalog and no credits, the migration
  overwrites no rating but one given between its look-up and its write, and
  drops no count nobody holds, the file
  that plays is not evicted, the silent path the user left is not taken again.
* `DevicesSettle`, `SoundSettles`, `DataSettles`: the liveness of the parts.

Each of these properties has one mutant in `PROJECT.json`; every conjunct was
checked against fault variants of its own part, which stay in the modules.

**Bounds.** They are guards, named `Max...`. Two items are enough for "the wrong
item" and for a full Skip Back; four dispatches for play, outage, resume and a
press in between; two task slots for one lock holder and one intruder.
`session_promises` allows eight dispatches, more than its other bounds
let happen, so that no task waits on a bound. The history has capacity 1 or 2 in
the queue runs, so it overflows. In `MCParts` each part gets two of whatever may
be confused (devices, keys, sessions, requests, stations) and one or two of each
disturbance; the liveness instance is smaller where one of a kind shows it.
The tracks of `gapless` are interchangeable and permuted by symmetry; two inputs
are needed for the re-arm and revoke behind a boundary that the watch can miss.
Deadlock checking is off where the bounds let a behaviour stop.

Two switches of `PlaybackSession` say how much interleaving a run admits.
`DispatchGaps` lets other tasks run between the pop of an item and its dispatch,
`EarlySignals` lets a dispatch be confirmed, reported or timed out before its
`play()` returned. Both are TRUE in the code. The two runs that set them to FALSE
are the refuted ones: what they show needs neither.

**Fairness.** `OutputSupervisor` assumes weak fairness of each deadline (timer,
task and probe): the loop runs due timers, probes have timeouts.
`PlaybackSession` assumes weak fairness of each task's own steps, and none of
guests, host, device or backend signals; `play()` and probes return or raise
because backends bound them. In `ArmedNext`, which `MCParts` runs with
the parts, polls, requests and reconciling tasks go on (`PollWorks`,
`RequestsServed`, `ArmingWorks`).
In the parts each task, timer and thread that the loop must run gets one
condition; where the work of a part cannot go round in circles one condition is
enough. Purge timers, which are cancelled and armed again, get strong fairness:
a device that stays away stops cancelling them. What users, devices and networks
do is never fair. All stimuli are bounded, so liveness is stated as `[]<>rest`.
A behaviour of `MCParts` is one part's for ever, so the i-th conditions of all
parts are one condition there.

## What the modules abstract

* `PlaybackSession`: an item has one track and tracks are never shared by items;
  the retry of the next holder, its mark read once, is in, the cap of 23
  consecutive failures is not (the dispatch bound is smaller); Closing Time,
  radio, auto-fill, live pause and resume, flow deferral and gapless boundaries
  are out; a reconnect attempt is its last step, the resume. Entering the hold
  is one step: `hold.py:86` awaits the position, but no backend's `get_position`
  suspends, so no other task runs there. The verdict on a flow (recoverable, or
  not) is in.
* Backends: a status-thread call or bus message is one step.
  `ChromecastReceiver`: the receiver numbers its media as the plays are numbered.
  `PlexPlayer`: a failing fetch of the play queue's window is left out, the
  window itself and its race with the deletion are in. `AirPlaySender`:
  the exit of a process wakes its watcher before a teardown; a teardown past its
  waits ends before a play spawns; ffmpeg is omitted. `CastFlow`: the stream is
  a sequence of segments.
* `OutputSwitch`: a started retirement runs before anything but the woken lock
  holder; two outputs are retired at a time (`Retirable`); AirPlay and Plex
  attach as DLNA does; reasons of pauses and landings are left out. `DeviceWatcher`: no purge fires while an earlier lookup is open.
* `DeviceScan`: one backend, D-Bus mode; under a failing daemon a browse answers
  with what it has by then, as the code does, and is marked (`blind`). `LiveDiscovery`: shared zeroconf, a resolve answers
  with the last address told. `DevicePicker`: names and ranks are left out.
  `AirPlayProtocol`: every speaker advertises AirPlay 2, one run of the sender
  is one step.
* `RadioMode`: an end that races a skip is marked as crossed; clients are always
  there. `RadioStream`: starts and stops are serialised by the radio lock.
  `ServerFedHost`: embedded mode, preflight and spawn are one step.
  `ServerFedPlayer`: presses that cross an overlap or a told end are marked.
  `SendspinRoom`: the library keeps a client in a group until it is removed.
* `PartyQueue`: requests of one track; the callback's reaction and auto-start are
  one step; an end that meets a waiting skip gives way; failures of the device
  and holds are elsewhere. `PreparedBrowse`: two inputs, the index
  and a policy, stand for the seven that are read in turn; the derivation from an
  index that is still empty, which asks the sources, is left out.
  `SourceCaches`: one library and one table per source; each
  behaviour follows the crawl of one store; a listing of a source answers or
  fails as a whole; of genres the crawl of Plex servers only.
  `CatalogIdentity`: tracks only, one name for all; the resolution of a cluster
  is one step, the look-up and the write of a copy are two.
* `SharedConnection`: one replaced table stands for catalog and queue, one
  statement is one step. `StreamRelay`: a stalled source is left out; a resumed
  answer is the rest, the whole body or the page of an error, since its status is
  not looked at (stream.py:191-194), and the last two are marked (`astray`).
  `TranscodeCache`: one key per track; sections under the lock are one step.
  `ArtCache`: every file has one byte.

## Proofs

TLC checks the instances above; `tlapm` proves the following for every value of
the constants: any number of items, dispatches, tasks and signals, any cap and
history length, and, where not said otherwise, every setting of the switches.

The assumptions are the named ones: `SupervisorConstants` and
`SessionConstants` (bounds are numbers), `PlayersConstants` (likewise, for the
backends), `QueueConstants` (the depth cap is
positive), `HistoryMaxAssumption` (the history holds an item at least),
`NoItemAssumption` (None is not a queue item; one in each of `QueueEngine` and
`PlaybackSession`) and `NoTaskAssumption` (nobody is not a task). The proofs
about `ArmedNext` and `SharedConnection` need none, those about `CastFlow` by
itself that `MaxTracks` is a number. One theorem,
`EachPlacedOnce`, has a hypothesis of its own.

**Queue engine** (`QueueEngineProofs`, with `QueueOpsLemmas`).
* `TypeCorrect`. The invariant `Typed` is `TypeOK` with the shape of the records.
* `SkipBackReturns`, `HeldPointerReturns`, `RollbackRestores`: the three round
  trips follow from types alone, so they hold of every queue, not only of
  reachable ones.
  The rollback is the hard one: with repeated receipts `remove_entries` takes
  the last match, which need not be the entry meant. The argument: a stranded
  set is closed under equal receipts, so the entries owed to the receipts left
  can always be re-paired (`Owed`, `Serves`), what remains is the part of the
  queue that is not stranded (`Part`), and re-inserting the snapshot from the
  front rebuilds the queue position by position.
* `EachPlacedOnce`: `PlacedOnce`. It is inductive as `Placed`: the three lists are
  disjoint and without repetition (`Apart`), the numbers up to `nextId` are
  exactly the lists, what was let go and what a switch set aside, all disjoint
  (`Ledger`), and a running switch knows its queue (`StrandInv`): before the
  removal the snapshot is of the queue as it is, after it what is gone is the
  snapshot, each item once. Without `StrandInv` a rollback could put back what is
  there. The hypothesis `RevokeSuspends => MaxRestores = 0` says that no switch
  fails after its removal had to wait for the device: with such a failure the
  property is false (below).
* `DepthStaysBounded`: `DepthBounded`, which no run checks: an instance in which
  a missing cap could exceed the bound is too large for TLC.

**Supervisor** (`OutputSupervisorProofs`).
* `TypeCorrect`, `CountOnce`, `UnheardStaysUncounted`, `Watched`,
  `ParkedCanCount`, `StashCapped`. That an unheard dispatch is never counted
  needs that it is neither live nor in the stash, which needs that the stash
  holds superseded dispatches only, which needs that tokens are never reused;
  that a waiting dispatch is watched needs that a timer belongs to the live
  dispatch and that a deadline task of the live dispatch is the only one that
  can drop it. `IInv` is the conjunction.
* `ImplementsLedger`: `Spec => Ledger!Spec` under the mapping `Fate`. Besides
  `IInv` the step needs that tokens not yet issued have blank records, so that
  issuing one changes no other fate.

**Session** (`PlaybackSessionProofs`).
* `TypeCorrect`, `NothingTwice`, `HeldIsQueued`, `NothingLost`, `PressFirst`. None
  of them is inductive. `LockInv` says what the lock is: its owner is the one
  task in a locked section or the one just woken, the waiters are the tasks that
  wait, each once, in order, and who captured an old generation will find out.
  `DataInv` says what the data are: typed (`DataTyped`); lists apart (`Placed`);
  the item a task has in hand is in the lists and nothing else is current
  (`Holds`); under a hold something is current only for a resume that has the
  lock and the item in hand (`HeldByResume`); dispatches to come are blank
  (`Blank`). Most steps are one
  of a few kinds (a task starts, ends, leaves, suspects), each a lemma.
* `SessionKeepsLedger`: the tasks that drive the supervisor implement
  `DispatchLedger` too.

**Gapless** (`ArmedNextProofs`).
* `TypeCorrect`, `WatchHolds`: `AudibleIsCurrent` for any number of tracks, faults
  and inputs. The invariant `IInv` says who knows what. A request on the wire that
  has an owner is the one its caller waits for (`Lined`), and who does not wait
  has none (`Awaited`). The request that owns the armed pair is the last on the
  wire, and once the pair counts as delivered the renderer holds it or nothing
  (`Owned`), because requests are served in order. The orchestrator's empty slot
  means an empty pair, so arming anew forgets nothing delivered (`Slots`). Then,
  while the poll runs, whatever the renderer plays or holds is the current track,
  what the backend watches, or named by an answer not read yet (`Covered`), and a
  pass that finds it neither expected nor watched has seen the current track. A
  cancelled poll leaves a request nobody owns on the wire; it does no harm since
  `play()` is served behind it and begins without a next.

**Flow session** (`CastFlowProofs`, `PlayersProofs`).
* `FlowPlaysCountedOnce`, `FlowPlaysHeard`, and `FlowCountsTrue`, which carries them
  to the property `CountsHeard` of the run `players`. Neither is inductive.
  `OncePerToken`: a token that is not confirmed yet waits at one place at most,
  with the dispatch (`back.token`), with a pending reposition (`back.repos`) or in
  the ledger of crossings, none above the last one issued, and while a dispatch
  is between its issue and the backend its token waits nowhere. Confirming takes
  the token from where it waits. `CountsInStream`: a count in the ledger of a live
  session has its segment in the stream at its offset or before it, also after a
  seek re-keyed it to a later one. `FirstIsDispatched`: what the dispatch's token
  speaks for is the first segment. `PassedIsHeard`: the receiver has heard what
  lies behind its position, and a status on its way, of this session, reports no
  position the receiver has not reached, none at all while the session's load is
  still to come. So whatever a status confirms was heard, or the status is of an
  earlier session.

**Cast, Plex, AirPlay and direct backends** (`PlayersProofs`), for any number of
plays, presses, mishaps, senders, pipelines and reconnects.
* `HealthyKeptTrue` and `EndsOnceTrue`: the properties `HealthyKept` and `EndsOnce`
  of the run `players`. `SoundAlways` is their induction, one invariant per backend
  (`Sound`), each in the backend's module under "Why". All except
  `PlexInv` speak of a dispatch only as long as no late event was laid at its
  door (`truth.crossed`), as the properties do.
* Cast (`CastInv`): the playing flag is down from the moment an end is posted, so
  no second one is posted, and only one waits (`ReportsOnce`). A terminal status
  or a posted end names a play that is gone (`ReportsGone`). A track that is not
  gone is loading or loaded, so the watchdog that is armed for it cannot find it
  silent (`TrackLives`). `play()` retires the old watchdog when its load has
  returned, as in the code (`armed` is the play the token is of), so during a load
  the watchdog of the play before can end the new one. The step that does this
  marks the new play as crossed, and so does one that a seek set too early; the
  theorem is about all others.
* Direct (`DirectInv`): there is one pipeline until a reconnect overlaps a dispatch
  or a stop; it halts once (`OnePipeline`), the halt is posted once, and the end
  is told once (`HaltsOnce`); what halts has no audio left (`HaltsGone`).
* Plex (`PlexInv`): no poll or watchdog exists while the queue is created
  (`PlexCreating`), and once the dispatch is ended the poll is gone and the
  watchdog finds it off (`PlexOver`). `PlexHealthInv`: a player that took up the
  dispatch plays its queue until it is gone or taken (`PlayerFollows`), the queue
  is adopted by what the player reports (`QueueTaken`), and the timeline that a
  poll works on may be old but is never of an earlier dispatch (`LineTells`), so
  what is about to end the dispatch has seen it end (`EndsMeant`).
* AirPlay (`AirInv`): who is about to spawn a sender is alone (`EntersAlone`), for a
  dispatch that was not ended (`EntersFresh`). So one watcher waits for the
  dispatch, and every teardown under way waits for the same sender (`OneWaiter`);
  a restart goes on only for what has not ended (`RestartsUnended`). At most one
  sender runs, none from a teardown to the next spawn (`OneRuns`).

**Output switch** (`PartsProofs`), for any devices, switches, attempts, faults and
tracks; of the constants only that `None` is no backend.
* `OutputsKept`: `OutputsRight`, the property of the run `session_safety`. It speaks
  of states in which nothing is under way; `SwitchInv` says what holds in between.
  Who attaches an output holds the lock (`OneAttaches`). A connected output is in
  charge, or displaced or late, or about to be committed (`Landing`), or
  somebody's to release (`Leaving`); nothing else is connected, so none is left
  when all have ended (`NoneLeft`). An attempt at a device that is no longer
  selected is known to be late before it lands (`OnlySelected`). A held queue has
  a reconnect loop that retries, or a task about to start one, or a switch under
  way that resumes the queue or frees it (`WayBack`).

**Connection** (`PartsProofs`), for any number of writers.
* `CountedPlaysKept` and `SavesLandInOrder`, two conjuncts of `DataRight` that are
  invariants (`PlaysKept`, `LastSaveWins`). A play that was acknowledged was
  committed, and no transaction opened later holds less: a roll back returns to
  the committed store, and whoever acts on the connection holds the lock
  (`Inside`). A save reads memory when it joins the line, the line is served in
  order, so who is behind carries what is newer (`SavesInOrder`), and the last
  in line, or the disk, is what memory is (`LastSaved`).

**Not proved.** Liveness (`EventuallyResolved`, `EveryTaskEnds`, `parts_live`,
with `ArmFresh` always again in `SoundSettles`) needs fairness, which this prover
does not treat. Of `players` and the output switch the type invariant, and of
`parts` all except the two conjuncts of `DataRight` above, which are proved of the
part by itself, are model-checked only.
`remove_entries`, `restore_entries` and the snapshot iterate over lists; the
library's induction theorems take a predicate, which no installed prover can
instantiate, so the lemmas about them induct over sets of numbers: `UpTo` and
`Smallest` rest on the well-foundedness of `<` on the naturals, `Iterates` gives
the list of intermediate results.

## Disagreements found

Three are runs that TLC must refute, quoted in `PROJECT.json` "findings":
`session_counting` (a hold stamps an item with another play's mark, which is then
counted twice), `session_overrun` (a track-level skip supersedes a healthy newer
dispatch) and `catalog_rescan` (two tracks swap identities at every scan).

In the trace of `session_counting` a counted play is put back by an outage, with
its mark. The item before it times out, and while the probe of that
classification is out the advance pops the marked item, whose `play()` raises;
before the skip moves on the probe answers that the device is gone. No dispatch
is live, so the hold is entered and stamps the current item with the verdict on
the other one: not counted. The resume dispatches it without its mark.

The models reach others; those with a name are definitions in the module that
no run checks, because the code does not keep them.

* Session: a hold does not stop an advance that has popped
  (`OnlyResumeDispatchesHeld`; hold.py:13-14). The check after the deadline's
  probe forgets the deferral (`DeferredNeverTimesOut`; session.py:799-801). A
  `play()` that returns erases the stamp of a hold entered meanwhile
  (`CountedOncePerPlay` with `EarlySignals`; state.py:2243-2245). A failed switch
  re-inserts an entry that started to play (`NoItemTwice` of `QueueEngine` with
  `RevokeSuspends`; state.py:4003-4005). An outage of a resume's own dispatch is
  dropped as a repetition; an advance that gives way to a press which then does nothing leaves a phantom
  current item.
* Gapless: a renderer that accepts a next track too late is written off
  (`VerdictOnEvidence`; dlna.py:1438-1452). The stale watch has a single slot: a
  failed request, or a re-arm that is delivered after the renderer chained into
  the stale next and is then revoked, takes it from what plays, and the wrong
  track stays audible uncorrected (`NoSilentWrongTrack`; dlna.py:1438-1452). The
  model's `forgot` marks exactly these moments; without them the promise is kept,
  which is `AudibleIsCurrent`.
* Outputs: the selected device is not always attached after a failed Apply on
  the same backend (session.py:356-361); a retirement supersedes a newer attach
  (router.py:236-262); a reconnect context is opened after the hold was
  released (hold.py:95); an idle attempt queued on the attach lock re-attaches a
  device that began to play (idle_reattach.py:222); a miss at boot is never
  re-attached (idle_reattach.py:61-68).
* Backends: while a Cast play loads, the watchdog of the track before is not
  superseded yet and may end it (`CastOldDogIdle`; chromecast.py:602-604, against
  1351-1358); a reposition accepted while the encoder finalizes is lost
  (flow.py:1143); pressed stops that a reconnect outlives (`AirStopStays`;
  airplay.py:1752); a killed sender whose end is not told
  (`AirKilledUnreported`); a flow whose host overruns it (`FlowNeverOverruns`); on
  the direct backend a reconnect left over from an earlier station plays a later one again
  that its sink had ended, which can then end twice (`truth.revived`;
  direct.py:594-599).
* Party: a freeze ends when an output switch starts the queue (`FreezeHolds`;
  state.py:3712-3716); entries stranded by a switch stay.
* Radio: starts and stops do not take `_advance_lock`; a stop behind a slow start
  drops a later one. Multiroom: an end told while a seek resolves feeds the same
  track again; a resync drops an event that comes during it.
* Data: readers see a half-replaced catalog (store.py:10-13); the stored queue may
  be half of it (`StoredQueueWhole`; database.py:830-834); settings go with
  another writer's rollback (database.py:30-36); the migration overwrites a rating
  given, or a play counted, between its look-up and its write
  (`NeverOverwrittenStep`; migrate.py:13-15); sources that answer with artists
  and fail with tracks leave a catalog without tracks, and genres that no source
  lists are stored as none (`EmptiedOnlyWhenOffStep`; state.py:2441, 2615, against
  scan.py:262-274 and state.py:2385-2401); a prepared answer of the Plex path can
  hold rows of the catalog, since its derivation asks anew which path is active
  and the check does not (`AnswerOfItsPath`; state.py:3173-3174); a resume answered
  with an error relays its page as audio (stream.py:191-194); a transcode may run twice and a
  served file vanish (stream.py:603-649); the art cache counts its bytes twice
  when boot and a first request load the index together, which `SizeIsIndex`
  excludes by `overlap` (art_cache.py:166-178); a veto list loses a concurrent
  toggle; plays under a stale key are folded by the greater of the two.
* Discovery: a failing avahi daemon answers a browse with a short list and no
  error (mdns_dbus.py:138-140, 173-177, 232-234, 353-355), so the sweep takes
  devices for gone (`OutageIsNotAbsence`; airplay.py:740-743, watcher.py:814-817);
  a Scan evicts devices when avahi fails between browses
  (`EvictsOnEvidence`; admin.py:983-1009); a removal overtaken by a resolve
  leaves a ghost online (mdns_zeroconf.py:271-299).
