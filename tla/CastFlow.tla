------------------------------ MODULE CastFlow ------------------------------
(***************************************************************************)
(* The flow mode of the Cast backend: app/output/flow.py stitches one      *)
(* track after the other into a single stream, app/output/chromecast.py    *)
(* lets the stitcher's boundaries move the queue and the device's own      *)
(* clock count the plays.                                                  *)
(*                                                                         *)
(* The stream is the sequence of its segments; the offset of a boundary is *)
(* the index of its segment.  The pump, the host's presses, the status     *)
(* thread and the callbacks on the event loop interleave at the awaits.    *)
(***************************************************************************)
EXTENDS Naturals, Sequences

CONSTANTS
    MaxTracks,     \* bound: tracks in the queue at first
    MaxSessions,   \* bound: flow sessions
    MaxTokens,     \* bound: dispatches and boundaries, segments of a stream
    MaxPresses,    \* bound: skips, seeks, pauses, resumes, stops, edits
    MaxMishaps     \* bound: unplayable tracks, lost streams, failing loads

VARIABLES
    queue,    \* the queue as far as the stitcher moves it
    flow,     \* the flow session: its pump, its stream, its consumer
    dev,      \* the receiver
    back,     \* the backend's ledger of counts
    status,   \* media statuses on their way, in order
    posted,   \* callbacks posted to the event loop, in order
    host,     \* where the dispatch that holds the advance lock is
    told,     \* tokens issued, and per token how often it was confirmed
    truth,    \* of the model: tokens whose audio was heard, late statuses
    used      \* presses and mishaps so far

flowVars == <<queue, flow, dev, back, status, posted, host, told, truth, used>>

Tokens == 1 .. MaxTokens
FlowTracks == 1 .. MaxTracks

NoSession(id) ==
    [id |-> id, live |-> FALSE, closed |-> TRUE, ended |-> FALSE, paused |-> FALSE,
     gen |-> 0, want |-> 0, repos |-> FALSE, pc |-> "off", track |-> 0, mine |-> 0,
     prev |-> 0, failed |-> 0, saw |-> 0, consumer |-> "none", stitch |-> <<>>]

\* FlowSession(first_track), started
NewSession(id, track) ==
    [NoSession(id) EXCEPT !.live = TRUE, !.closed = FALSE, !.want = track, !.pc = "loop"]

FlowInit ==
    /\ queue = [cur |-> 0, next |-> [i \in FlowTracks |-> i], gen |-> 0, held |-> FALSE]
    /\ flow = NoSession(0)
    /\ dev = [sess |-> 0, pos |-> 0, said |-> 0, st |-> "idle"]
    /\ back = [token |-> 0, counts |-> <<>>, repos |-> 0, seek |-> 0, playing |-> FALSE,
               gapless |-> TRUE]
    /\ status = <<>> /\ posted = <<>> /\ host = "none"
    /\ told = [last |-> 0, confirmed |-> [n \in Tokens |-> 0]]
    /\ truth = [heard |-> {}, late |-> {}, lost |-> FALSE]
    /\ used = [presses |-> 0, mishaps |-> 0]

Mishap == used.mishaps < MaxMishaps /\ used' = [used EXCEPT !.mishaps = @ + 1]
Pressed == used.presses < MaxPresses /\ used' = [used EXCEPT !.presses = @ + 1]
Post(c) == posted' = Append(posted, [do |-> c, id |-> flow.id, token |-> told.last])
Runs(c) == posted # <<>> /\ Head(posted).do = c

\* _detach_flow and the close of the session
Detached(f) == NoSession(f.id)
Emptied(b) == [b EXCEPT !.counts = <<>>, !.repos = 0, !.seek = 0]

Issues == told.last < MaxTokens /\ told' = [told EXCEPT !.last = @ + 1]
ConfirmAll(t, S) == [t EXCEPT !.confirmed = [n \in Tokens |-> IF n \in S THEN @[n] + 1 ELSE @[n]]]

-----------------------------------------------------------------------------
(* The pump *)

Superseded == flow.mine # flow.gen
Again == flow' = [flow EXCEPT !.pc = "loop"]

\* The pending entry, else the lookahead: nothing beyond the queue's end, and
\* no second try of a track that just failed.
PumpTakes ==
    /\ flow.pc = "loop" /\ Len(flow.stitch) <= MaxTokens
    /\ LET ahead == IF flow.want # 0 THEN flow.want
                    ELSE IF queue.next = <<>> \/ Head(queue.next) = flow.failed THEN 0
                    ELSE Head(queue.next)
       IN flow' = IF ahead = 0 THEN [flow EXCEPT !.pc = "finalize"]
                  ELSE [flow EXCEPT !.pc = "open", !.track = ahead, !.mine = flow.gen,
                                    !.want = 0, !.failed = 0,
                                    !.repos = flow.want # 0 /\ flow.repos]
    /\ UNCHANGED <<queue, dev, back, status, posted, host, told, truth, used>>

\* _flow_skip: the dispatch it would have confirmed is withdrawn, the track
\* leaves the front of the queue.
Skipped ==
    /\ flow' = [flow EXCEPT !.pc = "loop", !.failed = flow.track, !.prev = flow.track]
    /\ back' = IF queue.cur = flow.track THEN [back EXCEPT !.token = 0] ELSE back
    /\ queue' = IF queue.next # <<>> /\ Head(queue.next) = flow.track
                THEN [queue EXCEPT !.next = Tail(@)] ELSE queue

\* Unresolvable, or the decoder fails before or after its first bytes.
PumpFails ==
    /\ flow.pc \in {"open", "feed"}
    /\ IF Superseded THEN Again /\ UNCHANGED <<back, queue, used>> ELSE Skipped /\ Mishap
    /\ UNCHANGED <<dev, status, posted, host, told, truth>>

FirstOfAll == flow.stitch = <<>> /\ ~flow.repos
Spliced(token) == [flow EXCEPT !.pc = "feed",
                               !.stitch = Append(@, [track |-> flow.track, token |-> token])]

\* The first bytes: the boundary is recorded; the initial track makes none.
PumpOpens ==
    /\ flow.pc = "open" /\ ~flow.paused
    /\ IF Superseded THEN Again /\ UNCHANGED <<back, posted>>
       ELSE \/ /\ FirstOfAll
               /\ flow' = Spliced(back.token) /\ UNCHANGED <<back, posted>>
            \/ /\ ~FirstOfAll /\ flow.repos
               /\ LET at == Len(flow.stitch) + 1
                      own == {i \in DOMAIN back.counts : back.counts[i].track = flow.track}
                      first == IF own = {} THEN 0
                               ELSE back.counts[CHOOSE i \in own : \A k \in own : i <= k].token
                      token == IF back.seek > 0 THEN first ELSE back.repos
                  IN /\ flow' = Spliced(IF back.seek > 0 THEN back.seek ELSE token)
                     /\ back' = [Emptied(back) EXCEPT !.counts =
                                   IF token = 0 THEN <<>>
                                   ELSE <<[off |-> at, token |-> token, track |-> flow.track]>>]
               /\ UNCHANGED posted
            \/ /\ ~FirstOfAll /\ ~flow.repos /\ back.gapless
               /\ flow' = [flow EXCEPT !.pc = "boundary", !.saw = queue.gen]
               /\ UNCHANGED <<back, posted>>
            \/ /\ ~FirstOfAll /\ ~flow.repos /\ ~back.gapless
               /\ flow' = Detached(flow) /\ back' = Emptied(back) /\ Post("advance")
    /\ UNCHANGED <<queue, dev, status, host, told, truth, used>>

\* _boundary_advance under the lock: a press or a hold that came first owns
\* the transition.
BoundaryStale == flow.saw # queue.gen \/ queue.held
PumpCrosses ==
    /\ flow.pc = "boundary" /\ host = "none"
    /\ IF BoundaryStale
       THEN flow' = Spliced(0) /\ UNCHANGED <<queue, back, told>>
       ELSE /\ Issues
            /\ flow' = Spliced(told.last + 1)
            /\ back' = [back EXCEPT !.counts = Append(@,
                          [off |-> Len(flow.stitch) + 1, token |-> told.last + 1,
                           track |-> flow.track])]
            /\ queue' = IF queue.next = <<>> THEN [queue EXCEPT !.cur = 0]
                        ELSE [queue EXCEPT !.cur = Head(queue.next), !.next = Tail(@)]
    /\ UNCHANGED <<dev, status, posted, host, truth, used>>

\* A boundary nobody owned is fed all the same, until the generation is seen.
PumpEofs ==
    /\ flow.pc = "feed" /\ ~flow.paused
    /\ flow' = [flow EXCEPT !.pc = "loop", !.prev = IF Superseded THEN @ ELSE flow.track]
    /\ UNCHANGED <<queue, dev, back, status, posted, host, told, truth, used>>

\* _finalize: the tail is drained, the stream has ended.
PumpFinalizes ==
    /\ flow.pc = "finalize"
    /\ flow' = [flow EXCEPT !.pc = "off", !.ended = TRUE]
    /\ UNCHANGED <<queue, dev, back, status, posted, host, told, truth, used>>

\* FlowEncodeError: the session closes itself.
PumpBreaks ==
    /\ flow.pc \in {"open", "feed"} /\ Mishap
    /\ flow' = [flow EXCEPT !.pc = "off", !.closed = TRUE]
    /\ UNCHANGED <<queue, dev, back, status, posted, host, told, truth>>

-----------------------------------------------------------------------------
(* The receiver and the one consumer of the stream *)

Plays == dev.st = "playing"
Fetching == dev.sess = flow.id /\ flow.live /\ flow.consumer = "bound"
Says(kind) == status' = Append(status, [id |-> dev.sess, state |-> kind, pos |-> dev.pos])

DevBinds ==
    /\ dev.sess = flow.id /\ flow.live /\ ~flow.closed /\ flow.consumer # "bound"
    /\ dev.st # "idle"
    /\ flow' = [flow EXCEPT !.consumer = "bound"]
    /\ UNCHANGED <<queue, dev, back, status, posted, host, told, truth, used>>

\* Audio reaches the next segment once the one before it was fed.
DevReaches ==
    /\ Plays /\ Fetching /\ dev.pos < Len(flow.stitch)
    /\ dev' = [dev EXCEPT !.pos = @ + 1]
    /\ truth' = [truth EXCEPT !.heard = @ \cup {flow.stitch[dev.pos + 1].token}]
    /\ UNCHANGED <<queue, flow, back, status, posted, host, told, used>>

\* A status on a change of position, or on the poll of _flow_poll_once.
DevReports ==
    /\ Plays /\ dev.pos > 0 /\ Len(status) < 2
    /\ dev.said # dev.pos \/ (status = <<>> /\ (back.counts # <<>> \/ back.token # 0))
    /\ Says("PLAYING") /\ dev' = [dev EXCEPT !.said = dev.pos]
    /\ UNCHANGED <<queue, flow, back, posted, host, told, truth, used>>

\* The stream is over: ended, closed under the receiver, or lost.
DevStops ==
    /\ Plays
    /\ \/ /\ ~Fetching \/ (flow.ended /\ dev.pos = Len(flow.stitch))
          /\ ~(flow.live /\ dev.sess = flow.id /\ ~flow.closed /\ ~flow.ended)
          /\ Says("FINISHED") /\ used' = used
       \/ Says("ERROR") /\ Mishap
    /\ dev' = [dev EXCEPT !.st = "idle"]
    /\ UNCHANGED <<queue, flow, back, posted, host, told, truth>>

\* The grace timer runs unless the stream was drained to its end.
DevDropsStream ==
    /\ Fetching /\ Mishap
    /\ flow' = [flow EXCEPT !.consumer = IF flow.closed THEN "none" ELSE "grace"]
    /\ UNCHANGED <<queue, dev, back, status, posted, host, told, truth>>

Suspects ==
    /\ back' = [Emptied(back) EXCEPT !.playing = FALSE]
    /\ flow' = Detached(flow)

GraceExpires ==
    /\ flow.consumer = "grace" /\ flow.live
    /\ Suspects /\ Post("judge")
    /\ UNCHANGED <<queue, dev, status, host, told, truth, used>>

-----------------------------------------------------------------------------
(* The media status thread *)

\* Fault variant: every count fires at once.
CrossedAll(s) == Len(back.counts)

\* How many pending counts, in stitch order, a status has crossed: those at the
\* front whose offsets it has reached.
Crossed(s) ==
    CHOOSE n \in 0 .. Len(back.counts) :
        /\ \A i \in 1 .. n : back.counts[i].off <= s.pos
        /\ n = Len(back.counts) \/ back.counts[n + 1].off > s.pos

\* _emit_confirmed_start and _flow_fire_crossings
PlayingHeard(s) ==
    LET n == Crossed(s)
        fired == {back.counts[i].token : i \in 1 .. n}
        all == fired \cup (IF back.token = 0 THEN {} ELSE {back.token})
    IN /\ back' = [back EXCEPT !.token = 0, !.counts = SubSeq(@, n + 1, Len(@))]
       /\ told' = ConfirmAll(told, all)
       /\ truth' = IF s.id = flow.id THEN truth ELSE [truth EXCEPT !.late = @ \cup all]

\* _flow_media_status; without a flow session the per-track handler's business
Listens ==
    /\ status # <<>> /\ status' = Tail(status)
    /\ LET s == Head(status)
       IN CASE ~flow.live -> UNCHANGED <<back, told, truth, posted>>
            [] flow.live /\ s.state = "PLAYING" -> PlayingHeard(s) /\ posted' = posted
            [] flow.live /\ s.state # "PLAYING" ->
                 /\ back' = [back EXCEPT !.playing = FALSE]
                 /\ IF ~back.playing THEN posted' = posted
                    ELSE Post(IF flow.ended THEN "natural" ELSE "suspect")
                 /\ UNCHANGED <<told, truth>>
    /\ UNCHANGED <<queue, flow, dev, host, used>>

-----------------------------------------------------------------------------
(* Callbacks on the event loop *)

\* _flow_natural_end: what is left in the ledger was heard to the end.
StaleEnd == Head(posted).id # flow.id \/ ~flow.live
NaturalEnd ==
    /\ Runs("natural")
    /\ IF StaleEnd THEN posted' = Tail(posted) /\ UNCHANGED <<back, told, flow, truth>>
       ELSE LET rest == {back.counts[i].token : i \in DOMAIN back.counts}
            IN /\ told' = ConfirmAll(told, rest)
               /\ truth' = [truth EXCEPT !.late = @ \cup (rest \ truth.heard)]
               /\ back' = [Emptied(back) EXCEPT !.playing = FALSE]
               /\ flow' = Detached(flow)
               /\ posted' = Append(Tail(posted), [do |-> "advance", id |-> 0, token |-> told.last])
    /\ UNCHANGED <<queue, dev, status, host, used>>

SuspectsOutage ==
    /\ Runs("suspect")
    /\ IF ~flow.live THEN posted' = Tail(posted) /\ UNCHANGED <<back, flow>>
       ELSE Suspects /\ posted' = Append(Tail(posted), [do |-> "judge", id |-> 0, token |-> told.last])
    /\ UNCHANGED <<queue, dev, status, host, told, truth, used>>

Dispatched(q) == [q EXCEPT !.cur = Head(q.next), !.next = Tail(@), !.gen = @ + 1]
Moves(q) == IF q.next = <<>> THEN queue' = [q EXCEPT !.cur = 0] /\ UNCHANGED <<host, told>>
            ELSE queue' = Dispatched(q) /\ host' = "play" /\ Issues

\* _do_advance: not while a dispatch holds the lock, not under a hold
Advances ==
    /\ Runs("advance") /\ posted' = Tail(posted)
    /\ IF host # "none" \/ queue.held THEN UNCHANGED <<queue, host, told>> ELSE Moves(queue)
    /\ UNCHANGED <<flow, dev, back, status, truth, used>>

\* The outage classifier: nothing for a superseded dispatch, else the item is
\* held or, the device being there, skipped.
Judges ==
    /\ Runs("judge") /\ posted' = Tail(posted)
    /\ IF Head(posted).token # told.last \/ host # "none" \/ queue.held
       THEN UNCHANGED <<queue, host, told>>
       ELSE \/ /\ queue' = [queue EXCEPT !.held = TRUE, !.cur = 0,
                              !.next = IF queue.cur = 0 THEN @ ELSE <<queue.cur>> \o @]
               /\ UNCHANGED <<host, told>>
            \/ Moves(queue)
    /\ UNCHANGED <<flow, dev, back, status, truth, used>>

-----------------------------------------------------------------------------
(* The host *)

\* A skip, or a resume from the hold: the generation first, then the lock.
HostSkips ==
    /\ host = "none" /\ queue.next # <<>> /\ Pressed /\ Issues
    /\ queue' = [Dispatched(queue) EXCEPT !.held = FALSE]
    /\ host' = "play"
    /\ UNCHANGED <<flow, dev, back, status, posted, truth>>

Reuses == flow.live /\ ~flow.closed /\ ~flow.ended
Repositioned == [flow EXCEPT !.gen = @ + 1, !.want = queue.cur, !.repos = TRUE, !.paused = FALSE]

\* _play_flow on the session at hand
PlayRepositions ==
    /\ host = "play" /\ back.gapless /\ Reuses
    /\ flow' = Repositioned
    /\ back' = [Emptied(back) EXCEPT !.token = 0, !.repos = told.last, !.playing = TRUE]
    /\ dev' = [dev EXCEPT !.st = IF @ = "paused" THEN "playing" ELSE @]
    /\ truth' = [truth EXCEPT !.lost = @ \/ flow.pc = "finalize"]
    /\ host' = "none"
    /\ UNCHANGED <<queue, status, posted, told, used>>

\* _play_flow on a fresh one
PlayCreates ==
    /\ host = "play" /\ back.gapless /\ ~Reuses /\ flow.id < MaxSessions
    /\ flow' = NewSession(flow.id + 1, queue.cur)
    /\ back' = [Emptied(back) EXCEPT !.token = told.last]
    /\ host' = "load"
    /\ UNCHANGED <<queue, dev, status, posted, told, truth, used>>

\* A per-track dispatch closes a lingering flow.
PlayPerTrack ==
    /\ host = "play" /\ ~back.gapless
    /\ flow' = Detached(flow) /\ back' = [Emptied(back) EXCEPT !.token = 0]
    /\ dev' = [sess |-> 0, pos |-> 0, said |-> 0, st |-> "idle"]
    /\ host' = "none"
    /\ UNCHANGED <<queue, status, posted, told, truth, used>>

LoadSent ==
    /\ host = "load" /\ flow.live
    /\ dev' = [sess |-> flow.id, pos |-> 0, said |-> 0, st |-> "playing"]
    /\ host' = "return"
    /\ UNCHANGED <<queue, flow, back, status, posted, told, truth, used>>

\* The flag is set as the executor returns; a failed load closes the session.
LoadReturns ==
    /\ \/ /\ host = "return"
          /\ back' = [back EXCEPT !.playing = TRUE]
          /\ truth' = [truth EXCEPT !.lost = @ \/ dev.st = "idle"]
          /\ UNCHANGED <<flow, posted, used>>
       \/ /\ host \in {"load", "return"}
          /\ IF flow.live THEN Mishap ELSE used' = used
          /\ Suspects /\ Post("judge") /\ truth' = truth
    /\ host' = "none"
    /\ UNCHANGED <<queue, dev, status, told>>

\* A seek repositions within the current track.
HostSeeks ==
    /\ host = "none" /\ Reuses /\ queue.cur # 0 /\ ~flow.paused /\ Pressed
    /\ flow' = [Repositioned EXCEPT !.paused = flow.paused]
    /\ back' = [back EXCEPT !.repos = 0, !.seek = told.last]
    /\ truth' = [truth EXCEPT !.lost = @ \/ flow.pc = "finalize"]
    /\ UNCHANGED <<queue, dev, status, posted, host, told>>

HostPauses ==
    /\ flow.live /\ Plays /\ Pressed
    /\ flow' = [flow EXCEPT !.paused = TRUE]
    /\ dev' = [dev EXCEPT !.st = "paused"] /\ back' = [back EXCEPT !.playing = FALSE]
    /\ UNCHANGED <<queue, status, posted, host, told, truth>>

HostResumes ==
    /\ flow.live /\ flow.paused
    /\ flow' = [flow EXCEPT !.paused = FALSE]
    /\ dev' = [dev EXCEPT !.st = IF @ = "paused" THEN "playing" ELSE @]
    /\ back' = [back EXCEPT !.playing = TRUE]
    /\ UNCHANGED <<queue, status, posted, host, told, truth, used>>

HostStops ==
    /\ host = "none" /\ flow.live /\ Pressed
    /\ flow' = Detached(flow) /\ back' = [Emptied(back) EXCEPT !.playing = FALSE]
    /\ dev' = [dev EXCEPT !.st = "idle"]
    /\ UNCHANGED <<queue, status, posted, host, told, truth>>

\* An edit of the queue between lookahead and boundary; the gapless toggle.
HostEdits ==
    /\ Pressed
    /\ \/ /\ queue.next # <<>> /\ queue' = [queue EXCEPT !.next = Tail(@)] /\ back' = back
       \/ back.gapless /\ back' = [back EXCEPT !.gapless = FALSE] /\ queue' = queue
    /\ UNCHANGED <<flow, dev, status, posted, host, told, truth>>

Pump == PumpTakes \/ PumpOpens \/ PumpCrosses \/ PumpEofs \/ PumpFinalizes
Device == DevBinds \/ DevReaches \/ DevReports \/ DevStops
Loop == NaturalEnd \/ SuspectsOutage \/ Advances \/ Judges
Play == PlayRepositions \/ PlayCreates \/ PlayPerTrack \/ LoadSent \/ LoadReturns
FlowNext ==
    \/ Pump \/ PumpFails \/ PumpBreaks \/ Device \/ DevDropsStream \/ GraceExpires
    \/ Listens \/ Loop \/ Play
    \/ HostSkips \/ HostSeeks \/ HostPauses \/ HostResumes \/ HostStops \/ HostEdits

FlowFair ==
    /\ WF_flowVars(Pump) /\ WF_flowVars(DevReaches) /\ WF_flowVars(DevReports)
    /\ WF_flowVars(Listens) /\ WF_flowVars(Loop) /\ WF_flowVars(Play)
FlowSpec == FlowInit /\ [][FlowNext]_flowVars /\ FlowFair

-----------------------------------------------------------------------------
FlowTypeOK ==
    /\ flow.id \in 0 .. MaxSessions /\ told.last \in 0 .. MaxTokens
    /\ back.token \in 0 .. MaxTokens /\ dev.pos >= dev.said
    /\ queue.cur \in 0 .. MaxTracks
    /\ \A i \in 1 .. Len(back.counts) - 1 : back.counts[i].off < back.counts[i + 1].off

\* A play is counted only if its own audio was heard, except through a status
\* or an end that belongs to an earlier stream.
FlowCountsHeard ==
    \A n \in Tokens : told.confirmed[n] > 0 => n \in truth.heard \cup truth.late

FlowCountsOnce == \A n \in Tokens : told.confirmed[n] <= 1

\* An accepted reposition is spliced into the stream, unless it came while the
\* stream was being finalized.
FlowAwaits == flow.live /\ flow.want # 0 /\ ~flow.paused
FlowServed == \/ flow.want = 0 \/ ~flow.live \/ flow.closed \/ flow.paused \/ truth.lost
              \/ told.last = MaxTokens \/ Len(flow.stitch) > MaxTokens
FlowTaken == FlowAwaits => FlowServed
FlowRepositionTaken == []<>FlowTaken

\* A count whose offset the receiver has passed is confirmed in the end,
\* unless a jump cancels or re-keys it or the stream is lost.
Due(n) == \E i \in DOMAIN back.counts : back.counts[i].token = n /\ back.counts[i].off <= dev.pos
FlowDue(n) == Due(n) /\ Plays
FlowCounted(n) == told.confirmed[n] > 0 \/ ~Plays \/ ~Due(n)
FlowAllCounted == \A n \in Tokens : FlowDue(n) => FlowCounted(n)
FlowHeardCounted == []<>FlowAllCounted

\* A boundary into a part of the stream that a reposition has replaced leaves
\* the queue alone.
FlowNeverOverruns ==
    [][flow.pc = "boundary" /\ flow'.pc = "feed" /\ Superseded => queue' = queue]_flowVars
=============================================================================
