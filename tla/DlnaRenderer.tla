---------------------------- MODULE DlnaRenderer ----------------------------
(***************************************************************************)
(* The DLNA backend and the renderer it drives (app/output/dlna.py): the   *)
(* playback poll, the SetNextAVTransportURI arming of the next track, its  *)
(* revocation and the boundary watch.  Each action is the code between two *)
(* suspensions.  The queue side of the hand-over is module ArmedNext; the  *)
(* radio branch of the poll is module RadioLink.                           *)
(*                                                                         *)
(* A track stands for its stream URL.  The renderer serves the control     *)
(* requests it was sent one by one, in order; it may refuse one, or apply  *)
(* it and lose the answer, and some firmware ignores the empty NextURI.    *)
(***************************************************************************)
EXTENDS Naturals, Sequences

CONSTANTS
    Tracks,
    None,
    MaxFaults     \* bound: requests refused or answers lost, outages of the
                  \* poll, stops by the renderer's own controls

ASSUME RendererConstants ==
    /\ None \notin Tracks
    /\ MaxFaults \in Nat

VARIABLES
    dev,    \* the renderer
    be,     \* the backend object
    poll,   \* where _poll_eos is suspended, "none" without a task
    wire,   \* SetNextAVTransportURI requests under way, in order
    reply,  \* per caller: what came of its request
    faults  \* faults so far

renderer == <<dev, be, poll, wire, reply, faults>>

Callers == {"poll", "arm", "revoke", "outer"}
Maybe == Tracks \cup {None}

NoReply == [st |-> "none", url |-> None]

\* uri: the track it plays; frozen: it does not report the last change.
\* near: the track is about to end.  seen: the poll looked since the last
\* change of track.  missed: it failed the boundary into a next it held.
Renderer == [uri : Maybe, tr : {"stopped", "playing", "paused"}, next : Maybe,
             near : BOOLEAN, seen : BOOLEAN, deaf : BOOLEAN, missed : BOOLEAN,
             frozen : BOOLEAN]

\* on: _is_playing.  clk: the wall clock against the expected end, "mid",
\* "near" (_SETNEXT_END_MARGIN_S), "past" (_SETNEXT_DETECT_WINDOW_S) or
\* "unknown" (_play_start 0).  live: the callers whose request carries the
\* pair that is still _armed_next.  forgot (of the model): since play() the one
\* slot of the stale watch was taken from what the renderer plays or holds.
Backend == [on : BOOLEAN, cur : Maybe, clk : {"unknown", "mid", "near", "past"},
            armed : Maybe, sent : BOOLEAN, sentUrl : Maybe, stale : Maybe,
            live : SUBSET Callers, confirmed : BOOLEAN,
            stops : 0 .. 1, forgot : BOOLEAN,
            verdict : {"unverified", "supported", "unsupported"}]

RendererInit ==
    /\ dev \in {[uri |-> None, tr |-> "stopped", next |-> None, near |-> FALSE,
                 seen |-> TRUE, deaf |-> d, missed |-> FALSE, frozen |-> FALSE] : d \in BOOLEAN}
    /\ be = [on |-> FALSE, cur |-> None, clk |-> "unknown", armed |-> None,
             sent |-> FALSE, sentUrl |-> None, stale |-> None, live |-> {},
             confirmed |-> FALSE, stops |-> 0, forgot |-> FALSE,
             verdict |-> "unverified"]
    /\ poll = "none"
    /\ wire = <<>>
    /\ reply = [c \in Callers |-> NoReply]
    /\ faults = 0

-----------------------------------------------------------------------------
(* The renderer *)

Fault == faults < MaxFaults /\ faults' = faults + 1

Halted == [dev EXCEPT !.tr = "stopped", !.uri = None, !.near = FALSE, !.seen = TRUE,
                      !.frozen = FALSE]

\* Time passes: the renderer approaches the end of its track, the backend's
\* clock follows.  A change of track is not outrun: the poll looks before.
Nears ==
    /\ dev.tr = "playing" /\ ~dev.near /\ (dev.seen \/ poll = "none")
    /\ dev' = [dev EXCEPT !.near = TRUE]
    /\ be' = [be EXCEPT !.clk = IF @ = "mid" THEN "near" ELSE @]
    /\ UNCHANGED <<poll, wire, reply, faults>>

\* The next in place at the end of the track is chained into, or ignored.
TrackEnds ==
    /\ dev.tr = "playing" /\ dev.near
    /\ \/ /\ dev.next # None
          /\ dev' = [dev EXCEPT !.uri = dev.next, !.next = None, !.near = FALSE, !.seen = FALSE,
                                  !.frozen = FALSE]
       \/ dev' = [Halted EXCEPT !.missed = @ \/ dev.next # None]
    /\ UNCHANGED <<be, poll, wire, reply, faults>>

\* Firmware that chains into the next but goes on to report the old URI: the
\* wall clock passes the expected end.  (An unwanted next it chained into
\* would be beyond any observation and is left out.)
ChainsUnreported ==
    /\ dev.tr = "playing" /\ dev.near /\ be.clk = "near"
    /\ be.sent /\ dev.next = be.armed
    /\ dev' = [dev EXCEPT !.uri = dev.next, !.next = None, !.near = FALSE,
                          !.seen = FALSE, !.frozen = TRUE, !.missed = TRUE]
    /\ be' = [be EXCEPT !.clk = "past"]
    /\ UNCHANGED <<poll, wire, reply, faults>>

StoppedByHand ==
    /\ dev.tr = "playing" /\ Fault
    /\ dev' = [Halted EXCEPT !.missed = @ \/ dev.near]
    /\ UNCHANGED <<be, poll, wire, reply>>

\* The renderer serves the oldest request; url None is the empty NextURI.
Serves ==
    /\ wire # <<>>
    /\ wire' = Tail(wire)
    /\ LET r == Head(wire)
           taken == [dev EXCEPT !.next = IF r.url = None /\ dev.deaf THEN @ ELSE r.url]
           Answer(a) == reply' = IF r.by = "nobody" THEN reply ELSE [reply EXCEPT ![r.by].st = a]
       IN \/ dev' = taken /\ Answer("ok") /\ UNCHANGED faults
          \/ /\ r.url # None /\ Fault
             /\ dev' = dev /\ Answer("failed")
          \/ /\ Fault
             /\ dev' = taken /\ Answer("failed")
    /\ UNCHANGED <<be, poll>>

Request(c, url) ==
    /\ wire' = Append(wire, [by |-> c, url |-> url])
    /\ reply' = [reply EXCEPT ![c] = [st |-> "out", url |-> url]]
NoRequest == UNCHANGED <<wire, reply>>
Answered(c) == reply[c].st \in {"ok", "failed"}
\* No request is unanswered: what a pass reads is there to stay.
Quiet == \A c \in Callers : reply[c].st = "none"
Settled(c) == [reply EXCEPT ![c] = NoReply]

-----------------------------------------------------------------------------
(* Arming *)

Discard(b) ==
    [b EXCEPT !.armed = None, !.sent = FALSE, !.sentUrl = None, !.stale = None, !.live = {}]

\* _send_setnext up to the request: nothing to send, an undetectable
\* boundary into the same URL, or a request.
Sendable(b) == b.armed # None /\ ~b.sent
SameUrl(b) == b.armed = b.cur
WithoutArm(b) == [b EXCEPT !.armed = None, !.live = {}]

\* Fault variant: only a refusal is thought of, not a revoke meanwhile.
DeliveredAnyway(b, c, url, ok) ==
    IF ok THEN [b EXCEPT !.sent = TRUE, !.sentUrl = url, !.stale = None]
    ELSE [b EXCEPT !.armed = None, !.sent = FALSE, !.stale = url]

\* The one slot of the stale watch goes to url although the renderer plays or
\* still holds what it watched.
LetsGo(b, url) == b.stale \notin {None, url} /\ b.stale \in {dev.uri, dev.next}

\* _send_setnext with the answer: a failed request may have been applied, a
\* pair revoked meanwhile is in place unwanted; both go to the stale watch.
Delivered(b, c, url, ok) ==
    LET mine == c \in b.live
    IN IF ok /\ mine
       THEN [b EXCEPT !.sent = TRUE, !.sentUrl = url, !.stale = None, !.live = @ \ {c}]
       ELSE [b EXCEPT !.stale = url, !.live = @ \ {c}, !.forgot = @ \/ LetsGo(b, url),
                      !.armed = IF mine THEN None ELSE @,
                      !.sent = IF mine THEN FALSE ELSE @]

\* arm_next(t) up to its suspension, when it needs one.
Armed(t) == [be EXCEPT !.armed = t, !.sent = FALSE, !.live = {}]
Arm(t) ==
    IF be.verdict = "unsupported"
    THEN be' = be /\ NoRequest
    ELSE IF be.confirmed /\ t = be.cur
    THEN be' = WithoutArm(be) /\ NoRequest
    ELSE IF be.confirmed
    THEN be' = [Armed(t) EXCEPT !.live = {"arm"}] /\ Request("arm", t)
    ELSE be' = Armed(t) /\ NoRequest

\* Fault variant: a revoke is believed to work.
RevokedBlindly(b) ==
    [b EXCEPT !.armed = None, !.live = {}, !.sent = FALSE, !.sentUrl = None]

\* revoke_next up to its suspension: what was delivered stays watched
\* whatever the renderer answers to the empty NextURI.
Revoked(b) ==
    [b EXCEPT !.armed = None, !.live = {}, !.sent = FALSE, !.sentUrl = None,
              !.stale = IF b.sent THEN b.sentUrl ELSE @,
              !.forgot = @ \/ (b.sent /\ (LetsGo(b, b.sentUrl) \/ dev.uri \notin {None, b.cur, b.sentUrl}))]

Revoke(c) ==
    /\ be' = Revoked(be)
    /\ IF be.sent THEN Request(c, None) ELSE NoRequest

-----------------------------------------------------------------------------
(* _poll_eos *)

\* A verdict is given once per device.
Decided(b, v) == [b EXCEPT !.verdict = IF @ = "unverified" THEN v ELSE @]

Off(b) == [b EXCEPT !.on = FALSE, !.clk = "unknown", !.stops = 0]

Watching(b) == b.sent \/ b.stale # None

\* The pass that reads STOPPED: the second in a row is the end of the track.
\* An accepted next that did not chain near the end speaks against the device.
PollReadsStopped ==
    /\ poll = "sleep" /\ dev.tr = "stopped" /\ be.on
    /\ dev' = [dev EXCEPT !.seen = @ \/ Quiet]
    /\ IF be.stops = 0
       THEN be' = [be EXCEPT !.stops = 1] /\ poll' = "sleep"
       ELSE /\ be' = LET judged == IF be.sent /\ be.clk \in {"near", "past"}
                                   THEN Decided(be, "unsupported") ELSE be
                     IN Off(Discard(judged))
            /\ poll' = "advance"
    /\ UNCHANGED <<wire, reply, faults>>

\* Any other pass: the first PLAYING read sends what was armed before it.
\* (The confirmation of the start is OutputSupervisor's.)
PollReads ==
    /\ poll = "sleep" /\ ~(dev.tr = "stopped" /\ be.on)
    /\ LET read == [be EXCEPT !.stops = 0]
           first == dev.tr = "playing" /\ ~be.confirmed
           sure == [read EXCEPT !.confirmed = @ \/ first]
       IN IF first /\ Sendable(sure) /\ ~SameUrl(sure)
          THEN /\ be' = [sure EXCEPT !.live = {"poll"}]
               /\ Request("poll", sure.armed)
               /\ poll' = "send" /\ dev' = dev
          ELSE /\ be' = IF first /\ Sendable(sure) THEN WithoutArm(sure) ELSE sure
               /\ NoRequest
               /\ IF dev.tr = "playing" /\ Watching(be')
                  THEN poll' = "look" /\ dev' = dev
                  ELSE poll' = "sleep" /\ dev' = [dev EXCEPT !.seen = @ \/ (Quiet /\ dev.tr = "playing")]
    /\ UNCHANGED faults

\* The send of the first PLAYING pass returns; the pass goes on.
PollSent ==
    /\ poll = "send" /\ Answered("poll")
    /\ be' = Delivered(be, "poll", reply["poll"].url, reply["poll"].st = "ok")
    /\ reply' = Settled("poll")
    /\ poll' = IF Watching(be') THEN "look" ELSE "sleep"
    /\ UNCHANGED <<dev, wire, faults>>

\* _consume_boundary: the armed pair becomes the current one.
Consumed(b, v) == [Decided(Discard(b), v) EXCEPT !.cur = b.armed, !.clk = "mid"]

\* Fault variant: only the revoked next is corrected.
WrongSeenIfStale == dev.uri = be.stale

\* _check_gapless_boundary on the URI the renderer reports.
ExpectedSeen == be.sent /\ dev.uri = be.armed
WrongSeen == ~ExpectedSeen /\ (dev.uri = be.stale \/ be.sent)

PollLooks ==
    /\ poll = "look"
    /\ dev' = [dev EXCEPT !.seen = @ \/ Quiet]
    /\ IF dev.uri # be.cur /\ ~dev.frozen
       THEN \/ ExpectedSeen /\ be' = Consumed(be, "supported") /\ poll' = "notify"
            \/ WrongSeen /\ be' = Discard(be) /\ poll' = "fix"
            \/ ~ExpectedSeen /\ ~WrongSeen /\ be' = be /\ poll' = "sleep"
       ELSE IF be.sent /\ be.clk = "past"
       THEN be' = Consumed(be, "unsupported") /\ poll' = "notify"
       ELSE be' = be /\ poll' = "sleep"
    /\ UNCHANGED <<wire, reply, faults>>

\* The corrective Stop, at best effort, then the advance to the queue's front.
PollFixes ==
    /\ poll = "fix"
    /\ \/ dev' = Halted /\ UNCHANGED faults
       \/ Fault /\ dev' = dev
    /\ be' = Off(be)
    /\ poll' = "advance"
    /\ UNCHANGED <<wire, reply>>

\* The third failing pass in a row (a good pass between starts the count
\* anew) ends the poll with an outage.
PollFails ==
    /\ poll \in {"sleep", "look"} /\ Fault
    /\ be' = [be EXCEPT !.on = FALSE, !.stops = 0] /\ poll' = "none"
    /\ UNCHANGED <<dev, wire, reply>>

-----------------------------------------------------------------------------
(* play, pause, resume, stop *)

\* _cancel_poll: a request the poll had sent stays on the wire.
Unowned == [i \in DOMAIN wire |->
              IF wire[i].by = "poll" THEN [wire[i] EXCEPT !.by = "nobody"] ELSE wire[i]]
CancelPoll ==
    /\ poll' = "none"
    /\ wire' = Unowned
    /\ reply' = Settled("poll")

PlayStarts ==
    /\ CancelPoll
    /\ be' = [Discard(be) EXCEPT !.confirmed = FALSE, !.stops = 0, !.forgot = FALSE]
    /\ UNCHANGED <<dev, faults>>

\* SetAVTransportURI, behind the requests before it, and Play: the renderer's
\* transport starts anew, without a next.
PlayReturns(t) ==
    /\ wire = <<>>
    /\ dev' = [dev EXCEPT !.uri = t, !.tr = "playing", !.next = None, !.near = FALSE,
                          !.seen = TRUE, !.frozen = FALSE]
    /\ be' = [be EXCEPT !.on = TRUE, !.clk = "mid", !.cur = t]
    /\ poll' = "sleep"
    /\ UNCHANGED <<wire, reply, faults>>

Pause ==
    /\ dev.tr = "playing" /\ be.on
    /\ dev' = [dev EXCEPT !.tr = "paused"]
    /\ be' = [be EXCEPT !.on = FALSE, !.clk = "unknown"]
    /\ UNCHANGED <<poll, wire, reply, faults>>

Resume ==
    /\ dev.tr = "paused"
    /\ dev' = [dev EXCEPT !.tr = "playing"]
    /\ be' = [be EXCEPT !.on = TRUE]
    /\ UNCHANGED <<poll, wire, reply, faults>>

Stop ==
    /\ CancelPoll
    /\ dev' = Halted
    /\ be' = [be EXCEPT !.on = FALSE, !.clk = "unknown", !.stops = 0]
    /\ UNCHANGED faults
=============================================================================
