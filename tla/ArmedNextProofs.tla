--------------------------- MODULE ArmedNextProofs ---------------------------
(***************************************************************************)
(* Proofs about ArmedNext: its type invariant, and that after a pass of    *)
(* the poll the renderer plays what the backend takes for the current      *)
(* track, for any number of tracks, faults and inputs.                     *)
(***************************************************************************)
EXTENDS ArmedNext, SequenceTheorems, TLAPS

PollStates == {"none", "sleep", "send", "look", "notify", "fix", "advance"}
Asked == [by : Callers \cup {"nobody"}, url : Maybe]
Replies == [st : {"none", "out", "ok", "failed"}, url : Maybe]

Typed ==
    /\ dev \in Renderer /\ be \in Backend /\ poll \in PollStates
    /\ wire \in Seq(Asked) /\ reply \in [Callers -> Replies]
    /\ q \in Queue /\ orch \in Orchestrator /\ play \in Maybe
    /\ dev.tr # "stopped" => dev.uri # None

\* A request on the wire that has an owner is the one that owner waits for.
Lined ==
    /\ \A i \in DOMAIN wire : wire[i].by # "nobody" =>
          reply[wire[i].by].st = "out" /\ reply[wire[i].by].url = wire[i].url
    /\ \A i, j \in DOMAIN wire : i # j /\ wire[i].by # "nobody" => wire[i].by # wire[j].by

\* Nobody waits who did not suspend for it; a revoke names no track.
Awaited ==
    /\ poll # "send" => reply["poll"].st = "none"
    /\ orch.pc # "arming" => reply["arm"].st = "none"
    /\ orch.pc # "revoking" => reply["revoke"].st = "none"
    /\ ~orch.outer => reply["outer"].st = "none"
    /\ reply["revoke"].url = None /\ reply["outer"].url = None

\* The request of the pair that is still armed is the last one made.  (The
\* poll loses its request when it is cancelled.)
Owns(c) == c \in be.live /\ (c = "poll" => poll = "send")
Owned ==
    /\ be.live \in {{}, {"arm"}, {"poll"}}
    /\ be.live # {} => be.armed # None /\ ~be.sent
    /\ \A c \in {"arm", "poll"} : Owns(c) =>
          /\ reply[c].url = be.armed /\ reply[c].st # "none"
          /\ reply[c].st = "out" => wire # <<>> /\ wire[Len(wire)].by = c /\ wire[Len(wire)].url = be.armed
          /\ reply[c].st # "out" => wire = <<>>
          /\ reply[c].st = "ok" => dev.next \in {None, be.armed}
    /\ be.sent => /\ wire = <<>> /\ be.armed # None /\ be.sentUrl = be.armed
                  /\ dev.next \in {None, be.armed}

\* The orchestrator's slot is ahead of the backend's, and a play under way
\* begins without an arm.
Slots ==
    /\ orch.pc \in {"warming", "arming"} => orch.nxt # None
    /\ orch.slot = None /\ orch.pc # "arming" => be.armed = None
    /\ play # None => poll = "none" /\ ~be.sent /\ be.live = {} /\ ~be.confirmed

Polling == poll \in {"sleep", "send", "look", "notify"}

\* What the backend knows the renderer may play or hold: the current track,
\* what it watches, and what a request was answered for and not yet told.
Answers == {reply[c].url : c \in {d \in Callers : reply[d].st \in {"ok", "failed"}}}
Known == {None, be.cur, be.stale} \cup Answers

\* While the poll runs the renderer holds and plays nothing unknown, and once
\* seen it plays the current track.
Covered ==
    Polling =>
      /\ be.cur # None
      /\ \A i \in DOMAIN wire : wire[i].by # "nobody" /\ wire[i].url # be.cur
      /\ be.clk = "past" => dev.next # be.cur /\ (dev.frozen \/ dev.uri # be.cur)
      /\ be.forgot \/ be.sent \/ dev.next \in Known
      /\ be.forgot \/ be.sent \/ dev.frozen \/ dev.uri \in Known
      /\ be.forgot \/ dev.frozen \/ dev.tr = "stopped" \/ ~dev.seen \/ dev.uri = be.cur

IInv == Typed /\ Lined /\ Awaited /\ Owned /\ Slots /\ Covered

-----------------------------------------------------------------------------
(* The requests *)

\* What the wire is: a list, of whose entries the types are known.
LEMMA WireIs ==
  ASSUME wire \in Seq(Asked)
  PROVE  /\ Len(wire) \in Nat /\ DOMAIN wire = 1 .. Len(wire)
         /\ \A i \in DOMAIN wire : /\ wire[i].by \in Callers \cup {"nobody"}
                                   /\ wire[i].url \in Maybe
         /\ (wire = <<>>) = (Len(wire) = 0)
<1>1. Len(wire) \in Nat /\ DOMAIN wire = 1 .. Len(wire)
  BY LenProperties
<1>2. \A i \in 1 .. Len(wire) : wire[i] \in Asked
  BY ElementOfSeq
<1>3. (wire = <<>>) = (Len(wire) = 0)
  BY EmptySeq
<1> QED
  BY <1>1, <1>2, <1>3 DEF Asked

\* A request goes to the end of the wire.
LEMMA RequestMade ==
  ASSUME Typed, Lined, NEW c \in Callers, NEW url \in Maybe, reply[c].st = "none", Request(c, url)
  PROVE  /\ wire' \in Seq(Asked) /\ reply' \in [Callers -> Replies] /\ Lined'
         /\ reply'[c].st = "out" /\ reply'[c].url = url
         /\ \A d \in Callers \ {c} : reply'[d] = reply[d]
         /\ wire' # <<>> /\ wire'[Len(wire')].by = c /\ wire'[Len(wire')].url = url
         /\ \A i \in DOMAIN wire' : \/ wire'[i].by = c /\ wire'[i].url = url
                                    \/ i \in DOMAIN wire /\ wire'[i] = wire[i]
         /\ Answers' = Answers
<1> DEFINE r == [by |-> c, url |-> url]
<1>0. wire \in Seq(Asked) /\ reply \in [Callers -> Replies] /\ r \in Asked
  BY DEF Typed, Asked
<1>1. /\ wire' = Append(wire, r) /\ wire' \in Seq(Asked) /\ Len(wire') = Len(wire) + 1
      /\ \A i \in 1 .. Len(wire) : wire'[i] = wire[i]
      /\ wire'[Len(wire) + 1] = r
  BY <1>0, AppendProperties DEF Request
<1>2. Len(wire) \in Nat /\ DOMAIN wire = 1 .. Len(wire) /\ DOMAIN wire' = 1 .. Len(wire) + 1
  BY <1>0, <1>1, LenProperties
<1> DEFINE a == [st |-> "out", url |-> url]
<1>a. a \in Replies /\ a.st = "out" /\ a.url = url
  BY DEF Replies
<1>b. reply' = [reply EXCEPT ![c] = a]
  BY DEF Request
<1> HIDE DEF a
<1>3. /\ reply' \in [Callers -> Replies] /\ reply'[c] = a
      /\ \A d \in Callers \ {c} : reply'[d] = reply[d]
  BY <1>0, <1>a, <1>b
<1>4. \A i \in DOMAIN wire' : wire'[i] = r \/ (i \in DOMAIN wire /\ wire'[i] = wire[i])
  BY <1>1, <1>2
<1>5. \A i \in DOMAIN wire : wire[i].by \in Callers \cup {"nobody"} /\ wire[i].by # c
  <2>1. c # "nobody"
    BY DEF Callers
  <2> QED
    BY <1>0, <2>1, WireIs DEF Lined
<1>6. Lined'
  <2>1. ASSUME NEW i \in DOMAIN wire', wire'[i].by # "nobody"
        PROVE  reply'[wire'[i].by].st = "out" /\ reply'[wire'[i].by].url = wire'[i].url
    BY <1>3, <1>a, <1>4, <1>5, <2>1 DEF Lined
  <2>2. ASSUME NEW i \in DOMAIN wire', NEW j \in DOMAIN wire', i # j, wire'[i].by # "nobody"
        PROVE  wire'[i].by # wire'[j].by
    <3>1. i \in DOMAIN wire \/ j \in DOMAIN wire
      BY <1>2, <2>2
    <3> QED
      BY <1>1, <1>2, <1>4, <1>5, <2>2, <3>1 DEF Lined
  <2> QED
    BY <2>1, <2>2 DEF Lined
<1>7. Answers' = Answers
  BY <1>3, <1>a DEF Answers
<1>8. wire' # <<>>
  BY <1>1, <1>2, EmptySeq
<1> QED
  BY <1>1, <1>2, <1>3, <1>a, <1>4, <1>6, <1>7, <1>8

\* It makes the wire longer.
LEMMA RequestSeen ==
  ASSUME wire \in Seq(Asked), NEW c \in Callers, NEW url \in Maybe, Request(c, url)
  PROVE  wire' # wire
<1> DEFINE r == [by |-> c, url |-> url]
<1>1. r \in Asked
  BY DEF Asked
<1>2. wire' = Append(wire, r)
  BY DEF Request
<1> HIDE DEF r
<1>3. Len(wire') = Len(wire) + 1
  BY <1>1, <1>2, AppendProperties
<1>4. Len(wire) \in Nat
  BY LenProperties
<1> QED
  BY <1>3, <1>4

\* Who settles its request forgets the answer.
LEMMA RequestSettled ==
  ASSUME Typed, Lined, NEW c \in Callers, Answered(c), reply' = Settled(c), wire' = wire
  PROVE  /\ reply' \in [Callers -> Replies] /\ Lined'
         /\ reply'[c] = NoReply
         /\ \A d \in Callers \ {c} : reply'[d] = reply[d]
         /\ Answers \subseteq Answers' \cup {reply[c].url}
<1>1. /\ reply' \in [Callers -> Replies] /\ reply'[c] = NoReply
      /\ \A d \in Callers \ {c} : reply'[d] = reply[d]
  BY DEF Typed, Settled, NoReply, Replies, Maybe
<1>2. Answers \subseteq Answers' \cup {reply[c].url}
  BY <1>1 DEF Answers, NoReply
<1>3. ASSUME NEW i \in DOMAIN wire, wire[i].by # "nobody" PROVE wire[i].by \in Callers \ {c}
  <2>1. wire[i].by \in Callers \cup {"nobody"}
    BY WireIs DEF Typed
  <2> QED
    BY <1>3, <2>1 DEF Lined, Answered
<1>4. Lined'
  BY <1>1, <1>3 DEF Lined
<1> QED
  BY <1>1, <1>2, <1>4

\* A cancelled poll leaves its request on the wire, with no owner.
LEMMA PollCancelled ==
  ASSUME Typed, Lined, CancelPoll
  PROVE  /\ wire' \in Seq(Asked) /\ reply' \in [Callers -> Replies] /\ Lined'
         /\ reply'["poll"].st = "none"
         /\ \A d \in Callers \ {"poll"} : reply'[d] = reply[d]
         /\ Len(wire') = Len(wire) /\ DOMAIN wire' = DOMAIN wire
         /\ \A i \in DOMAIN wire : /\ wire'[i].url = wire[i].url
                                   /\ wire[i].by # "poll" => wire'[i].by = wire[i].by
<1>0. wire \in Seq(Asked) /\ reply \in [Callers -> Replies]
  BY DEF Typed
<1>1. /\ reply' \in [Callers -> Replies] /\ reply'["poll"].st = "none"
      /\ \A d \in Callers \ {"poll"} : reply'[d] = reply[d]
  BY <1>0 DEF CancelPoll, Settled, NoReply, Replies, Maybe, Callers
<1>2. \A i \in 1 .. Len(wire) : wire[i] \in Asked
  BY <1>0, ElementOfSeq
<1>3. DOMAIN wire = 1 .. Len(wire) /\ Len(wire) \in Nat
  BY <1>0, LenProperties
<1>4. wire' = [i \in 1 .. Len(wire) |->
                 IF wire[i].by = "poll" THEN [wire[i] EXCEPT !.by = "nobody"] ELSE wire[i]]
  BY <1>3 DEF CancelPoll, Unowned
<1>5. \A i \in 1 .. Len(wire) : /\ wire'[i] \in Asked
                                /\ wire'[i].by = IF wire[i].by = "poll" THEN "nobody" ELSE wire[i].by
                                /\ wire'[i].url = wire[i].url
  BY <1>2, <1>4 DEF Asked
<1>6. wire' \in Seq(Asked)
  BY <1>3, <1>4, <1>5, IsASeq
<1>7. Len(wire') = Len(wire) /\ DOMAIN wire' = DOMAIN wire
  BY <1>3, <1>4, <1>6, LenProperties
<1>8. Lined'
  <2>1. \A i \in 1 .. Len(wire) : wire[i].by \in Callers \cup {"nobody"}
    BY <1>2 DEF Asked
  <2> QED
    BY <1>1, <1>3, <1>5, <1>7, <2>1 DEF Lined
<1> QED
  BY <1>1, <1>3, <1>5, <1>6, <1>7, <1>8

\* The oldest request is served.
LEMMA RequestServed ==
  ASSUME Typed, Lined, Serves
  PROVE  /\ wire' \in Seq(Asked) /\ reply' \in [Callers -> Replies] /\ Lined'
         /\ wire # <<>> /\ Len(wire') = Len(wire) - 1
         /\ \A i \in DOMAIN wire' : i + 1 \in DOMAIN wire /\ wire'[i] = wire[i + 1]
         /\ \A d \in Callers \ {wire[1].by} : reply'[d] = reply[d]
         /\ wire[1].by # "nobody" => /\ reply'[wire[1].by].st \in {"ok", "failed"}
                                     /\ reply'[wire[1].by].url = wire[1].url
                                     /\ reply'[wire[1].by].st = "ok" =>
                                           dev'.next = wire[1].url \/ wire[1].url = None
         /\ dev'.next \in {dev.next, wire[1].url}
         /\ \A f \in DOMAIN dev \ {"next"} : dev'[f] = dev[f]
         /\ dev' \in Renderer
         /\ be' = be /\ poll' = poll
<1>0. wire \in Seq(Asked) /\ reply \in [Callers -> Replies] /\ wire # <<>> /\ dev \in Renderer
  BY DEF Typed, Serves
<1>1. /\ wire' = Tail(wire) /\ wire' \in Seq(Asked) /\ Len(wire') = Len(wire) - 1
      /\ \A i \in 1 .. Len(wire) - 1 : wire'[i] = wire[i + 1]
      /\ Head(wire) = wire[1]
  BY <1>0, HeadTailProperties DEF Serves
<1>2. /\ Len(wire) \in Nat /\ Len(wire) # 0 /\ DOMAIN wire = 1 .. Len(wire)
      /\ DOMAIN wire' = 1 .. Len(wire) - 1
      /\ \A i \in DOMAIN wire : /\ wire[i].by \in Callers \cup {"nobody"}
                                /\ wire[i].url \in Maybe
  BY <1>0, <1>1, WireIs, LenProperties
<1> DEFINE by == wire[1].by
           url == wire[1].url
<1>3. 1 \in DOMAIN wire /\ by \in Callers \cup {"nobody"} /\ url \in Maybe
  BY <1>2
<1>4. \E a \in {"ok", "failed"} :
         /\ reply' = IF by = "nobody" THEN reply ELSE [reply EXCEPT ![by].st = a]
         /\ dev' = dev \/ dev' = [dev EXCEPT !.next = IF url = None /\ dev.deaf THEN @ ELSE url]
         /\ a = "ok" => dev' = [dev EXCEPT !.next = IF url = None /\ dev.deaf THEN @ ELSE url]
  BY <1>1 DEF Serves
<1>5. /\ dev' \in Renderer /\ dev'.next \in {dev.next, url}
      /\ \A f \in DOMAIN dev \ {"next"} : dev'[f] = dev[f]
  BY <1>0, <1>3, <1>4 DEF Renderer
<1>6. /\ reply' \in [Callers -> Replies]
      /\ \A d \in Callers \ {by} : reply'[d] = reply[d]
      /\ by # "nobody" => /\ reply'[by].st \in {"ok", "failed"} /\ reply'[by].url = reply[by].url
                          /\ reply'[by].st = "ok" => dev'.next = url \/ url = None
  BY <1>0, <1>3, <1>4 DEF Replies, Renderer
<1>7. by # "nobody" => reply[by].url = url
  BY <1>3 DEF Lined
<1>8. \A i \in DOMAIN wire' : i + 1 \in DOMAIN wire /\ i + 1 # 1 /\ wire'[i] = wire[i + 1]
  BY <1>1, <1>2
<1>9. Lined'
  <2>1. ASSUME NEW i \in DOMAIN wire', wire'[i].by # "nobody"
        PROVE  reply'[wire'[i].by].st = "out" /\ reply'[wire'[i].by].url = wire'[i].url
    <3>1. wire[i + 1].by \in Callers \ {by}
      BY <1>2, <1>3, <1>8, <2>1 DEF Lined
    <3> QED
      BY <1>6, <1>8, <2>1, <3>1 DEF Lined
  <2>2. ASSUME NEW i \in DOMAIN wire', NEW j \in DOMAIN wire', i # j, wire'[i].by # "nobody"
        PROVE  wire'[i].by # wire'[j].by
    BY <1>2, <1>8, <2>2 DEF Lined
  <2> QED
    BY <2>1, <2>2 DEF Lined
<1> QED
  BY <1>0, <1>1, <1>5, <1>6, <1>7, <1>8, <1>9 DEF Serves

-----------------------------------------------------------------------------
(* The operators on the backend, the renderer and the orchestrator *)

\* A backend with one of its fields replaced is a backend; its fields are these.
Fields == {"on", "cur", "clk", "armed", "sent", "sentUrl", "stale", "live", "confirmed", "stops",
           "forgot", "verdict"}
LEMMA BackendWith ==
  ASSUME NEW b \in Backend
  PROVE  /\ DOMAIN b = Fields
         /\ \A x \in BOOLEAN : /\ [b EXCEPT !.on = x] \in Backend /\ [b EXCEPT !.sent = x] \in Backend
                               /\ [b EXCEPT !.forgot = x] \in Backend /\ [b EXCEPT !.confirmed = x] \in Backend
         /\ \A x \in Maybe : /\ [b EXCEPT !.cur = x] \in Backend /\ [b EXCEPT !.armed = x] \in Backend
                             /\ [b EXCEPT !.sentUrl = x] \in Backend /\ [b EXCEPT !.stale = x] \in Backend
         /\ \A x \in SUBSET Callers : [b EXCEPT !.live = x] \in Backend
         /\ \A x \in {"unknown", "mid", "near", "past"} : [b EXCEPT !.clk = x] \in Backend
         /\ \A x \in 0 .. 1 : [b EXCEPT !.stops = x] \in Backend
         /\ \A x \in {"unverified", "supported", "unsupported"} : [b EXCEPT !.verdict = x] \in Backend
<1>1. DOMAIN b = Fields
  BY DEF Backend, Fields
<1>2. \A x \in BOOLEAN : /\ [b EXCEPT !.on = x] \in Backend /\ [b EXCEPT !.sent = x] \in Backend
                         /\ [b EXCEPT !.forgot = x] \in Backend /\ [b EXCEPT !.confirmed = x] \in Backend
  BY DEF Backend
<1>3. \A x \in Maybe : [b EXCEPT !.cur = x] \in Backend /\ [b EXCEPT !.armed = x] \in Backend
  BY DEF Backend
<1>4. \A x \in Maybe : [b EXCEPT !.sentUrl = x] \in Backend /\ [b EXCEPT !.stale = x] \in Backend
  BY DEF Backend
<1>5. \A x \in SUBSET Callers : [b EXCEPT !.live = x] \in Backend
  BY DEF Backend
<1>6. \A x \in {"unknown", "mid", "near", "past"} : [b EXCEPT !.clk = x] \in Backend
  BY DEF Backend
<1>7. \A x \in 0 .. 1 : [b EXCEPT !.stops = x] \in Backend
  BY DEF Backend
<1>8. \A x \in {"unverified", "supported", "unsupported"} : [b EXCEPT !.verdict = x] \in Backend
  BY DEF Backend
<1> QED
  BY <1>1, <1>2, <1>3, <1>4, <1>5, <1>6, <1>7, <1>8

\* The same of the renderer and of the orchestrator.
LEMMA RendererWith ==
  ASSUME NEW r \in Renderer
  PROVE  /\ DOMAIN r = {"uri", "tr", "next", "near", "seen", "deaf", "missed", "frozen"}
         /\ \A x \in Maybe : [r EXCEPT !.uri = x] \in Renderer /\ [r EXCEPT !.next = x] \in Renderer
         /\ \A x \in BOOLEAN : /\ [r EXCEPT !.near = x] \in Renderer /\ [r EXCEPT !.seen = x] \in Renderer
                               /\ [r EXCEPT !.missed = x] \in Renderer /\ [r EXCEPT !.frozen = x] \in Renderer
         /\ \A x \in {"stopped", "playing", "paused"} : [r EXCEPT !.tr = x] \in Renderer
<1>1. DOMAIN r = {"uri", "tr", "next", "near", "seen", "deaf", "missed", "frozen"}
  BY DEF Renderer
<1>2. \A x \in Maybe : [r EXCEPT !.uri = x] \in Renderer /\ [r EXCEPT !.next = x] \in Renderer
  BY DEF Renderer
<1>3. \A x \in BOOLEAN : [r EXCEPT !.near = x] \in Renderer /\ [r EXCEPT !.seen = x] \in Renderer
  BY DEF Renderer
<1>4. \A x \in BOOLEAN : [r EXCEPT !.missed = x] \in Renderer /\ [r EXCEPT !.frozen = x] \in Renderer
  BY DEF Renderer
<1>5. \A x \in {"stopped", "playing", "paused"} : [r EXCEPT !.tr = x] \in Renderer
  BY DEF Renderer
<1> QED
  BY <1>1, <1>2, <1>3, <1>4, <1>5

LEMMA OrchestratorWith ==
  ASSUME NEW o \in Orchestrator
  PROVE  /\ DOMAIN o = {"slot", "pc", "nxt", "want", "dirty", "stale", "outer"}
         /\ \A x \in Maybe : [o EXCEPT !.slot = x] \in Orchestrator /\ [o EXCEPT !.nxt = x] \in Orchestrator
         /\ \A x \in BOOLEAN : /\ [o EXCEPT !.want = x] \in Orchestrator /\ [o EXCEPT !.dirty = x] \in Orchestrator
                               /\ [o EXCEPT !.stale = x] \in Orchestrator /\ [o EXCEPT !.outer = x] \in Orchestrator
         /\ \A x \in {"idle", "revoking", "warming", "arming"} : [o EXCEPT !.pc = x] \in Orchestrator
<1>1. DOMAIN o = {"slot", "pc", "nxt", "want", "dirty", "stale", "outer"}
  BY DEF Orchestrator
<1>2. \A x \in Maybe : [o EXCEPT !.slot = x] \in Orchestrator /\ [o EXCEPT !.nxt = x] \in Orchestrator
  BY DEF Orchestrator
<1>3. \A x \in BOOLEAN : [o EXCEPT !.want = x] \in Orchestrator /\ [o EXCEPT !.dirty = x] \in Orchestrator
  BY DEF Orchestrator
<1>4. \A x \in BOOLEAN : [o EXCEPT !.stale = x] \in Orchestrator /\ [o EXCEPT !.outer = x] \in Orchestrator
  BY DEF Orchestrator
<1>5. \A x \in {"idle", "revoking", "warming", "arming"} : [o EXCEPT !.pc = x] \in Orchestrator
  BY DEF Orchestrator
<1> QED
  BY <1>1, <1>2, <1>3, <1>4, <1>5

\* What the operators of the poll leave of a backend, field by field.
LEMMA DiscardFields ==
  ASSUME NEW b \in Backend
  PROVE  /\ Discard(b).live = {} /\ Discard(b).sent = FALSE /\ Discard(b).armed = None
         /\ Discard(b).confirmed = b.confirmed /\ Discard(b).cur = b.cur
         /\ Off(b).live = b.live /\ Off(b).sent = b.sent /\ Off(b).armed = b.armed
<1>1. DOMAIN b = Fields
  BY BackendWith
<1>2. /\ Discard(b).live = {} /\ Discard(b).sent = FALSE /\ Discard(b).armed = None
      /\ Discard(b).confirmed = b.confirmed /\ Discard(b).cur = b.cur
  BY <1>1 DEF Discard, Fields
<1>3. Off(b).live = b.live /\ Off(b).sent = b.sent /\ Off(b).armed = b.armed
  BY <1>1 DEF Off, Fields
<1> QED
  BY <1>2, <1>3

LEMMA ConsumedFields ==
  ASSUME NEW b \in Backend, NEW v
  PROVE  /\ Consumed(b, v).cur = b.armed /\ Consumed(b, v).clk = "mid"
         /\ Consumed(b, v).live = {} /\ Consumed(b, v).sent = FALSE /\ Consumed(b, v).armed = None
<1>1. DOMAIN b = Fields
  BY BackendWith
<1>2. DOMAIN Discard(b) = Fields
  BY <1>1 DEF Discard
<1>3. /\ DOMAIN Decided(Discard(b), v) = Fields
      /\ Decided(Discard(b), v).live = Discard(b).live
      /\ Decided(Discard(b), v).sent = Discard(b).sent
      /\ Decided(Discard(b), v).armed = Discard(b).armed
  BY <1>2 DEF Decided, Fields
<1>4. /\ Consumed(b, v).cur = b.armed /\ Consumed(b, v).clk = "mid"
      /\ Consumed(b, v).live = Decided(Discard(b), v).live
      /\ Consumed(b, v).sent = Decided(Discard(b), v).sent
      /\ Consumed(b, v).armed = Decided(Discard(b), v).armed
  BY <1>3 DEF Consumed, Fields
<1> QED
  BY <1>3, <1>4, DiscardFields

\* What a track that ends leaves of the renderer.
LEMMA HaltedTyped ==
  ASSUME dev \in Renderer
  PROVE  /\ Halted \in Renderer /\ Halted.uri = None /\ Halted.tr = "stopped"
         /\ Halted.next = dev.next /\ Halted.frozen = FALSE
<1>1. DOMAIN dev = {"uri", "tr", "next", "near", "seen", "deaf", "missed", "frozen"}
  BY RendererWith
<1>2. Halted.uri = None /\ Halted.tr = "stopped" /\ Halted.next = dev.next /\ Halted.frozen = FALSE
  BY <1>1 DEF Halted
<1>3. Halted \in Renderer
  BY RendererWith, None \in Maybe DEF Halted, Maybe
<1> QED
  BY <1>2, <1>3

\* What a revocation leaves, field by field.
LEMMA RevokedFields ==
  ASSUME NEW b \in Backend
  PROVE  /\ Revoked(b).armed = None /\ Revoked(b).live = {} /\ Revoked(b).sent = FALSE
         /\ Revoked(b).confirmed = b.confirmed /\ Revoked(b).cur = b.cur /\ Revoked(b).clk = b.clk
         /\ Revoked(b).stale = IF b.sent THEN b.sentUrl ELSE b.stale
         /\ Revoked(b).forgot =
              (b.forgot \/ (b.sent /\ (LetsGo(b, b.sentUrl) \/ dev.uri \notin {None, b.cur, b.sentUrl})))
<1>1. DOMAIN b = Fields
  BY BackendWith
<1>2. Revoked(b).armed = None /\ Revoked(b).live = {} /\ Revoked(b).sent = FALSE
  BY <1>1 DEF Revoked, Fields
<1>3. Revoked(b).confirmed = b.confirmed /\ Revoked(b).cur = b.cur /\ Revoked(b).clk = b.clk
  BY <1>1 DEF Revoked, Fields
<1>4. Revoked(b).stale = IF b.sent THEN b.sentUrl ELSE b.stale
  BY <1>1 DEF Revoked, Fields
<1>5. Revoked(b).forgot =
        (b.forgot \/ (b.sent /\ (LetsGo(b, b.sentUrl) \/ dev.uri \notin {None, b.cur, b.sentUrl})))
  BY <1>1 DEF Revoked, Fields
<1> QED
  BY <1>2, <1>3, <1>4, <1>5

\* What the operators on the backend return is a backend.
LEMMA BackendsTyped ==
  ASSUME NEW b \in Backend, dev \in Renderer
  PROVE  /\ Discard(b) \in Backend /\ Off(b) \in Backend /\ WithoutArm(b) \in Backend
         /\ Revoked(b) \in Backend
         /\ \A v \in {"supported", "unsupported"} : Decided(b, v) \in Backend /\ Consumed(b, v) \in Backend
         /\ \A c \in Callers, url \in Maybe, ok \in BOOLEAN : Delivered(b, c, url, ok) \in Backend
<1>0. /\ None \in Maybe /\ 0 \in 0 .. 1 /\ {} \in SUBSET Callers
      /\ b.armed \in Maybe /\ b.sent \in BOOLEAN /\ b.sentUrl \in Maybe /\ b.stale \in Maybe
      /\ b.live \in SUBSET Callers /\ b.forgot \in BOOLEAN
      /\ b.verdict \in {"unverified", "supported", "unsupported"}
  BY DEF Maybe, Backend
<1>1. Discard(b) \in Backend /\ Off(b) \in Backend /\ WithoutArm(b) \in Backend
  <2>1. Discard(b) \in Backend
    BY <1>0, BackendWith DEF Discard
  <2>2. Off(b) \in Backend
    BY <1>0, BackendWith DEF Off
  <2>3. WithoutArm(b) \in Backend
    BY <1>0, BackendWith DEF WithoutArm
  <2> QED
    BY <2>1, <2>2, <2>3
<1>2. Revoked(b) \in Backend
  <2> DEFINE m == [b EXCEPT !.armed = None, !.live = {}, !.sent = FALSE, !.sentUrl = None]
             n == [m EXCEPT !.stale = IF b.sent THEN b.sentUrl ELSE m.stale]
             lost == b.sent /\ (LetsGo(b, b.sentUrl) \/ dev.uri \notin {None, b.cur, b.sentUrl})
  <2>1. m \in Backend
    BY <1>0, BackendWith
  <2>2. n \in Backend
    <3> HIDE DEF m
    <3>1. (IF b.sent THEN b.sentUrl ELSE m.stale) \in Maybe
      BY <1>0, <2>1 DEF Backend
    <3> QED
      BY <2>1, <3>1, BackendWith
  <2>3. [n EXCEPT !.forgot = n.forgot \/ lost] \in Backend
    <3> HIDE DEF n, lost
    <3>1. (n.forgot \/ lost) \in BOOLEAN
      OBVIOUS
    <3> QED
      BY <2>2, <3>1, BackendWith
  <2>4. Revoked(b) = [n EXCEPT !.forgot = n.forgot \/ lost]
    BY Zenon DEF Revoked
  <2> QED
    BY <2>3, <2>4
<1>3. ASSUME NEW v \in {"supported", "unsupported"} PROVE Decided(b, v) \in Backend /\ Consumed(b, v) \in Backend
  <2>1. ASSUME NEW d \in Backend PROVE Decided(d, v) \in Backend
    <3>1. (IF d.verdict = "unverified" THEN v ELSE d.verdict) \in {"unverified", "supported", "unsupported"}
      BY DEF Backend
    <3> QED
      BY <3>1, BackendWith DEF Decided
  <2>2. Decided(Discard(b), v) \in Backend
    BY <1>1, <2>1
  <2>3. Consumed(b, v) \in Backend
    BY <1>0, <2>2, BackendWith DEF Consumed
  <2> QED
    BY <2>1, <2>3
<1>4. ASSUME NEW c \in Callers, NEW url \in Maybe, NEW ok \in BOOLEAN PROVE Delivered(b, c, url, ok) \in Backend
  <2> DEFINE live == b.live \ {c}
             lost == b.forgot \/ LetsGo(b, url)
             arm == IF c \in b.live THEN None ELSE b.armed
             told == IF c \in b.live THEN FALSE ELSE b.sent
  <2>1. live \in SUBSET Callers /\ lost \in BOOLEAN /\ arm \in Maybe /\ told \in BOOLEAN
    BY <1>0
  <2>2. DOMAIN b = Fields
    BY BackendWith
  <2>3. Delivered(b, c, url, ok) =
          IF ok /\ c \in b.live
          THEN [b EXCEPT !.sent = TRUE, !.sentUrl = url, !.stale = None, !.live = live]
          ELSE [b EXCEPT !.stale = url, !.live = live, !.forgot = lost, !.armed = arm, !.sent = told]
    BY <2>2 DEF Delivered, Fields
  <2> HIDE DEF live, lost, arm, told
  <2>4. [b EXCEPT !.sent = TRUE, !.sentUrl = url, !.stale = None, !.live = live] \in Backend
    BY <1>0, <2>1, BackendWith
  <2>5. [b EXCEPT !.stale = url, !.live = live, !.forgot = lost, !.armed = arm, !.sent = told] \in Backend
    BY <2>1, BackendWith
  <2> QED
    BY <2>3, <2>4, <2>5
<1> QED
  BY <1>1, <1>2, <1>3, <1>4

\* The same of the renderer and the orchestrator.
LEMMA OthersTyped ==
  ASSUME NEW o \in Orchestrator, dev \in Renderer
  PROVE  /\ Halted \in Renderer
         /\ Triggered(o) \in Orchestrator /\ Emptied(o) \in Orchestrator /\ Onwards(o) \in Orchestrator
<1>1. Halted \in Renderer
  BY DEF Halted, Renderer, Maybe
<1>2. Triggered(o) \in Orchestrator /\ Emptied(o) \in Orchestrator
  BY DEF Triggered, Emptied, Orchestrator, Maybe
<1>3. Onwards(o) \in Orchestrator
  BY DEF Onwards, Orchestrator, Maybe
<1> QED
  BY <1>1, <1>2, <1>3

-----------------------------------------------------------------------------
(* The steps *)

\* What a step of the renderer or the poll leaves alone.
rest == <<q, orch, play, inputs>>

\* Nothing is owned and nothing was delivered.
LEMMA NothingOwned ==
  ASSUME be'.live = {}, be'.sent = FALSE
  PROVE  Owned'
  BY DEF Owned, Owns

\* What is owned stays owned when the pair and the requests stay.
LEMMA OwnedKept ==
  ASSUME Owned, wire' = wire, reply' = reply, poll' = "send" => poll = "send",
         be'.live = be.live, be'.armed = be.armed, be'.sent = be.sent, be'.sentUrl = be.sentUrl,
         dev'.next \in {None, dev.next}
  PROVE  Owned'
<1>1. ASSUME NEW c \in {"arm", "poll"}, Owns(c)' PROVE Owns(c)
  BY <1>1 DEF Owns
<1> QED
  BY <1>1 DEF Owned

\* The slots stay in order when the backend's is at most emptied.
LEMMA SlotsKept ==
  ASSUME Slots, orch' = orch, play' = play, be'.armed \in {None, be.armed},
         play # None => poll' = "none" /\ be'.sent = FALSE /\ be'.live = {} /\ be'.confirmed = FALSE
  PROVE  Slots'
  BY DEF Slots

\* With the answer of a request the pair that is armed is delivered or given
\* up, and what the renderer may hold stays known or is let go.
LEMMA AnswerKept ==
  ASSUME IInv, NEW c \in {"arm", "poll"}, Answered(c), reply' = Settled(c),
         be' = Delivered(be, c, reply[c].url, reply[c].st = "ok"),
         dev' = dev, wire' = wire,
         c = "poll" => poll = "send" /\ poll' \in {"sleep", "look"},
         c = "arm" => poll' = poll
  PROVE  /\ be' \in Backend /\ reply' \in [Callers -> Replies] /\ Lined' /\ Owned' /\ Covered'
         /\ reply'[c].st = "none" /\ \A d \in Callers \ {c} : reply'[d] = reply[d]
         /\ be'.armed \in {None, be.armed} /\ be'.confirmed = be.confirmed
         /\ play # None => be'.sent = FALSE /\ be'.live = {}
<1> DEFINE url == reply[c].url
<1>1. /\ reply' \in [Callers -> Replies] /\ Lined' /\ reply'[c].st = "none"
      /\ \A d \in Callers \ {c} : reply'[d] = reply[d]
      /\ Answers \subseteq Answers' \cup {url}
      /\ c \in Callers /\ url \in Maybe /\ reply[c].st # "out" /\ be \in Backend
  BY RequestSettled DEF IInv, Typed, Callers, Replies, Answered, NoReply
<1>2. be' \in Backend
  BY <1>1, BackendsTyped DEF IInv, Typed
<1>3. CASE reply[c].st = "ok" /\ c \in be.live
  <2>1. /\ be'.sent = TRUE /\ be'.sentUrl = url /\ be'.stale = None /\ be'.live = be.live \ {c}
        /\ be'.armed = be.armed /\ be'.confirmed = be.confirmed /\ be'.cur = be.cur
        /\ be'.clk = be.clk /\ be'.forgot = be.forgot
    BY <1>1, <1>3 DEF Delivered, Backend
  <2>2. be.live = {c} /\ be'.live = {} /\ play = None
    BY <1>3, <2>1 DEF IInv, Owned, Slots
  <2>3. /\ url = be.armed /\ be.armed # None /\ wire = <<>> /\ dev.next \in {None, be.armed}
    BY <1>1, <1>3, <2>2 DEF IInv, Owned, Owns
  <2>4. Owned'
    BY <2>1, <2>2, <2>3 DEF Owned, Owns
  <2>5. Covered'
    <3>1. Polling' => Polling
      BY DEF Polling
    <3> QED
      BY <2>1, <3>1 DEF IInv, Covered
  <2> QED
    BY <1>1, <1>2, <2>1, <2>2, <2>4, <2>5
<1>4. CASE ~(reply[c].st = "ok" /\ c \in be.live)
  <2>1. /\ be'.stale = url /\ be'.live = be.live \ {c} /\ be'.forgot = (be.forgot \/ LetsGo(be, url))
        /\ be'.confirmed = be.confirmed /\ be'.cur = be.cur /\ be'.clk = be.clk /\ be'.sentUrl = be.sentUrl
        /\ be'.armed = IF c \in be.live THEN None ELSE be.armed
        /\ be'.sent = IF c \in be.live THEN FALSE ELSE be.sent
    <3>1. be \in Backend /\ DOMAIN be = Fields /\ be' = Delivered(be, c, url, reply[c].st = "ok")
      BY <1>1, BackendWith DEF IInv, Typed
    <3> QED
      BY <1>4, <3>1 DEF Delivered, Fields
  <2>2. c \in be.live => be.live = {c} /\ be.sent = FALSE
    BY <1>1 DEF IInv, Owned, Backend
  <2>3. be'.sent = be.sent /\ (c \notin be.live => be'.live = be.live /\ be'.armed = be.armed)
    BY <2>1, <2>2
  <2>4. Owned'
    <3>1. CASE c \in be.live
      BY <2>1, <2>2, <3>1, NothingOwned
    <3>2. CASE c \notin be.live
      <4>1. ASSUME NEW d \in {"arm", "poll"}, Owns(d)' PROVE Owns(d) /\ reply'[d] = reply[d]
        BY <1>1, <2>3, <3>2, <4>1 DEF Owns, Callers
      <4> QED
        BY <2>1, <2>3, <3>2, <4>1 DEF IInv, Owned
    <3> QED
      BY <3>1, <3>2
  <2>5. Covered'
    <3>1. Polling' => Polling
      BY DEF Polling
    <3>2. \A t : t \in Known /\ t \in {dev.uri, dev.next} => t \in Known' \/ be'.forgot
      BY <1>1, <2>1 DEF Known, LetsGo
    <3> QED
      BY <2>1, <2>3, <3>1, <3>2 DEF IInv, Covered
  <2>6. play # None => be'.sent = FALSE /\ be'.live = {}
    BY <1>1, <2>1 DEF IInv, Slots, Backend
  <2> QED
    BY <1>1, <1>2, <2>1, <2>4, <2>5, <2>6
<1> QED
  BY <1>3, <1>4

\* After a revoke nothing is armed; what the device was told of is watched.
LEMMA RevokeKept ==
  ASSUME IInv, NEW c \in {"revoke", "outer"}, reply[c].st = "none", Revoke(c), dev' = dev, poll' = poll
  PROVE  /\ be' \in Backend /\ wire' \in Seq(Asked) /\ reply' \in [Callers -> Replies]
         /\ Lined' /\ Owned' /\ Covered'
         /\ be'.armed = None /\ be'.sent = FALSE /\ be'.live = {} /\ be'.confirmed = be.confirmed
         /\ ~be.sent => reply' = reply
         /\ reply'[c].url = None /\ \A d \in Callers \ {c} : reply'[d] = reply[d]
<1>1. /\ be' \in Backend /\ be'.armed = None /\ be'.sent = FALSE /\ be'.live = {}
      /\ be'.confirmed = be.confirmed /\ be'.cur = be.cur /\ be'.clk = be.clk
      /\ be'.stale = IF be.sent THEN be.sentUrl ELSE be.stale
      /\ be'.forgot = \/ be.forgot
                      \/ /\ be.sent
                         /\ LetsGo(be, be.sentUrl) \/ dev.uri \notin {None, be.cur, be.sentUrl}
  <2>1. be \in Backend /\ be' = Revoked(be)
    BY DEF IInv, Typed, Revoke
  <2>2. be' \in Backend
    BY <2>1, BackendsTyped DEF IInv, Typed
  <2> QED
    BY <2>1, <2>2, RevokedFields DEF IInv, Typed
<1>2. c \in Callers /\ None \in Maybe /\ reply[c].url = None /\ "nobody" \notin Callers
  BY DEF Callers, Maybe, IInv, Awaited
<1>3. /\ wire' \in Seq(Asked) /\ reply' \in [Callers -> Replies] /\ Lined'
      /\ ~be.sent => reply' = reply /\ wire' = wire
      /\ reply'[c].url = None /\ \A d \in Callers \ {c} : reply'[d] = reply[d]
      /\ \A i \in DOMAIN wire' : \/ wire'[i].by = c /\ wire'[i].url = None
                                 \/ i \in DOMAIN wire /\ wire'[i] = wire[i]
      /\ Answers' = Answers
  <2>1. CASE be.sent
    BY <1>2, <2>1, RequestMade DEF Revoke, IInv
  <2>2. CASE ~be.sent
    <3>1. wire' = wire /\ reply' = reply
      BY <2>2 DEF Revoke, NoRequest
    <3> QED
      BY <1>2, <2>2, <3>1 DEF IInv, Typed, Lined, Answers
  <2> QED
    BY <2>1, <2>2
<1>4. Covered'
  <2>1. Polling' => Polling
    BY DEF Polling
  <2>2. CASE be.sent
    <3>1. dev.next \in {None, be.sentUrl} /\ be.stale \in Maybe
      BY <2>2 DEF IInv, Owned, Typed, Backend
    <3> QED
      BY <1>1, <1>2, <1>3, <2>1, <2>2, <3>1 DEF IInv, Covered, Known
  <2>3. CASE ~be.sent
    BY <1>1, <1>2, <1>3, <2>1, <2>3 DEF IInv, Covered, Known
  <2> QED
    BY <2>2, <2>3
<1> QED
  BY <1>1, <1>3, <1>4, NothingOwned

\* The answer of a revoke is waited for and dropped.
LEMMA RevokeSettled ==
  ASSUME IInv, NEW c \in {"revoke", "outer"}, Answered(c), reply' = Settled(c),
         wire' = wire, be' = be, dev' = dev, poll' = poll
  PROVE  /\ reply' \in [Callers -> Replies] /\ Lined' /\ Owned' /\ Covered'
         /\ reply'[c] = NoReply /\ \A d \in Callers \ {c} : reply'[d] = reply[d]
<1>1. /\ reply' \in [Callers -> Replies] /\ Lined' /\ reply'[c] = NoReply
      /\ \A d \in Callers \ {c} : reply'[d] = reply[d]
      /\ Answers \subseteq Answers' \cup {None} /\ c \in Callers
  BY RequestSettled DEF IInv, Awaited, Callers
<1>2. \A d \in {"arm", "poll"} : reply'[d] = reply[d]
  BY <1>1 DEF Callers
<1>3. Known \subseteq Known'
  BY <1>1 DEF Known
<1> QED
  BY <1>1, <1>2, <1>3 DEF IInv, Owned, Owns, Covered, Polling

\* play() begins with everything of the previous one discarded.
LEMMA PlayStartsKeeps ==
  ASSUME IInv, PlayStarts, q' \in Queue, orch' \in Orchestrator, play' \in Maybe,
         orch'.pc = orch.pc, orch'.nxt = orch.nxt, orch'.slot = orch.slot, orch'.outer = orch.outer
  PROVE  IInv'
<1>1. /\ be' \in Backend /\ be'.armed = None /\ be'.sent = FALSE /\ be'.live = {}
      /\ be'.confirmed = FALSE /\ poll' = "none" /\ dev' = dev
  <2>1. Discard(be) \in Backend /\ be' = [Discard(be) EXCEPT !.confirmed = FALSE, !.stops = 0, !.forgot = FALSE]
    BY BackendsTyped DEF IInv, Typed, PlayStarts
  <2>2. Discard(be).armed = None /\ Discard(be).sent = FALSE /\ Discard(be).live = {}
    BY DiscardFields DEF IInv, Typed
  <2>3. be' \in Backend
    BY <2>1, 0 \in 0 .. 1, BackendWith
  <2>4. /\ be'.armed = Discard(be).armed /\ be'.sent = Discard(be).sent /\ be'.live = Discard(be).live
        /\ be'.confirmed = FALSE
    <3>1. DOMAIN Discard(be) = Fields
      BY <2>1, BackendWith
    <3> QED
      BY <2>1, <3>1 DEF Fields
  <2> QED
    BY <2>2, <2>3, <2>4 DEF PlayStarts, CancelPoll
<1>2. /\ wire' \in Seq(Asked) /\ reply' \in [Callers -> Replies] /\ Lined'
      /\ reply'["poll"].st = "none" /\ \A d \in Callers \ {"poll"} : reply'[d] = reply[d]
  BY PollCancelled DEF IInv, PlayStarts
<1>3. Typed'
  BY <1>1, <1>2 DEF IInv, Typed, PollStates
<1>4. Awaited'
  BY <1>2 DEF IInv, Awaited, Callers
<1>5. Slots'
  BY <1>1 DEF IInv, Slots
<1>6. Covered'
  BY <1>1 DEF Covered, Polling
<1> QED
  BY <1>1, <1>2, <1>3, <1>4, <1>5, <1>6, NothingOwned DEF IInv

\* The renderer nears the end of its track; only the clocks move.
LEMMA NearsKeeps ==
  ASSUME IInv, Nears /\ UNCHANGED rest
  PROVE  IInv'
<1>1. Typed'
  <2>1. dev' \in Renderer
    BY DEF IInv, Typed, Renderer, Maybe, Nears
  <2>2. be' \in Backend
    BY DEF IInv, Typed, Backend, Maybe, Nears
  <2>3. dev'.tr # "stopped" => dev'.uri # None
    BY DEF IInv, Typed, Nears
  <2> QED
    BY <2>1, <2>2, <2>3 DEF IInv, Typed, rest, Nears
<1>2. Lined'
  BY DEF IInv, Lined, rest, Nears
<1>3. Awaited'
  BY DEF IInv, Awaited, rest, Nears
<1>4. Owned'
  BY DEF IInv, Owned, Owns, rest, Nears
<1>5. Slots'
  BY DEF IInv, Slots, rest, Nears
<1>6. Covered'
  BY DEF IInv, Covered, Polling, Known, Answers, rest, Nears
<1> QED
  BY <1>1, <1>2, <1>3, <1>4, <1>5, <1>6 DEF IInv

\* The renderer chains into the next it holds, which is known, or stops.
LEMMA TrackEndsKeeps ==
  ASSUME IInv, TrackEnds /\ UNCHANGED rest
  PROVE  IInv'
<1>1. Typed'
  <2>1. dev' \in Renderer
    <3>1. dev \in Renderer /\ None \in Maybe /\ dev.next \in Maybe
      BY DEF IInv, Typed, Renderer, Maybe
    <3>2. CASE dev' = [Halted EXCEPT !.missed = @ \/ dev.next # None]
      <4> DEFINE m == Halted.missed \/ dev.next # None
      <4>1. Halted \in Renderer /\ m \in BOOLEAN /\ dev' = [Halted EXCEPT !.missed = m]
        BY <3>1, <3>2, HaltedTyped
      <4> HIDE DEF m
      <4> QED
        BY <4>1, RendererWith
    <3>3. CASE dev' = [dev EXCEPT !.uri = dev.next, !.next = None, !.near = FALSE, !.seen = FALSE,
                                  !.frozen = FALSE]
      BY <3>1, <3>3, RendererWith
    <3> QED
      BY <3>2, <3>3 DEF TrackEnds
  <2>2. dev'.tr # "stopped" => dev'.uri # None
    BY DEF IInv, Typed, Renderer, TrackEnds, Halted
  <2> QED
    BY <2>1, <2>2 DEF IInv, Typed, rest, TrackEnds
<1>2. Lined'
  BY DEF IInv, Lined, rest, TrackEnds
<1>3. Awaited'
  BY DEF IInv, Awaited, rest, TrackEnds
<1>4. Owned'
  BY OwnedKept DEF IInv, Typed, Renderer, rest, TrackEnds, Halted
<1>5. Slots'
  BY DEF IInv, Slots, rest, TrackEnds
<1>6. Covered'
  <2>1. \/ /\ dev'.uri = dev.next /\ dev'.next = None /\ dev'.frozen = FALSE /\ dev'.seen = FALSE
           /\ dev.next # None
        \/ dev'.uri = None /\ dev'.next = dev.next /\ dev'.tr = "stopped" /\ dev'.frozen = FALSE
    <3>1. dev \in Renderer /\ DOMAIN dev = {"uri", "tr", "next", "near", "seen", "deaf", "missed", "frozen"}
      BY RendererWith DEF IInv, Typed
    <3>2. CASE dev' = [Halted EXCEPT !.missed = @ \/ dev.next # None]
      <4>1. DOMAIN Halted = {"uri", "tr", "next", "near", "seen", "deaf", "missed", "frozen"}
        BY <3>1, HaltedTyped, RendererWith
      <4> QED
        BY <3>1, <3>2, <4>1, HaltedTyped
    <3>3. CASE /\ dev.next # None
               /\ dev' = [dev EXCEPT !.uri = dev.next, !.next = None, !.near = FALSE, !.seen = FALSE,
                                     !.frozen = FALSE]
      BY <3>1, <3>3
    <3> QED
      BY <3>2, <3>3 DEF TrackEnds
  <2> QED
    BY <2>1 DEF IInv, Covered, Polling, Known, Answers, rest, TrackEnds
<1> QED
  BY <1>1, <1>2, <1>3, <1>4, <1>5, <1>6 DEF IInv

\* A change that is not reported is into what was delivered.
LEMMA ChainsUnreportedKeeps ==
  ASSUME IInv, ChainsUnreported /\ UNCHANGED rest
  PROVE  IInv'
<1>1. Typed'
  <2>1. dev' \in Renderer
    BY DEF IInv, Typed, Renderer, Maybe, ChainsUnreported
  <2>2. be' \in Backend
    BY DEF IInv, Typed, Backend, Maybe, ChainsUnreported
  <2>3. dev'.tr # "stopped" => dev'.uri # None
    BY DEF IInv, Typed, Owned, Renderer, ChainsUnreported
  <2> QED
    BY <2>1, <2>2, <2>3 DEF IInv, Typed, rest, ChainsUnreported
<1>2. Lined'
  BY DEF IInv, Lined, rest, ChainsUnreported
<1>3. Awaited'
  BY DEF IInv, Awaited, rest, ChainsUnreported
<1>4. Owned'
  BY DEF IInv, Owned, Owns, rest, ChainsUnreported
<1>5. Slots'
  BY DEF IInv, Slots, rest, ChainsUnreported
<1>6. Covered'
  BY DEF IInv, Covered, Polling, Known, Answers, rest, ChainsUnreported
<1> QED
  BY <1>1, <1>2, <1>3, <1>4, <1>5, <1>6 DEF IInv

\* A renderer that is stopped plays nothing.
LEMMA StoppedByHandKeeps ==
  ASSUME IInv, StoppedByHand /\ UNCHANGED rest
  PROVE  IInv'
<1>1. Typed'
  <2>1. dev' \in Renderer
    BY DEF IInv, Typed, Renderer, Maybe, StoppedByHand, Halted
  <2>2. dev'.tr # "stopped" => dev'.uri # None
    BY DEF IInv, Typed, Renderer, StoppedByHand, Halted
  <2> QED
    BY <2>1, <2>2 DEF IInv, Typed, rest, StoppedByHand
<1>2. Lined'
  BY DEF IInv, Lined, rest, StoppedByHand
<1>3. Awaited'
  BY DEF IInv, Awaited, rest, StoppedByHand
<1>4. Owned'
  BY DEF IInv, Owned, Owns, rest, StoppedByHand, Halted
<1>5. Slots'
  BY DEF IInv, Slots, rest, StoppedByHand
<1>6. Covered'
  BY DEF IInv, Covered, Polling, Known, Answers, rest, StoppedByHand, Halted
<1> QED
  BY <1>1, <1>2, <1>3, <1>4, <1>5, <1>6 DEF IInv

\* The pass that reads STOPPED keeps the pair or discards it.
LEMMA PollReadsStoppedKeeps ==
  ASSUME IInv, PollReadsStopped /\ UNCHANGED rest
  PROVE  IInv'
<1>0. \/ /\ be'.live = be.live /\ be'.armed = be.armed /\ be'.sent = be.sent /\ be'.sentUrl = be.sentUrl
         /\ be'.confirmed = be.confirmed /\ poll' = "sleep"
      \/ be'.live = {} /\ be'.sent = FALSE /\ be'.armed = None
  <2>1. be \in Backend /\ DOMAIN be = Fields
    BY BackendWith DEF IInv, Typed
  <2>2. CASE be' = [be EXCEPT !.stops = 1] /\ poll' = "sleep"
    BY <2>1, <2>2 DEF Fields
  <2>3. CASE be' = LET judged == IF be.sent /\ be.clk \in {"near", "past"}
                                 THEN Decided(be, "unsupported") ELSE be
                   IN Off(Discard(judged))
    <3>1. ASSUME NEW b \in Backend, be' = Off(Discard(b))
          PROVE  be'.live = {} /\ be'.sent = FALSE /\ be'.armed = None
      <4>1. Discard(b) \in Backend
        BY BackendsTyped DEF IInv, Typed
      <4> QED
        BY <3>1, <4>1, DiscardFields
    <3>2. Decided(be, "unsupported") \in Backend
      BY <2>1, BackendsTyped DEF IInv, Typed
    <3> QED
      BY <2>1, <2>3, <3>1, <3>2
  <2> QED
    BY <2>2, <2>3 DEF PollReadsStopped
<1>1. Typed'
  <2>1. dev' \in Renderer
    BY DEF IInv, Typed, Renderer, Maybe, PollReadsStopped
  <2>2. be' \in Backend
    <3>1. CASE be.stops = 0
      BY <3>1, 1 \in 0 .. 1 DEF IInv, Typed, Backend, Maybe, PollReadsStopped
    <3>2. CASE be.stops # 0
      BY <3>2, BackendsTyped DEF IInv, Typed, PollReadsStopped
    <3> QED
      BY <3>1, <3>2
  <2>3. poll' \in PollStates
    BY DEF IInv, Typed, PollStates, PollReadsStopped
  <2>4. dev'.tr # "stopped" => dev'.uri # None
    BY DEF IInv, Typed, PollReadsStopped
  <2> QED
    BY <2>1, <2>2, <2>3, <2>4 DEF IInv, Typed, rest, PollReadsStopped
<1>2. Lined'
  BY DEF IInv, Lined, rest, PollReadsStopped
<1>3. Awaited'
  BY DEF IInv, Awaited, rest, PollReadsStopped
<1>4. Owned'
  <2>1. dev'.next = dev.next
    BY DEF IInv, Typed, Renderer, PollReadsStopped
  <2> QED
    BY <1>0, <2>1, OwnedKept, NothingOwned DEF IInv, rest, PollReadsStopped
<1>5. Slots'
  BY <1>0, SlotsKept DEF IInv, Slots, rest, PollReadsStopped
<1>6. Covered'
  BY DEF IInv, Typed, Covered, Polling, Known, Answers, Renderer, Backend, rest,
         PollReadsStopped, Off, Discard, Decided, Quiet
<1> QED
  BY <1>1, <1>2, <1>3, <1>4, <1>5, <1>6 DEF IInv

\* The look at the reported URI: the expected next becomes the current track,
\* a wrong one is to be fixed, and where neither is the case the renderer plays
\* the current track.
LEMMA PollLooksKeeps ==
  ASSUME IInv, PollLooks /\ UNCHANGED rest
  PROVE  IInv'
<1>0. /\ dev'.next = dev.next /\ dev'.uri = dev.uri /\ dev'.tr = dev.tr /\ dev'.frozen = dev.frozen
      /\ dev'.seen = (dev.seen \/ Quiet)
      /\ wire' = wire /\ reply' = reply /\ orch' = orch /\ play' = play /\ poll = "look"
  BY DEF IInv, Typed, Renderer, PollLooks, rest
<1>1a. \/ /\ be' = be /\ poll' = "sleep"
          /\ dev.uri # be.cur /\ ~dev.frozen => ~be.sent /\ dev.uri # be.stale
       \/ be'.live = {} /\ be'.sent = FALSE /\ be'.armed = None /\ poll' = "fix"
       \/ /\ be'.live = {} /\ be'.sent = FALSE /\ be'.armed = None /\ poll' = "notify"
          /\ be.sent /\ be'.cur = be.armed /\ be'.clk = "mid"
          /\ \/ dev.uri = be.armed
             \/ be.clk = "past" /\ (dev.uri = be.cur \/ dev.frozen)
  <2>1. be \in Backend
    BY DEF IInv, Typed
  <2>2. ASSUME NEW v \in {"supported", "unsupported"}, be' = Consumed(be, v)
        PROVE  be'.live = {} /\ be'.sent = FALSE /\ be'.armed = None /\ be'.cur = be.armed /\ be'.clk = "mid"
    BY <2>1, <2>2, ConsumedFields
  <2>3. CASE be' = Discard(be) /\ poll' = "fix"
    BY <2>1, <2>3, DiscardFields
  <2>4. CASE ExpectedSeen /\ be' = Consumed(be, "supported") /\ poll' = "notify"
    BY <2>2, <2>4 DEF ExpectedSeen
  <2>5. CASE /\ ~(dev.uri # be.cur /\ ~dev.frozen) /\ be.sent /\ be.clk = "past"
             /\ be' = Consumed(be, "unsupported") /\ poll' = "notify"
    BY <2>2, <2>5
  <2>6. CASE /\ be' = be /\ poll' = "sleep"
             /\ dev.uri # be.cur /\ ~dev.frozen => ~ExpectedSeen /\ ~WrongSeen
    BY <2>6 DEF WrongSeen
  <2> QED
    BY <2>3, <2>4, <2>5, <2>6 DEF PollLooks
<1>1. Typed'
  <2>1. dev' \in Renderer
    BY DEF IInv, Typed, Renderer, Maybe, PollLooks
  <2>2. be' \in Backend
    BY BackendsTyped DEF IInv, Typed, PollLooks
  <2>3. poll' \in PollStates
    BY DEF IInv, Typed, PollStates, PollLooks
  <2>4. dev'.tr # "stopped" => dev'.uri # None
    BY DEF IInv, Typed, PollLooks
  <2> QED
    BY <2>1, <2>2, <2>3, <2>4 DEF IInv, Typed, rest, PollLooks
<1>2. Lined'
  BY DEF IInv, Lined, rest, PollLooks
<1>3. Awaited'
  BY DEF IInv, Awaited, rest, PollLooks
<1>4. Owned'
  BY <1>0, <1>1a, OwnedKept, NothingOwned DEF IInv
<1>5. Slots'
  BY <1>0, <1>1a, SlotsKept DEF IInv, Slots
<1>6. Covered'
  <2>1. CASE be' = be /\ poll' = "sleep" /\ (dev.uri # be.cur /\ ~dev.frozen => ~be.sent /\ dev.uri # be.stale)
    <3>1. Quiet => Answers = {}
      BY DEF Quiet, Answers
    <3> QED
      BY <1>0, <2>1, <3>1 DEF IInv, Typed, Covered, Polling, Known, Answers
  <2>2. CASE poll' = "fix"
    BY <2>2 DEF Covered, Polling
  <2>3. CASE /\ poll' = "notify" /\ be.sent /\ be'.cur = be.armed /\ be'.clk = "mid"
             /\ \/ dev.uri = be.armed
                \/ be.clk = "past" /\ (dev.uri = be.cur \/ dev.frozen)
    <3>1. wire = <<>> /\ be.armed # None /\ dev.next \in {None, be.armed}
      BY <2>3 DEF IInv, Owned
    <3>2. DOMAIN wire = {}
      BY <3>1
    <3>3. dev.uri = be.armed \/ dev.frozen
      BY <1>0, <2>3 DEF IInv, Covered, Polling
    <3> QED
      BY <1>0, <2>3, <3>1, <3>2, <3>3 DEF Covered, Known
  <2> QED
    BY <1>1a, <2>1, <2>2, <2>3
<1> QED
  BY <1>1, <1>2, <1>3, <1>4, <1>5, <1>6 DEF IInv

\* The corrective stop leaves the renderer, or the poll, out of it.
LEMMA PollFixesKeeps ==
  ASSUME IInv, PollFixes /\ UNCHANGED rest
  PROVE  IInv'
<1>1. Typed'
  <2>1. dev' \in Renderer
    BY DEF IInv, Typed, Renderer, Maybe, PollFixes, Halted
  <2>2. be' \in Backend
    BY BackendsTyped DEF IInv, Typed, PollFixes
  <2>3. poll' \in PollStates
    BY DEF IInv, Typed, PollStates, PollFixes
  <2>4. dev'.tr # "stopped" => dev'.uri # None
    BY DEF IInv, Typed, Renderer, PollFixes, Halted
  <2> QED
    BY <2>1, <2>2, <2>3, <2>4 DEF IInv, Typed, rest, PollFixes
<1>2. Lined'
  BY DEF IInv, Lined, rest, PollFixes
<1>3. Awaited'
  BY DEF IInv, Awaited, rest, PollFixes
<1>4. Owned'
  <2>1. /\ be'.live = be.live /\ be'.armed = be.armed /\ be'.sent = be.sent /\ be'.sentUrl = be.sentUrl
        /\ dev'.next = dev.next /\ poll' = "advance"
    BY DEF IInv, Typed, Backend, Renderer, PollFixes, Halted, Off
  <2> QED
    BY <2>1, OwnedKept DEF IInv, rest, PollFixes
<1>5. Slots'
  BY DEF IInv, Slots, rest, PollFixes, Halted, Off
<1>6. Covered'
  BY DEF IInv, Covered, Polling, Known, Answers, rest, PollFixes
<1> QED
  BY <1>1, <1>2, <1>3, <1>4, <1>5, <1>6 DEF IInv

\* A poll that ends promises nothing.
LEMMA PollFailsKeeps ==
  ASSUME IInv, PollFails /\ UNCHANGED rest
  PROVE  IInv'
<1>1. Typed'
  <2>1. be' \in Backend
    BY 0 \in 0 .. 1 DEF IInv, Typed, Backend, Maybe, rest, PollFails
  <2>2. poll' \in PollStates
    BY DEF IInv, Typed, PollStates, PollFails
  <2>3. dev'.tr # "stopped" => dev'.uri # None
    BY DEF IInv, Typed, PollFails
  <2> QED
    BY <2>1, <2>2, <2>3 DEF IInv, Typed, rest, PollFails
<1>2. Lined'
  BY DEF IInv, Lined, rest, PollFails
<1>3. Awaited'
  BY DEF IInv, Awaited, rest, PollFails
<1>4. Owned'
  BY DEF IInv, Owned, Owns, rest, PollFails
<1>5. Slots'
  BY DEF IInv, Slots, rest, PollFails
<1>6. Covered'
  BY DEF IInv, Covered, Polling, Known, Answers, rest, PollFails
<1> QED
  BY <1>1, <1>2, <1>3, <1>4, <1>5, <1>6 DEF IInv

\* The queue follows the boundary; the renderer and the pair stay.
LEMMA PollNotifiedKeeps ==
  ASSUME IInv, PollNotified
  PROVE  IInv'
<1>1. Typed'
  <2>1. poll' \in PollStates
    BY DEF IInv, Typed, PollStates, PollNotified
  <2>2. q' \in Queue
    BY DEF IInv, Typed, Queue, Maybe, PollNotified, MovesOn
  <2>3. orch' \in Orchestrator
    BY DEF IInv, Typed, Orchestrator, Maybe, PollNotified, MovesOn, Triggered
  <2>4. dev'.tr # "stopped" => dev'.uri # None
    BY DEF IInv, Typed, PollNotified
  <2> QED
    BY <2>1, <2>2, <2>3, <2>4 DEF IInv, Typed, PollNotified
<1>2. Lined'
  BY DEF IInv, Lined, PollNotified
<1>3. Awaited'
  BY DEF IInv, Awaited, PollNotified, MovesOn, Triggered
<1>4. Owned'
  BY DEF IInv, Owned, Owns, PollNotified
<1>5. Slots'
  BY DEF IInv, Slots, PollNotified, MovesOn, Triggered
<1>6. Covered'
  BY DEF IInv, Covered, Polling, Known, Answers, PollNotified
<1> QED
  BY <1>1, <1>2, <1>3, <1>4, <1>5, <1>6 DEF IInv

\* A next that is not warm is not asked for.
LEMMA WarmFailsKeeps ==
  ASSUME IInv, WarmFails
  PROVE  IInv'
<1>1. Typed'
  <2>1. orch' \in Orchestrator
    BY DEF IInv, Typed, Orchestrator, Maybe, WarmFails
  <2>2. dev'.tr # "stopped" => dev'.uri # None
    BY DEF IInv, Typed, WarmFails, renderer
  <2> QED
    BY <2>1, <2>2 DEF IInv, Typed, WarmFails, renderer
<1>2. Lined'
  BY DEF IInv, Lined, WarmFails, renderer
<1>3. Awaited'
  BY DEF IInv, Awaited, WarmFails, renderer
<1>4. Owned'
  BY DEF IInv, Owned, Owns, WarmFails, renderer
<1>5. Slots'
  BY DEF IInv, Slots, WarmFails, renderer
<1>6. Covered'
  BY DEF IInv, Covered, Polling, Known, Answers, WarmFails, renderer
<1> QED
  BY <1>1, <1>2, <1>3, <1>4, <1>5, <1>6 DEF IInv

\* An edit reaches the renderer only through the reconcile.
LEMMA EditsQueueKeeps ==
  ASSUME IInv, EditsQueue
  PROVE  IInv'
<1>0. orch'.pc = orch.pc /\ orch'.nxt = orch.nxt /\ orch'.slot = orch.slot /\ orch'.outer = orch.outer
  BY DEF IInv, Typed, Orchestrator, EditsQueue, Triggered
<1>1. Typed'
  <2>1. q' \in Queue
    BY DEF IInv, Typed, Queue, Maybe, EditsQueue
  <2>2. orch' \in Orchestrator
    BY DEF IInv, Typed, Orchestrator, Maybe, EditsQueue, Triggered
  <2>3. dev'.tr # "stopped" => dev'.uri # None
    BY DEF IInv, Typed, Renderer, EditsQueue, Triggered, renderer
  <2> QED
    BY <2>1, <2>2, <2>3 DEF IInv, Typed, renderer, EditsQueue
<1>2. Lined'
  BY DEF IInv, Lined, EditsQueue, renderer
<1>3. Awaited'
  BY <1>0 DEF IInv, Awaited, EditsQueue, renderer
<1>4. Owned'
  BY DEF IInv, Owned, Owns, EditsQueue, renderer
<1>5. Slots'
  BY <1>0 DEF IInv, Slots, EditsQueue, renderer
<1>6. Covered'
  BY DEF IInv, Covered, Polling, Known, Answers, EditsQueue, renderer
<1> QED
  BY <1>1, <1>2, <1>3, <1>4, <1>5, <1>6 DEF IInv

\* A pause holds the transport and nothing else.
LEMMA PausedKeeps ==
  ASSUME IInv, Paused
  PROVE  IInv'
<1>1. Typed'
  <2>1. dev' \in Renderer
    BY DEF IInv, Typed, Renderer, Maybe, Paused, Pause
  <2>2. be' \in Backend
    BY DEF IInv, Typed, Backend, Maybe, Paused, Pause
  <2>3. dev'.tr # "stopped" => dev'.uri # None
    BY DEF IInv, Typed, Paused, Pause
  <2> QED
    BY <2>1, <2>2, <2>3 DEF IInv, Typed, Paused, Pause
<1>2. Lined'
  BY DEF IInv, Lined, Paused, Pause
<1>3. Awaited'
  BY DEF IInv, Awaited, Paused, Pause
<1>4. Owned'
  BY DEF IInv, Owned, Owns, Paused, Pause
<1>5. Slots'
  BY DEF IInv, Slots, Paused, Pause
<1>6. Covered'
  BY DEF IInv, Covered, Polling, Known, Answers, Paused, Pause
<1> QED
  BY <1>1, <1>2, <1>3, <1>4, <1>5, <1>6 DEF IInv

\* A resume lets it go on.
LEMMA ResumedKeeps ==
  ASSUME IInv, Resumed
  PROVE  IInv'
<1>1. Typed'
  <2>1. dev' \in Renderer
    BY DEF IInv, Typed, Renderer, Maybe, Resumed, Resume
  <2>2. be' \in Backend
    BY DEF IInv, Typed, Backend, Maybe, Resumed, Resume
  <2>3. dev'.tr # "stopped" => dev'.uri # None
    BY DEF IInv, Typed, Resumed, Resume
  <2> QED
    BY <2>1, <2>2, <2>3 DEF IInv, Typed, Resumed, Resume
<1>2. Lined'
  BY DEF IInv, Lined, Resumed, Resume
<1>3. Awaited'
  BY DEF IInv, Awaited, Resumed, Resume
<1>4. Owned'
  BY DEF IInv, Owned, Owns, Resumed, Resume
<1>5. Slots'
  BY DEF IInv, Slots, Resumed, Resume
<1>6. Covered'
  BY DEF IInv, Covered, Polling, Known, Answers, Resumed, Resume
<1> QED
  BY <1>1, <1>2, <1>3, <1>4, <1>5, <1>6 DEF IInv

\* play() ends with the current track at the renderer and no next.
LEMMA PlayEndsKeeps ==
  ASSUME IInv, PlayEnds
  PROVE  IInv'
<1>1. Typed'
  <2>1. dev' \in Renderer
    BY DEF IInv, Typed, Renderer, Maybe, PlayEnds, PlayReturns
  <2>2. be' \in Backend
    BY DEF IInv, Typed, Backend, Maybe, PlayEnds, PlayReturns
  <2>3. poll' \in PollStates
    BY DEF IInv, Typed, PollStates, PlayEnds, PlayReturns
  <2>4. play' \in Maybe
    BY DEF IInv, Typed, Maybe, PlayEnds
  <2>5. dev'.tr # "stopped" => dev'.uri # None
    BY DEF IInv, Typed, PlayEnds, PlayReturns
  <2> QED
    BY <2>1, <2>2, <2>3, <2>4, <2>5 DEF IInv, Typed, PlayEnds, PlayReturns
<1>2. Lined'
  BY DEF IInv, Lined, PlayEnds, PlayReturns
<1>3. Awaited'
  BY DEF IInv, Slots, Awaited, PlayEnds, PlayReturns
<1>4. Owned'
  BY DEF IInv, Owned, Owns, PlayEnds, PlayReturns
<1>5. Slots'
  BY DEF IInv, Slots, PlayEnds, PlayReturns
<1>6. Covered'
  BY DEF IInv, Covered, Polling, Known, Answers, PlayEnds, PlayReturns
<1> QED
  BY <1>1, <1>2, <1>3, <1>4, <1>5, <1>6 DEF IInv

\* What the renderer takes in place was asked for, and is known by its answer.
LEMMA ServesKeeps ==
  ASSUME IInv, Serves /\ UNCHANGED rest
  PROVE  IInv'
<1>a. /\ wire' \in Seq(Asked) /\ reply' \in [Callers -> Replies] /\ Lined'
      /\ wire # <<>> /\ Len(wire') = Len(wire) - 1
      /\ \A i \in DOMAIN wire' : i + 1 \in DOMAIN wire /\ wire'[i] = wire[i + 1]
      /\ \A d \in Callers \ {wire[1].by} : reply'[d] = reply[d]
      /\ wire[1].by # "nobody" => /\ reply'[wire[1].by].st \in {"ok", "failed"}
                                  /\ reply'[wire[1].by].url = wire[1].url
                                  /\ reply'[wire[1].by].st = "ok" =>
                                        dev'.next = wire[1].url \/ wire[1].url = None
      /\ dev'.next \in {dev.next, wire[1].url}
      /\ \A f \in DOMAIN dev \ {"next"} : dev'[f] = dev[f]
      /\ dev' \in Renderer
      /\ be' = be /\ poll' = poll
  BY RequestServed DEF IInv
<1>b. dev'.uri = dev.uri /\ dev'.tr = dev.tr /\ dev'.frozen = dev.frozen /\ dev'.seen = dev.seen
  BY <1>a DEF IInv, Typed, Renderer
<1>c. /\ Len(wire) \in Nat /\ Len(wire) # 0 /\ 1 \in DOMAIN wire /\ Len(wire) \in DOMAIN wire
      /\ DOMAIN wire = 1 .. Len(wire) /\ wire[1].by \in Callers \cup {"nobody"}
  BY <1>a, WireIs DEF IInv, Typed
<1>d. \A d \in Callers : d = wire[1].by => reply[d].st = "out" /\ reply[d].url = wire[1].url
  BY <1>c DEF IInv, Lined, Callers
<1>e. ~be.sent
  BY <1>a DEF IInv, Owned
<1>1. Typed'
  <2>1. dev' \in Renderer
    BY <1>a
  <2>2. wire' \in Seq(Asked)
    BY <1>a
  <2>3. reply' \in [Callers -> Replies]
    BY <1>a
  <2>4. dev'.tr # "stopped" => dev'.uri # None
    BY <1>a, <1>b DEF IInv, Typed
  <2> QED
    BY <2>1, <2>2, <2>3, <2>4 DEF IInv, Typed, rest, Serves
<1>2. Lined'
  BY <1>a
<1>3. Awaited'
  <2>0. ASSUME NEW d \in Callers
        PROVE  (reply[d].st = "none" => reply'[d].st = "none") /\ reply'[d].url = reply[d].url
    <3>1. CASE d = wire[1].by
      BY <1>a, <1>d, <3>1 DEF Callers
    <3>2. CASE d # wire[1].by
      BY <1>a, <3>2
    <3> QED
      BY <3>1, <3>2
  <2>1. \A d \in Callers : (reply[d].st = "none" => reply'[d].st = "none") /\ reply'[d].url = reply[d].url
    BY <2>0
  <2>2. \A d \in {"poll", "arm", "revoke", "outer"} :
           (reply[d].st = "none" => reply'[d].st = "none") /\ reply'[d].url = reply[d].url
    BY <2>1 DEF Callers
  <2> QED
    BY <1>a, <2>2 DEF IInv, Awaited, rest
<1>4. Owned'
  <2>1. ASSUME NEW c \in {"arm", "poll"}, Owns(c)
        PROVE  /\ reply'[c].url = be.armed /\ reply'[c].st # "none"
               /\ reply'[c].st = "out" => wire' # <<>> /\ wire'[Len(wire')].by = c /\ wire'[Len(wire')].url = be.armed
               /\ reply'[c].st # "out" => wire' = <<>>
               /\ reply'[c].st = "ok" => dev'.next \in {None, be.armed}
    <3>1. /\ reply[c].url = be.armed /\ reply[c].st # "none"
          /\ reply[c].st = "out" /\ wire[Len(wire)].by = c /\ wire[Len(wire)].url = be.armed
          /\ be.armed # None /\ c \in Callers /\ c # "nobody"
      BY <1>a, <2>1 DEF IInv, Owned, Owns, Callers
    <3>2. CASE wire[1].by = c
      <4>1. Len(wire) = 1
        BY <1>c, <3>1, <3>2 DEF IInv, Lined
      <4>2. wire' = <<>>
        BY <1>a, <4>1, EmptySeq
      <4> QED
        BY <1>a, <3>1, <3>2, <4>1, <4>2
    <3>3. CASE wire[1].by # c
      <4>1. Len(wire) # 1 /\ reply'[c] = reply[c]
        BY <1>a, <3>1, <3>3
      <4>2. Len(wire') \in DOMAIN wire' /\ Len(wire') + 1 = Len(wire)
        BY <1>a, <1>c, <4>1, LenProperties
      <4>3. wire' # <<>> /\ wire'[Len(wire')] = wire[Len(wire)]
        BY <1>a, <4>2
      <4> QED
        BY <3>1, <4>1, <4>3
    <3> QED
      BY <3>2, <3>3
  <2> QED
    BY <1>a, <1>e, <2>1 DEF IInv, Owned, Owns
<1>5. Slots'
  BY <1>a DEF IInv, Slots, rest
<1>6. Covered'
  <2>1. Polling /\ wire[1].by # "nobody" => Answers \cup {wire[1].url} \subseteq Answers'
    BY <1>a, <1>c, <1>d DEF Answers
  <2>2. Polling => wire[1].by # "nobody" /\ wire[1].url # be.cur
    BY <1>c DEF IInv, Covered
  <2> QED
    BY <1>a, <1>b, <1>e, <2>1, <2>2 DEF IInv, Covered, Polling, Known
<1> QED
  BY <1>1, <1>2, <1>3, <1>4, <1>5, <1>6 DEF IInv

\* A pass sends what was armed before, or looks, or has seen that the renderer
\* plays the current track.
LEMMA PollReadsKeeps ==
  ASSUME IInv, PollReads /\ UNCHANGED rest
  PROVE  IInv'
<1>a. /\ poll = "sleep" /\ play = None /\ be' \in Backend
      /\ be'.armed \in {None, be.armed} /\ be'.sent = be.sent /\ be'.sentUrl = be.sentUrl
      /\ be'.cur = be.cur /\ be'.stale = be.stale /\ be'.clk = be.clk /\ be'.forgot = be.forgot
      /\ \/ /\ be'.live = {"poll"} /\ be'.armed = be.armed /\ be.armed # None /\ be.armed # be.cur
            /\ be.sent = FALSE /\ Request("poll", be.armed) /\ poll' = "send" /\ dev' = dev
         \/ /\ \/ be'.live = be.live /\ be'.armed = be.armed
               \/ be'.live = {} /\ be.sent = FALSE
            /\ wire' = wire /\ reply' = reply
            /\ \/ poll' = "look" /\ dev' = dev
               \/ /\ poll' = "sleep" /\ dev' \in Renderer /\ dev'.next = dev.next /\ dev'.uri = dev.uri
                  /\ dev'.tr = dev.tr /\ dev'.frozen = dev.frozen
                  /\ dev'.seen = (dev.seen \/ (Quiet /\ dev.tr = "playing"))
                  /\ dev.tr = "playing" => be.sent = FALSE /\ be.stale = None
  <2> DEFINE read == [be EXCEPT !.stops = 0]
             first == dev.tr = "playing" /\ ~be.confirmed
             sure == [read EXCEPT !.confirmed = @ \/ first]
  <2>1. /\ sure.armed = be.armed /\ sure.sent = be.sent /\ sure.sentUrl = be.sentUrl /\ sure.cur = be.cur
        /\ sure.stale = be.stale /\ sure.clk = be.clk /\ sure.forgot = be.forgot /\ sure.live = be.live
        /\ sure \in Backend
    BY 0 \in 0 .. 1 DEF IInv, Typed, Backend, Maybe
  <2>2. poll = "sleep" /\ play = None /\ dev \in Renderer
    BY DEF IInv, Typed, Slots, PollReads
  <2>3. CASE first /\ Sendable(sure) /\ ~SameUrl(sure)
    <3>1. be' = [sure EXCEPT !.live = {"poll"}] /\ Request("poll", sure.armed) /\ poll' = "send" /\ dev' = dev
      BY <2>3 DEF PollReads
    <3> HIDE DEF sure
    <3>2. [sure EXCEPT !.live = {"poll"}] \in Backend
      BY <2>1 DEF Backend, Callers
    <3> QED
      BY <2>1, <2>2, <2>3, <3>1, <3>2 DEF Sendable, SameUrl, Backend
  <2>4. CASE ~(first /\ Sendable(sure) /\ ~SameUrl(sure))
    <3>1. /\ be' = IF first /\ Sendable(sure) THEN WithoutArm(sure) ELSE sure
          /\ wire' = wire /\ reply' = reply
          /\ \/ poll' = "look" /\ dev' = dev
             \/ /\ poll' = "sleep" /\ dev' = [dev EXCEPT !.seen = @ \/ (Quiet /\ dev.tr = "playing")]
                /\ dev.tr = "playing" => ~Watching(be')
      BY <2>4 DEF PollReads, NoRequest
    <3> HIDE DEF sure, first
    <3>2. /\ be'.armed \in {None, be.armed} /\ be'.sent = be.sent /\ be'.sentUrl = be.sentUrl
          /\ be'.cur = be.cur /\ be'.stale = be.stale /\ be'.clk = be.clk /\ be'.forgot = be.forgot
          /\ \/ be'.live = be.live /\ be'.armed = be.armed
             \/ be'.live = {} /\ be.sent = FALSE
          /\ be' \in Backend
      <4>1. WithoutArm(sure) \in Backend
        BY <2>1, <2>2, BackendsTyped
      <4> QED
        BY <2>1, <3>1, <4>1, SMTT(30) DEF WithoutArm, Sendable, Backend
    <3>3. dev' = [dev EXCEPT !.seen = @ \/ (Quiet /\ dev.tr = "playing")] =>
              /\ dev' \in Renderer /\ dev'.next = dev.next /\ dev'.uri = dev.uri
              /\ dev'.tr = dev.tr /\ dev'.frozen = dev.frozen
              /\ dev'.seen = (dev.seen \/ (Quiet /\ dev.tr = "playing"))
      BY <2>2 DEF Renderer
    <3>4. be.sent \in BOOLEAN
      BY DEF IInv, Typed, Backend
    <3> QED
      BY <2>2, <3>1, <3>2, <3>3, <3>4 DEF Watching
  <2> QED
    BY <2>3, <2>4
<1>c. /\ reply["poll"].st = "none" /\ be.armed \in Maybe /\ "poll" \in Callers
      /\ reply' # reply => Request("poll", be.armed)
      /\ Request("poll", be.armed) =>
            /\ wire' \in Seq(Asked) /\ reply' \in [Callers -> Replies] /\ Lined'
            /\ reply'["poll"].st = "out" /\ reply'["poll"].url = be.armed
            /\ \A d \in Callers \ {"poll"} : reply'[d] = reply[d]
            /\ wire' # <<>> /\ wire'[Len(wire')].by = "poll" /\ wire'[Len(wire')].url = be.armed
            /\ \A i \in DOMAIN wire' : \/ wire'[i].by = "poll" /\ wire'[i].url = be.armed
                                       \/ i \in DOMAIN wire /\ wire'[i] = wire[i]
            /\ Answers' = Answers
  <2>1. reply["poll"].st = "none" /\ be.armed \in Maybe /\ "poll" \in Callers
    BY <1>a DEF IInv, Typed, Awaited, Backend, Callers
  <2> QED
    BY <1>a, <2>1, RequestMade DEF IInv
<1>d. wire' = wire /\ reply' = reply => Answers' = Answers
  BY DEF Answers
<1>1. Typed'
  <2>1. dev' \in Renderer
    BY <1>a DEF IInv, Typed
  <2>2. be' \in Backend
    BY <1>a
  <2>3. poll' \in PollStates
    BY <1>a DEF PollStates
  <2>4. wire' \in Seq(Asked)
    BY <1>a, <1>c DEF IInv, Typed
  <2>5. reply' \in [Callers -> Replies]
    BY <1>a, <1>c DEF IInv, Typed
  <2>6. dev'.tr # "stopped" => dev'.uri # None
    BY <1>a DEF IInv, Typed
  <2> QED
    BY <2>1, <2>2, <2>3, <2>4, <2>5, <2>6 DEF IInv, Typed, rest, PollReads
<1>2. Lined'
  BY <1>a, <1>c DEF IInv, Lined
<1>3. Awaited'
  BY <1>a, <1>c DEF IInv, Awaited, Callers, rest
<1>4. Owned'
  <2>1. CASE /\ Request("poll", be.armed) /\ be'.live = {"poll"}
             /\ be'.armed = be.armed /\ be.armed # None /\ be.sent = FALSE
    BY <1>a, <1>c, <2>1 DEF Owned, Owns
  <2>2. CASE wire' = wire /\ reply' = reply /\ be'.live = be.live /\ be'.armed = be.armed /\ poll' # "send"
    BY <1>a, <2>2, OwnedKept DEF IInv
  <2>3. CASE be'.live = {} /\ be.sent = FALSE
    BY <1>a, <2>3, NothingOwned
  <2> QED
    BY <1>a, <2>1, <2>2, <2>3
<1>5. Slots'
  BY <1>a, SlotsKept DEF IInv, Slots, rest
<1>6. Covered'
  <2>1. dev'.next = dev.next /\ dev'.uri = dev.uri /\ dev'.tr = dev.tr /\ dev'.frozen = dev.frozen
    BY <1>a
  <2>2. Answers' = Answers /\ Known' = Known
    BY <1>a, <1>c, <1>d DEF Known
  <2>3. Quiet => Answers = {}
    BY DEF Quiet, Answers
  <2>4. /\ be.cur # None
        /\ \A i \in DOMAIN wire : wire[i].by # "nobody" /\ wire[i].url # be.cur
        /\ be.clk = "past" => dev.next # be.cur /\ (dev.frozen \/ dev.uri # be.cur)
        /\ be.forgot \/ be.sent \/ dev.next \in Known
        /\ be.forgot \/ be.sent \/ dev.frozen \/ dev.uri \in Known
        /\ be.forgot \/ dev.frozen \/ dev.tr = "stopped" \/ ~dev.seen \/ dev.uri = be.cur
    BY <1>a DEF IInv, Covered, Polling
  <2>5. \A i \in DOMAIN wire' : wire'[i].by # "nobody" /\ wire'[i].url # be.cur
    BY <1>a, <1>c, <2>4
  <2>6. be.forgot \/ dev.frozen \/ dev.tr = "stopped" \/ ~dev'.seen \/ dev.uri = be.cur
    BY <1>a, <2>3, <2>4 DEF IInv, Typed, Known
  <2> QED
    BY <1>a, <2>1, <2>2, <2>4, <2>5, <2>6 DEF Covered
<1> QED
  BY <1>1, <1>2, <1>3, <1>4, <1>5, <1>6 DEF IInv

\* The send of the first PLAYING pass returns.
LEMMA PollSentKeeps ==
  ASSUME IInv, PollSent /\ UNCHANGED rest
  PROVE  IInv'
<1>a. /\ be' \in Backend /\ reply' \in [Callers -> Replies] /\ Lined' /\ Owned' /\ Covered'
      /\ reply'["poll"].st = "none" /\ \A d \in Callers \ {"poll"} : reply'[d] = reply[d]
      /\ be'.armed \in {None, be.armed} /\ be'.confirmed = be.confirmed
      /\ play # None => be'.sent = FALSE /\ be'.live = {}
  BY AnswerKept DEF PollSent
<1>1. Typed'
  <2>1. be' \in Backend
    BY <1>a
  <2>2. poll' \in PollStates
    BY DEF PollSent, PollStates
  <2>3. reply' \in [Callers -> Replies]
    BY <1>a
  <2>4. dev'.tr # "stopped" => dev'.uri # None
    BY DEF IInv, Typed, PollSent
  <2> QED
    BY <2>1, <2>2, <2>3, <2>4 DEF IInv, Typed, rest, PollSent
<1>2. Lined'
  BY <1>a
<1>3. Awaited'
  BY <1>a DEF IInv, Awaited, Callers, rest, PollSent
<1>4. Owned'
  BY <1>a
<1>5. Slots'
  BY <1>a, SlotsKept DEF IInv, Slots, rest, PollSent
<1>6. Covered'
  BY <1>a
<1> QED
  BY <1>1, <1>2, <1>3, <1>4, <1>5, <1>6 DEF IInv

\* arm_next returns: the slot is set whatever came of the request.
LEMMA EvalArmedKeeps ==
  ASSUME IInv, EvalArmed
  PROVE  IInv'
<1>a. /\ be' \in Backend /\ reply' \in [Callers -> Replies] /\ Lined' /\ Owned' /\ Covered'
      /\ reply'["arm"].st = "none" /\ \A d \in Callers \ {"arm"} : reply'[d] = reply[d]
      /\ be'.armed \in {None, be.armed} /\ be'.confirmed = be.confirmed
      /\ play # None => be'.sent = FALSE /\ be'.live = {}
  BY AnswerKept DEF EvalArmed
<1>b. /\ orch.pc = "arming" /\ orch'.pc = "idle" /\ orch'.slot = orch.nxt
      /\ orch'.nxt = orch.nxt /\ orch'.outer = orch.outer
  BY DEF IInv, Typed, Orchestrator, EvalArmed
<1>1. Typed'
  <2>1. be' \in Backend
    BY <1>a
  <2>2. reply' \in [Callers -> Replies]
    BY <1>a
  <2>3. orch' \in Orchestrator
    BY DEF IInv, Typed, Orchestrator, Maybe, EvalArmed
  <2>4. dev'.tr # "stopped" => dev'.uri # None
    BY DEF IInv, Typed, EvalArmed
  <2> QED
    BY <2>1, <2>2, <2>3, <2>4 DEF IInv, Typed, EvalArmed
<1>2. Lined'
  BY <1>a
<1>3. Awaited'
  BY <1>a, <1>b DEF IInv, Awaited, Callers, EvalArmed
<1>4. Owned'
  BY <1>a
<1>5. Slots'
  BY <1>a, <1>b DEF IInv, Slots, EvalArmed
<1>6. Covered'
  BY <1>a
<1> QED
  BY <1>1, <1>2, <1>3, <1>4, <1>5, <1>6 DEF IInv

\* The reconcile revokes what no longer matches.
LEMMA EvalStartsKeeps ==
  ASSUME IInv, EvalStarts
  PROVE  IInv'
<1> DEFINE o == [orch EXCEPT !.dirty = FALSE, !.want = ArmWanted,
                            !.nxt = IF WantNext THEN q.nxt ELSE None]
<1>0. /\ o \in Orchestrator /\ o.slot = orch.slot /\ o.outer = orch.outer /\ o.pc = orch.pc
      /\ orch.pc = "idle" /\ orch \in Orchestrator
  <2>1. ArmWanted \in BOOLEAN /\ q.nxt \in Maybe
    BY DEF ArmWanted, WantNext, IInv, Typed, Queue
  <2> QED
    BY <2>1 DEF IInv, Typed, Orchestrator, Maybe, EvalStarts
<1>1a. EvalStarts =>
        \/ Revoke("revoke") /\ orch' = IF be.sent THEN [Emptied(o) EXCEPT !.pc = "revoking"]
                                                 ELSE Onwards(Emptied(o))
        \/ be' = be /\ wire' = wire /\ reply' = reply /\ orch' = Onwards(o)
  BY DEF EvalStarts, NoRequest
<1> HIDE DEF o
<1>a. /\ orch' \in Orchestrator /\ orch'.outer = orch.outer /\ orch'.pc # "arming"
      /\ orch'.pc = "warming" => orch'.nxt # None
      /\ \/ Revoke("revoke") /\ (be.sent => orch'.pc = "revoking")
         \/ be' = be /\ wire' = wire /\ reply' = reply /\ orch'.slot = orch.slot
  <2>1. CASE Revoke("revoke") /\ orch' = IF be.sent THEN [Emptied(o) EXCEPT !.pc = "revoking"]
                                                   ELSE Onwards(Emptied(o))
    <3>1. Emptied(o) \in Orchestrator
      BY <1>0, OthersTyped DEF IInv, Typed
    <3>2. Onwards(Emptied(o)) \in Orchestrator
      BY <3>1, OthersTyped DEF IInv, Typed
    <3>3. Emptied(o).outer = o.outer
      BY <1>0 DEF Emptied, Orchestrator
    <3> QED
      BY <2>1, <3>1, <3>2, <3>3, <1>0 DEF Onwards, Orchestrator
  <2>2. CASE be' = be /\ wire' = wire /\ reply' = reply /\ orch' = Onwards(o)
    <3>1. Onwards(o) \in Orchestrator
      BY <1>0, OthersTyped DEF IInv, Typed
    <3> QED
      BY <2>2, <3>1, <1>0 DEF Onwards, Orchestrator
  <2> QED
    BY <1>1a, <2>1, <2>2
<1>b. /\ be' \in Backend /\ wire' \in Seq(Asked) /\ reply' \in [Callers -> Replies]
      /\ Lined' /\ Owned' /\ Covered'
      /\ orch'.pc # "revoking" => reply'["revoke"].st = "none"
      /\ reply'["revoke"].url = None /\ \A d \in Callers \ {"revoke"} : reply'[d] = reply[d]
      /\ \/ be'.armed = None /\ be'.sent = FALSE /\ be'.live = {} /\ be'.confirmed = be.confirmed
         \/ be' = be /\ orch'.slot = orch.slot
  <2>1. reply["revoke"].st = "none" /\ reply["revoke"].url = None /\ dev' = dev /\ poll' = poll
    BY <1>0 DEF IInv, Awaited, EvalStarts
  <2>2. CASE Revoke("revoke") /\ (be.sent => orch'.pc = "revoking")
    BY <2>1, <2>2, RevokeKept
  <2>3. CASE be' = be /\ wire' = wire /\ reply' = reply /\ orch'.slot = orch.slot
    <3>1. Owned'
      BY <2>1, <2>3, OwnedKept DEF IInv
    <3> QED
      BY <2>1, <2>3, <3>1 DEF IInv, Typed, Lined, Covered, Polling, Known, Answers
  <2> QED
    BY <1>a, <2>2, <2>3
<1>1. Typed'
  <2>1. be' \in Backend
    BY <1>b
  <2>2. wire' \in Seq(Asked)
    BY <1>b
  <2>3. reply' \in [Callers -> Replies]
    BY <1>b
  <2>4. orch' \in Orchestrator
    BY <1>a
  <2>5. dev'.tr # "stopped" => dev'.uri # None
    BY DEF IInv, Typed, EvalStarts
  <2> QED
    BY <2>1, <2>2, <2>3, <2>4, <2>5 DEF IInv, Typed, EvalStarts
<1>2. Lined'
  BY <1>b
<1>3. Awaited'
  BY <1>0, <1>a, <1>b DEF IInv, Awaited, Callers, EvalStarts
<1>4. Owned'
  BY <1>b
<1>5. Slots'
  BY <1>0, <1>a, <1>b DEF IInv, Slots, EvalStarts
<1>6. Covered'
  BY <1>b
<1> QED
  BY <1>1, <1>2, <1>3, <1>4, <1>5, <1>6 DEF IInv

\* The reconcile goes on behind its revoke.
LEMMA EvalRevokedKeeps ==
  ASSUME IInv, EvalRevoked
  PROVE  IInv'
<1>a. /\ reply' \in [Callers -> Replies] /\ Lined' /\ Owned' /\ Covered'
      /\ reply'["revoke"] = NoReply /\ \A d \in Callers \ {"revoke"} : reply'[d] = reply[d]
  BY RevokeSettled DEF EvalRevoked
<1>b. /\ orch' \in Orchestrator /\ orch'.outer = orch.outer /\ orch'.slot = orch.slot
      /\ orch'.pc \in {"idle", "warming"} /\ orch.pc = "revoking"
      /\ orch'.pc = "warming" => orch'.nxt # None
  BY OthersTyped DEF IInv, Typed, Orchestrator, Onwards, EvalRevoked
<1>1. Typed'
  <2>1. reply' \in [Callers -> Replies]
    BY <1>a
  <2>2. orch' \in Orchestrator
    BY <1>b
  <2>3. dev'.tr # "stopped" => dev'.uri # None
    BY DEF IInv, Typed, EvalRevoked
  <2> QED
    BY <2>1, <2>2, <2>3 DEF IInv, Typed, EvalRevoked
<1>2. Lined'
  BY <1>a
<1>3. Awaited'
  BY <1>a, <1>b DEF IInv, Awaited, Callers, NoReply, EvalRevoked
<1>4. Owned'
  BY <1>a
<1>5. Slots'
  BY <1>b DEF IInv, Slots, EvalRevoked
<1>6. Covered'
  BY <1>a
<1> QED
  BY <1>1, <1>2, <1>3, <1>4, <1>5, <1>6 DEF IInv

\* The revoke of a removal returns.
LEMMA RevokedElsewhereKeeps ==
  ASSUME IInv, RevokedElsewhere
  PROVE  IInv'
<1>a. /\ reply' \in [Callers -> Replies] /\ Lined' /\ Owned' /\ Covered'
      /\ reply'["outer"] = NoReply /\ \A d \in Callers \ {"outer"} : reply'[d] = reply[d]
  BY RevokeSettled DEF RevokedElsewhere
<1>b. /\ orch' \in Orchestrator /\ orch'.outer = FALSE /\ orch'.slot = orch.slot
      /\ orch'.pc = orch.pc /\ orch'.nxt = orch.nxt
  BY DEF IInv, Typed, Orchestrator, RevokedElsewhere
<1>1. Typed'
  <2>1. reply' \in [Callers -> Replies]
    BY <1>a
  <2>2. q' \in Queue
    BY DEF IInv, Typed, Queue, Maybe, RevokedElsewhere
  <2>3. orch' \in Orchestrator
    BY <1>b
  <2>4. dev'.tr # "stopped" => dev'.uri # None
    BY DEF IInv, Typed, RevokedElsewhere
  <2> QED
    BY <2>1, <2>2, <2>3, <2>4 DEF IInv, Typed, RevokedElsewhere
<1>2. Lined'
  BY <1>a
<1>3. Awaited'
  BY <1>a, <1>b DEF IInv, Awaited, Callers, NoReply, RevokedElsewhere
<1>4. Owned'
  BY <1>a
<1>5. Slots'
  BY <1>b DEF IInv, Slots, RevokedElsewhere
<1>6. Covered'
  BY <1>a
<1> QED
  BY <1>1, <1>2, <1>3, <1>4, <1>5, <1>6 DEF IInv

\* A removal takes the slot and revokes it.
LEMMA RevokesElsewhereKeeps ==
  ASSUME IInv, RevokesElsewhere
  PROVE  IInv'
<1>a. /\ be' \in Backend /\ wire' \in Seq(Asked) /\ reply' \in [Callers -> Replies]
      /\ Lined' /\ Owned' /\ Covered'
      /\ be'.armed = None /\ be'.sent = FALSE /\ be'.live = {} /\ be'.confirmed = be.confirmed
      /\ ~be.sent => reply' = reply
      /\ reply'["outer"].url = None /\ \A d \in Callers \ {"outer"} : reply'[d] = reply[d]
  <2>1. reply["outer"].st = "none"
    BY DEF IInv, Awaited, RevokesElsewhere
  <2> QED
    BY <2>1, RevokeKept DEF RevokesElsewhere
<1>b. /\ orch' \in Orchestrator /\ orch'.outer = (be.sent = TRUE)
      /\ orch'.pc = orch.pc /\ orch'.nxt = orch.nxt /\ orch.outer = FALSE
  <2>1. /\ orch \in Orchestrator /\ None \in Maybe /\ be.sent \in BOOLEAN /\ orch.outer = FALSE
        /\ orch' = IF be.sent THEN [Emptied(orch) EXCEPT !.outer = TRUE] ELSE Triggered(Emptied(orch))
    BY DEF IInv, Typed, Orchestrator, Backend, Maybe, RevokesElsewhere
  <2>2. orch' \in Orchestrator
    BY <2>1, OrchestratorWith DEF Emptied, Triggered
  <2>3. DOMAIN orch = {"slot", "pc", "nxt", "want", "dirty", "stale", "outer"}
    BY <2>1, OrchestratorWith
  <2>4. /\ orch'.pc = orch.pc /\ orch'.nxt = orch.nxt
        /\ orch'.outer = IF be.sent THEN TRUE ELSE orch.outer
    BY <2>1, <2>3 DEF Emptied, Triggered
  <2> QED
    BY <2>1, <2>2, <2>4
<1>1. Typed'
  <2>1. be' \in Backend
    BY <1>a
  <2>2. wire' \in Seq(Asked)
    BY <1>a
  <2>3. reply' \in [Callers -> Replies]
    BY <1>a
  <2>4. q' \in Queue
    BY DEF IInv, Typed, Queue, Maybe, RevokesElsewhere
  <2>5. orch' \in Orchestrator
    BY <1>b
  <2>6. dev'.tr # "stopped" => dev'.uri # None
    BY DEF IInv, Typed, RevokesElsewhere
  <2> QED
    BY <2>1, <2>2, <2>3, <2>4, <2>5, <2>6 DEF IInv, Typed, RevokesElsewhere
<1>2. Lined'
  BY <1>a
<1>3. Awaited'
  <2>1. {"poll", "arm", "revoke"} \subseteq Callers \ {"outer"}
    BY DEF Callers
  <2>2. reply'["poll"] = reply["poll"] /\ reply'["arm"] = reply["arm"] /\ reply'["revoke"] = reply["revoke"]
    BY <1>a, <2>1
  <2>3. poll' = poll
    BY DEF RevokesElsewhere
  <2>4. ~orch'.outer => reply'["outer"] = reply["outer"]
    BY <1>a, <1>b DEF IInv, Typed, Backend
  <2> QED
    BY <1>a, <1>b, <2>2, <2>3, <2>4 DEF IInv, Awaited
<1>4. Owned'
  BY <1>a
<1>5. Slots'
  BY <1>a, <1>b DEF IInv, Slots, RevokesElsewhere
<1>6. Covered'
  BY <1>a
<1> QED
  BY <1>1, <1>2, <1>3, <1>4, <1>5, <1>6 DEF IInv

\* The reconcile arms into an empty slot, so nothing delivered is forgotten.
LEMMA EvalWarmedKeeps ==
  ASSUME IInv, EvalWarmed
  PROVE  IInv'
<1>0. /\ be \in Backend /\ orch.pc = "warming" /\ orch.nxt # None /\ orch.nxt \in Maybe /\ dev' = dev /\ poll' = poll
      /\ reply["arm"].st = "none" /\ "arm" \in Callers /\ orch \in Orchestrator
  BY DEF IInv, Typed, Slots, Awaited, Orchestrator, EvalWarmed, Callers
<1>a. /\ orch' \in Orchestrator /\ orch'.outer = orch.outer /\ orch'.nxt = orch.nxt
      /\ \/ /\ orch.slot = None /\ Arm(orch.nxt)
            /\ IF wire' # wire THEN orch'.pc = "arming" ELSE orch'.pc = "idle" /\ orch'.slot = orch.nxt
         \/ be' = be /\ wire' = wire /\ reply' = reply /\ orch'.pc = "idle" /\ orch'.slot = orch.slot
  BY <1>0 DEF EvalWarmed, NoRequest, Orchestrator
<1>b. /\ be' \in Backend /\ wire' \in Seq(Asked) /\ reply' \in [Callers -> Replies]
      /\ Lined' /\ Owned' /\ Covered'
      /\ wire' = wire => reply' = reply
      /\ \A d \in Callers \ {"arm"} : reply'[d] = reply[d]
      /\ play # None => be'.sent = FALSE /\ be'.live = {} /\ be'.confirmed = be.confirmed
  <2>1. CASE be' = be /\ wire' = wire /\ reply' = reply
    <3>1. Owned'
      BY <1>0, <2>1, OwnedKept DEF IInv
    <3> QED
      BY <1>0, <2>1, <3>1 DEF IInv, Typed, Lined, Slots, Covered, Polling, Known, Answers
  <2>2. CASE orch.slot = None /\ Arm(orch.nxt)
    <3>1. be.armed = None /\ be.sent = FALSE
      BY <1>0, <2>2 DEF IInv, Slots, Owned, Backend
    <3>2. CASE be' = be /\ NoRequest
      BY <2>1, <3>2 DEF NoRequest
    <3>3. CASE NoRequest /\ (be' = WithoutArm(be) \/ be' = Armed(orch.nxt))
      <4>1. /\ be' \in Backend /\ be'.live = {} /\ be'.sent = FALSE /\ be'.confirmed = be.confirmed
            /\ be'.cur = be.cur /\ be'.clk = be.clk /\ be'.stale = be.stale /\ be'.forgot = be.forgot
        <5>1. CASE be' = WithoutArm(be)
          <6>1. WithoutArm(be) \in Backend
            BY <1>0, BackendsTyped DEF IInv, Typed
          <6> QED
            BY <1>0, <3>1, <5>1, <6>1, SMTT(30) DEF WithoutArm, Backend
        <5>2. CASE be' = Armed(orch.nxt)
          BY <1>0, <3>1, <5>2 DEF Armed, Backend
        <5> QED
          BY <3>3, <5>1, <5>2
      <4>2. Owned'
        BY <4>1, NothingOwned
      <4>3. wire' = wire /\ reply' = reply
        BY <3>3 DEF NoRequest
      <4> QED
        BY <1>0, <3>1, <4>1, <4>2, <4>3 DEF IInv, Typed, Lined, Covered, Polling, Known, Answers
    <3>4. CASE /\ be.confirmed /\ orch.nxt # be.cur
               /\ be' = [Armed(orch.nxt) EXCEPT !.live = {"arm"}] /\ Request("arm", orch.nxt)
      <4>1. /\ be' \in Backend /\ be'.live = {"arm"} /\ be'.sent = FALSE /\ be'.armed = orch.nxt
            /\ be'.cur = be.cur /\ be'.clk = be.clk /\ be'.stale = be.stale /\ be'.forgot = be.forgot
        BY <1>0, <3>4 DEF Armed, Backend, Callers
      <4>2. /\ wire' \in Seq(Asked) /\ reply' \in [Callers -> Replies] /\ Lined'
            /\ reply'["arm"].st = "out" /\ reply'["arm"].url = orch.nxt
            /\ \A d \in Callers \ {"arm"} : reply'[d] = reply[d]
            /\ wire' # wire
            /\ wire' # <<>> /\ wire'[Len(wire')].by = "arm" /\ wire'[Len(wire')].url = orch.nxt
            /\ \A i \in DOMAIN wire' : \/ wire'[i].by = "arm" /\ wire'[i].url = orch.nxt
                                       \/ i \in DOMAIN wire /\ wire'[i] = wire[i]
            /\ Answers' = Answers
        BY <1>0, <3>4, RequestMade, RequestSeen DEF IInv, Typed
      <4>3. Owned'
        BY <1>0, <4>1, <4>2 DEF Owned, Owns
      <4>4. Covered'
        BY <1>0, <3>1, <3>4, <4>1, <4>2 DEF IInv, Covered, Polling, Known
      <4>5. play = None
        BY <3>4 DEF IInv, Slots
      <4> QED
        BY <4>1, <4>2, <4>3, <4>4, <4>5
    <3> QED
      BY <2>2, <3>2, <3>3, <3>4 DEF Arm
  <2> QED
    BY <1>a, <2>1, <2>2
<1>1. Typed'
  <2>1. be' \in Backend
    BY <1>b
  <2>2. wire' \in Seq(Asked)
    BY <1>b
  <2>3. reply' \in [Callers -> Replies]
    BY <1>b
  <2>4. orch' \in Orchestrator
    BY <1>a
  <2>5. dev'.tr # "stopped" => dev'.uri # None
    BY DEF IInv, Typed, EvalWarmed
  <2> QED
    BY <2>1, <2>2, <2>3, <2>4, <2>5 DEF IInv, Typed, EvalWarmed
<1>2. Lined'
  BY <1>b
<1>3. Awaited'
  BY <1>0, <1>a, <1>b DEF IInv, Awaited, Callers, EvalWarmed
<1>4. Owned'
  BY <1>b
<1>5. Slots'
  <2>1. CASE orch'.pc = "idle" /\ orch'.slot = orch.slot /\ be' = be
    BY <1>0, <1>a, <1>b, <2>1 DEF IInv, Slots, EvalWarmed
  <2>2. CASE orch'.pc = "arming" \/ (orch'.pc = "idle" /\ orch'.slot = orch.nxt)
    BY <1>0, <1>a, <1>b, <2>2 DEF IInv, Slots, EvalWarmed
  <2> QED
    BY <1>a, <2>1, <2>2
<1>6. Covered'
  BY <1>b
<1> QED
  BY <1>1, <1>2, <1>3, <1>4, <1>5, <1>6 DEF IInv

\* A stop cancels the poll; a request of it stays on the wire, owned by nobody.
LEMMA StopsPlaybackKeeps ==
  ASSUME IInv, StopsPlayback
  PROVE  IInv'
<1>a. /\ be' \in Backend /\ be'.armed = be.armed /\ be'.sent = be.sent /\ be'.sentUrl = be.sentUrl
      /\ be'.live = be.live /\ be'.confirmed = be.confirmed
  BY 0 \in 0 .. 1 DEF IInv, Typed, Backend, StopsPlayback, Stop
<1>b. /\ wire' \in Seq(Asked) /\ reply' \in [Callers -> Replies] /\ Lined' /\ poll' = "none"
      /\ reply'["poll"].st = "none" /\ \A d \in Callers \ {"poll"} : reply'[d] = reply[d]
      /\ Len(wire') = Len(wire) /\ DOMAIN wire' = DOMAIN wire
      /\ \A i \in DOMAIN wire : /\ wire'[i].url = wire[i].url
                                /\ wire[i].by # "poll" => wire'[i].by = wire[i].by
  BY PollCancelled DEF IInv, StopsPlayback, Stop, CancelPoll
<1>c. /\ orch' \in Orchestrator /\ orch'.pc = orch.pc /\ orch'.nxt = orch.nxt
      /\ orch'.slot = orch.slot /\ orch'.outer = orch.outer
      /\ dev'.next = dev.next /\ play' = play /\ play = None
  BY DEF IInv, Typed, Renderer, Orchestrator, StopsPlayback, Stop, Halted, Triggered
<1>1. Typed'
  <2>1. dev' \in Renderer
    BY OthersTyped DEF IInv, Typed, StopsPlayback, Stop
  <2>2. be' \in Backend
    BY <1>a
  <2>3. poll' \in PollStates
    BY <1>b DEF PollStates
  <2>4. wire' \in Seq(Asked)
    BY <1>b
  <2>5. reply' \in [Callers -> Replies]
    BY <1>b
  <2>6. q' \in Queue
    BY DEF IInv, Typed, Queue, Maybe, StopsPlayback
  <2>7. orch' \in Orchestrator
    BY <1>c
  <2>8. dev'.tr # "stopped" => dev'.uri # None
    BY DEF IInv, Typed, Renderer, StopsPlayback, Stop, Halted
  <2> QED
    BY <2>1, <2>2, <2>3, <2>4, <2>5, <2>6, <2>7, <2>8 DEF IInv, Typed, StopsPlayback
<1>2. Lined'
  BY <1>b
<1>3. Awaited'
  BY <1>b, <1>c DEF IInv, Awaited, Callers
<1>4. Owned'
  <2>1. (wire' = <<>>) = (wire = <<>>)
    <3>1. /\ (wire = <<>>) = (Len(wire) = 0)
          /\ (wire' = <<>>) = (Len(wire') = 0)
      BY <1>b, EmptySeq DEF IInv, Typed
    <3> QED
      BY <1>b, <3>1
  <2>2. ASSUME NEW c \in {"arm", "poll"}, Owns(c)'
        PROVE  c = "arm" /\ Owns("arm") /\ reply'[c] = reply[c]
    BY <1>a, <1>b, <2>2 DEF Owns, Callers
  <2>3. wire # <<>> => Len(wire) \in DOMAIN wire
    BY WireIs DEF IInv, Typed
  <2>4. Owns("arm") => /\ reply["arm"].url = be.armed /\ reply["arm"].st # "none"
                       /\ reply["arm"].st = "out" =>
                            wire # <<>> /\ wire[Len(wire)].by = "arm" /\ wire[Len(wire)].url = be.armed
                       /\ reply["arm"].st # "out" => wire = <<>>
                       /\ reply["arm"].st = "ok" => dev.next \in {None, be.armed}
    BY DEF IInv, Owned
  <2>5. Owns("arm") => /\ reply["arm"].st = "out" =>
                            wire' # <<>> /\ wire'[Len(wire')].by = "arm" /\ wire'[Len(wire')].url = be.armed
                       /\ reply["arm"].st # "out" => wire' = <<>>
    BY <1>b, <2>1, <2>3, <2>4
  <2>6. /\ be.live \in {{}, {"arm"}, {"poll"}}
        /\ be.live # {} => be.armed # None /\ ~be.sent
        /\ be.sent => /\ wire = <<>> /\ be.armed # None /\ be.sentUrl = be.armed
                      /\ dev.next \in {None, be.armed}
    BY DEF IInv, Owned
  <2> QED
    BY <1>a, <1>c, <2>1, <2>2, <2>4, <2>5, <2>6 DEF Owned
<1>5. Slots'
  BY <1>a, <1>b, <1>c DEF IInv, Slots
<1>6. Covered'
  BY <1>b DEF Covered, Polling
<1> QED
  BY <1>1, <1>2, <1>3, <1>4, <1>5, <1>6 DEF IInv

-----------------------------------------------------------------------------
(* The specification *)

\* The dispatch of t keeps the invariant.
LEMMA DispatchKeeps ==
  ASSUME IInv, NEW t \in Maybe, Dispatches(t)
  PROVE  IInv'
<1>1. q' \in Queue
  BY DEF IInv, Typed, Queue, Maybe, Dispatches, MovesOn
<1>2. /\ orch' \in Orchestrator /\ orch'.pc = orch.pc /\ orch'.nxt = orch.nxt
      /\ orch'.slot = orch.slot /\ orch'.outer = orch.outer
  BY DEF IInv, Typed, Orchestrator, Dispatches, Triggered
<1>3. PlayStarts /\ play' = t
  BY DEF Dispatches
<1> QED
  BY <1>1, <1>2, <1>3, PlayStartsKeeps

\* The poll's advance dispatches the next, or finds nothing and ends.
LEMMA PollAdvancesKeeps ==
  ASSUME IInv, PollAdvances
  PROVE  IInv'
<1>1. CASE q.nxt = None
  <2>1. /\ poll = "advance" /\ poll' = "none" /\ MovesOn(None) /\ orch' = Triggered(orch)
        /\ UNCHANGED <<dev, be, wire, reply, play>>
    BY <1>1 DEF PollAdvances
  <2>2. q' \in Queue
    BY <2>1 DEF IInv, Typed, Queue, Maybe, MovesOn
  <2>3. /\ orch' \in Orchestrator /\ orch'.pc = orch.pc /\ orch'.nxt = orch.nxt
        /\ orch'.slot = orch.slot /\ orch'.outer = orch.outer
    BY <2>1 DEF IInv, Typed, Orchestrator, Triggered
  <2>4. Typed'
    BY <2>1, <2>2, <2>3 DEF IInv, Typed, PollStates
  <2>5. Lined' /\ Awaited'
    BY <2>1, <2>3 DEF IInv, Lined, Awaited
  <2>6. Owned'
    BY <2>1, OwnedKept DEF IInv
  <2>7. Slots' /\ Covered'
    BY <2>1, <2>3 DEF IInv, Slots, Covered, Polling
  <2> QED
    BY <2>4, <2>5, <2>6, <2>7 DEF IInv
<1>2. CASE q.nxt # None
  BY <1>2, DispatchKeeps DEF PollAdvances, IInv, Typed, Queue
<1> QED
  BY <1>1, <1>2

\* A press dispatches the next.
LEMMA SkipsKeeps ==
  ASSUME IInv, Skips
  PROVE  IInv'
  BY DispatchKeeps DEF Skips, IInv, Typed, Queue

\* The current track is dispatched again.
LEMMA ResumesKeeps ==
  ASSUME IInv, Resumes
  PROVE  IInv'
<1>1. /\ PlayStarts /\ play' = q.cur /\ q' = q /\ orch' = orch
      /\ q \in Queue /\ q.cur \in Maybe /\ orch \in Orchestrator
  BY DEF Resumes, IInv, Typed, Queue
<1> QED
  BY <1>1, PlayStartsKeeps

\* A behaviour begins with nothing armed and nothing asked of the renderer.
LEMMA Starts == Init => IInv
<1> SUFFICES ASSUME Init PROVE IInv
  OBVIOUS
<1>1. dev \in Renderer /\ dev.tr = "stopped"
  <2>1. PICK d \in BOOLEAN :
           dev = [uri |-> None, tr |-> "stopped", next |-> None, near |-> FALSE,
                  seen |-> TRUE, deaf |-> d, missed |-> FALSE, frozen |-> FALSE]
    BY DEF Init, RendererInit
  <2> QED
    BY <2>1 DEF Renderer, Maybe
<1>2. /\ be \in Backend /\ be.live = {} /\ be.sent = FALSE /\ be.armed = None /\ be.confirmed = FALSE
  BY 0 \in 0 .. 1 DEF Init, RendererInit, Backend, Maybe
<1>3. wire = <<>> /\ wire \in Seq(Asked) /\ DOMAIN wire = {} /\ poll = "none"
  BY EmptySeq DEF Init, RendererInit
<1>4. reply \in [Callers -> Replies] /\ \A c \in Callers : reply[c].st = "none" /\ reply[c].url = None
  BY DEF Init, RendererInit, Replies, NoReply, Maybe
<1>5. q \in Queue /\ play \in Maybe
  BY DEF Init, Queue, Maybe
<1>6. orch \in Orchestrator /\ orch.pc = "idle" /\ ~orch.outer
  BY DEF Init, Orchestrator, Maybe
<1>7. Typed /\ Lined /\ Awaited
  BY <1>1, <1>2, <1>3, <1>4, <1>5, <1>6 DEF Typed, Lined, Awaited, PollStates, Callers
<1>8. Owned /\ Slots /\ Covered
  BY <1>2, <1>3, <1>6 DEF Owned, Owns, Slots, Covered, Polling
<1> QED
  BY <1>7, <1>8 DEF IInv

\* What the variables do not show, the invariant does not see.
LEMMA Stutters ==
  ASSUME IInv, UNCHANGED vars
  PROVE  IInv'
<1>1. Typed' /\ Lined' /\ Awaited'
  BY DEF vars, IInv, Typed, Lined, Awaited
<1>2. Owned' /\ Slots'
  BY DEF vars, IInv, Owned, Owns, Slots
<1>3. Covered'
  BY DEF vars, IInv, Covered, Polling, Known, Answers
<1> QED
  BY <1>1, <1>2, <1>3 DEF IInv

\* Every step keeps the invariant.
LEMMA Inductive == IInv /\ [Next]_vars => IInv'
<1> SUFFICES ASSUME IInv, [Next]_vars PROVE IInv'
  OBVIOUS
<1>1. CASE Renders
  BY <1>1, NearsKeeps, TrackEndsKeeps, ChainsUnreportedKeeps, StoppedByHandKeeps, ServesKeeps
     DEF Renders, rest
<1>2. CASE Polls
  BY <1>2, PollReadsStoppedKeeps, PollReadsKeeps, PollSentKeeps, PollLooksKeeps, PollFixesKeeps,
     PollFailsKeeps DEF Polls, rest
<1>3. CASE PollAdvances \/ PollNotified
  BY <1>3, PollAdvancesKeeps, PollNotifiedKeeps
<1>4. CASE Reconciles
  BY <1>4, EvalStartsKeeps, EvalRevokedKeeps, EvalWarmedKeeps, WarmFailsKeeps, EvalArmedKeeps,
     RevokesElsewhereKeeps, RevokedElsewhereKeeps DEF Reconciles
<1>5. CASE Hosts
  BY <1>5, EditsQueueKeeps, SkipsKeeps, ResumesKeeps, PlayEndsKeeps, PausedKeeps, ResumedKeeps,
     StopsPlaybackKeeps DEF Hosts
<1>6. CASE UNCHANGED vars
  BY <1>6, Stutters
<1> QED
  BY <1>1, <1>2, <1>3, <1>4, <1>5, <1>6 DEF Next

\* The inductive invariant holds in every reachable state.
THEOREM Invariance == Spec => []IInv
<1>1. Init => IInv
  BY Starts
<1>2. IInv /\ [Next]_vars => IInv'
  BY Inductive
<1> QED
  BY <1>1, <1>2, PTL DEF Spec

\* The parts are of their types, what was delivered to the renderer is what is
\* armed, and a request still owns the pair only while one is armed.
THEOREM TypeCorrect == Spec => []TypeOK
<1>1. IInv => TypeOK
  BY DEF IInv, Typed, Owned, TypeOK, PollStates
<1> QED
  BY <1>1, Invariance, PTL

\* Whatever the order of edits, revokes, answers, refusals and boundaries: after
\* a pass of the poll the renderer plays what the backend takes for the current
\* track, or the one slot of the stale watch was taken from a next the renderer
\* still held.
THEOREM WatchHolds == Spec => []AudibleIsCurrent
<1>1. IInv => AudibleIsCurrent
  BY DEF IInv, Covered, Polling, AudibleIsCurrent, NoSilentWrongTrack
<1> QED
  BY <1>1, Invariance, PTL
==============================================================================
