--------------------------- MODULE CastFlowProofs ---------------------------
(***************************************************************************)
(* Proofs about the flow mode of the Cast backend (CastFlow): every play   *)
(* is counted once, and only if the receiver was heard to play it.         *)
(*                                                                         *)
(* Once: a token is in one place of the ledger at most, not yet confirmed. *)
(* Heard: the stream holds the token of a pending count at or before the   *)
(* count's offset, and what lies behind the receiver's position was heard. *)
(***************************************************************************)
EXTENDS CastFlow, SequenceTheorems, WellFoundedInduction, TLAPS

Count == [off : Nat, token : Nat \ {0}, track : Nat]
Segment == [track : Nat, token : Nat]
FlowFields ==
    {"id", "live", "closed", "ended", "paused", "gen", "want", "repos", "pc", "track", "mine",
     "prev", "failed", "saw", "consumer", "stitch"}

FlowOf(f) ==
    /\ DOMAIN f = FlowFields
    /\ f.id \in Nat /\ f.live \in BOOLEAN /\ f.repos \in BOOLEAN
    /\ f.track \in Nat /\ f.want \in Nat /\ f.stitch \in Seq(Segment)
    /\ f.pc = "boundary" => f.stitch # <<>>
Ledger == [token : Nat, counts : Seq(Count), repos : Nat, seek : Nat, playing : BOOLEAN,
           gapless : BOOLEAN]
Receiver == [sess : Nat, pos : Nat, said : Nat, st : {"idle", "playing", "paused"}]
Status == [id : Nat, state : {"PLAYING", "FINISHED", "ERROR"}, pos : Nat]
QueueShape == [cur : Nat, next : Seq(Nat), gen : Nat, held : BOOLEAN]

FlowShape ==
    /\ queue \in QueueShape /\ FlowOf(flow) /\ dev \in Receiver /\ back \in Ledger
    /\ status \in Seq(Status) /\ host \in {"none", "play", "load", "return"}
    /\ told \in [last : Nat, confirmed : [Tokens -> Nat]]
    /\ truth \in [heard : SUBSET Nat, late : SUBSET Nat, lost : BOOLEAN]

\* What waits in the ledger to be confirmed.
Counting(n) == \E i \in 1 .. Len(back.counts) : back.counts[i].token = n
Waiting(n) == n = back.token \/ n = back.repos \/ Counting(n)

\* A token is issued before it waits, waits in one place, and is confirmed once.
OncePerToken ==
    /\ \A n \in Nat \ {0} : Waiting(n) => n <= told.last
    /\ \A n \in Tokens : Waiting(n) \/ n > told.last => told.confirmed[n] = 0
    /\ \A n \in Tokens : told.confirmed[n] <= 1
    /\ \A i, j \in 1 .. Len(back.counts) : back.counts[i].token = back.counts[j].token => i = j
    /\ \A n \in Nat \ {0} : ~(n = back.token /\ n = back.repos)
                            /\ ~(Counting(n) /\ (n = back.token \/ n = back.repos))
    /\ host = "play" =>
          /\ told.last # 0 /\ ~Waiting(told.last)
          /\ told.last \in Tokens => told.confirmed[told.last] = 0

ConfirmedHeard == \A n \in Tokens : told.confirmed[n] > 0 => n \in truth.heard \cup truth.late

\* The audio of a pending count is in the stream, at its offset or before.
CountsInStream ==
    flow.live => \A i \in 1 .. Len(back.counts) :
        /\ back.counts[i].off <= Len(flow.stitch)
        /\ \E j \in 1 .. back.counts[i].off : flow.stitch[j].token = back.counts[i].token

\* The dispatch's own token is that of the first segment, or will be.
FirstIsDispatched ==
    flow.live /\ back.token # 0 =>
        /\ flow.stitch # <<>> => flow.stitch[1].token = back.token
        /\ flow.stitch = <<>> => /\ host # "play" => told.last = back.token
                                 /\ flow.repos => back.seek = back.token

\* What the receiver has passed was heard, and a status says no more.
PassedIsHeard ==
    /\ dev.sess <= flow.id /\ \A i \in 1 .. Len(status) : status[i].id <= flow.id
    /\ flow.live /\ dev.sess = flow.id =>
          /\ dev.pos <= Len(flow.stitch)
          /\ \A j \in 1 .. dev.pos : flow.stitch[j].token \in truth.heard
    /\ flow.live => \A i \in 1 .. Len(status) : status[i].id = flow.id =>
          /\ dev.sess = flow.id /\ status[i].pos <= dev.pos
          /\ status[i].state = "PLAYING" => status[i].pos > 0
    /\ flow.live /\ host = "load" =>
          dev.sess # flow.id /\ \A i \in 1 .. Len(status) : status[i].id # flow.id

FlowInv ==
    /\ FlowShape /\ OncePerToken /\ ConfirmedHeard
    /\ CountsInStream /\ FirstIsDispatched /\ PassedIsHeard

LEMMA LeastOfNat ==
  ASSUME NEW S, S \subseteq Nat, S # {}
  PROVE  \E i \in S : \A k \in S : i <= k
<1> DEFINE R == OpToRel(<, Nat)
<1>1. \A i, k \in Nat : i < k => <<i, k>> \in R
  BY DEF OpToRel
<1> HIDE DEF R
<1>2. PICK i \in S : \A k \in S : ~(<<k, i>> \in R)
  BY NatLessThanWellFounded, WFMin DEF R
<1>3. ASSUME NEW k \in S PROVE i <= k
  <2>1. i \in Nat /\ k \in Nat
    OBVIOUS
  <2>2. ~(k < i)
    BY <1>1, <1>2, <2>1
  <2> QED
    BY <2>1, <2>2
<1> QED
  BY <1>3

-----------------------------------------------------------------------------
(* The session's record *)

\* What a step inside a session leaves of the session.
SameStream(f, g) ==
    /\ FlowOf(g) /\ g.id = f.id /\ g.live = f.live /\ g.stitch = f.stitch
    /\ g.repos => f.repos

LEMMA FlowAt ==
  ASSUME NEW f, FlowOf(f), NEW pc, pc # "boundary"
  PROVE  SameStream(f, [f EXCEPT !.pc = pc])
  BY DEF SameStream, FlowOf, FlowFields

LEMMA FlowTakes ==
  ASSUME NEW f, FlowOf(f), NEW t \in Nat, NEW r \in BOOLEAN, r => f.repos, NEW m
  PROVE  SameStream(f, [f EXCEPT !.pc = "open", !.track = t, !.mine = m, !.want = 0, !.failed = 0,
                                 !.repos = r])
  BY DEF SameStream, FlowOf, FlowFields

LEMMA FlowSplices ==
  ASSUME NEW f, FlowOf(f), NEW x \in Segment
  PROVE  LET g == [f EXCEPT !.pc = "feed", !.stitch = Append(@, x)]
         IN  FlowOf(g) /\ g.id = f.id /\ g.live = f.live /\ g.repos = f.repos
             /\ g.stitch = Append(f.stitch, x)
  BY DEF FlowOf, FlowFields

LEMMA FlowNone ==
  ASSUME NEW i \in Nat
  PROVE  FlowOf(NoSession(i)) /\ NoSession(i).id = i /\ NoSession(i).live = FALSE
  BY DEF FlowOf, FlowFields, NoSession

LEMMA FlowBegins ==
  ASSUME NEW i \in Nat, NEW t \in Nat
  PROVE  LET g == NewSession(i, t)
         IN  FlowOf(g) /\ g.id = i /\ g.live = TRUE /\ g.repos = FALSE /\ g.stitch = <<>>
  BY DEF FlowOf, FlowFields, NoSession, NewSession

LEMMA FlowSkips ==
  ASSUME NEW f, FlowOf(f), NEW a, NEW b
  PROVE  SameStream(f, [f EXCEPT !.pc = "loop", !.failed = a, !.prev = b])
  BY DEF SameStream, FlowOf, FlowFields

LEMMA FlowToBoundary ==
  ASSUME NEW f, FlowOf(f), f.stitch # <<>>, NEW g
  PROVE  SameStream(f, [f EXCEPT !.pc = "boundary", !.saw = g])
  BY DEF SameStream, FlowOf, FlowFields

LEMMA FlowEofs ==
  ASSUME NEW f, FlowOf(f), NEW a
  PROVE  SameStream(f, [f EXCEPT !.pc = "loop", !.prev = a])
  BY DEF SameStream, FlowOf, FlowFields

LEMMA FlowOff ==
  ASSUME NEW f, FlowOf(f)
  PROVE  /\ SameStream(f, [f EXCEPT !.pc = "off", !.ended = TRUE])
         /\ SameStream(f, [f EXCEPT !.pc = "off", !.closed = TRUE])
  BY DEF SameStream, FlowOf, FlowFields

LEMMA FlowConsumed ==
  ASSUME NEW f, FlowOf(f), NEW a
  PROVE  SameStream(f, [f EXCEPT !.consumer = a]) /\ SameStream(f, [f EXCEPT !.paused = a])
  BY DEF SameStream, FlowOf, FlowFields

\* A reposition leaves the stream, and is pending.
SameParts(f, g) == FlowOf(g) /\ g.id = f.id /\ g.live = f.live /\ g.stitch = f.stitch

LEMMA FlowRepositions ==
  ASSUME NEW f, FlowOf(f), NEW t \in Nat, NEW n, NEW p
  PROVE  LET g == [f EXCEPT !.gen = n, !.want = t, !.repos = TRUE, !.paused = FALSE]
         IN  SameParts(f, g) /\ SameParts(f, [g EXCEPT !.paused = p])
  BY DEF SameParts, FlowOf, FlowFields

LEMMA FlowSame ==
  ASSUME FlowOf(flow), flow' = flow
  PROVE  SameStream(flow, flow')
  BY DEF SameStream

-----------------------------------------------------------------------------
(* The parts of the invariant *)

\* Nothing new waits in the ledger, and no dispatch begins.
LEMMA OnceKept ==
  ASSUME OncePerToken, told' = told, told.last \in Nat, back \in Ledger,
         back'.token \in {back.token, 0}, back'.repos \in {back.repos, 0},
         back'.counts = back.counts \/ back'.counts = <<>>,
         host' # "play" \/ host' = host
  PROVE  OncePerToken'
<1>0. told.last \in Nat /\ \A n \in Tokens : n \in Nat \ {0}
  BY DEF Tokens
<1>1. \A n \in Nat \ {0} : Counting(n)' => Counting(n)
  BY EmptySeq DEF Counting
<1>2. \A n \in Nat \ {0} : Waiting(n)' => Waiting(n)
  BY <1>1 DEF Waiting
<1>3. \A i, j \in 1 .. Len(back'.counts) : back'.counts[i].token = back'.counts[j].token => i = j
  BY EmptySeq DEF OncePerToken
<1>4. /\ \A n \in Nat \ {0} : Waiting(n)' => n <= told'.last
      /\ \A n \in Tokens : Waiting(n)' \/ n > told'.last => told'.confirmed[n] = 0
      /\ \A n \in Tokens : told'.confirmed[n] <= 1
  BY <1>0, <1>2 DEF OncePerToken
<1>5. \A n \in Nat \ {0} : ~(n = back'.token /\ n = back'.repos)
                            /\ ~(Counting(n)' /\ (n = back'.token \/ n = back'.repos))
  BY <1>1 DEF OncePerToken
<1>6. host' = "play" =>
          /\ told'.last # 0 /\ ~Waiting(told.last)'
          /\ told'.last \in Tokens => told'.confirmed[told'.last] = 0
  BY <1>0, <1>2 DEF OncePerToken
<1> QED
  BY <1>3, <1>4, <1>5, <1>6 DEF OncePerToken

LEMMA HeardKept ==
  ASSUME ConfirmedHeard, told' = told, truth.heard \cup truth.late \subseteq truth'.heard \cup truth'.late
  PROVE  ConfirmedHeard'
  BY DEF ConfirmedHeard

\* The stream, the receiver's position and the statuses stay.
LEMMA StreamKept ==
  ASSUME CountsInStream, FirstIsDispatched, PassedIsHeard, SameStream(flow, flow'),
         back'.token \in {back.token, 0}, back'.seek = back.seek,
         back'.counts = back.counts \/ back'.counts = <<>>,
         told'.last = told.last \/ host' = "play", host = "play" => host' = "play",
         host' = "load" => host = "load",
         dev'.sess = dev.sess, dev'.pos = dev.pos, status' = status, truth'.heard = truth.heard
  PROVE  CountsInStream' /\ FirstIsDispatched' /\ PassedIsHeard'
<1>0. /\ flow'.id = flow.id /\ flow'.live = flow.live /\ flow'.stitch = flow.stitch
      /\ flow'.repos => flow.repos
  BY DEF SameStream
<1>1. CountsInStream'
  BY <1>0, EmptySeq DEF CountsInStream
<1>2. FirstIsDispatched'
  BY <1>0 DEF FirstIsDispatched
<1>3. PassedIsHeard'
  BY <1>0 DEF PassedIsHeard
<1> QED
  BY <1>1, <1>2, <1>3

\* A step that leaves the ledger, the stream and the receiver where they are.
LEMMA QuietKeeps ==
  ASSUME FlowInv, FlowShape', SameStream(flow, flow'),
         back'.token \in {back.token, 0}, back'.repos = back.repos, back'.seek = back.seek,
         back'.counts = back.counts, told' = told,
         host' = host \/ (host # "play" /\ host' = "none"),
         dev'.sess = dev.sess, dev'.pos = dev.pos, status' = status,
         truth'.heard = truth.heard, truth'.late = truth.late
  PROVE  FlowInv'
<1>0. /\ FlowShape /\ OncePerToken /\ ConfirmedHeard
      /\ CountsInStream /\ FirstIsDispatched /\ PassedIsHeard
  BY DEF FlowInv
<1>1. OncePerToken'
  BY <1>0, OnceKept DEF FlowShape
<1>2. ConfirmedHeard'
  BY <1>0, HeardKept
<1>3. CountsInStream' /\ FirstIsDispatched' /\ PassedIsHeard'
  BY <1>0, StreamKept
<1> QED
  BY <1>1, <1>2, <1>3 DEF FlowInv

\* Once the session is detached, the stream and its statuses mean nothing.
LEMMA NoStream ==
  ASSUME flow'.live = FALSE, dev'.sess <= flow'.id, \A i \in 1 .. Len(status') : status'[i].id <= flow'.id
  PROVE  CountsInStream' /\ FirstIsDispatched' /\ PassedIsHeard'
  BY DEF CountsInStream, FirstIsDispatched, PassedIsHeard

\* A step that detaches the session and lets its counts go.
LEMMA DetachKeeps ==
  ASSUME FlowInv, FlowShape', flow' = Detached(flow),
         back'.token \in {back.token, 0}, back'.repos = 0, back'.counts = <<>>, told' = told,
         host' # "play" \/ host' = host,
         dev'.sess \in {dev.sess, 0}, status' = status,
         truth'.heard = truth.heard, truth'.late = truth.late
  PROVE  FlowInv'
<1>0. /\ FlowShape /\ OncePerToken /\ ConfirmedHeard
      /\ CountsInStream /\ FirstIsDispatched /\ PassedIsHeard
  BY DEF FlowInv
<1>1. OncePerToken'
  BY <1>0, OnceKept DEF FlowShape
<1>2. ConfirmedHeard'
  BY <1>0, HeardKept
<1>3. flow'.live = FALSE /\ flow'.id = flow.id /\ flow.id \in Nat
  BY <1>0, FlowNone DEF FlowShape, FlowOf, Detached
<1>4. CountsInStream' /\ FirstIsDispatched' /\ PassedIsHeard'
  <2>1. dev.sess <= flow.id /\ \A i \in 1 .. Len(status) : status[i].id <= flow.id
    BY <1>0 DEF PassedIsHeard
  <2>2. dev'.sess <= flow'.id /\ \A i \in 1 .. Len(status') : status'[i].id <= flow'.id
    BY <1>3, <2>1
  <2> QED
    BY <1>3, <2>2, NoStream
<1> QED
  BY <1>1, <1>2, <1>4 DEF FlowInv

\* A dispatch begins: a token is issued that waits nowhere yet.
LEMMA DispatchKeeps ==
  ASSUME FlowInv, FlowShape', flow' = flow, back' = back, host = "none", host' = "play", Issues,
         dev' = dev, status' = status, truth' = truth
  PROVE  FlowInv'
<1>0. /\ FlowShape /\ OncePerToken /\ ConfirmedHeard
      /\ CountsInStream /\ FirstIsDispatched /\ PassedIsHeard
  BY DEF FlowInv
<1>1. /\ told.last \in Nat /\ told'.last = told.last + 1 /\ told'.confirmed = told.confirmed
      /\ \A n \in Tokens : n \in Nat \ {0}
  BY <1>0 DEF FlowShape, Issues, Tokens
<1>2. \A n \in Nat \ {0} : (Counting(n)' <=> Counting(n)) /\ (Waiting(n)' <=> Waiting(n))
  BY DEF Counting, Waiting
<1>3. OncePerToken'
  <2>1. ~Waiting(told.last)'
    <3>1. ~Waiting(told.last + 1)
      BY <1>0, <1>1 DEF OncePerToken
    <3> QED
      BY <1>1, <3>1 DEF Waiting, Counting
  <2>2. /\ \A n \in Nat \ {0} : Waiting(n)' => n <= told'.last
        /\ \A n \in Tokens : Waiting(n)' \/ n > told'.last => told'.confirmed[n] = 0
        /\ \A n \in Tokens : told'.confirmed[n] <= 1
    BY <1>0, <1>1, <1>2 DEF OncePerToken
  <2>3. told'.last \in Tokens => told'.confirmed[told'.last] = 0
    BY <1>0, <1>1 DEF OncePerToken
  <2> QED
    BY <1>0, <1>1, <1>2, <2>1, <2>2, <2>3 DEF OncePerToken
<1>4. ConfirmedHeard'
  BY <1>0, <1>1 DEF ConfirmedHeard
<1>5. CountsInStream' /\ FirstIsDispatched' /\ PassedIsHeard'
  BY <1>0, StreamKept, FlowSame DEF FlowShape
<1> QED
  BY <1>3, <1>4, <1>5 DEF FlowInv

-----------------------------------------------------------------------------
(* The pump *)

LEMMA FrontOfQueue ==
  ASSUME queue \in QueueShape, queue.next # <<>>
  PROVE  Head(queue.next) \in Nat /\ Tail(queue.next) \in Seq(Nat)
  BY HeadTailProperties DEF QueueShape

LEMMA TakesKeeps ==
  ASSUME FlowInv, PumpTakes
  PROVE  FlowInv'
<1> DEFINE ahead == IF flow.want # 0 THEN flow.want
                    ELSE IF queue.next = <<>> \/ Head(queue.next) = flow.failed THEN 0
                    ELSE Head(queue.next)
           r == flow.want # 0 /\ flow.repos
<1>0. FlowShape
  BY DEF FlowInv
<1>1. /\ flow' = IF ahead = 0 THEN [flow EXCEPT !.pc = "finalize"]
                 ELSE [flow EXCEPT !.pc = "open", !.track = ahead, !.mine = flow.gen,
                                   !.want = 0, !.failed = 0, !.repos = r]
      /\ queue' = queue /\ dev' = dev /\ back' = back /\ status' = status /\ posted' = posted
      /\ host' = host /\ told' = told /\ truth' = truth
  BY DEF PumpTakes
<1>2. ahead \in Nat /\ r \in BOOLEAN /\ (r => flow.repos)
  BY <1>0, FrontOfQueue DEF FlowShape, FlowOf
<1> HIDE DEF ahead, r
<1>3. SameStream(flow, flow')
  <2>1. CASE ahead = 0
    BY <1>0, <1>1, <2>1, FlowAt DEF FlowShape
  <2>2. CASE ahead # 0
    BY <1>0, <1>1, <1>2, <2>2, FlowTakes DEF FlowShape
  <2> QED
    BY <2>1, <2>2
<1>4. FlowShape'
  BY <1>0, <1>1, <1>3 DEF FlowShape, SameStream
<1> QED
  BY <1>1, <1>3, <1>4, QuietKeeps

LEMMA FailsKeeps ==
  ASSUME FlowInv, PumpFails
  PROVE  FlowInv'
<1>0. FlowShape
  BY DEF FlowInv
<1>1. /\ dev' = dev /\ status' = status /\ host' = host /\ told' = told /\ truth' = truth
  BY DEF PumpFails
<1>2. CASE Again /\ back' = back /\ queue' = queue
  <2>1. SameStream(flow, flow')
    BY <1>0, <1>2, FlowAt DEF FlowShape, Again
  <2>2. FlowShape'
    BY <1>0, <1>1, <1>2, <2>1 DEF FlowShape, SameStream
  <2> QED
    BY <1>1, <1>2, <2>1, <2>2, QuietKeeps
<1>3. CASE Skipped
  <2>1. SameStream(flow, flow')
    BY <1>0, <1>3, FlowSkips DEF FlowShape, Skipped
  <2>2. /\ back' \in Ledger /\ back'.token \in {back.token, 0} /\ back'.repos = back.repos
        /\ back'.seek = back.seek /\ back'.counts = back.counts
    BY <1>0, <1>3 DEF FlowShape, Skipped, Ledger
  <2>3. queue' \in QueueShape
    <3>1. CASE queue' = queue
      BY <1>0, <3>1 DEF FlowShape
    <3>2. CASE queue.next # <<>> /\ queue' = [queue EXCEPT !.next = Tail(@)]
      BY <1>0, <3>2, FrontOfQueue DEF FlowShape, QueueShape
    <3> QED
      BY <1>3, <3>1, <3>2 DEF Skipped
  <2>4. FlowShape'
    BY <1>0, <1>1, <2>1, <2>2, <2>3 DEF FlowShape, SameStream
  <2> QED
    BY <1>1, <2>1, <2>2, <2>4, QuietKeeps
<1> QED
  BY <1>2, <1>3 DEF PumpFails

\* The small steps of the pump and of the stream's one consumer.
LEMMA StepsKeep ==
  ASSUME FlowInv, SameStream(flow, flow'),
         queue' \in QueueShape, back' \in Ledger,
         back'.token = back.token, back'.repos = back.repos, back'.seek = back.seek,
         back'.counts = back.counts, told' = told,
         host' = host \/ (host # "play" /\ host' = "none"),
         dev' \in Receiver, dev'.sess = dev.sess, dev'.pos = dev.pos, status' = status,
         truth' \in [heard : SUBSET Nat, late : SUBSET Nat, lost : BOOLEAN],
         truth'.heard = truth.heard, truth'.late = truth.late
  PROVE  FlowInv'
<1>0. FlowShape
  BY DEF FlowInv
<1>1. FlowShape'
  BY <1>0 DEF FlowShape, SameStream
<1> QED
  BY <1>0, <1>1, QuietKeeps

LEMMA SmallSteps ==
  ASSUME FlowInv, PumpEofs \/ PumpFinalizes \/ PumpBreaks \/ DevBinds \/ DevDropsStream
  PROVE  FlowInv'
<1>0. FlowShape
  BY DEF FlowInv
<1>1. /\ queue' = queue /\ dev' = dev /\ back' = back /\ status' = status /\ host' = host
      /\ told' = told /\ truth' = truth
  BY DEF PumpEofs, PumpFinalizes, PumpBreaks, DevBinds, DevDropsStream
<1>2. SameStream(flow, flow')
  <2>1. CASE PumpEofs
    BY <1>0, <2>1, FlowEofs DEF FlowShape, PumpEofs
  <2>2. CASE PumpFinalizes
    BY <1>0, <2>2, FlowOff DEF FlowShape, PumpFinalizes
  <2>3. CASE PumpBreaks
    BY <1>0, <2>3, FlowOff DEF FlowShape, PumpBreaks
  <2>4. CASE DevBinds
    BY <1>0, <2>4, FlowConsumed DEF FlowShape, DevBinds
  <2>5. CASE DevDropsStream
    BY <1>0, <2>5, FlowConsumed DEF FlowShape, DevDropsStream
  <2> QED
    BY <2>1, <2>2, <2>3, <2>4, <2>5
<1> QED
  BY <1>0, <1>1, <1>2, StepsKeep DEF FlowShape

\* A segment at the end of the stream moves nothing of what is there.
LEMMA StreamGrows ==
  ASSUME FlowOf(flow), NEW x \in Segment, flow' = [flow EXCEPT !.pc = "feed", !.stitch = Append(@, x)]
  PROVE  /\ FlowOf(flow') /\ flow'.id = flow.id /\ flow'.live = flow.live /\ flow'.repos = flow.repos
         /\ Len(flow.stitch) \in Nat /\ Len(flow'.stitch) = Len(flow.stitch) + 1
         /\ \A j \in 1 .. Len(flow.stitch) : flow'.stitch[j] = flow.stitch[j]
         /\ flow'.stitch[Len(flow.stitch) + 1] = x /\ flow'.stitch # <<>>
         /\ flow.stitch # <<>> => 1 \in 1 .. Len(flow.stitch)
         /\ flow.stitch = <<>> => Len(flow.stitch) = 0
<1>1. /\ FlowOf(flow') /\ flow'.id = flow.id /\ flow'.live = flow.live /\ flow'.repos = flow.repos
      /\ flow'.stitch = Append(flow.stitch, x)
  BY FlowSplices
<1>2. flow.stitch \in Seq(Segment)
  BY DEF FlowOf
<1>3. Len(flow.stitch) \in Nat /\ (flow.stitch # <<>> => Len(flow.stitch) \in Nat \ {0})
  BY <1>2, EmptySeq, LenProperties
<1>4. flow.stitch = <<>> => Len(flow.stitch) = 0
  BY EmptySeq
<1>5. flow.stitch # <<>> => 1 \in 1 .. Len(flow.stitch)
  BY <1>3
<1> QED
  BY <1>1, <1>2, <1>3, <1>4, <1>5, AppendProperties

\* What the receiver has passed stays so while the stream grows.
LEMMA PassedGrows ==
  ASSUME FlowShape, PassedIsHeard, flow'.id = flow.id, flow'.live = flow.live,
         Len(flow.stitch) \in Nat, Len(flow'.stitch) = Len(flow.stitch) + 1,
         \A j \in 1 .. Len(flow.stitch) : flow'.stitch[j] = flow.stitch[j],
         dev' = dev, status' = status, truth'.heard = truth.heard, host' = host
  PROVE  PassedIsHeard'
<1>1. dev.pos \in Nat
  BY DEF FlowShape, Receiver
<1>2. ASSUME flow'.live, dev'.sess = flow'.id
      PROVE  /\ dev'.pos <= Len(flow'.stitch)
             /\ \A j \in 1 .. dev'.pos : flow'.stitch[j].token \in truth'.heard
  <2>1. /\ dev.pos <= Len(flow.stitch)
        /\ \A j \in 1 .. dev.pos : flow.stitch[j].token \in truth.heard
    BY <1>2 DEF PassedIsHeard
  <2>2. \A j \in 1 .. dev.pos : j \in 1 .. Len(flow.stitch)
    BY <1>1, <2>1
  <2> QED
    BY SMTT(30), <1>1, <2>1, <2>2
<1> QED
  BY <1>2 DEF PassedIsHeard

\* A count stays in the stream while the stream grows.
LEMMA CountsGrow ==
  ASSUME FlowShape, CountsInStream, flow'.live = flow.live,
         Len(flow.stitch) \in Nat, Len(flow'.stitch) = Len(flow.stitch) + 1,
         \A j \in 1 .. Len(flow.stitch) : flow'.stitch[j] = flow.stitch[j],
         flow.live, NEW i \in 1 .. Len(back.counts)
  PROVE  /\ back.counts[i].off <= Len(flow'.stitch)
         /\ \E j \in 1 .. back.counts[i].off : flow'.stitch[j].token = back.counts[i].token
<1>1. back.counts[i].off \in Nat
  <2>1. back.counts \in Seq(Count)
    BY DEF FlowShape, Ledger
  <2>2. back.counts[i] \in Count
    BY <2>1, ElementOfSeq
  <2> QED
    BY <2>2 DEF Count
<1>2. /\ back.counts[i].off <= Len(flow.stitch)
      /\ \E j \in 1 .. back.counts[i].off : flow.stitch[j].token = back.counts[i].token
  BY DEF CountsInStream
<1>3. PICK j \in 1 .. back.counts[i].off : flow.stitch[j].token = back.counts[i].token
  BY <1>2
<1>4. j \in 1 .. Len(flow.stitch)
  BY <1>1, <1>2
<1>5. flow'.stitch[j].token = back.counts[i].token
  BY <1>3, <1>4
<1>6. back.counts[i].off <= Len(flow'.stitch)
  BY <1>1, <1>2
<1> QED
  BY <1>5, <1>6

\* The first bytes of the first track.
LEMMA FirstOpens ==
  ASSUME FlowInv, FirstOfAll, flow' = Spliced(back.token), back' = back,
         queue' = queue, dev' = dev, status' = status, host' = host, told' = told, truth' = truth
  PROVE  FlowInv'
<1> DEFINE x == [track |-> flow.track, token |-> back.token]
<1>0. /\ FlowShape /\ OncePerToken /\ ConfirmedHeard
      /\ CountsInStream /\ FirstIsDispatched /\ PassedIsHeard
  BY DEF FlowInv
<1>1. FlowOf(flow) /\ x \in Segment /\ x.token = back.token /\ back \in Ledger
  BY <1>0 DEF FlowShape, FlowOf, Ledger, Segment
<1>2. flow' = [flow EXCEPT !.pc = "feed", !.stitch = Append(@, x)]
  BY DEF Spliced
<1> HIDE DEF x
<1>3. /\ FlowOf(flow') /\ flow'.id = flow.id /\ flow'.live = flow.live /\ flow'.repos = flow.repos
      /\ Len(flow.stitch) = 0 /\ Len(flow'.stitch) = Len(flow.stitch) + 1
      /\ \A j \in 1 .. Len(flow.stitch) : flow'.stitch[j] = flow.stitch[j]
      /\ flow'.stitch[Len(flow.stitch) + 1] = x /\ flow'.stitch # <<>>
  BY <1>1, <1>2, StreamGrows DEF FirstOfAll
<1>4. FlowShape'
  BY <1>0, <1>3 DEF FlowShape
<1>5. OncePerToken' /\ ConfirmedHeard'
  BY <1>0, <1>1, OnceKept, HeardKept DEF FlowShape
<1>6. CountsInStream'
  BY <1>0, <1>3, CountsGrow DEF CountsInStream
<1>7. PassedIsHeard'
  BY <1>0, <1>3, PassedGrows
<1>8. FirstIsDispatched'
  BY <1>1, <1>3 DEF FirstIsDispatched
<1> QED
  BY <1>4, <1>5, <1>6, <1>7, <1>8 DEF FlowInv

LEMMA CountTyped ==
  ASSUME back \in Ledger, NEW i \in 1 .. Len(back.counts)
  PROVE  back.counts[i] \in Count
  BY ElementOfSeq DEF Ledger

LEMMA OneCount ==
  ASSUME NEW c \in Count
  PROVE  /\ <<c>> \in Seq(Count) /\ Len(<<c>>) = 1
         /\ \A i \in 1 .. Len(<<c>>) : <<c>>[i] = c
  OBVIOUS

\* The token a reposition re-keys is one that waits: the dispatch's, or that
\* of a count of the sought track.
ReKeyed(token) == token = back.repos \/ Counting(token)

LEMMA RepositionLedger ==
  ASSUME FlowShape, OncePerToken, NEW token \in Nat, token # 0 => ReKeyed(token),
         NEW at \in Nat, told' = told, host' = host,
         back' = [Emptied(back) EXCEPT !.counts =
                    IF token = 0 THEN <<>>
                    ELSE <<[off |-> at, token |-> token, track |-> flow.track]>>]
  PROVE  OncePerToken' /\ back' \in Ledger /\ back'.token = back.token
<1> DEFINE c == [off |-> at, token |-> token, track |-> flow.track]
<1>0. back \in Ledger /\ told.last \in Nat /\ \A n \in Tokens : n \in Nat \ {0}
  BY DEF FlowShape, Tokens
<1>1. token # 0 => c \in Count /\ c.token = token
  BY DEF FlowShape, FlowOf, Count
<1> HIDE DEF c
<1>2. IF token = 0 THEN <<>> \in Seq(Count) ELSE <<c>> \in Seq(Count)
  BY <1>1, OneCount, EmptySeq
<1>3. /\ back' \in Ledger /\ back'.token = back.token /\ back'.repos = 0
      /\ back'.counts = IF token = 0 THEN <<>> ELSE <<c>>
  BY <1>0, <1>2 DEF Emptied, Ledger, c
<1>4. \A i \in 1 .. Len(back'.counts) : token # 0 /\ i = 1 /\ back'.counts[i].token = token
  <2>1. CASE token = 0
    BY <1>3, <2>1, EmptySeq
  <2>2. CASE token # 0
    BY <1>1, <1>3, <2>2, OneCount
  <2> QED
    BY <2>1, <2>2
<1>5. \A n \in Nat \ {0} : Counting(n)' => n = token /\ ReKeyed(n)
  BY <1>4 DEF Counting
<1>6. \A n \in Nat \ {0} : Waiting(n)' => Waiting(n)
  BY <1>3, <1>5 DEF Waiting, ReKeyed
<1>7. \A i, j \in 1 .. Len(back'.counts) : back'.counts[i].token = back'.counts[j].token => i = j
  BY <1>4
<1>8. /\ \A n \in Nat \ {0} : Waiting(n)' => n <= told'.last
      /\ \A n \in Tokens : Waiting(n)' \/ n > told'.last => told'.confirmed[n] = 0
      /\ \A n \in Tokens : told'.confirmed[n] <= 1
  BY <1>0, <1>6 DEF OncePerToken
<1>9. \A n \in Nat \ {0} : ~(n = back'.token /\ n = back'.repos)
                            /\ ~(Counting(n)' /\ (n = back'.token \/ n = back'.repos))
  BY <1>3, <1>5 DEF OncePerToken, ReKeyed
<1>10. host' = "play" =>
          /\ told'.last # 0 /\ ~Waiting(told.last)'
          /\ told'.last \in Tokens => told'.confirmed[told'.last] = 0
  BY <1>0, <1>6 DEF OncePerToken
<1> QED
  BY <1>3, <1>7, <1>8, <1>9, <1>10 DEF OncePerToken

\* The first bytes of a reposition: its count, or none.
LEMMA RepositionOpens ==
  ASSUME FlowInv, flow.repos,
         NEW token \in Nat, token # 0 => ReKeyed(token), back.seek = 0 => token = back.repos,
         token # 0 /\ back.seek # 0 => Counting(token),
         flow' = Spliced(IF back.seek > 0 THEN back.seek ELSE token),
         back' = [Emptied(back) EXCEPT !.counts =
                    IF token = 0 THEN <<>>
                    ELSE <<[off |-> Len(flow.stitch) + 1, token |-> token, track |-> flow.track]>>],
         queue' = queue, dev' = dev, status' = status, host' = host, told' = told, truth' = truth
  PROVE  FlowInv'
<1> DEFINE at == Len(flow.stitch) + 1
           x == [track |-> flow.track, token |-> IF back.seek > 0 THEN back.seek ELSE token]
           c == [off |-> at, token |-> token, track |-> flow.track]
<1>0. /\ FlowShape /\ OncePerToken /\ ConfirmedHeard
      /\ CountsInStream /\ FirstIsDispatched /\ PassedIsHeard
  BY DEF FlowInv
<1>1. FlowOf(flow) /\ back \in Ledger /\ back.seek \in Nat /\ flow.track \in Nat
  BY <1>0 DEF FlowShape, FlowOf, Ledger
<1>2. x \in Segment /\ x.token = IF back.seek > 0 THEN back.seek ELSE token
  BY <1>1 DEF Segment
<1>3. flow' = [flow EXCEPT !.pc = "feed", !.stitch = Append(@, x)]
  BY SMTT(30) DEF Spliced
<1> HIDE DEF x
<1>4. /\ FlowOf(flow') /\ flow'.id = flow.id /\ flow'.live = flow.live /\ flow'.repos = flow.repos
      /\ Len(flow.stitch) \in Nat /\ Len(flow'.stitch) = at
      /\ \A j \in 1 .. Len(flow.stitch) : flow'.stitch[j] = flow.stitch[j]
      /\ flow'.stitch[at] = x /\ flow'.stitch # <<>>
      /\ flow.stitch # <<>> => 1 \in 1 .. Len(flow.stitch)
      /\ flow.stitch = <<>> => Len(flow.stitch) = 0
  BY <1>1, <1>2, <1>3, StreamGrows
<1>5. OncePerToken' /\ back' \in Ledger /\ back'.token = back.token
  <2>1. at \in Nat
    BY <1>4
  <2>2. back' = [Emptied(back) EXCEPT !.counts =
                   IF token = 0 THEN <<>>
                   ELSE <<[off |-> at, token |-> token, track |-> flow.track]>>]
    OBVIOUS
  <2> HIDE DEF at
  <2> QED
    BY <1>0, <2>1, <2>2, RepositionLedger
<1>6. FlowShape'
  BY <1>0, <1>4, <1>5 DEF FlowShape
<1>7. ConfirmedHeard'
  BY <1>0, HeardKept
<1>8. PassedIsHeard'
  BY <1>0, <1>4, PassedGrows
<1>9. FirstIsDispatched'
  <2>1. CASE flow.stitch # <<>>
    BY <1>0, <1>4, <1>5, <2>1 DEF FirstIsDispatched
  <2>2. CASE flow.stitch = <<>>
    <3>1. flow'.live /\ back'.token # 0 => flow'.stitch[1].token = back'.token
      BY <1>0, <1>1, <1>2, <1>4, <1>5, <2>2 DEF FirstIsDispatched
    <3> QED
      BY <1>4, <3>1 DEF FirstIsDispatched
  <2> QED
    BY <2>1, <2>2
<1>10. CountsInStream'
  <2>1. CASE token = 0
    <3>1. back'.counts = <<>>
      BY <1>1, <2>1 DEF Emptied, Ledger
    <3> QED
      BY <3>1, EmptySeq DEF CountsInStream
  <2>2. CASE token # 0
    <3>1. c \in Count /\ c.off = at /\ c.token = token
      BY <1>1, <1>4, <2>2 DEF Count
    <3>2. back'.counts = <<c>>
      BY <1>1, <2>2 DEF Emptied, Ledger
    <3> HIDE DEF c
    <3>3. \A i \in 1 .. Len(back'.counts) : back'.counts[i] = c
      BY <3>1, <3>2, OneCount
    <3>4. ASSUME flow.live PROVE at <= Len(flow'.stitch) /\ \E j \in 1 .. at : flow'.stitch[j].token = token
      <4>1. CASE back.seek = 0
        BY <1>2, <1>4, <4>1
      <4>2. CASE back.seek # 0
        <5>1. PICK i \in 1 .. Len(back.counts) : back.counts[i].token = token
          BY <2>2, <4>2 DEF Counting
        <5>2. /\ back.counts[i].off <= Len(flow.stitch)
              /\ \E j \in 1 .. back.counts[i].off : flow.stitch[j].token = token
          BY <1>0, <3>4, <5>1 DEF CountsInStream
        <5>3. back.counts[i].off \in Nat /\ back.counts[i].off <= at
          BY <1>1, <1>4, <5>2, CountTyped DEF Count
        <5>4. at \in Nat /\ Len(flow'.stitch) = Len(flow.stitch) + 1
          BY <1>4
        <5>5. \E j \in 1 .. at : flow'.stitch[j].token = token
          <6>1. PICK j \in 1 .. back.counts[i].off : flow.stitch[j].token = token
            BY <5>2
          <6>2. j \in 1 .. Len(flow.stitch) /\ j \in 1 .. at
            BY <1>4, <5>2, <5>3, <5>4
          <6>3. flow'.stitch[j] = flow.stitch[j]
            BY <1>4, <6>2
          <6> QED
            BY <6>1, <6>2, <6>3
        <5> QED
          BY <1>4, <5>5
      <4> QED
        BY <4>1, <4>2
    <3> QED
      BY <1>4, <3>1, <3>3, <3>4 DEF CountsInStream
  <2> QED
    BY <2>1, <2>2
<1> QED
  BY <1>5, <1>6, <1>7, <1>8, <1>9, <1>10 DEF FlowInv

\* A session that is detached.
LEMMA DetachedShape ==
  ASSUME FlowShape, flow' = Detached(flow), back' \in Ledger, queue' = queue, dev' \in Receiver,
         status' = status, host' \in {"none", "play", "load", "return"}, told' = told,
         truth' = truth
  PROVE  FlowShape'
<1>1. FlowOf(flow')
  BY FlowNone DEF Detached, FlowShape, FlowOf
<1> QED
  BY <1>1 DEF FlowShape

LEMMA EmptiedTyped ==
  ASSUME NEW b \in Ledger
  PROVE  /\ Emptied(b) \in Ledger /\ Emptied(b).token = b.token /\ Emptied(b).repos = 0
         /\ Emptied(b).counts = <<>> /\ Emptied(b).seek = 0
         /\ LET e == [Emptied(b) EXCEPT !.playing = FALSE]
            IN  /\ e \in Ledger /\ e.token = b.token /\ e.repos = 0 /\ e.counts = <<>>
                /\ e.seek = 0
<1>1. <<>> \in Seq(Count)
  BY EmptySeq
<1> QED
  BY <1>1 DEF Emptied, Ledger

LEMMA OpensKeeps ==
  ASSUME FlowInv, PumpOpens
  PROVE  FlowInv'
<1>0. FlowShape /\ FlowOf(flow) /\ back \in Ledger
  BY DEF FlowInv, FlowShape
<1>1. /\ queue' = queue /\ dev' = dev /\ status' = status /\ host' = host
      /\ told' = told /\ truth' = truth
  BY DEF PumpOpens
<1>2. CASE Again /\ back' = back
  <2>1. SameStream(flow, flow')
    BY <1>0, <1>2, FlowAt DEF Again
  <2> QED
    BY <1>0, <1>1, <1>2, <2>1, StepsKeep DEF FlowShape
<1>3. CASE FirstOfAll /\ flow' = Spliced(back.token) /\ back' = back
  BY <1>1, <1>3, FirstOpens
<1>4. CASE /\ flow.repos
           /\ LET at == Len(flow.stitch) + 1
                  own == {i \in DOMAIN back.counts : back.counts[i].track = flow.track}
                  first == IF own = {} THEN 0
                           ELSE back.counts[CHOOSE i \in own : \A k \in own : i <= k].token
                  token == IF back.seek > 0 THEN first ELSE back.repos
              IN /\ flow' = Spliced(IF back.seek > 0 THEN back.seek ELSE token)
                 /\ back' = [Emptied(back) EXCEPT !.counts =
                               IF token = 0 THEN <<>>
                               ELSE <<[off |-> at, token |-> token, track |-> flow.track]>>]
  <2> DEFINE own == {i \in DOMAIN back.counts : back.counts[i].track = flow.track}
             i0 == CHOOSE i \in own : \A k \in own : i <= k
             first == IF own = {} THEN 0 ELSE back.counts[i0].token
             token == IF back.seek > 0 THEN first ELSE back.repos
  <2>1. first \in Nat /\ (first # 0 => Counting(first))
    <3>1. CASE own = {}
      BY <3>1
    <3>2. CASE own # {}
      <4>1. own \subseteq 1 .. Len(back.counts)
        BY <1>0, LenProperties DEF Ledger
      <4>2. own \subseteq Nat
        BY <4>1
      <4>3. \E i \in own : \A k \in own : i <= k
        BY <3>2, <4>2, LeastOfNat
      <4>4. i0 \in own
        BY <4>3
      <4>5. i0 \in 1 .. Len(back.counts)
        BY <4>1, <4>4
      <4>6. back.counts[i0].token \in Nat
        BY <1>0, <4>5, CountTyped DEF Count
      <4>7. first = back.counts[i0].token
        BY <3>2
      <4> HIDE DEF first, i0
      <4> QED
        BY <4>5, <4>6, <4>7 DEF Counting
    <3> QED
      BY <3>1, <3>2
  <2>2. /\ flow' = Spliced(IF back.seek > 0 THEN back.seek ELSE token)
        /\ back' = [Emptied(back) EXCEPT !.counts =
                      IF token = 0 THEN <<>>
                      ELSE <<[off |-> Len(flow.stitch) + 1, token |-> token, track |-> flow.track]>>]
    BY <1>4
  <2> HIDE DEF first
  <2>3. back.seek \in Nat /\ back.repos \in Nat
    BY <1>0 DEF Ledger
  <2>4. token \in Nat /\ (token # 0 => ReKeyed(token)) /\ (back.seek = 0 => token = back.repos)
        /\ (token # 0 /\ back.seek # 0 => Counting(token))
    BY <2>1, <2>3 DEF ReKeyed
  <2> HIDE DEF token
  <2> QED
    BY <1>1, <1>4, <2>2, <2>4, RepositionOpens
<1>5. CASE ~FirstOfAll /\ ~flow.repos /\ flow' = [flow EXCEPT !.pc = "boundary", !.saw = queue.gen]
           /\ back' = back
  <2>1. SameStream(flow, flow')
    BY <1>0, <1>5, FlowToBoundary DEF FirstOfAll
  <2> QED
    BY <1>0, <1>1, <1>5, <2>1, StepsKeep DEF FlowShape
<1>6. CASE flow' = Detached(flow) /\ back' = Emptied(back)
  <2>1. /\ back' \in Ledger /\ back'.token = back.token /\ back'.repos = 0 /\ back'.counts = <<>>
    BY <1>0, <1>6, EmptiedTyped
  <2>2. FlowShape'
    BY <1>0, <1>1, <1>6, <2>1, DetachedShape DEF FlowShape
  <2> QED
    BY <1>1, <1>6, <2>1, <2>2, DetachKeeps
<1> QED
  BY <1>2, <1>3, <1>4, <1>5, <1>6 DEF PumpOpens

\* A count at the end of the ledger, for a token that was just issued.
LEMMA LedgerGrows ==
  ASSUME FlowShape, OncePerToken, Issues, host = "none", host' = host, NEW c \in Count,
         c.token = told.last + 1, back' = [back EXCEPT !.counts = Append(@, c)]
  PROVE  /\ OncePerToken' /\ back' \in Ledger /\ back'.token = back.token /\ back'.seek = back.seek
         /\ Len(back.counts) \in Nat /\ Len(back'.counts) = Len(back.counts) + 1
         /\ \A i \in 1 .. Len(back.counts) : back'.counts[i] = back.counts[i]
         /\ back'.counts[Len(back.counts) + 1] = c
<1>0. /\ back \in Ledger /\ back.counts \in Seq(Count) /\ told.last \in Nat
      /\ \A n \in Tokens : n \in Nat \ {0}
  BY DEF FlowShape, Ledger, Tokens
<1>1. told'.last = told.last + 1 /\ told'.confirmed = told.confirmed
  BY DEF FlowShape, Issues
<1>2. /\ Append(back.counts, c) \in Seq(Count) /\ Len(back.counts) \in Nat
      /\ Len(Append(back.counts, c)) = Len(back.counts) + 1
      /\ \A i \in 1 .. Len(back.counts) : Append(back.counts, c)[i] = back.counts[i]
      /\ Append(back.counts, c)[Len(back.counts) + 1] = c
  BY <1>0, AppendProperties, LenProperties
<1>3. /\ back' \in Ledger /\ back'.token = back.token /\ back'.seek = back.seek
      /\ back'.repos = back.repos /\ back'.counts = Append(back.counts, c)
  BY <1>0, <1>2 DEF Ledger
<1>4. \A i \in 1 .. Len(back'.counts) : i \in 1 .. Len(back.counts) \/ i = Len(back.counts) + 1
  BY <1>2, <1>3
<1>5. \A n \in Nat \ {0} : Counting(n)' => Counting(n) \/ n = told.last + 1
  BY <1>2, <1>3, <1>4 DEF Counting
<1>6. \A n \in Nat \ {0} : Waiting(n)' => Waiting(n) \/ n = told.last + 1
  BY <1>3, <1>5 DEF Waiting
<1>7. ~Waiting(told.last + 1)
  BY <1>0 DEF OncePerToken
<1>8. /\ \A n \in Nat \ {0} : Waiting(n)' => n <= told'.last
      /\ \A n \in Tokens : Waiting(n)' \/ n > told'.last => told'.confirmed[n] = 0
      /\ \A n \in Tokens : told'.confirmed[n] <= 1
  BY <1>0, <1>1, <1>6 DEF OncePerToken
<1>9. \A n \in Nat \ {0} : ~(n = back'.token /\ n = back'.repos)
                            /\ ~(Counting(n)' /\ (n = back'.token \/ n = back'.repos))
  BY <1>3, <1>5, <1>7 DEF OncePerToken, Waiting
<1>10. ASSUME NEW i \in 1 .. Len(back'.counts), NEW j \in 1 .. Len(back'.counts),
              back'.counts[i].token = back'.counts[j].token
       PROVE  i = j
  <2>1. CASE i \in 1 .. Len(back.counts) /\ j \in 1 .. Len(back.counts)
    BY <1>2, <1>3, <1>10, <2>1 DEF OncePerToken
  <2>2. ASSUME NEW a \in 1 .. Len(back.counts) PROVE back.counts[a].token # c.token
    BY <1>7 DEF Waiting, Counting
  <2>3. CASE i = Len(back.counts) + 1 \/ j = Len(back.counts) + 1
    BY <1>2, <1>3, <1>4, <1>10, <2>2, <2>3
  <2> QED
    BY <1>4, <2>1, <2>3
<1> QED
  BY <1>2, <1>3, <1>8, <1>9, <1>10 DEF OncePerToken

LEMMA CrossesKeeps ==
  ASSUME FlowInv, PumpCrosses
  PROVE  FlowInv'
<1> DEFINE token == IF BoundaryStale THEN 0 ELSE told.last + 1
           x == [track |-> flow.track, token |-> token]
           c == [off |-> Len(flow.stitch) + 1, token |-> told.last + 1, track |-> flow.track]
<1>0. /\ FlowShape /\ OncePerToken /\ ConfirmedHeard
      /\ CountsInStream /\ FirstIsDispatched /\ PassedIsHeard
  BY DEF FlowInv
<1>1. /\ FlowOf(flow) /\ flow.track \in Nat /\ told.last \in Nat /\ back \in Ledger
      /\ flow.pc = "boundary" => flow.stitch # <<>>
  BY <1>0 DEF FlowShape, FlowOf
<1>2. x \in Segment /\ x.token = token
  BY <1>1 DEF Segment
<1>3. /\ flow.stitch # <<>> /\ host = "none" /\ dev' = dev /\ status' = status /\ host' = host
      /\ truth' = truth
  BY <1>1 DEF PumpCrosses
<1>4. flow' = [flow EXCEPT !.pc = "feed", !.stitch = Append(@, x)]
  BY DEF PumpCrosses, Spliced
<1> HIDE DEF x
<1>5. /\ FlowOf(flow') /\ flow'.id = flow.id /\ flow'.live = flow.live /\ flow'.repos = flow.repos
      /\ Len(flow.stitch) \in Nat /\ Len(flow'.stitch) = Len(flow.stitch) + 1
      /\ \A j \in 1 .. Len(flow.stitch) : flow'.stitch[j] = flow.stitch[j]
      /\ flow'.stitch[Len(flow.stitch) + 1] = x /\ flow'.stitch # <<>>
      /\ 1 \in 1 .. Len(flow.stitch)
  BY <1>1, <1>2, <1>3, <1>4, StreamGrows
<1>6. PassedIsHeard'
  BY <1>0, <1>3, <1>5, PassedGrows
<1>7. ASSUME back'.token = back.token PROVE FirstIsDispatched'
  BY <1>0, <1>3, <1>5, <1>7 DEF FirstIsDispatched
<1>8. CASE BoundaryStale
  <2>1. queue' = queue /\ back' = back /\ told' = told
    BY <1>8 DEF PumpCrosses
  <2>2. FlowShape'
    BY <1>0, <1>3, <1>5, <2>1 DEF FlowShape
  <2>3. OncePerToken' /\ ConfirmedHeard'
    BY <1>0, <1>1, <1>3, <2>1, OnceKept, HeardKept
  <2>4. CountsInStream'
    BY <1>0, <1>5, <2>1, CountsGrow DEF CountsInStream
  <2> QED
    BY <1>6, <1>7, <2>1, <2>2, <2>3, <2>4 DEF FlowInv
<1>9. CASE ~BoundaryStale
  <2>1. /\ Issues /\ back' = [back EXCEPT !.counts = Append(@, c)]
        /\ queue' = IF queue.next = <<>> THEN [queue EXCEPT !.cur = 0]
                    ELSE [queue EXCEPT !.cur = Head(queue.next), !.next = Tail(@)]
    BY <1>9 DEF PumpCrosses
  <2>2. c \in Count /\ c.token = told.last + 1 /\ c.off = Len(flow.stitch) + 1
    BY <1>1, <1>5 DEF Count
  <2> HIDE DEF c
  <2>3. /\ OncePerToken' /\ back' \in Ledger /\ back'.token = back.token /\ back'.seek = back.seek
        /\ Len(back.counts) \in Nat /\ Len(back'.counts) = Len(back.counts) + 1
        /\ \A i \in 1 .. Len(back.counts) : back'.counts[i] = back.counts[i]
        /\ back'.counts[Len(back.counts) + 1] = c
    BY <1>0, <1>3, <2>1, <2>2, LedgerGrows
  <2>4. /\ told' \in [last : Nat, confirmed : [Tokens -> Nat]]
        /\ told'.confirmed = told.confirmed
    BY <1>0, <2>1 DEF FlowShape, Issues
  <2>5. queue' \in QueueShape
    <3>1. CASE queue.next = <<>>
      BY <1>0, <2>1, <3>1 DEF FlowShape, QueueShape
    <3>2. CASE queue.next # <<>>
      BY <1>0, <2>1, <3>2, FrontOfQueue DEF FlowShape, QueueShape
    <3> QED
      BY <3>1, <3>2
  <2>6. FlowShape'
    BY <1>0, <1>3, <1>5, <2>3, <2>4, <2>5 DEF FlowShape
  <2>7. ConfirmedHeard'
    BY <1>0, <1>3, <2>4 DEF ConfirmedHeard
  <2>8. CountsInStream'
    <3> SUFFICES ASSUME flow.live, NEW i \in 1 .. Len(back'.counts)
                 PROVE  /\ back'.counts[i].off <= Len(flow'.stitch)
                        /\ \E j \in 1 .. back'.counts[i].off :
                              flow'.stitch[j].token = back'.counts[i].token
      BY SMTT(30), <1>5 DEF CountsInStream
    <3>1. CASE i \in 1 .. Len(back.counts)
      <4>1. /\ back.counts[i].off <= Len(flow'.stitch)
            /\ \E j \in 1 .. back.counts[i].off : flow'.stitch[j].token = back.counts[i].token
        BY SMTT(30), <1>0, <1>5, <3>1, CountsGrow
      <4> QED
        BY <2>3, <3>1, <4>1
    <3>2. CASE i = Len(back.counts) + 1
      BY SMTT(30), <1>2, <1>5, <1>9, <2>2, <2>3, <3>2
    <3> QED
      BY <2>3, <3>1, <3>2
  <2> QED
    BY <1>6, <1>7, <2>3, <2>6, <2>7, <2>8 DEF FlowInv
<1> QED
  BY <1>8, <1>9

-----------------------------------------------------------------------------
(* The receiver and its statuses *)

LEMMA ReachesKeeps ==
  ASSUME FlowInv, DevReaches
  PROVE  FlowInv'
<1> DEFINE x == flow.stitch[dev.pos + 1]
<1>0. /\ FlowShape /\ OncePerToken /\ ConfirmedHeard
      /\ CountsInStream /\ FirstIsDispatched /\ PassedIsHeard
  BY DEF FlowInv
<1>1. /\ flow.live /\ dev.sess = flow.id /\ dev.pos < Len(flow.stitch)
      /\ dev' = [dev EXCEPT !.pos = @ + 1]
      /\ truth' = [truth EXCEPT !.heard = @ \cup {x.token}]
      /\ queue' = queue /\ flow' = flow /\ back' = back /\ status' = status /\ host' = host /\ told' = told
  BY DEF DevReaches, Fetching
<1>2. FlowOf(flow) /\ flow.stitch \in Seq(Segment) /\ dev \in Receiver /\ dev.pos \in Nat
      /\ truth \in [heard : SUBSET Nat, late : SUBSET Nat, lost : BOOLEAN]
  BY <1>0 DEF FlowShape, FlowOf, Receiver
<1>3. Len(flow.stitch) \in Nat /\ dev.pos + 1 \in 1 .. Len(flow.stitch)
  BY <1>1, <1>2, LenProperties
<1>4. x.token \in Nat
  <2>1. x \in Segment
    BY <1>2, <1>3, ElementOfSeq
  <2> QED
    BY <2>1 DEF Segment
<1>5. dev' \in Receiver /\ dev'.pos = dev.pos + 1 /\ dev'.sess = dev.sess
  BY <1>1, <1>2 DEF Receiver
<1>t. x.token = flow.stitch[dev.pos + 1].token
  OBVIOUS
<1> HIDE DEF x
<1>6. /\ truth' \in [heard : SUBSET Nat, late : SUBSET Nat, lost : BOOLEAN]
      /\ truth'.heard = truth.heard \cup {x.token} /\ truth'.late = truth.late
  BY <1>1, <1>2, <1>4
<1>7. FlowShape'
  BY <1>0, <1>1, <1>5, <1>6 DEF FlowShape
<1>8. OncePerToken' /\ ConfirmedHeard'
  <2>1. truth.heard \cup truth.late \subseteq truth'.heard \cup truth'.late
    BY <1>6
  <2> QED
    BY <1>0, <1>1, <2>1, OnceKept, HeardKept DEF FlowShape
<1>9. CountsInStream' /\ FirstIsDispatched'
  BY <1>0, <1>1 DEF CountsInStream, FirstIsDispatched
<1>10. PassedIsHeard'
  <2>1. /\ \A j \in 1 .. dev.pos : flow.stitch[j].token \in truth.heard
        /\ \A i \in 1 .. Len(status) : status[i].id = flow.id => status[i].pos <= dev.pos
    BY <1>0, <1>1 DEF PassedIsHeard
  <2>2. ASSUME NEW j \in 1 .. dev'.pos PROVE flow.stitch[j].token \in truth'.heard
    <3>1. j \in 1 .. dev.pos \/ j = dev.pos + 1
      BY <1>2, <1>5
    <3> QED
      BY <1>6, <1>t, <2>1, <3>1
  <2>3. ASSUME NEW i \in 1 .. Len(status), status[i].id = flow.id PROVE status[i].pos <= dev'.pos
    <3>1. status \in Seq(Status)
      BY <1>0 DEF FlowShape
    <3>2. status[i] \in Status
      BY <3>1, ElementOfSeq
    <3>3. status[i].pos \in Nat /\ status[i].pos <= dev.pos
      BY <2>1, <2>3, <3>2 DEF Status
    <3> QED
      BY <1>2, <1>5, <3>3
  <2>4. dev'.pos <= Len(flow.stitch)
    BY <1>1, <1>2, <1>3, <1>5
  <2> QED
    BY <1>0, <1>1, <1>5, <2>2, <2>3, <2>4 DEF PassedIsHeard
<1> QED
  BY <1>7, <1>8, <1>9, <1>10 DEF FlowInv

\* A status that is sent says where the receiver is.
LEMMA SaysKeeps ==
  ASSUME FlowInv, NEW kind \in {"PLAYING", "FINISHED", "ERROR"}, Says(kind),
         kind = "PLAYING" => dev.pos > 0,
         dev' \in Receiver, dev'.sess = dev.sess, dev'.pos = dev.pos,
         queue' = queue, flow' = flow, back' = back, host' = host, told' = told, truth' = truth
  PROVE  FlowInv'
<1> DEFINE s == [id |-> dev.sess, state |-> kind, pos |-> dev.pos]
<1>0. /\ FlowShape /\ OncePerToken /\ ConfirmedHeard
      /\ CountsInStream /\ FirstIsDispatched /\ PassedIsHeard
  BY DEF FlowInv
<1>1. s \in Status /\ s.id = dev.sess /\ s.state = kind /\ s.pos = dev.pos /\ status' = Append(status, s)
  BY <1>0 DEF FlowShape, Receiver, Status, Says
<1>2. dev.pos \in Nat /\ status \in Seq(Status)
  BY <1>0 DEF FlowShape, Receiver
<1> HIDE DEF s
<1>3. /\ status' \in Seq(Status) /\ Len(status) \in Nat /\ Len(status') = Len(status) + 1
      /\ \A i \in 1 .. Len(status) : status'[i] = status[i]
      /\ status'[Len(status) + 1] = s
  BY <1>1, <1>2, AppendProperties, LenProperties
<1>4. \A i \in 1 .. Len(status') : i \in 1 .. Len(status) \/ i = Len(status) + 1
  BY <1>3
<1>5. FlowShape'
  BY <1>0, <1>3 DEF FlowShape
<1>6. OncePerToken' /\ ConfirmedHeard'
  BY <1>0, OnceKept, HeardKept DEF FlowShape
<1>7. CountsInStream' /\ FirstIsDispatched'
  BY <1>0 DEF CountsInStream, FirstIsDispatched
<1>8. PassedIsHeard'
  <2>1. ASSUME NEW i \in 1 .. Len(status')
        PROVE  /\ status'[i].id <= flow.id
               /\ flow.live /\ status'[i].id = flow.id =>
                     /\ dev.sess = flow.id /\ status'[i].pos <= dev.pos
                     /\ status'[i].state = "PLAYING" => status'[i].pos > 0
               /\ flow.live /\ host = "load" => status'[i].id # flow.id
    <3>1. CASE i \in 1 .. Len(status)
      BY <1>0, <1>3, <3>1 DEF PassedIsHeard
    <3>2. CASE i = Len(status) + 1
      BY <1>0, <1>1, <1>2, <1>3, <3>2 DEF PassedIsHeard
    <3> QED
      BY <1>4, <3>1, <3>2
  <2> QED
    BY <1>0, <2>1 DEF PassedIsHeard
<1> QED
  BY <1>5, <1>6, <1>7, <1>8 DEF FlowInv

LEMMA ReportsKeeps ==
  ASSUME FlowInv, DevReports \/ DevStops
  PROVE  FlowInv'
<1>0. dev \in Receiver
  BY DEF FlowInv, FlowShape
<1>1. /\ queue' = queue /\ flow' = flow /\ back' = back /\ host' = host /\ told' = told /\ truth' = truth
  BY DEF DevReports, DevStops
<1>2. CASE DevReports
  <2>1. Says("PLAYING") /\ dev.pos > 0 /\ dev' = [dev EXCEPT !.said = dev.pos]
    BY <1>2 DEF DevReports
  <2>2. dev' \in Receiver /\ dev'.sess = dev.sess /\ dev'.pos = dev.pos
    BY <1>0, <2>1 DEF Receiver
  <2> QED
    BY <1>1, <2>1, <2>2, SaysKeeps
<1>3. CASE DevStops
  <2>1. (Says("FINISHED") \/ Says("ERROR")) /\ dev' = [dev EXCEPT !.st = "idle"]
    BY <1>3 DEF DevStops
  <2>2. dev' \in Receiver /\ dev'.sess = dev.sess /\ dev'.pos = dev.pos
    BY <1>0, <2>1 DEF Receiver
  <2>3. CASE Says("FINISHED")
    BY <1>1, <2>2, <2>3, SaysKeeps
  <2>4. CASE Says("ERROR")
    BY <1>1, <2>2, <2>4, SaysKeeps
  <2> QED
    BY <2>1, <2>3, <2>4
<1> QED
  BY <1>2, <1>3

\* A session whose end is suspected.
LEMMA SuspectsKeeps ==
  ASSUME FlowInv, Suspects, queue' = queue, status' = status, told' = told, truth' = truth,
         dev' = dev, host' = host \/ host' = "none"
  PROVE  FlowInv'
<1>0. FlowShape /\ back \in Ledger /\ host \in {"none", "play", "load", "return"} /\ dev \in Receiver
  BY DEF FlowInv, FlowShape
<1>1. /\ flow' = Detached(flow) /\ back' \in Ledger /\ back'.token = back.token /\ back'.repos = 0
      /\ back'.counts = <<>>
  BY <1>0, EmptiedTyped DEF Suspects
<1>2. FlowShape'
  BY <1>0, <1>1, DetachedShape
<1> QED
  BY <1>1, <1>2, DetachKeeps

LEMMA GraceKeeps ==
  ASSUME FlowInv, GraceExpires
  PROVE  FlowInv'
  BY SuspectsKeeps DEF GraceExpires

\* Confirming tokens that wait, and that leave the ledger with it.
LEMMA Confirming ==
  ASSUME FlowShape, OncePerToken, NEW S, \A n \in S : n \in Nat \ {0} /\ Waiting(n),
         told' = ConfirmAll(told, S), host' = host, back'.token \in {back.token, 0},
         back'.repos \in {back.repos, 0},
         \A n \in Nat \ {0} : (Counting(n)' => Counting(n)) /\ (Waiting(n)' => n \notin S),
         \A i, j \in 1 .. Len(back'.counts) : back'.counts[i].token = back'.counts[j].token => i = j
  PROVE  /\ OncePerToken' /\ told' \in [last : Nat, confirmed : [Tokens -> Nat]]
         /\ \A n \in Tokens : told'.confirmed[n] > 0 => told.confirmed[n] > 0 \/ n \in S
<1>0. /\ told \in [last : Nat, confirmed : [Tokens -> Nat]] /\ told.last \in Nat
      /\ \A n \in Tokens : n \in Nat \ {0} /\ told.confirmed[n] \in Nat
  <2>1. told \in [last : Nat, confirmed : [Tokens -> Nat]]
    BY DEF FlowShape
  <2>2. \A n \in Tokens : n \in Nat \ {0}
    BY DEF Tokens
  <2> QED
    BY <2>1, <2>2
<1>1. /\ told'.last = told.last
      /\ told'.confirmed = [n \in Tokens |-> IF n \in S THEN told.confirmed[n] + 1 ELSE told.confirmed[n]]
  BY <1>0 DEF ConfirmAll
<1>2. told' \in [last : Nat, confirmed : [Tokens -> Nat]]
  <2>1. [n \in Tokens |-> IF n \in S THEN told.confirmed[n] + 1 ELSE told.confirmed[n]] \in [Tokens -> Nat]
    BY <1>0
  <2> QED
    BY <1>0, <2>1 DEF ConfirmAll
<1>3. \A n \in Tokens : told'.confirmed[n] = IF n \in S THEN told.confirmed[n] + 1 ELSE told.confirmed[n]
  BY <1>1
<1>4. \A n \in Nat \ {0} : Waiting(n)' => Waiting(n) /\ n \notin S
  BY DEF Waiting
<1>5. \A n \in Nat \ {0} : Waiting(n)' => n <= told'.last
  BY <1>1, <1>4 DEF OncePerToken
<1>6. ASSUME NEW n \in Tokens
      PROVE  /\ Waiting(n)' \/ n > told'.last => told'.confirmed[n] = 0
             /\ told'.confirmed[n] <= 1
  <2>1. n \in S => Waiting(n) /\ n <= told.last /\ told.confirmed[n] = 0
    BY <1>0 DEF OncePerToken
  <2>2. told.confirmed[n] <= 1 /\ (Waiting(n) \/ n > told.last => told.confirmed[n] = 0)
    BY DEF OncePerToken
  <2> QED
    BY <1>0, <1>1, <1>3, <1>4, <2>1, <2>2
<1>7. \A n \in Nat \ {0} : ~(n = back'.token /\ n = back'.repos)
                            /\ ~(Counting(n)' /\ (n = back'.token \/ n = back'.repos))
  BY DEF OncePerToken
<1>8. host' = "play" =>
          /\ told'.last # 0 /\ ~Waiting(told.last)'
          /\ told'.last \in Tokens => told'.confirmed[told'.last] = 0
  BY <1>0, <1>1, <1>3, <1>4 DEF OncePerToken
<1>9. \A n \in Tokens : told'.confirmed[n] > 0 => told.confirmed[n] > 0 \/ n \in S
  BY <1>3
<1> QED
  BY <1>2, <1>5, <1>6, <1>7, <1>8, <1>9 DEF OncePerToken

\* The front of the ledger that a status has crossed.
LEMMA CrossedIs ==
  ASSUME back \in Ledger, NEW s \in Status
  PROVE  /\ Crossed(s) \in 0 .. Len(back.counts) /\ Len(back.counts) \in Nat
         /\ \A i \in 1 .. Crossed(s) : back.counts[i].off <= s.pos
<1> DEFINE Passed(n) == /\ \A i \in 1 .. n : back.counts[i].off <= s.pos
                        /\ n = Len(back.counts) \/ back.counts[n + 1].off > s.pos
           N == {n \in 0 .. Len(back.counts) :
                    n = Len(back.counts) \/ ~(back.counts[n + 1].off <= s.pos)}
<1>1. Len(back.counts) \in Nat /\ s.pos \in Nat
  BY LenProperties DEF Ledger, Status
<1>2. \A i \in 1 .. Len(back.counts) : back.counts[i].off \in Nat
  BY CountTyped DEF Count
<1>3. N \subseteq Nat /\ Len(back.counts) \in N
  BY <1>1
<1>4. PICK n \in N : \A k \in N : n <= k
  BY <1>3, LeastOfNat
<1>5. n \in 0 .. Len(back.counts) /\ n \in Nat
  BY <1>3
<1>6. ASSUME NEW i \in 1 .. n PROVE back.counts[i].off <= s.pos
  <2>1. i - 1 \in 0 .. Len(back.counts) /\ i - 1 # Len(back.counts) /\ ~(n <= i - 1) /\ (i - 1) + 1 = i
    BY <1>1, <1>5
  <2>2. i - 1 \notin N
    BY <1>4, <2>1
  <2> QED
    BY <2>1, <2>2
<1>7. n = Len(back.counts) \/ back.counts[n + 1].off > s.pos
  <2>1. n = Len(back.counts) \/ ~(back.counts[n + 1].off <= s.pos)
    BY <1>4
  <2>2. n # Len(back.counts) => n + 1 \in 1 .. Len(back.counts)
    BY <1>1, <1>5
  <2> QED
    BY <1>1, <1>2, <2>1, <2>2
<1>8. Crossed(s) \in 0 .. Len(back.counts) /\ Passed(Crossed(s))
  <2>1. \E k \in 0 .. Len(back.counts) : Passed(k)
    BY <1>5, <1>6, <1>7
  <2>2. Crossed(s) = CHOOSE k \in 0 .. Len(back.counts) : Passed(k)
    BY DEF Crossed
  <2> HIDE DEF Passed
  <2> QED
    BY <2>1, <2>2
<1> QED
  BY <1>1, <1>8

\* What is left of a ledger whose front is taken away.
LEMMA LedgerRest ==
  ASSUME back \in Ledger, NEW n \in 0 .. Len(back.counts), Len(back.counts) \in Nat
  PROVE  LET r == SubSeq(back.counts, n + 1, Len(back.counts))
         IN  /\ r \in Seq(Count) /\ Len(r) = Len(back.counts) - n
             /\ \A i \in 1 .. Len(r) : /\ n + i \in 1 .. Len(back.counts)
                                      /\ r[i] = back.counts[n + i]
<1> DEFINE r == SubSeq(back.counts, n + 1, Len(back.counts))
<1>1. \A i \in n + 1 .. Len(back.counts) : back.counts[i] \in Count
  <2>1. \A i \in n + 1 .. Len(back.counts) : i \in 1 .. Len(back.counts)
    OBVIOUS
  <2> QED
    BY <2>1, CountTyped
<1>2. n + 1 \in Int /\ Len(back.counts) \in Int
  OBVIOUS
<1>3. /\ r \in Seq(Count)
      /\ Len(r) = IF n + 1 <= Len(back.counts) THEN Len(back.counts) - (n + 1) + 1 ELSE 0
      /\ \A i \in 1 .. Len(back.counts) - (n + 1) + 1 : r[i] = back.counts[(n + 1) + i - 1]
  BY <1>1, <1>2, SubSeqProperties
<1> HIDE DEF r
<1>4. Len(r) = Len(back.counts) - n
  BY <1>3
<1>5. ASSUME NEW i \in 1 .. Len(r)
      PROVE  /\ n + i \in 1 .. Len(back.counts) /\ r[i] = back.counts[n + i]
  <2>1. i \in 1 .. Len(back.counts) - (n + 1) + 1 /\ (n + 1) + i - 1 = n + i
    BY <1>4
  <2>2. r[i] = back.counts[(n + 1) + i - 1]
    BY <1>3, <2>1
  <2> QED
    BY <1>4, <2>1, <2>2
<1> QED
  BY <1>3, <1>4, <1>5 DEF r

LEMMA StatusPops ==
  ASSUME FlowShape, status # <<>>, status' = Tail(status)
  PROVE  /\ status' \in Seq(Status) /\ Head(status) = status[1] /\ 1 \in 1 .. Len(status)
         /\ Head(status) \in Status
         /\ \A i \in 1 .. Len(status') : i + 1 \in 1 .. Len(status) /\ status'[i] = status[i + 1]
<1>1. status \in Seq(Status)
  BY DEF FlowShape
<1>2. /\ Head(status) = status[1] /\ status' \in Seq(Status) /\ Len(status') = Len(status) - 1
      /\ \A i \in 1 .. Len(status') : status'[i] = status[i + 1]
      /\ Head(status) \in Status
  BY <1>1, HeadTailProperties
<1>3. Len(status) \in Nat \ {0}
  BY <1>1, EmptySeq
<1> QED
  BY <1>2, <1>3

LEMMA PassedPops ==
  ASSUME FlowShape, PassedIsHeard, status # <<>>, status' = Tail(status),
         flow' = flow, dev' = dev, host' = host, truth'.heard = truth.heard
  PROVE  PassedIsHeard'
<1>1. \A i \in 1 .. Len(status') : i + 1 \in 1 .. Len(status) /\ status'[i] = status[i + 1]
  BY StatusPops
<1> HIDE DEF FlowShape
<1> QED
  BY <1>1 DEF PassedIsHeard

LEMMA ShapeIs ==
  ASSUME queue' \in QueueShape, FlowOf(flow'), dev' \in Receiver, back' \in Ledger,
         status' \in Seq(Status), host' \in {"none", "play", "load", "return"},
         told' \in [last : Nat, confirmed : [Tokens -> Nat]],
         truth' \in [heard : SUBSET Nat, late : SUBSET Nat, lost : BOOLEAN]
  PROVE  FlowShape'
  BY DEF FlowShape

LEMMA PlayingKeeps ==
  ASSUME FlowInv, flow.live, status # <<>>, status' = Tail(status), Head(status).state = "PLAYING",
         PlayingHeard(Head(status)), queue' = queue, flow' = flow, dev' = dev, host' = host
  PROVE  FlowInv'
<1> DEFINE s == Head(status)
           n == Crossed(s)
           r == SubSeq(back.counts, n + 1, Len(back.counts))
           fired == {back.counts[i].token : i \in 1 .. n}
           all == fired \cup (IF back.token = 0 THEN {} ELSE {back.token})
<1>0. /\ FlowShape /\ OncePerToken /\ ConfirmedHeard
      /\ CountsInStream /\ FirstIsDispatched /\ PassedIsHeard
  BY DEF FlowInv
<1>1. /\ status' \in Seq(Status) /\ s = status[1] /\ 1 \in 1 .. Len(status) /\ s \in Status
  BY <1>0, StatusPops
<1>2. back \in Ledger /\ back.token \in Nat /\ FlowOf(flow) /\ dev.pos \in Nat /\ s.pos \in Nat
      /\ truth \in [heard : SUBSET Nat, late : SUBSET Nat, lost : BOOLEAN]
      /\ flow.stitch \in Seq(Segment)
  BY <1>0, <1>1 DEF FlowShape, Ledger, Receiver, Status, FlowOf
<1>3. /\ back' = [back EXCEPT !.token = 0, !.counts = r] /\ told' = ConfirmAll(told, all)
      /\ truth' = IF s.id = flow.id THEN truth ELSE [truth EXCEPT !.late = @ \cup all]
  BY DEF PlayingHeard
<1>4. n \in 0 .. Len(back.counts) /\ Len(back.counts) \in Nat
      /\ \A i \in 1 .. n : i \in 1 .. Len(back.counts) /\ back.counts[i].off <= s.pos
  BY <1>1, <1>2, CrossedIs
<1>s. s.state = "PLAYING"
  OBVIOUS
<1> HIDE DEF n, s
<1>5. /\ r \in Seq(Count)
      /\ \A i \in 1 .. Len(r) : n + i \in 1 .. Len(back.counts) /\ r[i] = back.counts[n + i]
  BY <1>2, <1>4, LedgerRest
<1> HIDE DEF r
<1>6. /\ back' \in Ledger /\ back'.token = 0 /\ back'.repos = back.repos /\ back'.counts = r
  BY <1>2, <1>3, <1>5 DEF Ledger
<1>7. \A m \in fired : m \in Nat \ {0} /\ Counting(m)
  BY <1>2, <1>4, CountTyped DEF Counting, Count
<1>8. \A m \in all : m \in Nat \ {0} /\ Waiting(m)
  BY <1>2, <1>7 DEF Waiting
<1>9. ASSUME NEW m \in Nat \ {0}, Counting(m)' PROVE Counting(m) /\ m \notin all
  <2>1. PICK i \in 1 .. Len(r) : r[i].token = m
    BY <1>6, <1>9 DEF Counting
  <2>2. n + i \in 1 .. Len(back.counts) /\ back.counts[n + i].token = m
    BY <1>5, <2>1
  <2>3. Counting(m)
    BY <2>2 DEF Counting
  <2>4. m # back.token
    BY <1>0, <2>3 DEF OncePerToken
  <2>5. ASSUME NEW k \in 1 .. n PROVE back.counts[k].token # m
    <3>1. k \in 1 .. Len(back.counts) /\ k # n + i
      BY <1>4, <2>1
    <3> QED
      BY <1>0, <2>2, <3>1 DEF OncePerToken
  <2> QED
    BY <2>3, <2>4, <2>5
<1>10. ASSUME NEW m \in Nat \ {0}, Waiting(m)' PROVE m \notin all
  <2>1. CASE Counting(m)'
    BY <1>9, <2>1
  <2>2. CASE m = back.repos
    <3>1. m # back.token /\ ~Counting(m)
      BY <1>0, <2>2 DEF OncePerToken
    <3> QED
      BY <1>7, <3>1
  <2> QED
    BY <1>6, <1>10, <2>1, <2>2 DEF Waiting
<1>11. ASSUME NEW i \in 1 .. Len(r), NEW j \in 1 .. Len(r), r[i].token = r[j].token PROVE i = j
  <2>1. /\ n + i \in 1 .. Len(back.counts) /\ n + j \in 1 .. Len(back.counts)
        /\ back.counts[n + i].token = back.counts[n + j].token
    BY <1>5, <1>11
  <2>2. n + i = n + j
    BY <1>0, <2>1 DEF OncePerToken
  <2> QED
    BY <1>4, <2>2
<1> HIDE DEF all
<1>12. /\ OncePerToken' /\ told' \in [last : Nat, confirmed : [Tokens -> Nat]]
       /\ \A m \in Tokens : told'.confirmed[m] > 0 => told.confirmed[m] > 0 \/ m \in all
  BY <1>0, <1>3, <1>6, <1>8, <1>9, <1>10, <1>11, Confirming
<1>13. /\ truth' \in [heard : SUBSET Nat, late : SUBSET Nat, lost : BOOLEAN]
       /\ truth'.heard = truth.heard /\ truth.late \subseteq truth'.late
       /\ s.id # flow.id => all \subseteq truth'.late
  <2>1. all \subseteq Nat
    BY <1>8
  <2> QED
    BY <1>2, <1>3, <2>1
<1>14. ASSUME s.id = flow.id PROVE all \subseteq truth.heard
  <2>1. /\ dev.sess = flow.id /\ s.pos <= dev.pos /\ s.pos > 0
    BY <1>0, <1>1, <1>14, <1>s DEF PassedIsHeard
  <2>2. /\ dev.pos <= Len(flow.stitch)
        /\ \A j \in 1 .. dev.pos : flow.stitch[j].token \in truth.heard
    BY <1>0, <2>1 DEF PassedIsHeard
  <2>3. ASSUME NEW i \in 1 .. n PROVE back.counts[i].token \in truth.heard
    <3>1. back.counts[i].off <= s.pos /\ back.counts[i].off \in Nat
      BY <1>2, <1>4, CountTyped DEF Count
    <3>2. PICK j \in 1 .. back.counts[i].off : flow.stitch[j].token = back.counts[i].token
      BY <1>0, <1>4 DEF CountsInStream
    <3>3. j \in 1 .. dev.pos
      BY <1>2, <2>1, <3>1
    <3> QED
      BY <2>2, <3>2, <3>3
  <2>4. ASSUME back.token # 0 PROVE back.token \in truth.heard
    <3>1. 1 \in 1 .. dev.pos
      BY <1>2, <2>1
    <3>2. flow.stitch # <<>>
      BY <1>2, <2>1, <2>2, EmptySeq
    <3>3. flow.stitch[1].token = back.token
      BY <1>0, <2>4, <3>2 DEF FirstIsDispatched
    <3> QED
      BY <2>2, <3>1, <3>3
  <2> QED
    BY <2>3, <2>4 DEF all
<1>15. ConfirmedHeard'
  BY <1>0, <1>12, <1>13, <1>14 DEF ConfirmedHeard
<1>16. FlowShape'
  <2>1. /\ queue \in QueueShape /\ FlowOf(flow) /\ dev \in Receiver
        /\ host \in {"none", "play", "load", "return"}
    BY <1>0 DEF FlowShape
  <2>2. /\ back' \in Ledger /\ status' \in Seq(Status)
        /\ told' \in [last : Nat, confirmed : [Tokens -> Nat]]
        /\ truth' \in [heard : SUBSET Nat, late : SUBSET Nat, lost : BOOLEAN]
    BY <1>1, <1>6, <1>12, <1>13
  <2> QED
    BY <2>1, <2>2, ShapeIs
<1>17. CountsInStream'
  <2>1. ASSUME flow.live, NEW i \in 1 .. Len(r)
        PROVE  /\ r[i].off <= Len(flow.stitch)
               /\ \E j \in 1 .. r[i].off : flow.stitch[j].token = r[i].token
    BY <1>0, <1>5, <2>1 DEF CountsInStream
  <2> QED
    BY <1>6, <2>1 DEF CountsInStream
<1>18. FirstIsDispatched'
  BY <1>6 DEF FirstIsDispatched
<1>19. PassedIsHeard'
  BY <1>0, <1>13, PassedPops
<1> QED
  BY <1>12, <1>15, <1>16, <1>17, <1>18, <1>19 DEF FlowInv

LEMMA ListensKeeps ==
  ASSUME FlowInv, Listens
  PROVE  FlowInv'
<1>0. /\ FlowShape /\ OncePerToken /\ ConfirmedHeard
      /\ CountsInStream /\ FirstIsDispatched /\ PassedIsHeard
  BY DEF FlowInv
<1>1. /\ status # <<>> /\ status' = Tail(status)
      /\ queue' = queue /\ flow' = flow /\ dev' = dev /\ host' = host
  BY DEF Listens
<1>2. CASE flow.live /\ Head(status).state = "PLAYING"
  <2>1. PlayingHeard(Head(status))
    BY <1>2 DEF Listens
  <2> QED
    BY <1>1, <1>2, <2>1, PlayingKeeps
<1>3. CASE ~(flow.live /\ Head(status).state = "PLAYING")
  <2>1. /\ back' = back \/ back' = [back EXCEPT !.playing = FALSE]
        /\ told' = told /\ truth' = truth
    BY <1>3 DEF Listens
  <2>2. /\ back' \in Ledger /\ back'.token = back.token /\ back'.repos = back.repos
        /\ back'.seek = back.seek /\ back'.counts = back.counts
    BY <1>0, <2>1 DEF FlowShape, Ledger
  <2>3. status' \in Seq(Status)
    BY <1>0, <1>1, StatusPops
  <2>4. FlowShape'
    BY <1>0, <1>1, <2>1, <2>2, <2>3 DEF FlowShape
  <2>5. OncePerToken' /\ ConfirmedHeard'
    BY <1>0, <1>1, <2>1, <2>2, OnceKept, HeardKept DEF FlowShape
  <2>6. CountsInStream' /\ FirstIsDispatched'
    BY <1>0, <1>1, <2>1, <2>2 DEF CountsInStream, FirstIsDispatched
  <2>7. PassedIsHeard'
    BY <1>0, <1>1, <2>1, PassedPops
  <2> QED
    BY <2>4, <2>5, <2>6, <2>7 DEF FlowInv
<1> QED
  BY <1>2, <1>3

-----------------------------------------------------------------------------
(* Callbacks on the event loop *)

\* What the last segment's end leaves in the ledger was heard to the end, or
\* else it is counted late.
LEMMA EndsKeeps ==
  ASSUME FlowInv, NaturalEnd
  PROVE  FlowInv'
<1> DEFINE rest == {back.counts[i].token : i \in DOMAIN back.counts}
<1>0. /\ FlowShape /\ OncePerToken /\ ConfirmedHeard
      /\ CountsInStream /\ FirstIsDispatched /\ PassedIsHeard
  BY DEF FlowInv
<1>1. /\ queue' = queue /\ dev' = dev /\ status' = status /\ host' = host
  BY DEF NaturalEnd
<1>2. CASE StaleEnd
  <2>1. back' = back /\ told' = told /\ flow' = flow /\ truth' = truth
    BY <1>2 DEF NaturalEnd
  <2> QED
    BY <1>0, <1>1, <2>1, FlowSame, StepsKeep DEF FlowShape
<1>3. CASE ~StaleEnd
  <2>1. /\ told' = ConfirmAll(told, rest)
        /\ truth' = [truth EXCEPT !.late = @ \cup (rest \ truth.heard)]
        /\ back' = [Emptied(back) EXCEPT !.playing = FALSE]
        /\ flow' = Detached(flow)
    BY <1>3 DEF NaturalEnd
  <2>2. /\ back \in Ledger /\ back' \in Ledger /\ back'.token = back.token /\ back'.repos = 0
        /\ back'.counts = <<>>
    BY <1>0, <2>1, EmptiedTyped DEF FlowShape
  <2>3. DOMAIN back.counts = 1 .. Len(back.counts)
    BY <2>2, LenProperties DEF Ledger
  <2>4. \A m \in rest : m \in Nat \ {0} /\ Counting(m)
    <3>1. ASSUME NEW m \in rest PROVE m \in Nat \ {0} /\ Counting(m)
      <4>1. PICK i \in 1 .. Len(back.counts) : m = back.counts[i].token
        BY <2>3
      <4> QED
        BY <2>2, <4>1, CountTyped DEF Counting, Count
    <3> QED
      BY <3>1
  <2> HIDE DEF rest
  <2>5. \A m \in Nat \ {0} : ~Counting(m)'
    BY <2>2, EmptySeq DEF Counting
  <2>6. \A m \in Nat \ {0} : Waiting(m)' => m \notin rest
    BY <1>0, <2>2, <2>4, <2>5 DEF Waiting, OncePerToken
  <2>7. \A i, j \in 1 .. Len(back'.counts) : back'.counts[i].token = back'.counts[j].token => i = j
    BY <2>2, EmptySeq
  <2>8. \A m \in rest : m \in Nat \ {0} /\ Waiting(m)
    BY <2>4 DEF Waiting
  <2>9. /\ OncePerToken' /\ told' \in [last : Nat, confirmed : [Tokens -> Nat]]
        /\ \A m \in Tokens : told'.confirmed[m] > 0 => told.confirmed[m] > 0 \/ m \in rest
    BY <1>0, <1>1, <2>1, <2>2, <2>5, <2>6, <2>7, <2>8, Confirming
  <2>10. /\ truth' \in [heard : SUBSET Nat, late : SUBSET Nat, lost : BOOLEAN]
         /\ truth'.heard = truth.heard /\ truth'.late = truth.late \cup (rest \ truth.heard)
    <3>1. truth \in [heard : SUBSET Nat, late : SUBSET Nat, lost : BOOLEAN]
      BY <1>0 DEF FlowShape
    <3>2. rest \subseteq Nat
      BY <2>4
    <3> QED
      BY <2>1, <3>1, <3>2
  <2>11. ConfirmedHeard'
    BY <1>0, <2>9, <2>10 DEF ConfirmedHeard
  <2>12. /\ FlowOf(flow') /\ flow'.live = FALSE /\ flow'.id = flow.id
    BY <1>0, <2>1, FlowNone DEF FlowShape, FlowOf, Detached
  <2>13. FlowShape'
    <3>1. /\ queue' \in QueueShape /\ dev' \in Receiver /\ status' \in Seq(Status)
          /\ host' \in {"none", "play", "load", "return"}
      BY <1>0, <1>1 DEF FlowShape
    <3> QED
      BY <2>2, <2>9, <2>10, <2>12, <3>1, ShapeIs
  <2>14. CountsInStream' /\ FirstIsDispatched' /\ PassedIsHeard'
    <3>1. dev.sess <= flow.id /\ \A i \in 1 .. Len(status) : status[i].id <= flow.id
      BY <1>0 DEF PassedIsHeard
    <3>2. dev'.sess <= flow'.id /\ \A i \in 1 .. Len(status') : status'[i].id <= flow'.id
      BY <1>1, <2>12, <3>1
    <3> QED
      BY <2>12, <3>2, NoStream
  <2> QED
    BY <2>9, <2>11, <2>13, <2>14 DEF FlowInv
<1> QED
  BY <1>2, <1>3

LEMMA OutageKeeps ==
  ASSUME FlowInv, SuspectsOutage
  PROVE  FlowInv'
<1>0. FlowShape
  BY DEF FlowInv
<1>1. /\ queue' = queue /\ dev' = dev /\ status' = status /\ host' = host /\ told' = told
      /\ truth' = truth
  BY DEF SuspectsOutage
<1>2. CASE ~flow.live
  <2>1. back' = back /\ flow' = flow
    BY <1>2 DEF SuspectsOutage
  <2> QED
    BY <1>0, <1>1, <2>1, FlowSame, StepsKeep DEF FlowShape
<1>3. CASE flow.live
  <2>1. Suspects
    BY <1>3 DEF SuspectsOutage
  <2> QED
    BY <1>1, <2>1, SuspectsKeeps
<1> QED
  BY <1>2, <1>3

\* The queue alone moves.
LEMMA QueueMoves ==
  ASSUME FlowInv, queue' \in QueueShape, flow' = flow, dev' = dev, back' = back, status' = status,
         host' = host, told' = told, truth' = truth
  PROVE  FlowInv'
<1>0. FlowShape
  BY DEF FlowInv
<1> QED
  BY <1>0, FlowSame, StepsKeep DEF FlowShape

LEMMA QueueTyped ==
  ASSUME NEW q \in QueueShape, NEW c \in Nat, NEW n \in Seq(Nat), NEW g \in Nat
  PROVE  LET r == [q EXCEPT !.cur = c, !.next = n, !.gen = g]
         IN  r \in QueueShape /\ [r EXCEPT !.held = FALSE] \in QueueShape
<1> DEFINE r == [q EXCEPT !.cur = c, !.next = n, !.gen = g]
<1>1. r \in QueueShape
  BY DEF QueueShape
<1> HIDE DEF r
<1>2. [r EXCEPT !.held = FALSE] \in QueueShape
  BY <1>1 DEF QueueShape
<1> QED
  BY <1>1, <1>2 DEF r

LEMMA DispatchTyped ==
  ASSUME queue \in QueueShape, queue.next # <<>>
  PROVE  Dispatched(queue) \in QueueShape /\ [Dispatched(queue) EXCEPT !.held = FALSE] \in QueueShape
<1>1. Head(queue.next) \in Nat /\ Tail(queue.next) \in Seq(Nat)
  BY FrontOfQueue
<1>2. queue.gen + 1 \in Nat
  BY SMTT(30) DEF QueueShape
<1>3. Dispatched(queue) = [queue EXCEPT !.cur = Head(queue.next), !.next = Tail(queue.next),
                                        !.gen = queue.gen + 1]
  BY SMTT(30) DEF Dispatched
<1> DEFINE r == [queue EXCEPT !.cur = Head(queue.next), !.next = Tail(queue.next),
                              !.gen = queue.gen + 1]
<1>4. r \in QueueShape /\ [r EXCEPT !.held = FALSE] \in QueueShape
  BY <1>1, <1>2, QueueTyped
<1>5. Dispatched(queue) = r
  BY <1>3
<1> HIDE DEF r
<1> QED
  BY <1>4, <1>5

\* A dispatch, from a press or from an advance.
LEMMA BeginsKeeps ==
  ASSUME FlowInv, queue' \in QueueShape, Issues, host = "none", host' = "play",
         flow' = flow, dev' = dev, back' = back, status' = status, truth' = truth
  PROVE  FlowInv'
<1>0. FlowShape
  BY DEF FlowInv
<1>1. told' \in [last : Nat, confirmed : [Tokens -> Nat]]
  <2>1. told \in [last : Nat, confirmed : [Tokens -> Nat]]
    BY <1>0 DEF FlowShape
  <2> QED
    BY <2>1 DEF Issues
<1>2. FlowShape'
  BY <1>0, <1>1 DEF FlowShape
<1> QED
  BY <1>2, DispatchKeeps

LEMMA MovesKeep ==
  ASSUME FlowInv, host = "none", Moves(queue),
         flow' = flow, dev' = dev, back' = back, status' = status, truth' = truth
  PROVE  FlowInv'
<1>0. queue \in QueueShape
  BY DEF FlowInv, FlowShape
<1>1. CASE queue.next = <<>>
  <2>1. queue' = [queue EXCEPT !.cur = 0] /\ host' = host /\ told' = told
    BY <1>1 DEF Moves
  <2>2. queue' \in QueueShape
    BY <1>0, <2>1 DEF QueueShape
  <2> QED
    BY <2>1, <2>2, QueueMoves
<1>2. CASE queue.next # <<>>
  <2>1. queue' = Dispatched(queue) /\ host' = "play" /\ Issues
    BY <1>2 DEF Moves
  <2>2. queue' \in QueueShape
    BY <1>0, <1>2, <2>1, DispatchTyped
  <2> QED
    BY <2>1, <2>2, BeginsKeeps
<1> QED
  BY <1>1, <1>2

LEMMA AdvancesKeep ==
  ASSUME FlowInv, Advances \/ Judges
  PROVE  FlowInv'
<1>0. queue \in QueueShape
  BY DEF FlowInv, FlowShape
<1>1. flow' = flow /\ dev' = dev /\ back' = back /\ status' = status /\ truth' = truth
  BY DEF Advances, Judges
<1>2. CASE queue' = queue /\ host' = host /\ told' = told
  BY <1>0, <1>1, <1>2, QueueMoves
<1>3. CASE Moves(queue) /\ host = "none"
  BY <1>1, <1>3, MovesKeep
<1>4. CASE /\ queue' = [queue EXCEPT !.held = TRUE, !.cur = 0,
                         !.next = IF queue.cur = 0 THEN @ ELSE <<queue.cur>> \o @]
           /\ host' = host /\ told' = told
  <2>1. queue.cur \in Nat /\ queue.next \in Seq(Nat)
    BY <1>0 DEF QueueShape
  <2>2. <<queue.cur>> \in Seq(Nat)
    BY <2>1
  <2>3. <<queue.cur>> \o queue.next \in Seq(Nat)
    BY <2>1, <2>2, ConcatProperties
  <2>4. queue' \in QueueShape
    BY <1>0, <1>4, <2>3 DEF QueueShape
  <2> QED
    BY <1>1, <1>4, <2>4, QueueMoves
<1> QED
  BY <1>2, <1>3, <1>4 DEF Advances, Judges

-----------------------------------------------------------------------------
(* The host *)

LEMMA SkipsKeep ==
  ASSUME FlowInv, HostSkips
  PROVE  FlowInv'
<1>0. queue \in QueueShape
  BY DEF FlowInv, FlowShape
<1>1. /\ host = "none" /\ host' = "play" /\ Issues /\ queue.next # <<>>
      /\ queue' = [Dispatched(queue) EXCEPT !.held = FALSE]
      /\ flow' = flow /\ dev' = dev /\ back' = back /\ status' = status /\ truth' = truth
  BY DEF HostSkips
<1>2. queue' \in QueueShape
  BY <1>0, <1>1, DispatchTyped
<1> QED
  BY <1>1, <1>2, BeginsKeeps

\* What a reposition, of a play or of a seek, leaves of the stream.
LEMMA RepositionStream ==
  ASSUME FlowShape, PassedIsHeard, SameParts(flow, flow'), dev'.sess = dev.sess, dev'.pos = dev.pos,
         status' = status, truth'.heard = truth.heard, host' = host \/ host' = "none"
  PROVE  PassedIsHeard'
<1>1. flow'.id = flow.id /\ flow'.live = flow.live /\ flow'.stitch = flow.stitch
  BY DEF SameParts
<1> HIDE DEF FlowShape
<1> QED
  BY <1>1 DEF PassedIsHeard

LEMMA RepositionsKeep ==
  ASSUME FlowInv, PlayRepositions
  PROVE  FlowInv'
<1>0. /\ FlowShape /\ OncePerToken /\ ConfirmedHeard
      /\ CountsInStream /\ FirstIsDispatched /\ PassedIsHeard
  BY DEF FlowInv
<1>1. /\ host = "play" /\ host' = "none" /\ queue' = queue /\ status' = status /\ told' = told
      /\ flow' = Repositioned
      /\ back' = [Emptied(back) EXCEPT !.token = 0, !.repos = told.last, !.playing = TRUE]
      /\ dev' = [dev EXCEPT !.st = IF @ = "paused" THEN "playing" ELSE @]
      /\ truth' = [truth EXCEPT !.lost = @ \/ flow.pc = "finalize"]
  BY DEF PlayRepositions
<1>2. /\ queue \in QueueShape /\ FlowOf(flow) /\ dev \in Receiver /\ back \in Ledger
      /\ status \in Seq(Status) /\ told \in [last : Nat, confirmed : [Tokens -> Nat]]
      /\ truth \in [heard : SUBSET Nat, late : SUBSET Nat, lost : BOOLEAN]
      /\ queue.cur \in Nat /\ told.last \in Nat
  BY <1>0 DEF FlowShape, QueueShape
<1>3. SameParts(flow, flow')
  BY <1>1, <1>2, FlowRepositions DEF Repositioned
<1>4. /\ back' \in Ledger /\ back'.token = 0 /\ back'.repos = told.last /\ back'.counts = <<>>
  <2>1. Emptied(back) \in Ledger /\ Emptied(back).counts = <<>>
    BY <1>2, EmptiedTyped
  <2> QED
    BY <1>1, <1>2, <2>1 DEF Ledger
<1>5. dev' \in Receiver /\ dev'.sess = dev.sess /\ dev'.pos = dev.pos
  BY <1>1, <1>2 DEF Receiver
<1>6. /\ truth' \in [heard : SUBSET Nat, late : SUBSET Nat, lost : BOOLEAN]
      /\ truth'.heard = truth.heard /\ truth'.late = truth.late
  BY <1>1, <1>2
<1>7. FlowShape'
  BY <1>1, <1>2, <1>3, <1>4, <1>5, <1>6, ShapeIs DEF SameParts
<1>8. OncePerToken'
  <2>1. \A n \in Nat \ {0} : ~Counting(n)' /\ (Waiting(n)' <=> n = told.last)
    BY <1>4, EmptySeq DEF Counting, Waiting
  <2>2. told.last \in Tokens => told.confirmed[told.last] = 0
    BY <1>0, <1>1 DEF OncePerToken
  <2>3. \A n \in Tokens : n \in Nat \ {0}
    BY DEF Tokens
  <2>4. /\ \A n \in Nat \ {0} : Waiting(n)' => n <= told'.last
        /\ \A n \in Tokens : Waiting(n)' \/ n > told'.last => told'.confirmed[n] = 0
        /\ \A n \in Tokens : told'.confirmed[n] <= 1
    BY <1>0, <1>1, <1>2, <2>1, <2>2, <2>3 DEF OncePerToken
  <2>5. \A i, j \in 1 .. Len(back'.counts) : back'.counts[i].token = back'.counts[j].token => i = j
    BY <1>4, EmptySeq
  <2>6. \A n \in Nat \ {0} : ~(n = back'.token /\ n = back'.repos)
                            /\ ~(Counting(n)' /\ (n = back'.token \/ n = back'.repos))
    BY <1>4, <2>1
  <2> QED
    BY <1>1, <2>4, <2>5, <2>6 DEF OncePerToken
<1>9. ConfirmedHeard'
  BY <1>0, <1>1, <1>6, HeardKept
<1>10. CountsInStream' /\ FirstIsDispatched'
  BY <1>4, EmptySeq DEF CountsInStream, FirstIsDispatched
<1>11. PassedIsHeard'
  BY <1>0, <1>1, <1>3, <1>5, <1>6, RepositionStream
<1> QED
  BY <1>7, <1>8, <1>9, <1>10, <1>11 DEF FlowInv

LEMMA SeeksKeep ==
  ASSUME FlowInv, HostSeeks
  PROVE  FlowInv'
<1>0. /\ FlowShape /\ OncePerToken /\ ConfirmedHeard
      /\ CountsInStream /\ FirstIsDispatched /\ PassedIsHeard
  BY DEF FlowInv
<1>1. /\ host = "none" /\ host' = host /\ queue' = queue /\ status' = status /\ told' = told
      /\ dev' = dev /\ flow' = [Repositioned EXCEPT !.paused = flow.paused]
      /\ back' = [back EXCEPT !.repos = 0, !.seek = told.last]
      /\ truth' = [truth EXCEPT !.lost = @ \/ flow.pc = "finalize"]
  BY DEF HostSeeks
<1>2. /\ queue \in QueueShape /\ FlowOf(flow) /\ dev \in Receiver /\ back \in Ledger
      /\ status \in Seq(Status) /\ told \in [last : Nat, confirmed : [Tokens -> Nat]]
      /\ truth \in [heard : SUBSET Nat, late : SUBSET Nat, lost : BOOLEAN]
      /\ queue.cur \in Nat /\ told.last \in Nat
  BY <1>0 DEF FlowShape, QueueShape
<1>3. SameParts(flow, flow')
  BY <1>1, <1>2, FlowRepositions DEF Repositioned
<1>4. /\ back' \in Ledger /\ back'.token = back.token /\ back'.repos = 0 /\ back'.seek = told.last
      /\ back'.counts = back.counts
  BY <1>1, <1>2 DEF Ledger
<1>6. /\ truth' \in [heard : SUBSET Nat, late : SUBSET Nat, lost : BOOLEAN]
      /\ truth'.heard = truth.heard /\ truth'.late = truth.late
  BY <1>1, <1>2
<1>7. FlowShape'
  <2>1. host' \in {"none", "play", "load", "return"}
    BY <1>1
  <2> QED
    BY <1>1, <1>2, <1>3, <1>4, <1>6, <2>1, ShapeIs DEF SameParts
<1>8. OncePerToken'
  BY <1>0, <1>1, <1>2, <1>4, OnceKept
<1>9. ConfirmedHeard'
  BY <1>0, <1>1, <1>6, HeardKept
<1>10. flow'.live = flow.live /\ flow'.stitch = flow.stitch
  BY <1>3 DEF SameParts
<1>11. CountsInStream'
  BY <1>0, <1>4, <1>10 DEF CountsInStream
<1>12. FirstIsDispatched'
  BY <1>0, <1>1, <1>4, <1>10 DEF FirstIsDispatched
<1>13. PassedIsHeard'
  BY <1>0, <1>1, <1>3, <1>6, RepositionStream
<1> QED
  BY <1>7, <1>8, <1>9, <1>11, <1>12, <1>13 DEF FlowInv

\* A fresh session: no stream, and no status of it yet.
LEMMA CreatesKeep ==
  ASSUME FlowInv, PlayCreates
  PROVE  FlowInv'
<1>0. /\ FlowShape /\ OncePerToken /\ ConfirmedHeard
      /\ CountsInStream /\ FirstIsDispatched /\ PassedIsHeard
  BY DEF FlowInv
<1>1. /\ host = "play" /\ host' = "load" /\ queue' = queue /\ status' = status /\ told' = told
      /\ dev' = dev /\ truth' = truth /\ flow' = NewSession(flow.id + 1, queue.cur)
      /\ back' = [Emptied(back) EXCEPT !.token = told.last]
  BY DEF PlayCreates
<1>2. /\ queue \in QueueShape /\ FlowOf(flow) /\ dev \in Receiver /\ back \in Ledger
      /\ status \in Seq(Status) /\ told \in [last : Nat, confirmed : [Tokens -> Nat]]
      /\ truth \in [heard : SUBSET Nat, late : SUBSET Nat, lost : BOOLEAN]
      /\ queue.cur \in Nat /\ told.last \in Nat
  BY <1>0 DEF FlowShape, QueueShape
<1>3. flow.id \in Nat /\ flow.id + 1 \in Nat /\ dev.sess \in Nat
  BY <1>2 DEF FlowOf, Receiver
<1>4. /\ FlowOf(flow') /\ flow'.id = flow.id + 1 /\ flow'.repos = FALSE /\ flow'.stitch = <<>>
  BY <1>1, <1>2, <1>3, FlowBegins
<1>5. /\ back' \in Ledger /\ back'.token = told.last /\ back'.repos = 0 /\ back'.counts = <<>>
  <2>1. Emptied(back) \in Ledger /\ Emptied(back).repos = 0 /\ Emptied(back).counts = <<>>
    BY <1>2, EmptiedTyped
  <2> QED
    BY <1>1, <1>2, <2>1 DEF Ledger
<1>7. FlowShape'
  <2>1. host' \in {"none", "play", "load", "return"}
    BY <1>1
  <2> QED
    BY <1>1, <1>2, <1>4, <1>5, <2>1, ShapeIs
<1>8. OncePerToken'
  <2>1. \A n \in Nat \ {0} : ~Counting(n)' /\ (Waiting(n)' <=> n = told.last)
    BY <1>5, EmptySeq DEF Counting, Waiting
  <2>2. told.last \in Tokens => told.confirmed[told.last] = 0
    BY <1>0, <1>1 DEF OncePerToken
  <2>3. \A n \in Tokens : n \in Nat \ {0}
    BY DEF Tokens
  <2>4. /\ \A n \in Nat \ {0} : Waiting(n)' => n <= told'.last
        /\ \A n \in Tokens : Waiting(n)' \/ n > told'.last => told'.confirmed[n] = 0
        /\ \A n \in Tokens : told'.confirmed[n] <= 1
    BY <1>0, <1>1, <1>2, <2>1, <2>2, <2>3 DEF OncePerToken
  <2>5. \A i, j \in 1 .. Len(back'.counts) : back'.counts[i].token = back'.counts[j].token => i = j
    BY <1>5, EmptySeq
  <2>6. \A n \in Nat \ {0} : ~(n = back'.token /\ n = back'.repos)
                            /\ ~(Counting(n)' /\ (n = back'.token \/ n = back'.repos))
    BY <1>5, <2>1
  <2> QED
    BY <1>1, <2>4, <2>5, <2>6 DEF OncePerToken
<1>9. ConfirmedHeard'
  BY <1>0, <1>1, HeardKept
<1>10. CountsInStream' /\ FirstIsDispatched'
  BY <1>1, <1>4, <1>5, EmptySeq DEF CountsInStream, FirstIsDispatched
<1>11. PassedIsHeard'
  <2>1. ASSUME NEW i \in 1 .. Len(status) PROVE status[i].id <= flow.id + 1 /\ status[i].id # flow.id + 1
    <3>0. status[i] \in Status
      BY <1>2, ElementOfSeq
    <3>1. status[i].id \in Nat
      BY <3>0 DEF Status
    <3>2. status[i].id <= flow.id
      BY <1>0 DEF PassedIsHeard
    <3> QED
      BY <1>3, <3>1, <3>2
  <2>2. dev.sess <= flow.id + 1 /\ dev.sess # flow.id + 1
    BY <1>0, <1>3 DEF PassedIsHeard
  <2> QED
    BY <1>1, <1>4, <2>1, <2>2 DEF PassedIsHeard
<1> QED
  BY <1>7, <1>8, <1>9, <1>10, <1>11 DEF FlowInv

LEMMA PerTrackKeeps ==
  ASSUME FlowInv, PlayPerTrack
  PROVE  FlowInv'
<1>0. FlowShape /\ back \in Ledger
  BY DEF FlowInv, FlowShape
<1>1. /\ flow' = Detached(flow) /\ back' = [Emptied(back) EXCEPT !.token = 0]
      /\ dev' = [sess |-> 0, pos |-> 0, said |-> 0, st |-> "idle"] /\ host' = "none"
      /\ queue' = queue /\ status' = status /\ told' = told /\ truth' = truth
  BY DEF PlayPerTrack
<1>2. /\ back' \in Ledger /\ back'.token = 0 /\ back'.repos = 0 /\ back'.counts = <<>>
  <2>1. Emptied(back) \in Ledger /\ Emptied(back).repos = 0 /\ Emptied(back).counts = <<>>
    BY <1>0, EmptiedTyped
  <2> QED
    BY <1>1, <2>1 DEF Ledger
<1>3. dev' \in Receiver /\ dev'.sess = 0
  BY <1>1 DEF Receiver
<1>4. FlowShape'
  BY <1>0, <1>1, <1>2, <1>3, DetachedShape
<1> QED
  BY <1>1, <1>2, <1>3, <1>4, DetachKeeps

LEMMA StopsKeep ==
  ASSUME FlowInv, HostStops
  PROVE  FlowInv'
<1>0. /\ FlowShape /\ back \in Ledger /\ dev \in Receiver
      /\ host \in {"none", "play", "load", "return"}
  BY DEF FlowInv, FlowShape
<1>1. /\ flow' = Detached(flow) /\ back' = [Emptied(back) EXCEPT !.playing = FALSE]
      /\ dev' = [dev EXCEPT !.st = "idle"] /\ host' = host
      /\ queue' = queue /\ status' = status /\ told' = told /\ truth' = truth
  BY DEF HostStops
<1>2. /\ back' \in Ledger /\ back'.token = back.token /\ back'.repos = 0 /\ back'.counts = <<>>
  BY <1>0, <1>1, EmptiedTyped
<1>3. dev' \in Receiver /\ dev'.sess = dev.sess
  BY <1>0, <1>1 DEF Receiver
<1>4. FlowShape'
  BY <1>0, <1>1, <1>2, <1>3, DetachedShape
<1> QED
  BY <1>1, <1>2, <1>3, <1>4, DetachKeeps

\* The load is on its way: the receiver starts the stream from its beginning.
LEMMA SentKeeps ==
  ASSUME FlowInv, LoadSent
  PROVE  FlowInv'
<1>0. /\ FlowShape /\ OncePerToken /\ ConfirmedHeard
      /\ CountsInStream /\ FirstIsDispatched /\ PassedIsHeard
  BY DEF FlowInv
<1>1. /\ host = "load" /\ host' = "return" /\ flow.live /\ queue' = queue /\ flow' = flow
      /\ dev' = [sess |-> flow.id, pos |-> 0, said |-> 0, st |-> "playing"]
      /\ back' = back /\ status' = status /\ told' = told /\ truth' = truth
  BY DEF LoadSent
<1>2. /\ FlowOf(flow) /\ flow.id \in Nat /\ flow.stitch \in Seq(Segment) /\ back \in Ledger
      /\ status \in Seq(Status) /\ told.last \in Nat
  BY <1>0 DEF FlowShape, FlowOf
<1>3. dev' \in Receiver /\ dev'.sess = flow.id /\ dev'.pos = 0
  BY <1>1, <1>2 DEF Receiver
<1>4. FlowShape'
  BY <1>0, <1>1, <1>3 DEF FlowShape
<1>5. OncePerToken' /\ ConfirmedHeard'
  BY <1>0, <1>1, <1>2, OnceKept, HeardKept
<1>6. CountsInStream' /\ FirstIsDispatched'
  BY <1>0, <1>1 DEF CountsInStream, FirstIsDispatched
<1>7. PassedIsHeard'
  <2>1. Len(flow.stitch) \in Nat
    BY <1>2, LenProperties
  <2>2. /\ \A i \in 1 .. Len(status) : status[i].id <= flow.id
        /\ \A i \in 1 .. Len(status) : status[i].id # flow.id
    BY <1>0, <1>1 DEF PassedIsHeard
  <2> QED
    BY <1>1, <1>2, <1>3, <2>1, <2>2 DEF PassedIsHeard
<1> QED
  BY <1>4, <1>5, <1>6, <1>7 DEF FlowInv

LEMMA ReturnsKeep ==
  ASSUME FlowInv, LoadReturns
  PROVE  FlowInv'
<1>0. /\ FlowShape /\ queue \in QueueShape /\ FlowOf(flow) /\ dev \in Receiver /\ back \in Ledger
      /\ truth \in [heard : SUBSET Nat, late : SUBSET Nat, lost : BOOLEAN]
  BY DEF FlowInv, FlowShape
<1>1. /\ host' = "none" /\ queue' = queue /\ dev' = dev /\ status' = status /\ told' = told
  BY DEF LoadReturns
<1>2. CASE /\ host = "return" /\ back' = [back EXCEPT !.playing = TRUE]
           /\ truth' = [truth EXCEPT !.lost = @ \/ dev.st = "idle"] /\ flow' = flow
  <2>1. /\ back' \in Ledger /\ back'.token = back.token /\ back'.repos = back.repos
        /\ back'.seek = back.seek /\ back'.counts = back.counts
    BY <1>0, <1>2 DEF Ledger
  <2>2. /\ truth' \in [heard : SUBSET Nat, late : SUBSET Nat, lost : BOOLEAN]
        /\ truth'.heard = truth.heard /\ truth'.late = truth.late
    BY <1>0, <1>2
  <2>3. SameStream(flow, flow')
    BY <1>0, <1>2, FlowSame
  <2>4. queue' \in QueueShape /\ dev' \in Receiver /\ host # "play"
    BY <1>0, <1>1, <1>2
  <2> QED
    BY <1>1, <2>1, <2>2, <2>3, <2>4, StepsKeep
<1>3. CASE Suspects /\ truth' = truth
  BY <1>1, <1>3, SuspectsKeeps
<1> QED
  BY <1>2, <1>3 DEF LoadReturns

LEMMA PausesKeep ==
  ASSUME FlowInv, HostPauses \/ HostResumes \/ HostEdits
  PROVE  FlowInv'
<1>0. /\ FlowShape /\ queue \in QueueShape /\ FlowOf(flow) /\ dev \in Receiver /\ back \in Ledger
      /\ truth \in [heard : SUBSET Nat, late : SUBSET Nat, lost : BOOLEAN]
  BY DEF FlowInv, FlowShape
<1>1. /\ status' = status /\ host' = host /\ told' = told /\ truth' = truth
  BY DEF HostPauses, HostResumes, HostEdits
<1>2. CASE HostPauses \/ HostResumes
  <2>1. queue' = queue
    BY <1>2 DEF HostPauses, HostResumes
  <2>2. SameStream(flow, flow')
    <3>1. SameStream(flow, [flow EXCEPT !.paused = TRUE]) /\ SameStream(flow, [flow EXCEPT !.paused = FALSE])
      BY <1>0, FlowConsumed
    <3>2. flow' = [flow EXCEPT !.paused = TRUE] \/ flow' = [flow EXCEPT !.paused = FALSE]
      BY <1>2 DEF HostPauses, HostResumes
    <3> QED
      BY <3>1, <3>2
  <2>3. dev' \in Receiver /\ dev'.sess = dev.sess /\ dev'.pos = dev.pos
    BY <1>0, <1>2 DEF HostPauses, HostResumes, Receiver
  <2>4. /\ back' \in Ledger /\ back'.token = back.token /\ back'.repos = back.repos
        /\ back'.seek = back.seek /\ back'.counts = back.counts
    BY <1>0, <1>2 DEF HostPauses, HostResumes, Ledger
  <2> QED
    BY <1>0, <1>1, <2>1, <2>2, <2>3, <2>4, StepsKeep
<1>3. CASE HostEdits
  <2>1. flow' = flow /\ dev' = dev
    BY <1>3 DEF HostEdits
  <2>2. CASE queue.next # <<>> /\ queue' = [queue EXCEPT !.next = Tail(@)] /\ back' = back
    <3>1. queue' \in QueueShape
      BY <1>0, <2>2, FrontOfQueue DEF QueueShape
    <3> QED
      BY <1>1, <2>1, <2>2, <3>1, QueueMoves
  <2>3. CASE back' = [back EXCEPT !.gapless = FALSE] /\ queue' = queue
    <3>1. /\ back' \in Ledger /\ back'.token = back.token /\ back'.repos = back.repos
          /\ back'.seek = back.seek /\ back'.counts = back.counts
      BY <1>0, <2>3 DEF Ledger
    <3> QED
      BY <1>0, <1>1, <2>1, <2>3, <3>1, FlowSame, StepsKeep
  <2> QED
    BY <1>3, <2>2, <2>3 DEF HostEdits
<1> QED
  BY <1>2, <1>3

-----------------------------------------------------------------------------
(* The invariant *)

LEMMA FlowInitially ==
  ASSUME MaxTracks \in Nat, FlowInit
  PROVE  FlowInv
<1>1. /\ queue = [cur |-> 0, next |-> [i \in FlowTracks |-> i], gen |-> 0, held |-> FALSE]
      /\ flow = NoSession(0)
      /\ dev = [sess |-> 0, pos |-> 0, said |-> 0, st |-> "idle"]
      /\ back = [token |-> 0, counts |-> <<>>, repos |-> 0, seek |-> 0, playing |-> FALSE,
                 gapless |-> TRUE]
      /\ status = <<>> /\ host = "none"
      /\ told = [last |-> 0, confirmed |-> [n \in Tokens |-> 0]]
      /\ truth = [heard |-> {}, late |-> {}, lost |-> FALSE]
  BY DEF FlowInit
<1>2. queue \in QueueShape
  <2>1. [i \in FlowTracks |-> i] \in Seq(Nat)
    BY SeqDef DEF FlowTracks
  <2> QED
    BY <1>1, <2>1 DEF QueueShape
<1>3. FlowOf(flow) /\ flow.id = 0 /\ flow.live = FALSE
  BY <1>1, FlowNone
<1>4. dev \in Receiver /\ dev.sess = 0
  BY <1>1 DEF Receiver
<1>5. /\ back \in Ledger /\ back.token = 0 /\ back.repos = 0 /\ back.counts = <<>>
  BY <1>1, EmptySeq DEF Ledger
<1>6. status \in Seq(Status) /\ Len(status) = 0
  BY <1>1, EmptySeq
<1>7. /\ told \in [last : Nat, confirmed : [Tokens -> Nat]] /\ told.last = 0
      /\ \A n \in Tokens : told.confirmed[n] = 0
  BY <1>1
<1>8. truth \in [heard : SUBSET Nat, late : SUBSET Nat, lost : BOOLEAN]
  BY <1>1
<1>9. FlowShape
  BY <1>1, <1>2, <1>3, <1>4, <1>5, <1>6, <1>7, <1>8 DEF FlowShape
<1>10. OncePerToken
  <2>1. Len(back.counts) = 0 /\ \A n \in Nat \ {0} : ~Counting(n) /\ ~Waiting(n)
    BY <1>5, EmptySeq DEF Counting, Waiting
  <2> QED
    BY <1>1, <1>5, <1>7, <2>1 DEF OncePerToken
<1>11. ConfirmedHeard
  BY <1>7 DEF ConfirmedHeard
<1>12. CountsInStream /\ FirstIsDispatched /\ PassedIsHeard
  BY <1>3, <1>4, <1>6 DEF CountsInStream, FirstIsDispatched, PassedIsHeard
<1> QED
  BY <1>9, <1>10, <1>11, <1>12 DEF FlowInv

LEMMA FlowSteps ==
  ASSUME FlowInv, [FlowNext]_flowVars
  PROVE  FlowInv'
<1>0. queue \in QueueShape
  BY DEF FlowInv, FlowShape
<1>1. CASE UNCHANGED flowVars
  BY <1>0, <1>1, QueueMoves DEF flowVars
<1>2. CASE Pump
  BY <1>2, TakesKeeps, OpensKeeps, CrossesKeeps, SmallSteps DEF Pump
<1>3. CASE PumpFails \/ PumpBreaks \/ DevDropsStream \/ GraceExpires \/ Listens
  BY <1>3, FailsKeeps, SmallSteps, GraceKeeps, ListensKeeps
<1>4. CASE Device
  BY <1>4, SmallSteps, ReachesKeeps, ReportsKeeps DEF Device
<1>5. CASE Loop
  BY <1>5, EndsKeeps, OutageKeeps, AdvancesKeep DEF Loop
<1>6. CASE Play
  BY <1>6, RepositionsKeep, CreatesKeep, PerTrackKeeps, SentKeeps, ReturnsKeep DEF Play
<1>7. CASE HostSkips \/ HostSeeks \/ HostPauses \/ HostResumes \/ HostStops \/ HostEdits
  BY <1>7, SkipsKeep, SeeksKeep, PausesKeep, StopsKeep
<1> QED
  BY <1>1, <1>2, <1>3, <1>4, <1>5, <1>6, <1>7 DEF FlowNext

\* Every play of a flow session is counted at most once.
THEOREM FlowPlaysCountedOnce ==
  ASSUME MaxTracks \in Nat
  PROVE  FlowSpec => []FlowCountsOnce
<1>1. FlowInit => FlowInv
  BY FlowInitially
<1>2. FlowInv /\ [FlowNext]_flowVars => FlowInv'
  BY FlowSteps
<1>3. FlowInv => FlowCountsOnce
  BY DEF FlowInv, OncePerToken, FlowCountsOnce
<1> QED
  BY <1>1, <1>2, <1>3, PTL DEF FlowSpec

\* A play of a flow session is counted only if the receiver was heard to play
\* its audio, or through a status or an end that came late.
THEOREM FlowPlaysHeard ==
  ASSUME MaxTracks \in Nat
  PROVE  FlowSpec => []FlowCountsHeard
<1>1. FlowInit => FlowInv
  BY FlowInitially
<1>2. FlowInv /\ [FlowNext]_flowVars => FlowInv'
  BY FlowSteps
<1>3. FlowInv => FlowCountsHeard
  BY DEF FlowInv, ConfirmedHeard, FlowCountsHeard
<1> QED
  BY <1>1, <1>2, <1>3, PTL DEF FlowSpec
=============================================================================
