---------------------------- MODULE StreamRelay ----------------------------
(***************************************************************************)
(* app/api/stream.py, the pass-through half: a device asks for a stream    *)
(* key, perhaps from a byte offset, and the proxy relays the source's      *)
(* body.  The source may drop the connection, or close it early; with a    *)
(* known length the relay asks it for the rest, a bounded number of times  *)
(* in a row without progress.                                              *)
(*                                                                         *)
(* The source's body is the chunks 1..Size.                                *)
(***************************************************************************)
EXTENDS Integers, Sequences

CONSTANTS Size,        \* chunks of the source
          MaxResumes,  \* _STREAM_RESUME_MAX
          MaxDrops,    \* connections the source drops or closes early
          MaxAsks      \* requests

VARIABLES relay,       \* the response: [pc, known, base, sent, attempts, body], and what
                       \* the source's present answer still has to come (rest)
          dry,         \* reconnects since the last chunk, or the source refused one
          astray,      \* whether a resume was answered with anything but the rest
          left         \* what the bounds count
relayVars == <<relay, dry, astray, left>>

Idle == [pc |-> "idle", known |-> TRUE, base |-> 0, rest |-> <<>>, sent |-> 0, attempts |-> 0, body |-> <<>>]
Total == Size - relay.base      \* the Content-Length of what was asked for
From(k) == [i \in 1..(Size - k) |-> k + i]      \* the source's body behind its chunk k
ErrorPage == <<0>>                              \* a body that is not the source's

RelayInit ==
    /\ relay = Idle /\ dry = 0 /\ astray = FALSE
    /\ left = [drops |-> MaxDrops, asks |-> MaxAsks]

\* proxy_plex_stream: the key is authorised, the source answers, and its
\* length may be missing.  A refusal (403, 503, 404, 502) relays nothing.
Asked ==
    /\ relay.pc \in {"idle", "ended"} /\ left.asks > 0
    /\ left' = [left EXCEPT !.asks = @ - 1]
    /\ \E base \in 0..(Size - 1), known \in BOOLEAN :
         relay' = [Idle EXCEPT !.pc = "reading", !.known = known, !.base = base, !.rest = From(base)]
    /\ dry' = 0 /\ astray' = FALSE

\* Mutant of Relays: progress leaves the budget as it is.
RelaysOnBudget ==
    /\ relay.pc = "reading" /\ relay.rest # <<>>
    /\ ~relay.known \/ relay.sent < Total
    /\ relay' = [relay EXCEPT !.rest = Tail(@), !.sent = @ + 1, !.body = Append(@, Head(relay.rest))]
    /\ dry' = 0
    /\ UNCHANGED <<astray, left>>

\* Mutant of Relays: a chunk is not cut to what was promised.
RelaysUncut ==
    /\ relay.pc = "reading" /\ relay.rest # <<>>
    /\ relay' = [relay EXCEPT !.rest = Tail(@), !.sent = @ + 1, !.attempts = 0,
                              !.body = Append(@, Head(relay.rest))]
    /\ dry' = 0
    /\ UNCHANGED <<astray, left>>

\* A chunk is handed to the device, cut to what was promised; progress
\* resets the budget.
Relays ==
    /\ relay.pc = "reading" /\ relay.rest # <<>>
    /\ ~relay.known \/ relay.sent < Total
    /\ relay' = [relay EXCEPT !.rest = Tail(@), !.sent = @ + 1, !.attempts = 0,
                              !.body = Append(@, Head(relay.rest))]
    /\ dry' = 0
    /\ UNCHANGED <<astray, left>>

\* The body ends: what was promised is there, the length is unknown, or the
\* source's body is over.
BodyEnds ==
    /\ relay.pc = "reading" /\ (relay.rest = <<>> \/ (relay.known /\ relay.sent >= Total))
    /\ relay' = [relay EXCEPT !.pc = IF relay.known /\ relay.sent < Total THEN "short" ELSE "ended"]
    /\ UNCHANGED <<dry, astray, left>>

\* A TransportError, or a clean close before the end.
Drops ==
    /\ relay.pc = "reading" /\ left.drops > 0
    /\ left' = [left EXCEPT !.drops = @ - 1]
    /\ relay' = [relay EXCEPT !.pc = IF relay.known /\ relay.sent < Total THEN "short" ELSE "ended"]
    /\ UNCHANGED <<dry, astray>>

\* Mutant of ResumeAt: the offset the device asked for is forgotten.
ResumeAtSent == relay.sent
ResumeAt == relay.base + relay.sent

GivesUp ==
    /\ relay.pc = "short" /\ relay.attempts >= MaxResumes
    /\ relay' = [relay EXCEPT !.pc = "ended"]
    /\ UNCHANGED <<dry, astray, left>>

\* _reopen: the source answers from the offset, or not at all.  The status of
\* the answer is not looked at: it may be the whole body (Range ignored) or the
\* page of an error, and is relayed as the rest.
Reopens ==
    /\ relay.pc = "short" /\ relay.attempts < MaxResumes
    /\ \/ \E answer \in {From(ResumeAt), From(0), ErrorPage} :
            /\ relay' = [relay EXCEPT !.pc = "reading", !.rest = answer, !.attempts = @ + 1]
            /\ astray' = (astray \/ answer # From(ResumeAt))
            /\ dry' = dry + 1
       \/ /\ relay' = [relay EXCEPT !.pc = "ended", !.attempts = @ + 1]
          /\ dry' = MaxResumes /\ UNCHANGED astray
    /\ UNCHANGED left

\* The device hangs up.
Leaves ==
    /\ relay.pc \in {"reading", "short"}
    /\ relay' = Idle /\ dry' = 0 /\ astray' = FALSE
    /\ UNCHANGED left

RelayNext == Asked \/ Relays \/ BodyEnds \/ Drops \/ GivesUp \/ Reopens \/ Leaves
RelaySpec == RelayInit /\ [][RelayNext]_relayVars

\* The response is of the shape the code keeps.
RelayTypeOK ==
    /\ relay.pc \in {"idle", "reading", "short", "ended"}
    /\ relay.sent = Len(relay.body) /\ relay.attempts \in 0..MaxResumes
    /\ relay.known => relay.sent <= Total

\* What a device receives is the source from the byte it asked for, with
\* nothing missing and nothing twice, however often the source hung up, when
\* resumes were answered with the rest they asked for (_stream).
BodyContiguous == ~astray => \A i \in 1..Len(relay.body) : relay.body[i] = relay.base + i

\* A body of known length falls short only after MaxResumes reconnects in a
\* row brought nothing, or one was refused (_STREAM_RESUME_MAX, "reset to
\* zero on any progress").
ShortOnlyWhenDry == relay.pc = "ended" /\ relay.known /\ relay.sent < Total => dry >= MaxResumes

=============================================================================
