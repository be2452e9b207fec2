------------------------------ MODULE RadioMode ------------------------------
(***************************************************************************)
(* A radio station takes the output over from the queue and gives it back. *)
(* Starts and stops run one at a time under the radio lock; an advance, a  *)
(* press and an outage's resume run under the advance lock, which neither  *)
(* takes.  A call to the output takes effect when it returns.              *)
(***************************************************************************)
EXTENDS Naturals, Sequences, SequencesExt

CONSTANTS
    Stations, None,
    MaxStarts,  \* bound: start tasks
    MaxStops,   \* bound: stop tasks
    MaxTracks,  \* bound: tracks queued
    MaxSkips,   \* bound: skips pressed
    MaxFaults   \* bound: dispatches that fail, stations that drop

VARIABLES
    line,   \* the queue: the current item, those after it, is_playing
    adv,    \* _advance_lock: the task that holds it and the item it plays
    due,    \* advances scheduled: by the end of a track, by a queue change
    radio,  \* _active, _held, _status, _gen, the title and its reader
    rlock,  \* the radio session's lock: its holder, then its waiters
    job,    \* the starts and stops
    out,    \* what the output plays
    hold,   \* _output_hold
    truth,  \* what no code reads
    used
radioVars == <<line, adv, due, radio, rlock, job, out, hold, truth, used>>

Starts == 1 .. MaxStarts
Stops == MaxStarts + 1 .. MaxStarts + MaxStops
Jobs == Starts \cup Stops
Tracks == 1 .. MaxTracks
Idle == [pc |-> "free", st |-> None, gen |-> 0]
NoAdvance == [who |-> "none", item |-> 0]
Goes(n, pc) == [job EXCEPT ![n].pc = pc]
Spend(what) == used' = [used EXCEPT ![what] = @ + 1]

RadioInit ==
    /\ \E n \in 0 .. 1 :
         /\ line = [cur |-> n, rest |-> <<>>, playing |-> n = 1]
         /\ out = IF n = 1 THEN <<"track", 1>> ELSE None
         /\ used = [starts |-> 0, stops |-> 0, tracks |-> n, skips |-> 0, faults |-> 0]
    /\ adv = NoAdvance /\ due = [eos |-> FALSE, auto |-> FALSE]
    /\ radio = [on |-> None, held |-> FALSE, status |-> "idle", gen |-> 0, title |-> None,
                reader |-> None]
    /\ rlock = <<>> /\ job = [n \in Jobs |-> Idle] /\ hold = FALSE
    /\ truth = [last |-> "none", crossed |-> FALSE]

-----------------------------------------------------------------------------
(* The queue, as far as the takeover touches it. *)

Advanced(l) ==
    IF l.rest = <<>> THEN [l EXCEPT !.cur = 0, !.playing = FALSE]
    ELSE [cur |-> Head(l.rest), rest |-> Tail(l.rest), playing |-> TRUE]
HeldCurrent(l) == IF l.cur = 0 THEN [l EXCEPT !.playing = FALSE]
                  ELSE [cur |-> 0, rest |-> <<l.cur>> \o l.rest, playing |-> FALSE]
Free == adv = NoAdvance
\* Moves the queue and starts the dispatch of what it moved to.
Dispatches(who) ==
    /\ line' = Advanced(line)
    /\ adv' = IF line.rest = <<>> THEN NoAdvance ELSE [who |-> who, item |-> Head(line.rest)]

ShouldAutoStart(l, r) == ~l.playing /\ l.rest # <<>> /\ ~due.auto /\ ~hold /\ r.on = None

Adds ==
    /\ used.tracks < MaxTracks /\ Spend("tracks")
    /\ line' = [line EXCEPT !.rest = Append(@, used.tracks + 1)]
    /\ due' = [due EXCEPT !.auto = @ \/ ShouldAutoStart(line', radio)]
    /\ UNCHANGED <<adv, radio, rlock, job, out, hold, truth>>
TrackEnds ==
    /\ out # None /\ out[1] = "track" /\ out' = None
    /\ due' = [due EXCEPT !.eos = TRUE]
    /\ UNCHANGED <<line, adv, radio, rlock, job, hold, truth, used>>

\* Dropped under a hold, under a station, or while another task advances.
GatedByHold == hold \/ ~Free
Gated == hold \/ radio.on # None \/ ~Free
Enters(kind) ==
    /\ due[kind] /\ due' = [due EXCEPT ![kind] = FALSE]
    /\ IF Gated \/ (kind = "auto" /\ (line.playing \/ line.rest = <<>>))
       THEN UNCHANGED <<line, adv>> ELSE Dispatches("advance")
    /\ UNCHANGED <<radio, rlock, job, out, hold, truth, used>>
\* A press does not look whether a station plays.
Skips ==
    /\ used.skips < MaxSkips /\ Free /\ Spend("skips")
    /\ IF hold
       THEN /\ line' = IF line.rest = <<>> THEN line ELSE [line EXCEPT !.rest = Tail(@)]
            /\ UNCHANGED <<adv, out>>
       ELSE /\ Dispatches("skip")
            /\ IF line.rest = <<>> THEN out' = None ELSE UNCHANGED out
    /\ truth' = [truth EXCEPT !.crossed = @ \/ radio.on # None \/ rlock # <<>>]
    /\ UNCHANGED <<due, radio, rlock, job, hold>>
\* The outage loop has the device back and resumes the held front.
OutageResumes ==
    /\ hold /\ Free
    /\ IF line.rest = <<>> THEN hold' = FALSE /\ UNCHANGED <<line, adv>>
       ELSE Dispatches("outage") /\ UNCHANGED hold
    /\ UNCHANGED <<due, radio, rlock, job, out, truth, used>>

\* The play call of the advance lock's holder returns.
AfterPlay == IF adv.who = "stop" THEN Goes(Head(rlock), "done") ELSE job
Crossed == truth.crossed \/ due.eos \/ radio.on # None \/ \E n \in Jobs : job[n].pc \in {"taking", "ending"}
Lands ==
    /\ ~Free /\ out' = <<"track", adv.item>> /\ adv' = NoAdvance
    /\ hold' = IF adv.who = "outage" THEN FALSE ELSE hold
    /\ truth' = [truth EXCEPT !.crossed = Crossed]
    /\ job' = AfterPlay
    /\ UNCHANGED <<line, due, radio, rlock, used>>
\* The device is not there: the item goes back to the front, under a hold.
Misses ==
    /\ ~Free /\ used.faults < MaxFaults /\ Spend("faults")
    /\ adv' = NoAdvance /\ hold' = TRUE /\ out' = None
    /\ line' = HeldCurrent(line)
    /\ job' = AfterPlay
    /\ UNCHANGED <<due, radio, rlock, truth>>

-----------------------------------------------------------------------------
(* Starting a station. *)

\* The generation is read before the URL is validated, outside the lock.
StartPressed(n, st) ==
    /\ n \in Starts /\ job[n] = Idle /\ used.starts = n - 1 /\ Spend("starts")
    /\ job' = [job EXCEPT ![n] = [pc |-> "validating", st |-> st, gen |-> radio.gen]]
    /\ truth' = [truth EXCEPT !.last = "start"]
    /\ UNCHANGED <<line, adv, due, radio, rlock, out, hold>>
Validated(n) ==
    /\ n \in Starts /\ job[n].pc = "validating" /\ job' = Goes(n, "queued")
    /\ rlock' = Append(rlock, n)
    /\ UNCHANGED <<line, adv, due, radio, out, hold, truth, used>>
StopPressed(n) ==
    /\ n \in Stops /\ job[n] = Idle /\ used.stops = n - MaxStarts - 1 /\ Spend("stops")
    /\ job' = Goes(n, "queued") /\ rlock' = Append(rlock, n)
    /\ truth' = [truth EXCEPT !.last = "stop"]
    /\ UNCHANGED <<line, adv, due, radio, out, hold>>

Has(n) == rlock # <<>> /\ Head(rlock) = n
Leaves(n, js) == job' = [js EXCEPT ![n].pc = "done"] /\ rlock' = Tail(rlock)
AbortsNever(n) == FALSE
Aborts(n) == radio.gen # job[n].gen
\* A stop that ran meanwhile wins; else the output is asked to stop.
StartRuns(n) ==
    /\ n \in Starts /\ job[n].pc = "queued" /\ Has(n)
    /\ IF Aborts(n) THEN Leaves(n, job) ELSE job' = Goes(n, "taking") /\ UNCHANGED rlock
    /\ UNCHANGED <<line, adv, due, radio, out, hold, truth, used>>
\* The output stopped: the queue is held at the first takeover, once.
Takes(n) ==
    /\ n \in Starts /\ job[n].pc = "taking" /\ job' = Goes(n, "dialing")
    /\ LET first == radio.on = None
           holds == first /\ line.cur # 0
       IN /\ radio' = [radio EXCEPT !.on = job[n].st, !.status = "connecting", !.held = @ \/ holds]
          /\ line' = IF holds THEN HeldCurrent(line) ELSE line
          /\ due' = [due EXCEPT !.auto = @ \/ (holds /\ ShouldAutoStart(line', radio'))]
    /\ out' = None /\ truth' = [truth EXCEPT !.crossed = @ \/ ~Free]
    /\ UNCHANGED <<adv, rlock, hold, used>>
\* The title of the station before goes when the new one was dispatched.
Dials(n) ==
    /\ n \in Starts /\ job[n].pc = "dialing" /\ Leaves(n, job)
    /\ out' = <<"station", job[n].st>>
    /\ radio' = [radio EXCEPT !.status = "playing", !.title = None, !.reader = job[n].st]
    /\ truth' = [truth EXCEPT !.crossed = @ \/ ~Free]
    /\ UNCHANGED <<line, adv, due, hold, used>>
\* The dispatch raises: the station stays active, as connecting.
DialRaises(n) ==
    /\ n \in Starts /\ job[n].pc = "dialing" /\ Leaves(n, job)
    /\ used.faults < MaxFaults /\ Spend("faults")
    /\ UNCHANGED <<line, adv, due, radio, out, hold, truth>>

ReadsTitle ==
    /\ radio.reader # None /\ radio' = [radio EXCEPT !.title = radio.reader]
    /\ UNCHANGED <<line, adv, due, rlock, job, out, hold, truth, used>>
\* The backend gave the station up; the report does not say which.
StationFails ==
    /\ out # None /\ out[1] = "station" /\ used.faults < MaxFaults /\ Spend("faults")
    /\ out' = None
    /\ radio' = IF radio.on = None THEN radio ELSE [radio EXCEPT !.status = "failed"]
    /\ UNCHANGED <<line, adv, due, rlock, job, hold, truth>>

-----------------------------------------------------------------------------
(* Stopping it: the gates lift first, then the output is asked to stop. *)

StopRuns(n) ==
    /\ n \in Stops /\ job[n].pc = "queued" /\ Has(n)
    /\ radio' = [radio EXCEPT !.gen = @ + 1, !.on = None, !.status = "idle", !.title = None,
                              !.reader = None, !.held = FALSE]
    /\ IF radio.on = None THEN Leaves(n, job)
       ELSE /\ job' = [job EXCEPT ![n].pc = "ending", ![n].gen = IF radio.held THEN 1 ELSE 0]
            /\ UNCHANGED rlock
    /\ UNCHANGED <<line, adv, due, out, hold, truth, used>>
Held(n) == job[n].gen = 1
\* What was queued while an empty queue was taken over starts by itself.
StrandedLeft(n) == Held(n)
Stranded(n) == Held(n) \/ (~line.playing /\ line.rest # <<>> /\ ~Gated)
EndsUnstopped(n) ==
    /\ n \in Stops /\ job[n].pc = "ending" /\ job' = Goes(n, IF Stranded(n) THEN "resuming" ELSE "done")
    /\ UNCHANGED <<line, adv, due, radio, rlock, out, hold, truth, used>>
Ends(n) ==
    /\ n \in Stops /\ job[n].pc = "ending" /\ out' = None
    /\ job' = Goes(n, IF Stranded(n) THEN "resuming" ELSE "done")
    /\ truth' = [truth EXCEPT !.crossed = @ \/ ~Free \/ line.playing]
    /\ UNCHANGED <<line, adv, due, radio, rlock, hold, used>>
\* Under the advance lock, unless an outage holds the queue.
Resumes(n) ==
    /\ n \in Stops /\ job[n].pc = "resuming" /\ Free
    /\ IF hold \/ line.rest = <<>>
       THEN /\ job' = Goes(n, "done") /\ UNCHANGED adv
            /\ line' = IF hold THEN line ELSE Advanced(line)
       ELSE Dispatches("stop") /\ job' = Goes(n, "dispatch")
    /\ truth' = [truth EXCEPT !.crossed = @ \/ line.playing]
    /\ UNCHANGED <<due, radio, rlock, out, hold, used>>
StopReturns(n) ==
    /\ n \in Stops /\ job[n].pc = "done" /\ Has(n) /\ rlock' = Tail(rlock)
    /\ UNCHANGED <<line, adv, due, radio, job, out, hold, truth, used>>

-----------------------------------------------------------------------------
StartWorks(n) == Validated(n) \/ StartRuns(n) \/ Takes(n) \/ Dials(n) \/ DialRaises(n)
StopWorks(n) == StopRuns(n) \/ Ends(n) \/ Resumes(n) \/ StopReturns(n)
RadioNext ==
    \/ Adds \/ TrackEnds \/ Skips \/ OutageResumes \/ Lands \/ Misses
    \/ \E kind \in {"eos", "auto"} : Enters(kind)
    \/ \E n \in Jobs : StartWorks(n) \/ StopWorks(n) \/ StopPressed(n)
    \/ \E n \in Jobs, st \in Stations : StartPressed(n, st)
    \/ ReadsTitle \/ StationFails

RadioSpec == RadioInit /\ [][RadioNext]_radioVars
RadioWorks ==
    \/ Lands \/ Misses \/ OutageResumes \/ Enters("eos") \/ Enters("auto")
    \/ \E n \in Jobs : StartWorks(n) \/ StopWorks(n)
RadioFair == WF_radioVars(RadioWorks)
RadioFairSpec == RadioSpec /\ RadioFair

-----------------------------------------------------------------------------
RadioTypeOK ==
    /\ line.cur \in 0 .. MaxTracks /\ line.rest \in Seq(Tracks) /\ line.playing \in BOOLEAN
    /\ adv.who \in {"none", "advance", "skip", "outage", "stop"} /\ adv.item \in 0 .. MaxTracks
    /\ radio.on \in Stations \cup {None} /\ radio.status \in {"idle", "connecting", "playing", "failed"}
    /\ rlock \in Seq(Jobs) /\ hold \in BOOLEAN

Settled == rlock = <<>> /\ Free /\ ~due.eos /\ ~due.auto
           /\ \A n \in Jobs : job[n].pc \in {"free", "done"}
\* A stop pressed last leaves no station on, whatever starts were under way.
StopIsLast == Settled /\ truth.last = "stop" => radio.on = None
\* No track is ever lost or doubled by a takeover, a switch or a resume.
QueueWhole ==
    /\ IsInjective(line.rest) /\ line.cur \notin ToSet(line.rest)
    /\ radio.held /\ ~truth.crossed /\ ~hold => line.cur = 0 /\ line.rest # <<>>
\* What plays is what the host shows -- apart from a radio start or stop that
\* crossed an advance, for neither takes the lock of the other.
HeardIsMeant ==
    Settled /\ ~truth.crossed =>
        /\ line.playing /\ ~hold => out = <<"track", line.cur>>
        /\ radio.on # None /\ radio.status = "playing" => out = <<"station", radio.on>>
        /\ radio.on = None /\ ~line.playing => out = None
\* When the station is off, a queue with tracks in it does not sit there.
NotStranded ==
    Settled /\ radio.on = None /\ ~hold /\ line.rest # <<>> => line.playing
\* A stop, behind a slow start and an advance that holds the queue, gets through.
StopsWait == \E n \in Stops : job[n].pc = "queued"
StopEnds == []<>~StopsWait
=============================================================================
