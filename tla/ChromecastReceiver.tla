------------------------- MODULE ChromecastReceiver -------------------------
(***************************************************************************)
(* The Cast backend in its per-track and its radio mode                    *)
(* (app/output/chromecast.py): what the media status thread, the           *)
(* connection listener, the duration watchdog and the host's transport     *)
(* calls make of one another.  The flow mode is module CastFlow.           *)
(*                                                                         *)
(* Each play() has a number, which stands for its supervisor token and its *)
(* media, and from the return of its load on for its play token as well.   *)
(* The receiver reports in order from its own thread; a handler of that    *)
(* thread is one step, what it posts runs on the event loop later.         *)
(***************************************************************************)
EXTENDS Naturals, Sequences

CONSTANTS
    MaxPlays,     \* bound: calls of play()
    MaxPresses,   \* bound: pauses, resumes, stops and seeks of the host
    MaxMishaps,   \* bound: hangs, lost links, failing loads
    RadioCap      \* MAX_RECONNECT_ATTEMPTS

VARIABLES
    rx,       \* the receiver
    status,   \* media statuses on their way, in order
    cast,     \* the backend object; armed is the track that the play token and
              \* the duration are of, none for a station
    call,     \* where play() is suspended
    press,    \* the transport call under way
    dog,      \* the watchdog task
    posted,   \* callbacks posted to the event loop, in order
    drops,    \* reconnect tasks of the radio mode
    told,     \* per play: ends reported; whether it was confirmed
    truth,    \* of the model: media that ended, plays that met an end or a seek
              \* of the play before, plays taken for playing again after their end
    used      \* presses and mishaps so far

castVars == <<rx, status, cast, call, press, dog, posted, drops, told, truth, used>>

Plays == 1 .. MaxPlays
Modes == {"off", "track", "radio"}
NoDog == [pc |-> "none", play |-> 0, early |-> FALSE]

CastInit ==
    /\ rx = [media |-> 0, load |-> 0, st |-> "idle", up |-> TRUE]
    /\ status = <<>>
    /\ cast = [mode |-> "off", cur |-> 0, on |-> FALSE, token |-> 0, attempts |-> 0, armed |-> 0]
    /\ call = "none" /\ press = "none"
    /\ dog = NoDog
    /\ posted = <<>>
    /\ drops = [waiting |-> 0, loading |-> [n \in Plays |-> 0]]
    /\ told = [ended |-> [n \in Plays |-> 0], heard |-> [n \in Plays |-> 0]]
    /\ truth = [gone |-> {}, crossed |-> {}, revived |-> {}]
    /\ used = [presses |-> 0, mishaps |-> 0]

Mishap == used.mishaps < MaxMishaps /\ used' = [used EXCEPT !.mishaps = @ + 1]
Pressed == used.presses < MaxPresses /\ used' = [used EXCEPT !.presses = @ + 1]

Post(c, n) == posted' = Append(posted, [do |-> c, play |-> n])
Runs(c) == posted # <<>> /\ Head(posted).do = c /\ posted' = Tail(posted)
Posted(c) == \E i \in DOMAIN posted : posted[i].do = c
Terminal == {"FINISHED", "ERROR"}

\* A resume sets the flag, whatever it is told: the play may have ended.
Revived(t) == IF told.ended[cast.cur] > 0 \/ Posted("eos")
              THEN [t EXCEPT !.revived = @ \cup {cast.cur}] ELSE t

\* What advance_cb and notify_outage are told of the play that is current.
Ended(t) == [t EXCEPT !.ended[cast.cur] = @ + 1]

-----------------------------------------------------------------------------
(* The receiver *)

Says(s) == status' = Append(status, [media |-> rx.media, state |-> s])

RxLoads ==
    /\ rx.load # 0 /\ rx.up
    /\ rx' = [rx EXCEPT !.media = rx.load, !.load = 0, !.st = "playing"]
    /\ status' = Append(status, [media |-> rx.load, state |-> "PLAYING"])
    /\ UNCHANGED <<cast, call, press, dog, posted, drops, told, truth, used>>

\* The track ends or fails; a play whose LOAD is under way meets that end.
RxEnds ==
    /\ rx.st = "playing" /\ rx.up
    /\ rx' = [rx EXCEPT !.st = "idle"]
    /\ \E s \in Terminal : Says(s)
    /\ truth' = [truth EXCEPT !.gone = @ \cup {rx.media}]
    /\ UNCHANGED <<cast, call, press, dog, posted, drops, told, used>>

RxHangs ==
    /\ rx.st = "playing" /\ Mishap
    /\ rx' = [rx EXCEPT !.st = "idle"]
    /\ truth' = [truth EXCEPT !.gone = @ \cup {rx.media}]
    /\ UNCHANGED <<status, cast, call, press, dog, posted, drops, told>>

\* The connection listener: LOST is posted (from the first play() on), the
\* session on the device ends.
RxLost ==
    /\ rx.up /\ cast.cur > 0 /\ Mishap
    /\ rx' = [rx EXCEPT !.up = FALSE, !.st = "idle", !.load = 0]
    /\ truth' = [truth EXCEPT !.gone = @ \cup {cast.cur}]
    /\ Post("lost", cast.cur)
    /\ UNCHANGED <<status, cast, call, press, dog, drops, told>>

\* A reconnect takes longer than the loop to come to its callbacks.
RxBack ==
    /\ ~rx.up /\ ~Posted("lost")
    /\ rx' = [rx EXCEPT !.up = TRUE]
    /\ UNCHANGED <<status, cast, call, press, dog, posted, drops, told, truth, used>>

-----------------------------------------------------------------------------
(* The media status thread *)

\* Fault variant: the token is kept.
ConfirmsAgain(s) ==
    IF s.state = "PLAYING" /\ cast.token # 0
    THEN cast' = cast /\ told' = [told EXCEPT !.heard[cast.token] = @ + 1]
    ELSE UNCHANGED <<cast, told>>

\* _emit_confirmed_start: one-shot, for whatever token is pending.
Confirms(s) ==
    IF s.state = "PLAYING" /\ cast.token # 0
    THEN /\ cast' = [cast EXCEPT !.token = 0]
         /\ told' = [told EXCEPT !.heard[cast.token] = @ + 1]
    ELSE UNCHANGED <<cast, told>>

\* Fault variant: a terminal status ends a play that is over already.
EndsHereAgain(s) == s.state \in Terminal

EndsHere(s) == s.state \in Terminal /\ cast.on

\* new_media_status
Listens ==
    /\ status # <<>>
    /\ status' = Tail(status)
    /\ LET s == Head(status)
       IN IF EndsHere(s)
          THEN /\ cast' = [cast EXCEPT !.on = FALSE]
               /\ Post(IF cast.mode = "radio" THEN "reconnect" ELSE "eos", s.media)
               /\ UNCHANGED told
          ELSE Confirms(s) /\ UNCHANGED posted
    /\ UNCHANGED <<rx, call, press, dog, drops, truth, used>>

-----------------------------------------------------------------------------
(* The event loop *)

\* _handle_eos: the watchdog retires, the queue advances.  An end posted for
\* an earlier play meets whatever play is current by now.
HandlesEos ==
    /\ Runs("eos")
    /\ dog' = NoDog
    /\ told' = Ended(told)
    /\ truth' = IF Head(posted).play = cast.cur THEN truth
                ELSE [truth EXCEPT !.crossed = @ \cup {cast.cur}]
    /\ UNCHANGED <<rx, status, cast, call, press, drops, used>>

\* should_reconnect: within the cap, else the failed hook.  A connection that
\* lasted (sustained) starts the count anew.
Tries(after) ==
    \E sustained \in IF cast.attempts > 0 THEN BOOLEAN ELSE {FALSE} :
      LET n == (IF sustained THEN 0 ELSE cast.attempts) + 1
      IN IF n <= RadioCap
         THEN /\ cast' = [after EXCEPT !.attempts = n]
              /\ drops' = [drops EXCEPT !.waiting = @ + 1]
         ELSE /\ cast' = [after EXCEPT !.on = FALSE, !.attempts = RadioCap + 1]
              /\ drops' = drops
Quits == cast' = cast /\ drops' = drops

\* _radio_reconnect_schedule
SchedulesReconnect ==
    /\ Runs("reconnect")
    /\ IF cast.mode = "radio" THEN Tries(cast) ELSE Quits
    /\ UNCHANGED <<rx, status, call, press, dog, told, truth, used>>

\* _on_connection_lost.  With nothing playing only a paused current track is
\* interrupted; paused is what the last press left.
HandlesLost ==
    /\ Runs("lost")
    /\ IF cast.mode = "radio"
       THEN dog' = NoDog /\ Tries([cast EXCEPT !.on = FALSE]) /\ UNCHANGED told
       ELSE /\ \/ /\ cast.on
                  /\ cast' = [cast EXCEPT !.on = FALSE]
                  /\ dog' = NoDog /\ told' = Ended(told)
               \/ ~cast.on /\ UNCHANGED <<cast, dog, told>>
            /\ drops' = drops
    /\ truth' = [truth EXCEPT !.gone = @ \cup {cast.cur}]
    /\ UNCHANGED <<rx, status, call, press, used>>

\* _radio_reconnect_run after the back-off: stopped meanwhile, or it loads
\* the station of the last radio play.
ReconnectWakes ==
    /\ drops.waiting > 0
    /\ drops' = [waiting |-> drops.waiting - 1,
                 loading |-> IF cast.mode = "radio" THEN [drops.loading EXCEPT ![cast.cur] = @ + 1]
                             ELSE drops.loading]
    /\ UNCHANGED <<rx, status, cast, call, press, dog, posted, told, truth, used>>

\* The load in the executor is not called back: it may meet a later play.
ReconnectLoads(n) ==
    /\ drops.loading[n] > 0
    /\ LET rest == [drops EXCEPT !.loading[n] = @ - 1]
           more == cast.attempts < RadioCap
       IN IF rx.up
          THEN /\ rx' = [rx EXCEPT !.load = n]
               /\ cast' = [cast EXCEPT !.on = TRUE]
               /\ drops' = rest
          ELSE /\ rx' = rx
               /\ IF cast.mode # "radio" THEN drops' = rest /\ cast' = [cast EXCEPT !.on = FALSE]
                  ELSE /\ drops' = IF more THEN [rest EXCEPT !.waiting = @ + 1] ELSE rest
                       /\ cast' = [cast EXCEPT !.on = FALSE, !.attempts = IF more THEN @ + 1 ELSE RadioCap + 1]
    /\ truth' = IF n = cast.cur /\ cast.mode = "radio" THEN truth ELSE [truth EXCEPT !.crossed = @ \cup {cast.cur}]
    /\ UNCHANGED <<status, call, press, dog, posted, told, used>>

\* _watchdog: the duration and its grace are over, which they are not while
\* the receiver still plays the track, unless a late seek set them.  A play token
\* that was superseded or an ended play is left alone, before the probe and after
\* it.  But the token is the old one until the new play's load has returned.
Silent(n) == ~(rx.st = "playing" /\ rx.media = n) /\ rx.load # n
Mine == dog.play = cast.armed /\ cast.on
DogWakes ==
    /\ dog.pc = "sleep" /\ (Silent(dog.play) \/ dog.early)
    /\ dog' = IF Mine THEN [dog EXCEPT !.pc = "probe"] ELSE NoDog
    /\ UNCHANGED <<rx, status, cast, call, press, posted, drops, told, truth, used>>

\* Unreachable is an outage, reachable a forced advance: an end either way, which
\* meets the play that is being loaded, or has failed to, if there is one.
MeetsNext == dog.play # cast.cur /\ (call # "none" \/ cast.cur \in truth.gone)
DogProbed ==
    /\ dog.pc = "probe"
    /\ IF Mine THEN cast' = [cast EXCEPT !.on = FALSE] /\ told' = Ended(told)
               ELSE UNCHANGED <<cast, told>>
    /\ truth' = IF Mine /\ (dog.early \/ MeetsNext) THEN [truth EXCEPT !.crossed = @ \cup {cast.cur}] ELSE truth
    /\ dog' = NoDog
    /\ UNCHANGED <<rx, status, call, press, posted, drops, used>>

-----------------------------------------------------------------------------
(* play, pause, resume, stop *)

\* play() up to the executor; the dispatches are serialised by the lock.  The
\* watchdog of the play before sleeps on, its flag is up.
PlayStarts(mode) ==
    /\ call = "none" /\ cast.cur < MaxPlays
    /\ cast' = [cast EXCEPT !.cur = @ + 1, !.mode = mode, !.token = cast.cur + 1,
                            !.attempts = 0]
    /\ call' = "load"
    /\ UNCHANGED <<rx, status, press, dog, posted, drops, told, truth, used>>

\* _sync_play: the LOAD is on its way; the flag is set by the executor.
PlayLoads ==
    /\ call = "load"
    /\ \/ /\ rx.up
          /\ rx' = [rx EXCEPT !.load = cast.cur]
          /\ cast' = [cast EXCEPT !.on = TRUE]
          /\ call' = "return"
          /\ truth' = Revived(truth)
          /\ used' = used
       \/ /\ IF rx.up THEN Mishap ELSE used' = used
          /\ cast' = [cast EXCEPT !.on = FALSE]
          /\ call' = "none"
          /\ truth' = [truth EXCEPT !.gone = @ \cup {cast.cur}]
          /\ UNCHANGED rx
    /\ UNCHANGED <<status, press, dog, posted, drops, told>>

\* Fault variant: a station, which has no watchdog, leaves the one there is.
PlayReturnsOnly ==
    /\ call = "return"
    /\ call' = "none"
    /\ IF cast.mode = "track"
       THEN dog' = [NoDog EXCEPT !.pc = "sleep", !.play = cast.cur] /\ cast' = [cast EXCEPT !.armed = cast.cur]
       ELSE UNCHANGED <<dog, cast>>
    /\ press' = IF press = "seek" THEN "seeklate" ELSE press
    /\ UNCHANGED <<rx, status, posted, drops, told, truth, used>>

\* The old watchdog is cancelled and its token retired.  One is armed for a track,
\* an endless stream has none.  A seek still in its executor was for the play before.
PlayReturns ==
    /\ call = "return"
    /\ call' = "none"
    /\ dog' = IF cast.mode = "track" THEN [NoDog EXCEPT !.pc = "sleep", !.play = cast.cur] ELSE NoDog
    /\ cast' = [cast EXCEPT !.armed = IF cast.mode = "track" THEN cast.cur ELSE 0]
    /\ press' = IF press = "seek" THEN "seeklate" ELSE press
    /\ UNCHANGED <<rx, status, posted, drops, told, truth, used>>

\* The part of a transport call before its executor.
Presses(p) ==
    /\ press = "none" /\ cast.cur > 0 /\ Pressed
    /\ press' = p
    /\ dog' = IF p \in {"resume", "seek"} THEN dog ELSE NoDog
    /\ cast' = IF p = "stop" THEN [cast EXCEPT !.mode = IF @ = "radio" THEN "off" ELSE @]
               ELSE cast
    /\ UNCHANGED <<rx, status, call, posted, drops, told, truth>>

PauseDone ==
    /\ press = "pause" /\ press' = "none"
    /\ rx' = [rx EXCEPT !.st = IF @ = "playing" THEN "paused" ELSE @]
    /\ cast' = [cast EXCEPT !.on = FALSE]
    /\ UNCHANGED <<status, call, dog, posted, drops, told, truth, used>>

ResumeDone ==
    /\ press = "resume" /\ press' = "none"
    /\ rx' = [rx EXCEPT !.st = IF @ = "paused" THEN "playing" ELSE @]
    /\ cast' = [cast EXCEPT !.on = TRUE]
    /\ truth' = Revived(truth)
    /\ UNCHANGED <<status, call, dog, posted, drops, told, used>>

\* The receiver answers a stop with IDLE of a reason that ends nothing.
StopDone ==
    /\ press = "stop" /\ press' = "none"
    /\ rx' = [rx EXCEPT !.st = "idle"]
    /\ cast' = [cast EXCEPT !.on = FALSE]
    /\ truth' = [truth EXCEPT !.gone = @ \cup {rx.media}]
    /\ UNCHANGED <<status, call, dog, posted, drops, told, used>>

\* The watchdog is armed again for the rest, under a new token: the rest of what
\* has returned from its load by now, counted from where the host seeked to.
SeekDone ==
    /\ press \in {"seek", "seeklate"} /\ press' = "none"
    /\ \/ dog' = IF cast.on /\ cast.armed # 0
                 THEN [pc |-> "sleep", play |-> cast.armed, early |-> press = "seeklate"] ELSE dog
       \/ dog' = dog   \* the receiver refused
    /\ UNCHANGED <<rx, status, cast, call, posted, drops, told, truth, used>>

Receiver == RxLoads \/ RxEnds \/ RxHangs \/ RxLost \/ RxBack
Loop == HandlesEos \/ SchedulesReconnect \/ HandlesLost \/ ReconnectWakes
          \/ (\E n \in Plays : ReconnectLoads(n)) \/ DogWakes \/ DogProbed
Host == \/ \E mode \in {"track", "radio"} : PlayStarts(mode)
        \/ \E p \in {"pause", "resume", "stop", "seek"} : Presses(p)
CastNext == \/ Receiver \/ Listens \/ Loop \/ Host
            \/ PlayLoads \/ PlayReturns \/ PauseDone \/ ResumeDone \/ StopDone \/ SeekDone

CastFair == /\ WF_castVars(Listens) /\ WF_castVars(DogWakes \/ DogProbed)
            /\ WF_castVars(HandlesEos \/ SchedulesReconnect \/ HandlesLost)
            /\ WF_castVars(PlayLoads \/ PlayReturns)
            /\ WF_castVars(PauseDone \/ ResumeDone \/ StopDone \/ SeekDone)
CastSpec == CastInit /\ [][CastNext]_castVars /\ CastFair

-----------------------------------------------------------------------------
CastTypeOK ==
    /\ cast \in [mode : Modes, cur : 0 .. MaxPlays, on : BOOLEAN, token : 0 .. MaxPlays,
                 attempts : 0 .. RadioCap + 1, armed : 0 .. MaxPlays]
    /\ rx \in [media : 0 .. MaxPlays, load : 0 .. MaxPlays,
               st : {"idle", "playing", "paused"}, up : BOOLEAN]
    /\ \A i \in DOMAIN status : status[i].media \in Plays
    /\ \A n \in Plays : told.heard[n] <= 1

\* A play the receiver still plays is not ended by an old watchdog, an old loss
\* of the link or a second report, once its own load has returned.  Excepted are
\* ends of the play before that were on their way when it returned, or came
\* before it, the watchdog that a seek of the play before set, and the load of a
\* station that was left meanwhile.
CastHealthyKept ==
    \A n \in Plays : told.ended[n] > 0 => n \in truth.gone \cup truth.crossed

\* "A watchdog from a superseded track no-ops" (chromecast.py:602-604).  The code
\* does not keep it: the token is bumped when the load has returned, until then
\* the old watchdog ends the play that is being loaded.  No run checks it.
CastOldDogIdle == dog.pc = "probe" /\ Mine => dog.play = cast.cur

\* An end is reported once, so the queue moves once, unless a resume set the
\* flag again that the first report had cleared, or an earlier end met it.
CastEndsOnce == \A n \in Plays \ (truth.revived \cup truth.crossed) : told.ended[n] <= 1

-----------------------------------------------------------------------------
(* Why the two hold: the inductive invariant of the proofs in PlayersProofs. *)

EosDue(i) == posted[i].do = "eos" /\ posted[i].play = cast.cur

RecordsTyped ==
    /\ DOMAIN rx = {"media", "load", "st", "up"} /\ DOMAIN dog = {"pc", "play", "early"}
    /\ DOMAIN cast = {"mode", "cur", "on", "token", "attempts", "armed"}
    /\ DOMAIN drops = {"waiting", "loading"} /\ DOMAIN told = {"ended", "heard"}
    /\ DOMAIN truth = {"gone", "crossed", "revived"}
NumbersTyped ==
    /\ cast.cur \in 0 .. MaxPlays /\ {rx.media, rx.load, cast.armed} \subseteq 0 .. cast.cur
    /\ dog.play \in {0, cast.armed} /\ dog.early \in BOOLEAN /\ (dog.play = 0 => dog.pc = "none")
    /\ call # "none" => cast.cur > 0
    /\ drops.loading \in [Plays -> Nat] /\ told.ended \in [Plays -> Nat]
    /\ \A n \in Plays : n > cast.cur => drops.loading[n] = 0 /\ told.ended[n] = 0
    /\ cast.cur > 0 /\ cast.armed = cast.cur => cast.mode = "track" /\ call = "none"
StatusTyped ==
    /\ status \in Seq([media : 0 .. MaxPlays, state : {"PLAYING"} \cup Terminal])
    /\ \A i \in DOMAIN status : status[i].media <= cast.cur
PostedTyped ==
    /\ posted \in Seq([do : {"eos", "reconnect", "lost"}, play : 0 .. MaxPlays])
    /\ \A i \in DOMAIN posted : posted[i].play <= cast.cur
CastShape == RecordsTyped /\ NumbersTyped /\ StatusTyped /\ PostedTyped

\* The flag is down from the report on, and the end is posted once.
ReportsOnce ==
    cast.cur \in Plays \ (truth.revived \cup truth.crossed) =>
      /\ told.ended[cast.cur] <= 1
      /\ cast.on \/ cast.mode = "radio" =>
           told.ended[cast.cur] = 0 /\ \A i \in DOMAIN posted : ~EosDue(i)
      /\ \A i, j \in DOMAIN posted : EosDue(i) /\ EosDue(j) => i = j /\ told.ended[cast.cur] = 0

\* What is reported is gone.
ReportsGone ==
    /\ \A i \in DOMAIN status : status[i].state \in Terminal => status[i].media \in truth.gone
    /\ \A i \in DOMAIN posted : posted[i].do = "eos" => posted[i].play \in truth.gone

\* A track that is not gone is loading or loaded, and no watchdog but a late
\* seek's is after it.
TrackLives ==
    cast.cur \in Plays \ (truth.gone \cup truth.crossed) =>
      /\ cast.mode = "track" /\ call # "load" =>
           \/ rx.load = cast.cur
           \/ /\ rx.load = 0 /\ rx.media = cast.cur /\ rx.st \in {"playing", "paused"}
              /\ cast.on => rx.st = "playing"
      /\ call = "none" => cast.armed \in {0, cast.cur}
      /\ dog.play = cast.cur /\ dog.pc = "probe" => dog.early

CastInv == CastShape /\ ReportsOnce /\ ReportsGone /\ TrackLives /\ CastHealthyKept /\ CastEndsOnce

-----------------------------------------------------------------------------
\* A track whose receiver fell silent ends, by its status or its watchdog.
CastSilent(n) == cast.cur = n /\ cast.mode = "track" /\ cast.on /\ Silent(n) /\ dog.play = n
CastSettled(n) == told.ended[n] > 0 \/ ~cast.on \/ cast.cur # n
CastSilenceOver == \A n \in Plays : CastSilent(n) => CastSettled(n)
CastSilenceEnds == []<>CastSilenceOver
=============================================================================
