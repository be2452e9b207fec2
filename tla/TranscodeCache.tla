--------------------------- MODULE TranscodeCache ---------------------------
(***************************************************************************)
(* app/api/stream.py, the transcoding half: an Ogg source is fetched whole,*)
(* fed to ffmpeg and served from a FLAC file.  Requests for one key share  *)
(* one transcode; its result is cached by whichever of them wakes first,   *)
(* and the least recently used file goes when there are too many.  The     *)
(* prefetch of the next track (_warm_next_transcode) is one more request.  *)
(*                                                                         *)
(* A transcode's number names its file as well.  The cache lock is never   *)
(* held across an await, so what it covers is one step.                    *)
(***************************************************************************)
EXTENDS Integers, Sequences, FiniteSets

CONSTANTS Keys, None,
          Requests,     \* requests under way at once
          CacheMax,     \* _TRANSCODE_CACHE_MAX
          Size,         \* chunks of a source
          MaxResumes,   \* _STREAM_RESUME_MAX
          MaxJobs, MaxFaults, MaxCancels, MaxTracks

VARIABLES cache,     \* _TRANSCODE_CACHE, oldest first: [key, file]
          inflight,  \* _transcode_inflight: a transcode, 0 for none
          job,       \* the transcodes: [pc, key, known, fed, attempts]
          files,     \* temp files on disk
          req,       \* requests: [pc, key, job]
          cur,       \* the key of the track that plays, or None
          spent      \* what the bounds count
proxyVars == <<cache, inflight, job, files, req, cur, spent>>

Jobs == 1..MaxJobs
Quiet == [pc |-> "off", key |-> None, job |-> 0]
Unborn == [pc |-> "unborn", key |-> None, known |-> TRUE, fed |-> 0, attempts |-> 0]

ProxyInit ==
    /\ cache = <<>> /\ inflight = [k \in Keys |-> 0]
    /\ job = [j \in Jobs |-> Unborn]
    /\ files = {} /\ req = [r \in Requests |-> Quiet] /\ cur = None
    /\ spent = [faults |-> 0, cancels |-> 0, tracks |-> 0]

Spends(k) == spent' = [spent EXCEPT ![k] = @ + 1]
Entry(c, k) == {i \in DOMAIN c : c[i].key = k}
Cached(k) == Entry(cache, k) # {}
FileOf(k) == cache[CHOOSE i \in Entry(cache, k) : TRUE].file
Without(c, k) == SelectSeq(c, LAMBDA e : e.key # k)

(***************************************************************************)
(* A request, up to its await of the shared transcode.                     *)
(***************************************************************************)
Hits(r, k) ==       \* the file is there: move_to_end
    /\ Cached(k) /\ FileOf(k) \in files
    /\ cache' = Append(Without(cache, k), [key |-> k, file |-> FileOf(k)])
    /\ req' = [req EXCEPT ![r] = [pc |-> "serve", key |-> k, job |-> FileOf(k)]]
    /\ UNCHANGED <<inflight, job>>

Misses(r, k) ==     \* join the transcode under way, or start one
    /\ ~(Cached(k) /\ FileOf(k) \in files)
    /\ cache' = Without(cache, k)
    /\ \/ /\ inflight[k] # 0
          /\ req' = [req EXCEPT ![r] = [pc |-> "wait", key |-> k, job |-> inflight[k]]]
          /\ UNCHANGED <<inflight, job>>
       \/ /\ inflight[k] = 0
          /\ \E j \in Jobs :
               /\ job[j] = Unborn /\ \A i \in 1..(j - 1) : job[i] # Unborn
               /\ job' = [job EXCEPT ![j].pc = "fetching", ![j].key = k]
               /\ inflight' = [inflight EXCEPT ![k] = j]
               /\ req' = [req EXCEPT ![r] = [pc |-> "wait", key |-> k, job |-> j]]

Asks(r) ==
    /\ req[r] = Quiet
    /\ \E k \in Keys : Hits(r, k) \/ Misses(r, k)
    /\ UNCHANGED <<files, cur, spent>>

(***************************************************************************)
(* The transcode.                                                          *)
(***************************************************************************)
Fails(j) == job' = [job EXCEPT ![j].pc = "failed"] /\ files' = files \ {j}

\* _fetch_and_transcode: the source answers with or without a length, or not.
Fetches(j) ==
    /\ job[j].pc = "fetching"
    /\ \/ \E known \in BOOLEAN : /\ job' = [job EXCEPT ![j].pc = "feeding", ![j].known = known]
                                 /\ files' = files \cup {j}
          /\ UNCHANGED spent
       \/ spent.faults < MaxFaults /\ Spends("faults") /\ Fails(j)
    /\ UNCHANGED <<cache, inflight, req, cur>>

Feeds(j) ==
    /\ job[j].pc = "feeding" /\ job[j].fed < Size
    /\ job' = [job EXCEPT ![j].fed = @ + 1, ![j].attempts = 0]
    /\ UNCHANGED <<cache, inflight, files, req, cur, spent>>

\* The source drops: a known length is resumed by a 206, a refusal or a 200
\* ends the feed.
FeedDrops(j) ==
    /\ job[j].pc = "feeding" /\ job[j].fed < Size /\ spent.faults < MaxFaults
    /\ \/ /\ job[j].known /\ job[j].attempts < MaxResumes
          /\ job' = [job EXCEPT ![j].attempts = @ + 1]
       \/ job' = [job EXCEPT ![j].pc = "fed"]
    /\ Spends("faults")
    /\ UNCHANGED <<cache, inflight, files, req, cur>>

FeedEnds(j) ==
    /\ job[j].pc = "feeding" /\ job[j].fed = Size
    /\ job' = [job EXCEPT ![j].pc = "fed"]
    /\ UNCHANGED <<cache, inflight, files, req, cur, spent>>

\* Mutant of Short: a truncated Ogg that ffmpeg takes is an artifact.
ShortNever(j) == FALSE
Short(j) == job[j].known /\ job[j].fed < Size

\* ffmpeg exits: zero on a truncated input too, so the feed is looked at.
Encodes(j) ==
    /\ job[j].pc = "fed"
    /\ IF Short(j) THEN Fails(j) ELSE job' = [job EXCEPT ![j].pc = "done"] /\ UNCHANGED files
    /\ UNCHANGED <<cache, inflight, req, cur, spent>>

\* ffmpeg dies: its exit code is not zero.  (The seektable is best effort.)
EncoderDies(j) ==
    /\ job[j].pc \in {"feeding", "fed"} /\ spent.faults < MaxFaults
    /\ Spends("faults") /\ Fails(j)
    /\ UNCHANGED <<cache, inflight, req, cur>>

\* The finished task's callbacks: the map forgets it, then its waiters are
\* made ready; they run after whatever was ready before them.
WakesFor(j) == req' = [r \in Requests |-> IF req[r].pc = "wait" /\ req[r].job = j
                                          THEN [req[r] EXCEPT !.pc = "woken"] ELSE req[r]]
\* Mutant of Popped: a transcode that failed stays in the map.
PoppedIfDone(j) ==
    /\ job[j].pc \in {"done", "failed"} /\ inflight[job[j].key] = j
    /\ \E r \in Requests : req[r].pc = "wait" /\ req[r].job = j
    /\ inflight' = IF job[j].pc = "done" THEN [inflight EXCEPT ![job[j].key] = 0] ELSE inflight
    /\ WakesFor(j)
    /\ UNCHANGED <<cache, job, files, cur, spent>>
Popped(j) ==
    /\ job[j].pc \in {"done", "failed"} /\ inflight[job[j].key] = j
    /\ inflight' = [inflight EXCEPT ![job[j].key] = 0] /\ WakesFor(j)
    /\ UNCHANGED <<cache, job, files, cur, spent>>

(***************************************************************************)
(* A request, once the transcode it awaited is over.                       *)
(***************************************************************************)
\* Mutant of Pinned: only the entry just made is safe.
PinnedNew(k) == {k}
Pinned(k) == {cur, k} \ {None}

\* Oldest first among those that are not pinned, until the cache fits.
Victims(c, k) ==
    LET loose == {i \in DOMAIN c : c[i].key \notin Pinned(k)}
        over == Len(c) - CacheMax
    IN {c[i] : i \in {i \in loose : Cardinality({h \in loose : h < i}) < over}}

Caches(r) ==
    LET k == req[r].key
        c == Append(cache, [key |-> k, file |-> req[r].job])
        out == Victims(c, k)
    IN /\ req[r].pc = "woken" /\ job[req[r].job].pc = "done"
       /\ IF Cached(k) THEN UNCHANGED <<cache, files>>
          ELSE /\ cache' = SelectSeq(c, LAMBDA e : e \notin out)
               /\ files' = files \ {e.file : e \in out}
       /\ req' = [req EXCEPT ![r].pc = "serve"]
       /\ UNCHANGED <<inflight, job, cur, spent>>

Refused(r) ==       \* 502
    /\ req[r].pc = "woken" /\ job[req[r].job].pc = "failed"
    /\ req' = [req EXCEPT ![r] = Quiet]
    /\ UNCHANGED <<cache, inflight, job, files, cur, spent>>

Serves(r) ==        \* FileResponse opens the path it was given
    /\ req[r].pc = "serve"
    /\ req' = [req EXCEPT ![r] = Quiet]
    /\ UNCHANGED <<cache, inflight, job, files, cur, spent>>

\* A waiting request is cancelled; the shared transcode goes on.
Cancelled(r) ==
    /\ req[r].pc \in {"wait", "woken"} /\ spent.cancels < MaxCancels
    /\ req' = [req EXCEPT ![r] = Quiet] /\ Spends("cancels")
    /\ UNCHANGED <<cache, inflight, job, files, cur>>

Plays ==
    /\ spent.tracks < MaxTracks /\ Spends("tracks")
    /\ cur' \in Keys \ {cur}
    /\ UNCHANGED <<cache, inflight, job, files, req>>

Vanishes ==         \* something else clears the temp directory
    /\ spent.faults < MaxFaults /\ Spends("faults")
    /\ \E f \in {cache[i].file : i \in DOMAIN cache} \cap files : files' = files \ {f}
    /\ UNCHANGED <<cache, inflight, job, req, cur>>

JobSteps(j) == Fetches(j) \/ Feeds(j) \/ FeedEnds(j) \/ Encodes(j) \/ Popped(j)
ProxyNext ==
    \/ \E r \in Requests : Asks(r) \/ Caches(r) \/ Refused(r) \/ Serves(r) \/ Cancelled(r)
    \/ \E j \in Jobs : JobSteps(j) \/ FeedDrops(j) \/ EncoderDies(j)
    \/ Plays \/ Vanishes
ProxySpec == ProxyInit /\ [][ProxyNext]_proxyVars
RequestWorks(r) == Caches(r) \/ Refused(r) \/ Serves(r)
ProxyFair ==
    /\ \A j \in Jobs : WF_proxyVars(JobSteps(j))
    /\ \A r \in Requests : WF_proxyVars(RequestWorks(r))
ProxyFairSpec == ProxySpec /\ ProxyFair

(***************************************************************************)
(* What should hold.                                                       *)
(***************************************************************************)
\* The state is of the shape the code keeps, and the cache is never more
\* than one entry past what fits (the pinned track's).
ProxyTypeOK ==
    /\ \A i, j \in DOMAIN cache : cache[i].key = cache[j].key => i = j
    /\ \A k \in Keys : inflight[k] # 0 => job[inflight[k]].key = k
    /\ Len(cache) <= IF CacheMax < 2 THEN 2 ELSE CacheMax
    /\ files \subseteq {j \in Jobs : job[j] # Unborn}

\* Every cached artifact of known length was made from all of its source:
\* drops, resumes and early exits never cache a stub
\* (_transcode_to_flac_file).
ArtifactWhole ==
    \A i \in DOMAIN cache : LET j == job[cache[i].file] IN j.pc = "done" /\ (j.known => j.fed = Size)

\* The file a device is reading of the track that plays is not evicted,
\* whatever else is asked for meanwhile (_pinned_keys).
CurrentKeptStep ==
    \A k \in Keys : cur = k /\ cur' = k /\ Cached(k) /\ FileOf(k) \in files
                   /\ spent'.faults = spent.faults
        => FileOf(k) \in files' /\ Entry(cache', k) # {}
CurrentKept == [][CurrentKeptStep]_proxyVars

\* No transcode stays in flight for ever: a key whose transcode failed can
\* be asked for again ("permanently poisoning that cache key").
NoneInflight == \A k \in Keys : inflight[k] = 0
InflightClears == []<>NoneInflight

=============================================================================
