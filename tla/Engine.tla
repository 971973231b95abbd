------------------------------- MODULE Engine -------------------------------
(***************************************************************************)
(* The commit processing engine under concurrent requests: the processing  *)
(* loops of app/processing/engine.py and of the single-commit and webhook  *)
(* endpoints of app/main.py, the response cache of app/github/client.py    *)
(* and the stores and telemetry they all share.                            *)
(*                                                                         *)
(* Every request is a coroutine of one asyncio event loop.  It gives the   *)
(* loop up only while an HTTP answer is outstanding; a cached answer does  *)
(* not suspend it.  `running' names the coroutine that has the loop.       *)
(***************************************************************************)
EXTENDS CommitQueue, FiniteSets, FiniteSetsExt

CONSTANTS Tasks,        \* the requests that may arrive, one coroutine each
          Requests,     \* what a request may ask for
          Repos,        \* repositories
          Refs,         \* the names commits are asked by: shas, abbreviations
          ShaOf,        \* ShaOf[ref]: the "sha" in GitHub's answer for ref
          MaxBatch,     \* the most commits one request names
          Idle,         \* running = Idle: no coroutine has the event loop
          Miss,         \* a cache has no answer
          NoSha,        \* no last_sha is recorded
          AppCache      \* the identity of StorageBundle.cache

Jobs == 1 .. MaxBatch   \* a job is its position in the request

Kinds == {"commit", "batch", "webhook"}

ASSUME EngineAssumption ==
    /\ MaxBatch \in Nat
    /\ ShaOf \in [Refs -> Refs]
    /\ \A ref \in Refs : ShaOf[ShaOf[ref]] = ShaOf[ref]
    /\ NoSha \notin Refs
    /\ Idle \notin Tasks /\ AppCache \notin Tasks
    /\ \A r \in Requests :
           /\ r.kind \in Kinds /\ r.repo \in Repos
           /\ r.refs \in Seq(Refs) /\ Len(r.refs) <= MaxBatch
           /\ r.retries \in Nat
           /\ r.kind = "commit" => Len(r.refs) = 1
           /\ r.kind # "batch" => r.retries = 0

\* What GitHub may answer: a commit that builds and passes the schema; one
\* without a "sha", which the schema refuses; one the builder cannot digest
\* (a null html_url, a blank message); an answer the client turns into a
\* GitHubError; a transport failure, a timeout or a body that is not JSON.
Payloads == {"valid", "invalid", "unbuildable"}
Outcomes == Payloads \cup {"github_error", "other_error"}

Keys == Repos \X Refs
EmptyCache == [k \in Keys |-> Miss]

ASSUME MissAssumption == Miss \notin Payloads

VARIABLES
    running,    \* the coroutine that has the event loop, or Idle
    req,        \* req[t]: the request t serves
    pc,         \* pc[t]: where t is
    queue,      \* queue[t]: its CommitQueue; main alone, for a plain loop
    job,        \* job[t]: the position t works on
    outcome,    \* outcome[t]: the answer it got for that job
    commits,    \* commits[t]: the positions processed, JobResult.commits
    status,     \* status[t]: JobResult.status
    cache,      \* cache[c]: the responses in cache c
    cacheOf,    \* cacheOf[t]: the cache the client of t uses
    raw,        \* keys of the raw commit store
    metadata,   \* keys of the metadata store
    lastSha,    \* lastSha[r]: the last processed sha of repository r
    processed,  \* processed[r]: its count of processed commits
    counters,   \* the telemetry counters
    errors      \* errors[e]: how often error record e was appended

control == <<running, req, pc>>
work == <<queue, job, outcome, commits, status>>
stores == <<raw, metadata, lastSha, processed>>
telemetry == <<counters, errors>>
vars == <<control, work, cache, cacheOf, stores, telemetry>>

ErrorRecords == [repo : Repos, ref : Refs, fatal : BOOLEAN]

Init ==
    /\ running = Idle
    /\ req \in [Tasks -> Requests]
    /\ pc = [t \in Tasks |-> "new"]
    /\ queue = [t \in Tasks |-> EmptyQueue(Jobs)]
    /\ job = [t \in Tasks |-> 0]
    /\ outcome = [t \in Tasks |-> "github_error"]
    /\ commits = [t \in Tasks |-> <<>>]
    /\ status = [t \in Tasks |-> "running"]
    /\ cache = [c \in Tasks \cup {AppCache} |-> EmptyCache]
    /\ cacheOf = [t \in Tasks |-> t]
    /\ raw = {}
    /\ metadata = {}
    /\ lastSha = [r \in Repos |-> NoSha]
    /\ processed = [r \in Repos |-> 0]
    /\ counters = [fetched |-> 0, validated |-> 0, succeeded |-> 0,
                   retry |-> 0, dead_letter |-> 0]
    /\ errors = [e \in ErrorRecords |-> 0]

-----------------------------------------------------------------------------
Repo(t) == req[t].repo
Kind(t) == req[t].kind
RefAt(t, i) == req[t].refs[i]
Key(t, i) == <<Repo(t), RefAt(t, i)>>
Positions(t) == 1 .. Len(req[t].refs)

\* GitHubClient(cache=storage.cache): `cache or ResponseCache()'.  A cache
\* without entries has length 0, so it counts as absent.
ClientCache(t) == IF cache[AppCache] = EmptyCache THEN t ELSE AppCache

\* The request is accepted: a client, and all its commits queued in order.
Start(t) ==
    /\ running = Idle /\ pc[t] = "new"
    /\ running' = t
    /\ pc' = [pc EXCEPT ![t] = "pick"]
    /\ cacheOf' = [cacheOf EXCEPT ![t] = ClientCache(t)]
    /\ queue' = [queue EXCEPT ![t] =
                     EnqueueMany(EmptyQueue(Jobs), [i \in Positions(t) |-> i])]
    /\ UNCHANGED <<req, job, outcome, commits, status, cache, stores, telemetry>>

Cached(t, i) == cache[cacheOf[t]][Key(t, i)]

TakeJob(t) ==
    /\ running = t /\ pc[t] = "pick" /\ ~IsEmpty(queue[t])
    /\ job' = [job EXCEPT ![t] = NextJob(queue[t])]
    /\ queue' = [queue EXCEPT ![t] = Dequeue(@)]

\* Fault: the cache is not consulted (use_cache=False).
FetchUncached(t) ==
    /\ TakeJob(t)
    /\ pc' = [pc EXCEPT ![t] = "wait"]
    /\ running' = Idle
    /\ UNCHANGED <<req, outcome, commits, status, cache, cacheOf, stores, telemetry>>

\* Next job, its answer not cached: the GET goes out and the loop is free.
Fetch(t) ==
    /\ TakeJob(t)
    /\ Cached(t, NextJob(queue[t])) = Miss
    /\ pc' = [pc EXCEPT ![t] = "wait"]
    /\ running' = Idle
    /\ UNCHANGED <<req, outcome, commits, status, cache, cacheOf, stores, telemetry>>

\* Next job, answered by the cache without giving up the loop.
FromCache(t) ==
    /\ TakeJob(t)
    /\ Cached(t, NextJob(queue[t])) # Miss
    /\ pc' = [pc EXCEPT ![t] = "got"]
    /\ outcome' = [outcome EXCEPT ![t] = Cached(t, NextJob(queue[t]))]
    /\ UNCHANGED <<running, req, commits, status, cache, cacheOf, stores, telemetry>>

\* The GET completes, or times out; a good answer is cached.
Reply(t) ==
    /\ running = Idle /\ pc[t] = "wait"
    /\ running' = t
    /\ pc' = [pc EXCEPT ![t] = "got"]
    /\ \E o \in Outcomes :
           /\ outcome' = [outcome EXCEPT ![t] = o]
           /\ cache' = IF o \in Payloads
                       THEN [cache EXCEPT ![cacheOf[t]][Key(t, job[t])] = o]
                       ELSE cache
    /\ UNCHANGED <<req, queue, job, commits, status, cacheOf, stores, telemetry>>

-----------------------------------------------------------------------------
Got(t, o) == running = t /\ pc[t] = "got" /\ outcome[t] = o

\* Fault: the raw commit is filed under the name it was asked by.
RawKeyAsAsked(t) == <<Repo(t), RefAt(t, job[t])>>

\* raw.get("sha", sha): an answer without a sha is filed under the name asked.
RawKey(t) == <<Repo(t), IF outcome[t] = "invalid" THEN RefAt(t, job[t])
                        ELSE ShaOf[RefAt(t, job[t])]>>

\* Fault: metadata is filed under the name it was asked by.
MetaKeyAsAsked(t) == <<Repo(t), RefAt(t, job[t])>>

\* MetadataStore.put: meta.sha is the sha of the answer.
MetaKey(t) == <<Repo(t), ShaOf[RefAt(t, job[t])]>>

\* process_commit stores whatever arrived before it looks at it.
StoreRaw(t) == raw' = IF outcome[t] \in Payloads THEN raw \cup {RawKey(t)} ELSE raw

\* One telemetry.metrics.inc for each name in names, "fetched" for any answer.
Count(t, names) ==
    LET all == IF outcome[t] \in Payloads THEN names \cup {"fetched"} ELSE names
    IN  counters' = [n \in DOMAIN counters |->
                         IF n \in all THEN counters[n] + 1 ELSE counters[n]]

\* Fault: record() drops its `fatal' argument.
RecordNeverFatal(t, fatal) ==
    errors' = [errors EXCEPT ![[repo |-> Repo(t), ref |-> RefAt(t, job[t]),
                                fatal |-> FALSE]] = @ + 1]

\* telemetry.errors.record(...)
Record(t, fatal) ==
    errors' = [errors EXCEPT ![[repo |-> Repo(t), ref |-> RefAt(t, job[t]),
                                fatal |-> fatal]] = @ + 1]

\* process_commit returns: every store is written, the loop takes the next job.
Succeed(t) ==
    /\ Got(t, "valid")
    /\ StoreRaw(t)
    /\ metadata' = metadata \cup {MetaKey(t)}
    /\ lastSha' = [lastSha EXCEPT ![Repo(t)] = MetaKey(t)[2]]
    /\ commits' = [commits EXCEPT ![t] = Append(@, job[t])]
    /\ Count(t, {"validated"} \cup (IF Kind(t) = "batch" THEN {"succeeded"} ELSE {}))
    /\ pc' = [pc EXCEPT ![t] = "pick"]
    /\ UNCHANGED <<running, req, queue, job, outcome, status, cache, cacheOf,
                   processed, errors>>

\* A batch routes a GitHubError or a SchemaValidationError through the queue.
Fail(t) ==
    /\ Got(t, "github_error") \/ Got(t, "invalid")
    /\ Kind(t) = "batch"
    /\ StoreRaw(t)
    /\ queue' = [queue EXCEPT ![t] = MarkFailed(@, job[t], req[t].retries)]
    /\ LET dest == Destination(queue[t], job[t], req[t].retries)
       IN  /\ Count(t, {dest})
           /\ IF dest = "dead_letter" THEN Record(t, TRUE) ELSE UNCHANGED errors
    /\ pc' = [pc EXCEPT ![t] = "pick"]
    /\ UNCHANGED <<running, req, job, outcome, commits, status, cache, cacheOf,
                   metadata, lastSha, processed>>

\* A webhook records a GitHubError and goes on with the next ref.
Skip(t) ==
    /\ Got(t, "github_error")
    /\ Kind(t) = "webhook"
    /\ Record(t, FALSE)
    /\ pc' = [pc EXCEPT ![t] = "pick"]
    /\ UNCHANGED <<running, req, work, cache, cacheOf, stores, counters>>

\* Fault: a single-commit request asks again after a GitHubError, without end.
RejectAsksAgain(t) ==
    /\ Got(t, "github_error")
    /\ Kind(t) = "commit"
    /\ pc' = [pc EXCEPT ![t] = "wait"]
    /\ running' = Idle
    /\ UNCHANGED <<req, work, cache, cacheOf, stores, telemetry>>

\* A single-commit request turns a GitHubError into an HTTP error.
Reject(t) ==
    /\ Got(t, "github_error")
    /\ Kind(t) = "commit"
    /\ pc' = [pc EXCEPT ![t] = "rejected"]
    /\ running' = Idle
    /\ UNCHANGED <<req, work, cache, cacheOf, stores, telemetry>>

\* An exception nobody catches ends the request where it stands (HTTP 500).
Crash(t) ==
    /\ \/ Got(t, "unbuildable") \/ Got(t, "other_error")
       \/ Got(t, "invalid") /\ Kind(t) # "batch"
    /\ StoreRaw(t)
    /\ Count(t, {})
    /\ pc' = [pc EXCEPT ![t] = "crashed"]
    /\ running' = Idle
    /\ UNCHANGED <<req, work, cache, cacheOf, metadata, lastSha, processed, errors>>

\* Fault: a batch that failed on every commit counts as partial.
FinalStatusNeverFailed(t) == IF queue[t].dead = <<>> THEN "completed" ELSE "partial"

FinalStatus(t) == IF queue[t].dead = <<>> THEN "completed"
                  ELSE IF commits[t] = <<>> THEN "failed" ELSE "partial"

\* Fault: mark_processed overwrites the count of the repository.
FinishOverwrites(t) ==
    /\ running = t /\ pc[t] = "pick" /\ IsEmpty(queue[t])
    /\ IF Kind(t) = "batch"
       THEN /\ processed' = [processed EXCEPT ![Repo(t)] = Len(commits[t])]
            /\ status' = [status EXCEPT ![t] = FinalStatus(t)]
       ELSE UNCHANGED <<processed, status>>
    /\ pc' = [pc EXCEPT ![t] = "done"]
    /\ running' = Idle
    /\ UNCHANGED <<req, queue, job, outcome, commits, cache, cacheOf, raw,
                   metadata, lastSha, telemetry>>

\* Nothing is left to do: a batch closes its books, and the request returns.
Finish(t) ==
    /\ running = t /\ pc[t] = "pick" /\ IsEmpty(queue[t])
    /\ IF Kind(t) = "batch"
       THEN /\ processed' = [processed EXCEPT ![Repo(t)] = @ + Len(commits[t])]
            /\ status' = [status EXCEPT ![t] = FinalStatus(t)]
       ELSE UNCHANGED <<processed, status>>
    /\ pc' = [pc EXCEPT ![t] = "done"]
    /\ running' = Idle
    /\ UNCHANGED <<req, queue, job, outcome, commits, cache, cacheOf, raw,
                   metadata, lastSha, telemetry>>

\* What the coroutine of t does by itself once it has started.
Step(t) ==
    \/ Fetch(t) \/ FromCache(t) \/ Reply(t)
    \/ Succeed(t) \/ Fail(t) \/ Skip(t) \/ Reject(t) \/ Crash(t)
    \/ Finish(t)

Next == \E t \in Tasks : Start(t) \/ Step(t)

\* The event loop resumes every coroutine that can go on, and every GET ends:
\* httpx gives up after 30 seconds.  No request is obliged to arrive.
Spec == Init /\ [][Next]_vars /\ \A t \in Tasks : WF_vars(Step(t))

=============================================================================
