-------------------------- MODULE EngineProperties --------------------------
(***************************************************************************)
(* What the engine must keep, whatever the order of arrivals, answers and  *)
(* failures: no job lost, retry budgets, agreement of stores, results and  *)
(* telemetry, termination, and the contract of a job.                      *)
(***************************************************************************)
EXTENDS Engine

\* Type invariant.
TypeOK ==
    /\ running \in Tasks \cup {Idle}
    /\ req \in [Tasks -> Requests]
    /\ pc \in [Tasks -> {"new", "pick", "wait", "got", "done", "rejected", "crashed"}]
    /\ queue \in [Tasks -> QueueOf(Jobs)]
    /\ job \in [Tasks -> 0 .. MaxBatch]
    /\ outcome \in [Tasks -> Outcomes]
    /\ commits \in [Tasks -> Seq(Jobs)]
    /\ status \in [Tasks -> {"running", "completed", "failed", "partial"}]
    /\ cache \in [Tasks \cup {AppCache} -> [Keys -> Payloads \cup {Miss}]]
    /\ cacheOf \in [Tasks -> Tasks \cup {AppCache}]
    /\ raw \subseteq Keys /\ metadata \subseteq Keys
    /\ lastSha \in [Repos -> Refs \cup {NoSha}]
    /\ processed \in [Repos -> Nat]
    /\ counters \in [{"fetched", "validated", "succeeded", "retry", "dead_letter"} -> Nat]
    /\ errors \in [ErrorRecords -> Nat]

\* Where the positions of request t are.
Started(t) == pc[t] # "new"
Ended(t) == pc[t] \in {"done", "rejected", "crashed"}
Waiting(t) == Range(queue[t].main) \cup Range(queue[t].retry)
InHand(t) == IF pc[t] \in {"wait", "got", "crashed"} THEN {job[t]} ELSE {}
Done(t) == Range(commits[t])
Dead(t) == Range(queue[t].dead)
Dropped(t) == IF Started(t)     \* by a webhook, or by a rejected single commit
              THEN Positions(t) \ (Waiting(t) \cup InHand(t) \cup Done(t) \cup Dead(t))
              ELSE {}

\* No commit of a request is lost or handled twice across the queue, the
\* coroutine, the results and the dead letters; only a loop without a queue
\* (webhook, single commit) drops one (process_batch, next_job, mark_failed).
JobsAccounted ==
    \A t \in Tasks :
        /\ Started(t) =>
             Waiting(t) \cup InHand(t) \cup Done(t) \cup Dead(t) \subseteq Positions(t)
        /\ Kind(t) = "batch" => Dropped(t) = {}
        /\ IsInjective(queue[t].main) /\ IsInjective(queue[t].retry)
        /\ IsInjective(queue[t].dead) /\ IsInjective(commits[t])
        /\ Range(queue[t].main) \cap Range(queue[t].retry) = {}
        /\ Waiting(t) \cap (InHand(t) \cup Done(t) \cup Dead(t)) = {}
        /\ InHand(t) \cap (Done(t) \cup Dead(t)) = {}
        /\ Done(t) \cap Dead(t) = {}

\* The retry limit of the request is honoured exactly (engine.py:81-87).
RetryBudget ==
    \A t \in Tasks :
        /\ \A i \in Range(queue[t].main) : queue[t].attempts[i] = 0
        /\ \A i \in Range(queue[t].retry) : queue[t].attempts[i] \in 1 .. req[t].retries
        /\ \A i \in Done(t) \cup InHand(t) : queue[t].attempts[i] <= req[t].retries
        /\ \A i \in Dead(t) : queue[t].attempts[i] = req[t].retries + 1

\* A request works through its commits in the order given: retry-first means
\* that no commit is begun while an earlier one of the request is unsettled,
\* so that results and dead letters each keep that order.
InOrder ==
    \A t \in Tasks : Started(t) =>
        /\ \A i \in Range(queue[t].main), k \in Positions(t) \ Waiting(t) : k < i
        /\ InHand(t) # {} => queue[t].retry = <<>>
        /\ Range(queue[t].retry) \subseteq {job[t]}
        /\ \A a, b \in DOMAIN commits[t] : a < b => commits[t][a] < commits[t][b]

\* The stores agree at every moment another request can look: metadata has
\* its raw commit, and the last sha of a repository is one whose metadata is
\* there, set as soon as the first metadata is (engine.py:38-48).
StoresAgree ==
    /\ metadata \subseteq raw
    /\ \A r \in Repos :
           IF \E ref \in Refs : <<r, ref>> \in metadata
           THEN <<r, lastSha[r]>> \in metadata
           ELSE lastSha[r] = NoSha

\* Everything a request reports as processed is in the metadata store, under
\* the sha GitHub gave and not the name asked by.
ResultsStored ==
    \A t \in Tasks : \A i \in Done(t) : <<Repo(t), ShaOf[RefAt(t, i)]>> \in metadata

\* Jobs of all requests, by what became of them.
AllJobs == Tasks \X Jobs
Results == {x \in AllJobs : x[2] \in Done(x[1])}
BatchResults == {x \in Results : Kind(x[1]) = "batch"}
DeadLetters == {x \in AllJobs : x[2] \in Dead(x[1])}
Skipped == {x \in AllJobs : Kind(x[1]) = "webhook" /\ x[2] \in Dropped(x[1])}
Credits(r) == {x \in BatchResults : Repo(x[1]) = r /\ pc[x[1]] = "done"}

\* The first, second, ... f[x]-th occurrence of each x in S.
Occurrences(f, S) == UNION {{x} \X (1 .. f[x]) : x \in S}

FailedAttempts == Occurrences([x \in AllJobs |-> queue[x[1]].attempts[x[2]]], AllJobs)
Records(fatal) == Occurrences(errors, {e \in ErrorRecords : e.fatal = fatal})

\* The telemetry adds up across interleaved requests: every counter equals
\* the number of results, dead letters or failed attempts that all requests
\* have to show, and there is one fatal error record per dead letter, one
\* other per commit a webhook dropped (engine.py:39-87, main.py:334).
TelemetryAgrees ==
    /\ counters.validated = Cardinality(Results)
    /\ counters.succeeded = Cardinality(BatchResults)
    /\ counters.dead_letter = Cardinality(DeadLetters)
    /\ counters.retry + counters.dead_letter = Cardinality(FailedAttempts)
    /\ counters.validated <= counters.fetched
    /\ Cardinality(Records(TRUE)) = counters.dead_letter
    /\ Cardinality(Records(FALSE)) = Cardinality(Skipped)

\* The processed count of a repository is the number of commits its finished
\* batches succeeded on, however they overlapped (engine.py:90).
ProcessedTotals == \A r \in Repos : processed[r] = Cardinality(Credits(r))

\* Everything counted across requests adds up.
CountsAgree == TelemetryAgrees /\ ProcessedTotals

\* The status a finished batch returns tells the truth about all its commits
\* (engine.py:91-96).
StatusHonest ==
    \A t \in Tasks : Kind(t) = "batch" /\ pc[t] = "done" =>
        /\ status[t] = "completed" <=> Done(t) = Positions(t)
        /\ status[t] = "failed" <=> Positions(t) # {} /\ Dead(t) = Positions(t)
        /\ status[t] # "running"

\* A retry never re-sends a request GitHub has already answered with a commit:
\* an answer the schema refuses is retried out of the cache (client.py:64-83),
\* so that all attempts of its job fail.
AnsweredOnce ==
    \A t \in Tasks :
        /\ pc[t] = "wait" => Cached(t, job[t]) = Miss
        /\ \A i \in Positions(t) : Cached(t, i) = "invalid" => i \notin Done(t)
        /\ \A i \in Done(t) : Cached(t, i) = "valid"

-----------------------------------------------------------------------------
\* A step that takes back no result, dead letter, status or record in a store.
KeepsSettled ==
    /\ metadata \subseteq metadata' /\ raw \subseteq raw'
    /\ \A t \in Tasks :
           /\ Done(t) \subseteq Done(t)' /\ Dead(t) \subseteq Dead(t)'
           /\ Ended(t) => UNCHANGED <<pc[t], queue[t], commits[t], status[t]>>
    /\ \A r \in Repos : lastSha[r] # NoSha => lastSha'[r] # NoSha

\* What is settled stays settled: later answers, other requests and crashes
\* never take any of it back (engine.py:41-48, :79-97).
SettledStays == [][KeepsSettled]_vars

\* Every request that starts comes to an end, however often GitHub fails it
\* and whatever else the loop has to serve: retries are bounded.
RequestsEnd == \A t \in Tasks : Started(t) ~> Ended(t)

-----------------------------------------------------------------------------
(***************************************************************************)
(* Every commit of every request keeps the job contract.  A commit that a  *)
(* webhook or a single-commit request drops is dead with no retries; those *)
(* left over by a crash are lost.                                          *)
(***************************************************************************)
Phase(t, i) ==
    IF ~Started(t) \/ i \notin Positions(t) THEN "absent"
    ELSE IF i \in Done(t) THEN "done"
    ELSE IF i \in Dead(t) \cup Dropped(t) THEN "dead"
    ELSE IF pc[t] = "crashed" THEN "lost"
    ELSE IF i \in InHand(t) THEN "running" ELSE "waiting"

Contract == INSTANCE JobContract
            WITH Jobs <- Tasks \X Jobs,
                 Limits <- {r.retries : r \in Requests},
                 MayAbandon <- TRUE,
                 phase <- [j \in Tasks \X Jobs |-> Phase(j[1], j[2])],
                 failures <- [j \in Tasks \X Jobs |->
                                 IF j[2] \in Dropped(j[1]) THEN 1
                                 ELSE queue[j[1]].attempts[j[2]]],
                 limit <- [j \in Tasks \X Jobs |->
                              IF Phase(j[1], j[2]) = "absent" THEN 0
                              ELSE req[j[1]].retries]

\* Each step of any request is one step of the contract for its commits.
KeepsContract == Contract!Spec

-----------------------------------------------------------------------------
(***************************************************************************)
(* What the documents say and the code does not do: see the findings.      *)
(***************************************************************************)

\* The app's response cache is used by every request after the first answer
\* (main.py:33 "storage + telemetry survive across requests").
SharedCacheUsed ==
    [][\A t \in Tasks : Started(t)' /\ ~Started(t)
         /\ (\E u \in Tasks : \E k \in Keys : cache[cacheOf[u]][k] # Miss)
         => cacheOf'[t] = AppCache]_vars

\* A batch or a push settles all its commits: failures inside the engine go to
\* the retry queue and then to the dead letters (docs/architecture.md:233), so
\* that no commit is left waiting or in hand when the request has ended.
FailuresRouted ==
    \A t \in Tasks : Kind(t) # "commit" /\ Ended(t) => Waiting(t) \cup InHand(t) = {}

=============================================================================
