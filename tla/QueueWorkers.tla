---------------------------- MODULE QueueWorkers ----------------------------
(***************************************************************************)
(* The CommitQueue class of app/jobqueue/job_queue.py as a state machine:  *)
(* one queue, producers that enqueue fresh jobs, and workers that each     *)
(* take a job and later report its fate.  The engine drives a queue with   *)
(* one worker (module Engine); the class does not insist on that, and here *)
(* any number of jobs may be out at once, which is what a reader of the    *)
(* class may rely on.                                                      *)
(***************************************************************************)
EXTENDS CommitQueue

CONSTANTS Jobs,         \* the CommitJob objects
          MaxRetries    \* the max_retries of the queue

ASSUME MaxRetriesAssumption == MaxRetries \in Nat

VARIABLES queue,        \* the CommitQueue object
          fresh,        \* jobs not enqueued yet
          taken,        \* jobs a worker holds: next_job returned them
          done          \* jobs whose worker reported no failure

vars == <<queue, fresh, taken, done>>

Init ==
    /\ queue = EmptyQueue(Jobs)
    /\ fresh = Jobs
    /\ taken = {}
    /\ done = {}

\* enqueue(job): the engine enqueues every CommitJob object once.
Enqueue(j) ==
    /\ j \in fresh
    /\ fresh' = fresh \ {j}
    /\ queue' = EnqueueMany(queue, <<j>>)
    /\ UNCHANGED <<taken, done>>

\* A worker's next_job() that does not return None.
Take ==
    /\ ~IsEmpty(queue)
    /\ taken' = taken \cup {NextJob(queue)}
    /\ queue' = Dequeue(queue)
    /\ UNCHANGED <<fresh, done>>

\* A worker's attempt succeeds: it never hands the job back.
Succeed(j) ==
    /\ j \in taken
    /\ taken' = taken \ {j}
    /\ done' = done \cup {j}
    /\ UNCHANGED <<queue, fresh>>

\* A worker's attempt fails: mark_failed(job).
Fail(j) ==
    /\ j \in taken
    /\ taken' = taken \ {j}
    /\ queue' = MarkFailed(queue, j, MaxRetries)
    /\ UNCHANGED <<fresh, done>>

Next ==
    \/ Take
    \/ \E j \in Jobs : Enqueue(j) \/ Succeed(j) \/ Fail(j)

\* Workers keep asking for jobs and finish every attempt they start.  Nobody
\* is obliged to enqueue anything.
Fairness == WF_vars(Take) /\ \A j \in Jobs : WF_vars(Succeed(j) \/ Fail(j))

Spec == Init /\ [][Next]_vars /\ Fairness

-----------------------------------------------------------------------------
\* Type invariant.
TypeOK ==
    /\ queue \in QueueOf(Jobs)
    /\ fresh \subseteq Jobs
    /\ taken \subseteq Jobs
    /\ done \subseteq Jobs

\* The six places a job can be in, and the jobs in each.
Places == {"fresh", "main", "retry", "taken", "done", "dead"}

At(p) == CASE p = "fresh" -> fresh
           [] p = "main"  -> Range(queue.main)
           [] p = "retry" -> Range(queue.retry)
           [] p = "taken" -> taken
           [] p = "done"  -> done
           [] p = "dead"  -> Range(queue.dead)

\* No job is lost and none is duplicated, whatever the order in which workers
\* take and report: every job is in exactly one place, and none of the three
\* sequences holds a job twice (next_job, mark_failed).
Accounted ==
    /\ \A j \in Jobs : \E p \in Places : j \in At(p)
    /\ \A p1, p2 \in Places : p1 # p2 => At(p1) \cap At(p2) = {}
    /\ IsInjective(queue.main)
    /\ IsInjective(queue.retry)
    /\ IsInjective(queue.dead)

\* max_retries is honoured exactly: a job waits for a retry only with 1 to
\* max_retries failures behind it, is dead-lettered at max_retries + 1 and
\* neither earlier nor later, and one that failed more often than that is not
\* running or done (the comparison of job_queue.py:54).
Budget ==
    /\ \A j \in At("fresh") \cup At("main") : queue.attempts[j] = 0
    /\ \A j \in At("retry") : queue.attempts[j] \in 1 .. MaxRetries
    /\ \A j \in taken \cup done : queue.attempts[j] \in 0 .. MaxRetries
    /\ \A j \in At("dead") : queue.attempts[j] = MaxRetries + 1

\* Retry-first does not starve the main queue ("Drain retry queue first
\* (fairness)", job_queue.py:42): every enqueued job is settled in the end,
\* however often the jobs ahead of it fail.
EverySettled == \A j \in Jobs : j \notin fresh ~> j \in At("done") \cup At("dead")

-----------------------------------------------------------------------------
(***************************************************************************)
(* The queue implements the contract of a commit job.                      *)
(***************************************************************************)
Phase(j) == CASE j \in At("fresh") -> "absent"
              [] j \in At("main") \cup At("retry") -> "waiting"
              [] j \in At("taken") -> "running"
              [] j \in At("done") -> "done"
              [] OTHER -> "dead"

Contract == INSTANCE JobContract
            WITH Limits <- {MaxRetries},
                 MayAbandon <- FALSE,
                 phase <- [j \in Jobs |-> Phase(j)],
                 failures <- queue.attempts,
                 limit <- [j \in Jobs |-> IF j \in fresh THEN 0 ELSE MaxRetries]

\* Every step of the queue is a step of the contract: attempts follow each
\* other one at a time and each job ends processed or dead-lettered, once.
KeepsContract == Contract!Spec

=============================================================================
