---------------------------- MODULE CommitQueue ----------------------------
(***************************************************************************)
(* The three-tier queue of app/jobqueue/job_queue.py as operators on a     *)
(* queue value: main -> retry (bounded by max_retries) -> dead letter.     *)
(* A job is an opaque identity; the `attempts' field of the CommitJob      *)
(* object is kept beside the three queues, as a function of the job.       *)
(***************************************************************************)
EXTENDS Naturals, Sequences, Functions

\* The values a queue of the given jobs ranges over.
QueueOf(Jobs) ==
    [main : Seq(Jobs), retry : Seq(Jobs), dead : Seq(Jobs),
     attempts : [Jobs -> Nat]]

\* CommitQueue(...) with every CommitJob still at attempts = 0.
EmptyQueue(Jobs) ==
    [main |-> <<>>, retry |-> <<>>, dead |-> <<>>,
     attempts |-> [j \in Jobs |-> 0]]

\* enqueue_many: extend the main queue on the right.
EnqueueMany(q, jobs) == [q EXCEPT !.main = @ \o jobs]

\* is_empty: nothing pending in main or retry (the dead letters do not count).
IsEmpty(q) == q.main = <<>> /\ q.retry = <<>>

\* next_job, its result: the retry queue is drained before the main queue.
NextJob(q) == IF q.retry # <<>> THEN Head(q.retry) ELSE Head(q.main)

\* Fault: a job handed out for a retry stays in the retry queue.
DequeuePeeksRetry(q) ==
    IF q.retry # <<>> THEN q ELSE [q EXCEPT !.main = Tail(@)]

\* next_job, its effect: popleft on the queue the job came from.
Dequeue(q) ==
    IF q.retry # <<>> THEN [q EXCEPT !.retry = Tail(@)]
                      ELSE [q EXCEPT !.main = Tail(@)]

\* Fault: the limit counts attempts, not retries.
DestinationTooSoon(q, j, maxRetries) ==
    IF q.attempts[j] + 1 < maxRetries THEN "retry" ELSE "dead_letter"

\* mark_failed, its result: where the failed job goes.
Destination(q, j, maxRetries) ==
    IF q.attempts[j] + 1 <= maxRetries THEN "retry" ELSE "dead_letter"

\* Faults of mark_failed: attempts counted down; not counted at all; a retry
\* put at the end of the main queue; only the last dead letter kept.
MarkFailedCountsDown(q, j, maxRetries) ==
    IF Destination(q, j, maxRetries) = "retry"
    THEN [q EXCEPT !.attempts[j] = @ - 1, !.retry = Append(@, j)]
    ELSE [q EXCEPT !.attempts[j] = @ - 1, !.dead = Append(@, j)]

MarkFailedUncounted(q, j, maxRetries) ==
    IF Destination(q, j, maxRetries) = "retry"
    THEN [q EXCEPT !.retry = Append(@, j)]
    ELSE [q EXCEPT !.dead = Append(@, j)]

MarkFailedToMain(q, j, maxRetries) ==
    IF Destination(q, j, maxRetries) = "retry"
    THEN [q EXCEPT !.attempts[j] = @ + 1, !.main = Append(@, j)]
    ELSE [q EXCEPT !.attempts[j] = @ + 1, !.dead = Append(@, j)]

MarkFailedKeepsLast(q, j, maxRetries) ==
    IF Destination(q, j, maxRetries) = "retry"
    THEN [q EXCEPT !.attempts[j] = @ + 1, !.retry = Append(@, j)]
    ELSE [q EXCEPT !.attempts[j] = @ + 1, !.dead = <<j>>]

\* mark_failed, its effect: one more attempt, then the retry queue or the
\* dead letters.
MarkFailed(q, j, maxRetries) ==
    IF Destination(q, j, maxRetries) = "retry"
    THEN [q EXCEPT !.attempts[j] = @ + 1, !.retry = Append(@, j)]
    ELSE [q EXCEPT !.attempts[j] = @ + 1, !.dead = Append(@, j)]

=============================================================================
