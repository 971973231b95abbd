------------------------------ MODULE Backfill ------------------------------
(***************************************************************************)
(* Incremental processing of one repository: the scheduled backfill of     *)
(* app/automation/scheduler.py, and the webhook deliveries and requests    *)
(* for one commit that run beside it, against a history that grows while   *)
(* they work, around the one last_sha that RepoStateStore keeps.           *)
(*                                                                         *)
(* Commit n is the n-th commit of the default branch.  A commit is fetched *)
(* and stored in one step here; what happens inside (the cache, the        *)
(* telemetry, the result) is module Engine's.  A batch's two queues are    *)
(* one sequence: the retry queue goes first, so a commit that fails is     *)
(* tried again before the next one.                                        *)
(***************************************************************************)
EXTENDS Naturals, Sequences, Functions

CONSTANTS Backfills,    \* calls of run_backfill
          Requests,     \* webhook deliveries and requests for one commit
          MaxHead,      \* bound on the history: its last commit
          MaxPush,      \* bound on a push: its number of commits
          MaxCommits,   \* max_commits, how far back a backfill looks
          MaxRetries    \* max_retries of process_batch

ASSUME BackfillAssumption ==
    /\ MaxHead \in Nat \ {0} /\ MaxPush \in Nat
    /\ MaxCommits \in Nat \ {0} /\ MaxRetries \in Nat
    /\ Backfills \cap Requests = {}

Tasks == Backfills \cup Requests
Commits == 1 .. MaxHead
Side == MaxHead + 1     \* a commit pushed to some other branch
None == 0               \* no last_sha yet

VARIABLES alone,        \* nothing but backfills processes commits
          reliable,     \* no commit fails more than max_retries times
          head,         \* the newest commit of the branch
          pc,           \* pc[t]: where task t is
          listing,      \* listing[b]: the shas discovery returned to b
          todo,         \* todo[t]: the commits t still has to process
          retries,      \* retries[b]: failures so far of the commit b is at
          metadata,     \* commits with stored metadata
          last          \* the last_sha of the repository

kind == <<alone, reliable>>
vars == <<kind, head, pc, listing, todo, retries, metadata, last>>

Init ==
    /\ alone \in BOOLEAN /\ reliable \in BOOLEAN /\ (alone => reliable)
    /\ head \in Commits
    /\ pc = [t \in Tasks |-> "new"]
    /\ listing = [b \in Backfills |-> <<>>]
    /\ todo = [t \in Tasks |-> <<>>]
    /\ retries = [b \in Backfills |-> 0]
    /\ metadata = {}
    /\ last = None

\* A push of n commits that no delivery reports.
Grow(n) ==
    /\ head + n <= MaxHead
    /\ head' = head + n
    /\ UNCHANGED <<kind, pc, listing, todo, retries, metadata, last>>

\* A request arrives with the given commits to process.
Arrive(r, shas) ==
    /\ ~alone
    /\ pc[r] = "new"
    /\ pc' = [pc EXCEPT ![r] = "work"]
    /\ todo' = [todo EXCEPT ![r] = shas]
    /\ UNCHANGED <<kind, listing, retries, metadata, last>>

\* The delivery of a push of n commits to the branch, oldest first.
Deliver(r, n) ==
    /\ head + n <= MaxHead
    /\ head' = head + n
    /\ Arrive(r, [i \in 1 .. n |-> head + i])

\* The delivery of a push to another branch (the webhook does not ask which
\* ref was pushed), or a request for one commit of whatever age.
Ask(r, sha) ==
    /\ sha \in 1 .. head \cup {Side}
    /\ head' = head
    /\ Arrive(r, <<sha>>)

\* What list_commits returns: newest first, at most max_commits.
Listed(h) ==
    LET n == IF h < MaxCommits THEN h ELSE MaxCommits
    IN  [i \in 1 .. n |-> h + 1 - i]

\* GitHub answers the listing of discover_repo; the coroutine is yet to resume.
\* (One page: module Discovery has the pages and the branches.)
Discover(b) ==
    /\ pc[b] = "new"
    /\ pc' = [pc EXCEPT ![b] = "listed"]
    /\ listing' = [listing EXCEPT ![b] = Listed(head)]
    /\ UNCHANGED <<kind, head, todo, retries, metadata, last>>

\* Discovery fails, and run_backfill with it.
DiscoverFails(b) ==
    /\ pc[b] = "new"
    /\ pc' = [pc EXCEPT ![b] = "crashed"]
    /\ UNCHANGED <<kind, head, listing, todo, retries, metadata, last>>

\* Fault: the last processed sha is skipped over instead of ending the scan.
NewShasSkipsLast(shas, sha) == SelectSeq(shas, LAMBDA c : c # sha)

\* The scan of new_shas_since_last: everything listed before the last sha.
NewShas(shas, sha) ==
    IF sha \in Range(shas)
    THEN SubSeq(shas, 1, (CHOOSE i \in DOMAIN shas : shas[i] = sha) - 1)
    ELSE shas

\* The coroutine resumes: it reads last_sha, selects, and starts the batch.
Select(b) ==
    /\ pc[b] = "listed"
    /\ pc' = [pc EXCEPT ![b] = "work"]
    /\ todo' = [todo EXCEPT ![b] = NewShas(listing[b], last)]
    /\ UNCHANGED <<kind, head, listing, retries, metadata, last>>

\* Task t is through with its next commit.
NextCommit(t) ==
    /\ pc[t] = "work" /\ todo[t] # <<>>
    /\ todo' = [todo EXCEPT ![t] = Tail(@)]
    /\ retries' = IF t \in Backfills THEN [retries EXCEPT ![t] = 0] ELSE retries
    /\ UNCHANGED <<kind, head, pc, listing>>

\* Fault: set_last_sha runs before the metadata is stored, and may be alone.
StoreShaFirst(t) ==
    /\ NextCommit(t)
    /\ last' = Head(todo[t])
    /\ metadata' \in {metadata, metadata \cup {Head(todo[t])}}

\* process_commit succeeds on the next commit of a task.
Store(t) ==
    /\ NextCommit(t)
    /\ metadata' = metadata \cup {Head(todo[t])}
    /\ last' = Head(todo[t])

\* Fault: the failed job is dropped.
RetryForgets(b) == NextCommit(b) /\ UNCHANGED <<metadata, last>>

\* Fault: the failed attempt is counted twice.
RetryCountsTwice(b) ==
    /\ pc[b] = "work" /\ todo[b] # <<>>
    /\ retries[b] < MaxRetries
    /\ retries' = [retries EXCEPT ![b] = @ + 2]
    /\ UNCHANGED <<kind, head, pc, listing, todo, metadata, last>>

\* The next commit of a backfill fails and is the next one again.
Retry(b) ==
    /\ pc[b] = "work" /\ todo[b] # <<>>
    /\ retries[b] < MaxRetries
    /\ retries' = [retries EXCEPT ![b] = @ + 1]
    /\ UNCHANGED <<kind, head, pc, listing, todo, metadata, last>>

\* The next commit is dead-lettered by a backfill, skipped by the webhook, or
\* refused to the one who asked for it: these two try once.
GiveUp(t) ==
    /\ ~reliable
    /\ NextCommit(t)
    /\ t \in Backfills => retries[t] = MaxRetries
    /\ UNCHANGED <<metadata, last>>

\* An exception nobody catches: the rest of the task is dropped.
Crash(t) ==
    /\ ~reliable
    /\ pc[t] = "work" /\ todo[t] # <<>>
    /\ pc' = [pc EXCEPT ![t] = "crashed"]
    /\ todo' = [todo EXCEPT ![t] = <<>>]
    /\ UNCHANGED <<kind, head, listing, retries, metadata, last>>

Finish(t) ==
    /\ pc[t] = "work" /\ todo[t] = <<>>
    /\ pc' = [pc EXCEPT ![t] = "done"]
    /\ UNCHANGED <<kind, head, listing, todo, retries, metadata, last>>

Step(t) == Store(t) \/ GiveUp(t) \/ Crash(t) \/ Finish(t)

Next ==
    \/ \E n \in 1 .. MaxPush : Grow(n) \/ \E r \in Requests : Deliver(r, n)
    \/ \E r \in Requests, sha \in Commits \cup {Side} : Ask(r, sha)
    \/ \E b \in Backfills :
           Discover(b) \/ DiscoverFails(b) \/ Select(b) \/ Retry(b)
    \/ \E t \in Tasks : Step(t)

\* Started work goes on (asyncio resumes a coroutine whose answer is there, and
\* httpx answers or times out); nothing forces a push, a request or a backfill.
Spec ==
    /\ Init /\ [][Next]_vars
    /\ \A b \in Backfills : WF_vars(Select(b)) /\ WF_vars(Retry(b) \/ Step(b))
    /\ \A r \in Requests : WF_vars(Step(r))

-----------------------------------------------------------------------------
\* Type invariant.
TypeOK ==
    /\ alone \in BOOLEAN /\ reliable \in BOOLEAN
    /\ head \in Commits
    /\ pc \in [Tasks -> {"new", "listed", "work", "done", "crashed"}]
    /\ listing \in [Backfills -> Seq(Commits)]
    /\ todo \in [Tasks -> Seq(Commits \cup {Side})]
    /\ retries \in [Backfills -> 0 .. MaxRetries]
    /\ metadata \subseteq Commits \cup {Side}
    /\ last \in Commits \cup {None, Side}

HasSelected == {b \in Backfills : pc[b] \in {"work", "done"}}

Pending == UNION {Range(todo[t]) : t \in Tasks}

\* The step in which backfill b selects the shas to process.
Selects(b) == pc[b] = "listed" /\ pc'[b] = "work"

\* A backfill selects exactly the listed commits newer than last_sha if it can
\* see that sha, and all of them if not, wherever pushes, deliveries and other
\* backfills fell since the listing (scheduler.py:26-35).
SelectsDownToLast ==
    [][\A b \in Backfills : Selects(b) =>
           Range(todo'[b]) = IF last \in Range(listing[b])
                             THEN {c \in Range(listing[b]) : c > last}
                             ELSE Range(listing[b])]_vars

\* While only backfills move last_sha, none gives a commit up and max_commits
\* covers the history, nothing is missing behind last_sha: every commit up to
\* it, and every commit a backfill has listed once that has selected, is stored
\* or somebody still has it to do, however the backfills overlap and retry.
NoGapBehindLast ==
    alone /\ reliable /\ head <= MaxCommits =>
        /\ 1 .. last \subseteq metadata \cup Pending
        /\ \A b \in HasSelected : Range(listing[b]) \subseteq metadata \cup Pending

\* Under the same conditions whatever a backfill has listed is stored in the
\* end: what it leaves out, another backfill has and stores.
ListedGetsStored ==
    \A b \in Backfills : \A c \in Commits :
        alone /\ reliable /\ c \in Range(listing[b]) ~> c \in metadata \/ head > MaxCommits

-----------------------------------------------------------------------------
(***************************************************************************)
(* What the documents say of a backfill, and the code does not do.         *)
(***************************************************************************)

\* A backfill computes "new SHAs since the last processed one"
\* (scheduler.py:4): alone in the repository and meeting no failure, it
\* selects no commit that is stored already.
SelectsOnlyNew ==
    [][\A b \in Backfills : alone /\ reliable /\ Selects(b) =>
           Range(todo'[b]) \cap metadata = {}]_vars

\* "Discover new commits and process them incrementally" (scheduler.py:46):
\* where nothing failed, a finished backfill leaves no commit it discovered
\* that nobody has processed or is about to.
CatchesUp ==
    \A b \in Backfills : reliable /\ pc[b] = "done" =>
        Range(listing[b]) \subseteq metadata \cup Pending

=============================================================================
