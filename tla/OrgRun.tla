------------------------------- MODULE OrgRun -------------------------------
(***************************************************************************)
(* Runs over repositories: process_org of app/main.py lists those of an    *)
(* organization or user, discovers the commits of each and runs one batch  *)
(* of the engine per repository, one after the other; process_repo does    *)
(* the same for the one repository it is given.  Any number of such runs   *)
(* share the event loop and the stores (Engine, whose tasks are here the   *)
(* batches of the runs).                                                   *)
(*                                                                         *)
(* All of them use one GitHub token.  GitHub counts its GETs and refuses   *)
(* them once the quota of the window is used up; the rate limiter of each  *)
(* client (app/github/rate_limiter.py) keeps what the last answer said of  *)
(* it.  Nothing in the code asks it before it sends the next request.      *)
(***************************************************************************)
EXTENDS EngineProperties, Integers

CONSTANTS Runs,           \* the requests for organizations or repositories
          RepoRuns,       \* those of them for one repository
          Batches,        \* Batches[o][n]: the task that runs the n-th
                          \* repository of the listing, and that repository
          MaxRepos,       \* max_repos of discover_org, 50 in the code
          DefaultRetries, \* max_retries of process_batch, 3 in the code
          MinRemaining,   \* min_remaining of RateLimiter, 1 in the code
          Quota,          \* the GETs GitHub grants per window
          MaxWindows,     \* bound on the windows of a behaviour
          Unknown         \* a header was not there or not a number

BatchTask(o, n) == Batches[o][n].task
Indices(o) == 1 .. Len(Batches[o])
TasksOf(o) == {BatchTask(o, n) : n \in Indices(o)}

ASSUME OrgAssumption ==
    /\ Batches \in [Runs -> Seq([task : Tasks, repo : Repos])]
    /\ \A o, p \in Runs : \A n \in Indices(o), m \in Indices(p) :
           BatchTask(o, n) = BatchTask(p, m) => o = p /\ n = m
    /\ \A o \in Runs : \A n, m \in Indices(o) :
           Batches[o][n].repo = Batches[o][m].repo => n = m
    /\ Tasks = UNION {TasksOf(o) : o \in Runs}
    /\ RepoRuns \subseteq Runs /\ \A o \in RepoRuns : Len(Batches[o]) = 1
    /\ MaxRepos \in Nat \ {0} /\ DefaultRetries \in Nat
    /\ MinRemaining \in Nat \ {0}
    /\ Quota \in Nat /\ MaxWindows \in Nat
    /\ Unknown \notin Nat

\* The run a task is a batch of, whose client sends its GETs.
Client(t) == CHOOSE o \in Runs : t \in TasksOf(o)

VARIABLES
    at,         \* at[o]: where process_org or process_repo is
    next,       \* next[o]: the position of the repository it works on
    listed,     \* listed[o]: how many repositories discover_org returned
    remaining,  \* GETs GitHub still grants in this window
    window,     \* the number of the window
    limiter,    \* limiter[c]: RateLimitState of client c
    refused     \* refused[c]: GETs of c refused since one was served

run == <<at, next, listed>>
github == <<remaining, window, limiter, refused>>
orgVars == <<vars, run, github>>

OrgInit ==
    /\ Init
    /\ \A o \in Runs : \A n \in Indices(o) :
           /\ Kind(BatchTask(o, n)) = "batch"
           /\ Repo(BatchTask(o, n)) = Batches[o][n].repo
           /\ o \notin RepoRuns => req[BatchTask(o, n)].retries = DefaultRetries
    /\ at = [o \in Runs |-> "new"]
    /\ next = [o \in Runs |-> 1]
    /\ listed = [o \in Runs |-> 0]
    /\ remaining = Quota
    /\ window = 0
    /\ limiter = [c \in Runs |-> [remaining |-> Unknown, reset |-> Unknown]]
    /\ refused = [c \in Runs |-> 0]

-----------------------------------------------------------------------------
(* GitHub's answers and the rate limiter.                                  *)

\* Fault: a header that is not there reads as -1.
UpdateFromHeadersNegative(c, left, reset) ==
    limiter' = [limiter EXCEPT ![c] =
                   [remaining |-> IF left = Unknown THEN -1 ELSE left, reset |-> reset]]

\* update_from_headers: the state is replaced by what this answer says, the
\* window the quota will be granted again being the reset time.
UpdateFromHeaders(c, left, reset) ==
    limiter' = [limiter EXCEPT ![c] = [remaining |-> left, reset |-> reset]]

\* GitHub serves a GET, well or with an error of its own.
Served(c) ==
    /\ remaining > 0
    /\ remaining' = remaining - 1
    /\ UpdateFromHeaders(c, remaining - 1, window + 1)
    /\ refused' = [refused EXCEPT ![c] = 0]
    /\ UNCHANGED window

\* The quota is used up: is_rate_limited_response, a 403 or 429.
Refused(c) ==
    /\ remaining = 0
    /\ UpdateFromHeaders(c, 0, window + 1)
    /\ refused' = [refused EXCEPT ![c] = @ + 1]
    /\ UNCHANGED <<remaining, window>>

\* An error page of a proxy or gateway, without rate-limit headers.
Headless(c) ==
    /\ UpdateFromHeaders(c, Unknown, Unknown)
    /\ UNCHANGED <<remaining, window, refused>>

\* A transport failure or a timeout: there are no headers to read.
NoAnswer == UNCHANGED github

\* get_json gives the caller o: a payload, a GitHubError, another exception.
Answer(c, o) ==
    \/ o \in Payloads /\ Served(c)
    \/ o = "github_error" /\ (Served(c) \/ Refused(c) \/ Headless(c))
    \/ o = "other_error" /\ (NoAnswer \/ Served(c))

\* Fault: the comparison is off by one.
ShouldThrottleEarly(c) ==
    /\ limiter[c].remaining # Unknown
    /\ limiter[c].remaining <= MinRemaining

ShouldThrottle(c) ==
    /\ limiter[c].remaining # Unknown
    /\ limiter[c].remaining <= MinRemaining - 1 \/ limiter[c].remaining = 0

\* seconds_until_reset, counted in windows: what is left to wait, 0 when the
\* reset time is unknown or past.
UntilReset(c) ==
    IF limiter[c].reset = Unknown \/ limiter[c].reset <= window THEN 0
    ELSE limiter[c].reset - window

\* The next window: GitHub grants the whole quota again.
Reset ==
    /\ window < MaxWindows
    /\ window' = window + 1
    /\ remaining' = Quota
    /\ UNCHANGED <<vars, run, limiter, refused>>

-----------------------------------------------------------------------------
(* process_org and process_repo                                            *)

\* An answer to a GET of the run itself: every one of them is awaited while
\* no other coroutine has the event loop, and none touches the engine.  The
\* cache never has it: it is the client's own, listings are not cached, and a
\* run asks for a repository once.
Gets(o, stage, result) ==
    /\ running = Idle /\ at[o] = stage
    /\ Answer(o, result)

\* Whether discover_org returned a repository at position n.
HasRepo(o, n) == n <= listed[o]

StartOrg(o) ==
    /\ running = Idle /\ at[o] = "new" /\ o \notin RepoRuns
    /\ at' = [at EXCEPT ![o] = "org"]
    /\ UNCHANGED <<vars, next, listed, github>>

\* process_repo asks for no listing and passes the retries of the request on.
StartRepo(o) ==
    /\ running = Idle /\ at[o] = "new" /\ o \in RepoRuns
    /\ at' = [at EXCEPT ![o] = "info"]
    /\ listed' = [listed EXCEPT ![o] = 1]
    /\ UNCHANGED <<vars, next, github>>

\* Fault: the listing is not cut at max_repos.
CutNothing(n) == n

\* out[:max_items]
Cut(n) == IF n < MaxRepos THEN n ELSE MaxRepos

\* The repositories arrive, on one page (max_repos is below per_page); an
\* answer that is not a list counts as none.
ReposListed(o) ==
    /\ Gets(o, "org", "valid") \/ Gets(o, "user", "valid")
    /\ \E n \in 0 .. Len(Batches[o]) :
           /\ listed' = [listed EXCEPT ![o] = Cut(n)]
           /\ at' = [at EXCEPT ![o] = IF n = 0 THEN "answered" ELSE "info"]
    /\ UNCHANGED <<vars, next>>

\* list_org_repos: not an organization (404), so try the user of that name.
NotAnOrg(o) ==
    /\ running = Idle /\ at[o] = "org" /\ Served(o)
    /\ at' = [at EXCEPT ![o] = "user"]
    /\ UNCHANGED <<vars, next, listed>>

\* discover_repo: the default branch arrives.
RepoInfo(o) ==
    /\ Gets(o, "info", "valid")
    /\ at' = [at EXCEPT ![o] = "list"]
    /\ UNCHANGED <<vars, next, listed>>

\* The commits of the branch arrive, on one page (max_commits is 100 unless the
\* request says more; Discovery has the walk over pages), and the batch starts.
CommitsListed(o) ==
    /\ Gets(o, "list", "valid")
    /\ Start(BatchTask(o, next[o]))
    /\ at' = [at EXCEPT ![o] = "batch"]
    /\ UNCHANGED <<next, listed>>

\* Fault: a repository that cannot be discovered is asked for again.
OrgFailsAsksAgain(o) ==
    /\ \E stage \in {"org", "user", "info", "list"} : Gets(o, stage, "github_error")
    /\ UNCHANGED <<vars, run>>

\* A GitHubError outside the engine ends the run: the results are dropped and
\* the caller gets an HTTP error.
OrgFails(o) ==
    /\ \E stage \in {"org", "user", "info", "list"} : Gets(o, stage, "github_error")
    /\ at' = [at EXCEPT ![o] = "refused"]
    /\ UNCHANGED <<vars, next, listed>>

\* So does any other exception (HTTP 500).
OrgCrashes(o) ==
    /\ \E stage \in {"org", "user", "info", "list"} : Gets(o, stage, "other_error")
    /\ at' = [at EXCEPT ![o] = "crashed"]
    /\ UNCHANGED <<vars, next, listed>>

NextBatch(o) == next[o] + 1

\* Fault: before the next repository the run waits until its limiter no longer
\* throttles, which only another answer could tell it.
FinishBatchThrottled(o) ==
    /\ at[o] = "batch" /\ ~ShouldThrottle(o)
    /\ Finish(BatchTask(o, next[o]))
    /\ next' = [next EXCEPT ![o] = NextBatch(o)]
    /\ at' = [at EXCEPT ![o] = IF HasRepo(o, NextBatch(o)) THEN "info" ELSE "answered"]
    /\ UNCHANGED <<listed, github>>

\* results.append: go on to the next repository, or answer.
FinishBatch(o) ==
    /\ at[o] = "batch"
    /\ Finish(BatchTask(o, next[o]))
    /\ next' = [next EXCEPT ![o] = NextBatch(o)]
    /\ at' = [at EXCEPT ![o] = IF HasRepo(o, NextBatch(o)) THEN "info" ELSE "answered"]
    /\ UNCHANGED <<listed, github>>

\* What the engine does not catch, process_org does not catch either.
CrashBatch(o) ==
    /\ at[o] = "batch"
    /\ Crash(BatchTask(o, next[o]))
    /\ at' = [at EXCEPT ![o] = "crashed"]
    /\ UNCHANGED <<next, listed, github>>

\* A step of the engine within a batch at which no answer arrives.
Local(t) == FromCache(t) \/ Fetch(t) \/ Succeed(t) \/ Fail(t)

\* GitHub's answer to the GET of task t.
AnswerTask(t) ==
    /\ Reply(t)
    /\ Answer(Client(t), outcome'[t])
    /\ UNCHANGED run

LocalStep(t) == Local(t) /\ UNCHANGED <<run, github>>

TaskStep(t) == AnswerTask(t) \/ LocalStep(t)

OrgStep(o) ==
    \/ ReposListed(o) \/ NotAnOrg(o) \/ RepoInfo(o) \/ CommitsListed(o)
    \/ OrgFails(o) \/ OrgCrashes(o) \/ FinishBatch(o) \/ CrashBatch(o)

OrgNext ==
    \/ \E o \in Runs : StartOrg(o) \/ StartRepo(o) \/ OrgStep(o)
    \/ \E t \in Tasks : TaskStep(t)
    \/ Reset

\* As in the engine: coroutines that can go on are resumed and GETs end.
\* Nothing obliges a request to arrive or the quota to be granted again.
OrgSpec ==
    /\ OrgInit /\ [][OrgNext]_orgVars
    /\ \A o \in Runs : WF_orgVars(OrgStep(o))
    /\ \A t \in Tasks : WF_orgVars(TaskStep(t))

-----------------------------------------------------------------------------
\* Type invariant.
OrgTypeOK ==
    /\ at \in [Runs -> {"new", "org", "user", "info", "list", "batch",
                        "answered", "refused", "crashed"}]
    /\ next \in [Runs -> Nat \ {0}]
    /\ listed \in [Runs -> Nat]
    /\ remaining \in 0 .. Quota
    /\ window \in Nat
    /\ limiter \in [Runs -> [remaining : Nat \cup {Unknown},
                                reset : Nat \cup {Unknown}]]
    /\ refused \in [Runs -> Nat]

Over(o) == at[o] \in {"answered", "refused", "crashed"}

\* The n-th batch of run o is finished if the run is past it, runs only while
\* the run awaits it, and has not begun before.
BatchInOrder(o, n) ==
    LET t == BatchTask(o, n)
    IN  /\ n < next[o] => pc[t] = "done"
        /\ n > next[o] => pc[t] = "new"
        /\ n = next[o] => \/ at[o] = "batch" /\ pc[t] \in {"pick", "wait", "got"}
                          \/ at[o] = "crashed" /\ pc[t] \in {"new", "crashed"}
                          \/ at[o] \notin {"batch", "crashed"} /\ pc[t] = "new"

\* An answer covers the whole listing, which is never longer than max_repos.
ListingCovered(o) ==
    /\ listed[o] <= MaxRepos
    /\ at[o] = "answered" => next[o] = listed[o] + 1
    /\ at[o] \in {"info", "list", "batch"} => next[o] <= listed[o]

\* A run works through its listing in order, one batch at a time, whatever else
\* the loop serves, and leaves off only where a GET or a batch failed
\* (main.py:228-239, client.py:101).
ListingInOrder ==
    \A o \in Runs : ListingCovered(o) /\ \A n \in Indices(o) : BatchInOrder(o, n)

\* A run that ends in an HTTP error has dropped its results but not its work:
\* every commit its finished batches report is in the metadata store and in
\* the processed count of its repository, whatever other requests did to that
\* repository since (main.py:243, engine.py:42-90).
WorkSurvivesFailure ==
    \A o \in Runs : at[o] \in {"refused", "crashed"} =>
        \A n \in Indices(o) : n < next[o] =>
            LET t == BatchTask(o, n)
            IN  /\ Done(t) \cup Dead(t) = Positions(t)
                /\ \A i \in Done(t) : <<Repo(t), ShaOf[RefAt(t, i)]>> \in metadata
                /\ processed[Repo(t)] >= Len(commits[t])

\* The limiter of a client errs on one side only, however many requests share
\* the token: in the window it knows of no more GETs are left than it says, so
\* that a client it throttles could not have been served more than the
\* MinRemaining - 1 it holds back (rate_limiter.py:44-51).
ThrottleJustified ==
    \A c \in Runs : UntilReset(c) > 0 =>
        /\ remaining <= limiter[c].remaining
        /\ ShouldThrottle(c) => remaining < MinRemaining

\* GETs of request t that can be refused one after the other.
RefusalsOf(t) == Len(req[t].refs) * (req[t].retries + 1)

\* The batches of run o whose GETs can be the last that were refused.
Current(o) == {BatchTask(o, n) : n \in {m \in Indices(o) : m \in {next[o] - 1, next[o]}}}

\* Once GitHub refuses, no client can go on asking for long: a batch burns at
\* most its retries, and the run it belongs to ends with the first GET for the
\* next repository (engine.py:66-88, rate_limiter.py:44).
RefusalsBounded ==
    \A o \in Runs :
        refused[o] <= IF Current(o) = {} THEN 1
                      ELSE 1 + Max({RefusalsOf(t) : t \in Current(o)})

\* Every run that starts ends, even if GitHub never serves it.
RunsEnd == \A o \in Runs : at[o] # "new" ~> Over(o)

=============================================================================
