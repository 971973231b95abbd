# A verification project for commits-metadata

`commits-metadata` (`src/app`) is a single-process FastAPI service that fetches
GitHub commits, turns each into structured metadata, keeps it in memory and
offers it for browsing and search. This directory holds TLA+ models of its core,
TLC configurations that check them on small instances, and TLAPS proofs of the
properties that matter most for every value of the constants.

- [1 The system](#1-the-system): inventory, state, interactions, what is hard
- [2 Plan](#2-plan): modules, in which order, what is left
- [3 The modules](#3-the-modules): how state and actions correspond to the code
- [4 What the runs check](#4-what-the-runs-check): properties, bounds, fairness
- [5 What the code does otherwise than it says](#5-what-the-code-does-otherwise-than-it-says)
- [6 What is proved](#6-what-is-proved)
- [7 What is only model-checked, and what is not modelled](#7-what-is-only-model-checked-and-what-is-not-modelled)

## 1 The system

Everything runs on one asyncio event loop: every endpoint is an `async def`, and
a coroutine gives the loop up only where it awaits an HTTP answer from GitHub (an
answer from the cache does not suspend it). State lives in one `AppState` per
process; nothing is persisted, so a restart empties everything together.

| Component | State | Operations | Used by |
|---|---|---|---|
| `jobqueue/job_queue.py` | main and retry deques, dead letters, `attempts` per job | `enqueue_many`, `next_job`, `mark_failed`, `is_empty` | engine |
| `processing/engine.py` | a `JobResult` per batch | `process_commit`, `process_batch` | endpoints, scheduler, UI |
| `main.py` endpoints | `AppState` | `/process/commit`, `/process/repo`, `/process/org`, `/webhook/github`, read endpoints | clients, GitHub |
| `github/client.py` | a response cache, a rate limiter | `get_json`, `get_paginated` | engine, discovery |
| `github/rate_limiter.py` | limit, remaining, reset | `update_from_headers`, `is_rate_limited_response` | client |
| `storage/stores.py` | raw commits, metadata, `last_sha` and count per repository | `put`, `get`, `search`, `set_last_sha`, `mark_processed` | engine, scheduler, search |
| `observability/telemetry.py` | counters, error records | `inc`, `record` | engine, webhook |
| `discovery/scanner.py` | none | `discover_repo`, `discover_org` | endpoints, scheduler |
| `automation/scheduler.py` | none (reads `last_sha`) | `new_shas_since_last`, `run_backfill` | a cron job |
| `automation/webhook.py` | none | `verify_signature`, `extract_push_commits` | webhook endpoint |
| `search/` | the feature index and the size it was built at | `search`, `suggest`, `reindex`, `related` | read endpoints |
| `processing/` builders | none | `extract_changed_files`, `classify_file`, `classify_change_type`, `derive_tags`, `build_metadata`, `validate_feature_metadata` | engine |

How they interact: an endpoint (or the scheduler) asks discovery for the shas of a
repository, the engine queues them and, one after another, fetches, builds,
validates and stores each, counting as it goes; failures come back through the
queue. The stores, the telemetry and the search index are shared by all requests
in flight; queue, result and client belong to one request.

What is hard, and what makes each part correct:

- **Queue.** Retry-first order, an exact retry budget, jobs out with several
  workers. Correct if no job is lost or duplicated, each is dead-lettered after
  exactly `max_retries + 1` failures, and all are settled.
- **Engine and endpoints.** Requests interleave at every fetch and write shared
  stores and counters on many exit paths (success, retry, dead letter, webhook
  skip, HTTP error, uncaught exception). Correct if nothing a request was given
  goes missing, stores agree with each other and with what was reported, and the
  telemetry adds up.
- **Incremental processing.** One `last_sha` per repository, moved by batches,
  deliveries and single requests in any order, and read after an await. Correct if a
  backfill takes exactly what is newer than the `last_sha` it read and no commit falls
  into a gap.
- **Runs over repositories.** `/process/org` chains a listing and, per repository, a
  discovery and a batch; several runs spend the quota of one token, and nobody asks the
  rate limiter. Correct if a run works through its listing in order, keeps its work when
  it fails, ends even if GitHub refuses for ever, and if the limiter throttles only for a
  reason.
- **Discovery.** Pages are separate requests while people push; a budget is divided
  among branches. Correct if the listing has no gap, no duplicate, no excess, and
  leaves no branch out.
- **Metadata.** What a commit is called comes from its message and its files by ordered
  rules; counts, tags, figures and enumerations are worked out in several places. Correct if
  they agree, if no well-formed commit is refused, and if options change no fact.
- **Read side.** Clients page through a store that grows; the index is cached under
  the size of the store. Correct if pages miss and repeat nothing and a search never
  sees a stale index; a ranking leaves nothing better out, and what is called related
  shares more than a repository.

Every such hazard is listed at its line in `PROJECT.json` (`hazards`), with the
properties that cover it or the reason none does yet.

## 2 Plan

Done, most important first:

1. `JobContract`: the abstract promise about one commit job.
2. `CommitQueue`, `QueueWorkers`: the queue as operators, and the class under any
   number of workers; implements `JobContract`. Proofs: `QueueWorkersProofs`, on top of
   `ListLemmas`.
3. `Engine`, `EngineProperties`: concurrent requests over shared stores, using
   `CommitQueue`; implements `JobContract`. Proofs: `EngineProofs`.
4. `Backfill`: `last_sha` among backfills, deliveries and requests.
5. `Discovery`: `discover_repo` over branches and pages. Proofs: `DiscoveryProofs`.
6. `Catalogue`: paging and index freshness. Proofs: `SearchProofs`.
7. `FeatureSearch`: ranking, query expansion, autocomplete, related features and
   suggestions. Proofs: `SearchProofs`.
8. `OrgRun`: runs over repositories, composed with `Engine`, GitHub's quota and the rate
   limiter of each client. Proofs: `OrgRunProofs`, on top of those of the engine.
9. `Metadata`: from an answer to stored metadata. Proofs: `MetadataProofs`.
10. Proofs of the engine's results, stores and counters and of its refinement of
    `JobContract` (all in `EngineProofs`), and of incremental processing (`BackfillProofs`).
11. Proofs of what a search answers: what sorting does to a list (`ListLemmas`), and from it the
    rankings, cuts and suggestions of `FeatureSearch` (`SearchProofs`).

Nothing of the plan is left; section 7 says what is out of the prover's reach and what is
not modelled.

Written to be proved about: parameters are constants with named assumptions, each
operation is one action, no module declares a `RECURSIVE` operator. Where the code has a
comprehension with a condition, a sum or a loop over a list (`Selected` and `Total` in
`Lists`, `DeduplicateShas`, `AllAdded`), the model has a function defined by recursion over the length
of the list, which the lemmas of `ListLemmas` can reason about.

## 3 The modules

`PROJECT.json` (`map`) gives the lines each definition stands for. Definitions whose
comment starts with *Fault* are not part of the model: they are plausible mistakes in
the definition after them, each of which breaks a property, and show that the
property says something about that code.

**CommitQueue** has the queue as a record `[main, retry, dead, attempts]` and the
methods of the class as operators on it; `NextJob`/`Dequeue` are the result and
the effect of `next_job`, `Destination`/`MarkFailed` those of `mark_failed`.

**QueueWorkers** is the class as a state machine: `Enqueue`, `Take` (`next_job`), `Succeed`,
`Fail` (`mark_failed`). The engine uses a queue with one worker; the class does not
require it, so here any number of jobs may be out.

**JobContract** is the abstract specification: a job is absent, waiting, running, done,
dead or lost; a failure sends it back until its limit is used up.

**Engine** models requests as coroutines. `running` is the coroutine that has the event
loop, or `Idle`; only `Fetch` (the GET goes out) and the end of a request free it, and
only `Start` and `Reply` take it, so steps between two awaits are not interleaved, as in
asyncio. A request is a batch, a webhook delivery or a single commit:

| Action | Code |
|---|---|
| `Start` | the endpoint makes client and queue (`engine.py:62-67`) |
| `Fetch` / `FromCache` | next job, then `get_json` with its cache test (`client.py:61-68`) |
| `Reply` | the answer or the failure of the GET; a good answer is cached before anyone looks at it (`client.py:68-84`) |
| `Succeed` | the rest of `process_commit`: all stores, counters, the result |
| `Fail` | the `except` of `process_batch`: `mark_failed`, counters, error record |
| `Skip`, `Reject` | the `except GitHubError` of the webhook and of `/process/commit` |
| `Crash` | an exception none of them catches |
| `Finish` | `mark_processed` and the final status |

A commit is asked for by a *ref*; `ShaOf[ref]` is the sha in GitHub's answer, so that
abbreviated shas are distinguished from the keys the stores use. An answer is one of
three payloads (valid, refused by the schema, one the builder cannot digest), a
`GitHubError`, or another exception. A fork is a second repository with the same shas.
**EngineProperties** has the properties, kept apart because the proofs use some only, and
the mapping to `JobContract`: `Phase` tells where a commit of a request is.

**OrgRun** extends the engine with the runs that start its batches. The n-th repository of
run `o` is worked on by the task `Batches[o][n].task`; `next[o]` says which is on.

| Action | Code |
|---|---|
| `StartOrg`, `StartRepo` | the endpoint makes its client; a repository run needs no listing |
| `ReposListed`, `NotAnOrg` | `discover_org`: the organization's repositories, or after a 404 the user's, cut at `max_repos` |
| `RepoInfo`, `CommitsListed` | `discover_repo`: the default branch, then its commits; with them the batch starts |
| `FinishBatch`, `CrashBatch` | the batch ends and the next repository is on, or the run crashes with it |
| `OrgFails`, `OrgCrashes` | a `GitHubError` (an HTTP error), or any other exception (500), outside a batch |
| `AnswerTask`, `LocalStep` | the engine's steps; every answer is also an answer of GitHub to the run's client |
| `Reset` | GitHub's next window |

`Answer` says what an answer does to GitHub's quota and to the limiter (`UpdateFromHeaders`):
`Served`, `Refused` (the quota is used up), `Headless` (an error page without headers, which
wipes the limiter), `NoAnswer`. `ShouldThrottle` and `UntilReset` are the limiter's two
questions; no action asks them, as no caller in the code does. Time is counted in windows.

**Metadata** follows one commit through `process_commit`: `Process` is one request with its
options, over the operators `ClassifyFile` and `DetectLanguage` (`file_classifier.py`),
`ExtractChangedFiles`, `AggregateStats`, `CategoryCounts` (`diff_extractor.py`), `ClassifyChangeType`,
`IsBreakingChange`, `DeriveTags` (`rule_engine.py`), `BuildMetadata` (`schema_builder.py`), `Builds`
and `Validates` (the pydantic model and the JSON schema). A list of rules is a sequence, and
`FirstRule` takes the first that holds, as the `if` chains do. A file is a record of what
the classifier asks of a path, a message one of what the patterns find in it. A field that is
missing is `Absent`, and one that is null too unless the code tells the two apart: a null sha, link
or file status (`Null`) ends the request with an exception, where a missing one has a default, and a
null `stats.total` counts as 0, where a missing one is filled in.

**Backfill** numbers the commits of a branch. `Discover` is GitHub's answer to the listing,
`Select` the resumed coroutine that reads `last_sha` and scans: everything else may
happen between the two. `Store` is a successful `process_commit` (stores and `last_sha`
in one step: there is no await between them), `Retry` and `GiveUp` its failures, `Deliver`
and `Ask` the webhook and the single-commit endpoint, including pushes to other branches,
which the webhook does not tell apart. A failed commit stays at the head of `todo`, and
one count of `retries` per backfill is enough, because the retry queue is drained first and
a batch has one worker (Engine's `InOrder`).

**Discovery** is one `discover_repo` whose pages (`ReadPage`) interleave with `Push`. `LastPage`,
`NextPage` and `Truncate` are `get_paginated`; `PerBranch`, `DeduplicateShas` and `BranchDone` are
`discover_repo`; `PageFails` is the `GitHubError` that ends it. Shas are numbers, so
lower-casing is left out: GitHub's shas are in lower case.

**Catalogue** has the metadata store as the sequence of its keys in dict order (`Inserted`
keeps the place of a key that is there), clients of `/commits` (`ReadPage`), and the
recommender's cached index (`EnsureIndex`, at the start of every search, completion and
related query; `Reindex`). Scores are left out.

**FeatureSearch** is the other half of that: what a search answers, given the documents of the
index. `AddDocument` stores one; `SearchFeatures`, `Complete` (autocomplete) and `AskRelated` are the
endpoints; an answer ends a behavior, since it changes nothing. The operators follow the code
function by function: `Synonyms` is `expand_query`; `Score`, `ScoreAll`, `Hits` and `Page` are `search`;
`Weight`, `Candidates` and `Completions` are `suggest`; `DistinctiveTags`, `DistinctiveTokens`,
`Overlaps`, `Content` and `Relatedness` are `_relatedness`; `Best`, `Supporters`, `RelatedTo`, `Closeness`
and `Related` are the loop and the sort of `related`; `Capabilities`, `Features`, `Added` and `Suggest`
are `_suggest`. Numbers are integers that keep the order of the code's floats: idf is "the
fewer documents the more", a relatedness is in parts of 10,000, as it is rounded, and the
threshold compares products in place of quotients. BM25's length normalisation, repeated
tokens and embeddings are left out. The properties are stated without sorting: by how many
documents outrank one, and by what is left out.

**Lists** has what several modules use: the comprehensions `[x for x in s if ...]` as `Selected` and
`sum(...)` as `Total`, and the stable `sorted(..., reverse=True)` as `Descending`: the n-th place is
taken by the entry that n - 1 others come before.

The `MC*` modules give constants their values.

## 4 What the runs check

| Run | Question | Instance |
|---|---|---|
| `queue_workers` | Does the queue class lose, duplicate, starve or over-retry jobs under several workers? Does it implement `JobContract`? | 3 jobs, 2 retries |
| `engine` | Do two interleaved requests keep jobs, stores, results and telemetry consistent, whatever GitHub answers? Does every request end, and every step implement `JobContract`? | 2 requests out of 5 kinds, 2 repositories, 2 commits and an abbreviation |
| `org_run` | Does a run over repositories keep order and work beside another run, and end, while both use up one quota? | an organization of 3 repositories, 2 of them taken, a repository run on one of these; 4 GETs per window, 2 windows |
| `backfill` | Is the selection of a backfill exact whatever moves `last_sha` and whatever fails? Do overlapping backfills leave a gap? | 2 backfills, 1 request, 4 commits, a window of 3 |
| `discovery` | Does a walk over branches and pages stay gapless and fair under pushes, without duplicates, and end? | 2 branches, up to 8 commits, pages of 2, a budget of 6 |
| `metadata` | Do the rules, figures, model and schema agree on every commit, whatever the options? | up to 3 of 8 files in every order, entries that are skipped, 5 messages, 7 kinds of figures, each prefix, what cannot be stored; 2 requests |
| `catalogue` | Do clients page completely and is the index fresh while commits are stored? | 6 keys, 1 client, pages of 2 |
| `feature_search` | Are pages, completions and related features the best there are, in every store, and suggestions grounded? | every order of up to 5 commits, 3 queries, 3 prefixes, limits of 1 and 2 |
| `engine_cache`, `engine_routing`, `backfill_repeats`, `backfill_gap` | section 5 | the instance of `engine` or `backfill` |

The safety properties, in words:

- `Accounted`, `JobsAccounted`: a job is in exactly one place, over queue, coroutine,
  result and dead letters. `Budget`, `RetryBudget`: dead-lettered exactly at
  `max_retries + 1` failures. `InOrder`: retry-first keeps results in the order asked.
- `StoresAgree`: metadata has its raw commit and `last_sha` names stored metadata at
  every point where another coroutine can look. `ResultsStored`: what a request reports
  is stored under GitHub's name. `SettledStays`: nothing settled is taken back.
- `CountsAgree` (`TelemetryAgrees` and `ProcessedTotals`), `StatusHonest`: counters, error
  records, totals per repository and the final status equal what the queues and results
  show, summed over interleaved requests. `AnsweredOnce`: nothing a cache can answer is
  fetched again.
- `ListingInOrder`: a run works through its listing in order, one batch at a time, never
  beyond `max_repos`, and an answer covers all of it. `WorkSurvivesFailure`: a run that ends in
  an HTTP error has dropped its results, but what its finished batches reported is stored
  and counted. `RefusalsBounded`: once GitHub refuses, a client asks at most as often as the
  retries of a batch allow, and once more. `ThrottleJustified` (about the limiter itself: no
  caller asks `should_throttle`): in the window a limiter
  knows of, GitHub has no more GETs left than it says.
- `SelectsDownToLast`: a backfill selects what it listed and is newer than the `last_sha` it
  reads. `NoGapBehindLast`: every commit up to `last_sha`, and all a backfill listed, is stored or
  on somebody's list. `ListedGetsStored`: and stored in the end. The last two hold only under
  conditions: nothing but backfills moves `last_sha` (`alone`), none gives a commit up
  (`reliable`; both are chosen in the initial state and never change), and `max_commits`
  covers the history. Without the last one TLC finds a gap: of two backfills that listed different windows, the one with the older
  window resumes while the other has `last_sha` in the middle of its own, and drops
  what only it had listed.
- `FiguresAgree`: the fields computed apart from each other (counts, categories, tags, languages,
  the breaking flag) agree. GitHub's own stats are stored as they come; totals fall short of the
  files, or do not add up, only where GitHub's stats do against its own list, or leave a figure out.
  `TypeGrounded`: files decide the type of a commit only where its message says nothing, by a
  majority, and the order of GitHub's listing only breaks ties. `WellFormedIsStored`: model and
  schema never refuse what the rules produce. `ReprocessingKeepsFacts`: processing a commit
  again with other options changes patches and summary only.
- `BranchPrefixes`, `ResultSound` (types, `NoSimilarShas`, `BudgetShared`): a deduplicated walk
  is a gapless prefix of each branch as of its first page, without repetition, within the
  budget, with every branch. The prefix property needs at most `per_page` pushes between the pages of a
  branch: with more, TLC shows newer commits listed behind older ones.
- `StampTells`: the index is fresh whenever the size says so. `ReadersServed` (types,
  `PagesComplete`): a client that pages to the end misses and repeats nothing.
- `SearchExact` (types, `PagesRanked`, `SearchReaches`), `ClosestRelated`: each page has the hits of its ranks, and nothing closer to
  the seeds than a related feature is left out; a search finds whatever has a word of the
  query or of its expansion. `HeaviestOffered`: no completion left out is heavier than one offered.
  `RelatedByContent` (`SharesContent`, `SmallStoresRelateByArea`): a related feature shares
  more than its repository with a seed, and what two of at most three
  commits share is above the 60% that counts as ubiquitous, so a store that small relates
  commits by capability area only. `SuggestionsGrounded`: suggestions are distinct,
  supported, and as many as there can be.

**Bounds.** Two requests are enough for every pairwise race on the shared stores, since an action
touches its own request and the shared state only; three positions in a request let
a commit be asked for twice under different names and leave one waiting while another
retries. One retry and none are both in the engine's requests, two in the queue's run.
Backfill needs two backfills to overlap, four commits to make one window pass another, and
one request to move `last_sha` between a listing and its selection; its window of three is
shorter than the history, so `last_sha` also falls out of sight. In `org_run` the listing of
three repositories is cut at two, both runs share a repository, and four GETs are fewer than
one run needs, so the quota runs out at every point of a run and comes back once; three GETs
are the least a repository costs. `metadata` has a file for each rule of the classifier that
a plausible mistake would confuse with another, every order of up to three of them (two may
tie, or one category outnumber another), and each pair of rules of a message against one
another; two requests are one processing and one reprocessing. Discovery's bounds (`MaxBase`,
`MaxMade`) give each branch two pages of its share and more pushes between them than a page
holds, and a branch that could use up the whole budget. Catalogue's six keys give a client
three full pages and the empty one after them. FeatureSearch's five commits have every kind
of overlap (a tag, a token, an area, the repository alone, one title twice) and stores on both
sides of the ubiquity threshold.

**Fairness.** Weak fairness on the steps of a coroutine that has been started, and nothing
else: asyncio resumes every coroutine whose answer is there, and every GET is answered or
ends in an error, because the client sets a timeout of 30 s (`client.py:49`). Arrivals
of requests, pushes and backfills are never forced, nor is GitHub's next window (`Reset`), so
that runs must end even if the quota never comes back. Liveness (`EverySettled`, `RequestsEnd`,
`RunsEnd`, `ListedGetsStored`, `WalkEnds`) rests on that only; where failures are permitted,
nothing assumes that GitHub ever answers well.

`CHECK_DEADLOCK FALSE` is set where the system really stops: all requests served, the
walk over.

## 5 What the code does otherwise than it says

Each is a run that TLC ends with a counterexample; `PROJECT.json` (`findings`) quotes the line.

- `engine_cache`: the shared response cache is never used. `cache or ResponseCache()`
  (`client.py:36`) takes an empty cache for none, and the shared one stays empty for ever.
- `engine_routing`: a transport error, or a payload the builder cannot digest, ends the whole
  batch, although the architecture says failures go to the retry and dead-letter queues. The
  loop of the webhook is open to the same, and drops the later commits of the push.
- `backfill_repeats`: a batch runs newest first and leaves `last_sha` at its *oldest* commit,
  so the next backfill selects what is stored already.
- `backfill_gap`: after a delivery or a single request moved `last_sha` forward, a backfill
  discovers older unprocessed commits and drops them.

Seen while modelling, without a run of its own: `README.md:61` lets an organization run discover
every repository, while `discover_org` stops at 50 and the first one that cannot be
discovered ends the run; `process_org` ignores the `max_retries` and `branches` of its request;
nothing asks `should_throttle`; a message of blanks raises an `IndexError` in the builder, which
`process_batch` does not catch; the subject GitHub gives a revert, which quotes what it
reverts, can meet an earlier rule than that of reverts; a null total in GitHub's stats is stored as 0
beside its additions and deletions, and so are additions it leaves out, whatever the files say.

## 6 What is proved

All proofs are checked by TLAPS with no leaf left open, for every value of the constants
that satisfies the assumptions stated beside them.

**QueueWorkersProofs** (assumes `max_retries` is a natural number). `Accounted` uses a
family of places, which provers handle badly; the proof works with an equivalent
`Partition` that names the sets. The inductive invariant `IInv` adds the type invariant and
`Budget` to it: a failed job moves to the end of one of two sequences, which keeps the
sequences free of repetitions only because a taken job is in neither, and the
destination is right only because of the budget. From `Spec => []IInv` follow
`TypeCorrect`, `JobsAccounted` and `RetryBudget`; `Refinement` maps each action to
one of `JobContract`.

**ListLemmas** has what the other proof modules share. Induction and recursion over data come
first. The library's theorems on them take a predicate, which no prover here can be
given; but that every set of naturals has a least member (`WFMin`, with `LessWF`) is a fact
about sets, and from it follow `SetInduction`, `ListInduction` (what holds of the empty list, and
of a list with one more entry if it holds of the list, holds of every list) and `Recursion`
(a recursive function exists and obeys its equations), all about a *set* or a *function* in
the predicate's place. They give what `Selected` keeps of a list (`SelectedLemma`,
`SelectedAppend`) and what `Total` adds up to (`TotalDef`, `TotalAppend`, `TotalSelected`). Sorting
needs counting: of the entries of a finite set in a total order, the one that n - 1
others come before exists and is the only one (`RankLemma`). So `Descending` gives each entry one
place (`PlaceLemma`): it is a rearrangement, in key order, and equals keep their order
(`DescendingLemma`); a selection from a sorted list is sorted (`SortedSelected`). Then come what `Tail` and
`Append` do to the range and injectivity of a sequence (`TailLemma`, `AppendLemma`), and so
what `Dequeue` and `MarkFailed` do to a queue (`DequeueLemma`, `MarkFailedLemma`).

**EngineProofs** (assumes `EngineAssumption`: requests are well formed; and that `Miss` is no
payload). `IInv` is the type invariant and, for each task, `TaskInv`: where its
positions are, by phase of the coroutine, and the attempts each has. The strengthening
says what the properties leave open: a task not started has no results, what is
in hand is not in the queue, a job in hand has attempts within the limit. An action
changes one task, so `OneTask` reduces each case to that task. `TypeCorrect`, `NoJobLost` and
`RetryLimit` follow: they hold for every number of requests, repositories and commits.

The same module shows that each action of the engine is one step of `JobContract` for the
commit it works on, or none (`Refinement`), and that no step takes back a result, a dead letter,
a status or a record (`NothingTakenBack`). `IInv` is enough but for one fact: a request that has not
started has no attempts, so that its commits enter the contract with none; `Fresh` adds it.

Its last part is what requests leave behind. `StoresAgree` and
`ResultsStored` are kept by every step once `IInv` is there: only `Succeed` writes raw commit,
metadata and `last_sha`, all under one key (`StoresConsistent`, `ReportedIsStored`). The others
need strengthenings. `CacheInv`: a client's cache is its own, has the answer in hand if
that is a payload, and has every result (`NeverAskedTwice`). `OrderInv`: what waits in the main
queue comes after all else, the retry queue has at most the job tried last, and results
come before that (`OrderKept`). `ReportInv`: of a finished batch nothing is left in the queue, the
status is true, and its repository is credited with at least its results (`StatusTrue`).
The sums of `CountsAgree` are stated as cardinalities of the sets of all attempts, results and dead
letters of all requests. Each action adds exactly one member to such a set, or none, so every
counter moves with its set; `CountsInv` adds that a request not started has an empty queue
(`CountsAddUp`).

**OrgRunProofs** (adds `OrgAssumption`: each task is the batch of one position of one run). A step
of a run is a step of the engine or leaves the engine's variables alone, so every invariant
of the engine holds of the composition too (`NoJobLostInRuns` is `JobsAccounted` of the batches).
`OrgInv` relates where a run is to where its batches are, and gives `OrgTypeCorrect` and
`ListingWorkedThrough`; with `ReportInv` of the engine it gives `WorkSurvives`. For `LimiterJustified`,
`LimiterInv` says that the window a limiter knows of ends with the present one, in which the
remaining GETs are no more than it says, or is over. For `RefusalsLimited`, `RefusalInv` relates the
refusals a client has met in a row to the attempts of its batch: a batch begins with an answer that was
served, and each refusal within it is a failed attempt of one of its commits, of which there are
no more than the retries allow; between batches only the GET that ends the run comes on top.

**BackfillProofs** (assumes `BackfillAssumption`: bounds are naturals, backfills are no requests).
A listing is newest first, hence the scan up to `last_sha` takes what is newer
(`NewShasLemma`, `SelectsExactly`). `NoGapBehindLast` needs that, while the window covers the history,
a listing goes back to the first commit and a queue is part of it: then whoever moves
`last_sha` to a commit has listed all older ones, and what a backfill left out was behind
a `last_sha` that had everything behind it covered (`NoGapOpens`).

**SearchProofs** has the read side. Its first part is `Catalogue` (assumes `CatalogueAssumption`: pages have
a size). `StampTells` is not inductive: it says
nothing of an index whose stamp is out of date, which must not become the size of the
store again with other contents. `IInv` says why it cannot: the indexed documents are always
a prefix of the store, which grows only at its end, and the stamp is the length of that
prefix. `IndexFresh` follows for every number of keys and clients. `ReadersComplete` rests on the
same growth: what a client has read (`ReadersInv`) is the first entries of all that matches its
filter, as many as its offset until it met the end, because selecting from a longer store
only adds at the end.

The rest is `FeatureSearch` (assumes `FeatureSearchAssumption`: the alphabet has every text of every
document once, the areas are named once, offsets and thresholds are naturals and limits are
positive). `SearchInv` says that the store has each document once and that an answer is what its
endpoint computes for the documents stored now; it is inductive because an answer ends a
behavior (`SearchInvariance`). So each of the five properties is a statement about operators,
for any store. The hits are a selection from a sorted list, in which exactly those
before a hit outrank it (`OutrankingLemma`), so the i-th result after an offset has its rank, and
the best score of all is the first one's; a document scores more than 0 just if it has a
word of the query or of its areas, as no idf is 0 (`SearchAnswersExactly`). The first n of a sorted selection are
n that nothing left out is before (`BestLemma`): this gives completions (`HeaviestFirst`)
and, since the key, one number, orders as the pair of relatedness and support does
(`PairLemma`), related features (`ClosestFirst`). What overlaps does so in a tag, a token or an
area, and what two of at most three documents share is ubiquitous (`TwoLemma`;
`RelatedShare`). Suggestions are added one by one if their text is new: by induction over the
titles (`AddedFrom`) texts stay distinct, and either all are there or the limit is reached
(`SuggestionsBorneOut`).

**DiscoveryProofs** (assumes `DiscoveryAssumption`: page size and budget are positive, there is a branch).
While a branch is listed, pushes shift its pages: what was the i-th commit is the (d+i)-th after d
pushes. `Listing` says what that leaves of a listing: each commit listed was in the branch when it
was first seen, is at most d places late, and has the one before it listed before it
(`Follows`), so that no gap can open while d is at most a page (`PageFollows`). `Gathered` carries that over the branches done and over
the deduplication of their shas, which keeps of each sha the first. `PlaceSound` is where the walk
is in its pages and its budget, `Finished` what the result is made of. Together (`WalkInv`) they are
inductive and give `DiscoverySound` and `PrefixesListed`.

**MetadataProofs** (assumes `MetadataAssumption`: what GitHub answers has its types and a name
stands for all the classifier asks of it; of GitHub's figures nothing is assumed). `MetaInv` says
that what is stored was built from the one answer under some options, so that the rest is about the
operators. `FirstRuleLemma` says what an `if` chain decides, whatever comes after it; from it follow
what a file counted as source is (`ClassifyLemma`) and that a message that says something decides
alone (`TypeLemma`). `CountLemma`, `PairsLemma` and `DominantLemma` count files by category.
`CoveredLemma` bounds sums over the files taken over by sums over all that GitHub lists, whence a
shortfall is GitHub's (`ShortfallIsGitHubs`). `Rearranged` relates two lists of the same files in
another order: counts, tags and sums are the same (`CountsSame`, `OrderAside`), and with the order
the same the dominant category is too (`DominantSame`, `PatchesAside`). `FiguresTrue`,
`NothingRefused`, `TypeFounded` and `FactsKept` follow, for lists of files of any length and every
message.

## 7 What is only model-checked, and what is not modelled

Only checked by TLC: all liveness (`EverySettled`, `RequestsEnd`, `RunsEnd`, `ListedGetsStored`,
`WalkEnds`), which is out of the prover's reach. Every other property of section 4, each invariant and
each action property of a passing run, is proved.

Not modelled:

- URL parsing, the tokenizer's and stemmer's strings, the regular expressions of messages and
  paths, and the wording of titles, summaries and reasons: sequential functions on strings
  without state, reached well by their unit tests; the modules see what they find;
- BM25's length normalisation and embeddings: real-valued functions;
- the checks of an endpoint that answer 4xx before any state is touched (URLs, signature,
  event type);
- the exporter, the UI, and the rest of models and configuration: serialisation and
  declarations; the UI makes one sequential call with stores of its own;
- threads: no endpoint is synchronous, so the locks of the stores are never contended;
- restarts: nothing outlives the process, so a restart is the initial state;
- rewritten history (force pushes) during a walk or between backfills.
