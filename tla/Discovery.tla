------------------------------ MODULE Discovery ------------------------------
(***************************************************************************)
(* The commit discovery of app/discovery/scanner.py: one discover_repo     *)
(* walks the target branches page by page (get_paginated of                *)
(* app/github/client.py) while people push to the same branches.           *)
(*                                                                         *)
(* Commits are numbered in the order they were made.  Every page is one    *)
(* request; GitHub may answer it long after the one before.                *)
(***************************************************************************)
EXTENDS Naturals, Sequences, SequencesExt

CONSTANTS Targets,      \* target_branches, a sequence of branch names
          MaxCommits,   \* max_commits of the request
          PerPage,      \* per_page, 100 in the code
          MaxBase,      \* bound on the history the branches have in common
          MaxMade       \* bound on the number of commits ever made

ASSUME DiscoveryAssumption ==
    /\ Targets \in Seq(Range(Targets)) /\ Targets # <<>>
    /\ MaxCommits \in Nat \ {0} /\ PerPage \in Nat \ {0}
    /\ MaxBase \in Nat /\ MaxMade \in Nat /\ MaxBase <= MaxMade

Branches == Range(Targets)
Commits == 1 .. MaxMade

VARIABLES log,          \* log[br]: the commits of branch br, newest first
          made,         \* commits made so far
          dedupe,       \* the dedupe flag of the request
          pc,           \* where the walk is
          at,           \* the position in Targets of the branch being listed
          page,         \* the page asked for next
          out,          \* what get_paginated has collected of that branch
          shas,         \* all_shas: what the branches before it gave
          result,       \* the shas of DiscoveredCommits
          seenAt,       \* seenAt[i]: branch i when its first page was read
          pushes        \* pushes[i]: pushes to branch i between its pages

walk == <<pc, at, page, out, shas, result, seenAt>>
vars == <<log, made, dedupe, walk, pushes>>

Init ==
    /\ made \in 0 .. MaxBase
    /\ log = [br \in Branches |-> [i \in 1 .. made |-> made + 1 - i]]
    /\ dedupe \in BOOLEAN
    /\ pc = "list" /\ at = 1 /\ page = 1
    /\ out = <<>> /\ shas = <<>> /\ result = <<>>
    /\ seenAt = [i \in DOMAIN Targets |-> <<>>]
    /\ pushes = [i \in DOMAIN Targets |-> 0]

\* Somebody pushes a commit to a branch (after the walk it makes no difference).
Push(br) ==
    /\ made < MaxMade /\ pc = "list"
    /\ made' = made + 1
    /\ log' = [log EXCEPT ![br] = <<made + 1>> \o @]
    /\ pushes' = [i \in DOMAIN Targets |->
                     IF i = at /\ page > 1 /\ Targets[i] = br
                     THEN pushes[i] + 1 ELSE pushes[i]]
    /\ UNCHANGED <<dedupe, walk>>

\* Fault: every branch gets the whole budget.
PerBranchWhole == MaxCommits

\* "Spread the commit budget across the requested branches."
PerBranch ==
    LET share == MaxCommits \div Len(Targets)
    IN  IF share = 0 THEN 1 ELSE share

\* deduplicate_shas: of equal entries only the first stays.
DeduplicateShas(s) ==
    LET seen(n) == {s[i] : i \in 1 .. n - 1}
        upTo[n \in 0 .. Len(s)] ==
            IF n = 0 THEN <<>>
            ELSE IF s[n] \in seen(n) THEN upTo[n - 1] ELSE Append(upTo[n - 1], s[n])
    IN  upTo[Len(s)]

\* s[:n]
Truncate(s, n) == IF Len(s) <= n THEN s ELSE SubSeq(s, 1, n)

\* GitHub's answer: page p of a branch, empty past its end.
PageOf(s, p) ==
    SubSeq(s, (p - 1) * PerPage + 1, IF p * PerPage < Len(s) THEN p * PerPage ELSE Len(s))

\* get_paginated returns what it has to the loop over the branches, which goes
\* on to the next branch or builds the DiscoveredCommits.
BranchDone(listed) ==
    LET all == shas \o Truncate(listed, PerBranch)
    IN  /\ shas' = all /\ out' = <<>> /\ page' = 1 /\ at' = at + 1
        /\ IF at < Len(Targets)
           THEN UNCHANGED <<pc, result>>
           ELSE /\ pc' = "done"
                /\ result' = Truncate(IF dedupe THEN DeduplicateShas(all) ELSE all, MaxCommits)

\* An empty page or one that is not full is the last one.
LastPage(batch) == Len(batch) < PerPage

\* Fault: the second page is passed over.
NextPageSkips == IF page = 1 THEN 3 ELSE page + 1

NextPage == page + 1

\* The answer to one page arrives.
ReadPage ==
    /\ pc = "list"
    /\ LET batch == PageOf(log[Targets[at]], page)
           listed == out \o batch
       IN  /\ seenAt' = IF page = 1 THEN [seenAt EXCEPT ![at] = log[Targets[at]]] ELSE seenAt
           /\ IF LastPage(batch) \/ Len(listed) >= PerBranch
              THEN BranchDone(listed)
              ELSE /\ out' = listed /\ page' = NextPage
                   /\ UNCHANGED <<pc, at, shas, result>>
    /\ UNCHANGED <<log, made, dedupe, pushes>>

\* Fault: the listing starts again when a page fails.
PageFailsRestarts ==
    /\ pc = "list"
    /\ out' = <<>> /\ page' = 1
    /\ UNCHANGED <<log, made, dedupe, pc, at, shas, result, seenAt, pushes>>

\* GitHub refuses a page (the branch is unknown, the rate limit is reached, ...):
\* the GitHubError leaves discover_repo, and what was listed is lost.
PageFails ==
    /\ pc = "list"
    /\ pc' = "failed"
    /\ UNCHANGED <<log, made, dedupe, at, page, out, shas, result, seenAt, pushes>>

Next == ReadPage \/ PageFails \/ \E br \in Branches : Push(br)

\* A request for a page is answered or fails (httpx times out).
Spec == Init /\ [][Next]_vars /\ WF_vars(ReadPage)

-----------------------------------------------------------------------------
\* Type invariant.
TypeOK ==
    /\ made \in 0 .. MaxMade
    /\ log \in [Branches -> Seq(Commits)]
    /\ dedupe \in BOOLEAN
    /\ pc \in {"list", "done", "failed"}
    /\ at \in 1 .. Len(Targets) + 1
    /\ page \in 1 .. MaxCommits + 1
    /\ out \in Seq(Commits) /\ Len(out) < PerBranch + PerPage
    /\ shas \in Seq(Commits) /\ Len(shas) <= PerBranch * Len(Targets)
    /\ result \in Seq(Commits)
    /\ seenAt \in [DOMAIN Targets -> Seq(Commits)]
    /\ pushes \in [DOMAIN Targets -> 0 .. MaxMade]

Least(a, b) == IF a < b THEN a ELSE b

\* What branch i contributes if k of its commits were listed.
FirstOf(k) ==
    FlattenSeq([i \in DOMAIN Targets |-> SubSeq(seenAt[i], 1, k[i])])

\* Pushes between two pages shift the later pages, and so only repeat commits:
\* a deduplicated walk gives, of each branch, the newest commits it had when
\* its first page was read, in order and without a gap (client.py:86-101 with
\* scanner.py:49-56).  Each push between two pages costs at most one commit.
\* Only more pushes than a page holds put newer commits behind older ones.
BranchPrefixes ==
    pc = "done" /\ dedupe /\ (\A i \in DOMAIN Targets : pushes[i] <= PerPage) =>
        \E k \in [DOMAIN Targets -> 0 .. PerBranch] :
            /\ \A i \in DOMAIN Targets :
                  /\ k[i] <= Least(PerBranch, Len(seenAt[i]))
                  /\ k[i] + pushes[i] >= Least(PerBranch, Len(seenAt[i]))
            /\ result = Truncate(DeduplicateShas(FirstOf(k)), MaxCommits)

\* No sha goes to the engine twice when duplicates are to be removed, neither
\* a commit that two branches share nor one that a push shifted to a later page.
NoSimilarShas ==
    dedupe => \A i, j \in DOMAIN result : result[i] = result[j] => i = j

\* The budget is kept whatever the branches hold, and no branch uses up the
\* share of another: the newest commit each target branch had when it was
\* listed is discovered, provided the budget has a commit for every branch.
BudgetShared ==
    pc = "done" =>
        /\ Len(result) <= MaxCommits
        /\ Len(Targets) <= MaxCommits =>
              \A i \in DOMAIN Targets :
                  seenAt[i] # <<>> => Contains(result, Head(seenAt[i]))

\* What the engine is given is well formed, free of repetitions and within the
\* budget (scanner.py:51-60).
ResultSound == TypeOK /\ NoSimilarShas /\ BudgetShared

\* The walk ends although pushes may move the end of the branch away.
WalkEnds == <>(pc # "list")

=============================================================================
