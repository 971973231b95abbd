---------------------------- MODULE OrgRunProofs ----------------------------
(***************************************************************************)
(* For any number of runs over any listings, any quota and any pattern of  *)
(* failures: a run is one use of the engine among others, so that what is  *)
(* proved of the engine holds; it works through its listing in order; and  *)
(* its rate limiter never holds it back without need; what its batches     *)
(* reported is stored even if the run itself ends in an error; and once    *)
(* GitHub refuses, no client goes on asking for long.                      *)
(***************************************************************************)
EXTENDS OrgRun, EngineProofs

\* What the actions of run o rely on besides the listing properties.
RunInv(o) ==
    /\ ListingCovered(o) /\ \A n \in Indices(o) : BatchInOrder(o, n)
    /\ listed[o] <= Len(Batches[o])
    /\ at[o] \in {"new", "org", "user"} => next[o] = 1

\* The quota a limiter knows of is that of this window or of one that is over.
LimiterInv(c) ==
    limiter[c].reset # Unknown =>
        /\ limiter[c].remaining # Unknown
        /\ limiter[c].reset <= window + 1
        /\ limiter[c].reset = window + 1 => remaining <= limiter[c].remaining

OrgInv ==
    /\ IInv /\ OrgTypeOK
    /\ \A o \in Runs : RunInv(o) /\ LimiterInv(o)

-----------------------------------------------------------------------------
(* The batches of the runs.                                                *)

LEMMA BatchTypes ==
    ASSUME NEW o \in Runs
    PROVE  /\ Len(Batches[o]) \in Nat /\ Indices(o) \subseteq Nat \ {0}
           /\ \A n \in Indices(o) : BatchTask(o, n) \in Tasks
<1>1. Batches[o] \in Seq([task : Tasks, repo : Repos])
  BY OrgAssumption
<1>2. Len(Batches[o]) \in Nat /\ Indices(o) \subseteq Nat \ {0}
  BY <1>1 DEF Indices
<1>3. ASSUME NEW n \in Indices(o) PROVE BatchTask(o, n) \in Tasks
  <2> DEFINE S == [task : Tasks, repo : Repos]
  <2>1. Batches[o] \in Seq(S) /\ n \in 1 .. Len(Batches[o])
    BY <1>1 DEF Indices
  <2>2. Batches[o][n] \in S
    <3> HIDE DEF S
    <3> QED
      BY <2>1
  <2> QED
    BY <2>2 DEF BatchTask
<1> QED
  BY <1>2, <1>3

LEMMA BatchesDiffer ==
    ASSUME NEW o \in Runs, NEW p \in Runs, NEW n \in Indices(o), NEW m \in Indices(p),
           BatchTask(o, n) = BatchTask(p, m)
    PROVE  o = p /\ n = m
  BY OrgAssumption

\* The position a run works on is one of its listing.
LEMMA Position ==
    ASSUME OrgInv, NEW o \in Runs, at[o] \in {"info", "list", "batch"}
    PROVE  /\ next[o] \in Indices(o) /\ next[o] \in Nat \ {0} /\ listed[o] \in Nat
           /\ next[o] <= listed[o] /\ listed[o] <= Len(Batches[o])
           /\ BatchTask(o, next[o]) \in Tasks
<1>1. /\ next[o] \in Nat \ {0} /\ listed[o] \in Nat
      /\ next[o] <= listed[o] /\ listed[o] <= Len(Batches[o])
  BY DEF OrgInv, OrgTypeOK, RunInv, ListingCovered
<1>2. next[o] \in Indices(o)
  BY <1>1, BatchTypes DEF Indices
<1> QED
  BY <1>1, <1>2, BatchTypes

\* A batch that runs is the one its run awaits.
LEMMA Awaited ==
    ASSUME OrgInv, NEW o \in Runs, NEW n \in Indices(o),
           pc[BatchTask(o, n)] \in {"pick", "wait", "got"}
    PROVE  n = next[o] /\ at[o] = "batch"
<1>1. BatchInOrder(o, n)
  BY DEF OrgInv, RunInv
<1>2. n \in Nat /\ next[o] \in Nat
  BY BatchTypes DEF OrgInv, OrgTypeOK
<1> QED
  BY <1>1, <1>2 DEF BatchInOrder

\* Every task is a batch of some run.
LEMMA TaskOfRun ==
    ASSUME NEW t \in Tasks
    PROVE  \E o \in Runs : \E n \in Indices(o) : t = BatchTask(o, n)
  BY OrgAssumption DEF TasksOf

\* A step that moves one batch leaves the others where they are.
LEMMA OtherBatch ==
    ASSUME NEW o \in Runs, NEW n \in Indices(o),
           NEW p \in Runs, NEW m \in Indices(p), p # o \/ m # n
    PROVE  BatchTask(p, m) \in Tasks \ {BatchTask(o, n)}
  BY BatchTypes, BatchesDiffer

LEMMA TaskDomain == OrgInv => DOMAIN pc = Tasks
  BY DEF OrgInv, IInv, TypeOK

LEMMA FrameRun ==
    ASSUME NEW p \in Runs, RunInv(p),
           at'[p] = at[p], next'[p] = next[p], listed'[p] = listed[p],
           \A m \in Indices(p) : pc'[BatchTask(p, m)] = pc[BatchTask(p, m)]
    PROVE  RunInv(p)'
<1>1. ListingCovered(p)' /\ \A m \in Indices(p) : BatchInOrder(p, m)'
  BY DEF RunInv, ListingCovered, BatchInOrder
<1> QED
  BY <1>1 DEF RunInv

-----------------------------------------------------------------------------
(* Every step is a step of the engine, or leaves it alone.                 *)

LEMMA EngineStep == OrgInv /\ [OrgNext]_orgVars => [Next]_vars
<1> SUFFICES ASSUME OrgInv, [OrgNext]_orgVars PROVE [Next]_vars
  OBVIOUS
<1>1. CASE UNCHANGED orgVars
  BY <1>1 DEF orgVars
<1>2. CASE Reset
  BY <1>2 DEF Reset
<1>3. ASSUME NEW t \in Tasks, TaskStep(t) PROVE Next
  BY <1>3 DEF TaskStep, AnswerTask, LocalStep, Local, Next, Step
<1>4. ASSUME NEW o \in Runs, StartOrg(o) \/ StartRepo(o) \/ OrgStep(o) PROVE [Next]_vars
  <2>1. CASE StartOrg(o) \/ StartRepo(o) \/ ReposListed(o) \/ NotAnOrg(o) \/ RepoInfo(o)
             \/ OrgFails(o) \/ OrgCrashes(o)
    BY <2>1 DEF StartOrg, StartRepo, ReposListed, NotAnOrg, RepoInfo, OrgFails, OrgCrashes
  <2>2. CASE CommitsListed(o)
    BY <2>2, Position DEF CommitsListed, Gets, Next
  <2>3. CASE FinishBatch(o) \/ CrashBatch(o)
    BY <2>3, Position DEF FinishBatch, CrashBatch, Next, Step
  <2> QED
    BY <1>4, <2>1, <2>2, <2>3 DEF OrgStep
<1> QED
  BY <1>1, <1>2, <1>3, <1>4 DEF OrgNext

-----------------------------------------------------------------------------
(* The rate limiter.                                                       *)

LEMMA GithubTypes ==
    ASSUME OrgTypeOK
    PROVE  /\ remaining \in Nat /\ window \in Nat /\ Quota \in Nat /\ remaining <= Quota
           /\ \A c \in Runs : /\ limiter[c].remaining \in Nat \cup {Unknown}
                              /\ limiter[c].reset \in Nat \cup {Unknown}
           /\ Unknown \notin Nat /\ MinRemaining \in Nat \ {0}
  BY OrgAssumption DEF OrgTypeOK

\* An answer updates one limiter and spends at most one GET.
LEMMA AnswerInv ==
    ASSUME OrgInv, NEW c \in Runs, NEW o, Answer(c, o)
    PROVE  /\ remaining' \in 0 .. Quota /\ window' \in Nat
           /\ limiter' \in [Runs -> [remaining : Nat \cup {Unknown}, reset : Nat \cup {Unknown}]]
           /\ refused' \in [Runs -> Nat]
           /\ \A p \in Runs : LimiterInv(p)'
<1>1. OrgTypeOK /\ \A p \in Runs : LimiterInv(p)
  BY DEF OrgInv
<1>2. CASE Served(c)
  <2>1. /\ remaining > 0 /\ remaining' = remaining - 1 /\ window' = window
        /\ limiter' = [limiter EXCEPT ![c] = [remaining |-> remaining - 1, reset |-> window + 1]]
        /\ refused' = [refused EXCEPT ![c] = 0]
    BY <1>2 DEF Served, UpdateFromHeaders
  <2>2. ASSUME NEW p \in Runs PROVE LimiterInv(p)'
    <3>1. CASE p = c
      BY <1>1, <2>1, <3>1, GithubTypes DEF LimiterInv, OrgTypeOK
    <3>2. CASE p # c
      <4>1. limiter'[p] = limiter[p] /\ LimiterInv(p)
        BY <1>1, <2>1, <3>2 DEF OrgTypeOK
      <4> QED
        BY <1>1, <2>1, <4>1, GithubTypes DEF LimiterInv
    <3> QED
      BY <3>1, <3>2
  <2> QED
    BY <1>1, <2>1, <2>2, GithubTypes DEF OrgTypeOK
<1>3. CASE Refused(c)
  <2>1. /\ remaining = 0 /\ remaining' = remaining /\ window' = window
        /\ limiter' = [limiter EXCEPT ![c] = [remaining |-> 0, reset |-> window + 1]]
        /\ refused' = [refused EXCEPT ![c] = @ + 1]
    BY <1>3 DEF Refused, UpdateFromHeaders
  <2>2. ASSUME NEW p \in Runs PROVE LimiterInv(p)'
    <3>1. CASE p = c
      BY <1>1, <2>1, <3>1, GithubTypes DEF LimiterInv, OrgTypeOK
    <3>2. CASE p # c
      BY <1>1, <2>1, <3>2 DEF LimiterInv, OrgTypeOK
    <3> QED
      BY <3>1, <3>2
  <2> QED
    BY <1>1, <2>1, <2>2, GithubTypes DEF OrgTypeOK
<1>4. CASE Headless(c)
  <2>1. /\ remaining' = remaining /\ window' = window /\ refused' = refused
        /\ limiter' = [limiter EXCEPT ![c] = [remaining |-> Unknown, reset |-> Unknown]]
    BY <1>4 DEF Headless, UpdateFromHeaders
  <2>2. ASSUME NEW p \in Runs PROVE LimiterInv(p)'
    BY <1>1, <2>1 DEF LimiterInv, OrgTypeOK
  <2> QED
    BY <1>1, <2>1, <2>2 DEF OrgTypeOK
<1>5. CASE NoAnswer
  BY <1>1, <1>5 DEF NoAnswer, github, OrgTypeOK, LimiterInv
<1> QED
  BY <1>2, <1>3, <1>4, <1>5 DEF Answer

LEMMA ResetInv ==
    ASSUME OrgInv, Reset
    PROVE  /\ remaining' \in 0 .. Quota /\ window' \in Nat
           /\ limiter' = limiter /\ refused' = refused
           /\ \A p \in Runs : LimiterInv(p)'
<1>1. OrgTypeOK /\ \A p \in Runs : LimiterInv(p)
  BY DEF OrgInv
<1>2. /\ window' = window + 1 /\ remaining' = Quota
      /\ limiter' = limiter /\ refused' = refused
  BY DEF Reset
<1>3. ASSUME NEW p \in Runs PROVE LimiterInv(p)'
  BY <1>1, <1>2, GithubTypes DEF LimiterInv
<1> QED
  BY <1>1, <1>2, <1>3, GithubTypes

LEMMA LimiterConsequence == OrgInv => ThrottleJustified
<1> SUFFICES ASSUME OrgInv, NEW c \in Runs, UntilReset(c) > 0
             PROVE  /\ remaining <= limiter[c].remaining
                    /\ ShouldThrottle(c) => remaining < MinRemaining
  BY DEF ThrottleJustified
<1>1. LimiterInv(c) /\ OrgTypeOK
  BY DEF OrgInv
<1>2. limiter[c].reset # Unknown /\ ~(limiter[c].reset <= window)
  BY DEF UntilReset
<1>3. remaining <= limiter[c].remaining /\ limiter[c].remaining \in Nat
  BY <1>1, <1>2, GithubTypes DEF LimiterInv
<1> QED
  BY <1>1, <1>3, GithubTypes DEF ShouldThrottle

-----------------------------------------------------------------------------
(* The listings.                                                           *)

Stages == {"new", "org", "user", "info", "list", "batch", "answered", "refused", "crashed"}

\* The types of a run's own variables.
RunTypes ==
    /\ at \in [Runs -> Stages]
    /\ next \in [Runs -> Nat \ {0}]
    /\ listed \in [Runs -> Nat]

LEMMA RunTypesOK == OrgInv => RunTypes
  BY DEF OrgInv, OrgTypeOK, RunTypes, Stages

\* A step of run o that leaves the engine alone.
LEMMA RunOnly ==
    ASSUME OrgInv, NEW o \in Runs, NEW stage \in Stages, NEW n \in Nat,
           pc' = pc, next' = next,
           at' = [at EXCEPT ![o] = stage], listed' = [listed EXCEPT ![o] = n],
           RunInv(o)'
    PROVE  RunTypes' /\ \A p \in Runs : RunInv(p)'
<1>1. RunTypes'
  BY RunTypesOK DEF RunTypes
<1>2. ASSUME NEW p \in Runs, p # o PROVE RunInv(p)'
  <2>1. RunInv(p) /\ at'[p] = at[p] /\ listed'[p] = listed[p]
    BY <1>2, RunTypesOK DEF OrgInv, RunTypes
  <2> QED
    BY <2>1, FrameRun
<1> QED
  BY <1>1, <1>2

\* A step of run o that moves one of its batches.
LEMMA RunAndBatch ==
    ASSUME OrgInv, NEW o \in Runs, NEW stage \in Stages, NEW n \in Nat \ {0}, NEW x,
           NEW k \in Indices(o), NEW t, t = BatchTask(o, k), pc' = [pc EXCEPT ![t] = x],
           at' = [at EXCEPT ![o] = stage], next' = [next EXCEPT ![o] = n],
           listed' = listed, RunInv(o)'
    PROVE  RunTypes' /\ \A p \in Runs : RunInv(p)'
<1>1. RunTypes'
  BY RunTypesOK DEF RunTypes
<1>2. ASSUME NEW p \in Runs, p # o PROVE RunInv(p)'
  <2>1. RunInv(p) /\ at'[p] = at[p] /\ next'[p] = next[p] /\ listed'[p] = listed[p]
    BY <1>2, RunTypesOK DEF OrgInv, RunTypes
  <2>2. \A m \in Indices(p) : pc'[BatchTask(p, m)] = pc[BatchTask(p, m)]
    BY <1>2, OtherBatch, TaskDomain
  <2> QED
    BY <2>1, <2>2, FrameRun
<1> QED
  BY <1>1, <1>2

LEMMA StagesInv ==
    ASSUME OrgInv, NEW o \in Runs,
           \/ StartOrg(o) \/ StartRepo(o) \/ ReposListed(o) \/ NotAnOrg(o)
           \/ RepoInfo(o) \/ OrgFails(o) \/ OrgCrashes(o)
    PROVE  RunTypes' /\ \A p \in Runs : RunInv(p)'
<1>1. /\ RunInv(o) /\ at[o] \in Stages /\ next[o] \in Nat \ {0} /\ listed[o] \in Nat
      /\ Len(Batches[o]) \in Nat /\ MaxRepos \in Nat \ {0}
      /\ DOMAIN at = Runs /\ DOMAIN listed = Runs
      /\ listed = [listed EXCEPT ![o] = listed[o]]
  BY RunTypesOK, BatchTypes, OrgAssumption DEF OrgInv, RunTypes
<1>2. CASE StartOrg(o) \/ NotAnOrg(o) \/ RepoInfo(o) \/ OrgFails(o) \/ OrgCrashes(o)
  <2>1. PICK stage \in {"org", "user", "list", "refused", "crashed"} :
          /\ at' = [at EXCEPT ![o] = stage]
          /\ pc' = pc /\ next' = next /\ listed' = listed
          /\ stage = "org" => at[o] = "new"
          /\ stage = "user" => at[o] = "org"
          /\ stage = "list" => at[o] = "info"
          /\ at[o] \in {"new", "org", "user", "info", "list"}
    BY <1>2 DEF StartOrg, NotAnOrg, RepoInfo, OrgFails, OrgCrashes, Gets, vars, control
  <2>2. at'[o] = stage
    BY <1>1, <2>1
  <2>3. ListingCovered(o)' /\ listed'[o] <= Len(Batches[o])
        /\ (at'[o] \in {"new", "org", "user"} => next'[o] = 1)
    BY <1>1, <2>1, <2>2 DEF RunInv, ListingCovered
  <2>4. ASSUME NEW n \in Indices(o) PROVE BatchInOrder(o, n)'
    BY <1>1, <2>1, <2>2 DEF RunInv, BatchInOrder
  <2>5. RunInv(o)'
    BY <2>3, <2>4 DEF RunInv
  <2>6. stage \in Stages /\ listed' = [listed EXCEPT ![o] = listed[o]]
    BY <1>1, <2>1 DEF Stages
  <2> QED
    BY <1>1, <2>1, <2>5, <2>6, RunOnly
<1>3. CASE StartRepo(o)
  <2>1. /\ at' = [at EXCEPT ![o] = "info"] /\ listed' = [listed EXCEPT ![o] = 1]
        /\ pc' = pc /\ next' = next /\ at[o] = "new" /\ o \in RepoRuns
    BY <1>3 DEF StartRepo, vars, control
  <2>2. at'[o] = "info" /\ listed'[o] = 1 /\ next[o] = 1 /\ Len(Batches[o]) = 1
    BY <1>1, <2>1, OrgAssumption DEF RunInv
  <2>3. ListingCovered(o)' /\ listed'[o] <= Len(Batches[o])
        /\ (at'[o] \in {"new", "org", "user"} => next'[o] = 1)
    BY <1>1, <2>1, <2>2 DEF ListingCovered
  <2>4. ASSUME NEW n \in Indices(o) PROVE BatchInOrder(o, n)'
    BY <1>1, <2>1, <2>2 DEF RunInv, BatchInOrder
  <2>5. RunInv(o)'
    BY <2>3, <2>4 DEF RunInv
  <2> QED
    BY <2>1, <2>5, RunOnly DEF Stages
<1>4. CASE ReposListed(o)
  <2>1. PICK n \in 0 .. Len(Batches[o]) :
          /\ listed' = [listed EXCEPT ![o] = Cut(n)]
          /\ at' = [at EXCEPT ![o] = IF n = 0 THEN "answered" ELSE "info"]
    BY <1>4 DEF ReposListed, Indices
  <2>2. pc' = pc /\ next' = next /\ at[o] \in {"org", "user"} /\ next[o] = 1
    BY <1>1, <1>4 DEF ReposListed, Gets, RunInv, vars, control
  <2>3. Cut(n) \in Nat /\ Cut(n) <= MaxRepos /\ Cut(n) <= n /\ (n # 0 => Cut(n) >= 1)
    BY <1>1 DEF Cut
  <2>4. at'[o] = (IF n = 0 THEN "answered" ELSE "info") /\ listed'[o] = Cut(n)
    BY <1>1, <2>1
  <2>5. ListingCovered(o)' /\ listed'[o] <= Len(Batches[o])
        /\ (at'[o] \in {"new", "org", "user"} => next'[o] = 1)
    BY <1>1, <2>2, <2>3, <2>4 DEF ListingCovered
  <2>6. ASSUME NEW m \in Indices(o) PROVE BatchInOrder(o, m)'
    BY <1>1, <2>2, <2>4 DEF RunInv, BatchInOrder
  <2>7. RunInv(o)'
    BY <2>5, <2>6 DEF RunInv
  <2> QED
    BY <2>1, <2>2, <2>3, <2>7, RunOnly DEF Stages
<1> QED
  BY <1>2, <1>3, <1>4

\* The batch of the run starts, finishes or crashes.
LEMMA BatchesInv ==
    ASSUME OrgInv, NEW o \in Runs, CommitsListed(o) \/ FinishBatch(o) \/ CrashBatch(o)
    PROVE  RunTypes' /\ \A p \in Runs : RunInv(p)'
<1> DEFINE k == next[o]
<1>0. PICK t : t = BatchTask(o, k)
  OBVIOUS
<1>1. at[o] \in {"list", "batch"}
  BY DEF CommitsListed, Gets, FinishBatch, CrashBatch
<1>2. /\ k \in Indices(o) /\ k \in Nat \ {0} /\ listed[o] \in Nat
      /\ k <= listed[o] /\ listed[o] <= Len(Batches[o]) /\ t \in Tasks
  BY <1>0, <1>1, Position
<1>3. RunInv(o) /\ DOMAIN at = Runs /\ DOMAIN next = Runs /\ Indices(o) \subseteq Nat
      /\ next = [next EXCEPT ![o] = next[o]]
  BY RunTypesOK, BatchTypes DEF OrgInv, RunTypes
<1>4. PICK stage \in Stages, n \in Nat \ {0}, x \in {"pick", "done", "crashed"} :
        /\ at' = [at EXCEPT ![o] = stage]
        /\ next' = [next EXCEPT ![o] = n]
        /\ pc' = [pc EXCEPT ![t] = x]
        /\ listed' = listed
        /\ \/ stage = "batch" /\ x = "pick" /\ n = k
           \/ stage = "crashed" /\ x = "crashed" /\ n = k
           \/ /\ stage = IF k + 1 <= listed[o] THEN "info" ELSE "answered"
              /\ x = "done" /\ n = k + 1
  <2>2. CASE CommitsListed(o)
    <3>1. /\ at' = [at EXCEPT ![o] = "batch"] /\ next' = next /\ listed' = listed
          /\ pc' = [pc EXCEPT ![t] = "pick"]
      BY <1>0, <2>2 DEF CommitsListed, Start
    <3> QED
      BY <1>2, <1>3, <3>1 DEF Stages
  <2>3. CASE CrashBatch(o)
    <3>1. /\ at' = [at EXCEPT ![o] = "crashed"] /\ next' = next /\ listed' = listed
          /\ pc' = [pc EXCEPT ![t] = "crashed"]
      BY <1>0, <2>3 DEF CrashBatch, Crash
    <3> QED
      BY <1>2, <1>3, <3>1 DEF Stages
  <2>4. CASE FinishBatch(o)
    <3>1. /\ at' = [at EXCEPT ![o] = IF k + 1 <= listed[o] THEN "info" ELSE "answered"]
          /\ next' = [next EXCEPT ![o] = k + 1] /\ listed' = listed
          /\ pc' = [pc EXCEPT ![t] = "done"]
      BY <1>0, <2>4 DEF FinishBatch, Finish, NextBatch, HasRepo
    <3>2. k + 1 \in Nat \ {0} /\ (IF k + 1 <= listed[o] THEN "info" ELSE "answered") \in Stages
      BY <1>2 DEF Stages
    <3> QED
      BY <3>1, <3>2
  <2> QED
    BY <2>2, <2>3, <2>4
<1>5. at'[o] = stage /\ next'[o] = n
  BY <1>3, <1>4
<1>6. /\ pc'[t] = x
      /\ \A m \in Indices(o) : m # k => pc'[BatchTask(o, m)] = pc[BatchTask(o, m)]
  BY <1>0, <1>2, <1>4, OtherBatch, TaskDomain
<1>7. ListingCovered(o)' /\ listed'[o] <= Len(Batches[o])
      /\ (at'[o] \in {"new", "org", "user"} => next'[o] = 1)
  BY <1>2, <1>3, <1>4, <1>5 DEF RunInv, ListingCovered
<1>8. ASSUME NEW m \in Indices(o) PROVE BatchInOrder(o, m)'
  <2>1. BatchInOrder(o, m) /\ m \in Nat
    BY <1>3 DEF RunInv
  <2>2. CASE m = k
    BY <1>0, <1>2, <1>4, <1>5, <1>6, <2>2 DEF BatchInOrder
  <2>3. CASE m # k
    BY <1>2, <1>4, <1>5, <1>6, <2>1, <2>3 DEF BatchInOrder
  <2> QED
    BY <2>2, <2>3
<1>9. RunInv(o)'
  BY <1>7, <1>8 DEF RunInv
<1> QED
  BY <1>0, <1>2, <1>4, <1>9, RunAndBatch

\* A step of the engine within a batch: the run goes on awaiting it.
LEMMA TaskInvariant ==
    ASSUME OrgInv, NEW t \in Tasks, TaskStep(t)
    PROVE  RunTypes' /\ \A p \in Runs : RunInv(p)'
<1>1. PICK o \in Runs : \E n \in Indices(o) : t = BatchTask(o, n)
  BY TaskOfRun
<1>2. PICK n \in Indices(o) : t = BatchTask(o, n)
  BY <1>1
<1>3. UNCHANGED <<at, next, listed>>
  BY DEF TaskStep, AnswerTask, LocalStep, run
<1>4. PICK x \in {"pick", "wait", "got"} :
        pc[t] \in {"pick", "wait", "got"} /\ pc' = [pc EXCEPT ![t] = x]
  BY DEF TaskStep, AnswerTask, LocalStep, Local, Reply, Fetch, FromCache, TakeJob,
         Succeed, Fail, Got
<1>5. n = next[o] /\ at[o] = "batch"
  BY <1>2, <1>4, Awaited
<1>6. /\ pc'[t] = x
      /\ \A p \in Runs : \A m \in Indices(p) :
            p # o \/ m # n => pc'[BatchTask(p, m)] = pc[BatchTask(p, m)]
  BY <1>2, <1>4, OtherBatch, TaskDomain
<1>7. ASSUME NEW p \in Runs PROVE RunInv(p)'
  <2>1. RunInv(p)
    BY DEF OrgInv
  <2>2. CASE p # o
    BY <1>3, <1>6, <2>1, <2>2, FrameRun
  <2>3. CASE p = o
    <3>1. ListingCovered(o)'
      BY <1>3, <2>1, <2>3 DEF RunInv, ListingCovered
    <3>2. ASSUME NEW m \in Indices(o) PROVE BatchInOrder(o, m)'
      <4>1. CASE m = n
        <5>1. n \in Nat /\ next'[o] = n /\ at'[o] = "batch"
          BY <1>3, <1>5, BatchTypes
        <5> QED
          BY <1>2, <1>6, <4>1, <5>1 DEF BatchInOrder
      <4>2. CASE m # n
        BY <1>3, <1>6, <2>1, <2>3, <4>2 DEF RunInv, BatchInOrder
      <4> QED
        BY <4>1, <4>2
    <3> QED
      BY <1>3, <2>1, <2>3, <3>1, <3>2 DEF RunInv
  <2> QED
    BY <2>2, <2>3
<1>8. RunTypes'
  BY <1>3, RunTypesOK DEF RunTypes
<1> QED
  BY <1>7, <1>8

-----------------------------------------------------------------------------
(* The invariant and what follows from it.                                 *)

LEMMA InitOrgInv == OrgInit => OrgInv
<1> SUFFICES ASSUME OrgInit PROVE OrgInv
  OBVIOUS
<1>1. IInv
  BY InitInv DEF OrgInit
<1>2. OrgTypeOK
  BY OrgAssumption DEF OrgInit, OrgTypeOK
<1>3. ASSUME NEW o \in Runs PROVE RunInv(o) /\ LimiterInv(o)
  <2>1. at[o] = "new" /\ next[o] = 1 /\ listed[o] = 0 /\ limiter[o].reset = Unknown
    BY DEF OrgInit
  <2>2. LimiterInv(o)
    BY <2>1 DEF LimiterInv
  <2>3. ListingCovered(o)
    BY <2>1, OrgAssumption DEF ListingCovered
  <2>4. ASSUME NEW n \in Indices(o) PROVE BatchInOrder(o, n)
    <3>1. pc[BatchTask(o, n)] = "new" /\ n \in Nat \ {0}
      BY BatchTypes DEF OrgInit, Init
    <3> QED
      BY <2>1, <3>1 DEF BatchInOrder
  <2> QED
    BY <2>1, <2>2, <2>3, <2>4, BatchTypes DEF RunInv
<1> QED
  BY <1>1, <1>2, <1>3 DEF OrgInv

LEMMA NextOrgInv == OrgInv /\ [OrgNext]_orgVars => OrgInv'
<1> SUFFICES ASSUME OrgInv, [OrgNext]_orgVars PROVE OrgInv'
  OBVIOUS
<1> DEFINE LimiterTypes == /\ remaining \in 0 .. Quota /\ window \in Nat
                           /\ limiter \in [Runs -> [remaining : Nat \cup {Unknown},
                                                    reset : Nat \cup {Unknown}]]
                           /\ refused \in [Runs -> Nat]
<1>1. IInv'
  BY EngineStep, NextInv DEF OrgInv
<1>2. LimiterTypes /\ \A p \in Runs : RunInv(p) /\ LimiterInv(p)
  BY DEF OrgInv, OrgTypeOK
<1>3. RunTypes' /\ \A p \in Runs : RunInv(p)'
  <2>1. CASE UNCHANGED orgVars \/ Reset
    <3>1. UNCHANGED <<pc, at, next, listed>>
      BY <2>1 DEF orgVars, Reset, vars, control, run
    <3>2. \A p \in Runs : RunInv(p)'
      BY <1>2, <3>1, FrameRun
    <3> QED
      BY <3>1, <3>2, RunTypesOK DEF RunTypes
  <2> QED
    BY <2>1, StagesInv, BatchesInv, TaskInvariant DEF OrgNext, OrgStep
<1>4. LimiterTypes' /\ \A p \in Runs : LimiterInv(p)'
  <2>1. CASE UNCHANGED github
    BY <1>2, <2>1 DEF github, LimiterInv
  <2>2. CASE Reset
    <3>1. LimiterTypes'
      BY <1>2, <2>2, ResetInv
    <3> QED
      BY <2>2, <3>1, ResetInv
  <2>3. CASE \E c \in Runs : \E o : Answer(c, o)
    BY <2>3, AnswerInv
  <2>4. \/ UNCHANGED github \/ Reset \/ \E c \in Runs : \E o : Answer(c, o)
    <3>1. ASSUME NEW t \in Tasks, TaskStep(t)
          PROVE  UNCHANGED github \/ \E c \in Runs : \E o : Answer(c, o)
      <4>1. Client(t) \in Runs
        <5>1. \E o \in Runs : t \in TasksOf(o)
          BY OrgAssumption
        <5> QED
          BY <5>1 DEF Client
      <4> QED
        BY <3>1, <4>1 DEF TaskStep, AnswerTask, LocalStep
    <3>2. ASSUME NEW o \in Runs, StartOrg(o) \/ StartRepo(o) \/ OrgStep(o)
          PROVE  UNCHANGED github \/ \E c \in Runs : \E r : Answer(c, r)
      <4>1. CASE StartOrg(o) \/ StartRepo(o) \/ FinishBatch(o) \/ CrashBatch(o)
        BY <4>1 DEF StartOrg, StartRepo, FinishBatch, CrashBatch
      <4>2. CASE NotAnOrg(o)
        <5>1. Answer(o, "github_error")
          BY <4>2 DEF NotAnOrg, Answer
        <5> QED
          BY <5>1
      <4>3. CASE ReposListed(o) \/ RepoInfo(o) \/ CommitsListed(o) \/ OrgFails(o) \/ OrgCrashes(o)
        BY <4>3 DEF ReposListed, RepoInfo, CommitsListed, OrgFails, OrgCrashes, Gets
      <4> QED
        BY <3>2, <4>1, <4>2, <4>3 DEF OrgStep
    <3>3. CASE UNCHANGED orgVars
      BY <3>3 DEF orgVars
    <3> QED
      BY <3>1, <3>2, <3>3 DEF OrgNext
  <2> QED
    BY <2>1, <2>2, <2>3, <2>4
<1>5. OrgTypeOK'
  BY <1>3, <1>4 DEF OrgTypeOK, RunTypes, Stages
<1> QED
  BY <1>1, <1>3, <1>4, <1>5 DEF OrgInv

\* The invariant of the runs, the engine's own among it: what is proved of the
\* engine alone (EngineProofs) holds of it under organization runs.
THEOREM OrgInvariance == OrgSpec => []OrgInv
<1>1. OrgInit => OrgInv
  BY InitOrgInv
<1>2. OrgInv /\ [OrgNext]_orgVars => OrgInv'
  BY NextOrgInv
<1> QED
  BY <1>1, <1>2, PTL DEF OrgSpec

\* Type correctness of the runs, the quota and the limiters.
THEOREM OrgTypeCorrect == OrgSpec => []OrgTypeOK
  BY OrgInvariance, PTL DEF OrgInv

\* A run works through its listing in order, whatever fails and however many
\* runs interleave with it.
THEOREM ListingWorkedThrough == OrgSpec => []ListingInOrder
<1>1. OrgInv => ListingInOrder
  BY DEF OrgInv, RunInv, ListingInOrder
<1> QED
  BY <1>1, OrgInvariance, PTL

\* In the window it knows of a limiter promises no fewer requests than are left,
\* and would throttle only a client that has fewer than MinRemaining left
\* (rate_limiter.py:44-51, which nothing in the app asks), for any quota.
THEOREM LimiterJustified == OrgSpec => []ThrottleJustified
  BY LimiterConsequence, OrgInvariance, PTL

\* Within organization and repository runs no commit is lost or handled twice.
THEOREM NoJobLostInRuns == OrgSpec => []JobsAccounted
<1>1. OrgInv => JobsAccounted
  BY Consequences DEF OrgInv
<1> QED
  BY <1>1, OrgInvariance, PTL

-----------------------------------------------------------------------------
(* What a run that fails leaves behind.                                    *)

\* Every batch is one: what a run's own failure does not change.
AllBatches == \A t \in Tasks : Kind(t) = "batch"

LEMMA ReqConstant == [Next]_vars => req' = req
  BY DEF Next, Step, Start, Fetch, FromCache, Reply, Succeed, Fail, Skip, Reject,
         Crash, Finish, vars, control

SurvivalInv == OrgInv /\ ResultsInv /\ AllBatches

LEMMA SurvivalConsequence == SurvivalInv => WorkSurvivesFailure
<1> SUFFICES ASSUME SurvivalInv, NEW o \in Runs, at[o] \in {"refused", "crashed"},
                    NEW n \in Indices(o), n < next[o]
             PROVE  LET t == BatchTask(o, n)
                    IN  /\ Done(t) \cup Dead(t) = Positions(t)
                        /\ \A i \in Done(t) : <<Repo(t), ShaOf[RefAt(t, i)]>> \in metadata
                        /\ processed[Repo(t)] >= Len(commits[t])
  BY DEF WorkSurvivesFailure
<1>1. PICK t \in Tasks : t = BatchTask(o, n)
  BY BatchTypes
<1>2. pc[t] = "done" /\ Kind(t) = "batch"
  BY <1>1 DEF SurvivalInv, AllBatches, OrgInv, RunInv, BatchInOrder
<1>3. Done(t) \cup Dead(t) = Positions(t) /\ processed[Repo(t)] >= Len(commits[t])
  BY <1>2 DEF SurvivalInv, ResultsInv, ReportInv
<1>4. \A i \in Done(t) : <<Repo(t), ShaOf[RefAt(t, i)]>> \in metadata
  BY DEF SurvivalInv, ResultsInv, ResultsStored
<1> QED
  BY <1>1, <1>3, <1>4

\* The results of a run that fails are dropped, but what its finished batches
\* did is in the stores, for any listings and any interleaving.
THEOREM WorkSurvives == OrgSpec => []WorkSurvivesFailure
<1>1. OrgInit => SurvivalInv
  <2> SUFFICES ASSUME OrgInit PROVE SurvivalInv
    OBVIOUS
  <2>1. OrgInv /\ ResultsInv
    BY InitOrgInv, InitResults DEF OrgInit
  <2>2. ASSUME NEW t \in Tasks PROVE Kind(t) = "batch"
    BY TaskOfRun DEF OrgInit
  <2> QED
    BY <2>1, <2>2 DEF SurvivalInv, AllBatches
<1>2. SurvivalInv /\ [OrgNext]_orgVars => SurvivalInv'
  <2> SUFFICES ASSUME SurvivalInv, [OrgNext]_orgVars PROVE SurvivalInv'
    OBVIOUS
  <2>1. OrgInv' /\ [Next]_vars
    BY NextOrgInv, EngineStep DEF SurvivalInv
  <2>2. ResultsInv'
    BY <2>1, NextResults DEF SurvivalInv
  <2>3. req' = req
    BY <2>1, ReqConstant
  <2>4. AllBatches'
    BY <2>3 DEF SurvivalInv, AllBatches, Kind
  <2> QED
    BY <2>1, <2>2, <2>4 DEF SurvivalInv
<1> QED
  BY <1>1, <1>2, SurvivalConsequence, PTL DEF OrgSpec

-----------------------------------------------------------------------------
(* Refusals.                                                               *)

\* The failed attempts of batch t, and one that was refused and is not yet
\* counted as failed.
Tried(t) == Occurrences(queue[t].attempts, Positions(t))
JustRefused(t) == IF pc[t] = "got" /\ outcome[t] = "github_error" THEN 1 ELSE 0

\* The GET that ended a run at discovery.
LastRefused(o) == IF at[o] = "refused" THEN 1 ELSE 0

\* A batch begins with an answer that was served, and each refusal within it
\* is a failed attempt of one of its commits; between batches only the GET that ends the
\* run comes on top of those of the batch before.
RefusalInv(o) ==
    /\ at[o] \in {"new", "org", "user", "list"} => refused[o] = 0
    /\ at[o] = "batch" =>
         LET t == BatchTask(o, next[o])
         IN  refused[o] <= Cardinality(Tried(t)) + JustRefused(t)
    /\ at[o] # "batch" =>
         \/ refused[o] <= LastRefused(o)
         \/ \E t \in Current(o) : refused[o] <= LastRefused(o) + RefusalsOf(t)

LEMMA ClientOf ==
    ASSUME NEW o \in Runs, NEW n \in Indices(o)
    PROVE  Client(BatchTask(o, n)) = o
<1> DEFINE t == BatchTask(o, n)
<1>1. t \in TasksOf(o)
  BY DEF TasksOf
<1>2. \A p \in Runs : t \in TasksOf(p) => p = o
  BY BatchesDiffer DEF TasksOf
<1> QED
  BY <1>1, <1>2 DEF Client

LEMMA RefusalsNat ==
    ASSUME TypeOK, NEW t \in Tasks
    PROVE  RefusalsOf(t) \in Nat
<1>1. Len(req[t].refs) \in Nat /\ req[t].retries \in Nat
  BY RequestTypes
<1>2. \A m, n \in Nat : m * (n + 1) \in Nat
  OBVIOUS
<1> QED
  BY <1>1, <1>2 DEF RefusalsOf

\* A batch that has begun has not failed more often than its retries allow,
\* the attempt under way included.
LEMMA TriedBound ==
    ASSUME IInv, NEW t \in Tasks, Kind(t) = "batch", Started(t)
    PROVE  /\ IsFiniteSet(Tried(t)) /\ Cardinality(Tried(t)) \in Nat
           /\ Cardinality(Tried(t)) + JustRefused(t) <= RefusalsOf(t)
<1> DEFINE m == Len(req[t].refs)
           n == req[t].retries + 1
           box == (1 .. m) \X (1 .. n)
<1>1. m \in Nat /\ n \in Nat /\ Positions(t) = 1 .. m
  BY RequestTypes DEF IInv, Positions
<1>2. IsFiniteSet(box) /\ Cardinality(box) = m * n
  <2>1. ASSUME NEW k \in Nat PROVE IsFiniteSet(1 .. k) /\ Cardinality(1 .. k) = k
    <3>1. 1 \in Int /\ k \in Int
      OBVIOUS
    <3>2. IsFiniteSet(1 .. k) /\ Cardinality(1 .. k) = IF 1 > k THEN 0 ELSE k - 1 + 1
      BY <3>1, FS_Interval
    <3> QED
      BY <3>2
  <2> HIDE DEF m, n
  <2>2. /\ IsFiniteSet(1 .. m) /\ Cardinality(1 .. m) = m
        /\ IsFiniteSet(1 .. n) /\ Cardinality(1 .. n) = n
    BY <1>1, <2>1
  <2> DEFINE M == 1 .. m
             L == 1 .. n
  <2>3. IsFiniteSet(M) /\ Cardinality(M) = m /\ IsFiniteSet(L) /\ Cardinality(L) = n
    BY <2>2
  <2> HIDE DEF M, L
  <2>4. IsFiniteSet(M \X L) /\ Cardinality(M \X L) = Cardinality(M) * Cardinality(L)
    BY ONLY <2>3, FS_Product
  <2> QED
    BY <2>3, <2>4 DEF M, L, box
<1>3. ASSUME NEW i \in Positions(t)
      PROVE  queue[t].attempts[i] \in Nat /\ queue[t].attempts[i] <= n
             /\ (i \in InHand(t) => queue[t].attempts[i] < n)
  <2>1. i \in Waiting(t) \cup InHand(t) \cup Done(t) \cup Dead(t)
    BY DEF IInv, TaskInv, Covered
  <2>2. queue[t].attempts[i] \in Nat /\ req[t].retries \in Nat
    BY RequestTypes DEF IInv, QueueOf
  <2>3. InBudget(t) /\ TaskInv(t)
    BY DEF IInv, TaskInv
  <2>4. /\ i \in Range(queue[t].main) => queue[t].attempts[i] = 0
        /\ i \in Range(queue[t].retry) => queue[t].attempts[i] \in 1 .. req[t].retries
        /\ i \in Done(t) \cup InHand(t) => queue[t].attempts[i] <= req[t].retries
        /\ i \in Dead(t) => queue[t].attempts[i] = req[t].retries + 1
    BY <2>3 DEF InBudget
  <2>5. \/ i \in Range(queue[t].main) \/ i \in Range(queue[t].retry)
        \/ i \in Done(t) \cup InHand(t) \/ i \in Dead(t)
    BY <2>1 DEF Waiting
  <2> QED
    BY ONLY <2>2, <2>4, <2>5
<1>4. Tried(t) \subseteq box
  BY <1>1, <1>3 DEF Tried, Occurrences
<1>5. IsFiniteSet(Tried(t)) /\ Cardinality(Tried(t)) \in Nat
      /\ Cardinality(Tried(t)) <= m * n
  BY <1>2, <1>4, FS_Subset, FS_CardinalityType
<1>6. CASE JustRefused(t) = 0
  BY <1>5, <1>6 DEF RefusalsOf
<1>7. CASE JustRefused(t) # 0
  <2>1. pc[t] = "got" /\ JustRefused(t) = 1
    BY <1>7 DEF JustRefused
  <2>2. job[t] \in Positions(t) /\ job[t] \in InHand(t)
    BY <2>1, InHandTypes DEF InHand
  <2> DEFINE e == <<job[t], n>>
  <2>3. e \in box /\ e \notin Tried(t)
    <3>1. queue[t].attempts[job[t]] < n /\ queue[t].attempts[job[t]] \in Nat /\ n >= 1
      BY <1>1, <1>3, <2>2
    <3>2. e \in box
      BY <1>1, <2>2, <3>1
    <3>3. ASSUME NEW i \in Positions(t), e \in {i} \X (1 .. queue[t].attempts[i]) PROVE FALSE
      BY <1>1, <3>1, <3>3
    <3> QED
      BY <3>2, <3>3 DEF Tried, Occurrences
  <2> HIDE DEF e, box
  <2>4. IsFiniteSet(Tried(t) \cup {e}) /\ Cardinality(Tried(t) \cup {e}) = Cardinality(Tried(t)) + 1
    BY <1>5, <2>3, FS_AddElement
  <2>5. Cardinality(Tried(t) \cup {e}) <= m * n
    BY <1>2, <1>4, <2>3, FS_Subset
  <2> QED
    BY <2>1, <1>5, <2>4, <2>5 DEF RefusalsOf
<1> QED
  BY <1>5, <1>6, <1>7

\* A step that leaves the run and the batch it awaits alone.
LEMMA RefusalFrame ==
    ASSUME NEW p \in Runs, RefusalInv(p), req' = req,
           at'[p] = at[p], next'[p] = next[p], refused'[p] = refused[p],
           at[p] = "batch" =>
             LET t == BatchTask(p, next[p])
             IN  pc'[t] = pc[t] /\ outcome'[t] = outcome[t] /\ queue'[t] = queue[t]
    PROVE  RefusalInv(p)'
<1>1. /\ Current(p)' = Current(p) /\ LastRefused(p)' = LastRefused(p)
      /\ \A t : RefusalsOf(t)' = RefusalsOf(t)
  BY DEF Current, LastRefused, RefusalsOf
<1>2. CASE at[p] = "batch"
  <2> DEFINE t == BatchTask(p, next[p])
  <2>1. Tried(t)' = Tried(t) /\ JustRefused(t)' = JustRefused(t)
    BY <1>2 DEF Tried, JustRefused, Positions
  <2>2. BatchTask(p, next[p])' = t
    BY DEF BatchTask
  <2> HIDE DEF t
  <2> QED
    BY <1>2, <2>1, <2>2 DEF RefusalInv, t
<1>3. CASE at[p] # "batch"
  BY <1>1, <1>3 DEF RefusalInv
<1> QED
  BY <1>2, <1>3

\* What an answer does to the count of refusals.
LEMMA AnswerRefusals ==
    ASSUME OrgInv, NEW c \in Runs, NEW r, Answer(c, r)
    PROVE  /\ \A p \in Runs : refused[p] \in Nat
           /\ \A p \in Runs \ {c} : refused'[p] = refused[p]
           /\ r \in Payloads => refused'[c] = 0
           /\ r = "github_error" => refused'[c] \in {0, refused[c], refused[c] + 1}
           /\ r = "other_error" => refused'[c] \in {0, refused[c]}
<1>1. refused \in [Runs -> Nat]
  BY DEF OrgInv, OrgTypeOK
<1>2. CASE Served(c)
  BY <1>1, <1>2 DEF Served
<1>3. CASE Refused(c) /\ r = "github_error"
  BY <1>1, <1>3 DEF Refused, Payloads
<1>4. CASE Headless(c) /\ r = "github_error"
  BY <1>1, <1>4 DEF Headless, Payloads
<1>5. CASE NoAnswer /\ r = "other_error"
  BY <1>1, <1>5 DEF NoAnswer, github, Payloads
<1> QED
  BY <1>2, <1>3, <1>4, <1>5 DEF Answer

\* A step of discovery: only the GET that ends the run may be refused.
LEMMA DiscoveryRefusal ==
    ASSUME OrgInv, NEW o \in Runs, RefusalInv(o), req' = req, next'[o] = next[o],
           at[o] \notin {"batch", "refused"}, at'[o] # "batch", refused'[o] \in Nat,
           \/ refused'[o] = 0
           \/ /\ at'[o] \notin {"new", "org", "user", "list"}
              /\ refused'[o] <= refused[o] + LastRefused(o)'
    PROVE  RefusalInv(o)'
<1>1. Current(o)' = Current(o) /\ \A t : RefusalsOf(t)' = RefusalsOf(t)
  BY DEF Current, RefusalsOf
<1>2. LastRefused(o) = 0 /\ LastRefused(o)' \in Nat /\ refused[o] \in Nat
  BY DEF LastRefused, OrgInv, OrgTypeOK
<1>3. CASE refused'[o] = 0
  BY <1>2, <1>3 DEF RefusalInv
<1>4. CASE /\ at'[o] \notin {"new", "org", "user", "list"}
           /\ refused'[o] <= refused[o] + LastRefused(o)'
  <2>1. CASE refused[o] <= 0
    <3>1. refused'[o] <= LastRefused(o)'
      BY <1>2, <1>4, <2>1
    <3> QED
      BY <1>4, <3>1 DEF RefusalInv
  <2>2. CASE \E t \in Current(o) : refused[o] <= RefusalsOf(t)
    <3>1. PICK t \in Current(o) : refused[o] <= RefusalsOf(t)
      BY <2>2
    <3>2. RefusalsOf(t) \in Nat
      <4>1. t \in Tasks
        BY BatchTypes DEF Current
      <4> QED
        BY <4>1, RefusalsNat DEF OrgInv, IInv
    <3>3. refused'[o] <= LastRefused(o)' + RefusalsOf(t)
      BY <1>2, <1>4, <3>1, <3>2
    <3> QED
      BY <1>1, <1>4, <3>1, <3>3 DEF RefusalInv
  <2>3. \/ refused[o] <= 0
        \/ \E t \in Current(o) : refused[o] <= RefusalsOf(t)
    <3>1. \/ refused[o] <= LastRefused(o)
          \/ \E t \in Current(o) : refused[o] <= LastRefused(o) + RefusalsOf(t)
      BY DEF RefusalInv
    <3>2. ASSUME NEW t \in Current(o) PROVE RefusalsOf(t) \in Nat
      <4>1. t \in Tasks
        BY BatchTypes DEF Current
      <4> QED
        BY <4>1, RefusalsNat DEF OrgInv, IInv
    <3> QED
      BY <1>2, <3>1, <3>2
  <2> QED
    BY <2>1, <2>2, <2>3
<1> QED
  BY <1>3, <1>4

\* The batches that are not run o's are left alone by its own steps.
LEMMA DiscoverySteps ==
    ASSUME OrgInv, NEW o \in Runs, RefusalInv(o),
           \/ StartOrg(o) \/ StartRepo(o) \/ ReposListed(o) \/ NotAnOrg(o)
           \/ RepoInfo(o) \/ OrgFails(o) \/ OrgCrashes(o)
    PROVE  /\ RefusalInv(o)'
           /\ UNCHANGED <<pc, outcome, queue, req, next>>
           /\ \A p \in Runs \ {o} : at'[p] = at[p] /\ refused'[p] = refused[p]
<1>1. at \in [Runs -> Stages] /\ refused \in [Runs -> Nat]
  BY RunTypesOK DEF RunTypes, OrgInv, OrgTypeOK
<1>2. UNCHANGED <<pc, outcome, queue, req, next>>
  BY DEF StartOrg, StartRepo, ReposListed, NotAnOrg, RepoInfo, OrgFails, OrgCrashes,
         vars, control, work
<1>3. CASE StartOrg(o) \/ StartRepo(o)
  <2>1. /\ at[o] = "new" /\ refused' = refused
        /\ at' = [at EXCEPT ![o] = "org"] \/ at' = [at EXCEPT ![o] = "info"]
    BY <1>3 DEF StartOrg, StartRepo, github
  <2>2. refused'[o] = 0 /\ at'[o] # "batch"
    BY <1>1, <2>1 DEF RefusalInv
  <2> QED
    BY <1>1, <1>2, <2>1, <2>2, DiscoveryRefusal
<1>4. CASE ReposListed(o) \/ RepoInfo(o)
  <2>1. /\ Answer(o, "valid") /\ at[o] \in {"org", "user", "info"}
        /\ \E s \in {"answered", "info", "list"} : at' = [at EXCEPT ![o] = s]
    BY <1>4 DEF ReposListed, RepoInfo, Gets
  <2>2. refused'[o] = 0 /\ \A p \in Runs \ {o} : refused'[p] = refused[p]
    BY <2>1, AnswerRefusals DEF Payloads
  <2> QED
    BY <1>1, <1>2, <2>1, <2>2, DiscoveryRefusal
<1>5. CASE NotAnOrg(o)
  <2>1. /\ at[o] = "org" /\ at' = [at EXCEPT ![o] = "user"]
        /\ refused' = [refused EXCEPT ![o] = 0]
    BY <1>5 DEF NotAnOrg, Served
  <2> QED
    BY <1>1, <1>2, <2>1, DiscoveryRefusal
<1>6. CASE OrgFails(o)
  <2>1. /\ Answer(o, "github_error") /\ at[o] \in {"org", "user", "info", "list"}
        /\ at' = [at EXCEPT ![o] = "refused"]
    BY <1>6 DEF OrgFails, Gets
  <2>2. /\ refused'[o] \in {0, refused[o], refused[o] + 1} /\ refused[o] \in Nat
        /\ \A p \in Runs \ {o} : refused'[p] = refused[p]
    BY <2>1, AnswerRefusals
  <2>3. at'[o] = "refused" /\ LastRefused(o)' = 1
    BY <1>1, <2>1 DEF LastRefused
  <2>4. refused'[o] \in Nat /\ refused'[o] <= refused[o] + LastRefused(o)'
    BY <2>2, <2>3
  <2> QED
    BY <1>1, <1>2, <2>1, <2>2, <2>3, <2>4, DiscoveryRefusal
<1>7. CASE OrgCrashes(o)
  <2>1. /\ Answer(o, "other_error") /\ at[o] \in {"org", "user", "info", "list"}
        /\ at' = [at EXCEPT ![o] = "crashed"]
    BY <1>7 DEF OrgCrashes, Gets
  <2>2. /\ refused'[o] \in {0, refused[o]} /\ refused[o] \in Nat
        /\ \A p \in Runs \ {o} : refused'[p] = refused[p]
    BY <2>1, AnswerRefusals
  <2>3. at'[o] = "crashed" /\ LastRefused(o)' = 0
    BY <1>1, <2>1 DEF LastRefused
  <2>4. refused'[o] \in Nat /\ refused'[o] <= refused[o] + LastRefused(o)'
    BY <2>2, <2>3
  <2> QED
    BY <1>1, <1>2, <2>1, <2>2, <2>3, <2>4, DiscoveryRefusal
<1> QED
  BY <1>3, <1>4, <1>5, <1>6, <1>7

\* A step of one run or of one of its batches leaves the other runs alone.
LEMMA OtherRefusals ==
    ASSUME OrgInv, NEW o \in Runs, NEW k \in Indices(o), NEW p \in Runs, p # o,
           RefusalInv(p), req' = req,
           at'[p] = at[p], next'[p] = next[p], refused'[p] = refused[p],
           \A u \in Tasks \ {BatchTask(o, k)} :
               pc'[u] = pc[u] /\ outcome'[u] = outcome[u] /\ queue'[u] = queue[u]
    PROVE  RefusalInv(p)'
<1>1. CASE at[p] = "batch"
  <2>1. next[p] \in Indices(p)
    BY <1>1, Position
  <2>2. BatchTask(p, next[p]) \in Tasks \ {BatchTask(o, k)}
    BY <2>1, OtherBatch
  <2> QED
    BY <2>2, RefusalFrame
<1>2. CASE at[p] # "batch"
  BY <1>2, RefusalFrame
<1> QED
  BY <1>1, <1>2

\* The batch of the run starts: with an answer that was served.
LEMMA ListedRefusal ==
    ASSUME OrgInv, NEW o \in Runs, CommitsListed(o), \A p \in Runs : RefusalInv(p)
    PROVE  \A p \in Runs : RefusalInv(p)'
<1> DEFINE k == next[o]
<1>0. PICK t : t = BatchTask(o, k)
  OBVIOUS
<1>1. /\ at[o] = "list" /\ Answer(o, "valid") /\ Start(t)
      /\ at' = [at EXCEPT ![o] = "batch"] /\ next' = next
  BY <1>0 DEF CommitsListed, Gets
<1>2. k \in Indices(o) /\ t \in Tasks /\ IInv /\ TypeOK
  BY <1>0, <1>1, Position DEF OrgInv, IInv
<1>3. /\ req' = req /\ outcome' = outcome /\ pc' = [pc EXCEPT ![t] = "pick"]
      /\ queue' = [queue EXCEPT ![t] =
                      EnqueueMany(EmptyQueue(Jobs), [i \in Positions(t) |-> i])]
  BY <1>1 DEF Start
<1>4. /\ \A p \in Runs \ {o} : refused'[p] = refused[p] /\ at'[p] = at[p]
      /\ refused'[o] = 0 /\ at'[o] = "batch"
  BY <1>1, AnswerRefusals, RunTypesOK DEF Payloads, RunTypes
<1>5. /\ \A u \in Tasks \ {t} : pc'[u] = pc[u] /\ queue'[u] = queue[u]
      /\ pc'[t] = "pick" /\ \A i \in Positions(t) : queue'[t].attempts[i] = 0
      /\ Positions(t)' = Positions(t)
  BY <1>2, <1>3, StartQueue, RequestTypes DEF TypeOK, Positions
<1>6. Cardinality(Tried(t)') = 0 /\ JustRefused(t)' = 0
  <2>1. Tried(t)' = {}
    <3>1. Tried(t)' = Occurrences(queue'[t].attempts, Positions(t))
      BY <1>5 DEF Tried, Occurrences
    <3> QED
      BY <1>5, <3>1, NoOccurrences
  <2>2. Cardinality({}) = 0
    BY FS_EmptySet
  <2> QED
    BY <1>5, <2>1, <2>2 DEF JustRefused
<1>7. RefusalInv(o)'
  <2>1. BatchTask(o, next[o])' = t
    BY <1>0, <1>1 DEF BatchTask
  <2>2. (Cardinality(Tried(t)) + JustRefused(t))' = 0
    BY <1>6
  <2> QED
    BY <1>4, <2>1, <2>2 DEF RefusalInv
<1> QED
  BY <1>0, <1>1, <1>2, <1>3, <1>4, <1>5, <1>7, OtherRefusals

\* The batch ends: what was refused within it was within its retries.
LEMMA EndRefusal ==
    ASSUME OrgInv, AllBatches, NEW o \in Runs, FinishBatch(o) \/ CrashBatch(o),
           \A p \in Runs : RefusalInv(p)
    PROVE  \A p \in Runs : RefusalInv(p)'
<1> DEFINE k == next[o]
<1>0. PICK t : t = BatchTask(o, k)
  OBVIOUS
<1>1. /\ at[o] = "batch"
      /\ Finish(t) \/ Crash(t)
      /\ k \in Indices(o) /\ k \in Nat /\ t \in Tasks
  BY <1>0, Position DEF FinishBatch, CrashBatch
<1>2. /\ req' = req /\ queue' = queue /\ outcome' = outcome /\ refused' = refused
      /\ \E x : pc' = [pc EXCEPT ![t] = x]
  BY <1>1 DEF Finish, Crash, work, FinishBatch, CrashBatch, github
<1>3. /\ \A p \in Runs \ {o} : at'[p] = at[p] /\ next'[p] = next[p]
      /\ at'[o] \in {"info", "answered", "crashed"}
      /\ next'[o] \in {k, k + 1}
  BY RunTypesOK DEF FinishBatch, CrashBatch, RunTypes, NextBatch
<1>4. \A u \in Tasks \ {t} : pc'[u] = pc[u]
  BY <1>2, TaskDomain
<1>5. refused[o] <= RefusalsOf(t)
  <2>1. refused[o] <= Cardinality(Tried(t)) + JustRefused(t)
    BY <1>0, <1>1 DEF RefusalInv
  <2>2. Started(t) /\ Kind(t) = "batch"
    BY <1>1 DEF Started, Finish, Crash, Got, AllBatches
  <2>3. /\ Cardinality(Tried(t)) \in Nat
        /\ Cardinality(Tried(t)) + JustRefused(t) <= RefusalsOf(t)
    BY <1>1, <2>2, TriedBound DEF OrgInv
  <2>4. JustRefused(t) \in Nat /\ RefusalsOf(t) \in Nat /\ refused[o] \in Nat
    BY <1>1, RefusalsNat DEF JustRefused, OrgInv, IInv, OrgTypeOK
  <2> QED
    BY <2>1, <2>3, <2>4
<1>6. RefusalInv(o)'
  <2>1. RefusalsOf(t)' = RefusalsOf(t) /\ LastRefused(o)' = 0 /\ RefusalsOf(t) \in Nat
    BY <1>1, <1>2, <1>3, RefusalsNat DEF RefusalsOf, LastRefused, OrgInv, IInv
  <2>2. refused'[o] <= LastRefused(o)' + RefusalsOf(t)'
    BY <1>2, <1>5, <2>1
  <2>3. t \in Current(o)'
    <3>1. k \in {next'[o] - 1, next'[o]}
      BY <1>1, <1>3
    <3> QED
      BY <1>0, <1>1, <3>1 DEF Current, BatchTask, Indices
  <2> QED
    BY <1>3, <2>2, <2>3 DEF RefusalInv
<1> QED
  BY <1>0, <1>1, <1>2, <1>3, <1>4, <1>6, OtherRefusals

\* One attempt more of one commit.
LEMMA OneTriedMore ==
    ASSUME IInv, NEW t \in Tasks, Kind(t) = "batch", Fail(t)
    PROVE  Cardinality(Tried(t)') = Cardinality(Tried(t)) + 1
<1> DEFINE j == job[t]
           n == req[t].retries
<1>1. /\ pc[t] = "got" /\ req' = req
      /\ queue' = [queue EXCEPT ![t] = MarkFailed(queue[t], j, n)]
  BY DEF Fail, Got
<1>2. /\ j \in Positions(t) /\ j \in Jobs /\ queue[t] \in QueueOf(Jobs)
      /\ queue[t].attempts \in [Jobs -> Nat] /\ Positions(t) \subseteq Jobs
  BY <1>1, InHandTypes, RequestTypes DEF QueueOf, IInv
<1>3. queue'[t].attempts = [queue[t].attempts EXCEPT ![j] = @ + 1]
  <2>1. queue'[t] = MarkFailed(queue[t], j, n)
    BY <1>1 DEF IInv, TypeOK
  <2> QED
    BY <1>2, <2>1 DEF MarkFailed, QueueOf
<1> DEFINE f == queue[t].attempts
           g == queue'[t].attempts
<1>4. /\ f[j] \in Nat /\ g[j] = f[j] + 1
      /\ \A i \in Positions(t) \ {j} : g[i] = f[i]
  BY <1>2, <1>3
<1>5. /\ Tried(t) = Occurrences(f, Positions(t)) /\ Tried(t)' = Occurrences(g, Positions(t))
  BY <1>1 DEF Tried, Occurrences, Positions
<1>6. IsFiniteSet(Occurrences(f, Positions(t)))
  <2>1. Started(t)
    BY <1>1 DEF Started
  <2> QED
    BY <1>5, <2>1, TriedBound
<1> HIDE DEF f, g, j
<1> QED
  BY <1>2, <1>4, <1>5, <1>6, OneOccurrenceMore

\* A step within the batch: a GET that is refused is a failed attempt.
LEMMA TaskRefusal ==
    ASSUME OrgInv, AllBatches, NEW t \in Tasks, TaskStep(t), \A p \in Runs : RefusalInv(p)
    PROVE  \A p \in Runs : RefusalInv(p)'
<1>1. PICK o \in Runs : \E n \in Indices(o) : t = BatchTask(o, n)
  BY TaskOfRun
<1>2. PICK k \in Indices(o) : t = BatchTask(o, k)
  BY <1>1
<1>3. UNCHANGED <<at, next>> /\ Client(t) = o
  BY <1>2, ClientOf DEF TaskStep, AnswerTask, LocalStep, run
<1>4. /\ pc[t] \in {"pick", "wait", "got"}
      /\ \E x \in {"pick", "wait", "got"} : pc' = [pc EXCEPT ![t] = x]
      /\ req' = req
  BY DEF TaskStep, AnswerTask, LocalStep, Local, Reply, Fetch, FromCache, TakeJob,
         Succeed, Fail, Got
<1>5. k = next[o] /\ at[o] = "batch"
  BY <1>2, <1>4, Awaited
<1>6. /\ IInv /\ TypeOK /\ Started(t) /\ Kind(t) = "batch"
      /\ refused \in [Runs -> Nat]
  BY <1>4 DEF OrgInv, IInv, OrgTypeOK, Started, AllBatches
<1>7. /\ refused[o] <= Cardinality(Tried(t)) + JustRefused(t)
      /\ Cardinality(Tried(t)) \in Nat /\ JustRefused(t) \in {0, 1}
      /\ refused[o] \in Nat
  BY <1>2, <1>5, <1>6, TriedBound DEF RefusalInv, JustRefused
<1>8. /\ \A p \in Runs \ {o} : refused'[p] = refused[p]
      /\ \A u \in Tasks \ {t} : /\ pc'[u] = pc[u] /\ outcome'[u] = outcome[u]
                                /\ queue'[u] = queue[u]
      /\ refused'[o] <= Cardinality(Tried(t)') + JustRefused(t)'
  <2>0. JustRefused(t)' \in {0, 1}
    BY DEF JustRefused
  <2>1. CASE AnswerTask(t)
    <3>1. PICK r \in Outcomes :
            /\ outcome' = [outcome EXCEPT ![t] = r]
            /\ pc[t] = "wait" /\ pc' = [pc EXCEPT ![t] = "got"] /\ queue' = queue
      BY <2>1 DEF AnswerTask, Reply
    <3>2. outcome'[t] = r /\ pc'[t] = "got"
      BY <1>6, <3>1 DEF TypeOK
    <3>3. Answer(o, r)
      BY <1>3, <2>1, <3>2 DEF AnswerTask
    <3>4. /\ \A p \in Runs \ {o} : refused'[p] = refused[p]
          /\ refused'[o] \in Nat
          /\ r = "github_error" => refused'[o] <= refused[o] + 1
          /\ r # "github_error" => refused'[o] <= refused[o]
      BY <1>7, <3>3, AnswerRefusals DEF Outcomes
    <3>5. /\ Tried(t)' = Tried(t) /\ JustRefused(t) = 0
          /\ JustRefused(t)' = IF r = "github_error" THEN 1 ELSE 0
      BY <1>4, <3>1, <3>2 DEF Tried, JustRefused, Positions
    <3>6. refused'[o] <= Cardinality(Tried(t)') + JustRefused(t)'
      BY <1>7, <3>4, <3>5
    <3> QED
      BY <1>6, <3>1, <3>4, <3>6 DEF TypeOK
  <2>2. CASE (FromCache(t) \/ Fetch(t)) /\ UNCHANGED github
    <3>1. /\ pc[t] = "pick" /\ refused' = refused
          /\ queue' = [queue EXCEPT ![t] = Dequeue(@)]
          /\ outcome' = outcome \/ \E x : outcome' = [outcome EXCEPT ![t] = x]
      BY <2>2 DEF FromCache, Fetch, TakeJob, github
    <3>2. queue[t] \in QueueOf(Jobs) /\ queue'[t] = Dequeue(queue[t])
      BY <1>6, <3>1 DEF TypeOK
    <3>3. queue'[t].attempts = queue[t].attempts
      BY <3>2 DEF Dequeue, QueueOf
    <3>4. Tried(t)' = Tried(t) /\ JustRefused(t) = 0
      BY <1>4, <3>1, <3>3 DEF Tried, JustRefused, Positions, Occurrences
    <3>5. refused'[o] <= Cardinality(Tried(t)') + JustRefused(t)'
      BY <1>7, <2>0, <3>1, <3>4
    <3> QED
      BY <1>4, <1>6, <3>1, <3>5 DEF TypeOK
  <2>3. CASE Succeed(t) /\ UNCHANGED github
    <3>1. /\ pc[t] = "got" /\ outcome[t] = "valid" /\ refused' = refused
          /\ queue' = queue /\ outcome' = outcome
      BY <2>3 DEF Succeed, Got, github
    <3>2. Tried(t)' = Tried(t) /\ JustRefused(t) = 0
      BY <1>4, <3>1 DEF Tried, JustRefused, Positions
    <3>3. refused'[o] <= Cardinality(Tried(t)') + JustRefused(t)'
      BY <1>7, <2>0, <3>1, <3>2
    <3> QED
      BY <1>4, <1>6, <3>1, <3>3 DEF TypeOK
  <2>4. CASE Fail(t) /\ UNCHANGED github
    <3>1. /\ refused' = refused /\ outcome' = outcome
          /\ \E q : queue' = [queue EXCEPT ![t] = q]
      BY <2>4 DEF Fail, github
    <3>2. Cardinality(Tried(t)') = Cardinality(Tried(t)) + 1
      BY <1>6, <2>4, OneTriedMore
    <3>3. refused'[o] <= Cardinality(Tried(t)') + JustRefused(t)'
      BY <1>7, <2>0, <3>1, <3>2
    <3> QED
      BY <1>4, <1>6, <3>1, <3>3 DEF TypeOK
  <2> QED
    BY <2>1, <2>2, <2>3, <2>4 DEF TaskStep, LocalStep, Local
<1>9. RefusalInv(o)'
  <2>1. BatchTask(o, next[o])' = t /\ at'[o] = "batch"
    BY <1>2, <1>3, <1>5 DEF BatchTask
  <2> QED
    BY <1>8, <2>1 DEF RefusalInv
<1> QED
  BY <1>2, <1>3, <1>4, <1>8, <1>9, OtherRefusals

LEMMA NextRefusal ==
    ASSUME OrgInv, AllBatches, [OrgNext]_orgVars, \A p \in Runs : RefusalInv(p)
    PROVE  \A p \in Runs : RefusalInv(p)'
<1>1. CASE UNCHANGED orgVars \/ Reset
  <2>1. UNCHANGED <<req, pc, outcome, queue, at, next, refused>>
    BY <1>1 DEF orgVars, Reset, vars, control, work, run, github
  <2> QED
    BY <2>1, RefusalFrame
<1>2. ASSUME NEW o \in Runs,
             \/ StartOrg(o) \/ StartRepo(o) \/ ReposListed(o) \/ NotAnOrg(o)
             \/ RepoInfo(o) \/ OrgFails(o) \/ OrgCrashes(o)
      PROVE  \A p \in Runs : RefusalInv(p)'
  <2>1. /\ RefusalInv(o)'
        /\ UNCHANGED <<pc, outcome, queue, req, next>>
        /\ \A p \in Runs \ {o} : at'[p] = at[p] /\ refused'[p] = refused[p]
    BY <1>2, DiscoverySteps
  <2>2. ASSUME NEW p \in Runs \ {o} PROVE RefusalInv(p)'
    BY <2>1, <2>2, RefusalFrame
  <2> QED
    BY <2>1, <2>2
<1> QED
  BY <1>1, <1>2, ListedRefusal, EndRefusal, TaskRefusal DEF OrgNext, OrgStep

\* The largest of at most two numbers.
LEMMA MaxOfTwo ==
    ASSUME NEW a \in Nat, NEW b \in Nat, NEW S \in SUBSET {a, b}, NEW x \in S
    PROVE  x <= Max(S) /\ Max(S) \in Nat
<1>1. \E y \in S : \A z \in S : y >= z
  OBVIOUS
<1>2. Max(S) \in S /\ \A z \in S : Max(S) >= z
  BY <1>1 DEF Max
<1> QED
  BY <1>2

LEMMA RefusalConsequence ==
    ASSUME OrgInv, AllBatches, \A p \in Runs : RefusalInv(p)
    PROVE  RefusalsBounded
<1> SUFFICES ASSUME NEW o \in Runs
             PROVE  refused[o] <= IF Current(o) = {} THEN 1
                                  ELSE 1 + Max({RefusalsOf(t) : t \in Current(o)})
  BY DEF RefusalsBounded
<1>1. /\ refused[o] \in Nat /\ LastRefused(o) \in {0, 1} /\ RefusalInv(o)
      /\ next[o] \in Nat \ {0} /\ TypeOK
  BY DEF OrgInv, OrgTypeOK, LastRefused, IInv
<1>2. ASSUME NEW t \in Current(o) PROVE t \in Tasks /\ RefusalsOf(t) \in Nat
  <2>1. t \in Tasks
    BY BatchTypes DEF Current
  <2> QED
    BY <1>1, <2>1, RefusalsNat
<1>3. refused[o] <= 1 \/ \E t \in Current(o) : refused[o] <= 1 + RefusalsOf(t)
  <2>1. CASE at[o] = "batch"
    <3>1. PICK t : t = BatchTask(o, next[o])
      OBVIOUS
    <3>2. next[o] \in Indices(o) /\ t \in Tasks /\ t \in Current(o)
      BY <2>1, <3>1, Position DEF Current
    <3>3. Started(t) /\ Kind(t) = "batch"
      BY <2>1, <3>1, <3>2 DEF OrgInv, RunInv, BatchInOrder, Started, AllBatches
    <3>4. /\ Cardinality(Tried(t)) \in Nat /\ JustRefused(t) \in {0, 1}
          /\ Cardinality(Tried(t)) + JustRefused(t) <= RefusalsOf(t)
      BY <3>2, <3>3, TriedBound DEF OrgInv, JustRefused
    <3>5. refused[o] <= Cardinality(Tried(t)) + JustRefused(t)
      BY <1>1, <2>1, <3>1 DEF RefusalInv
    <3>6. refused[o] <= 1 + RefusalsOf(t)
      BY <1>1, <1>2, <3>2, <3>4, <3>5
    <3> QED
      BY <3>2, <3>6
  <2>2. CASE at[o] # "batch"
    <3>1. CASE refused[o] <= LastRefused(o)
      BY <1>1, <3>1
    <3>2. CASE \E t \in Current(o) : refused[o] <= LastRefused(o) + RefusalsOf(t)
      <4>1. PICK t \in Current(o) : refused[o] <= LastRefused(o) + RefusalsOf(t)
        BY <3>2
      <4>2. refused[o] <= 1 + RefusalsOf(t)
        BY <1>1, <1>2, <4>1
      <4> QED
        BY <4>2
    <3> QED
      BY <1>1, <2>2, <3>1, <3>2 DEF RefusalInv
  <2> QED
    BY <2>1, <2>2
<1>4. CASE Current(o) = {}
  BY <1>3, <1>4
<1>5. ASSUME NEW t \in Current(o)
      PROVE  /\ RefusalsOf(t) <= Max({RefusalsOf(u) : u \in Current(o)})
             /\ Max({RefusalsOf(u) : u \in Current(o)}) \in Nat
  <2> DEFINE S == {RefusalsOf(u) : u \in Current(o)}
             x == BatchTask(o, next[o] - 1)
             y == BatchTask(o, next[o])
  <2>1. PICK a \in Nat, b \in Nat : S \subseteq {a, b}
    <3>1. Current(o) \subseteq {x, y}
      BY DEF Current
    <3>2. CASE x \in Current(o) /\ y \in Current(o)
      BY <1>2, <3>1, <3>2, SMTT(30)
    <3>3. CASE x \notin Current(o)
      <4>1. S \subseteq {RefusalsOf(t), RefusalsOf(t)}
        BY <3>1, <3>3
      <4> QED
        BY <1>2, <4>1
    <3>4. CASE y \notin Current(o)
      <4>1. S \subseteq {RefusalsOf(t), RefusalsOf(t)}
        BY <3>1, <3>4
      <4> QED
        BY <1>2, <4>1
    <3> QED
      BY <3>2, <3>3, <3>4
  <2>2. RefusalsOf(t) \in S
    OBVIOUS
  <2> HIDE DEF S
  <2>3. RefusalsOf(t) <= Max(S) /\ Max(S) \in Nat
    BY <2>1, <2>2, MaxOfTwo
  <2> QED
    BY <2>3 DEF S
<1>6. CASE Current(o) # {}
  <2>1. PICK t \in Current(o) : refused[o] <= 1 + RefusalsOf(t)
    <3>1. PICK u \in Current(o) : TRUE
      BY <1>6
    <3>2. CASE refused[o] <= 1
      <4>1. refused[o] <= 1 + RefusalsOf(u)
        BY <1>1, <1>2, <3>2
      <4> QED
        BY <4>1
    <3> QED
      BY <1>3, <3>2
  <2> QED
    BY <1>1, <1>2, <1>5, <1>6, <2>1
<1> QED
  BY <1>4, <1>6

RefusalsInv == OrgInv /\ AllBatches /\ \A o \in Runs : RefusalInv(o)

\* For any quota, retries and listings, a client is refused no more often in a
\* row than the retries of one batch allow, and once more by discovery.
THEOREM RefusalsLimited == OrgSpec => []RefusalsBounded
<1>1. OrgInit => RefusalsInv
  <2> SUFFICES ASSUME OrgInit PROVE RefusalsInv
    OBVIOUS
  <2>1. OrgInv
    BY InitOrgInv
  <2>2. ASSUME NEW t \in Tasks PROVE Kind(t) = "batch"
    BY TaskOfRun DEF OrgInit
  <2>3. ASSUME NEW o \in Runs PROVE RefusalInv(o)
    <3>1. at[o] = "new" /\ refused[o] = 0
      BY DEF OrgInit
    <3> QED
      BY <3>1 DEF RefusalInv, LastRefused
  <2> QED
    BY <2>1, <2>2, <2>3 DEF RefusalsInv, AllBatches
<1>2. RefusalsInv /\ [OrgNext]_orgVars => RefusalsInv'
  <2> SUFFICES ASSUME RefusalsInv, [OrgNext]_orgVars PROVE RefusalsInv'
    OBVIOUS
  <2>1. OrgInv' /\ req' = req
    BY NextOrgInv, EngineStep, ReqConstant DEF RefusalsInv
  <2>2. AllBatches'
    BY <2>1 DEF RefusalsInv, AllBatches, Kind
  <2>3. \A o \in Runs : RefusalInv(o)'
    BY NextRefusal DEF RefusalsInv
  <2> QED
    BY <2>1, <2>2, <2>3 DEF RefusalsInv
<1>3. RefusalsInv => RefusalsBounded
  BY RefusalConsequence DEF RefusalsInv
<1> QED
  BY <1>1, <1>2, <1>3, PTL DEF OrgSpec

=============================================================================
