---------------------------- MODULE EngineProofs ----------------------------
(***************************************************************************)
(* The engine keeps every commit accounted for and every retry budget, for *)
(* any number of concurrent requests, commits and retries.  Each request   *)
(* fulfils the job contract, stores and results agree, nothing the cache   *)
(* has is asked for again, a request keeps the order of its commits, the   *)
(* status of a batch is true, and counters, error records and processed    *)
(* counts add up.                                                          *)
(***************************************************************************)
EXTENDS EngineProperties, ListLemmas, FiniteSetTheorems

\* The part of the invariant that is about one request.
Places(t) ==
    /\ NoRepeats(queue[t]) /\ IsInjective(commits[t])
    /\ Waiting(t) \cap InHand(t) = {} /\ Waiting(t) \cap Done(t) = {}
    /\ Waiting(t) \cap Dead(t) = {} /\ InHand(t) \cap Done(t) = {}
    /\ InHand(t) \cap Dead(t) = {} /\ Done(t) \cap Dead(t) = {}

Covered(t) ==
    Started(t) =>
      /\ Waiting(t) \cup InHand(t) \cup Done(t) \cup Dead(t) \subseteq Positions(t)
      /\ Kind(t) = "batch" =>
           Positions(t) \subseteq Waiting(t) \cup InHand(t) \cup Done(t) \cup Dead(t)

InBudget(t) ==
    /\ \A i \in Range(queue[t].main) : queue[t].attempts[i] = 0
    /\ \A i \in Range(queue[t].retry) : queue[t].attempts[i] \in 1 .. req[t].retries
    /\ \A i \in Done(t) \cup InHand(t) : queue[t].attempts[i] <= req[t].retries
    /\ \A i \in Dead(t) : queue[t].attempts[i] = req[t].retries + 1

TaskInv(t) ==
    /\ Places(t) /\ Covered(t) /\ InBudget(t)
    /\ ~Started(t) => commits[t] = <<>>

IInv == TypeOK /\ \A t \in Tasks : TaskInv(t)

\* What an invariant says of the properties the runs check.
LEMMA Consequences == IInv => JobsAccounted /\ RetryBudget
<1> SUFFICES ASSUME IInv PROVE JobsAccounted /\ RetryBudget
  OBVIOUS
<1>1. \A t \in Tasks : Places(t) /\ Covered(t) /\ InBudget(t)
  BY DEF IInv, TaskInv
<1>2. \A t \in Tasks : Kind(t) = "batch" => Dropped(t) = {}
  BY <1>1 DEF Covered, Dropped
<1>3. JobsAccounted
  BY <1>1, <1>2 DEF JobsAccounted, Places, Covered, NoRepeats
<1>4. RetryBudget
  BY <1>1 DEF RetryBudget, InBudget
<1> QED
  BY <1>3, <1>4

\* A request whose own state does not change keeps its part.
LEMMA Frame ==
    ASSUME NEW u \in Tasks, TaskInv(u),
           req'[u] = req[u], pc'[u] = pc[u], queue'[u] = queue[u],
           job'[u] = job[u], commits'[u] = commits[u]
    PROVE  TaskInv(u)'
<1>1. /\ Waiting(u)' = Waiting(u) /\ InHand(u)' = InHand(u)
      /\ Done(u)' = Done(u) /\ Dead(u)' = Dead(u)
      /\ Positions(u)' = Positions(u) /\ Started(u)' = Started(u)
      /\ Kind(u)' = Kind(u)
  BY DEF Waiting, InHand, Done, Dead, Positions, Started, Kind
<1>2. Places(u)'
  BY <1>1 DEF TaskInv, Places
<1>3. Covered(u)'
  BY <1>1 DEF TaskInv, Covered
<1>4. InBudget(u)'
  BY <1>1 DEF TaskInv, InBudget
<1> QED
  BY <1>1, <1>2, <1>3, <1>4 DEF TaskInv

\* The jobs of a request, and the queue a request starts with.
LEMMA RequestTypes ==
    ASSUME TypeOK, NEW t \in Tasks
    PROVE  /\ req[t] \in Requests /\ req[t].retries \in Nat
           /\ Len(req[t].refs) \in Nat /\ Positions(t) \subseteq Jobs
           /\ Repo(t) \in Repos /\ \A i \in Positions(t) : RefAt(t, i) \in Refs
           /\ queue[t] \in QueueOf(Jobs)
<1>1. req[t] \in Requests /\ queue[t] \in QueueOf(Jobs)
  BY DEF TypeOK
<1>2. req[t].refs \in Seq(Refs) /\ Len(req[t].refs) <= MaxBatch /\ MaxBatch \in Nat
  BY <1>1, EngineAssumption
<1>3. Len(req[t].refs) \in Nat /\ \A i \in 1 .. Len(req[t].refs) : req[t].refs[i] \in Refs
  BY <1>2, LenProperties, ElementOfSeq
<1> QED
  BY <1>1, <1>2, <1>3, EngineAssumption DEF Positions, Jobs, Repo, RefAt

LEMMA StartQueue ==
    ASSUME TypeOK, NEW t \in Tasks
    PROVE  LET s == [i \in Positions(t) |-> i]
               q == EnqueueMany(EmptyQueue(Jobs), s)
           IN  /\ q \in QueueOf(Jobs) /\ NoRepeats(q)
               /\ Range(q.main) = Positions(t)
               /\ Range(q.retry) = {} /\ Range(q.dead) = {}
               /\ \A i \in Jobs : q.attempts[i] = 0
<1> DEFINE s == [i \in Positions(t) |-> i]
           q == EnqueueMany(EmptyQueue(Jobs), s)
<1>1. Len(req[t].refs) \in Nat /\ Positions(t) \subseteq Jobs
  BY RequestTypes
<1>2. s \in Seq(Jobs) /\ IsInjective(s) /\ Range(s) = Positions(t)
  <2>1. s \in Seq(Jobs)
    BY <1>1, IsASeq DEF Positions
  <2> QED
    BY <2>1 DEF IsInjective, Range
<1>3. <<>> \o s = s
  BY <1>2, ConcatEmptySeq
<1>4. /\ q.main = s /\ q.retry = <<>> /\ q.dead = <<>>
      /\ q.attempts = [j \in Jobs |-> 0] /\ q \in QueueOf(Jobs)
  BY <1>2, <1>3, EmptyLemma DEF EnqueueMany, EmptyQueue, QueueOf
<1> QED
  BY <1>2, <1>4, EmptyLemma DEF NoRepeats

\* A step of request t that keeps the types and its own part keeps everything.
LEMMA OneTask ==
    ASSUME IInv, NEW t \in Tasks, TypeOK', TaskInv(t)', req' = req,
           \A u \in Tasks \ {t} : /\ pc'[u] = pc[u] /\ queue'[u] = queue[u]
                                  /\ job'[u] = job[u] /\ commits'[u] = commits[u]
    PROVE  IInv'
<1>1. ASSUME NEW u \in Tasks \ {t} PROVE TaskInv(u)'
  <2>1. TaskInv(u) /\ u \in Tasks
    BY DEF IInv
  <2> QED
    BY <2>1, Frame
<1> QED
  BY <1>1 DEF IInv

LEMMA InitInv == Init => IInv
<1> SUFFICES ASSUME Init PROVE IInv
  OBVIOUS
<1>1. EmptyQueue(Jobs) \in QueueOf(Jobs) /\ NoRepeats(EmptyQueue(Jobs))
  BY EmptyLemma DEF EmptyQueue, QueueOf, NoRepeats
<1>2. EmptyCache \in [Keys -> Payloads \cup {Miss}]
  BY DEF EmptyCache
<1>3. TypeOK
  BY <1>1, <1>2, EmptyLemma, EngineAssumption
  DEF Init, TypeOK, Outcomes, Payloads, Jobs
<1>4. ASSUME NEW t \in Tasks PROVE TaskInv(t)
  <2>1. /\ queue[t] = EmptyQueue(Jobs) /\ commits[t] = <<>> /\ pc[t] = "new"
    BY DEF Init
  <2>2. /\ Waiting(t) = {} /\ InHand(t) = {} /\ Done(t) = {} /\ Dead(t) = {}
        /\ ~Started(t)
    BY <2>1, EmptyLemma DEF Waiting, InHand, Done, Dead, Started, EmptyQueue
  <2>3. InBudget(t)
    BY <2>1, <2>2 DEF InBudget, Waiting, EmptyQueue
  <2> QED
    BY <1>1, <2>1, <2>2, <2>3, EmptyLemma DEF TaskInv, Places, Covered
<1> QED
  BY <1>3, <1>4 DEF IInv

LEMMA StartInv ==
    ASSUME IInv, NEW t \in Tasks, Start(t)
    PROVE  IInv'
<1> DEFINE q == EnqueueMany(EmptyQueue(Jobs), [i \in Positions(t) |-> i])
<1>1. /\ TypeOK /\ TaskInv(t) /\ pc[t] = "new"
      /\ running' = t /\ req' = req
      /\ pc' = [pc EXCEPT ![t] = "pick"] /\ queue' = [queue EXCEPT ![t] = q]
      /\ cacheOf' = [cacheOf EXCEPT ![t] = ClientCache(t)]
      /\ UNCHANGED <<job, outcome, commits, status, cache, raw, metadata, lastSha,
                     processed, counters, errors>>
  BY DEF IInv, Start, stores, telemetry
<1>2. /\ q \in QueueOf(Jobs) /\ NoRepeats(q) /\ Range(q.main) = Positions(t)
      /\ Range(q.retry) = {} /\ Range(q.dead) = {}
      /\ \A i \in Jobs : q.attempts[i] = 0
      /\ Positions(t) \subseteq Jobs
  BY <1>1, StartQueue, RequestTypes
<1> HIDE DEF q
<1>3. TypeOK'
  BY <1>1, <1>2 DEF TypeOK, ClientCache
<1>4. queue'[t] = q /\ pc'[t] = "pick" /\ commits'[t] = <<>>
  BY <1>1 DEF TypeOK, TaskInv, Started
<1>5. /\ Waiting(t)' = Positions(t) /\ InHand(t)' = {} /\ Done(t)' = {}
      /\ Dead(t)' = {} /\ Positions(t)' = Positions(t)
  BY <1>1, <1>2, <1>4, EmptyLemma DEF Waiting, InHand, Done, Dead, Positions
<1>6. TaskInv(t)'
  <2>1. Places(t)'
    BY <1>2, <1>4, <1>5, EmptyLemma DEF Places
  <2>2. Covered(t)'
    BY <1>5 DEF Covered
  <2>3. InBudget(t)'
    BY <1>2, <1>4, <1>5 DEF InBudget
  <2> QED
    BY <1>4, <2>1, <2>2, <2>3 DEF TaskInv, Started
<1> QED
  BY <1>1, <1>3, <1>6, OneTask DEF TypeOK

\* next_job moves a waiting job into the hand of the request.
LEMMA TakeJobInv ==
    ASSUME IInv, NEW t \in Tasks, TakeJob(t), req' = req, commits' = commits,
           pc'[t] \in {"wait", "got"}
    PROVE  /\ TaskInv(t)'
           /\ queue' \in [Tasks -> QueueOf(Jobs)]
           /\ job' \in [Tasks -> 0 .. MaxBatch]
           /\ job'[t] \in Positions(t)
           /\ \A u \in Tasks \ {t} : queue'[u] = queue[u] /\ job'[u] = job[u]
<1>1. /\ TypeOK /\ TaskInv(t) /\ pc[t] = "pick" /\ ~IsEmpty(queue[t])
      /\ queue[t] \in QueueOf(Jobs) /\ NoRepeats(queue[t])
      /\ queue'[t] = Dequeue(queue[t]) /\ job'[t] = NextJob(queue[t])
      /\ queue' = [queue EXCEPT ![t] = Dequeue(queue[t])]
      /\ job' = [job EXCEPT ![t] = NextJob(queue[t])]
  BY DEF IInv, TypeOK, TaskInv, Places, TakeJob
<1>2. /\ NextJob(queue[t]) \in Waiting(t) /\ NextJob(queue[t]) \in Jobs
      /\ Dequeue(queue[t]) \in QueueOf(Jobs) /\ NoRepeats(queue'[t])
      /\ Range(queue'[t].main) = Range(queue[t].main) \ {NextJob(queue[t])}
      /\ Range(queue'[t].retry) = Range(queue[t].retry) \ {NextJob(queue[t])}
      /\ queue'[t].dead = queue[t].dead
      /\ queue'[t].attempts = queue[t].attempts
  BY <1>1, DequeueLemma DEF Waiting, Pending
<1>3. PICK j \in Jobs : j = NextJob(queue[t])
  BY <1>2
<1>4. /\ Waiting(t)' = Waiting(t) \ {j} /\ InHand(t)' = {j} /\ InHand(t) = {}
      /\ Done(t)' = Done(t) /\ Dead(t)' = Dead(t)
      /\ Positions(t)' = Positions(t) /\ Kind(t)' = Kind(t)
      /\ Started(t) /\ Started(t)'
  BY <1>1, <1>2, <1>3
  DEF Waiting, InHand, Done, Dead, Positions, Kind, Started
<1>5. Places(t)'
  BY <1>1, <1>2, <1>3, <1>4 DEF TaskInv, Places
<1>6. Covered(t)'
  BY <1>1, <1>2, <1>3, <1>4 DEF TaskInv, Covered
<1>7. InBudget(t)'
  <2>1. req'[t].retries = req[t].retries /\ req[t].retries \in Nat
    BY <1>1, RequestTypes
  <2>2. queue[t].attempts[j] <= req[t].retries
    BY <1>1, <1>2, <1>3, <2>1 DEF TaskInv, InBudget, Waiting
  <2> QED
    BY <1>1, <1>2, <1>3, <1>4, <2>1, <2>2 DEF TaskInv, InBudget
<1>8. job'[t] \in Positions(t)
  BY <1>1, <1>2, <1>4 DEF TaskInv, Covered
<1> QED
  BY <1>1, <1>2, <1>4, <1>5, <1>6, <1>7, <1>8 DEF TaskInv, TypeOK, Jobs

LEMMA FetchInv ==
    ASSUME IInv, NEW t \in Tasks, Fetch(t)
    PROVE  IInv'
<1>1. /\ TypeOK /\ TakeJob(t) /\ req' = req /\ commits' = commits
      /\ pc' = [pc EXCEPT ![t] = "wait"] /\ running' = Idle
      /\ UNCHANGED <<outcome, status, cache, cacheOf, raw, metadata, lastSha,
                     processed, counters, errors>>
  BY DEF IInv, Fetch, stores, telemetry
<1>2. pc'[t] \in {"wait", "got"} /\ \A u \in Tasks \ {t} : pc'[u] = pc[u]
  BY <1>1 DEF TypeOK
<1>3. /\ TaskInv(t)' /\ queue' \in [Tasks -> QueueOf(Jobs)]
      /\ job' \in [Tasks -> 0 .. MaxBatch]
      /\ \A u \in Tasks \ {t} : queue'[u] = queue[u] /\ job'[u] = job[u]
  BY <1>1, <1>2, TakeJobInv
<1>4. TypeOK'
  BY <1>1, <1>3 DEF TypeOK
<1> QED
  BY <1>1, <1>2, <1>3, <1>4, OneTask

LEMMA FromCacheInv ==
    ASSUME IInv, NEW t \in Tasks, FromCache(t)
    PROVE  IInv'
<1> DEFINE o == Cached(t, NextJob(queue[t]))
<1>1. /\ TypeOK /\ TakeJob(t) /\ req' = req /\ commits' = commits /\ o # Miss
      /\ pc' = [pc EXCEPT ![t] = "got"] /\ running' = running
      /\ outcome' = [outcome EXCEPT ![t] = o]
      /\ UNCHANGED <<status, cache, cacheOf, raw, metadata, lastSha,
                     processed, counters, errors>>
  BY DEF IInv, FromCache, stores, telemetry
<1>2. pc'[t] \in {"wait", "got"} /\ \A u \in Tasks \ {t} : pc'[u] = pc[u]
  BY <1>1 DEF TypeOK
<1>3. /\ TaskInv(t)' /\ queue' \in [Tasks -> QueueOf(Jobs)]
      /\ job' \in [Tasks -> 0 .. MaxBatch] /\ job'[t] \in Positions(t)
      /\ \A u \in Tasks \ {t} : queue'[u] = queue[u] /\ job'[u] = job[u]
  BY <1>1, <1>2, TakeJobInv
<1>4. o \in Outcomes
  <2>1. NextJob(queue[t]) \in Positions(t)
    BY <1>1, <1>3 DEF TakeJob, TypeOK
  <2>2. Key(t, NextJob(queue[t])) \in Keys
    BY <1>1, <2>1, RequestTypes DEF Key, Keys
  <2>3. cache[cacheOf[t]] \in [Keys -> Payloads \cup {Miss}]
    BY <1>1 DEF TypeOK
  <2> QED
    BY <1>1, <2>2, <2>3 DEF Cached, Outcomes
<1> HIDE DEF o
<1>5. TypeOK'
  BY <1>1, <1>3, <1>4 DEF TypeOK
<1> QED
  BY <1>1, <1>2, <1>3, <1>5, OneTask

\* A job in hand is one of the request's commits.
LEMMA InHandTypes ==
    ASSUME IInv, NEW t \in Tasks, pc[t] \in {"wait", "got"}
    PROVE  /\ job[t] \in Positions(t) /\ job[t] \in Jobs
           /\ RefAt(t, job[t]) \in Refs /\ Key(t, job[t]) \in Keys
           /\ RawKey(t) \in Keys /\ MetaKey(t) \in Keys
           /\ MetaKey(t)[2] \in Refs
           /\ \A fatal \in BOOLEAN :
                [repo |-> Repo(t), ref |-> RefAt(t, job[t]), fatal |-> fatal]
                  \in ErrorRecords
<1>1. TypeOK /\ job[t] \in Positions(t)
  BY DEF IInv, TaskInv, Covered, InHand, Started
<1>2. RefAt(t, job[t]) \in Refs /\ Repo(t) \in Repos /\ job[t] \in Jobs
  BY <1>1, RequestTypes
<1>3. ShaOf[RefAt(t, job[t])] \in Refs
  BY <1>2, EngineAssumption
<1> QED
  BY <1>1, <1>2, <1>3 DEF Key, Keys, RawKey, MetaKey, ErrorRecords

\* Telemetry keeps its types.
LEMMA RecordTypes ==
    ASSUME IInv, NEW t \in Tasks, pc[t] \in {"wait", "got"},
           NEW fatal \in BOOLEAN, Record(t, fatal)
    PROVE  errors' \in [ErrorRecords -> Nat]
<1> DEFINE e == [repo |-> Repo(t), ref |-> RefAt(t, job[t]), fatal |-> fatal]
<1>1. e \in ErrorRecords
  BY InHandTypes
<1>2. errors' = [errors EXCEPT ![e] = @ + 1]
  BY DEF Record
<1>3. errors \in [ErrorRecords -> Nat]
  BY DEF IInv, TypeOK
<1> HIDE DEF e
<1> QED
  BY <1>1, <1>2, <1>3

LEMMA CountTypes ==
    ASSUME TypeOK, NEW t, NEW names, Count(t, names)
    PROVE  counters' \in
             [{"fetched", "validated", "succeeded", "retry", "dead_letter"} -> Nat]
  BY SMTT(30) DEF TypeOK, Count

LEMMA ReplyInv ==
    ASSUME IInv, NEW t \in Tasks, Reply(t)
    PROVE  IInv'
<1>1. PICK o \in Outcomes :
        /\ outcome' = [outcome EXCEPT ![t] = o]
        /\ cache' = IF o \in Payloads
                    THEN [cache EXCEPT ![cacheOf[t]][Key(t, job[t])] = o]
                    ELSE cache
  BY DEF Reply
<1>2. /\ TypeOK /\ TaskInv(t) /\ pc[t] = "wait" /\ running' = t
      /\ pc' = [pc EXCEPT ![t] = "got"] /\ req' = req /\ queue' = queue
      /\ job' = job /\ commits' = commits
      /\ UNCHANGED <<status, cacheOf, raw, metadata, lastSha, processed,
                     counters, errors>>
  BY DEF IInv, Reply, stores, telemetry
<1>3. cache' \in [Tasks \cup {AppCache} -> [Keys -> Payloads \cup {Miss}]]
  BY <1>1, <1>2, InHandTypes DEF TypeOK
<1>4. TypeOK'
  BY <1>1, <1>2, <1>3 DEF TypeOK
<1>5. pc'[t] = "got" /\ \A u \in Tasks \ {t} : pc'[u] = pc[u]
  BY <1>2 DEF TypeOK
<1>6. /\ Waiting(t)' = Waiting(t) /\ InHand(t)' = InHand(t)
      /\ Done(t)' = Done(t) /\ Dead(t)' = Dead(t)
      /\ Positions(t)' = Positions(t) /\ Kind(t)' = Kind(t)
      /\ Started(t) /\ Started(t)'
  BY <1>2, <1>5 DEF Waiting, InHand, Done, Dead, Positions, Kind, Started
<1>7. TaskInv(t)'
  BY <1>2, <1>6 DEF TaskInv, Places, Covered, InBudget
<1> QED
  BY <1>2, <1>4, <1>5, <1>7, OneTask

LEMMA SucceedInv ==
    ASSUME IInv, NEW t \in Tasks, Succeed(t)
    PROVE  IInv'
<1>1. /\ TypeOK /\ TaskInv(t) /\ pc[t] = "got" /\ running' = running
      /\ pc' = [pc EXCEPT ![t] = "pick"] /\ req' = req /\ queue' = queue
      /\ job' = job /\ commits' = [commits EXCEPT ![t] = Append(commits[t], job[t])]
      /\ metadata' = metadata \cup {MetaKey(t)}
      /\ lastSha' = [lastSha EXCEPT ![Repo(t)] = MetaKey(t)[2]]
      /\ StoreRaw(t)
      /\ UNCHANGED <<outcome, status, cache, cacheOf, processed, errors>>
  BY DEF IInv, Succeed, Got
<1>2. /\ job[t] \in Jobs /\ job[t] \in Positions(t) /\ RawKey(t) \in Keys
      /\ MetaKey(t) \in Keys /\ MetaKey(t)[2] \in Refs
  BY <1>1, InHandTypes
<1>3. counters' \in [{"fetched", "validated", "succeeded", "retry", "dead_letter"} -> Nat]
  BY <1>1, CountTypes DEF Succeed
<1>4. /\ commits[t] \in Seq(Jobs) /\ InHand(t) = {job[t]} /\ job[t] \notin Done(t)
      /\ IsInjective(commits[t])
  BY <1>1 DEF TypeOK, TaskInv, Places, InHand
<1>5. /\ Append(commits[t], job[t]) \in Seq(Jobs)
      /\ Range(Append(commits[t], job[t])) = Done(t) \cup {job[t]}
      /\ IsInjective(Append(commits[t], job[t]))
  BY <1>2, <1>4, AppendLemma DEF Done
<1>6. TypeOK'
  <2>1. raw' \subseteq Keys /\ metadata' \subseteq Keys
    BY <1>1, <1>2 DEF TypeOK, StoreRaw
  <2> QED
    BY <1>1, <1>2, <1>3, <1>5, <2>1 DEF TypeOK
<1>7. /\ pc'[t] = "pick" /\ commits'[t] = Append(commits[t], job[t])
      /\ \A u \in Tasks \ {t} : pc'[u] = pc[u] /\ commits'[u] = commits[u]
  BY <1>1 DEF TypeOK
<1>8. /\ Waiting(t)' = Waiting(t) /\ InHand(t)' = {}
      /\ Done(t)' = Done(t) \cup {job[t]} /\ Dead(t)' = Dead(t)
      /\ Positions(t)' = Positions(t) /\ Kind(t)' = Kind(t)
      /\ Started(t) /\ Started(t)'
  BY <1>1, <1>5, <1>7 DEF Waiting, InHand, Done, Dead, Positions, Kind, Started
<1>9. TaskInv(t)'
  <2>1. Places(t)'
    BY <1>1, <1>4, <1>5, <1>7, <1>8 DEF TaskInv, Places
  <2>2. Covered(t)'
    BY <1>1, <1>4, <1>8 DEF TaskInv, Covered
  <2>3. InBudget(t)'
    BY <1>1, <1>4, <1>8 DEF TaskInv, InBudget
  <2> QED
    BY <1>8, <2>1, <2>2, <2>3 DEF TaskInv
<1> QED
  BY <1>1, <1>6, <1>7, <1>9, OneTask

LEMMA FailInv ==
    ASSUME IInv, NEW t \in Tasks, Fail(t)
    PROVE  IInv'
<1> DEFINE limit == req[t].retries
           again == queue[t].attempts[job[t]] + 1 <= limit
<1>1. /\ TypeOK /\ TaskInv(t) /\ pc[t] = "got" /\ running' = running
      /\ pc' = [pc EXCEPT ![t] = "pick"] /\ req' = req /\ job' = job
      /\ queue' = [queue EXCEPT ![t] = MarkFailed(queue[t], job[t], limit)]
      /\ commits' = commits /\ StoreRaw(t)
      /\ UNCHANGED <<outcome, status, cache, cacheOf, metadata, lastSha, processed>>
  BY DEF IInv, Fail, Got
<1>2. /\ job[t] \in Jobs /\ job[t] \in Positions(t) /\ RawKey(t) \in Keys
      /\ limit \in Nat /\ queue[t] \in QueueOf(Jobs)
  BY <1>1, InHandTypes, RequestTypes
<1>3. /\ InHand(t) = {job[t]} /\ NoRepeats(queue[t])
      /\ job[t] \notin Pending(queue[t]) /\ job[t] \notin Range(queue[t].dead)
  BY <1>1 DEF TaskInv, Places, InHand, Waiting, Dead, Pending
<1>4. /\ queue'[t] \in QueueOf(Jobs) /\ NoRepeats(queue'[t])
      /\ queue'[t].main = queue[t].main
      /\ Range(queue'[t].retry) = Range(queue[t].retry) \cup (IF again THEN {job[t]} ELSE {})
      /\ Range(queue'[t].dead) = Range(queue[t].dead) \cup (IF again THEN {} ELSE {job[t]})
      /\ queue'[t].attempts = [queue[t].attempts EXCEPT ![job[t]] = @ + 1]
  <2>1. queue'[t] = MarkFailed(queue[t], job[t], limit)
    BY <1>1 DEF TypeOK
  <2>2. /\ queue[t] \in QueueOf(Jobs) /\ NoRepeats(queue[t])
        /\ job[t] \in Jobs /\ limit \in Nat
        /\ job[t] \notin Pending(queue[t]) /\ job[t] \notin Range(queue[t].dead)
    BY <1>2, <1>3
  <2>3. PICK q \in QueueOf(Jobs), j \in Jobs, n \in Nat :
               q = queue[t] /\ j = job[t] /\ n = limit
    BY <2>2
  <2>4. NoRepeats(q) /\ j \notin Pending(q) /\ j \notin Range(q.dead)
    BY <2>2, <2>3
  <2>5. FailedTo(MarkFailed(q, j, n), q, j, n, Jobs)
    BY ONLY <2>4, MarkFailedLemma
  <2>6. FailedTo(queue'[t], queue[t], job[t], limit, Jobs)
    BY ONLY <2>1, <2>3, <2>5
  <2> QED
    BY ONLY <2>6 DEF FailedTo, again
<1>5. queue' \in [Tasks -> QueueOf(Jobs)]
  <2>1. MarkFailed(queue[t], job[t], limit) \in QueueOf(Jobs)
    BY <1>1, <1>4 DEF TypeOK
  <2> QED
    BY <1>1, <2>1 DEF TypeOK
<1>6. errors' \in [ErrorRecords -> Nat]
  BY <1>1, RecordTypes DEF Fail, TypeOK
<1>7. counters' \in [{"fetched", "validated", "succeeded", "retry", "dead_letter"} -> Nat]
  BY <1>1, CountTypes DEF Fail
<1>8. TypeOK'
  BY <1>1, <1>2, <1>5, <1>6, <1>7 DEF TypeOK, StoreRaw
<1>9. /\ pc'[t] = "pick"
      /\ \A u \in Tasks \ {t} : pc'[u] = pc[u] /\ queue'[u] = queue[u]
  BY <1>1 DEF TypeOK
<1>10. /\ Waiting(t)' = Waiting(t) \cup (IF again THEN {job[t]} ELSE {})
       /\ Dead(t)' = Dead(t) \cup (IF again THEN {} ELSE {job[t]})
       /\ InHand(t)' = {} /\ Done(t)' = Done(t)
       /\ Positions(t)' = Positions(t) /\ Kind(t)' = Kind(t)
       /\ Started(t) /\ Started(t)'
  BY <1>1, <1>4, <1>9 DEF Waiting, InHand, Done, Dead, Positions, Kind, Started
<1>11. /\ Places(t)' /\ Covered(t)'
  <2> HIDE DEF again
  <2>1. Places(t)'
    BY <1>1, <1>3, <1>4, <1>10 DEF TaskInv, Places
  <2>2. Covered(t)'
    BY <1>1, <1>2, <1>3, <1>10 DEF TaskInv, Covered
  <2> QED
    BY <2>1, <2>2
<1>12. InBudget(t)'
  <2>1. /\ queue[t].attempts \in [Jobs -> Nat]
        /\ queue[t].attempts[job[t]] \in 0 .. limit
        /\ queue'[t].attempts[job[t]] = queue[t].attempts[job[t]] + 1
        /\ \A i \in Jobs \ {job[t]} : queue'[t].attempts[i] = queue[t].attempts[i]
    BY <1>1, <1>2, <1>3, <1>4 DEF TaskInv, InBudget, QueueOf
  <2>2. /\ Waiting(t) \cup Done(t) \cup Dead(t) \subseteq Jobs \ {job[t]}
        /\ req'[t].retries = limit
    BY <1>1, <1>3, <1>10, RequestTypes DEF TaskInv, Covered, Places
  <2>3. \A i \in Range(queue'[t].main) : queue'[t].attempts[i] = 0
    BY <1>1, <1>4, <2>1, <2>2 DEF TaskInv, InBudget, Waiting
  <2>4. \A i \in Range(queue'[t].retry) : queue'[t].attempts[i] \in 1 .. limit
    BY <1>1, <1>2, <1>4, <2>1, <2>2 DEF TaskInv, InBudget, Waiting
  <2>5. \A i \in Done(t)' \cup InHand(t)' : queue'[t].attempts[i] <= limit
    BY <1>1, <1>10, <2>1, <2>2 DEF TaskInv, InBudget
  <2>6. \A i \in Dead(t)' : queue'[t].attempts[i] = limit + 1
    BY <1>1, <1>2, <1>10, <2>1, <2>2 DEF TaskInv, InBudget
  <2> QED
    BY <2>2, <2>3, <2>4, <2>5, <2>6 DEF InBudget
<1>13. TaskInv(t)'
  BY <1>10, <1>11, <1>12 DEF TaskInv
<1> QED
  BY <1>1, <1>8, <1>9, <1>13, OneTask

\* A request that ends, or drops a commit, moves no other commit.
LEMMA LetGo ==
    ASSUME IInv, NEW t \in Tasks, TypeOK', req' = req, queue' = queue,
           job' = job, commits' = commits, pc[t] \in {"pick", "got"},
           \/ pc' = [pc EXCEPT ![t] = "crashed"] /\ pc[t] = "got"
           \/ pc' = [pc EXCEPT ![t] = "done"] /\ pc[t] = "pick"
           \/ pc' = [pc EXCEPT ![t] = "pick"] /\ Kind(t) # "batch"
           \/ pc' = [pc EXCEPT ![t] = "rejected"] /\ Kind(t) # "batch"
    PROVE  IInv'
<1>1. /\ TypeOK /\ TaskInv(t) /\ \A u \in Tasks \ {t} : pc'[u] = pc[u]
      /\ pc'[t] \in {"crashed", "done", "pick", "rejected"}
  BY DEF IInv, TypeOK
<1>2. /\ Waiting(t)' = Waiting(t) /\ Done(t)' = Done(t) /\ Dead(t)' = Dead(t)
      /\ Positions(t)' = Positions(t) /\ Kind(t)' = Kind(t)
      /\ Started(t) /\ Started(t)'
  BY <1>1 DEF Waiting, Done, Dead, Positions, Kind, Started
<1>3. /\ InHand(t)' \subseteq InHand(t)
      /\ Kind(t) = "batch" => InHand(t)' = InHand(t)
  BY <1>1 DEF InHand, TypeOK
<1>4. TaskInv(t)'
  <2>1. Places(t)'
    BY <1>1, <1>2, <1>3 DEF TaskInv, Places
  <2>2. Covered(t)'
    BY <1>1, <1>2, <1>3 DEF TaskInv, Covered
  <2>3. InBudget(t)'
    BY <1>1, <1>2, <1>3 DEF TaskInv, InBudget
  <2> QED
    BY <1>2, <2>1, <2>2, <2>3 DEF TaskInv
<1> QED
  BY <1>1, <1>4, OneTask

LEMMA SkipInv ==
    ASSUME IInv, NEW t \in Tasks, Skip(t)
    PROVE  IInv'
<1>1. /\ TypeOK /\ pc[t] = "got" /\ pc' = [pc EXCEPT ![t] = "pick"]
      /\ Kind(t) = "webhook" /\ Record(t, FALSE)
      /\ UNCHANGED <<running, req, queue, job, outcome, commits, status, cache,
                     cacheOf, raw, metadata, lastSha, processed, counters>>
  BY DEF IInv, Skip, Got, work, stores
<1>2. errors' \in [ErrorRecords -> Nat]
  BY <1>1, RecordTypes
<1>3. TypeOK'
  BY <1>1, <1>2 DEF TypeOK
<1> QED
  BY <1>1, <1>3, LetGo

LEMMA RejectInv ==
    ASSUME IInv, NEW t \in Tasks, Reject(t)
    PROVE  IInv'
<1>1. /\ TypeOK /\ pc[t] = "got" /\ pc' = [pc EXCEPT ![t] = "rejected"]
      /\ Kind(t) = "commit" /\ running' = Idle
      /\ UNCHANGED <<req, queue, job, outcome, commits, status, cache, cacheOf,
                     raw, metadata, lastSha, processed, counters, errors>>
  BY DEF IInv, Reject, Got, work, stores, telemetry
<1>2. TypeOK'
  BY <1>1 DEF TypeOK
<1> QED
  BY <1>1, <1>2, LetGo

LEMMA CrashInv ==
    ASSUME IInv, NEW t \in Tasks, Crash(t)
    PROVE  IInv'
<1>1. /\ TypeOK /\ pc[t] = "got" /\ pc' = [pc EXCEPT ![t] = "crashed"]
      /\ StoreRaw(t) /\ Count(t, {}) /\ running' = Idle
      /\ UNCHANGED <<req, queue, job, outcome, commits, status, cache, cacheOf,
                     metadata, lastSha, processed, errors>>
  BY DEF IInv, Crash, Got, work
<1>2. /\ raw' \subseteq Keys
      /\ counters' \in [{"fetched", "validated", "succeeded", "retry", "dead_letter"} -> Nat]
  BY <1>1, InHandTypes, CountTypes DEF StoreRaw, TypeOK
<1>3. TypeOK'
  BY <1>1, <1>2 DEF TypeOK
<1> QED
  BY <1>1, <1>3, LetGo

LEMMA FinishInv ==
    ASSUME IInv, NEW t \in Tasks, Finish(t)
    PROVE  IInv'
<1>1. /\ TypeOK /\ pc[t] = "pick" /\ pc' = [pc EXCEPT ![t] = "done"]
      /\ running' = Idle
      /\ UNCHANGED <<req, queue, job, outcome, commits, cache, cacheOf, raw,
                     metadata, lastSha, counters, errors>>
  BY DEF IInv, Finish, telemetry
<1>2. /\ processed' \in [Repos -> Nat]
      /\ status' \in [Tasks -> {"running", "completed", "failed", "partial"}]
  <2>1. Len(commits[t]) \in Nat
    BY <1>1, LenProperties DEF TypeOK
  <2>2. CASE Kind(t) = "batch"
    <3>1. FinalStatus(t) \in {"running", "completed", "failed", "partial"}
      BY DEF FinalStatus
    <3>2. PICK n \in Nat : processed' = [processed EXCEPT ![Repo(t)] = @ + n]
      BY <2>1, <2>2 DEF Finish
    <3>3. status' = [status EXCEPT ![t] = FinalStatus(t)]
      BY <2>2 DEF Finish
    <3>4. /\ processed \in [Repos -> Nat]
          /\ status \in [Tasks -> {"running", "completed", "failed", "partial"}]
          /\ Repo(t) \in Repos
      BY <1>1, RequestTypes DEF TypeOK
    <3>5. processed' \in [Repos -> Nat]
      BY <3>2, <3>4
    <3> QED
      BY <3>1, <3>3, <3>4, <3>5
  <2>3. CASE Kind(t) # "batch"
    BY <1>1, <2>3 DEF Finish, TypeOK
  <2> QED
    BY <2>2, <2>3
<1>3. TypeOK'
  BY <1>1, <1>2 DEF TypeOK
<1> QED
  BY <1>1, <1>3, LetGo

LEMMA NextInv == IInv /\ [Next]_vars => IInv'
<1> SUFFICES ASSUME IInv, [Next]_vars PROVE IInv'
  OBVIOUS
<1>1. ASSUME NEW t \in Tasks, Start(t) \/ Step(t) PROVE IInv'
  BY <1>1, StartInv, FetchInv, FromCacheInv, ReplyInv, SucceedInv, FailInv,
     SkipInv, RejectInv, CrashInv, FinishInv DEF Step
<1>2. CASE UNCHANGED vars
  <2>1. UNCHANGED <<running, req, pc, queue, job, outcome, commits, status, cache,
                    cacheOf, raw, metadata, lastSha, processed, counters, errors>>
    BY <1>2 DEF vars, control, work, stores, telemetry
  <2>2. TypeOK'
    BY <2>1 DEF IInv, TypeOK
  <2>3. ASSUME NEW t \in Tasks PROVE TaskInv(t)'
    BY <2>1, Frame DEF IInv
  <2> QED
    BY <2>2, <2>3 DEF IInv
<1> QED
  BY <1>1, <1>2 DEF Next

\* IInv holds in every behaviour of the engine: types, and for each request
\* the place and the attempts of every commit.
THEOREM Invariance == Spec => []IInv
<1>1. Init => IInv
  BY InitInv
<1>2. IInv /\ [Next]_vars => IInv'
  BY NextInv
<1> QED
  BY <1>1, <1>2, PTL DEF Spec

\* Type correctness of the engine's whole state.
THEOREM TypeCorrect == Spec => []TypeOK
  BY Invariance, PTL DEF IInv

\* No commit of any request is lost or handled twice, for any number of
\* concurrent requests and whatever GitHub answers.
THEOREM NoJobLost == Spec => []JobsAccounted
  BY Invariance, Consequences, PTL

\* The retry limit of every request is honoured exactly.
THEOREM RetryLimit == Spec => []RetryBudget
  BY Invariance, Consequences, PTL

-----------------------------------------------------------------------------
(* Refinement.  The engine implements JobContract, for any number of       *)
(* concurrent requests, commits and retries: each step of a request is one *)
(* step of the contract for its commits, or none.  And nothing that is     *)
(* settled is ever taken back.                                             *)

\* The contract's variables as functions of the engine's state.
Attempted(t, i) == IF i \in Dropped(t) THEN 1 ELSE queue[t].attempts[i]
Allowed(t, i) == IF Phase(t, i) = "absent" THEN 0 ELSE req[t].retries

phases == [j \in Tasks \X Jobs |-> Phase(j[1], j[2])]
fails == [j \in Tasks \X Jobs |-> Attempted(j[1], j[2])]
limits == [j \in Tasks \X Jobs |-> Allowed(j[1], j[2])]

\* A request that has not started has failed at nothing yet.
Fresh(t) == ~Started(t) => \A i \in Jobs : queue[t].attempts[i] = 0

RInv == IInv /\ \A t \in Tasks : Fresh(t)

-----------------------------------------------------------------------------
(* What each place of a commit means to the contract.                      *)

PhaseOf(t) ==
    \A i \in Jobs :
        /\ ~Started(t) \/ i \notin Positions(t) => Phase(t, i) = "absent"
        /\ Started(t) =>
             /\ i \in Done(t) => Phase(t, i) = "done"
             /\ i \in Dead(t) \cup Dropped(t) => Phase(t, i) = "dead"
             /\ i \in InHand(t) =>
                  Phase(t, i) = IF pc[t] = "crashed" THEN "lost" ELSE "running"
             /\ i \in Waiting(t) =>
                  Phase(t, i) = IF pc[t] = "crashed" THEN "lost" ELSE "waiting"

\* Every commit of a request that has started is somewhere.
Somewhere(t) ==
    Started(t) =>
        Positions(t) = Waiting(t) \cup InHand(t) \cup Done(t) \cup Dead(t) \cup Dropped(t)

AllPhases == \A t \in Tasks : PhaseOf(t) /\ Somewhere(t)

LEMMA PhaseLemma == IInv => AllPhases
<1> SUFFICES ASSUME IInv, NEW t \in Tasks PROVE PhaseOf(t) /\ Somewhere(t)
  BY DEF AllPhases
<1>1. Places(t) /\ Covered(t)
  BY DEF IInv, TaskInv
<1>2. Somewhere(t)
  BY <1>1 DEF Somewhere, Covered, Dropped
<1>3. PhaseOf(t)
  <2> SUFFICES ASSUME NEW i \in Jobs
               PROVE  /\ ~Started(t) \/ i \notin Positions(t) => Phase(t, i) = "absent"
                      /\ Started(t) =>
                           /\ i \in Done(t) => Phase(t, i) = "done"
                           /\ i \in Dead(t) \cup Dropped(t) => Phase(t, i) = "dead"
                           /\ i \in InHand(t) =>
                                Phase(t, i) = IF pc[t] = "crashed" THEN "lost" ELSE "running"
                           /\ i \in Waiting(t) =>
                                Phase(t, i) = IF pc[t] = "crashed" THEN "lost" ELSE "waiting"
    BY DEF PhaseOf
  <2>1. CASE ~Started(t) \/ i \notin Positions(t)
    <3>1. Phase(t, i) = "absent"
      BY <2>1 DEF Phase
    <3>2. Started(t) => i \notin Waiting(t) \cup InHand(t) \cup Done(t) \cup Dead(t)
      BY <1>1, <2>1 DEF Covered
    <3>3. Started(t) => i \notin Dropped(t)
      BY <2>1 DEF Dropped
    <3> QED
      BY <3>1, <3>2, <3>3
  <2>2. CASE Started(t) /\ i \in Positions(t)
    <3>1. Dropped(t) \cap (Waiting(t) \cup InHand(t) \cup Done(t) \cup Dead(t)) = {}
      BY DEF Dropped
    <3>2. Phase(t, i) = IF i \in Done(t) THEN "done"
                        ELSE IF i \in Dead(t) \cup Dropped(t) THEN "dead"
                        ELSE IF pc[t] = "crashed" THEN "lost"
                        ELSE IF i \in InHand(t) THEN "running" ELSE "waiting"
      BY <2>2 DEF Phase
    <3> QED
      BY <1>1, <2>2, <3>1, <3>2 DEF Places
  <2> QED
    BY <2>1, <2>2
<1> QED
  BY <1>2, <1>3

LEMMA PhaseNext == IInv' => AllPhases'
  BY PhaseLemma, PTL

-----------------------------------------------------------------------------
(* Steps of the contract.                                                  *)

\* A request whose own state does not change leaves its commits alone.
LEMMA ContractFrame ==
    ASSUME NEW u \in Tasks, req' = req, pc'[u] = pc[u], queue'[u] = queue[u],
           job'[u] = job[u], commits'[u] = commits[u], NEW i \in Jobs
    PROVE  /\ Phase(u, i)' = Phase(u, i) /\ Attempted(u, i)' = Attempted(u, i)
           /\ Allowed(u, i)' = Allowed(u, i)
<1>1. /\ Waiting(u)' = Waiting(u) /\ InHand(u)' = InHand(u) /\ Done(u)' = Done(u)
      /\ Dead(u)' = Dead(u) /\ Positions(u)' = Positions(u) /\ Started(u)' = Started(u)
  BY DEF Waiting, InHand, Done, Dead, Positions, Started
<1>2. Dropped(u)' = Dropped(u)
  BY <1>1 DEF Dropped
<1>3. Phase(u, i)' = Phase(u, i)
  BY <1>1, <1>2 DEF Phase
<1> QED
  BY <1>2, <1>3 DEF Attempted, Allowed

\* The only commit that changes is k of request t.
LEMMA OneCommit ==
    ASSUME NEW t \in Tasks, NEW k \in Jobs, NEW x, NEW n,
           \A u \in Tasks, i \in Jobs :
               /\ Allowed(u, i)' = Allowed(u, i)
               /\ u # t \/ i # k => /\ Phase(u, i)' = Phase(u, i)
                                    /\ Attempted(u, i)' = Attempted(u, i),
           Phase(t, k)' = x, Attempted(t, k)' = n
    PROVE  /\ phases' = [phases EXCEPT ![<<t, k>>] = x]
           /\ fails' = [fails EXCEPT ![<<t, k>>] = n]
           /\ limits' = limits
           /\ <<t, k>> \in Tasks \X Jobs
           /\ phases[<<t, k>>] = Phase(t, k) /\ fails[<<t, k>>] = Attempted(t, k)
           /\ limits[<<t, k>>] = Allowed(t, k)
<1>1. \A j \in Tasks \X Jobs : j[1] \in Tasks /\ j[2] \in Jobs /\ j = <<j[1], j[2]>>
  OBVIOUS
<1>2. phases' = [phases EXCEPT ![<<t, k>>] = x]
  BY <1>1 DEF phases
<1>3. fails' = [fails EXCEPT ![<<t, k>>] = n]
  BY <1>1 DEF fails
<1>4. limits' = limits
  BY <1>1 DEF limits
<1> QED
  BY <1>2, <1>3, <1>4 DEF phases, fails, limits

\* A failed attempt at k, which may be tried again, or is dead.
LEMMA ContractFail ==
    ASSUME NEW t \in Tasks, NEW k \in Jobs, NEW n \in Nat, NEW m \in Nat,
           Phase(t, k) = "running", Attempted(t, k) = n, Allowed(t, k) = m,
           phases' = [phases EXCEPT ![<<t, k>>] = IF n < m THEN "waiting" ELSE "dead"],
           fails' = [fails EXCEPT ![<<t, k>>] = n + 1], limits' = limits
    PROVE  Contract!Next
<1>1. /\ <<t, k>> \in Tasks \X Jobs
      /\ phases[<<t, k>>] = "running" /\ fails[<<t, k>>] = n /\ limits[<<t, k>>] = m
  BY DEF phases, fails, limits
<1>2. fails' = [fails EXCEPT ![<<t, k>>] = @ + 1]
  BY <1>1
<1>3. phases' = [phases EXCEPT ![<<t, k>>] =
                     IF fails[<<t, k>>] < limits[<<t, k>>] THEN "waiting" ELSE "dead"]
  BY <1>1
<1>4. Contract!Fail(<<t, k>>)
  BY <1>1, <1>2, <1>3 DEF Contract!Fail, phases, fails, limits, Attempted, Allowed
<1> QED
  BY <1>1, <1>4 DEF Contract!Next

LEMMA RefineStart ==
    ASSUME RInv, IInv', NEW t \in Tasks, Start(t)
    PROVE  Contract!Next
<1>1. /\ TypeOK /\ AllPhases /\ AllPhases' /\ Fresh(t) /\ ~Started(t)
      /\ pc' = [pc EXCEPT ![t] = "pick"] /\ req' = req /\ job' = job /\ commits' = commits
      /\ queue' = [queue EXCEPT ![t] =
                       EnqueueMany(EmptyQueue(Jobs), [i \in Positions(t) |-> i])]
  BY PhaseLemma, PhaseNext DEF RInv, IInv, Start, Started
<1>2. /\ pc'[t] = "pick" /\ Positions(t)' = Positions(t)
      /\ queue'[t] = EnqueueMany(EmptyQueue(Jobs), [i \in Positions(t) |-> i])
      /\ \A u \in Tasks \ {t} : pc'[u] = pc[u] /\ queue'[u] = queue[u]
  BY <1>1 DEF TypeOK, Positions
<1>3. /\ Waiting(t)' = Positions(t) /\ Started(t)'
      /\ \A i \in Jobs : queue'[t].attempts[i] = 0
  BY <1>1, <1>2, StartQueue DEF Waiting, Started
<1>4. Dropped(t) = {} /\ Dropped(t)' = {}
  BY <1>1, <1>2, <1>3 DEF Dropped
<1>5. ASSUME NEW i \in Jobs
      PROVE  /\ Phase(t, i) = "absent"
             /\ Phase(t, i)' = IF i \in Positions(t) THEN "waiting" ELSE "absent"
             /\ Attempted(t, i)' = Attempted(t, i)
             /\ Allowed(t, i) = 0
             /\ Allowed(t, i)' = IF i \in Positions(t) THEN req[t].retries ELSE 0
  <2>1. /\ Phase(t, i) = "absent"
        /\ Phase(t, i)' = IF i \in Positions(t) THEN "waiting" ELSE "absent"
    BY <1>1, <1>2, <1>3 DEF AllPhases, PhaseOf
  <2>2. Attempted(t, i) = 0 /\ Attempted(t, i)' = 0
    BY <1>1, <1>3, <1>4 DEF Attempted, Fresh
  <2> QED
    BY <1>1, <2>1, <2>2 DEF Allowed
<1>6. ASSUME NEW u \in Tasks \ {t}, NEW i \in Jobs
      PROVE  /\ Phase(u, i)' = Phase(u, i) /\ Attempted(u, i)' = Attempted(u, i)
             /\ Allowed(u, i)' = Allowed(u, i)
  BY <1>1, <1>2, ContractFrame
<1>7. PICK S \in SUBSET (Tasks \X Jobs) : S = {t} \X Positions(t)
  BY <1>1, RequestTypes
<1>8. PICK n \in {r.retries : r \in Requests} : n = req[t].retries
  BY <1>1, RequestTypes
<1>9. \A j \in Tasks \X Jobs : j[1] \in Tasks /\ j[2] \in Jobs
                               /\ (j \in S <=> j[1] = t /\ j[2] \in Positions(t))
  BY <1>7
<1>10. /\ \A j \in S : phases[j] = "absent"
       /\ phases' = [j \in Tasks \X Jobs |-> IF j \in S THEN "waiting" ELSE phases[j]]
  BY <1>5, <1>6, <1>7, <1>9 DEF phases
<1>11. fails' = fails
  BY <1>5, <1>6, <1>9 DEF fails
<1>12. limits' = [j \in Tasks \X Jobs |-> IF j \in S THEN n ELSE limits[j]]
  BY <1>5, <1>6, <1>8, <1>9 DEF limits
<1>13. Contract!Submit(S, n)
  BY <1>10, <1>11, <1>12 DEF Contract!Submit, phases, fails, limits, Attempted, Allowed
<1> QED
  BY <1>13 DEF Contract!Next

\* What a step leaves as it is for the other commits of its request, when it
\* leaves the places of all of them.
LEMMA SamePlaces ==
    ASSUME IInv, IInv', NEW t \in Tasks, req' = req, NEW i \in Jobs,
           Started(t), Started(t)', pc[t] # "crashed", pc'[t] # "crashed",
           i \in Waiting(t)' <=> i \in Waiting(t), i \in InHand(t)' <=> i \in InHand(t),
           i \in Done(t)' <=> i \in Done(t), i \in Dead(t)' <=> i \in Dead(t),
           queue'[t].attempts[i] = queue[t].attempts[i]
    PROVE  /\ Phase(t, i)' = Phase(t, i) /\ Attempted(t, i)' = Attempted(t, i)
           /\ Allowed(t, i)' = Allowed(t, i)
<1>1. Positions(t)' = Positions(t)
  BY DEF Positions
<1>2. i \in Dropped(t)' <=> i \in Dropped(t)
  BY <1>1 DEF Dropped
<1>3. Phase(t, i)' = Phase(t, i)
  BY <1>1, <1>2 DEF Phase
<1> QED
  BY <1>2, <1>3 DEF Attempted, Allowed

\* The limit of a commit does not change as long as its request goes on.
LEMMA SameLimit ==
    ASSUME NEW t \in Tasks, NEW i \in Jobs, req' = req, Started(t), Started(t)'
    PROVE  Allowed(t, i)' = Allowed(t, i)
<1>1. Positions(t)' = Positions(t)
  BY DEF Positions
<1>2. Phase(t, i) = "absent" <=> i \notin Positions(t)
  BY DEF Phase
<1>3. Phase(t, i)' = "absent" <=> i \notin Positions(t)
  BY <1>1 DEF Phase
<1> QED
  BY <1>2, <1>3 DEF Allowed

\* The next job is taken.
LEMMA RefineTake ==
    ASSUME RInv, IInv', NEW t \in Tasks, TakeJob(t), req' = req, commits' = commits,
           pc' = [pc EXCEPT ![t] = "wait"] \/ pc' = [pc EXCEPT ![t] = "got"]
    PROVE  Contract!Next
<1>1. /\ IInv /\ TypeOK /\ AllPhases /\ AllPhases' /\ pc[t] = "pick"
      /\ queue[t] \in QueueOf(Jobs) /\ NoRepeats(queue[t]) /\ ~IsEmpty(queue[t])
      /\ queue' = [queue EXCEPT ![t] = Dequeue(queue[t])]
      /\ job' = [job EXCEPT ![t] = NextJob(queue[t])]
  BY PhaseLemma, PhaseNext DEF RInv, IInv, TypeOK, TaskInv, Places, TakeJob
<1>2. /\ queue'[t] = Dequeue(queue[t]) /\ job'[t] = NextJob(queue[t])
      /\ pc'[t] \in {"wait", "got"}
      /\ \A u \in Tasks \ {t} : /\ pc'[u] = pc[u] /\ queue'[u] = queue[u]
                                /\ job'[u] = job[u] /\ commits'[u] = commits[u]
  BY <1>1 DEF TypeOK
<1>3. /\ NextJob(queue[t]) \in Waiting(t) /\ NextJob(queue[t]) \in Jobs
      /\ Range(queue'[t].main) = Range(queue[t].main) \ {NextJob(queue[t])}
      /\ Range(queue'[t].retry) = Range(queue[t].retry) \ {NextJob(queue[t])}
      /\ queue'[t].dead = queue[t].dead /\ queue'[t].attempts = queue[t].attempts
  BY <1>1, <1>2, DequeueLemma DEF Waiting, Pending
<1>4. PICK k \in Jobs : k = NextJob(queue[t])
  BY <1>3
<1>5. /\ Waiting(t)' = Waiting(t) \ {k} /\ InHand(t)' = {k} /\ InHand(t) = {}
      /\ Done(t)' = Done(t) /\ Dead(t)' = Dead(t) /\ k \in Waiting(t)
      /\ Started(t) /\ Started(t)' /\ pc[t] # "crashed" /\ pc'[t] # "crashed"
  BY <1>1, <1>2, <1>3, <1>4 DEF Waiting, InHand, Done, Dead, Started
<1>6. k \notin Dropped(t) /\ k \notin Dropped(t)'
  BY <1>5 DEF Dropped
<1>7. /\ Phase(t, k) = "waiting" /\ Phase(t, k)' = "running"
      /\ Attempted(t, k)' = Attempted(t, k)
  BY <1>1, <1>3, <1>5, <1>6 DEF AllPhases, PhaseOf, Attempted
<1>8. ASSUME NEW u \in Tasks, NEW i \in Jobs
      PROVE  /\ Allowed(u, i)' = Allowed(u, i)
             /\ u # t \/ i # k => /\ Phase(u, i)' = Phase(u, i)
                                  /\ Attempted(u, i)' = Attempted(u, i)
  <2>1. CASE u # t
    BY <1>2, <2>1, ContractFrame
  <2>2. CASE u = t
    BY <1>1, <1>3, <1>5, <2>2, SameLimit, SamePlaces
  <2> QED
    BY <2>1, <2>2
<1>9. /\ phases' = [phases EXCEPT ![<<t, k>>] = "running"]
      /\ fails' = [fails EXCEPT ![<<t, k>>] = Attempted(t, k)]
      /\ limits' = limits /\ <<t, k>> \in Tasks \X Jobs
      /\ phases[<<t, k>>] = "waiting" /\ fails[<<t, k>>] = Attempted(t, k)
  BY <1>7, <1>8, OneCommit
<1>10. fails' = fails
  BY <1>9 DEF fails
<1>11. Contract!Start(<<t, k>>)
  BY <1>9, <1>10 DEF Contract!Start, phases, fails, limits, Attempted, Allowed
<1> QED
  BY <1>9, <1>11 DEF Contract!Next

LEMMA RefineSucceed ==
    ASSUME RInv, IInv', NEW t \in Tasks, Succeed(t)
    PROVE  Contract!Next
<1>1. /\ IInv /\ TypeOK /\ AllPhases /\ AllPhases' /\ pc[t] = "got"
      /\ pc' = [pc EXCEPT ![t] = "pick"] /\ req' = req /\ queue' = queue /\ job' = job
      /\ commits' = [commits EXCEPT ![t] = Append(commits[t], job[t])]
  BY PhaseLemma, PhaseNext DEF RInv, IInv, Succeed, Got
<1>2. PICK k \in Jobs : k = job[t]
  BY <1>1, InHandTypes
<1>3. commits[t] \in Seq(Jobs) /\ Range(Append(commits[t], k)) = Range(commits[t]) \cup {k}
  BY <1>1, AppendLemma DEF TypeOK
<1>4. /\ pc'[t] = "pick" /\ commits'[t] = Append(commits[t], k)
      /\ \A u \in Tasks \ {t} : pc'[u] = pc[u] /\ commits'[u] = commits[u]
  BY <1>1, <1>2 DEF TypeOK
<1>5. /\ Waiting(t)' = Waiting(t) /\ InHand(t)' = {} /\ InHand(t) = {k}
      /\ Done(t)' = Done(t) \cup {k} /\ Dead(t)' = Dead(t)
      /\ Started(t) /\ Started(t)' /\ pc[t] # "crashed" /\ pc'[t] # "crashed"
  BY <1>1, <1>2, <1>3, <1>4 DEF Waiting, InHand, Done, Dead, Started
<1>6. k \notin Dropped(t) /\ k \notin Dropped(t)'
  BY <1>5 DEF Dropped
<1>7. /\ Phase(t, k) = "running" /\ Phase(t, k)' = "done"
      /\ Attempted(t, k)' = Attempted(t, k)
  BY <1>1, <1>5, <1>6 DEF AllPhases, PhaseOf, Attempted
<1>8. ASSUME NEW u \in Tasks, NEW i \in Jobs
      PROVE  /\ Allowed(u, i)' = Allowed(u, i)
             /\ u # t \/ i # k => /\ Phase(u, i)' = Phase(u, i)
                                  /\ Attempted(u, i)' = Attempted(u, i)
  <2>1. CASE u # t
    BY <1>1, <1>4, <2>1, ContractFrame
  <2>2. CASE u = t
    BY <1>1, <1>5, <2>2, SameLimit, SamePlaces
  <2> QED
    BY <2>1, <2>2
<1>9. /\ phases' = [phases EXCEPT ![<<t, k>>] = "done"]
      /\ fails' = [fails EXCEPT ![<<t, k>>] = Attempted(t, k)]
      /\ limits' = limits /\ <<t, k>> \in Tasks \X Jobs
      /\ phases[<<t, k>>] = "running" /\ fails[<<t, k>>] = Attempted(t, k)
  BY <1>7, <1>8, OneCommit
<1>10. fails' = fails
  BY <1>9 DEF fails
<1>11. Contract!Succeed(<<t, k>>)
  BY <1>9, <1>10 DEF Contract!Succeed, phases, fails, limits, Attempted, Allowed
<1> QED
  BY <1>9, <1>11 DEF Contract!Next

\* A batch's failed job goes back to the queue or to the dead letters.
LEMMA RefineFail ==
    ASSUME RInv, IInv', NEW t \in Tasks, Fail(t)
    PROVE  Contract!Next
<1>1. /\ IInv /\ TypeOK /\ TaskInv(t) /\ AllPhases /\ AllPhases' /\ pc[t] = "got"
      /\ Kind(t) = "batch"
      /\ pc' = [pc EXCEPT ![t] = "pick"] /\ req' = req /\ job' = job /\ commits' = commits
      /\ queue' = [queue EXCEPT ![t] = MarkFailed(queue[t], job[t], req[t].retries)]
  BY PhaseLemma, PhaseNext DEF RInv, IInv, Fail, Got
<1>2. PICK k \in Jobs : k = job[t] /\ k \in Positions(t)
  BY <1>1, InHandTypes
<1>3. PICK m \in Nat : m = req[t].retries
  BY <1>1, RequestTypes
<1>4. PICK q \in QueueOf(Jobs) : q = queue[t]
  BY <1>1 DEF TypeOK
<1>5. PICK n \in Nat : n = q.attempts[k]
  BY <1>4 DEF QueueOf
<1>6. InHand(t) = {k} /\ NoRepeats(q) /\ k \notin Pending(q) /\ k \notin Range(q.dead)
  BY <1>1, <1>2, <1>4 DEF TaskInv, Places, InHand, Waiting, Dead, Pending
<1>7. LET r == MarkFailed(q, k, m)
      IN  /\ r.main = q.main
          /\ Range(r.retry) = Range(q.retry) \cup (IF n + 1 <= m THEN {k} ELSE {})
          /\ Range(r.dead) = Range(q.dead) \cup (IF n + 1 <= m THEN {} ELSE {k})
          /\ r.attempts = [q.attempts EXCEPT ![k] = @ + 1]
  <2>1. FailedTo(MarkFailed(q, k, m), q, k, m, Jobs)
    BY ONLY <1>6, MarkFailedLemma
  <2> QED
    BY ONLY <1>5, <2>1 DEF FailedTo
<1>8. /\ queue'[t] = MarkFailed(q, k, m) /\ pc'[t] = "pick"
      /\ \A u \in Tasks \ {t} : pc'[u] = pc[u] /\ queue'[u] = queue[u]
  BY <1>1, <1>2, <1>3, <1>4 DEF TypeOK
<1>9. /\ Waiting(t)' = Waiting(t) \cup (IF n + 1 <= m THEN {k} ELSE {})
      /\ Dead(t)' = Dead(t) \cup (IF n + 1 <= m THEN {} ELSE {k})
      /\ InHand(t)' = {} /\ Done(t)' = Done(t)
      /\ Started(t) /\ Started(t)' /\ pc[t] # "crashed" /\ pc'[t] # "crashed"
  BY <1>1, <1>4, <1>7, <1>8 DEF Waiting, Dead, InHand, Done, Started
<1>10. /\ queue'[t].attempts[k] = n + 1
       /\ \A i \in Jobs \ {k} : queue'[t].attempts[i] = queue[t].attempts[i]
  BY <1>4, <1>5, <1>7, <1>8 DEF QueueOf
<1>11. k \notin Dropped(t) /\ k \notin Dropped(t)'
  BY <1>6, <1>9 DEF Dropped
<1>12. /\ Phase(t, k) = "running" /\ Attempted(t, k) = n /\ Allowed(t, k) = m
       /\ Phase(t, k)' = IF n < m THEN "waiting" ELSE "dead"
       /\ Attempted(t, k)' = n + 1
  <2>1. n < m <=> n + 1 <= m
    OBVIOUS
  <2>2. Phase(t, k) = "running"
    BY <1>1, <1>6, <1>9 DEF AllPhases, PhaseOf
  <2>3. Phase(t, k)' = IF n < m THEN "waiting" ELSE "dead"
    <3>1. CASE n < m
      BY <1>1, <1>9, <2>1, <3>1 DEF AllPhases, PhaseOf
    <3>2. CASE ~(n < m)
      BY <1>1, <1>9, <2>1, <3>2 DEF AllPhases, PhaseOf
    <3> QED
      BY <3>1, <3>2
  <2>4. Attempted(t, k) = n /\ Attempted(t, k)' = n + 1
    BY <1>4, <1>5, <1>10, <1>11 DEF Attempted
  <2>5. Allowed(t, k) = m
    BY <1>3, <2>2 DEF Allowed
  <2> QED
    BY <2>2, <2>3, <2>4, <2>5
<1>13. ASSUME NEW u \in Tasks, NEW i \in Jobs
       PROVE  /\ Allowed(u, i)' = Allowed(u, i)
              /\ u # t \/ i # k => /\ Phase(u, i)' = Phase(u, i)
                                   /\ Attempted(u, i)' = Attempted(u, i)
  <2>1. CASE u # t
    BY <1>1, <1>8, <2>1, ContractFrame
  <2>2. CASE u = t
    <3>1. Allowed(t, i)' = Allowed(t, i)
      BY <1>1, <1>9, SameLimit
    <3>2. ASSUME i # k
          PROVE  Phase(t, i)' = Phase(t, i) /\ Attempted(t, i)' = Attempted(t, i)
      <4>1. /\ i \in Waiting(t)' <=> i \in Waiting(t)
            /\ i \in InHand(t)' <=> i \in InHand(t)
            /\ i \in Done(t)' <=> i \in Done(t)
            /\ i \in Dead(t)' <=> i \in Dead(t)
            /\ queue'[t].attempts[i] = queue[t].attempts[i]
        BY <1>6, <1>9, <1>10, <3>2
      <4> QED
        BY <1>1, <1>9, <4>1, SamePlaces
    <3> QED
      BY <2>2, <3>1, <3>2
  <2> QED
    BY <2>1, <2>2
<1>14. /\ phases' = [phases EXCEPT ![<<t, k>>] = IF n < m THEN "waiting" ELSE "dead"]
       /\ fails' = [fails EXCEPT ![<<t, k>>] = n + 1] /\ limits' = limits
  BY <1>12, <1>13, OneCommit
<1> QED
  BY <1>12, <1>14, ContractFail

\* A request without a queue drops the commit in hand: it is dead at once.
LEMMA RefineDrop ==
    ASSUME RInv, IInv', NEW t \in Tasks, Skip(t) \/ Reject(t)
    PROVE  Contract!Next
<1>1. /\ IInv /\ TypeOK /\ TaskInv(t) /\ AllPhases /\ AllPhases' /\ pc[t] = "got"
      /\ Kind(t) # "batch" /\ req' = req /\ queue' = queue /\ job' = job
      /\ commits' = commits
      /\ pc' = [pc EXCEPT ![t] = "pick"] \/ pc' = [pc EXCEPT ![t] = "rejected"]
  BY PhaseLemma, PhaseNext DEF RInv, IInv, Skip, Reject, Got, work
<1>2. PICK k \in Jobs : k = job[t] /\ k \in Positions(t)
  BY <1>1, InHandTypes
<1>3. req[t].retries = 0
  BY <1>1, RequestTypes, EngineAssumption DEF Kind
<1>4. /\ pc'[t] \in {"pick", "rejected"}
      /\ \A u \in Tasks \ {t} : pc'[u] = pc[u]
  BY <1>1 DEF TypeOK
<1>5. /\ Waiting(t)' = Waiting(t) /\ InHand(t)' = {} /\ InHand(t) = {k}
      /\ Done(t)' = Done(t) /\ Dead(t)' = Dead(t) /\ Positions(t)' = Positions(t)
      /\ Started(t) /\ Started(t)' /\ pc[t] # "crashed" /\ pc'[t] # "crashed"
  BY <1>1, <1>2, <1>4 DEF Waiting, InHand, Done, Dead, Positions, Started
<1>6. k \notin Dropped(t) /\ k \in Dropped(t)' /\ queue[t].attempts[k] = 0
  <2>1. k \notin Waiting(t) \cup Done(t) \cup Dead(t)
    BY <1>1, <1>5 DEF TaskInv, Places
  <2>2. k \notin Dropped(t) /\ k \in Dropped(t)'
    BY <1>2, <1>5, <2>1 DEF Dropped
  <2>3. queue[t].attempts[k] <= 0 /\ queue[t].attempts[k] \in Nat
    BY <1>1, <1>2, <1>3, <1>5 DEF TaskInv, InBudget, TypeOK, QueueOf
  <2> QED
    BY <2>2, <2>3
<1>7. /\ Phase(t, k) = "running" /\ Phase(t, k)' = "dead"
      /\ Attempted(t, k) = 0 /\ Attempted(t, k)' = 1 /\ Allowed(t, k) = 0
  <2>1. Phase(t, k) = "running" /\ Phase(t, k)' = "dead"
    BY <1>1, <1>5, <1>6 DEF AllPhases, PhaseOf
  <2> QED
    BY <1>3, <1>6, <2>1 DEF Attempted, Allowed
<1>8. ASSUME NEW u \in Tasks, NEW i \in Jobs
      PROVE  /\ Allowed(u, i)' = Allowed(u, i)
             /\ u # t \/ i # k => /\ Phase(u, i)' = Phase(u, i)
                                  /\ Attempted(u, i)' = Attempted(u, i)
  <2>1. CASE u # t
    BY <1>1, <1>4, <2>1, ContractFrame
  <2>2. CASE u = t
    BY <1>1, <1>5, <2>2, SameLimit, SamePlaces
  <2> QED
    BY <2>1, <2>2
<1>9. /\ phases' = [phases EXCEPT ![<<t, k>>] = "dead"]
      /\ fails' = [fails EXCEPT ![<<t, k>>] = 1] /\ limits' = limits
  BY <1>7, <1>8, OneCommit
<1>10. /\ phases' = [phases EXCEPT ![<<t, k>>] = IF 0 < 0 THEN "waiting" ELSE "dead"]
       /\ fails' = [fails EXCEPT ![<<t, k>>] = 0 + 1]
  BY <1>9
<1> QED
  BY <1>7, <1>9, <1>10, ContractFail

\* A request that crashes abandons what it had not settled.
LEMMA RefineCrash ==
    ASSUME RInv, IInv', NEW t \in Tasks, Crash(t)
    PROVE  Contract!Next
<1>1. /\ IInv /\ TypeOK /\ TaskInv(t) /\ AllPhases /\ AllPhases' /\ pc[t] = "got"
      /\ req' = req /\ queue' = queue /\ job' = job /\ commits' = commits
      /\ pc' = [pc EXCEPT ![t] = "crashed"]
  BY PhaseLemma, PhaseNext DEF RInv, IInv, Crash, Got, work
<1>2. pc'[t] = "crashed" /\ \A u \in Tasks \ {t} : pc'[u] = pc[u]
  BY <1>1 DEF TypeOK
<1>3. /\ Waiting(t)' = Waiting(t) /\ InHand(t)' = InHand(t)
      /\ Done(t)' = Done(t) /\ Dead(t)' = Dead(t) /\ Positions(t)' = Positions(t)
      /\ Started(t) /\ Started(t)'
  BY <1>1, <1>2 DEF Waiting, InHand, Done, Dead, Positions, Started
<1>4. Dropped(t)' = Dropped(t)
  BY <1>3 DEF Dropped
<1>5. PICK S \in SUBSET (Tasks \X Jobs) : S = {t} \X (Waiting(t) \cup InHand(t))
  <2>1. Waiting(t) \cup InHand(t) \subseteq Jobs
    BY <1>1, <1>3, RequestTypes DEF TaskInv, Covered
  <2> QED
    BY <2>1
<1>6. \A j \in Tasks \X Jobs : j[1] \in Tasks /\ j[2] \in Jobs
          /\ (j \in S <=> j[1] = t /\ j[2] \in Waiting(t) \cup InHand(t))
  BY <1>5
<1>7. ASSUME NEW i \in Jobs
      PROVE  /\ i \in Waiting(t) \cup InHand(t) =>
                   Phase(t, i) \in {"waiting", "running"} /\ Phase(t, i)' = "lost"
             /\ i \notin Waiting(t) \cup InHand(t) => Phase(t, i)' = Phase(t, i)
             /\ Attempted(t, i)' = Attempted(t, i) /\ Allowed(t, i)' = Allowed(t, i)
  <2>1. ASSUME i \in Waiting(t) \cup InHand(t)
        PROVE  Phase(t, i) \in {"waiting", "running"} /\ Phase(t, i)' = "lost"
    BY <1>1, <1>2, <1>3, <2>1 DEF AllPhases, PhaseOf
  <2>2. ASSUME i \notin Waiting(t) \cup InHand(t) PROVE Phase(t, i)' = Phase(t, i)
    <3>1. CASE i \notin Positions(t)
      BY <1>1, <1>3, <3>1 DEF AllPhases, PhaseOf
    <3>2. CASE i \in Done(t)
      BY <1>1, <1>3, <3>2 DEF AllPhases, PhaseOf
    <3>3. CASE i \in Dead(t) \cup Dropped(t)
      BY <1>1, <1>3, <1>4, <3>3 DEF AllPhases, PhaseOf
    <3> QED
      BY <1>1, <1>3, <2>2, <3>1, <3>2, <3>3 DEF AllPhases, Somewhere
  <2>3. Attempted(t, i)' = Attempted(t, i)
    BY <1>1, <1>4 DEF Attempted
  <2>4. Allowed(t, i)' = Allowed(t, i)
    BY <1>1, <1>3, SameLimit
  <2> QED
    BY <2>1, <2>2, <2>3, <2>4
<1>8. ASSUME NEW u \in Tasks \ {t}, NEW i \in Jobs
      PROVE  /\ Phase(u, i)' = Phase(u, i) /\ Attempted(u, i)' = Attempted(u, i)
             /\ Allowed(u, i)' = Allowed(u, i)
  BY <1>1, <1>2, ContractFrame
<1>9. /\ \A j \in S : phases[j] \in {"waiting", "running"}
      /\ phases' = [j \in Tasks \X Jobs |-> IF j \in S THEN "lost" ELSE phases[j]]
  BY <1>5, <1>6, <1>7, <1>8 DEF phases
<1>10. fails' = fails /\ limits' = limits
  BY <1>6, <1>7, <1>8 DEF fails, limits
<1>11. Contract!Abandon(S)
  BY <1>9, <1>10 DEF Contract!Abandon, phases, fails, limits, Attempted, Allowed
<1> QED
  BY <1>11 DEF Contract!Next

\* A step that moves no commit of any request.
LEMMA ContractStutter ==
    ASSUME \A u \in Tasks, i \in Jobs : /\ Phase(u, i)' = Phase(u, i)
                                        /\ Attempted(u, i)' = Attempted(u, i)
                                        /\ Allowed(u, i)' = Allowed(u, i)
    PROVE  UNCHANGED Contract!vars
<1>1. \A j \in Tasks \X Jobs : j[1] \in Tasks /\ j[2] \in Jobs
  OBVIOUS
<1>2. phases' = phases /\ fails' = fails /\ limits' = limits
  BY <1>1 DEF phases, fails, limits
<1> QED
  BY <1>2 DEF Contract!vars, phases, fails, limits, Attempted, Allowed

LEMMA RefineStutter ==
    ASSUME RInv, IInv', NEW t \in Tasks, Reply(t) \/ Finish(t)
    PROVE  UNCHANGED Contract!vars
<1>1. /\ IInv /\ TypeOK /\ req' = req /\ queue' = queue /\ job' = job /\ commits' = commits
      /\ \/ pc[t] = "wait" /\ pc' = [pc EXCEPT ![t] = "got"]
         \/ pc[t] = "pick" /\ pc' = [pc EXCEPT ![t] = "done"]
  BY DEF RInv, IInv, Reply, Finish
<1>2. /\ pc'[t] \in {"got", "done"} /\ (pc'[t] = "got" <=> pc[t] = "wait")
      /\ pc[t] \in {"wait", "pick"}
      /\ \A u \in Tasks \ {t} : pc'[u] = pc[u]
  BY <1>1 DEF TypeOK
<1>3. /\ Waiting(t)' = Waiting(t) /\ InHand(t)' = InHand(t)
      /\ Done(t)' = Done(t) /\ Dead(t)' = Dead(t)
      /\ Started(t) /\ Started(t)' /\ pc[t] # "crashed" /\ pc'[t] # "crashed"
  BY <1>1, <1>2 DEF Waiting, InHand, Done, Dead, Started
<1>4. ASSUME NEW u \in Tasks, NEW i \in Jobs
      PROVE  /\ Phase(u, i)' = Phase(u, i) /\ Attempted(u, i)' = Attempted(u, i)
             /\ Allowed(u, i)' = Allowed(u, i)
  <2>1. CASE u # t
    BY <1>1, <1>2, <2>1, ContractFrame
  <2>2. CASE u = t
    BY <1>1, <1>3, <2>2, SamePlaces
  <2> QED
    BY <2>1, <2>2
<1> QED
  BY <1>4, ContractStutter

-----------------------------------------------------------------------------
(* The refinement.                                                         *)

LEMMA FreshStep == IInv /\ (\A t \in Tasks : Fresh(t)) /\ [Next]_vars
                   => \A t \in Tasks : Fresh(t)'
<1> SUFFICES ASSUME IInv, \A t \in Tasks : Fresh(t), [Next]_vars, NEW u \in Tasks
             PROVE  Fresh(u)'
  OBVIOUS
<1>1. CASE UNCHANGED vars
  BY <1>1 DEF vars, control, work, Fresh, Started
<1>2. ASSUME NEW t \in Tasks, Start(t) \/ Step(t) PROVE Fresh(u)'
  <2>1. /\ pc \in [Tasks -> {"new", "pick", "wait", "got", "done", "rejected", "crashed"}]
        /\ queue \in [Tasks -> QueueOf(Jobs)]
    BY DEF IInv, TypeOK
  <2>2. \E x \in {"pick", "wait", "got", "done", "rejected", "crashed"} :
            pc' = [pc EXCEPT ![t] = x]
    BY <1>2 DEF Start, Step, Fetch, FromCache, Reply, Succeed, Fail, Skip, Reject,
                Crash, Finish
  <2>3. \E q : queue' = [queue EXCEPT ![t] = q]
    <3>1. queue = [queue EXCEPT ![t] = queue[t]]
      BY <2>1
    <3> QED
      BY <1>2, <3>1 DEF Start, Step, Fetch, FromCache, TakeJob, Reply, Succeed, Fail,
                        Skip, Reject, Crash, Finish, work
  <2>4. CASE u = t
    BY <2>1, <2>2, <2>4 DEF Fresh, Started
  <2>5. CASE u # t
    BY <2>1, <2>2, <2>3, <2>5 DEF Fresh, Started
  <2> QED
    BY <2>4, <2>5
<1> QED
  BY <1>1, <1>2 DEF Next

LEMMA RefineInit == Init => RInv /\ Contract!Init
<1> SUFFICES ASSUME Init PROVE RInv /\ Contract!Init
  OBVIOUS
<1>1. IInv /\ AllPhases /\ \A t \in Tasks : ~Started(t)
  BY InitInv, PhaseLemma DEF Init, Started
<1>2. \A t \in Tasks, i \in Jobs : queue[t].attempts[i] = 0
  BY DEF Init, EmptyQueue
<1>3. RInv
  BY <1>1, <1>2 DEF RInv, Fresh
<1>4. ASSUME NEW t \in Tasks, NEW i \in Jobs
      PROVE  Phase(t, i) = "absent" /\ Attempted(t, i) = 0 /\ Allowed(t, i) = 0
  <2>1. Phase(t, i) = "absent" /\ Dropped(t) = {}
    BY <1>1 DEF AllPhases, PhaseOf, Dropped
  <2> QED
    BY <1>2, <2>1 DEF Attempted, Allowed
<1>5. \A j \in Tasks \X Jobs : j[1] \in Tasks /\ j[2] \in Jobs
  OBVIOUS
<1>6. /\ phases = [j \in Tasks \X Jobs |-> "absent"]
      /\ fails = [j \in Tasks \X Jobs |-> 0] /\ limits = [j \in Tasks \X Jobs |-> 0]
  BY <1>4, <1>5 DEF phases, fails, limits
<1>7. Contract!Init
  BY <1>6 DEF Contract!Init, phases, fails, limits, Attempted, Allowed
<1> QED
  BY <1>3, <1>7

LEMMA RefineNext == RInv /\ [Next]_vars => RInv' /\ [Contract!Next]_(Contract!vars)
<1> SUFFICES ASSUME RInv, [Next]_vars PROVE RInv' /\ [Contract!Next]_(Contract!vars)
  OBVIOUS
<1>1. IInv' /\ RInv'
  BY NextInv, FreshStep DEF RInv
<1>2. ASSUME NEW t \in Tasks, Start(t) \/ Step(t)
      PROVE  Contract!Next \/ UNCHANGED Contract!vars
  <2>1. CASE Start(t)
    BY <1>1, <2>1, RefineStart
  <2>2. CASE Fetch(t) \/ FromCache(t)
    <3>1. /\ TakeJob(t) /\ req' = req /\ commits' = commits
          /\ pc' = [pc EXCEPT ![t] = "wait"] \/ pc' = [pc EXCEPT ![t] = "got"]
      BY <2>2 DEF Fetch, FromCache
    <3> QED
      BY <1>1, <3>1, RefineTake
  <2>3. CASE Reply(t) \/ Finish(t)
    BY <1>1, <2>3, RefineStutter
  <2>4. CASE Succeed(t)
    BY <1>1, <2>4, RefineSucceed
  <2>5. CASE Fail(t)
    BY <1>1, <2>5, RefineFail
  <2>6. CASE Skip(t) \/ Reject(t)
    BY <1>1, <2>6, RefineDrop
  <2>7. CASE Crash(t)
    BY <1>1, <2>7, RefineCrash
  <2> QED
    BY <1>2, <2>1, <2>2, <2>3, <2>4, <2>5, <2>6, <2>7 DEF Step
<1>3. CASE UNCHANGED vars
  <2>1. UNCHANGED <<req, pc, queue, job, commits>>
    BY <1>3 DEF vars, control, work
  <2>2. ASSUME NEW u \in Tasks, NEW i \in Jobs
        PROVE  /\ Phase(u, i)' = Phase(u, i) /\ Attempted(u, i)' = Attempted(u, i)
               /\ Allowed(u, i)' = Allowed(u, i)
    BY <2>1, ContractFrame
  <2>3. UNCHANGED Contract!vars
    BY <2>2, ContractStutter
  <2> QED
    BY <1>1, <2>3
<1> QED
  BY <1>1, <1>2, <1>3 DEF Next

\* Whatever the requests, however they interleave and whatever GitHub answers,
\* every commit keeps the job contract: one attempt at a time, no more than
\* its retries allow, one ending, and lost only with its request.
THEOREM Refinement == Spec => KeepsContract
<1>1. Init => RInv /\ Contract!Init
  BY RefineInit
<1>2. RInv /\ [Next]_vars => RInv' /\ [Contract!Next]_(Contract!vars)
  BY RefineNext
<1> QED
  BY <1>1, <1>2, PTL DEF Spec, KeepsContract, Contract!Spec

-----------------------------------------------------------------------------
(* What is settled stays settled.                                          *)

LEMMA SettledStep ==
    ASSUME RInv, NEW t \in Tasks, Start(t) \/ Step(t)
    PROVE  KeepsSettled
<1>1. /\ TypeOK /\ queue[t] \in QueueOf(Jobs) /\ commits[t] \in Seq(Jobs)
      /\ TaskInv(t)
  BY DEF RInv, IInv, TypeOK
<1>2. pc[t] \in {"new", "pick", "wait", "got"}
  BY DEF Start, Step, Fetch, FromCache, TakeJob, Reply, Succeed, Fail, Skip, Reject,
         Crash, Finish, Got
<1>3. ASSUME NEW u \in Tasks \ {t}
      PROVE  UNCHANGED <<pc[u], queue[u], commits[u], status[u]>>
  BY <1>1 DEF TypeOK, Start, Step, Fetch, FromCache, TakeJob, Reply, Succeed, Fail,
              Skip, Reject, Crash, Finish, work
<1>4. metadata \subseteq metadata' /\ raw \subseteq raw'
  BY DEF Start, Step, Fetch, FromCache, TakeJob, Reply, Succeed, Fail, Skip, Reject,
         Crash, Finish, StoreRaw, stores
<1>5. ASSUME NEW r \in Repos, lastSha[r] # NoSha PROVE lastSha'[r] # NoSha
  <2>1. CASE Succeed(t)
    <3>1. MetaKey(t)[2] \in Refs
      BY <1>1, <2>1, InHandTypes DEF RInv, Succeed, Got
    <3> QED
      BY <1>1, <1>5, <2>1, <3>1, EngineAssumption DEF Succeed, TypeOK
  <2>2. CASE lastSha' = lastSha
    BY <1>5, <2>2
  <2> QED
    BY <2>1, <2>2 DEF Start, Step, Fetch, FromCache, TakeJob, Reply, Fail, Skip,
                      Reject, Crash, Finish, stores
<1>6. Done(t) \subseteq Done(t)'
  <2>1. CASE Succeed(t)
    <3>1. commits'[t] = Append(commits[t], job[t]) /\ job[t] \in Jobs
      BY <1>1, <2>1, InHandTypes DEF RInv, Succeed, Got, TypeOK
    <3> QED
      BY <1>1, <3>1, AppendLemma DEF Done
  <2>2. CASE commits' = commits
    BY <2>2 DEF Done
  <2> QED
    BY <2>1, <2>2 DEF Start, Step, Fetch, FromCache, TakeJob, Reply, Fail, Skip,
                      Reject, Crash, Finish, work
<1>7. Dead(t) \subseteq Dead(t)'
  <2>1. CASE Start(t)
    <3>1. Fresh(t) /\ ~Started(t) /\ req[t].retries \in Nat
      BY <1>1, <2>1, RequestTypes DEF RInv, Start, Started
    <3>2. Dead(t) \subseteq Jobs /\ Dead(t) = {}
      BY <1>1, <3>1, SMTT(30) DEF Fresh, TaskInv, InBudget, QueueOf, Dead, Range
    <3> QED
      BY <3>2
  <2>2. CASE Fetch(t) \/ FromCache(t)
    <3>1. queue'[t] = Dequeue(queue[t])
      BY <1>1, <2>2 DEF Fetch, FromCache, TakeJob, TypeOK
    <3> QED
      BY <3>1 DEF Dequeue, Dead
  <2>3. CASE Fail(t)
    <3>1. queue'[t] = MarkFailed(queue[t], job[t], req[t].retries) /\ job[t] \in Jobs
      BY <1>1, <2>3, InHandTypes DEF RInv, Fail, Got, TypeOK
    <3>2. Range(Append(queue[t].dead, job[t])) = Dead(t) \cup {job[t]}
      BY <1>1, <3>1, AppendLemma DEF QueueOf, Dead
    <3>3. queue'[t].dead \in {queue[t].dead, Append(queue[t].dead, job[t])}
      BY <1>1, <3>1 DEF MarkFailed, QueueOf
    <3> QED
      BY <3>2, <3>3 DEF Dead
  <2>4. CASE queue' = queue
    BY <2>4 DEF Dead
  <2> QED
    BY <2>1, <2>2, <2>3, <2>4 DEF Step, Reply, Succeed, Skip, Reject, Crash, Finish, work
<1>8. ASSUME NEW u \in Tasks
      PROVE  /\ Done(u) \subseteq Done(u)' /\ Dead(u) \subseteq Dead(u)'
             /\ Ended(u) => UNCHANGED <<pc[u], queue[u], commits[u], status[u]>>
  <2>1. CASE u = t
    BY <1>2, <1>6, <1>7, <2>1 DEF Ended
  <2>2. CASE u # t
    BY <1>3, <2>2 DEF Done, Dead
  <2> QED
    BY <2>1, <2>2
<1> QED
  BY <1>4, <1>5, <1>8 DEF KeepsSettled

\* No later step takes back a result, a dead letter, a status or a record in a
\* store, for any requests.
THEOREM NothingTakenBack == Spec => SettledStays
<1>1. Init => RInv
  BY RefineInit
<1>2. RInv /\ [Next]_vars => RInv' /\ [KeepsSettled]_vars
  BY RefineNext, SettledStep DEF Next
<1> QED
  BY <1>1, <1>2, PTL DEF Spec, SettledStays

-----------------------------------------------------------------------------
(* Stores and results.                                                     *)

\* A step that writes none of the three.
LEMMA StoresFrame ==
    ASSUME StoresAgree, ResultsStored, req' = req, commits' = commits,
           raw \subseteq raw', metadata' = metadata, lastSha' = lastSha
    PROVE  StoresAgree' /\ ResultsStored'
<1>1. StoresAgree'
  BY DEF StoresAgree
<1>2. ResultsStored'
  BY DEF ResultsStored, Done, Repo, RefAt
<1> QED
  BY <1>1, <1>2

\* A success writes the raw commit and the metadata under one key, and last_sha.
LEMMA StoresSucceed ==
    ASSUME IInv, StoresAgree, ResultsStored, NEW t \in Tasks, Succeed(t)
    PROVE  StoresAgree' /\ ResultsStored'
<1> DEFINE sha == ShaOf[RefAt(t, job[t])]
<1>1. /\ TypeOK /\ pc[t] = "got" /\ outcome[t] = "valid" /\ req' = req
      /\ raw' = raw \cup {RawKey(t)} /\ metadata' = metadata \cup {MetaKey(t)}
      /\ lastSha' = [lastSha EXCEPT ![Repo(t)] = MetaKey(t)[2]]
      /\ commits' = [commits EXCEPT ![t] = Append(commits[t], job[t])]
  BY DEF IInv, Succeed, Got, StoreRaw, Payloads
<1>2. /\ MetaKey(t) = <<Repo(t), sha>> /\ RawKey(t) = <<Repo(t), sha>>
      /\ MetaKey(t)[2] = sha /\ sha \in Refs /\ Repo(t) \in Repos /\ job[t] \in Jobs
  BY <1>1, InHandTypes, RequestTypes DEF MetaKey, RawKey
<1> HIDE DEF sha
<1>3. /\ lastSha'[Repo(t)] = sha
      /\ \A r \in Repos \ {Repo(t)} : lastSha'[r] = lastSha[r]
  BY <1>1, <1>2 DEF TypeOK
<1>4. StoresAgree'
  <2>1. metadata' \subseteq raw'
    BY <1>1, <1>2 DEF StoresAgree
  <2>2. ASSUME NEW r \in Repos
        PROVE  IF \E ref \in Refs : <<r, ref>> \in metadata'
               THEN <<r, lastSha'[r]>> \in metadata'
               ELSE lastSha'[r] = NoSha
    <3>1. CASE r = Repo(t)
      BY <1>1, <1>2, <1>3, <3>1
    <3>2. CASE r # Repo(t)
      <4>1. \A ref : <<r, ref>> \in metadata' <=> <<r, ref>> \in metadata
        BY <1>1, <1>2, <3>2
      <4> QED
        BY <1>3, <3>2, <4>1 DEF StoresAgree
    <3> QED
      BY <3>1, <3>2
  <2> QED
    BY <2>1, <2>2 DEF StoresAgree
<1>5. ResultsStored'
  <2> SUFFICES ASSUME NEW u \in Tasks, NEW i \in Done(u)'
               PROVE  <<Repo(u), ShaOf[RefAt(u, i)]>> \in metadata'
    BY <1>1 DEF ResultsStored, Repo, RefAt
  <2>1. CASE u = t
    <3>1. commits[t] \in Seq(Jobs) /\ commits'[t] = Append(commits[t], job[t])
      BY <1>1 DEF TypeOK
    <3>2. Done(t)' = Done(t) \cup {job[t]}
      BY <1>2, <3>1, AppendLemma DEF Done
    <3> QED
      BY <1>1, <1>2, <2>1, <3>2 DEF ResultsStored, sha
  <2>2. CASE u # t
    <3>1. Done(u)' = Done(u)
      BY <1>1, <2>2 DEF Done, TypeOK
    <3> QED
      BY <1>1, <3>1 DEF ResultsStored
  <2> QED
    BY <2>1, <2>2
<1> QED
  BY <1>4, <1>5

LEMMA StoresStep ==
    ASSUME IInv, StoresAgree, ResultsStored, [Next]_vars
    PROVE  StoresAgree' /\ ResultsStored'
<1>1. ASSUME NEW t \in Tasks, Start(t) \/ (Step(t) /\ ~Succeed(t))
      PROVE  StoresAgree' /\ ResultsStored'
  <2>1. req' = req /\ commits' = commits /\ metadata' = metadata /\ lastSha' = lastSha
    BY <1>1 DEF Start, Step, Fetch, FromCache, Reply, Fail, Skip, Reject, Crash,
                Finish, work, stores
  <2>2. raw \subseteq raw'
    BY <1>1 DEF Start, Step, Fetch, FromCache, Reply, Fail, Skip, Reject, Crash,
                Finish, stores, StoreRaw
  <2> QED
    BY <2>1, <2>2, StoresFrame
<1>2. ASSUME NEW t \in Tasks, Succeed(t) PROVE StoresAgree' /\ ResultsStored'
  BY <1>2, StoresSucceed
<1>3. CASE UNCHANGED vars
  BY <1>3, StoresFrame DEF vars, control, work, stores
<1> QED
  BY <1>1, <1>2, <1>3 DEF Next

-----------------------------------------------------------------------------
(* The cache.                                                              *)

\* Every client has a cache of its own, which has the answer in hand if it is
\* a payload, and those of all results.
CacheInv(t) ==
    /\ cacheOf[t] = t
    /\ pc[t] = "wait" => Cached(t, job[t]) = Miss
    /\ pc[t] = "got" /\ outcome[t] \in Payloads => Cached(t, job[t]) = outcome[t]
    /\ \A i \in Done(t) : Cached(t, i) = "valid"

CachesInv == cache[AppCache] = EmptyCache /\ \A t \in Tasks : CacheInv(t)

LEMMA CachesConsequence == CachesInv => AnsweredOnce
  BY DEF CachesInv, CacheInv, AnsweredOnce

\* A step that leaves t, its results and its cache alone.
LEMMA CacheFrame ==
    ASSUME NEW t \in Tasks, CacheInv(t), req' = req, cacheOf'[t] = cacheOf[t],
           cache'[t] = cache[t], commits'[t] = commits[t],
           \/ pc'[t] \notin {"wait", "got"}
           \/ pc'[t] = pc[t] /\ job'[t] = job[t] /\ outcome'[t] = outcome[t]
    PROVE  CacheInv(t)'
<1>1. cacheOf'[t] = t /\ Done(t)' = Done(t)
  BY DEF CacheInv, Done
<1>2. \A i : Cached(t, i)' = Cached(t, i)
  BY DEF CacheInv, Cached, Key, Repo, RefAt
<1> QED
  BY <1>1, <1>2 DEF CacheInv

LEMMA CachesStep ==
    ASSUME IInv, CachesInv, [Next]_vars
    PROVE  CachesInv'
<1>0. /\ TypeOK /\ AppCache \notin Tasks /\ cache[AppCache] = EmptyCache
      /\ \A t \in Tasks : CacheInv(t) /\ cacheOf[t] = t
  BY EngineAssumption DEF IInv, CachesInv, CacheInv
<1>1. ASSUME NEW t \in Tasks, Start(t) PROVE CachesInv'
  <2>1. /\ pc' = [pc EXCEPT ![t] = "pick"] /\ req' = req /\ cache' = cache
        /\ cacheOf' = [cacheOf EXCEPT ![t] = t]
        /\ UNCHANGED <<job, outcome, commits>>
    BY <1>0, <1>1 DEF Start, ClientCache
  <2>2. ASSUME NEW u \in Tasks PROVE CacheInv(u)'
    BY <1>0, <2>1, CacheFrame DEF TypeOK
  <2> QED
    BY <1>0, <2>1, <2>2 DEF CachesInv
<1>2. ASSUME NEW t \in Tasks, Fetch(t) \/ FromCache(t) PROVE CachesInv'
  <2>1. /\ TakeJob(t) /\ req' = req
        /\ UNCHANGED <<commits, cache, cacheOf>>
        /\ \/ /\ Cached(t, NextJob(queue[t])) = Miss
              /\ pc' = [pc EXCEPT ![t] = "wait"] /\ outcome' = outcome
           \/ /\ pc' = [pc EXCEPT ![t] = "got"]
              /\ outcome' = [outcome EXCEPT ![t] = Cached(t, NextJob(queue[t]))]
    BY <1>2 DEF Fetch, FromCache
  <2>2. job' = [job EXCEPT ![t] = NextJob(queue[t])]
    BY <2>1 DEF TakeJob
  <2>3. CacheInv(t)'
    <3>1. job'[t] = NextJob(queue[t]) /\ cacheOf'[t] = t /\ Done(t)' = Done(t)
      BY <1>0, <2>1, <2>2 DEF TypeOK, Done
    <3>2. \A i : Cached(t, i)' = Cached(t, i)
      BY <2>1 DEF Cached, Key, Repo, RefAt
    <3>3. \/ pc'[t] = "wait" /\ Cached(t, job'[t]) = Miss
          \/ pc'[t] = "got" /\ outcome'[t] = Cached(t, job'[t])
      BY <1>0, <2>1, <3>1 DEF TypeOK
    <3> QED
      BY <1>0, <3>1, <3>2, <3>3 DEF CacheInv
  <2>4. ASSUME NEW u \in Tasks \ {t} PROVE CacheInv(u)'
    BY <1>0, <2>1, <2>2, CacheFrame DEF TypeOK
  <2> QED
    BY <1>0, <2>1, <2>3, <2>4 DEF CachesInv
<1>3. ASSUME NEW t \in Tasks, Reply(t) PROVE CachesInv'
  <2>1. PICK o \in Outcomes :
          /\ outcome' = [outcome EXCEPT ![t] = o]
          /\ cache' = IF o \in Payloads
                      THEN [cache EXCEPT ![t][Key(t, job[t])] = o] ELSE cache
    BY <1>0, <1>3 DEF Reply
  <2>2. /\ pc[t] = "wait" /\ pc' = [pc EXCEPT ![t] = "got"] /\ req' = req
        /\ UNCHANGED <<job, commits, cacheOf>>
    BY <1>3 DEF Reply
  <2>3. Key(t, job[t]) \in Keys /\ cache[t] \in [Keys -> Payloads \cup {Miss}]
    BY <1>0, <2>2, InHandTypes DEF TypeOK
  <2>4. CacheInv(t)'
    <3>1. \A i : Key(t, i)' = Key(t, i)
      BY <2>2 DEF Key, Repo, RefAt
    <3>2. /\ outcome'[t] = o /\ job'[t] = job[t] /\ cacheOf'[t] = t /\ pc'[t] = "got"
          /\ Done(t)' = Done(t)
      BY <1>0, <2>1, <2>2 DEF TypeOK, Done
    <3>3. /\ o \in Payloads => cache'[t] = [cache[t] EXCEPT ![Key(t, job[t])] = o]
          /\ o \notin Payloads => cache'[t] = cache[t]
      BY <1>0, <2>1 DEF TypeOK
    <3>4. o \in Payloads => Cached(t, job[t])' = o
      BY <2>3, <3>1, <3>2, <3>3 DEF Cached
    <3>5. ASSUME NEW i \in Done(t) PROVE Cached(t, i)' = "valid"
      <4>1. cache[t][Key(t, i)] = "valid" /\ cache[t][Key(t, job[t])] = Miss
        BY <1>0, <2>2 DEF CacheInv, Cached
      <4>2. Key(t, i) # Key(t, job[t])
        BY <4>1, MissAssumption DEF Payloads
      <4>3. i \in Positions(t)
        BY <2>2 DEF IInv, TaskInv, Covered, Started
      <4>4. Key(t, i) \in Keys
        BY <1>0, <4>3, RequestTypes DEF Key, Keys
      <4>5. cache'[t][Key(t, i)] = cache[t][Key(t, i)]
        BY <2>3, <3>3, <4>2, <4>4
      <4> QED
        BY <3>1, <3>2, <4>1, <4>5 DEF Cached
    <3> QED
      BY <3>2, <3>4, <3>5 DEF CacheInv
  <2>5. ASSUME NEW u \in Tasks \ {t} PROVE CacheInv(u)'
    BY <1>0, <2>1, <2>2, CacheFrame DEF TypeOK
  <2>6. cache'[AppCache] = cache[AppCache]
    BY <1>0, <2>1 DEF TypeOK
  <2> QED
    BY <1>0, <2>4, <2>5, <2>6 DEF CachesInv
<1>4. ASSUME NEW t \in Tasks, Succeed(t) PROVE CachesInv'
  <2>1. /\ pc[t] = "got" /\ outcome[t] = "valid" /\ pc' = [pc EXCEPT ![t] = "pick"]
        /\ commits' = [commits EXCEPT ![t] = Append(commits[t], job[t])]
        /\ UNCHANGED <<req, job, outcome, cache, cacheOf>>
    BY <1>4 DEF Succeed, Got
  <2>2. CacheInv(t)'
    <3>1. Done(t)' = Done(t) \cup {job[t]}
      <4>1. commits[t] \in Seq(Jobs) /\ commits'[t] = Append(commits[t], job[t])
        BY <1>0, <2>1 DEF TypeOK
      <4>2. job[t] \in Jobs
        BY <2>1, InHandTypes
      <4> QED
        BY <4>1, <4>2, AppendLemma DEF Done
    <3>2. Cached(t, job[t]) = "valid" /\ \A i : Cached(t, i)' = Cached(t, i)
      BY <1>0, <2>1 DEF CacheInv, Payloads, Cached, Key, Repo, RefAt
    <3>3. pc'[t] = "pick" /\ cacheOf'[t] = t
      BY <1>0, <2>1 DEF TypeOK
    <3> QED
      BY <1>0, <3>1, <3>2, <3>3 DEF CacheInv
  <2>3. ASSUME NEW u \in Tasks \ {t} PROVE CacheInv(u)'
    BY <1>0, <2>1, CacheFrame DEF TypeOK
  <2> QED
    BY <1>0, <2>1, <2>2, <2>3 DEF CachesInv
<1>5. ASSUME NEW t \in Tasks, Fail(t) \/ Skip(t) \/ Reject(t) \/ Crash(t) \/ Finish(t)
      PROVE  CachesInv'
  <2>1. /\ UNCHANGED <<req, job, outcome, commits, cache, cacheOf>>
        /\ \E s \in {"pick", "rejected", "crashed", "done"} : pc' = [pc EXCEPT ![t] = s]
    BY <1>5 DEF Fail, Skip, Reject, Crash, Finish, work
  <2>2. ASSUME NEW u \in Tasks PROVE CacheInv(u)'
    BY <1>0, <2>1, CacheFrame DEF TypeOK
  <2> QED
    BY <1>0, <2>1, <2>2 DEF CachesInv
<1>6. CASE UNCHANGED vars
  <2>1. UNCHANGED <<req, pc, job, outcome, commits, cache, cacheOf>>
    BY <1>6 DEF vars, control, work
  <2> QED
    BY <1>0, <2>1, CacheFrame DEF CachesInv
<1> QED
  BY <1>1, <1>2, <1>3, <1>4, <1>5, <1>6 DEF Next, Step

-----------------------------------------------------------------------------
(* The order of results.                                                   *)

Ascending(s) == \A a, b \in DOMAIN s : a < b => s[a] < s[b]

LEMMA TailAscending ==
    ASSUME NEW s \in Seq(Nat), s # <<>>, Ascending(s)
    PROVE  Ascending(Tail(s)) /\ \A i \in Range(Tail(s)) : Head(s) < i
<1>1. /\ Tail(s) \in Seq(Nat) /\ Len(s) \in Nat /\ Len(s) > 0
      /\ Len(Tail(s)) = Len(s) - 1 /\ Head(s) = s[1]
      /\ \A i \in 1 .. Len(Tail(s)) : Tail(s)[i] = s[i + 1]
  BY HeadTailProperties, EmptySeq, LenProperties
<1>2. DOMAIN s = 1 .. Len(s) /\ DOMAIN Tail(s) = 1 .. Len(s) - 1
  BY <1>1, LenProperties
<1>3. \A i \in DOMAIN Tail(s) : i + 1 \in DOMAIN s /\ Tail(s)[i] = s[i + 1] /\ 1 < i + 1
  BY <1>1, <1>2
<1>4. 1 \in DOMAIN s
  BY <1>1, <1>2
<1> QED
  BY <1>1, <1>2, <1>3, <1>4, SMTT(30) DEF Ascending, Range

LEMMA AppendAscending ==
    ASSUME NEW s \in Seq(Nat), NEW e \in Nat, Ascending(s), \A i \in Range(s) : i < e
    PROVE  Ascending(Append(s, e))
<1>1. /\ Len(Append(s, e)) = Len(s) + 1 /\ Len(s) \in Nat
      /\ \A i \in 1 .. Len(s) : Append(s, e)[i] = s[i]
      /\ Append(s, e)[Len(s) + 1] = e
  BY AppendProperties, LenProperties
<1>2. DOMAIN s = 1 .. Len(s) /\ DOMAIN Append(s, e) = 1 .. Len(s) + 1
  <2>1. Append(s, e) \in Seq(Nat)
    BY AppendProperties
  <2> QED
    BY <1>1, <2>1, LenProperties
<1> SUFFICES ASSUME NEW a \in 1 .. Len(s) + 1, NEW b \in 1 .. Len(s) + 1, a < b
             PROVE  Append(s, e)[a] < Append(s, e)[b]
  BY <1>2 DEF Ascending
<1>3. a \in 1 .. Len(s)
  BY <1>1
<1>4. CASE b = Len(s) + 1
  BY <1>1, <1>2, <1>3, <1>4 DEF Range
<1>5. CASE b \in 1 .. Len(s)
  BY <1>1, <1>2, <1>3, <1>5 DEF Ascending
<1> QED
  BY <1>1, <1>4, <1>5

LEMMA NoneInRange == ASSUME NEW S, NEW s \in Seq(S), Range(s) = {} PROVE s = <<>>
<1>1. Len(s) \in Nat /\ DOMAIN s = 1 .. Len(s)
  BY LenProperties
<1>2. Len(s) = 0
  <2> SUFFICES ASSUME Len(s) # 0 PROVE FALSE
    OBVIOUS
  <2>1. s[1] \in Range(s)
    BY <1>1 DEF Range
  <2> QED
    BY <2>1
<1> QED
  BY <1>2, EmptySeq

\* What waits in the main queue comes after everything else; a retry is of the
\* job tried last, which comes after all that is done.
OrderInv(t) ==
    Started(t) =>
      /\ Ascending(queue[t].main) /\ Ascending(commits[t])
      /\ \A i \in Range(queue[t].main), k \in Positions(t) \ Range(queue[t].main) : k < i
      /\ InHand(t) # {} => queue[t].retry = <<>>
      /\ Range(queue[t].retry) \subseteq {job[t]}
      /\ queue[t].retry # <<>> \/ InHand(t) # {} => \A k \in Done(t) : k < job[t]

LEMMA OrderConsequence == (\A t \in Tasks : OrderInv(t)) => InOrder
<1> SUFFICES ASSUME NEW t \in Tasks, OrderInv(t), Started(t)
             PROVE  /\ \A i \in Range(queue[t].main), k \in Positions(t) \ Waiting(t) : k < i
                    /\ InHand(t) # {} => queue[t].retry = <<>>
                    /\ Range(queue[t].retry) \subseteq {job[t]}
                    /\ \A a, b \in DOMAIN commits[t] : a < b => commits[t][a] < commits[t][b]
  BY DEF InOrder
<1> QED
  BY DEF OrderInv, Waiting, Ascending

\* A step at which request u takes no job, settles none and is not begun.
LEMMA OrderFrame ==
    ASSUME NEW u \in Tasks, OrderInv(u), req' = req, queue'[u] = queue[u],
           job'[u] = job[u], commits'[u] = commits[u],
           Started(u)' = Started(u), InHand(u)' \subseteq InHand(u)
    PROVE  OrderInv(u)'
  BY DEF OrderInv, Positions, Done

LEMMA OrderStart ==
    ASSUME IInv, NEW t \in Tasks, Start(t)
    PROVE  OrderInv(t)'
<1> DEFINE s == [i \in Positions(t) |-> i]
<1>1. /\ TypeOK /\ TaskInv(t) /\ ~Started(t) /\ pc' = [pc EXCEPT ![t] = "pick"]
      /\ req' = req /\ commits' = commits
      /\ queue' = [queue EXCEPT ![t] = EnqueueMany(EmptyQueue(Jobs), s)]
  BY DEF IInv, Start, Started
<1>2. Len(req[t].refs) \in Nat /\ Positions(t) \subseteq Jobs
  BY <1>1, RequestTypes
<1>3. s \in Seq(Jobs) /\ Range(s) = Positions(t) /\ Ascending(s)
  <2>1. s \in Seq(Jobs)
    BY <1>2, IsASeq DEF Positions
  <2> QED
    BY <1>2, <2>1 DEF Range, Ascending
<1>4. <<>> \o s = s
  BY <1>3, ConcatEmptySeq
<1> HIDE DEF s
<1>5. queue'[t].main = s /\ queue'[t].retry = <<>> /\ pc'[t] = "pick" /\ commits'[t] = <<>>
  BY <1>1, <1>4 DEF TypeOK, EnqueueMany, EmptyQueue, TaskInv
<1>6. InHand(t)' = {} /\ Positions(t)' = Positions(t) /\ Done(t)' = {}
  BY <1>1, <1>5, EmptyLemma DEF InHand, Positions, Done
<1> QED
  BY <1>3, <1>5, <1>6, EmptyLemma DEF OrderInv, Ascending

LEMMA OrderTake ==
    ASSUME IInv, NEW t \in Tasks, OrderInv(t), TakeJob(t), req' = req,
           commits' = commits, pc'[t] \in {"wait", "got"}
    PROVE  OrderInv(t)'
<1>1. /\ TypeOK /\ TaskInv(t) /\ Started(t) /\ ~IsEmpty(queue[t])
      /\ queue[t] \in QueueOf(Jobs) /\ NoRepeats(queue[t])
      /\ queue'[t] = Dequeue(queue[t]) /\ job'[t] = NextJob(queue[t])
  BY DEF IInv, TypeOK, TaskInv, Places, TakeJob, Started
<1>2. /\ InHand(t)' = {job'[t]} /\ Positions(t)' = Positions(t) /\ Done(t)' = Done(t)
      /\ Started(t)'
  BY DEF InHand, Positions, Done, Started
<1>3. /\ queue[t].main \in Seq(Jobs) /\ queue[t].retry \in Seq(Jobs)
      /\ IsInjective(queue[t].main) /\ IsInjective(queue[t].retry)
  BY <1>1 DEF QueueOf, NoRepeats
<1>4. Jobs \subseteq Nat
  BY EngineAssumption DEF Jobs
<1>5. Done(t) \subseteq Positions(t) /\ Done(t) \cap Range(queue[t].main) = {}
  BY <1>1 DEF TaskInv, Covered, Places, Waiting
<1>6. CASE queue[t].retry # <<>>
  <2>1. /\ queue'[t].main = queue[t].main /\ queue'[t].retry = Tail(queue[t].retry)
        /\ job'[t] = Head(queue[t].retry)
    BY <1>1, <1>6 DEF Dequeue, NextJob, QueueOf
  <2>2. /\ Tail(queue[t].retry) \in Seq(Jobs)
        /\ Head(queue[t].retry) \in Range(queue[t].retry)
        /\ Range(Tail(queue[t].retry)) = Range(queue[t].retry) \ {Head(queue[t].retry)}
    BY <1>3, <1>6, TailLemma
  <2>3. job'[t] = job[t] /\ Range(queue[t].retry) \subseteq {job[t]}
    BY <1>1, <2>1, <2>2 DEF OrderInv
  <2>4. queue'[t].retry = <<>>
    BY <2>1, <2>2, <2>3, NoneInRange
  <2> QED
    BY <1>1, <1>2, <1>6, <2>1, <2>3, <2>4, EmptyLemma DEF OrderInv
<1>7. CASE queue[t].retry = <<>>
  <2>1. /\ queue[t].main # <<>> /\ queue'[t].main = Tail(queue[t].main)
        /\ queue'[t].retry = <<>> /\ job'[t] = Head(queue[t].main)
    BY <1>1, <1>7 DEF Dequeue, NextJob, IsEmpty, QueueOf
  <2>2. /\ Head(queue[t].main) \in Range(queue[t].main)
        /\ Range(Tail(queue[t].main)) = Range(queue[t].main) \ {Head(queue[t].main)}
    BY <1>3, <2>1, TailLemma
  <2>3. queue[t].main \in Seq(Nat)
    BY <1>3, <1>4, SeqMonotonic
  <2>4. /\ Ascending(Tail(queue[t].main))
        /\ \A i \in Range(Tail(queue[t].main)) : Head(queue[t].main) < i
    BY <1>1, <2>1, <2>3, TailAscending DEF OrderInv
  <2>5. \A i \in Range(Tail(queue[t].main)),
           k \in Positions(t) \ Range(Tail(queue[t].main)) : k < i
    BY <1>1, <2>2, <2>4 DEF OrderInv
  <2>6. \A k \in Done(t) : k < Head(queue[t].main)
    BY <1>1, <1>5, <2>2 DEF OrderInv
  <2> QED
    BY <1>1, <1>2, <2>1, <2>4, <2>5, <2>6, EmptyLemma DEF OrderInv, Ascending, Done
<1> QED
  BY <1>6, <1>7

LEMMA OrderSucceed ==
    ASSUME IInv, NEW t \in Tasks, OrderInv(t), Succeed(t)
    PROVE  OrderInv(t)'
<1>1. /\ TypeOK /\ pc[t] = "got" /\ pc' = [pc EXCEPT ![t] = "pick"]
      /\ commits' = [commits EXCEPT ![t] = Append(commits[t], job[t])]
      /\ UNCHANGED <<req, queue, job>>
  BY DEF IInv, Succeed, Got
<1>2. /\ pc'[t] = "pick" /\ commits'[t] = Append(commits[t], job[t])
      /\ commits[t] \in Seq(Jobs) /\ job[t] \in Jobs /\ Jobs \subseteq Nat
  BY <1>1, InHandTypes, EngineAssumption DEF TypeOK, Jobs
<1>3. Started(t) /\ InHand(t) # {} /\ InHand(t)' = {} /\ Positions(t)' = Positions(t)
  BY <1>1, <1>2 DEF Started, InHand, Positions
<1>4. queue[t].retry = <<>> /\ Ascending(commits[t]) /\ \A k \in Done(t) : k < job[t]
  BY <1>3 DEF OrderInv
<1>5. commits[t] \in Seq(Nat)
  BY <1>2, SeqMonotonic
<1>6. Ascending(Append(commits[t], job[t]))
  BY <1>2, <1>4, <1>5, AppendAscending DEF Done
<1> QED
  BY <1>1, <1>2, <1>3, <1>4, <1>6 DEF OrderInv

LEMMA OrderFail ==
    ASSUME IInv, NEW t \in Tasks, OrderInv(t), Fail(t)
    PROVE  OrderInv(t)'
<1>1. /\ TypeOK /\ pc[t] = "got" /\ pc' = [pc EXCEPT ![t] = "pick"]
      /\ queue' = [queue EXCEPT ![t] = MarkFailed(queue[t], job[t], req[t].retries)]
      /\ UNCHANGED <<req, job, commits>>
  BY DEF IInv, Fail, Got
<1>2. /\ pc'[t] = "pick" /\ queue'[t] = MarkFailed(queue[t], job[t], req[t].retries)
      /\ queue[t] \in QueueOf(Jobs) /\ job[t] \in Jobs
  BY <1>1, InHandTypes DEF TypeOK
<1>3. /\ Started(t) /\ InHand(t) # {} /\ InHand(t)' = {}
      /\ Positions(t)' = Positions(t) /\ Done(t)' = Done(t)
  BY <1>1, <1>2 DEF Started, InHand, Positions, Done
<1>4. queue[t].retry = <<>> /\ \A k \in Done(t) : k < job[t]
  BY <1>3 DEF OrderInv
<1>5. /\ queue'[t].main = queue[t].main
      /\ queue'[t].retry \in {queue[t].retry, Append(queue[t].retry, job[t])}
  BY <1>2 DEF MarkFailed, QueueOf
<1>6. Range(queue'[t].retry) \subseteq {job[t]}
  <2>1. queue[t].retry \in Seq(Jobs) /\ Range(queue[t].retry) = {}
    BY <1>2, <1>4, EmptyLemma DEF QueueOf
  <2>2. Range(Append(queue[t].retry, job[t])) = {job[t]}
    BY <1>2, <2>1, AppendLemma
  <2> QED
    BY <1>5, <2>1, <2>2
<1> QED
  BY <1>1, <1>3, <1>4, <1>5, <1>6 DEF OrderInv

LEMMA OrderStep ==
    ASSUME IInv, \A u \in Tasks : OrderInv(u), [Next]_vars
    PROVE  \A u \in Tasks : OrderInv(u)'
<1>0. \A u \in Tasks : OrderInv(u)
  OBVIOUS
<1>1. ASSUME NEW t \in Tasks, Start(t) \/ Step(t) PROVE \A u \in Tasks : OrderInv(u)'
  <2>1. /\ req' = req /\ TypeOK
        /\ \A u \in Tasks \ {t} : /\ pc'[u] = pc[u] /\ queue'[u] = queue[u]
                                  /\ job'[u] = job[u] /\ commits'[u] = commits[u]
    BY <1>1 DEF IInv, TypeOK, Start, Step, Fetch, FromCache, TakeJob, Reply, Succeed,
                Fail, Skip, Reject, Crash, Finish, work
  <2>2. ASSUME NEW u \in Tasks \ {t} PROVE OrderInv(u)'
    BY <1>0, <2>1, OrderFrame DEF Started, InHand
  <2> SUFFICES OrderInv(t)'
    BY <2>2
  <2>3. CASE Start(t)
    BY <2>3, OrderStart
  <2>4. CASE Fetch(t) \/ FromCache(t)
    <3>1. TakeJob(t) /\ commits' = commits /\ pc'[t] \in {"wait", "got"}
      BY <2>1, <2>4 DEF Fetch, FromCache, TypeOK
    <3> QED
      BY <1>0, <2>1, <3>1, OrderTake
  <2>5. CASE Reply(t) \/ Skip(t) \/ Reject(t) \/ Crash(t) \/ Finish(t)
    <3>1. UNCHANGED <<queue, job, commits>>
      BY <2>5 DEF Reply, Skip, Reject, Crash, Finish, work
    <3>2. \/ pc[t] = "wait" /\ pc'[t] = "got"
          \/ pc[t] = "got" /\ pc'[t] \in {"pick", "rejected", "crashed"}
          \/ pc[t] = "pick" /\ pc'[t] = "done"
      BY <2>1, <2>5 DEF Reply, Skip, Reject, Crash, Finish, Got, TypeOK
    <3>3. Started(t)' = Started(t) /\ InHand(t)' \subseteq InHand(t)
      BY <3>1, <3>2 DEF Started, InHand
    <3> QED
      BY <1>0, <2>1, <3>1, <3>3, OrderFrame
  <2> QED
    BY <1>0, <1>1, <2>3, <2>4, <2>5, OrderSucceed, OrderFail DEF Step
<1>2. CASE UNCHANGED vars
  <2>1. UNCHANGED <<req, pc, queue, job, commits>>
    BY <1>2 DEF vars, control, work
  <2> QED
    BY <1>0, <2>1, OrderFrame DEF Started, InHand
<1> QED
  BY <1>1, <1>2 DEF Next

-----------------------------------------------------------------------------
(* What a finished batch reports.                                          *)

\* Nothing of a finished batch is left in the queue, its status is true, and
\* its repository is credited with its results.
ReportInv(t) ==
    Kind(t) = "batch" /\ pc[t] = "done" =>
      /\ Done(t) \cup Dead(t) = Positions(t)
      /\ status[t] = "completed" <=> Done(t) = Positions(t)
      /\ status[t] = "failed" <=> Positions(t) # {} /\ Dead(t) = Positions(t)
      /\ status[t] # "running"
      /\ processed[Repo(t)] >= Len(commits[t])

LEMMA ReportConsequence == (\A t \in Tasks : ReportInv(t)) => StatusHonest
  BY DEF ReportInv, StatusHonest

LEMMA ReportFrame ==
    ASSUME TypeOK, NEW u \in Tasks, ReportInv(u), req' = req, pc'[u] = pc[u],
           queue'[u] = queue[u], commits'[u] = commits[u], status'[u] = status[u],
           \A r \in Repos : processed'[r] \in Nat /\ processed'[r] >= processed[r]
    PROVE  ReportInv(u)'
<1>1. /\ Done(u)' = Done(u) /\ Dead(u)' = Dead(u) /\ Positions(u)' = Positions(u)
      /\ Kind(u)' = Kind(u) /\ Repo(u)' = Repo(u)
  BY DEF Done, Dead, Positions, Kind, Repo
<1>2. /\ Repo(u) \in Repos /\ processed[Repo(u)] \in Nat /\ Len(commits[u]) \in Nat
  BY RequestTypes, LenProperties DEF TypeOK
<1>3. Kind(u) = "batch" /\ pc[u] = "done" => processed'[Repo(u)] >= Len(commits[u])
  BY <1>2 DEF ReportInv
<1> QED
  BY <1>1, <1>3 DEF ReportInv

\* The queue is empty, so that a commit is either in the results or dead.
LEMMA ReportFinish ==
    ASSUME IInv, NEW t \in Tasks, Finish(t), Kind(t) = "batch"
    PROVE  /\ ReportInv(t)'
           /\ \A r \in Repos : processed'[r] \in Nat /\ processed'[r] >= processed[r]
<1>1. /\ TypeOK /\ TaskInv(t) /\ pc[t] = "pick" /\ pc' = [pc EXCEPT ![t] = "done"]
      /\ status' = [status EXCEPT ![t] = FinalStatus(t)]
      /\ processed' = [processed EXCEPT ![Repo(t)] = @ + Len(commits[t])]
      /\ IsEmpty(queue[t]) /\ UNCHANGED <<req, queue, commits>>
  BY DEF IInv, Finish
<1>2. /\ Done(t)' = Done(t) /\ Dead(t)' = Dead(t) /\ Positions(t)' = Positions(t)
      /\ Repo(t)' = Repo(t) /\ status'[t] = FinalStatus(t)
  BY <1>1 DEF Done, Dead, Positions, Repo, TypeOK
<1>3. /\ Repo(t) \in Repos /\ Len(commits[t]) \in Nat
      /\ commits[t] \in Seq(Jobs) /\ queue[t].dead \in Seq(Jobs)
      /\ processed \in [Repos -> Nat]
  BY <1>1, RequestTypes, LenProperties DEF TypeOK, QueueOf
<1>4. /\ \A r \in Repos : processed'[r] \in Nat /\ processed'[r] >= processed[r]
      /\ processed'[Repo(t)] >= Len(commits[t])
  BY <1>1, <1>3
<1>5. /\ Done(t) \cup Dead(t) = Positions(t) /\ Done(t) \cap Dead(t) = {}
  <2>1. Waiting(t) = {} /\ InHand(t) = {} /\ Started(t)
    BY <1>1, EmptyLemma DEF Waiting, InHand, Started, IsEmpty
  <2> QED
    BY <1>1, <2>1 DEF TaskInv, Covered, Places
<1>6. /\ commits[t] = <<>> <=> Done(t) = {}
      /\ queue[t].dead = <<>> <=> Dead(t) = {}
  BY <1>3, NoneInRange, EmptyLemma DEF Done, Dead
<1>7. FinalStatus(t) = IF Dead(t) = {} THEN "completed"
                       ELSE IF Done(t) = {} THEN "failed" ELSE "partial"
  BY <1>6 DEF FinalStatus
<1>8. /\ FinalStatus(t) = "completed" <=> Done(t) = Positions(t)
      /\ FinalStatus(t) = "failed" <=> Positions(t) # {} /\ Dead(t) = Positions(t)
      /\ FinalStatus(t) # "running"
  <2> HIDE DEF Done, Dead, Positions
  <2>1. CASE Dead(t) = {}
    BY <1>5, <1>7, <2>1
  <2>2. CASE Dead(t) # {}
    BY <1>5, <1>7, <2>2
  <2> QED
    BY <2>1, <2>2
<1>9. ReportInv(t)'
  BY <1>1, <1>2, <1>4, <1>5, <1>8 DEF ReportInv
<1> QED
  BY <1>4, <1>9

LEMMA ReportStep ==
    ASSUME IInv, \A u \in Tasks : ReportInv(u), [Next]_vars
    PROVE  \A u \in Tasks : ReportInv(u)'
<1>0. TypeOK /\ processed \in [Repos -> Nat] /\ \A u \in Tasks : ReportInv(u)
  BY DEF IInv, TypeOK
<1>1. ASSUME NEW t \in Tasks, Start(t) \/ Step(t) PROVE \A u \in Tasks : ReportInv(u)'
  <2>1. /\ req' = req
        /\ \A u \in Tasks \ {t} : /\ pc'[u] = pc[u] /\ queue'[u] = queue[u]
                                  /\ commits'[u] = commits[u] /\ status'[u] = status[u]
    BY <1>0, <1>1 DEF TypeOK, Start, Step, Fetch, FromCache, TakeJob, Reply, Succeed,
                Fail, Skip, Reject, Crash, Finish, work
  <2>2. CASE Finish(t) /\ Kind(t) = "batch"
    BY <1>0, <2>1, <2>2, ReportFinish, ReportFrame
  <2>3. CASE ~(Finish(t) /\ Kind(t) = "batch")
    <3>1. processed' = processed
      BY <1>1, <2>3 DEF Start, Step, Fetch, FromCache, Reply, Succeed, Fail, Skip,
                        Reject, Crash, Finish, stores
    <3>2. \A u \in Tasks \ {t} : ReportInv(u)'
      BY <1>0, <2>1, <3>1, ReportFrame
    <3>3. ReportInv(t)'
      <4>1. Kind(t)' = Kind(t)
        BY <2>1 DEF Kind
      <4>2. pc'[t] # "done" \/ Finish(t)
        BY <1>0, <1>1 DEF TypeOK, Start, Step, Fetch, FromCache, Reply, Succeed, Fail,
                          Skip, Reject, Crash
      <4> QED
        BY <2>3, <4>1, <4>2 DEF ReportInv
    <3> QED
      BY <3>2, <3>3
  <2> QED
    BY <2>2, <2>3
<1>2. CASE UNCHANGED vars
  <2>1. UNCHANGED <<req, pc, queue, commits, status, processed>>
    BY <1>2 DEF vars, control, work, stores
  <2> QED
    BY <1>0, <2>1, ReportFrame
<1> QED
  BY <1>1, <1>2 DEF Next

-----------------------------------------------------------------------------
ResultsInv ==
    /\ IInv /\ StoresAgree /\ ResultsStored /\ CachesInv
    /\ \A t \in Tasks : OrderInv(t) /\ ReportInv(t)

LEMMA InitResults == Init => ResultsInv
<1> SUFFICES ASSUME Init PROVE ResultsInv
  OBVIOUS
<1>1. IInv
  BY InitInv
<1>2. /\ \A t \in Tasks : pc[t] = "new" /\ commits[t] = <<>> /\ cacheOf[t] = t
      /\ metadata = {} /\ raw = {} /\ cache[AppCache] = EmptyCache
      /\ \A r \in Repos : lastSha[r] = NoSha
  BY DEF Init
<1>3. \A t \in Tasks : Done(t) = {} /\ ~Started(t)
  BY <1>2, EmptyLemma DEF Done, Started
<1>4. StoresAgree /\ ResultsStored
  BY <1>2, <1>3 DEF StoresAgree, ResultsStored
<1>5. CachesInv
  BY <1>2, <1>3 DEF CachesInv, CacheInv
<1>6. \A t \in Tasks : OrderInv(t) /\ ReportInv(t)
  BY <1>2, <1>3 DEF OrderInv, ReportInv
<1> QED
  BY <1>1, <1>4, <1>5, <1>6 DEF ResultsInv

LEMMA NextResults == ResultsInv /\ [Next]_vars => ResultsInv'
<1> SUFFICES ASSUME ResultsInv, [Next]_vars PROVE ResultsInv'
  OBVIOUS
<1>1. /\ IInv /\ StoresAgree /\ ResultsStored /\ CachesInv
      /\ \A t \in Tasks : OrderInv(t)
      /\ \A t \in Tasks : ReportInv(t)
  BY DEF ResultsInv
<1>2. IInv'
  BY <1>1, NextInv
<1>3. StoresAgree' /\ ResultsStored' /\ CachesInv'
  BY <1>1, StoresStep, CachesStep
<1>4. \A t \in Tasks : OrderInv(t)'
  BY <1>1, OrderStep
<1>5. \A t \in Tasks : ReportInv(t)'
  BY <1>1, ReportStep
<1> QED
  BY <1>2, <1>3, <1>4, <1>5 DEF ResultsInv

\* Stores, caches, order and reports, for any number of requests.
THEOREM ResultsInvariance == Spec => []ResultsInv
<1>1. Init => ResultsInv
  BY InitResults
<1>2. ResultsInv /\ [Next]_vars => ResultsInv'
  BY NextResults
<1> QED
  BY <1>1, <1>2, PTL DEF Spec

\* The raw commits, the metadata and the last shas agree whenever another
\* request can look, however requests interleave and fail.
THEOREM StoresConsistent == Spec => []StoresAgree
  BY ResultsInvariance, PTL DEF ResultsInv

\* Whatever a request reports as processed is stored under GitHub's name.
THEOREM ReportedIsStored == Spec => []ResultsStored
  BY ResultsInvariance, PTL DEF ResultsInv

\* A request a cache can answer is never sent again, and its answer decides
\* every attempt.
THEOREM NeverAskedTwice == Spec => []AnsweredOnce
<1>1. ResultsInv => AnsweredOnce
  BY CachesConsequence DEF ResultsInv
<1> QED
  BY <1>1, ResultsInvariance, PTL

\* Results and dead letters come in the order asked, retries notwithstanding.
THEOREM OrderKept == Spec => []InOrder
<1>1. ResultsInv => InOrder
  BY OrderConsequence DEF ResultsInv
<1> QED
  BY <1>1, ResultsInvariance, PTL

\* The status of a finished batch tells the truth about its commits.
THEOREM StatusTrue == Spec => []StatusHonest
<1>1. ResultsInv => StatusHonest
  BY ReportConsequence DEF ResultsInv
<1> QED
  BY <1>1, ResultsInvariance, PTL

-----------------------------------------------------------------------------
(* Counting.                                                               *)

LEMMA SameJobs ==
    ASSUME NEW P \in SUBSET AllJobs, NEW Q \in SUBSET AllJobs,
           \A u \in Tasks, i \in Jobs : <<u, i>> \in Q <=> <<u, i>> \in P
    PROVE  P = Q
  BY DEF AllJobs

\* A count that goes up by one has one occurrence more.
LEMMA OneOccurrenceMore ==
    ASSUME NEW S, NEW x \in S, NEW f, NEW g, IsFiniteSet(Occurrences(f, S)),
           f[x] \in Nat, g[x] = f[x] + 1, \A y \in S \ {x} : g[y] = f[y]
    PROVE  /\ IsFiniteSet(Occurrences(g, S))
           /\ Cardinality(Occurrences(g, S)) = Cardinality(Occurrences(f, S)) + 1
<1>1. Occurrences(g, S) = Occurrences(f, S) \cup {<<x, f[x] + 1>>}
  <2>1. \A y \in S : {y} \X (1 .. g[y]) =
                     IF y = x THEN ({y} \X (1 .. f[y])) \cup {<<y, f[y] + 1>>}
                              ELSE {y} \X (1 .. f[y])
    <3>1. 1 .. g[x] = (1 .. f[x]) \cup {f[x] + 1}
      OBVIOUS
    <3> QED
      BY <3>1
  <2> QED
    BY <2>1 DEF Occurrences
<1>2. <<x, f[x] + 1>> \notin Occurrences(f, S)
  <2> SUFFICES ASSUME NEW y \in S, <<x, f[x] + 1>> \in {y} \X (1 .. f[y]) PROVE FALSE
    BY DEF Occurrences
  <2> QED
    OBVIOUS
<1> DEFINE P == Occurrences(f, S)
           e == <<x, f[x] + 1>>
<1>3. IsFiniteSet(P) /\ e \notin P
  BY <1>2
<1> HIDE DEF P, e
<1>4. IsFiniteSet(P \cup {e}) /\ Cardinality(P \cup {e}) = Cardinality(P) + 1
  BY <1>3, FS_AddElement
<1> QED
  BY <1>1, <1>4 DEF P, e

LEMMA SameOccurrences ==
    ASSUME NEW S, NEW f, NEW g, \A y \in S : g[y] = f[y]
    PROVE  Occurrences(g, S) = Occurrences(f, S)
  BY DEF Occurrences

LEMMA NoOccurrences ==
    ASSUME NEW S, NEW f, \A y \in S : f[y] = 0
    PROVE  Occurrences(f, S) = {}
  BY DEF Occurrences

\* A sequence without repetition has as many elements as it is long.
LEMMA InjectiveLength ==
    ASSUME NEW S, NEW s \in Seq(S), IsInjective(s)
    PROVE  IsFiniteSet(Range(s)) /\ Cardinality(Range(s)) = Len(s)
<1>1. Len(s) \in Nat /\ DOMAIN s = 1 .. Len(s) /\ s \in [1 .. Len(s) -> S]
  BY LenProperties
<1>2. s \in [1 .. Len(s) -> Range(s)]
  BY <1>1 DEF Range
<1>3. s \in Bijection(1 .. Len(s), Range(s))
  BY <1>1, <1>2 DEF Range, IsInjective, Bijection, Injection, Surjection
<1>4. ExistsBijection(1 .. Len(s), Range(s))
  BY <1>3 DEF ExistsBijection
<1> QED
  BY <1>1, <1>4, FS_CountingElements, FS_NatBijection

-----------------------------------------------------------------------------
(* Counters and records.                                                   *)

\* A request that has not begun has an empty queue.
Unbegun == \A t \in Tasks : ~Started(t) => queue[t] = EmptyQueue(Jobs)

TelemetryInv ==
    /\ TelemetryAgrees
    /\ IsFiniteSet(Results) /\ IsFiniteSet(DeadLetters) /\ IsFiniteSet(Skipped)
    /\ IsFiniteSet(FailedAttempts)
    /\ IsFiniteSet(Records(TRUE)) /\ IsFiniteSet(Records(FALSE))

CountsInv == Unbegun /\ TelemetryInv /\ ProcessedTotals

\* Where a job is when it waits, is worked on, or has been settled.
Held(t) == Waiting(t) \cup InHand(t) \cup Done(t) \cup Dead(t)

\* What the counters see of request u.
SameCounts(u) ==
    /\ Done(u)' = Done(u) /\ Dead(u)' = Dead(u)
    /\ Kind(u) = "webhook" => Dropped(u)' = Dropped(u)
    /\ queue'[u].attempts = queue[u].attempts

\* A step that moves jobs about but settles none.
LEMMA CountsFrame ==
    ASSUME req' = req, errors' = errors,
           \A u \in Tasks : SameCounts(u)
    PROVE  /\ Results' = Results /\ BatchResults' = BatchResults
           /\ DeadLetters' = DeadLetters /\ Skipped' = Skipped
           /\ FailedAttempts' = FailedAttempts
           /\ \A fatal \in BOOLEAN : Records(fatal)' = Records(fatal)
<1>1. \A u \in Tasks : Kind(u)' = Kind(u)
  BY DEF Kind
<1>2. Results' = Results /\ BatchResults' = BatchResults
  BY <1>1 DEF Results, BatchResults, AllJobs, SameCounts
<1>3. DeadLetters' = DeadLetters /\ Skipped' = Skipped
  BY <1>1 DEF DeadLetters, Skipped, AllJobs, SameCounts
<1>4. FailedAttempts' = FailedAttempts
  <2>1. \A x \in AllJobs : x[1] \in Tasks
    BY DEF AllJobs
  <2> QED
    BY <2>1, SameOccurrences DEF FailedAttempts, SameCounts
<1>5. \A fatal \in BOOLEAN : Records(fatal)' = Records(fatal)
  BY DEF Records
<1> QED
  BY <1>2, <1>3, <1>4, <1>5

\* The counters that name what became of jobs are left alone.
SameCounters ==
    /\ counters'.validated = counters.validated
    /\ counters'.succeeded = counters.succeeded
    /\ counters'.retry = counters.retry
    /\ counters'.dead_letter = counters.dead_letter

LEMMA TelemetryFrame ==
    ASSUME TypeOK, TypeOK', TelemetryInv, req' = req, errors' = errors,
           SameCounters, counters'.fetched >= counters.fetched,
           \A u \in Tasks : SameCounts(u)
    PROVE  TelemetryInv'
<1>1. /\ Results' = Results /\ BatchResults' = BatchResults
      /\ DeadLetters' = DeadLetters /\ Skipped' = Skipped
      /\ FailedAttempts' = FailedAttempts
      /\ Records(TRUE)' = Records(TRUE) /\ Records(FALSE)' = Records(FALSE)
  BY CountsFrame
<1>2. /\ counters.validated \in Nat /\ counters.fetched \in Nat
      /\ counters'.fetched \in Nat
  BY DEF TypeOK
<1>3. counters'.validated <= counters'.fetched
  BY <1>2 DEF TelemetryInv, TelemetryAgrees, SameCounters
<1> QED
  BY <1>1, <1>3 DEF TelemetryInv, TelemetryAgrees, SameCounters

\* What one call of Count does to the counters.
LEMMA CountEffect ==
    ASSUME TypeOK, NEW t, NEW names, Count(t, names)
    PROVE  LET n(c) == IF c \in names THEN counters[c] + 1 ELSE counters[c]
           IN  /\ counters'.validated = n("validated")
               /\ counters'.succeeded = n("succeeded")
               /\ counters'.retry = n("retry")
               /\ counters'.dead_letter = n("dead_letter")
               /\ counters'.fetched =
                     IF outcome[t] \in Payloads \/ "fetched" \in names
                     THEN counters.fetched + 1 ELSE counters.fetched
  BY DEF TypeOK, Count

\* A request whose own state does not change looks the same.
LEMMA SameOthers ==
    ASSUME NEW u \in Tasks, req' = req, pc'[u] = pc[u], queue'[u] = queue[u],
           job'[u] = job[u], commits'[u] = commits[u]
    PROVE  SameCounts(u)
  BY DEF SameCounts, Done, Dead, Dropped, Started, Positions, Waiting, InHand

\* A job that only goes from one place to another is not dropped.
LEMMA SameHeld ==
    ASSUME NEW t \in Tasks, req' = req, Started(t), Started(t)',
           Held(t)' = Held(t)
    PROVE  Dropped(t)' = Dropped(t)
  BY DEF Dropped, Held, Positions

LEMMA MovesTelemetry ==
    ASSUME IInv, Unbegun, TelemetryInv, NEW t \in Tasks,
           Start(t) \/ Fetch(t) \/ FromCache(t) \/ Reply(t) \/ Reject(t)
             \/ Crash(t) \/ Finish(t)
    PROVE  TelemetryInv'
<1>1. TypeOK /\ TypeOK' /\ IInv'
  BY StartInv, FetchInv, FromCacheInv, ReplyInv, RejectInv, CrashInv, FinishInv DEF IInv
<1>2. /\ req' = req /\ errors' = errors
      /\ \A u \in Tasks \ {t} : /\ pc'[u] = pc[u] /\ queue'[u] = queue[u]
                                /\ job'[u] = job[u] /\ commits'[u] = commits[u]
  BY <1>1 DEF TypeOK, Start, Fetch, FromCache, TakeJob, Reply, Reject, Crash, Finish,
              work, telemetry
<1>3. SameCounters /\ counters'.fetched >= counters.fetched
  <2>1. CASE Crash(t)
    <3>1. Count(t, {}) /\ counters.fetched \in Nat
      BY <1>1, <2>1 DEF Crash, TypeOK
    <3> QED
      BY <1>1, <3>1, CountEffect DEF SameCounters
  <2>2. CASE ~Crash(t)
    <3>1. counters' = counters /\ counters.fetched \in Nat
      BY <1>1, <2>2 DEF TypeOK, Start, Fetch, FromCache, Reply, Reject, Finish, telemetry
    <3> QED
      BY <3>1 DEF SameCounters
  <2> QED
    BY <2>1, <2>2
<1>4. SameCounts(t)
  <2>1. CASE Start(t)
    <3>1. /\ pc[t] = "new" /\ pc'[t] = "pick" /\ commits' = commits
          /\ queue'[t] = EnqueueMany(EmptyQueue(Jobs), [i \in Positions(t) |-> i])
      BY <1>1, <2>1 DEF Start, TypeOK
    <3>2. queue[t] = EmptyQueue(Jobs) /\ ~Started(t) /\ Started(t)'
      BY <3>1 DEF Unbegun, Started
    <3>3. queue'[t].dead = queue[t].dead /\ queue'[t].attempts = queue[t].attempts
      BY <3>1, <3>2 DEF EnqueueMany, EmptyQueue
    <3>4. Range(queue'[t].main) = Positions(t)
      BY <1>1, <3>1, StartQueue
    <3>5. Dropped(t)' = {} /\ Dropped(t) = {}
      BY <1>2, <3>2, <3>4 DEF Dropped, Waiting, Positions
    <3> QED
      BY <3>1, <3>3, <3>5 DEF SameCounts, Done, Dead
  <2>2. CASE Fetch(t) \/ FromCache(t)
    <3>1. /\ TakeJob(t) /\ commits' = commits /\ pc[t] = "pick"
          /\ pc'[t] \in {"wait", "got"}
      BY <1>1, <2>2 DEF Fetch, FromCache, TakeJob, TypeOK
    <3>2. /\ queue'[t] = Dequeue(queue[t]) /\ job'[t] = NextJob(queue[t])
          /\ ~IsEmpty(queue[t]) /\ queue[t] \in QueueOf(Jobs) /\ NoRepeats(queue[t])
      BY <1>1, <3>1 DEF TakeJob, TypeOK, IInv, TaskInv, Places
    <3>3. /\ NextJob(queue[t]) \in Waiting(t)
          /\ Range(queue'[t].main) = Range(queue[t].main) \ {job'[t]}
          /\ Range(queue'[t].retry) = Range(queue[t].retry) \ {job'[t]}
          /\ queue'[t].dead = queue[t].dead
          /\ queue'[t].attempts = queue[t].attempts
      BY <3>2, DequeueLemma DEF Waiting, Pending
    <3>4. /\ Waiting(t)' = Waiting(t) \ {job'[t]} /\ InHand(t) = {}
          /\ InHand(t)' = {job'[t]} /\ Done(t)' = Done(t) /\ Dead(t)' = Dead(t)
          /\ Started(t) /\ Started(t)'
      BY <3>1, <3>3 DEF Waiting, InHand, Done, Dead, Started
    <3>5. Held(t)' = Held(t)
      BY <3>2, <3>3, <3>4 DEF Held
    <3> QED
      BY <1>2, <3>3, <3>4, <3>5, SameHeld DEF SameCounts
  <2>3. CASE Reply(t) \/ Crash(t) \/ Finish(t)
    <3>1. queue' = queue /\ job' = job /\ commits' = commits
      BY <2>3 DEF Reply, Crash, Finish, work
    <3>2. \/ pc[t] = "wait" /\ pc'[t] = "got"
          \/ pc[t] = "got" /\ pc'[t] = "crashed"
          \/ pc[t] = "pick" /\ pc'[t] = "done"
      BY <1>1, <2>3 DEF Reply, Crash, Finish, Got, TypeOK
    <3>3. /\ Waiting(t)' = Waiting(t) /\ InHand(t)' = InHand(t)
          /\ Done(t)' = Done(t) /\ Dead(t)' = Dead(t) /\ Started(t) /\ Started(t)'
      BY <3>1, <3>2 DEF Waiting, InHand, Done, Dead, Started
    <3>4. Held(t)' = Held(t)
      BY <3>3 DEF Held
    <3> QED
      BY <1>2, <3>1, <3>3, <3>4, SameHeld DEF SameCounts
  <2>4. CASE Reject(t)
    BY <2>4 DEF Reject, work, SameCounts, Done, Dead
  <2> QED
    BY <2>1, <2>2, <2>3, <2>4
<1>5. \A u \in Tasks : SameCounts(u)
  BY <1>2, <1>4, SameOthers
<1> QED
  BY <1>1, <1>2, <1>3, <1>5, TelemetryFrame

\* A result more, and with it the counters of results.
LEMMA SucceedTelemetry ==
    ASSUME IInv, TelemetryInv, NEW t \in Tasks, Succeed(t)
    PROVE  TelemetryInv'
<1> DEFINE j == job[t]
           names == {"validated"} \cup (IF Kind(t) = "batch" THEN {"succeeded"} ELSE {})
<1>1. /\ TypeOK /\ pc[t] = "got" /\ outcome[t] = "valid"
      /\ pc' = [pc EXCEPT ![t] = "pick"]
      /\ commits' = [commits EXCEPT ![t] = Append(commits[t], j)]
      /\ Count(t, names) /\ UNCHANGED <<req, queue, job, errors>>
  BY DEF IInv, Succeed, Got
<1>2. j \in Jobs /\ commits[t] \in Seq(Jobs) /\ commits'[t] = Append(commits[t], j)
  BY <1>1, InHandTypes DEF TypeOK
<1>3. /\ Done(t)' = Done(t) \cup {j} /\ j \notin Done(t)
      /\ InHand(t) = {j} /\ InHand(t)' = {}
      /\ Waiting(t)' = Waiting(t) /\ Dead(t)' = Dead(t) /\ Started(t) /\ Started(t)'
  <2>1. Done(t)' = Done(t) \cup {j}
    BY <1>2, AppendLemma DEF Done
  <2>2. InHand(t) = {j} /\ InHand(t)' = {} /\ Started(t) /\ Started(t)'
    BY <1>1 DEF InHand, Started, TypeOK
  <2>3. InHand(t) \cap Done(t) = {}
    BY DEF IInv, TaskInv, Places
  <2> QED
    BY <1>1, <2>1, <2>2, <2>3 DEF Waiting, Dead
<1>4. Dropped(t)' = Dropped(t)
  <2>1. Held(t)' = Held(t)
    BY <1>3 DEF Held
  <2> QED
    BY <1>1, <1>3, <2>1, SameHeld
<1>5. ASSUME NEW u \in Tasks \ {t}
      PROVE  Done(u)' = Done(u) /\ Dead(u)' = Dead(u) /\ Dropped(u)' = Dropped(u)
  <2>1. pc'[u] = pc[u] /\ commits'[u] = commits[u]
    BY <1>1 DEF TypeOK
  <2> QED
    BY <1>1, <2>1 DEF Done, Dead, Dropped, Started, Positions, Waiting, InHand
<1> HIDE DEF j
<1>6. IsFiniteSet(Results') /\ Cardinality(Results') = Cardinality(Results) + 1
  <2>1. \A u \in Tasks, i \in Jobs :
          <<u, i>> \in Results' <=> <<u, i>> \in Results \/ (u = t /\ i = j)
    BY <1>3, <1>5 DEF Results, AllJobs
  <2>2. <<t, j>> \notin Results
    BY <1>3 DEF Results
  <2>3. Results \in SUBSET AllJobs /\ Results' \in SUBSET AllJobs /\ IsFiniteSet(Results)
    BY DEF Results, TelemetryInv, AllJobs
  <2>4. Results' = Results \cup {<<t, j>>}
    BY <1>2, <2>1, <2>3 DEF AllJobs
  <2> QED
    BY <2>2, <2>3, <2>4, FS_AddElement
<1>7. \A u \in Tasks : Kind(u)' = Kind(u)
  BY <1>1 DEF Kind
<1>8. Cardinality(BatchResults') =
        IF Kind(t) = "batch" THEN Cardinality(BatchResults) + 1 ELSE Cardinality(BatchResults)
  <2>1. \A u \in Tasks, i \in Jobs :
          /\ <<u, i>> \in BatchResults <=> i \in Done(u) /\ Kind(u) = "batch"
          /\ <<u, i>> \in BatchResults' <=> i \in Done(u)' /\ Kind(u) = "batch"
    BY <1>7 DEF BatchResults, Results, AllJobs
  <2>2. BatchResults \in SUBSET AllJobs /\ BatchResults' \in SUBSET AllJobs
    BY DEF BatchResults, Results, AllJobs
  <2>3. CASE Kind(t) = "batch"
    <3>1. IsFiniteSet(BatchResults)
      BY FS_Subset DEF BatchResults, TelemetryInv
    <3>2. /\ <<t, j>> \notin BatchResults
          /\ \A u \in Tasks, i \in Jobs :
                <<u, i>> \in BatchResults' <=> <<u, i>> \in BatchResults \/ (u = t /\ i = j)
      BY <1>2, <1>3, <1>5, <2>1, <2>3
    <3>3. BatchResults' = BatchResults \cup {<<t, j>>}
      BY <1>2, <2>2, <3>2 DEF AllJobs
    <3> QED
      BY <2>3, <3>1, <3>2, <3>3, FS_AddElement
  <2>4. CASE Kind(t) # "batch"
    BY <1>5, <2>1, <2>2, <2>4, SameJobs
  <2> QED
    BY <2>3, <2>4
<1>9. DeadLetters' = DeadLetters /\ Skipped' = Skipped
  BY <1>1, <1>3, <1>4, <1>5, <1>7 DEF DeadLetters, Skipped, AllJobs
<1>10. /\ FailedAttempts' = FailedAttempts
       /\ Records(TRUE)' = Records(TRUE) /\ Records(FALSE)' = Records(FALSE)
  BY <1>1 DEF FailedAttempts, Records, AllJobs
<1>11. /\ counters'.validated = counters.validated + 1
       /\ counters'.fetched = counters.fetched + 1
       /\ counters'.succeeded =
             IF Kind(t) = "batch" THEN counters.succeeded + 1 ELSE counters.succeeded
       /\ counters'.retry = counters.retry /\ counters'.dead_letter = counters.dead_letter
  BY <1>1, CountEffect DEF Payloads
<1>12. counters'.validated <= counters'.fetched
  <2>1. counters.validated \in Nat /\ counters.fetched \in Nat
    BY <1>1 DEF TypeOK
  <2> QED
    BY <1>11, <2>1 DEF TelemetryInv, TelemetryAgrees
<1>13. /\ counters'.validated = Cardinality(Results')
       /\ counters'.succeeded = Cardinality(BatchResults')
  BY <1>6, <1>8, <1>11 DEF TelemetryInv, TelemetryAgrees
<1> QED
  BY <1>6, <1>9, <1>10, <1>11, <1>12, <1>13 DEF TelemetryInv, TelemetryAgrees

\* One more record of an error.
LEMMA OneRecordMore ==
    ASSUME TypeOK, NEW t, NEW fatal \in BOOLEAN, Record(t, fatal),
           [repo |-> Repo(t), ref |-> RefAt(t, job[t]), fatal |-> fatal] \in ErrorRecords,
           IsFiniteSet(Records(fatal))
    PROVE  /\ IsFiniteSet(Records(fatal)')
           /\ Cardinality(Records(fatal)') = Cardinality(Records(fatal)) + 1
           /\ \A other \in BOOLEAN \ {fatal} : Records(other)' = Records(other)
<1> DEFINE e == [repo |-> Repo(t), ref |-> RefAt(t, job[t]), fatal |-> fatal]
<1>1. e \in ErrorRecords /\ e.fatal = fatal /\ errors' = [errors EXCEPT ![e] = @ + 1]
  BY DEF Record
<1>2. errors \in [ErrorRecords -> Nat]
  BY DEF TypeOK
<1> HIDE DEF e
<1>3. /\ errors[e] \in Nat /\ errors'[e] = errors[e] + 1
      /\ \A d \in ErrorRecords \ {e} : errors'[d] = errors[d]
  BY <1>1, <1>2
<1>4. /\ IsFiniteSet(Records(fatal)')
      /\ Cardinality(Records(fatal)') = Cardinality(Records(fatal)) + 1
  <2> DEFINE S == {d \in ErrorRecords : d.fatal = fatal}
  <2>1. /\ e \in S /\ \A d \in S \ {e} : errors'[d] = errors[d]
        /\ Records(fatal) = Occurrences(errors, S)
        /\ Records(fatal)' = Occurrences(errors', S)
    BY <1>1, <1>3 DEF Records, Occurrences
  <2> HIDE DEF S
  <2> QED
    BY <1>3, <2>1, OneOccurrenceMore
<1>5. ASSUME NEW other \in BOOLEAN \ {fatal} PROVE Records(other)' = Records(other)
  BY <1>1, <1>3, SameOccurrences DEF Records
<1> QED
  BY <1>4, <1>5

\* A webhook drops a commit and records that.
LEMMA SkipTelemetry ==
    ASSUME IInv, TelemetryInv, NEW t \in Tasks, Skip(t)
    PROVE  TelemetryInv'
<1> DEFINE j == job[t]
<1>1. /\ TypeOK /\ pc[t] = "got" /\ Kind(t) = "webhook" /\ Record(t, FALSE)
      /\ pc' = [pc EXCEPT ![t] = "pick"]
      /\ UNCHANGED <<req, queue, job, commits, counters>>
  BY DEF IInv, Skip, Got, work
<1>2. j \in Jobs /\ j \in Positions(t)
  BY <1>1, InHandTypes
<1>3. /\ InHand(t) = {j} /\ InHand(t)' = {} /\ Started(t) /\ Started(t)'
      /\ Waiting(t)' = Waiting(t) /\ Positions(t)' = Positions(t)
      /\ \A u \in Tasks : Done(u)' = Done(u) /\ Dead(u)' = Dead(u) /\ Kind(u)' = Kind(u)
  BY <1>1 DEF InHand, Started, TypeOK, Waiting, Positions, Done, Dead, Kind
<1>4. j \notin Waiting(t) \cup Done(t) \cup Dead(t)
  BY <1>3 DEF IInv, TaskInv, Places
<1>5. Dropped(t)' = Dropped(t) \cup {j} /\ j \notin Dropped(t)
  BY <1>2, <1>3, <1>4 DEF Dropped
<1>6. ASSUME NEW u \in Tasks \ {t} PROVE Dropped(u)' = Dropped(u)
  <2>1. pc'[u] = pc[u]
    BY <1>1 DEF TypeOK
  <2> QED
    BY <1>1, <2>1 DEF Done, Dead, Dropped, Started, Positions, Waiting, InHand
<1> HIDE DEF j
<1>7. IsFiniteSet(Skipped') /\ Cardinality(Skipped') = Cardinality(Skipped) + 1
  <2>1. \A u \in Tasks, i \in Jobs :
          /\ <<u, i>> \in Skipped <=> Kind(u) = "webhook" /\ i \in Dropped(u)
          /\ <<u, i>> \in Skipped' <=> Kind(u) = "webhook" /\ i \in Dropped(u)'
    BY <1>3 DEF Skipped, AllJobs
  <2>2. Skipped \in SUBSET AllJobs /\ Skipped' \in SUBSET AllJobs /\ IsFiniteSet(Skipped)
    BY DEF Skipped, AllJobs, TelemetryInv
  <2>3. /\ <<t, j>> \notin Skipped
        /\ \A u \in Tasks, i \in Jobs :
              <<u, i>> \in Skipped' <=> <<u, i>> \in Skipped \/ (u = t /\ i = j)
    BY <1>1, <1>2, <1>5, <1>6, <2>1
  <2>4. Skipped' = Skipped \cup {<<t, j>>}
    BY <1>2, <2>2, <2>3 DEF AllJobs
  <2> QED
    BY <2>2, <2>3, <2>4, FS_AddElement
<1>8. Results' = Results /\ BatchResults' = BatchResults /\ DeadLetters' = DeadLetters
  BY <1>3 DEF Results, BatchResults, DeadLetters, AllJobs
<1>9. FailedAttempts' = FailedAttempts
  BY <1>1 DEF FailedAttempts, AllJobs
<1>10. /\ IsFiniteSet(Records(FALSE)')
       /\ Cardinality(Records(FALSE)') = Cardinality(Records(FALSE)) + 1
       /\ Records(TRUE)' = Records(TRUE)
  <2>1. [repo |-> Repo(t), ref |-> RefAt(t, job[t]), fatal |-> FALSE] \in ErrorRecords
    BY <1>1, InHandTypes
  <2> QED
    BY <1>1, <2>1, OneRecordMore DEF TelemetryInv
<1> QED
  BY <1>1, <1>7, <1>8, <1>9, <1>10 DEF TelemetryInv, TelemetryAgrees

\* A failed attempt is counted, and either sends its job to the retry queue or
\* makes one dead letter with one fatal record.
LEMMA FailTelemetry ==
    ASSUME IInv, TelemetryInv, NEW t \in Tasks, Fail(t)
    PROVE  TelemetryInv'
<1> DEFINE j == job[t]
           n == req[t].retries
           again == queue[t].attempts[j] + 1 <= n
<1>1. /\ TypeOK /\ pc[t] = "got" /\ Kind(t) = "batch"
      /\ pc' = [pc EXCEPT ![t] = "pick"]
      /\ queue' = [queue EXCEPT ![t] = MarkFailed(queue[t], j, n)]
      /\ Count(t, {IF again THEN "retry" ELSE "dead_letter"})
      /\ IF again THEN errors' = errors ELSE Record(t, TRUE)
      /\ UNCHANGED <<req, job, commits>>
  BY DEF IInv, Fail, Got, Destination
<1>2. /\ j \in Jobs /\ n \in Nat /\ queue[t] \in QueueOf(Jobs)
      /\ queue[t].attempts \in [Jobs -> Nat]
      /\ [repo |-> Repo(t), ref |-> RefAt(t, job[t]), fatal |-> TRUE] \in ErrorRecords
  BY <1>1, InHandTypes, RequestTypes DEF QueueOf
<1>3. NoRepeats(queue[t]) /\ j \notin Pending(queue[t]) /\ j \notin Range(queue[t].dead)
  BY <1>1 DEF IInv, TaskInv, Places, Waiting, InHand, Dead, Pending
<1>4. /\ Range(queue'[t].dead) = Range(queue[t].dead) \cup (IF again THEN {} ELSE {j})
      /\ queue'[t].attempts = [queue[t].attempts EXCEPT ![j] = @ + 1]
  <2>1. queue'[t] = MarkFailed(queue[t], j, n)
    BY <1>1 DEF TypeOK
  <2>2. PICK q \in QueueOf(Jobs), i \in Jobs, limit \in Nat : q = queue[t] /\ i = j /\ limit = n
    BY <1>2
  <2>3. NoRepeats(q) /\ i \notin Pending(q) /\ i \notin Range(q.dead)
    BY <1>3, <2>2
  <2>4. FailedTo(MarkFailed(q, i, limit), q, i, limit, Jobs)
    BY ONLY <2>3, MarkFailedLemma
  <2>5. FailedTo(queue'[t], queue[t], j, n, Jobs)
    BY ONLY <2>1, <2>2, <2>4
  <2> QED
    BY ONLY <2>5 DEF FailedTo, again
<1>5. /\ Dead(t)' = Dead(t) \cup (IF again THEN {} ELSE {j}) /\ j \notin Dead(t)
      /\ \A u \in Tasks : Done(u)' = Done(u) /\ Kind(u)' = Kind(u)
      /\ \A u \in Tasks \ {t} : queue'[u] = queue[u] /\ pc'[u] = pc[u]
  BY <1>1, <1>3, <1>4 DEF Dead, Done, Kind, TypeOK
<1>6. ASSUME NEW u \in Tasks \ {t} PROVE Dead(u)' = Dead(u) /\ Dropped(u)' = Dropped(u)
  BY <1>1, <1>5 DEF Done, Dead, Dropped, Started, Positions, Waiting, InHand
<1> DEFINE f == [x \in AllJobs |-> queue[x[1]].attempts[x[2]]]
           g == [x \in AllJobs |-> queue'[x[1]].attempts[x[2]]]
<1>7. IsFiniteSet(FailedAttempts') /\ Cardinality(FailedAttempts') = Cardinality(FailedAttempts) + 1
  <2>1. FailedAttempts = Occurrences(f, AllJobs) /\ FailedAttempts' = Occurrences(g, AllJobs)
    BY DEF FailedAttempts, Occurrences
  <2>2. /\ <<t, j>> \in AllJobs /\ f[<<t, j>>] \in Nat
        /\ g[<<t, j>>] = f[<<t, j>>] + 1
    BY <1>2, <1>4 DEF AllJobs
  <2>3. ASSUME NEW x \in AllJobs \ {<<t, j>>} PROVE g[x] = f[x]
    <3>1. PICK u \in Tasks, i \in Jobs : x = <<u, i>>
      BY DEF AllJobs
    <3>2. CASE u = t
      BY <1>2, <1>4, <2>3, <3>1, <3>2
    <3>3. CASE u # t
      BY <1>5, <3>1, <3>3
    <3> QED
      BY <3>2, <3>3
  <2>4. IsFiniteSet(Occurrences(f, AllJobs))
    BY <2>1 DEF TelemetryInv
  <2> HIDE DEF f, g
  <2> QED
    BY <2>1, <2>2, <2>3, <2>4, OneOccurrenceMore
<1> HIDE DEF j, n, again
<1>8. /\ IsFiniteSet(DeadLetters')
      /\ Cardinality(DeadLetters') =
            IF again THEN Cardinality(DeadLetters) ELSE Cardinality(DeadLetters) + 1
  <2>1. /\ <<t, j>> \notin DeadLetters
        /\ \A u \in Tasks, i \in Jobs :
              <<u, i>> \in DeadLetters' <=> <<u, i>> \in DeadLetters \/ (~again /\ u = t /\ i = j)
    BY <1>5, <1>6 DEF DeadLetters, AllJobs
  <2>2. DeadLetters \in SUBSET AllJobs /\ DeadLetters' \in SUBSET AllJobs
        /\ IsFiniteSet(DeadLetters)
    BY DEF DeadLetters, AllJobs, TelemetryInv
  <2>3. DeadLetters' = IF again THEN DeadLetters ELSE DeadLetters \cup {<<t, j>>}
    BY <1>2, <2>1, <2>2 DEF AllJobs
  <2> QED
    BY <2>1, <2>2, <2>3, FS_AddElement
<1>9. /\ IsFiniteSet(Records(TRUE)') /\ Records(FALSE)' = Records(FALSE)
      /\ Cardinality(Records(TRUE)') =
            IF again THEN Cardinality(Records(TRUE)) ELSE Cardinality(Records(TRUE)) + 1
  <2>1. CASE again
    BY <1>1, <2>1 DEF Records, TelemetryInv, Occurrences
  <2>2. CASE ~again
    BY <1>1, <1>2, <2>2, OneRecordMore DEF TelemetryInv
  <2> QED
    BY <2>1, <2>2
<1>10. Results' = Results /\ BatchResults' = BatchResults
  BY <1>5 DEF Results, BatchResults, AllJobs
<1>11. Skipped' = Skipped
  BY <1>1, <1>5, <1>6 DEF Skipped, AllJobs
<1>12. /\ counters'.validated = counters.validated
       /\ counters'.succeeded = counters.succeeded
       /\ counters'.retry = IF again THEN counters.retry + 1 ELSE counters.retry
       /\ counters'.dead_letter =
             IF again THEN counters.dead_letter ELSE counters.dead_letter + 1
       /\ counters'.fetched \in {counters.fetched, counters.fetched + 1}
  BY <1>1, CountEffect
<1>13. /\ counters.validated \in Nat /\ counters.fetched \in Nat
       /\ counters.retry \in Nat /\ counters.dead_letter \in Nat
  BY <1>1 DEF TypeOK
<1>14. counters'.validated <= counters'.fetched
  BY <1>12, <1>13 DEF TelemetryInv, TelemetryAgrees
<1>15. counters'.dead_letter = Cardinality(DeadLetters')
  BY <1>8, <1>12 DEF TelemetryInv, TelemetryAgrees
<1>16. Cardinality(Records(TRUE)') = counters'.dead_letter
  BY <1>9, <1>12 DEF TelemetryInv, TelemetryAgrees
<1>17. counters'.retry + counters'.dead_letter = Cardinality(FailedAttempts')
  <2>1. counters.retry + counters.dead_letter = Cardinality(FailedAttempts)
    BY DEF TelemetryInv, TelemetryAgrees
  <2>2. CASE again
    BY <1>7, <1>12, <1>13, <2>1, <2>2
  <2>3. CASE ~again
    BY <1>7, <1>12, <1>13, <2>1, <2>3
  <2> QED
    BY <2>2, <2>3
<1> QED
  BY <1>7, <1>8, <1>9, <1>10, <1>11, <1>12, <1>14, <1>15, <1>16, <1>17 DEF TelemetryInv, TelemetryAgrees

LEMMA TelemetryStep ==
    ASSUME IInv, Unbegun, TelemetryInv, [Next]_vars
    PROVE  TelemetryInv'
<1>1. CASE UNCHANGED vars
  <2>1. /\ req' = req /\ errors' = errors /\ counters' = counters
        /\ UNCHANGED <<pc, queue, job, commits>> /\ TypeOK /\ TypeOK'
    BY <1>1, NextInv DEF IInv, vars, control, work, telemetry
  <2>2. \A u \in Tasks : SameCounts(u)
    BY <2>1, SameOthers
  <2>3. SameCounters /\ counters'.fetched >= counters.fetched
    BY <2>1 DEF SameCounters, TypeOK
  <2> QED
    BY <2>1, <2>2, <2>3, TelemetryFrame
<1>2. ASSUME NEW t \in Tasks, Start(t) \/ Step(t) PROVE TelemetryInv'
  BY <1>2, MovesTelemetry, SucceedTelemetry, FailTelemetry, SkipTelemetry DEF Step
<1> QED
  BY <1>1, <1>2 DEF Next

LEMMA UnbegunStep ==
    ASSUME IInv, Unbegun, [Next]_vars
    PROVE  Unbegun'
<1>1. CASE UNCHANGED vars
  BY <1>1 DEF Unbegun, Started, vars, control, work
<1>2. ASSUME NEW t \in Tasks, Start(t) \/ Step(t) PROVE Unbegun'
  <2>1. /\ \A u \in Tasks \ {t} : pc'[u] = pc[u] /\ queue'[u] = queue[u]
        /\ pc'[t] # "new"
    BY <1>2 DEF IInv, TypeOK, Start, Step, Fetch, FromCache, TakeJob, Reply, Succeed,
                Fail, Skip, Reject, Crash, Finish, work
  <2> QED
    BY <2>1 DEF Unbegun, Started
<1> QED
  BY <1>1, <1>2 DEF Next

-----------------------------------------------------------------------------
(* The processed counts.                                                   *)

\* A step of another kind than a batch's last leaves what is credited alone.
LEMMA CreditsFrame ==
    ASSUME req' = req,
           \A u \in Tasks : \/ pc[u] # "done" /\ (pc'[u] # "done" \/ Kind(u) # "batch")
                            \/ pc[u] = pc'[u] /\ commits'[u] = commits[u]
    PROVE  \A r \in Repos : Credits(r)' = Credits(r)
<1>1. \A u \in Tasks : Kind(u)' = Kind(u) /\ Repo(u)' = Repo(u)
  BY DEF Kind, Repo
<1> SUFFICES ASSUME NEW r \in Repos, NEW u \in Tasks, NEW i \in Jobs
             PROVE  <<u, i>> \in Credits(r)' <=> <<u, i>> \in Credits(r)
  BY DEF Credits, BatchResults, Results, AllJobs
<1> QED
  BY <1>1 DEF Credits, BatchResults, Results, AllJobs, Done

\* A batch that closes its books credits its repository with all its results.
LEMMA CreditsFinish ==
    ASSUME IInv, ProcessedTotals, TelemetryInv, NEW t \in Tasks, Finish(t), Kind(t) = "batch"
    PROVE  ProcessedTotals'
<1>1. /\ TypeOK /\ pc[t] = "pick" /\ pc' = [pc EXCEPT ![t] = "done"]
      /\ processed' = [processed EXCEPT ![Repo(t)] = @ + Len(commits[t])]
      /\ req' = req /\ commits' = commits
  BY DEF IInv, Finish
<1>2. /\ commits[t] \in Seq(Jobs) /\ IsInjective(commits[t]) /\ Len(commits[t]) \in Nat
      /\ Repo(t) \in Repos /\ processed \in [Repos -> Nat] /\ Done(t) \subseteq Jobs
  <2>1. commits[t] \in Seq(Jobs) /\ processed \in [Repos -> Nat]
    BY <1>1 DEF TypeOK
  <2>2. DOMAIN commits[t] = 1 .. Len(commits[t]) /\ Len(commits[t]) \in Nat
    BY <2>1, LenProperties
  <2>3. Done(t) \subseteq Jobs
    BY <2>1, <2>2, ElementOfSeq DEF Done, Range
  <2> QED
    BY <1>1, <2>1, <2>2, <2>3, RequestTypes DEF IInv, TaskInv, Places
<1>3. \A u \in Tasks : Kind(u)' = Kind(u) /\ Repo(u)' = Repo(u) /\ Done(u)' = Done(u)
  BY <1>1 DEF Kind, Repo, Done
<1>4. pc'[t] = "done" /\ \A u \in Tasks \ {t} : pc'[u] = pc[u]
  BY <1>1 DEF TypeOK
<1> DEFINE new == {t} \X Done(t)
<1>5. IsFiniteSet(new) /\ Cardinality(new) = Len(commits[t])
  <2>1. IsFiniteSet(Done(t)) /\ Cardinality(Done(t)) = Len(commits[t])
    BY <1>2, InjectiveLength DEF Done
  <2> DEFINE h == [i \in Done(t) |-> <<t, i>>]
  <2>2. h \in Bijection(Done(t), new)
    BY DEF Bijection, Injection, Surjection, IsInjective
  <2>3. ExistsBijection(Done(t), new)
    BY <2>2 DEF ExistsBijection
  <2> HIDE DEF new
  <2> QED
    BY <2>1, <2>3, FS_Bijection
<1>6. ASSUME NEW r \in Repos PROVE processed'[r] = Cardinality(Credits(r)')
  <2>1. \A u \in Tasks, i \in Jobs :
          <<u, i>> \in Credits(r)' <=> <<u, i>> \in Credits(r) \/ (r = Repo(t) /\ u = t /\ i \in Done(t))
    BY <1>1, <1>3, <1>4 DEF Credits, BatchResults, Results, AllJobs
  <2>2. /\ Credits(r) \in SUBSET AllJobs /\ Credits(r)' \in SUBSET AllJobs
        /\ Credits(r) \in SUBSET Results
    BY DEF Credits, BatchResults, Results
  <2>3. IsFiniteSet(Credits(r)) /\ processed[r] = Cardinality(Credits(r))
    BY <2>2, FS_Subset DEF TelemetryInv, ProcessedTotals
  <2>4. CASE r = Repo(t)
    <3>1. Credits(r)' = Credits(r) \cup new
      BY <1>2, <2>1, <2>2, <2>4 DEF AllJobs
    <3>2. Credits(r) \cap new = {}
      BY <1>1 DEF Credits, BatchResults, Results, AllJobs
    <3>3. Cardinality(Credits(r) \cup new) = Cardinality(Credits(r)) + Cardinality(new)
      <4> DEFINE C == Credits(r)
      <4>1. IsFiniteSet(C) /\ IsFiniteSet(new) /\ C \cap new = {} /\ Cardinality(C) \in Nat
        BY <1>5, <2>3, <3>2, FS_CardinalityType
      <4> HIDE DEF C, new
      <4>2. Cardinality(C \cup new) = Cardinality(C) + Cardinality(new) - Cardinality(C \cap new)
        BY <4>1, FS_Union
      <4>3. Cardinality(new) \in Nat /\ Cardinality(C \cap new) = 0
        BY <4>1, FS_EmptySet, FS_CardinalityType
      <4> QED
        BY <4>1, <4>2, <4>3 DEF C
    <3> QED
      BY <1>1, <1>2, <1>5, <2>3, <2>4, <3>1, <3>3
  <2>5. CASE r # Repo(t)
    <3>1. Credits(r)' = Credits(r)
      BY <2>1, <2>2, <2>5 DEF AllJobs
    <3> QED
      BY <1>1, <1>2, <2>3, <2>5, <3>1
  <2> QED
    BY <2>4, <2>5
<1> QED
  BY <1>6 DEF ProcessedTotals

LEMMA CreditsStep ==
    ASSUME IInv, ProcessedTotals, TelemetryInv, [Next]_vars
    PROVE  ProcessedTotals'
<1>1. CASE UNCHANGED vars
  <2>1. UNCHANGED <<req, pc, commits, processed>>
    BY <1>1 DEF vars, control, work, stores
  <2> QED
    BY <2>1, CreditsFrame DEF ProcessedTotals
<1>2. ASSUME NEW t \in Tasks, Start(t) \/ Step(t), ~(Finish(t) /\ Kind(t) = "batch")
      PROVE  ProcessedTotals'
  <2>1. /\ req' = req /\ processed' = processed
        /\ pc[t] # "done" /\ (pc'[t] # "done" \/ Kind(t) # "batch")
    BY <1>2 DEF IInv, TypeOK, Start, Step, Fetch, FromCache, TakeJob, Reply, Succeed,
                Fail, Skip, Reject, Crash, Finish, Got, stores
  <2>2. \A u \in Tasks \ {t} : pc'[u] = pc[u] /\ commits'[u] = commits[u]
    BY <1>2 DEF IInv, TypeOK, Start, Step, Fetch, FromCache, TakeJob, Reply, Succeed,
                Fail, Skip, Reject, Crash, Finish, Got, work
  <2> QED
    BY <2>1, <2>2, CreditsFrame DEF ProcessedTotals
<1> QED
  BY <1>1, <1>2, CreditsFinish DEF Next

-----------------------------------------------------------------------------
LEMMA InitCounts == Init => CountsInv
<1> SUFFICES ASSUME Init PROVE CountsInv
  OBVIOUS
<1>1. \A t \in Tasks : /\ ~Started(t) /\ commits[t] = <<>> /\ queue[t] = EmptyQueue(Jobs)
  BY DEF Init, Started
<1>2. \A t \in Tasks : Done(t) = {} /\ Dead(t) = {} /\ Dropped(t) = {}
  BY <1>1, EmptyLemma DEF Done, Dead, Dropped, EmptyQueue
<1>3. Results = {} /\ BatchResults = {} /\ DeadLetters = {} /\ Skipped = {}
      /\ \A r \in Repos : Credits(r) = {}
  BY <1>2 DEF Results, BatchResults, DeadLetters, Skipped, Credits, AllJobs
<1>4. FailedAttempts = {}
  BY <1>1, NoOccurrences DEF FailedAttempts, EmptyQueue, AllJobs
<1>5. Records(TRUE) = {} /\ Records(FALSE) = {}
  BY NoOccurrences DEF Records, Init
<1>6. IsFiniteSet({}) /\ Cardinality({}) = 0
  BY FS_EmptySet
<1>7. TelemetryInv
  <2>1. /\ counters.validated = 0 /\ counters.succeeded = 0 /\ counters.fetched = 0
        /\ counters.dead_letter = 0 /\ counters.retry = 0
    BY DEF Init
  <2>2. /\ counters.retry + counters.dead_letter = Cardinality(FailedAttempts)
        /\ counters.validated <= counters.fetched
    BY <1>4, <1>6, <2>1
  <2>3. /\ Cardinality(Records(TRUE)) = counters.dead_letter
        /\ Cardinality(Records(FALSE)) = Cardinality(Skipped)
    BY <1>3, <1>5, <1>6, <2>1
  <2>4. TelemetryAgrees
    BY <1>3, <1>6, <2>1, <2>2, <2>3 DEF TelemetryAgrees
  <2> QED
    BY <1>3, <1>4, <1>5, <1>6, <2>4 DEF TelemetryInv
<1>8. ProcessedTotals
  BY <1>3, <1>6 DEF ProcessedTotals, Init
<1> QED
  BY <1>1, <1>7, <1>8 DEF CountsInv, Unbegun

LEMMA NextCounts == IInv /\ CountsInv /\ [Next]_vars => CountsInv'
  BY TelemetryStep, UnbegunStep, CreditsStep DEF CountsInv

\* Counters, error records and processed counts add up across any number of
\* interleaved requests, whatever GitHub answers them.
THEOREM CountsAddUp == Spec => []CountsAgree
<1>1. Init => IInv /\ CountsInv
  BY InitInv, InitCounts
<1>2. IInv /\ CountsInv /\ [Next]_vars => IInv' /\ CountsInv'
  BY NextInv, NextCounts
<1>3. CountsInv => CountsAgree
  BY DEF CountsInv, TelemetryInv, CountsAgree
<1> QED
  BY <1>1, <1>2, <1>3, PTL DEF Spec

=============================================================================
