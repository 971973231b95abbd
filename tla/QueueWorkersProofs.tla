------------------------- MODULE QueueWorkersProofs -------------------------
(***************************************************************************)
(* The queue's invariants hold for every set of jobs and every max_retries,*)
(* and every step of the queue is a step of JobContract.                   *)
(***************************************************************************)
EXTENDS QueueWorkers, ListLemmas

IInv == TypeOK /\ Accounted /\ Budget

Main == Range(queue.main)
Retry == Range(queue.retry)
Dead == Range(queue.dead)

\* Accounted, place by place.
Partition ==
    /\ NoRepeats(queue)
    /\ Jobs = fresh \cup Main \cup Retry \cup taken \cup done \cup Dead
    /\ fresh \cap Main = {} /\ fresh \cap Retry = {} /\ fresh \cap taken = {}
    /\ fresh \cap done = {} /\ fresh \cap Dead = {}
    /\ Main \cap taken = {} /\ Main \cap done = {} /\ Main \cap Dead = {}
    /\ Retry \cap taken = {} /\ Retry \cap done = {} /\ Retry \cap Dead = {}
    /\ taken \cap done = {} /\ taken \cap Dead = {} /\ done \cap Dead = {}

LEMMA AtLemma ==
    /\ At("fresh") = fresh /\ At("main") = Main /\ At("retry") = Retry
    /\ At("taken") = taken /\ At("done") = done /\ At("dead") = Dead
  BY DEF At, Main, Retry, Dead

LEMMA PartitionLemma == TypeOK => (Accounted <=> Partition)
<1> SUFFICES ASSUME TypeOK PROVE Accounted <=> Partition
  OBVIOUS
<1>1. Main \subseteq Jobs /\ Retry \subseteq Jobs /\ Dead \subseteq Jobs
  BY RangeOfSeq DEF TypeOK, QueueOf, Main, Retry, Dead
<1>2. ASSUME Accounted PROVE Partition
  <2>1. Jobs = fresh \cup Main \cup Retry \cup taken \cup done \cup Dead
    BY <1>1, <1>2, AtLemma DEF Accounted, Places, TypeOK
  <2>2. \A p1, p2 \in Places : p1 # p2 => At(p1) \cap At(p2) = {}
    BY <1>2 DEF Accounted
  <2>3. {"fresh", "main", "retry", "taken", "done", "dead"} = Places
    BY DEF Places
  <2>4. /\ At("fresh") \cap At("main") = {} /\ At("fresh") \cap At("retry") = {}
        /\ At("fresh") \cap At("taken") = {} /\ At("fresh") \cap At("done") = {}
        /\ At("fresh") \cap At("dead") = {}
    BY <2>2, <2>3
  <2>5. /\ At("main") \cap At("retry") = {} /\ At("main") \cap At("taken") = {}
        /\ At("main") \cap At("done") = {} /\ At("main") \cap At("dead") = {}
        /\ At("retry") \cap At("taken") = {} /\ At("retry") \cap At("done") = {}
        /\ At("retry") \cap At("dead") = {} /\ At("taken") \cap At("done") = {}
        /\ At("taken") \cap At("dead") = {} /\ At("done") \cap At("dead") = {}
    BY <2>2, <2>3
  <2> QED
    BY <1>2, <2>1, <2>4, <2>5, AtLemma
    DEF Partition, NoRepeats, Accounted, Main, Retry
<1>3. ASSUME Partition PROVE Accounted
  <2>1. ASSUME NEW j \in Jobs PROVE \E p \in Places : j \in At(p)
    BY <1>3, AtLemma DEF Partition, Places
  <2>2. ASSUME NEW p1 \in Places, NEW p2 \in Places, p1 # p2
        PROVE  At(p1) \cap At(p2) = {}
    <3>1. Main \cap Retry = {}
      BY <1>3 DEF Partition, NoRepeats, Main, Retry
    <3> QED
      BY <1>3, <2>2, <3>1, AtLemma DEF Partition, Places
  <2> QED
    BY <1>3, <2>1, <2>2 DEF Accounted, Partition, NoRepeats
<1> QED
  BY <1>2, <1>3

\* The same two facts about the next state.
LEMMA AtNext ==
    /\ At("fresh")' = fresh' /\ At("main")' = Main' /\ At("retry")' = Retry'
    /\ At("taken")' = taken' /\ At("done")' = done' /\ At("dead")' = Dead'
  BY DEF At, Main, Retry, Dead

LEMMA PartitionNext == TypeOK' => (Accounted' <=> Partition')
  BY PartitionLemma, PTL

LEMMA InitInv == Init => IInv
<1> SUFFICES ASSUME Init PROVE IInv
  OBVIOUS
<1>1. queue = EmptyQueue(Jobs) /\ fresh = Jobs /\ taken = {} /\ done = {}
  BY DEF Init
<1>2. Main = {} /\ Retry = {} /\ Dead = {} /\ NoRepeats(queue)
  BY <1>1, EmptyLemma DEF EmptyQueue, Main, Retry, Dead, NoRepeats
<1>3. TypeOK
  BY <1>1, EmptyLemma DEF TypeOK, QueueOf, EmptyQueue
<1>4. Accounted
  BY <1>1, <1>2, <1>3, PartitionLemma DEF Partition
<1>5. Budget
  BY <1>1, <1>2, AtLemma DEF Budget, EmptyQueue
<1> QED
  BY <1>3, <1>4, <1>5 DEF IInv

\* One step preserves the invariant, action by action.
LEMMA EnqueueInv ==
    ASSUME IInv, NEW j \in Jobs, Enqueue(j)
    PROVE  IInv'
<1>1. /\ TypeOK /\ Partition /\ Budget /\ queue \in QueueOf(Jobs)
      /\ queue.main \in Seq(Jobs) /\ j \in fresh
      /\ fresh' = fresh \ {j} /\ taken' = taken /\ done' = done
  BY PartitionLemma DEF IInv, TypeOK, QueueOf, Enqueue
<1>2. queue' = [queue EXCEPT !.main = Append(queue.main, j)]
  <2>1. queue.main \o <<j>> = Append(queue.main, j)
    BY <1>1, AppendIsConcat
  <2> QED
    BY <2>1 DEF Enqueue, EnqueueMany
<1>3. /\ Append(queue.main, j) \in Seq(Jobs) /\ Main' = Main \cup {j}
      /\ IsInjective(Append(queue.main, j))
      /\ Retry' = Retry /\ Dead' = Dead /\ queue'.attempts = queue.attempts
      /\ IsInjective(queue'.main) /\ IsInjective(queue'.retry)
      /\ IsInjective(queue'.dead)
  <2>1. j \notin Range(queue.main) /\ IsInjective(queue.main)
    BY <1>1 DEF Partition, NoRepeats, Main
  <2>2. /\ Append(queue.main, j) \in Seq(Jobs)
        /\ IsInjective(Append(queue.main, j))
        /\ Range(Append(queue.main, j)) = Range(queue.main) \cup {j}
    BY <1>1, <2>1, AppendLemma
  <2>3. /\ queue'.main = Append(queue.main, j) /\ queue'.retry = queue.retry
        /\ queue'.dead = queue.dead /\ queue'.attempts = queue.attempts
    BY <1>1, <1>2 DEF QueueOf
  <2> QED
    BY <1>1, <2>2, <2>3 DEF Partition, NoRepeats, Main, Retry, Dead
<1>4. TypeOK'
  BY <1>1, <1>2, <1>3 DEF TypeOK, QueueOf
<1>5. Partition'
  <2>1. NoRepeats(queue')
    BY <1>1, <1>3 DEF Partition, NoRepeats, Main, Retry, Dead
  <2> QED
    BY <1>1, <1>3, <2>1 DEF Partition
<1>6. Budget'
  BY <1>1, <1>3, AtLemma, AtNext DEF Budget, Partition
<1> QED
  BY <1>4, <1>5, <1>6, PartitionNext DEF IInv

LEMMA TakeInv == ASSUME IInv, Take PROVE IInv'
<1> DEFINE j == NextJob(queue)
<1>1. /\ TypeOK /\ Partition /\ Budget /\ queue \in QueueOf(Jobs)
      /\ ~IsEmpty(queue) /\ NoRepeats(queue)
      /\ fresh' = fresh /\ taken' = taken \cup {j} /\ done' = done
      /\ queue' = Dequeue(queue)
  BY PartitionLemma DEF IInv, TypeOK, Take, Partition
<1>2. /\ j \in Main \cup Retry /\ j \in Jobs
      /\ queue' \in QueueOf(Jobs) /\ NoRepeats(queue')
      /\ Main' = Main \ {j} /\ Retry' = Retry \ {j} /\ Dead' = Dead
      /\ queue'.attempts = queue.attempts
  BY <1>1, DequeueLemma DEF Main, Retry, Dead, Pending
<1> HIDE DEF j
<1>3. TypeOK'
  BY <1>1, <1>2 DEF TypeOK
<1>4. Partition'
  BY <1>1, <1>2 DEF Partition
<1>5. Budget'
  <2>1. queue.attempts[j] \in 0 .. MaxRetries
    BY <1>1, <1>2, AtLemma, MaxRetriesAssumption DEF Budget
  <2> QED
    BY <1>1, <1>2, <2>1, AtLemma, AtNext DEF Budget
<1> QED
  BY <1>3, <1>4, <1>5, PartitionNext DEF IInv

LEMMA SucceedInv ==
    ASSUME IInv, NEW j \in Jobs, Succeed(j)
    PROVE  IInv'
<1>1. /\ TypeOK /\ Partition /\ Budget /\ j \in taken
      /\ queue' = queue /\ Main' = Main /\ Retry' = Retry /\ Dead' = Dead
      /\ fresh' = fresh /\ taken' = taken \ {j} /\ done' = done \cup {j}
  BY PartitionLemma DEF IInv, Succeed, Main, Retry, Dead
<1>2. TypeOK'
  BY <1>1 DEF TypeOK
<1>3. Partition'
  BY <1>1 DEF Partition
<1>4. Budget'
  BY <1>1, AtLemma, AtNext DEF Budget
<1> QED
  BY <1>2, <1>3, <1>4, PartitionNext DEF IInv

LEMMA FailInv ==
    ASSUME IInv, NEW j \in Jobs, Fail(j)
    PROVE  IInv'
<1> DEFINE again == queue.attempts[j] + 1 <= MaxRetries
<1>1. /\ TypeOK /\ Partition /\ Budget /\ queue \in QueueOf(Jobs)
      /\ NoRepeats(queue) /\ j \in taken
      /\ j \notin Pending(queue) /\ j \notin Range(queue.dead)
      /\ fresh' = fresh /\ taken' = taken \ {j} /\ done' = done
      /\ queue' = MarkFailed(queue, j, MaxRetries)
  BY PartitionLemma
  DEF IInv, TypeOK, Fail, Partition, Pending, Main, Retry, Dead
<1>2. /\ queue' \in QueueOf(Jobs) /\ NoRepeats(queue')
      /\ Main' = Main
      /\ Retry' = Retry \cup (IF again THEN {j} ELSE {})
      /\ Dead' = Dead \cup (IF again THEN {} ELSE {j})
      /\ queue'.attempts = [queue.attempts EXCEPT ![j] = @ + 1]
  BY <1>1, MarkFailedLemma, MaxRetriesAssumption DEF FailedTo, Main, Retry, Dead
<1>3. TypeOK'
  BY <1>1, <1>2 DEF TypeOK
<1>4. Partition'
  BY <1>1, <1>2 DEF Partition
<1>5. Budget'
  <2>1. /\ queue.attempts \in [Jobs -> Nat]
        /\ queue.attempts[j] \in 0 .. MaxRetries
        /\ queue'.attempts[j] = queue.attempts[j] + 1
        /\ \A k \in Jobs \ {j} : queue'.attempts[k] = queue.attempts[k]
    BY <1>1, <1>2, AtLemma DEF Budget, QueueOf
  <2>2. /\ j \notin fresh' /\ j \notin Main' /\ j \notin taken' /\ j \notin done'
        /\ fresh' \cup Main' \cup Retry' \cup taken' \cup done' \cup Dead' \subseteq Jobs
    <3>1. Jobs = fresh' \cup Main' \cup Retry' \cup taken' \cup done' \cup Dead'
      BY <1>4 DEF Partition
    <3>2. j \notin fresh /\ j \notin Main /\ j \notin done
      BY <1>1 DEF Partition
    <3> QED
      BY <1>1, <1>2, <3>1, <3>2
  <2>3. \A k \in fresh' \cup Main' : queue'.attempts[k] = 0
    BY <1>1, <1>2, <2>1, <2>2, AtLemma DEF Budget
  <2>4. \A k \in Retry' : queue'.attempts[k] \in 1 .. MaxRetries
    <3> SUFFICES ASSUME NEW k \in Retry' PROVE queue'.attempts[k] \in 1 .. MaxRetries
      OBVIOUS
    <3>1. CASE k = j
      <4>1. again
        BY <1>1, <1>2, <3>1 DEF Partition
      <4> QED
        BY <2>1, <3>1, <4>1, MaxRetriesAssumption
    <3>2. CASE k # j
      BY <1>1, <1>2, <2>1, <2>2, <3>2, AtLemma DEF Budget
    <3> QED
      BY <3>1, <3>2
  <2>5. \A k \in taken' \cup done' : queue'.attempts[k] \in 0 .. MaxRetries
    BY <1>1, <2>1, <2>2, AtLemma DEF Budget
  <2>6. \A k \in Dead' : queue'.attempts[k] = MaxRetries + 1
    <3> SUFFICES ASSUME NEW k \in Dead' PROVE queue'.attempts[k] = MaxRetries + 1
      OBVIOUS
    <3>1. CASE k = j
      <4>1. ~again
        BY <1>1, <1>2, <3>1 DEF Partition
      <4> QED
        BY <2>1, <3>1, <4>1, MaxRetriesAssumption
    <3>2. CASE k # j
      BY <1>1, <1>2, <2>1, <2>2, <3>2, AtLemma DEF Budget
    <3> QED
      BY <3>1, <3>2
  <2> QED
    BY <2>3, <2>4, <2>5, <2>6, AtNext DEF Budget
<1> QED
  BY <1>3, <1>4, <1>5, PartitionNext DEF IInv

LEMMA NextInv == IInv /\ [Next]_vars => IInv'
<1> SUFFICES ASSUME IInv, [Next]_vars PROVE IInv'
  OBVIOUS
<1>1. CASE Take
  BY <1>1, TakeInv
<1>2. ASSUME NEW j \in Jobs, Enqueue(j) PROVE IInv'
  BY <1>2, EnqueueInv
<1>3. ASSUME NEW j \in Jobs, Succeed(j) PROVE IInv'
  BY <1>3, SucceedInv
<1>4. ASSUME NEW j \in Jobs, Fail(j) PROVE IInv'
  BY <1>4, FailInv
<1>5. CASE UNCHANGED vars
  <2>1. /\ TypeOK /\ Partition /\ Budget
        /\ queue' = queue /\ fresh' = fresh /\ taken' = taken /\ done' = done
    BY <1>5, PartitionLemma DEF vars, IInv
  <2>2. TypeOK' /\ Partition'
    BY <2>1 DEF TypeOK, Partition, Main, Retry, Dead
  <2>3. Budget'
    BY <2>1, AtLemma, AtNext DEF Budget, Main, Retry, Dead
  <2> QED
    BY <2>2, <2>3, PartitionNext DEF IInv
<1> QED
  BY <1>1, <1>2, <1>3, <1>4, <1>5 DEF Next

\* In every behaviour of the queue IInv holds: values have their types, every
\* job is in exactly one place and has failed as often as its place says.
THEOREM Invariance == Spec => []IInv
<1>1. Init => IInv
  BY InitInv
<1>2. IInv /\ [Next]_vars => IInv'
  BY NextInv
<1> QED
  BY <1>1, <1>2, PTL DEF Spec

\* The variables always have their types (CommitQueue.__init__ and on).
THEOREM TypeCorrect == Spec => []TypeOK
  BY Invariance, PTL DEF IInv

\* No job is lost or duplicated by next_job and mark_failed, for any number
\* of jobs, workers and retries.
THEOREM JobsAccounted == Spec => []Accounted
  BY Invariance, PTL DEF IInv

\* max_retries is honoured exactly, for every max_retries.
THEOREM RetryBudget == Spec => []Budget
  BY Invariance, PTL DEF IInv

-----------------------------------------------------------------------------
(***************************************************************************)
(* Refinement: what each place means to JobContract, then one contract     *)
(* step per queue step.                                                    *)
(***************************************************************************)
PhaseOf ==
    \A j \in Jobs : /\ j \in fresh => Phase(j) = "absent"
                    /\ j \in Main \cup Retry => Phase(j) = "waiting"
                    /\ j \in taken => Phase(j) = "running"
                    /\ j \in done => Phase(j) = "done"
                    /\ j \in Dead => Phase(j) = "dead"

LEMMA PhaseLemma == Partition => PhaseOf
  BY AtLemma DEF Partition, PhaseOf, Phase

LEMMA PhaseNext == Partition' => PhaseOf'
  BY PhaseLemma, PTL

LEMMA RefineInit == Init => Contract!Init
<1> SUFFICES ASSUME Init PROVE Contract!Init
  OBVIOUS
<1>1. \A j \in Jobs : Phase(j) = "absent" /\ j \in fresh
  <2>1. TypeOK /\ Accounted /\ fresh = Jobs
    BY InitInv DEF Init, IInv
  <2> QED
    BY <2>1, PartitionLemma, PhaseLemma DEF PhaseOf
<1>2. queue.attempts = [j \in Jobs |-> 0]
  BY DEF Init, EmptyQueue
<1> QED
  BY <1>1, <1>2 DEF Contract!Init

LEMMA RefineStep ==
    ASSUME IInv, IInv', [Next]_vars
    PROVE  [Contract!Next]_(Contract!vars)
<1>1. /\ Partition /\ PhaseOf /\ PhaseOf' /\ NoRepeats(queue)
      /\ queue \in QueueOf(Jobs)
      /\ fresh \subseteq Jobs /\ taken \subseteq Jobs
      /\ Jobs = fresh' \cup Main' \cup Retry' \cup taken' \cup done' \cup Dead'
  BY PartitionLemma, PartitionNext, PhaseLemma, PhaseNext DEF IInv, TypeOK, Partition
<1>2. ASSUME NEW j \in Jobs, Enqueue(j) PROVE Contract!Next
  <2>1. /\ j \in fresh /\ fresh' = fresh \ {j} /\ taken' = taken /\ done' = done
        /\ queue'.retry = queue.retry /\ queue'.dead = queue.dead
        /\ queue'.attempts = queue.attempts
        /\ j \in Main' /\ Main \subseteq Main'
    <3>1. queue.main \in Seq(Jobs) /\ queue.main \o <<j>> = Append(queue.main, j)
      BY <1>1, AppendIsConcat DEF QueueOf
    <3>2. Range(Append(queue.main, j)) = Range(queue.main) \cup {j}
      BY <3>1, AppendLemma
    <3> QED
      BY <1>1, <1>2, <3>1, <3>2 DEF Enqueue, EnqueueMany, QueueOf, Main
  <2>2. Retry' = Retry /\ Dead' = Dead
    BY <2>1 DEF Retry, Dead
  <2>3. /\ Phase(j) = "absent" /\ Phase(j)' = "waiting"
        /\ \A k \in Jobs \ {j} : Phase(k)' = Phase(k)
    BY <1>1, <2>1, <2>2 DEF PhaseOf, Partition
  <2>4. Contract!Submit({j}, MaxRetries)
    BY <2>1, <2>3 DEF Contract!Submit
  <2> QED
    BY <2>4 DEF Contract!Next
<1>3. ASSUME Take PROVE Contract!Next
  <2>1. PICK j \in Jobs :
        /\ j \in Main \cup Retry
        /\ Main' = Main \ {j} /\ Retry' = Retry \ {j} /\ Dead' = Dead
        /\ queue'.attempts = queue.attempts
        /\ fresh' = fresh /\ taken' = taken \cup {j} /\ done' = done
    BY <1>1, <1>3, DequeueLemma DEF Take, Main, Retry, Dead, Pending
  <2>2. /\ Phase(j) = "waiting" /\ Phase(j)' = "running"
        /\ \A k \in Jobs \ {j} : Phase(k)' = Phase(k)
    BY <1>1, <2>1 DEF PhaseOf, Partition
  <2>3. Contract!Start(j)
    BY <2>1, <2>2 DEF Contract!Start
  <2> QED
    BY <2>1, <2>3 DEF Contract!Next
<1>4. ASSUME NEW j \in Jobs, Succeed(j) PROVE Contract!Next
  <2>1. /\ j \in taken /\ j \in done' /\ queue' = queue /\ fresh' = fresh
        /\ Main' = Main /\ Retry' = Retry /\ Dead' = Dead
        /\ taken' = taken \ {j} /\ done' = done \cup {j}
    BY <1>4 DEF Succeed, Main, Retry, Dead
  <2>2. /\ Phase(j) = "running" /\ Phase(j)' = "done"
        /\ \A k \in Jobs \ {j} : Phase(k)' = Phase(k)
    BY <1>1, <2>1 DEF PhaseOf, Partition
  <2>3. Contract!Succeed(j)
    BY <2>1, <2>2 DEF Contract!Succeed
  <2> QED
    BY <2>3 DEF Contract!Next
<1>5. ASSUME NEW j \in Jobs, Fail(j) PROVE Contract!Next
  <2> DEFINE again == queue.attempts[j] + 1 <= MaxRetries
  <2>1. /\ j \in taken /\ Main' = Main
        /\ Retry' = Retry \cup (IF again THEN {j} ELSE {})
        /\ Dead' = Dead \cup (IF again THEN {} ELSE {j})
        /\ queue'.attempts = [queue.attempts EXCEPT ![j] = @ + 1]
        /\ fresh' = fresh /\ taken' = taken \ {j} /\ done' = done
    <3>1. j \in taken /\ j \notin Pending(queue) /\ j \notin Range(queue.dead)
      BY <1>1, <1>5 DEF Fail, Partition, Pending, Main, Retry, Dead
    <3>2. /\ queue' = MarkFailed(queue, j, MaxRetries)
          /\ queue \in QueueOf(Jobs) /\ NoRepeats(queue)
      BY <1>1, <1>5 DEF Fail
    <3>3. /\ queue'.main = queue.main
          /\ Range(queue'.retry) = Range(queue.retry) \cup (IF again THEN {j} ELSE {})
          /\ Range(queue'.dead) = Range(queue.dead) \cup (IF again THEN {} ELSE {j})
          /\ queue'.attempts = [queue.attempts EXCEPT ![j] = @ + 1]
      BY <3>1, <3>2, MarkFailedLemma, MaxRetriesAssumption DEF FailedTo
    <3> QED
      BY <1>5, <3>3 DEF Fail, Main, Retry, Dead
  <2>2. queue.attempts[j] \in Nat /\ j \notin fresh
    BY <1>1, <2>1 DEF QueueOf, Partition
  <2>3. again <=> queue.attempts[j] < MaxRetries
    BY <2>2, MaxRetriesAssumption
  <2> HIDE DEF again
  <2>4. /\ Phase(j) = "running"
        /\ Phase(j)' = (IF again THEN "waiting" ELSE "dead")
        /\ \A k \in Jobs \ {j} : Phase(k)' = Phase(k)
    BY <1>1, <2>1 DEF PhaseOf, Partition
  <2>5. Contract!Fail(j)
    BY <2>1, <2>2, <2>3, <2>4 DEF Contract!Fail
  <2> QED
    BY <2>5 DEF Contract!Next
<1>6. ASSUME UNCHANGED vars PROVE UNCHANGED Contract!vars
  <2>1. queue' = queue /\ fresh' = fresh /\ taken' = taken /\ done' = done
    BY <1>6 DEF vars
  <2>2. \A k \in Jobs : Phase(k)' = Phase(k)
    BY <2>1 DEF Phase, At
  <2> QED
    BY <2>1, <2>2 DEF Contract!vars
<1> QED
  BY <1>2, <1>3, <1>4, <1>5, <1>6 DEF Next

\* The queue keeps the job contract for every set of jobs, every max_retries
\* and every interleaving of workers: one attempt at a time, at most
\* max_retries + 1 failures, one ending.
THEOREM Refinement == Spec => KeepsContract
<1>1. Init => Contract!Init
  BY RefineInit
<1>2. IInv /\ IInv' /\ [Next]_vars => [Contract!Next]_(Contract!vars)
  BY RefineStep
<1> QED
  BY <1>1, <1>2, Invariance, PTL DEF Spec, KeepsContract, Contract!Spec

=============================================================================
