---------------------------- MODULE JobContract ----------------------------
(***************************************************************************)
(* What the processing layer promises about one commit job, whatever       *)
(* queues and tasks carry it: a submitted job is tried one attempt at a    *)
(* time, fails at most limit + 1 times, and ends in exactly one of two     *)
(* ways, processed ("done") or dead-lettered ("dead").  A job may also be  *)
(* abandoned, when the request that owns it dies: only if MayAbandon.      *)
(***************************************************************************)
EXTENDS Naturals

CONSTANTS Jobs,         \* job identities
          Limits,       \* the retry limits a request may ask for, naturals
          MayAbandon    \* may a request die with jobs still unsettled?

VARIABLES phase,        \* phase[j]: where job j is in its life
          failures,     \* failures[j]: failed attempts of j so far
          limit         \* limit[j]: retries j was granted when submitted

vars == <<phase, failures, limit>>

Phases == {"absent", "waiting", "running", "done", "dead", "lost"}

Init ==
    /\ phase = [j \in Jobs |-> "absent"]
    /\ failures = [j \in Jobs |-> 0]
    /\ limit = [j \in Jobs |-> 0]

\* A request submits a set of new jobs, all with the same retry limit.
Submit(S, n) ==
    /\ \A j \in S : phase[j] = "absent"
    /\ phase' = [j \in Jobs |-> IF j \in S THEN "waiting" ELSE phase[j]]
    /\ limit' = [j \in Jobs |-> IF j \in S THEN n ELSE limit[j]]
    /\ UNCHANGED failures

Start(j) ==
    /\ phase[j] = "waiting"
    /\ phase' = [phase EXCEPT ![j] = "running"]
    /\ UNCHANGED <<failures, limit>>

Succeed(j) ==
    /\ phase[j] = "running"
    /\ phase' = [phase EXCEPT ![j] = "done"]
    /\ UNCHANGED <<failures, limit>>

\* A failed attempt: back to waiting while the limit allows it, else dead.
Fail(j) ==
    /\ phase[j] = "running"
    /\ failures' = [failures EXCEPT ![j] = @ + 1]
    /\ phase' = [phase EXCEPT ![j] = IF failures[j] < limit[j]
                                     THEN "waiting" ELSE "dead"]
    /\ UNCHANGED limit

\* A request dies: every one of its unsettled jobs is lost.
Abandon(S) ==
    /\ MayAbandon
    /\ \A j \in S : phase[j] \in {"waiting", "running"}
    /\ phase' = [j \in Jobs |-> IF j \in S THEN "lost" ELSE phase[j]]
    /\ UNCHANGED <<failures, limit>>

Next ==
    \/ \E S \in SUBSET Jobs, n \in Limits : Submit(S, n)
    \/ \E j \in Jobs : Start(j) \/ Succeed(j) \/ Fail(j)
    \/ \E S \in SUBSET Jobs : Abandon(S)

Spec == Init /\ [][Next]_vars

=============================================================================
