------------------------------ MODULE MCOrgRun ------------------------------
(***************************************************************************)
(* Runs for TLC: an organization of up to three repositories, of which two *)
(* are taken, beside a run for the first of these.                         *)
(***************************************************************************)
EXTENDS OrgRun, TLC

CONSTANTS t1, t2, t3, t4, o1, o2, r1, r2, r3, a, b

MCTasks == {t1, t2, t3, t4}
MCRepos == {r1, r2, r3}
MCRefs == {a, b}
MCShaOf == (a :> a) @@ (b :> b)
MCRuns == {o1, o2}
MCRepoRuns == {o2}
Batch(t, r) == [task |-> t, repo |-> r]
MCBatches == (o1 :> <<Batch(t1, r1), Batch(t2, r2), Batch(t3, r3)>>) @@ (o2 :> <<Batch(t4, r1)>>)

Request(kind, repo, refs, retries) ==
    [kind |-> kind, repo |-> repo, refs |-> refs, retries |-> retries]

\* A commit of each repository; the run for r1 may ask for two, without retries.
MCRequests == {Request("batch", r1, <<a>>, 1),
               Request("batch", r1, <<a, b>>, 0),
               Request("batch", r2, <<a>>, 1),
               Request("batch", r3, <<a>>, 1)}

=============================================================================
