------------------------------ MODULE MCEngine ------------------------------
(***************************************************************************)
(* The engine for TLC: two requests at a time over a repository and its   *)
(* fork, which share the commits a and b; `short' is an abbreviation of a. *)
(***************************************************************************)
EXTENDS EngineProperties, TLC

CONSTANTS t1, t2, r1, r2, a, b, short

MCTasks == {t1, t2}
MCRepos == {r1, r2}
MCRefs == {a, b, short}
MCShaOf == (a :> a) @@ (b :> b) @@ (short :> a)

Request(kind, repo, refs, retries) ==
    [kind |-> kind, repo |-> repo, refs |-> refs, retries |-> retries]

\* A batch with one retry each, one that names a commit three times and may
\* not retry, a push, and single commits, one asked for by its abbreviation and
\* one of the fork.
MCRequests == {Request("batch", r1, <<a, b>>, 1),
               Request("batch", r1, <<a, a, short>>, 0),
               Request("webhook", r1, <<a, b>>, 0),
               Request("commit", r1, <<short>>, 0),
               Request("commit", r2, <<a>>, 0)}

=============================================================================
