--------------------------- MODULE MCQueueWorkers ---------------------------
(***************************************************************************)
(* QueueWorkers for TLC: three jobs, so that one can be out, one waiting   *)
(* for a retry and one in main at the same time.                           *)
(***************************************************************************)
EXTENDS QueueWorkers

CONSTANTS j1, j2, j3

MCJobs == {j1, j2, j3}

=============================================================================
