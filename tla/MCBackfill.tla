----------------------------- MODULE MCBackfill -----------------------------
(***************************************************************************)
(* Backfill for TLC: two backfills and one request.                        *)
(***************************************************************************)
EXTENDS Backfill

CONSTANTS b1, b2, r1

TwoBackfills == {b1, b2}
OneRequest == {r1}

=============================================================================
