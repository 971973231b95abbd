---------------------------- MODULE MCDiscovery ----------------------------
(***************************************************************************)
(* Discovery for TLC: two branches.                                        *)
(***************************************************************************)
EXTENDS Discovery

CONSTANTS main, dev

TwoBranches == <<main, dev>>

=============================================================================
