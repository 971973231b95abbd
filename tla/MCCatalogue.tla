---------------------------- MODULE MCCatalogue ----------------------------
(***************************************************************************)
(* Catalogue for TLC: three commits in a repository and its fork, a client *)
(* that pages through them.  Clients do not affect each other.             *)
(***************************************************************************)
EXTENDS Catalogue

CONSTANTS origin, fork, s1, s2, s3, r1

RepoAndFork == {origin, fork}
ThreeShas == {s1, s2, s3}
OneReader == {r1}

=============================================================================
