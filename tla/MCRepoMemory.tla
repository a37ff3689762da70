---------------------------- MODULE MCRepoMemory ----------------------------
(* A small instance of RepoMemory for TLC. *)
EXTENDS RepoMemory

CONSTANTS s1, n1, n2
=============================================================================
