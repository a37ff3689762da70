-------------------------- MODULE MCReviewAttempts --------------------------
(* Small instances of ReviewAttempts for TLC. *)
EXTENDS ReviewAttempts
=============================================================================
