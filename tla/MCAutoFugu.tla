----------------------------- MODULE MCAutoFugu -----------------------------
(* Small instances of AutoFugu for TLC. *)
EXTENDS AutoFugu

CONSTANT codex
=============================================================================
