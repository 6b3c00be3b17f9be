---------------------------- MODULE MCHaRollout -----------------------------
(* Small instances of HaRollout for TLC. *)
EXTENDS HaRollout
=============================================================================
