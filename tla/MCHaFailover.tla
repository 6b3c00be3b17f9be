---------------------------- MODULE MCHaFailover ----------------------------
(* Small instances of HaFailover for TLC. *)
EXTENDS HaFailover
=============================================================================
