---------------------------- MODULE MCStandbyPair ---------------------------
(* Small instances of StandbyPair for TLC. *)
EXTENDS StandbyPair
=============================================================================
