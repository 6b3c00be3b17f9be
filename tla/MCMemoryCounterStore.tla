------------------------ MODULE MCMemoryCounterStore ------------------------
(* Small instances of MemoryCounterStore for TLC. *)
EXTENDS MemoryCounterStore
=============================================================================
