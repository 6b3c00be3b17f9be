----------------------- MODULE MCPostgresCounterStore -----------------------
(* Small instances of PostgresCounterStore for TLC. *)
EXTENDS PostgresCounterStore
=============================================================================
