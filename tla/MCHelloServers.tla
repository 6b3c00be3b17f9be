--------------------------- MODULE MCHelloServers ---------------------------
(* Small instances of HelloServers for TLC. *)
EXTENDS HelloServers
=============================================================================
