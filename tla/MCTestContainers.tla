-------------------------- MODULE MCTestContainers --------------------------
(* Small instances of TestContainers for TLC. *)
EXTENDS TestContainers, TLC

CONSTANTS unit, postgres, memory, s1, s2, a1, m1

\* Two tests of the adapter, which are threads of one process, and two of
\* TestApp, each the only one of its process.
Binaries == {unit, postgres, memory}
TestsOfBinaries == {s1, s2, a1, m1}
BinaryOf == s1 :> unit @@ s2 :> unit @@ a1 :> postgres @@ m1 :> memory
KindOf == s1 :> "store" @@ s2 :> "store" @@ a1 :> "app" @@ m1 :> "memory"
=============================================================================
