--------------------------- MODULE TestContainers ---------------------------
(***************************************************************************)
(* The tests that need a database: the unit tests of the Postgres adapter, *)
(* the integration tests with a TestApp, and those whose TestApp counts in *)
(* memory.  Tests of a process are threads; processes run side by side.    *)
(* Each test starts a container of its own on a port that was free a       *)
(* moment ago, waits until it can connect, counts, and removes it again.   *)
(*                                                                         *)
(* A container's name has a prefix of its kind, the process and a number   *)
(* from a static counter that the threads of the process share.  In the    *)
(* worst case a process that is run again has the same id, and its         *)
(* counters start again.                                                   *)
(*                                                                         *)
(* External: docker refuses a name or a port that is taken and, told to    *)
(* with --rm, leaves nothing behind then; docker rm may fail; a container  *)
(* that has started runs until it is removed; Postgres starts to accept    *)
(* connections some time after its container has started.                  *)
(*                                                                         *)
(* Simplification: counting is one step without the retries of the         *)
(* adapter, which PostgresCounterStore has; a connection that breaks       *)
(* beside them is a Panic.                                                 *)
(***************************************************************************)
EXTENDS Naturals, FiniteSets

CONSTANTS Tests,
          Processes,
          ProcessOf,  \* the process of each test
          Kind,       \* the kind of each test
          Ports,      \* the ephemeral ports
          Attempts,   \* attempts to connect, 30 in the code
          Probes,     \* attempts to see the database gone, 20 in the code
          MaxRuns,    \* bound: processes that are run again
          MaxFaults   \* bound: processes killed, containers not removed

Kinds == {"store", "app", "memory"}

ASSUME ConstantsAssumption ==
    /\ ProcessOf \in [Tests -> Processes]
    /\ Kind \in [Tests -> Kinds]
    /\ Attempts \in Nat \ {0}
    /\ Probes \in Nat \ {0}
    /\ MaxRuns \in Nat
    /\ MaxFaults \in Nat

NoPort == "none"
ASSUME NoPortAssumption == NoPort \notin Ports

VARIABLES pc,
          counter,     \* counter[s]: the static counter of series s
          name,        \* name[t]: <<series, number>>
          port,        \* port[t]: the port chosen for the container of t
          tries,       \* tries[t]: connections or probes so far
          visits,      \* visits[t]: how many numbers t has read
          answer,      \* answer[t]: the last of them
          listening,   \* listening[t]: the port the app of t listens on
          containers,  \* what runs: names to [port, accepts, count]
          orphans,     \* containers nobody will remove any more
          runs, faults

chosen == <<name, port>>
read == <<visits, answer>>
locals == <<chosen, tries, read, listening>>
bounds == <<runs, faults>>
rest == <<listening, containers, orphans, bounds>>
vars == <<pc, counter, chosen, tries, read, rest>>

\* A test has a container, or the name of one, or has ended.
Owning == {"waiting", "ready", "connected", "serving"}
Naming == Owning \cup {"chosen", "stopped"}
Ended == {"passed", "failed"}
NeedsDatabase(t) == Kind[t] # "memory"
Owns(t) == NeedsDatabase(t) /\ pc[t] \in Owning
HoldsName(t) == NeedsDatabase(t) /\ pc[t] \in Naming

\* The prefix of the tests of a kind, and the id of a process.
AllSeries == Kinds \X Processes
Series(t) == <<Kind[t], ProcessOf[t]>>

Init ==
    /\ pc = [t \in Tests |-> "idle"]
    /\ counter = [s \in AllSeries |-> 0]
    /\ name = [t \in Tests |-> <<Series(t), 0>>]
    /\ port = [t \in Tests |-> NoPort]
    /\ tries = [t \in Tests |-> 0]
    /\ visits = [t \in Tests |-> 0]
    /\ answer = [t \in Tests |-> 0]
    /\ listening = [t \in Tests |-> NoPort]
    /\ containers = [n \in {} |-> 0]
    /\ orphans = {}
    /\ runs = 0 /\ faults = 0

At(p) == {n \in DOMAIN containers : containers[n].port = p}
Free(p) == At(p) = {} /\ \A t \in Tests : listening[t] # p
Reached(t) == {n \in At(port[t]) : containers[n].accepts}
Without(n) == [m \in DOMAIN containers \ {n} |-> containers[m]]

Fault == faults < MaxFaults /\ faults' = faults + 1

Goes(t, state) == pc' = [pc EXCEPT ![t] = state]

\* Tests that have ended: their variables and their listeners are gone.
Forget(T) ==
    /\ name' = [t \in Tests |-> IF t \in T THEN <<Series(t), 0>> ELSE name[t]]
    /\ port' = [t \in Tests |-> IF t \in T THEN NoPort ELSE port[t]]
    /\ tries' = [t \in Tests |-> IF t \in T THEN 0 ELSE tries[t]]
    /\ visits' = [t \in Tests |-> IF t \in T THEN 0 ELSE visits[t]]
    /\ answer' = [t \in Tests |-> IF t \in T THEN 0 ELSE answer[t]]
    /\ listening' = [t \in Tests |-> IF t \in T THEN NoPort ELSE listening[t]]

\* Drop of the container, which ignores whether docker rm fails.
Drop(t) ==
    \/ containers' = Without(name[t]) /\ UNCHANGED <<orphans, faults>>
    \/ /\ Fault /\ name[t] \in DOMAIN containers
       /\ orphans' = orphans \cup {name[t]} /\ UNCHANGED containers

\* The end of a test, also by a panic: TestApp stops its server, and the
\* container is dropped.
Leave(t, state) ==
    /\ Goes(t, state)
    /\ Forget({t})
    /\ IF NeedsDatabase(t)
         THEN Drop(t)
         ELSE UNCHANGED <<containers, orphans, faults>>
    /\ UNCHANGED <<counter, runs>>

-----------------------------------------------------------------------------
(* PostgresHarness::spawn, PostgresContainer::spawn *)

\* A counter that is loaded and stored instead of fetch_add: the increment
\* of one thread may be lost to that of another.
LoadStoreChoose(t) ==
    /\ pc[t] = "idle" /\ NeedsDatabase(t)
    /\ \E p \in Ports : Free(p) /\ port' = [port EXCEPT ![t] = p]
    /\ name' = [name EXCEPT ![t] = <<Series(t), counter[Series(t)]>>]
    /\ \/ counter' = [counter EXCEPT ![Series(t)] = @ + 1]
       \/ UNCHANGED counter
    /\ Goes(t, "chosen")
    /\ UNCHANGED <<tries, read, rest>>

\* The port is free again as soon as it is known.
Choose(t) ==
    /\ pc[t] = "idle" /\ NeedsDatabase(t)
    /\ \E p \in Ports : Free(p) /\ port' = [port EXCEPT ![t] = p]
    /\ name' = [name EXCEPT ![t] = <<Series(t), counter[Series(t)]>>]
    /\ counter' = [counter EXCEPT ![Series(t)] = @ + 1]
    /\ Goes(t, "chosen")
    /\ UNCHANGED <<tries, read, rest>>

\* A harness that does not look at what docker run returned.
UncheckedDockerRun(t) ==
    /\ pc[t] = "chosen"
    /\ containers' = IF name[t] \notin DOMAIN containers /\ Free(port[t])
                       THEN [n \in DOMAIN containers \cup {name[t]} |->
                               IF n = name[t]
                                 THEN [port |-> port[t], accepts |-> FALSE,
                                       count |-> 0]
                                 ELSE containers[n]]
                       ELSE containers
    /\ Goes(t, "waiting")
    /\ UNCHANGED <<counter, locals, orphans, bounds>>

\* docker run; it may fail for other reasons as well.
DockerRun(t) ==
    /\ pc[t] = "chosen"
    /\ \/ /\ name[t] \notin DOMAIN containers /\ Free(port[t])
          /\ containers' = [n \in DOMAIN containers \cup {name[t]} |->
                              IF n = name[t]
                                THEN [port |-> port[t], accepts |-> FALSE,
                                      count |-> 0]
                                ELSE containers[n]]
          /\ Goes(t, "waiting")
          /\ UNCHANGED locals
       \/ UNCHANGED containers /\ Goes(t, "failed") /\ Forget({t})
    /\ UNCHANGED <<counter, orphans, bounds>>

Accept(n) ==
    /\ ~containers[n].accepts
    /\ containers' = [containers EXCEPT ![n].accepts = TRUE]
    /\ UNCHANGED <<pc, counter, locals, orphans, bounds>>

\* wait_until_ready, connect_store: INIT_SQL leaves the count at 0.
Connected(t) ==
    /\ pc[t] = "waiting"
    /\ Reached(t) # {}
    /\ Goes(t, "ready")
    /\ tries' = [tries EXCEPT ![t] = 0]
    /\ UNCHANGED <<counter, chosen, read, rest>>

\* A harness that comes into being only when it is ready: what is not ready
\* in time is never dropped.
LeakyNotConnected(t) ==
    /\ pc[t] = "waiting"
    /\ Reached(t) = {}
    /\ IF tries[t] + 1 = Attempts
         THEN Goes(t, "failed") /\ Forget({t})
         ELSE /\ tries' = [tries EXCEPT ![t] = @ + 1]
              /\ UNCHANGED <<pc, chosen, read, listening>>
    /\ UNCHANGED <<counter, containers, orphans, bounds>>

\* A harness that waits for as long as it takes.
EndlessNotConnected(t) ==
    /\ pc[t] = "waiting"
    /\ Reached(t) = {}
    /\ UNCHANGED vars

NotConnected(t) ==
    /\ pc[t] = "waiting"
    /\ Reached(t) = {}
    /\ \/ /\ tries[t] + 1 < Attempts
          /\ tries' = [tries EXCEPT ![t] = @ + 1]
          /\ UNCHANGED <<pc, counter, chosen, read, rest>>
       \/ tries[t] + 1 = Attempts /\ Leave(t, "failed")

-----------------------------------------------------------------------------
(* TestApp *)

\* spawn_counter_postgres makes a store of its own when the harness is ready.
ConnectStore(t) ==
    /\ pc[t] = "ready" /\ Kind[t] = "app"
    /\ Reached(t) # {}
    /\ Goes(t, "connected")
    /\ UNCHANGED <<counter, chosen, tries, read, rest>>

\* spawn_router keeps the listener whose port it has got.
Listen(t) ==
    /\ \/ pc[t] = "connected"
       \/ pc[t] = "idle" /\ ~NeedsDatabase(t)
    /\ \E p \in Ports : Free(p) /\ listening' = [listening EXCEPT ![t] = p]
    /\ Goes(t, "serving")
    /\ UNCHANGED <<counter, chosen, tries, read, containers, orphans, bounds>>

-----------------------------------------------------------------------------
(* The tests. *)

Counting(t) ==
    \/ pc[t] = "ready" /\ Kind[t] = "store"
    \/ pc[t] = "serving"

\* client.hello(), store.next_visitor_count()
Count(t) ==
    /\ Counting(t) /\ visits[t] < 2
    /\ visits' = [visits EXCEPT ![t] = @ + 1]
    /\ IF NeedsDatabase(t)
         THEN \E n \in Reached(t) :
                /\ answer' = [answer EXCEPT ![t] = containers[n].count + 1]
                /\ containers' = [containers EXCEPT ![n].count = @ + 1]
         ELSE /\ answer' = [answer EXCEPT ![t] = @ + 1]
              /\ UNCHANGED containers
    /\ UNCHANGED <<pc, counter, chosen, tries, listening, orphans, bounds>>

\* Tests that count do so twice and read 1 and 2; the others do not count.
Finish(t) ==
    /\ Counting(t) /\ visits[t] \in {0, 2}
    /\ Leave(t, IF answer[t] = visits[t] THEN "passed" ELSE "failed")

\* An expect or a ? on the way.
Panic(t) ==
    /\ pc[t] \in {"ready", "connected", "serving"}
    /\ Leave(t, "failed")

\* health_fails_when_connection_is_broken
StopDatabase(t) ==
    /\ pc[t] = "ready" /\ Kind[t] = "store" /\ visits[t] = 0
    /\ Goes(t, "stopped")
    /\ containers' = Without(name[t])
    /\ UNCHANGED <<counter, locals, orphans, bounds>>

Probe(t) ==
    /\ pc[t] = "stopped"
    /\ IF Reached(t) = {}
         THEN Leave(t, "passed")
         ELSE \/ /\ tries[t] + 1 < Probes
                 /\ tries' = [tries EXCEPT ![t] = @ + 1]
                 /\ UNCHANGED <<pc, counter, chosen, read, rest>>
              \/ tries[t] + 1 = Probes /\ Leave(t, "failed")

-----------------------------------------------------------------------------
(* Processes *)

Of(p) == {t \in Tests : ProcessOf[t] = p}

\* A process is killed: nothing is dropped.
Kill(p) ==
    /\ Fault
    /\ \E t \in Of(p) : pc[t] \notin Ended
    /\ pc' = [t \in Tests |-> IF t \in Of(p) /\ pc[t] \notin Ended
                                THEN "failed" ELSE pc[t]]
    /\ orphans' = orphans \cup {name[t] : t \in {u \in Of(p) : Owns(u)}}
    /\ Forget(Of(p))
    /\ UNCHANGED <<counter, containers, runs>>

RunAgain(p) ==
    /\ runs < MaxRuns
    /\ \A t \in Of(p) : pc[t] \in Ended
    /\ runs' = runs + 1
    /\ counter' = [s \in AllSeries |-> IF s[2] = p THEN 0 ELSE counter[s]]
    /\ pc' = [t \in Tests |-> IF t \in Of(p) THEN "idle" ELSE pc[t]]
    /\ UNCHANGED <<locals, containers, orphans, faults>>

Step(t) ==
    \/ Choose(t) \/ DockerRun(t) \/ Connected(t) \/ NotConnected(t)
    \/ ConnectStore(t) \/ Listen(t)
    \/ Count(t) \/ Finish(t) \/ Panic(t) \/ StopDatabase(t) \/ Probe(t)

Next ==
    \/ \E t \in Tests : Step(t)
    \/ \E n \in DOMAIN containers : Accept(n)
    \/ \E p \in Processes : Kill(p) \/ RunAgain(p)

Spec == Init /\ [][Next]_vars
FairSpec == Spec /\ \A t \in Tests : WF_vars(Step(t))

-----------------------------------------------------------------------------
Names == AllSeries \X Nat
Containers == [port: Ports, accepts: {TRUE, FALSE}, count: Nat]

TypeOK ==
    /\ pc \in [Tests -> {"idle"} \cup Naming \cup Ended]
    /\ counter \in [AllSeries -> Nat]
    /\ name \in [Tests -> Names]
    /\ port \in [Tests -> Ports \cup {NoPort}]
    /\ tries \in [Tests -> Nat]
    /\ \A t \in Tests : tries[t] < Attempts \/ tries[t] < Probes
    /\ visits \in [Tests -> 0..2]
    /\ answer \in [Tests -> Nat]
    /\ listening \in [Tests -> Ports \cup {NoPort}]
    /\ DOMAIN containers \subseteq Names
    /\ \A n \in DOMAIN containers : containers[n] \in Containers
    /\ orphans \subseteq DOMAIN containers
    /\ runs \in 0..MaxRuns /\ faults \in 0..MaxFaults

\* The port of a test's container was free when it was chosen and may be
\* taken when docker binds it; yet a test that goes on talks to the container
\* it started, and no two of them share one.
TestsAreAlone ==
    \A t \in Tests : Owns(t) => At(port[t]) = {name[t]}

\* So the numbers a test reads are its own: 1, then 2
\* (counter_mode_postgres.rs:15-22, lib.rs:232-242).
CountsFromOne == \A t \in Tests : answer[t] = visits[t]

\* What still runs belongs to a test that still runs, or its process was
\* killed, or docker failed to remove it: panics, ? and timeouts clean up
\* (postgres_harness.rs:80-86, lib.rs:223-230).
NothingIsLeftBehind ==
    \A n \in DOMAIN containers \ orphans :
        \E t \in Tests : Owns(t) /\ name[t] = n

\* A name is refused by docker only if it was left behind: tests that run as
\* threads of one process never choose the same one, and in a process that
\* is run again only a container of the last time has it (lib.rs:162-166).
OnlyOrphansClash ==
    \A t \in Tests :
        HoldsName(t) /\ pc[t] = "chosen" /\ name[t] \in DOMAIN containers =>
            name[t] \in orphans

\* Why: a name is of its series and below its counter, a container is of the
\* one test that holds its name, and only that test counts in it.
NamesAreOwn ==
    /\ \A t \in Tests : pc[t] \in Naming \ {"serving"} => NeedsDatabase(t)
    /\ \A t \in Tests : HoldsName(t) =>
         /\ name[t][1] = Series(t) /\ name[t][2] < counter[Series(t)]
         /\ port[t] \in Ports
    /\ \A t, u \in Tests :
         HoldsName(t) /\ HoldsName(u) /\ name[t] = name[u] => t = u

ContainersAreOwn ==
    /\ \A m, n \in DOMAIN containers :
         containers[m].port = containers[n].port => m = n
    /\ \A t \in Tests : Owns(t) =>
         /\ name[t] \in DOMAIN containers \ orphans
         /\ containers[name[t]].port = port[t]
         /\ containers[name[t]].count = answer[t]
    /\ \A t \in Tests :
         NeedsDatabase(t) /\ pc[t] = "stopped" =>
            name[t] \notin DOMAIN containers
    /\ \A t \in Tests : pc[t] \notin Owning => answer[t] = 0

IInv ==
    /\ TypeOK
    /\ NamesAreOwn
    /\ ContainersAreOwn
    /\ NothingIsLeftBehind
    /\ CountsFromOne

\* Processes are run again finitely often.  Then every test is run and ends,
\* also when its database never accepts a connection, unless containers that
\* were left behind have all the ports.
EveryTestEnds ==
    <>[]\A t \in Tests :
           \/ pc[t] \in Ended
           \/ pc[t] = "idle" /\ \A p \in Ports : ~Free(p)
=============================================================================
