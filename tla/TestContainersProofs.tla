------------------------ MODULE TestContainersProofs ------------------------
(***************************************************************************)
(* The containers of TestContainers belong to the tests that started them, *)
(* for any number of tests, processes and ports.  A test that goes on      *)
(* after docker run holds a container with its name, names of tests that   *)
(* run differ, and so what is bound to a test's port is its own.           *)
(***************************************************************************)
EXTENDS TestContainers, TLAPS

USE ConstantsAssumption, NoPortAssumption
DEF chosen, read, locals, rest, bounds

LEMMA SeriesType == \A t \in Tests : Series(t) \in AllSeries
BY DEF Series, AllSeries

\* What Forget leaves of tests, and how it types the rest.
LEMMA Forgotten ==
    ASSUME TypeOK, NEW T, Forget(T)
    PROVE  /\ \A t \in Tests \ T :
                /\ name'[t] = name[t] /\ port'[t] = port[t]
                /\ answer'[t] = answer[t] /\ visits'[t] = visits[t]
           /\ \A t \in Tests \cap T : answer'[t] = 0 /\ visits'[t] = 0
           /\ name' \in [Tests -> Names]
           /\ port' \in [Tests -> Ports \cup {NoPort}]
           /\ tries' \in [Tests -> Nat]
           /\ \A t \in Tests : tries'[t] < Attempts \/ tries'[t] < Probes
           /\ visits' \in [Tests -> 0..2]
           /\ answer' \in [Tests -> Nat]
           /\ listening' \in [Tests -> Ports \cup {NoPort}]
<1>1. \A t \in Tests : <<Series(t), 0>> \in Names
  BY SeriesType DEF Names
<1>2. name' \in [Tests -> Names]
  BY <1>1 DEF Forget, TypeOK
<1>3. /\ tries' \in [Tests -> Nat]
      /\ \A t \in Tests : tries'[t] < Attempts \/ tries'[t] < Probes
  BY DEF Forget, TypeOK
<1> QED
  BY <1>2, <1>3 DEF Forget, TypeOK

LEMMA InitIInv == Init => IInv
<1> SUFFICES ASSUME Init PROVE IInv
  OBVIOUS
<1>1. name \in [Tests -> Names]
  BY SeriesType DEF Init, Names
<1>2. TypeOK
  BY <1>1 DEF Init, TypeOK
<1> QED
  BY <1>2
  DEF Init, IInv, NamesAreOwn, ContainersAreOwn, NothingIsLeftBehind,
      CountsFromOne, HoldsName, Owns, Naming, Owning

-----------------------------------------------------------------------------
(* What is bound to the port of a test is its own container. *)

LEMMA Alone ==
    ASSUME ContainersAreOwn, NEW t \in Tests, Owns(t)
    PROVE  At(port[t]) = {name[t]}
BY DEF ContainersAreOwn, At

\* Only an orphan can have the name that a test has chosen.
LEMMA Clash ==
    ASSUME NamesAreOwn, NothingIsLeftBehind, NEW t \in Tests, HoldsName(t),
           ~Owns(t), name[t] \in DOMAIN containers
    PROVE  name[t] \in orphans
BY DEF NamesAreOwn, NothingIsLeftBehind, HoldsName, Owns, Naming, Owning

\* Drop removes the container of t or leaves it behind, and no other.
LEMMA Dropped ==
    ASSUME IInv, NEW t \in Tests, name[t] \notin orphans, Drop(t)
    PROVE  /\ DOMAIN containers' \subseteq DOMAIN containers
           /\ DOMAIN containers \ {name[t]} \subseteq DOMAIN containers'
           /\ \A n \in DOMAIN containers' : containers'[n] = containers[n]
           /\ orphans \subseteq orphans'
           /\ orphans' \subseteq orphans \cup {name[t]}
           /\ name[t] \in DOMAIN containers' <=> name[t] \in orphans'
           /\ faults' \in 0..MaxFaults
<1>1. CASE containers' = Without(name[t]) /\ UNCHANGED <<orphans, faults>>
  BY <1>1 DEF Without, IInv, TypeOK
<1>2. CASE /\ Fault /\ name[t] \in DOMAIN containers
           /\ orphans' = orphans \cup {name[t]} /\ UNCHANGED containers
  BY <1>2 DEF Fault, IInv, TypeOK
<1> QED
  BY <1>1, <1>2 DEF Drop

\* A test leaves; all others keep what they have.
LEMMA LeavePreserves ==
    ASSUME IInv, NEW t \in Tests, pc[t] \in Owning \cup {"stopped"},
           NEW state \in Ended, Leave(t, state)
    PROVE  IInv'
<1>0. /\ Forget({t}) /\ counter' = counter /\ runs' = runs
      /\ NeedsDatabase(t) => name[t] \notin orphans /\ Drop(t)
  BY DEF Leave, IInv, TypeOK, ContainersAreOwn, Owns
<1>1. /\ pc' = [pc EXCEPT ![t] = state]
      /\ DOMAIN containers' \subseteq DOMAIN containers
      /\ \A n \in DOMAIN containers' : containers'[n] = containers[n]
      /\ orphans' \subseteq orphans \cup {name[t]} /\ orphans \subseteq orphans'
      /\ ~NeedsDatabase(t) => UNCHANGED <<containers, orphans>>
      /\ faults' \in 0..MaxFaults
  BY <1>0, Dropped DEF Leave, Goes, IInv, TypeOK
<1>2. ~Owns(t)' /\ ~HoldsName(t)'
  BY <1>1 DEF Owns, HoldsName, Owning, Naming, Ended, IInv, TypeOK
<1>3. \A u \in Tests : u # t =>
        /\ Owns(u)' = Owns(u) /\ HoldsName(u)' = HoldsName(u)
        /\ pc'[u] = pc[u] /\ name'[u] = name[u] /\ port'[u] = port[u]
        /\ answer'[u] = answer[u]
  BY <1>0, <1>1, Forgotten DEF Owns, HoldsName, IInv, TypeOK
<1>4. TypeOK'
  <2>1. orphans' \subseteq DOMAIN containers'
    BY <1>0, <1>1, Dropped DEF IInv, TypeOK
  <2>2. pc' \in [Tests -> {"idle"} \cup Naming \cup Ended]
    BY <1>1 DEF IInv, TypeOK
  <2> QED
    BY <1>0, <1>1, <2>1, <2>2, Forgotten DEF IInv, TypeOK
<1>5. NamesAreOwn'
  <2>1. pc'[t] \notin Naming
    BY <1>1 DEF IInv, TypeOK, Naming, Owning, Ended
  <2> QED
    BY <1>0, <1>2, <1>3, <2>1 DEF IInv, NamesAreOwn
<1>6. ASSUME NEW u \in Tests, Owns(u), u # t
      PROVE  name[u] \in DOMAIN containers' \ orphans'
  <2>1. name[u] \in DOMAIN containers \ orphans
    BY <1>6 DEF IInv, ContainersAreOwn
  <2>2. NeedsDatabase(t) => name[u] # name[t]
    BY <1>6 DEF IInv, NamesAreOwn, HoldsName, Owns, Naming
  <2> QED
    BY <1>0, <1>1, <2>1, <2>2, Dropped
<1>7. ContainersAreOwn'
  <2>1. pc'[t] # "stopped" /\ answer'[t] = 0
    BY <1>0, <1>1, Forgotten DEF IInv, TypeOK, Ended
  <2> QED
    BY <1>1, <1>2, <1>3, <1>6, <2>1 DEF IInv, ContainersAreOwn
<1>8. NothingIsLeftBehind'
  <2> SUFFICES ASSUME NEW n \in DOMAIN containers' \ orphans'
               PROVE  \E u \in Tests : Owns(u)' /\ name'[u] = n
    BY DEF NothingIsLeftBehind
  <2>1. PICK u \in Tests : Owns(u) /\ name[u] = n
    BY <1>1 DEF IInv, NothingIsLeftBehind
  <2>2. u # t
    BY <1>0, <2>1, Dropped DEF Owns
  <2> QED
    BY <1>3, <2>1, <2>2
<1>9. CountsFromOne'
  BY <1>0, Forgotten DEF IInv, CountsFromOne
<1> QED
  BY <1>4, <1>5, <1>7, <1>8, <1>9 DEF IInv

-----------------------------------------------------------------------------
(* The steps of a test. *)

LEMMA ChoosePreserves ==
    ASSUME IInv, NEW t \in Tests, Choose(t)
    PROVE  IInv'
<1> DEFINE p == Series(t)
<1>1. /\ pc' = [pc EXCEPT ![t] = "chosen"]
      /\ name' = [name EXCEPT ![t] = <<p, counter[p]>>]
      /\ counter' = [counter EXCEPT ![p] = counter[p] + 1]
      /\ p \in AllSeries
  BY SeriesType DEF Choose, Goes
<1>2. ~Owns(t)' /\ ~Owns(t) /\ pc'[t] = "chosen"
  BY <1>1 DEF Owns, Owning, Choose, IInv, TypeOK
<1>3. \A u \in Tests : u # t => /\ Owns(u)' = Owns(u)
                                /\ HoldsName(u)' = HoldsName(u)
                                /\ pc'[u] = pc[u] /\ name'[u] = name[u]
  BY <1>1 DEF Owns, HoldsName, IInv, TypeOK
<1>4. TypeOK'
  <2>1. name' \in [Tests -> Names]
    BY <1>1 DEF IInv, TypeOK, Names
  <2>2. port' \in [Tests -> Ports \cup {NoPort}]
    BY DEF Choose, IInv, TypeOK
  <2>3. pc' \in [Tests -> {"idle"} \cup Naming \cup Ended]
    BY <1>1 DEF IInv, TypeOK, Naming
  <2>4. counter' \in [AllSeries -> Nat]
    BY <1>1 DEF IInv, TypeOK
  <2> QED
    BY <2>1, <2>2, <2>3, <2>4 DEF Choose, IInv, TypeOK
<1>5. NamesAreOwn'
  <2>1. name'[t] = <<p, counter[p]>> /\ counter[p] \in Nat
    BY <1>1 DEF IInv, TypeOK
  <2>2. ASSUME NEW u \in Tests, u # t, HoldsName(u)
        PROVE  /\ name[u][1] = Series(u)
               /\ name[u][2] < counter'[Series(u)]
               /\ name[u] # name'[t]
    <3>1. name[u][1] = Series(u) /\ name[u][2] < counter[Series(u)]
      BY <2>2 DEF IInv, NamesAreOwn
    <3>2. Series(u) \in AllSeries /\ name[u][2] \in Nat
      BY SeriesType DEF IInv, TypeOK, Names
    <3> QED
      BY <1>1, <2>1, <3>1, <3>2 DEF IInv, TypeOK
  <2>3. name'[t][1] = p /\ name'[t][2] < counter'[p]
    BY <1>1, <2>1 DEF IInv, TypeOK
  <2> QED
    <3>1. port'[t] \in Ports /\ \A u \in Tests : u # t => port'[u] = port[u]
      BY DEF Choose, IInv, TypeOK
    <3>2. NeedsDatabase(t)
      BY DEF Choose
    <3> QED
      BY <1>2, <1>3, <2>2, <2>3, <3>1, <3>2 DEF IInv, NamesAreOwn
<1>6. ContainersAreOwn'
  <2>1. answer[t] = 0
    BY DEF Choose, IInv, ContainersAreOwn, Owning
  <2>2. \A u \in Tests : u # t => port'[u] = port[u]
    BY DEF Choose, IInv, TypeOK
  <2> QED
    BY <1>2, <1>3, <2>1, <2>2 DEF Choose, IInv, ContainersAreOwn
<1>7. NothingIsLeftBehind' /\ CountsFromOne'
  BY <1>2, <1>3 DEF Choose, IInv, NothingIsLeftBehind, CountsFromOne
<1> QED
  BY <1>4, <1>5, <1>6, <1>7 DEF IInv

LEMMA DockerRunPreserves ==
    ASSUME IInv, NEW t \in Tests, DockerRun(t)
    PROVE  IInv'
<1>1. HoldsName(t) /\ ~Owns(t) /\ pc[t] = "chosen"
  BY DEF DockerRun, IInv, NamesAreOwn, HoldsName, Owns, Naming, Owning
<1>2. \A u \in Tests, state \in {"waiting", "failed"} :
        u # t /\ Goes(t, state) => /\ Owns(u)' = Owns(u)
                                   /\ HoldsName(u)' = HoldsName(u)
                                   /\ pc'[u] = pc[u]
  BY DEF Goes, Owns, HoldsName, IInv, TypeOK
<1>3. CASE Goes(t, "failed") /\ UNCHANGED containers /\ Forget({t})
  <2>0. /\ \A u \in Tests : u # t => /\ name'[u] = name[u]
                                     /\ port'[u] = port[u]
                                     /\ answer'[u] = answer[u]
        /\ answer'[t] = 0
    BY <1>3, Forgotten DEF IInv
  <2>1. pc'[t] = "failed" /\ pc' \in [Tests -> {"idle"} \cup Naming \cup Ended]
    BY <1>3 DEF Goes, IInv, TypeOK, Ended
  <2>2. ~Owns(t)' /\ ~HoldsName(t)'
    BY <2>1 DEF Owns, HoldsName, Owning, Naming
  <2>3. TypeOK'
    BY <1>3, <2>1, Forgotten DEF DockerRun, IInv, TypeOK
  <2>4. NamesAreOwn'
    BY <1>2, <1>3, <2>0, <2>1, <2>2
    DEF DockerRun, IInv, NamesAreOwn, Naming, Owning
  <2>5. ContainersAreOwn'
    BY <1>2, <1>3, <2>0, <2>1, <2>2 DEF DockerRun, IInv, ContainersAreOwn
  <2>6. NothingIsLeftBehind' /\ CountsFromOne'
    BY <1>1, <1>2, <1>3, <2>0, Forgotten
    DEF DockerRun, IInv, NothingIsLeftBehind, CountsFromOne
  <2> QED
    BY <2>3, <2>4, <2>5, <2>6 DEF IInv
<1>4. CASE /\ Goes(t, "waiting") /\ UNCHANGED locals
           /\ name[t] \notin DOMAIN containers /\ Free(port[t])
  <2> DEFINE new == [port |-> port[t], accepts |-> FALSE, count |-> 0]
  <2>0. containers' = [n \in DOMAIN containers \cup {name[t]} |->
                         IF n = name[t] THEN new ELSE containers[n]]
    <3>1. ~Goes(t, "failed")
      BY <1>4 DEF Goes, IInv, TypeOK
    <3> QED
      BY <3>1 DEF DockerRun
  <2>1. pc'[t] = "waiting" /\ pc' \in [Tests -> {"idle"} \cup Naming \cup Ended]
    BY <1>4 DEF Goes, IInv, TypeOK, Naming, Owning
  <2>2. Owns(t)' /\ HoldsName(t)'
    BY <1>1, <2>1 DEF Owns, HoldsName, Owning, Naming
  <2>3. /\ DOMAIN containers' = DOMAIN containers \cup {name[t]}
        /\ \A n \in DOMAIN containers : containers'[n] = containers[n]
        /\ containers'[name[t]].port = port[t]
        /\ containers'[name[t]].count = 0
    BY <1>4, <2>0
  <2>4. TypeOK'
    <3>1. new \in Containers
      BY <1>1 DEF Containers, IInv, NamesAreOwn
    <3> QED
      BY <1>4, <2>0, <2>1, <2>3, <3>1 DEF DockerRun, IInv, TypeOK
  <2>5. NamesAreOwn'
    <3>1. \A u \in Tests : HoldsName(u)' <=> HoldsName(u)
      BY <1>1, <1>2, <1>4, <2>2
    <3>2. NeedsDatabase(t)
      BY <1>1 DEF HoldsName
    <3> QED
      BY <1>2, <1>4, <3>1, <3>2 DEF DockerRun, IInv, NamesAreOwn
  <2>6. ContainersAreOwn'
    <3>1. \A n \in DOMAIN containers : containers[n].port # port[t]
      BY <1>4 DEF Free, At
    <3>2. name[t] \notin orphans /\ answer[t] = 0
      BY <1>1, <1>4 DEF IInv, TypeOK, ContainersAreOwn, Owning
    <3>3. \A u \in Tests : HoldsName(u) /\ u # t => name[u] # name[t]
      BY <1>1 DEF IInv, NamesAreOwn
    <3>4. \A m, n \in DOMAIN containers' :
            containers'[m].port = containers'[n].port => m = n
      BY <2>3, <3>1 DEF IInv, ContainersAreOwn
    <3>5. \A u \in Tests : Owns(u)' =>
            /\ name[u] \in DOMAIN containers' \ orphans
            /\ containers'[name[u]].port = port[u]
            /\ containers'[name[u]].count = answer[u]
      BY <1>2, <1>4, <2>3, <3>2 DEF IInv, ContainersAreOwn
    <3>6. \A u \in Tests : NeedsDatabase(u) /\ pc'[u] = "stopped" =>
            name[u] \notin DOMAIN containers'
      BY <1>2, <1>4, <2>1, <2>3, <3>3
      DEF IInv, ContainersAreOwn, HoldsName, Naming
    <3> QED
      BY <1>2, <1>4, <2>1, <3>4, <3>5, <3>6
      DEF DockerRun, IInv, ContainersAreOwn, Owning
  <2>7. NothingIsLeftBehind' /\ CountsFromOne'
    BY <1>1, <1>2, <1>4, <2>2, <2>3
    DEF DockerRun, IInv, NothingIsLeftBehind, CountsFromOne
  <2> QED
    BY <2>4, <2>5, <2>6, <2>7 DEF IInv
<1> QED
  BY <1>3, <1>4 DEF DockerRun

\* Steps from one place to another of a test that keeps what it has.
LEMMA KeepingPreserves ==
    ASSUME IInv, NEW t \in Tests, pc[t] \in Owning, NEW state \in Owning,
           Goes(t, state) \/ UNCHANGED pc,
           NeedsDatabase(t) \/ state = "serving" \/ UNCHANGED pc,
           UNCHANGED <<counter, chosen, read, containers, orphans, bounds>>,
           tries' \in [Tests -> Nat],
           \A u \in Tests : tries'[u] < Attempts \/ tries'[u] < Probes,
           listening' \in [Tests -> Ports \cup {NoPort}]
    PROVE  IInv'
<1>1. \A u \in Tests : /\ Owns(u)' = Owns(u)
                       /\ HoldsName(u)' = HoldsName(u)
                       /\ u # t => pc'[u] = pc[u]
  BY DEF Goes, Owns, HoldsName, Naming, IInv, TypeOK
<1>2. pc'[t] \in Owning
  BY DEF Goes, IInv, TypeOK
<1>3. TypeOK'
  <2>1. pc' \in [Tests -> {"idle"} \cup Naming \cup Ended]
    BY DEF Goes, IInv, TypeOK, Naming
  <2> QED
    BY <2>1 DEF IInv, TypeOK
<1>4. NamesAreOwn'
  BY <1>1, <1>2 DEF Goes, IInv, TypeOK, NamesAreOwn
<1>5. ContainersAreOwn'
  BY <1>1, <1>2 DEF IInv, ContainersAreOwn, Owning
<1>6. NothingIsLeftBehind' /\ CountsFromOne'
  BY <1>1 DEF IInv, NothingIsLeftBehind, CountsFromOne
<1> QED
  BY <1>3, <1>4, <1>5, <1>6 DEF IInv

\* The app of a test that counts in memory.
LEMMA ListenInMemoryPreserves ==
    ASSUME IInv, NEW t \in Tests, ~NeedsDatabase(t), pc[t] = "idle", Listen(t)
    PROVE  IInv'
<1>1. \A u \in Tests : /\ Owns(u)' <=> Owns(u)
                       /\ HoldsName(u)' <=> HoldsName(u)
                       /\ u # t => pc'[u] = pc[u]
  BY DEF Listen, Goes, Owns, HoldsName, IInv, TypeOK
<1>2. pc'[t] = "serving" /\ pc' \in [Tests -> {"idle"} \cup Naming \cup Ended]
  BY DEF Listen, Goes, IInv, TypeOK, Naming, Owning
<1>3. TypeOK'
  BY <1>2 DEF Listen, IInv, TypeOK
<1>4. NamesAreOwn' /\ ContainersAreOwn'
  BY <1>1, <1>2 DEF Listen, IInv, NamesAreOwn, ContainersAreOwn, Owning
<1>5. NothingIsLeftBehind' /\ CountsFromOne'
  BY <1>1 DEF Listen, IInv, NothingIsLeftBehind, CountsFromOne
<1> QED
  BY <1>3, <1>4, <1>5 DEF IInv

\* A test counts in its own container, and nobody else does.
LEMMA CountPreserves ==
    ASSUME IInv, NEW t \in Tests, Count(t)
    PROVE  IInv'
<1>1. /\ pc' = pc /\ orphans' = orphans /\ name' = name /\ port' = port
      /\ \A u \in Tests : /\ Owns(u)' <=> Owns(u)
                          /\ HoldsName(u)' <=> HoldsName(u)
  BY DEF Count, Owns, HoldsName
<1>2. /\ visits' = [visits EXCEPT ![t] = visits[t] + 1]
      /\ visits[t] \in 0..1 /\ answer[t] = visits[t]
      /\ visits' \in [Tests -> 0..2]
  BY DEF Count, IInv, TypeOK, CountsFromOne
<1>3. pc[t] \in Owning
  BY DEF Count, Counting, Owning
<1>4. CASE NeedsDatabase(t)
  <2>1. Owns(t)
    BY <1>3, <1>4 DEF Owns
  <2> DEFINE n == name[t]
  <2>2. n \in DOMAIN containers /\ containers[n].count = answer[t]
    BY <2>1 DEF IInv, ContainersAreOwn
  <2>3. Reached(t) \subseteq {n}
    BY <2>1, Alone DEF IInv, Reached
  <2>4. /\ answer' = [answer EXCEPT ![t] = answer[t] + 1]
        /\ containers' = [containers EXCEPT ![n].count = answer[t] + 1]
    BY <1>4, <2>2, <2>3 DEF Count
  <2>5. /\ DOMAIN containers' = DOMAIN containers
        /\ \A m \in DOMAIN containers : containers'[m].port = containers[m].port
        /\ \A m \in DOMAIN containers : m # n => containers'[m] = containers[m]
        /\ containers'[n] \in Containers
        /\ containers'[n].count = answer[t] + 1
    <3>1. containers[n] \in Containers /\ answer[t] + 1 \in Nat
      BY <2>2 DEF IInv, TypeOK
    <3>2. containers'[n] = [containers[n] EXCEPT !.count = answer[t] + 1]
      BY <2>2, <2>4
    <3>3. /\ containers'[n] \in Containers
          /\ containers'[n].port = containers[n].port
          /\ containers'[n].count = answer[t] + 1
      BY <3>1, <3>2 DEF Containers
    <3> QED
      BY <2>2, <2>4, <3>3
  <2>6. answer' \in [Tests -> Nat]
    BY <2>4 DEF IInv, TypeOK
  <2>7. TypeOK'
    BY <1>1, <1>2, <2>5, <2>6 DEF Count, IInv, TypeOK
  <2>8. ContainersAreOwn'
    <3>1. \A u \in Tests : Owns(u) /\ u # t => name[u] # n
      BY <2>1 DEF IInv, NamesAreOwn, HoldsName, Owns, Naming
    <3>2. answer'[t] = answer[t] + 1 /\ \A u \in Tests : u # t => answer'[u] = answer[u]
      BY <2>4 DEF IInv, TypeOK
    <3> QED
      BY <1>1, <1>3, <2>5, <3>1, <3>2 DEF IInv, ContainersAreOwn
  <2>9. CountsFromOne'
    BY <1>2, <2>4 DEF IInv, TypeOK, CountsFromOne
  <2> QED
    BY <1>1, <2>5, <2>7, <2>8, <2>9
    DEF Count, IInv, NamesAreOwn, NothingIsLeftBehind
<1>5. CASE ~NeedsDatabase(t)
  <2>1. /\ answer' = [answer EXCEPT ![t] = answer[t] + 1]
        /\ containers' = containers
        /\ answer' \in [Tests -> Nat]
    BY <1>5 DEF Count, IInv, TypeOK
  <2>2. ~Owns(t)
    BY <1>5 DEF Owns
  <2>3. TypeOK'
    BY <1>1, <1>2, <2>1 DEF Count, IInv, TypeOK
  <2>4. ContainersAreOwn'
    BY <1>1, <1>3, <2>1, <2>2 DEF IInv, TypeOK, ContainersAreOwn
  <2>5. CountsFromOne'
    BY <1>2, <2>1 DEF IInv, TypeOK, CountsFromOne
  <2> QED
    BY <1>1, <2>1, <2>3, <2>4, <2>5
    DEF Count, IInv, NamesAreOwn, NothingIsLeftBehind
<1> QED
  BY <1>4, <1>5

LEMMA StopDatabasePreserves ==
    ASSUME IInv, NEW t \in Tests, StopDatabase(t)
    PROVE  IInv'
<1>1. /\ pc' = [pc EXCEPT ![t] = "stopped"]
      /\ containers' = Without(name[t])
  BY DEF StopDatabase, Goes
<1>2. Owns(t) /\ HoldsName(t) /\ NeedsDatabase(t) /\ pc[t] = "ready"
  BY DEF StopDatabase, Owns, HoldsName, Naming, Owning, IInv, NamesAreOwn
<1>3. pc'[t] = "stopped" /\ pc' \in [Tests -> {"idle"} \cup Naming \cup Ended]
  BY <1>1 DEF IInv, TypeOK, Naming
<1>4. ~Owns(t)' /\ HoldsName(t)'
  BY <1>2, <1>3 DEF Owns, HoldsName, Naming, Owning
<1>5. \A u \in Tests : u # t => /\ Owns(u)' <=> Owns(u)
                                /\ HoldsName(u)' <=> HoldsName(u)
                                /\ pc'[u] = pc[u]
  BY <1>1 DEF Owns, HoldsName, IInv, TypeOK
<1>6. /\ DOMAIN containers' = DOMAIN containers \ {name[t]}
      /\ \A n \in DOMAIN containers' : containers'[n] = containers[n]
      /\ name[t] \notin orphans
  BY <1>1, <1>2 DEF Without, IInv, ContainersAreOwn
<1>7. TypeOK'
  <2>1. tries' \in [Tests -> Nat] /\ \A u \in Tests : tries'[u] \in {0, tries[u]}
    BY DEF StopDatabase, IInv, TypeOK
  <2> QED
    BY <1>3, <1>6, <2>1 DEF StopDatabase, IInv, TypeOK
<1>8. NamesAreOwn'
  BY <1>2, <1>4, <1>5 DEF StopDatabase, IInv, NamesAreOwn
<1>9. ContainersAreOwn'
  <2>1. \A u \in Tests : Owns(u) /\ u # t => name[u] # name[t]
    BY <1>2 DEF IInv, NamesAreOwn, HoldsName, Owns, Naming
  <2>2. answer[t] = 0
    BY DEF StopDatabase, IInv, CountsFromOne
  <2> QED
    BY <1>3, <1>4, <1>5, <1>6, <2>1, <2>2
    DEF StopDatabase, IInv, ContainersAreOwn
<1>10. NothingIsLeftBehind' /\ CountsFromOne'
  BY <1>4, <1>5, <1>6
  DEF StopDatabase, IInv, NothingIsLeftBehind, CountsFromOne
<1> QED
  BY <1>7, <1>8, <1>9, <1>10 DEF IInv

LEMMA ProbeAgainPreserves ==
    ASSUME IInv, NEW t \in Tests, tries[t] + 1 < Probes,
           tries' = [tries EXCEPT ![t] = tries[t] + 1],
           UNCHANGED <<pc, counter, chosen, read, rest>>
    PROVE  IInv'
<1>1. TypeOK'
  <2>1. /\ tries' \in [Tests -> Nat] /\ tries'[t] < Probes
        /\ \A u \in Tests : u # t => tries'[u] = tries[u]
    BY DEF IInv, TypeOK
  <2> QED
    BY <2>1 DEF IInv, TypeOK
<1> QED
  BY <1>1 DEF IInv, NamesAreOwn, ContainersAreOwn, NothingIsLeftBehind,
              CountsFromOne, HoldsName, Owns

-----------------------------------------------------------------------------
(* Docker and processes. *)

LEMMA AcceptPreserves ==
    ASSUME IInv, NEW n \in DOMAIN containers, Accept(n)
    PROVE  IInv'
<1>1. /\ DOMAIN containers' = DOMAIN containers
      /\ \A m \in DOMAIN containers : /\ containers'[m].port = containers[m].port
                                      /\ containers'[m].count = containers[m].count
                                      /\ containers'[m] \in Containers
  <2>1. \A m \in DOMAIN containers : containers[m] \in Containers
    BY DEF IInv, TypeOK
  <2>2. containers'[n] = [containers[n] EXCEPT !.accepts = TRUE]
    BY DEF Accept
  <2>3. /\ containers'[n].port = containers[n].port
        /\ containers'[n].count = containers[n].count
        /\ containers'[n] \in Containers
    BY <2>1, <2>2 DEF Containers
  <2> QED
    BY <2>1, <2>3 DEF Accept
<1>2. TypeOK'
  BY <1>1 DEF Accept, IInv, TypeOK
<1>3. ContainersAreOwn'
  BY <1>1 DEF Accept, IInv, ContainersAreOwn, Owns
<1> QED
  BY <1>1, <1>2, <1>3
  DEF Accept, IInv, NamesAreOwn, NothingIsLeftBehind, CountsFromOne,
      HoldsName, Owns

LEMMA KillPreserves ==
    ASSUME IInv, NEW p \in Processes, Kill(p)
    PROVE  IInv'
<1>1. \A u \in Tests : pc'[u] = IF u \in Of(p) /\ pc[u] \notin Ended
                                  THEN "failed" ELSE pc[u]
  BY DEF Kill
<1>2. \A u \in Tests : /\ Owns(u)' <=> Owns(u) /\ u \notin Of(p)
                       /\ HoldsName(u)' <=> HoldsName(u) /\ u \notin Of(p)
  <2>1. \A u \in Tests : pc[u] \in Ended => pc[u] \notin Naming
    BY DEF Ended, Naming, Owning
  <2> QED
    BY <1>1, <2>1 DEF Owns, HoldsName, Naming, Owning
<1>3. /\ \A u \in Tests : u \notin Of(p) =>
             /\ name'[u] = name[u] /\ port'[u] = port[u]
             /\ answer'[u] = answer[u] /\ visits'[u] = visits[u]
      /\ \A u \in Tests : u \in Of(p) => answer'[u] = 0 /\ visits'[u] = 0
  BY Forgotten DEF Kill, IInv
<1>4. TypeOK'
  <2>1. pc' \in [Tests -> {"idle"} \cup Naming \cup Ended]
    BY DEF Kill, IInv, TypeOK, Ended
  <2>2. orphans' \subseteq DOMAIN containers
    <3>1. \A u \in Tests : Owns(u) => name[u] \in DOMAIN containers
      BY DEF IInv, ContainersAreOwn
    <3>2. orphans \subseteq DOMAIN containers
      BY DEF IInv, TypeOK
    <3>3. Of(p) \subseteq Tests
      BY DEF Of
    <3>4. \A n \in orphans' : n \in orphans \/ \E u \in Of(p) :
                                              Owns(u) /\ name[u] = n
      BY DEF Kill
    <3> QED
      BY <3>1, <3>2, <3>3, <3>4
  <2> QED
    BY <2>1, <2>2, Forgotten DEF Kill, Fault, IInv, TypeOK
<1>5. NamesAreOwn'
  <2>1. \A u \in Tests : u \in Of(p) => pc'[u] \in Ended
    BY <1>1 DEF Ended
  <2>2. \A u \in Tests : pc'[u] \in Ended => pc'[u] \notin Naming
    BY DEF Ended, Naming, Owning
  <2> QED
    BY <1>1, <1>2, <1>3, <2>1, <2>2 DEF Kill, IInv, NamesAreOwn
<1>6. ContainersAreOwn'
  <2>1. \A u \in Tests : Owns(u) /\ u \notin Of(p) => name[u] \notin orphans'
    <3>1. \A u \in Tests : Owns(u) => HoldsName(u) /\ name[u] \notin orphans
      BY DEF IInv, ContainersAreOwn, Owns, HoldsName, Naming
    <3>2. \A t, u \in Tests : Owns(t) /\ Owns(u) /\ name[t] = name[u] => t = u
      BY <3>1 DEF IInv, NamesAreOwn
    <3>3. \A n \in orphans' : n \in orphans \/ \E u \in Of(p) :
                                              Owns(u) /\ name[u] = n
      BY DEF Kill
    <3>4. Of(p) \subseteq Tests
      BY DEF Of
    <3> QED
      BY <3>1, <3>2, <3>3, <3>4
  <2>2. \A u \in Tests : u \in Of(p) => pc'[u] # "stopped"
    BY <1>1 DEF Ended
  <2> QED
    BY <1>1, <1>2, <1>3, <2>1, <2>2 DEF Kill, IInv, ContainersAreOwn
<1>7. NothingIsLeftBehind' /\ CountsFromOne'
  BY <1>2, <1>3 DEF Kill, IInv, NothingIsLeftBehind, CountsFromOne
<1> QED
  BY <1>4, <1>5, <1>6, <1>7 DEF IInv

LEMMA RunAgainPreserves ==
    ASSUME IInv, NEW p \in Processes, RunAgain(p)
    PROVE  IInv'
<1>1. \A u \in Tests : u \in Of(p) => pc[u] \notin Naming \cup Owning
  BY DEF RunAgain, Naming, Owning, Ended
<1>2. \A u \in Tests : pc'[u] = IF u \in Of(p) THEN "idle" ELSE pc[u]
  BY DEF RunAgain
<1>3. \A u \in Tests : /\ Owns(u)' <=> Owns(u)
                       /\ HoldsName(u)' <=> HoldsName(u)
  BY <1>1, <1>2 DEF HoldsName, Owns, Naming, Owning, RunAgain
<1>4. TypeOK'
  <2>1. pc' \in [Tests -> {"idle"} \cup Naming \cup Ended]
    BY DEF RunAgain, IInv, TypeOK
  <2>2. counter' \in [AllSeries -> Nat] /\ runs' \in 0..MaxRuns
    BY DEF RunAgain, IInv, TypeOK
  <2> QED
    BY <2>1, <2>2 DEF RunAgain, IInv, TypeOK
<1>5. NamesAreOwn'
  <2>1. \A u \in Tests : HoldsName(u) => u \notin Of(p)
    BY <1>1 DEF HoldsName
  <2>2. \A u \in Tests : u \notin Of(p) => counter'[Series(u)] = counter[Series(u)]
    BY SeriesType DEF RunAgain, Of, Series, IInv, TypeOK
  <2>3. \A u \in Tests : pc'[u] \in Naming => u \notin Of(p)
    BY <1>2 DEF Naming, Owning
  <2> QED
    BY <1>2, <1>3, <2>1, <2>2, <2>3 DEF RunAgain, IInv, NamesAreOwn
<1>6. ContainersAreOwn'
  BY <1>1, <1>2, <1>3 DEF RunAgain, IInv, ContainersAreOwn
<1>7. NothingIsLeftBehind' /\ CountsFromOne'
  BY <1>3 DEF RunAgain, IInv, NothingIsLeftBehind, CountsFromOne
<1> QED
  BY <1>4, <1>5, <1>6, <1>7 DEF IInv

-----------------------------------------------------------------------------
LEMMA StepPreserves ==
    ASSUME IInv, NEW t \in Tests, Step(t)
    PROVE  IInv'
<1>1. CASE Choose(t)
  BY <1>1, ChoosePreserves
<1>2. CASE DockerRun(t)
  BY <1>2, DockerRunPreserves
<1>3. CASE Connected(t) \/ ConnectStore(t)
  <2>1. PICK state \in Owning : Goes(t, state)
    BY <1>3 DEF Connected, ConnectStore, Owning
  <2>2. pc[t] \in Owning /\ pc[t] \in Naming \ {"serving"}
    BY <1>3 DEF Connected, ConnectStore, Owning, Naming
  <2>3. NeedsDatabase(t)
    BY <2>2 DEF IInv, NamesAreOwn
  <2> QED
    BY <1>3, <2>1, <2>2, <2>3, KeepingPreserves
    DEF Connected, ConnectStore, IInv, TypeOK
<1>4. CASE NotConnected(t)
  <2>1. pc[t] \in Owning /\ "waiting" \in Owning /\ "failed" \in Ended
    BY <1>4 DEF NotConnected, Owning, Ended
  <2>2. CASE Leave(t, "failed")
    BY <2>1, <2>2, LeavePreserves
  <2>3. CASE ~Leave(t, "failed")
    <3>1. /\ tries[t] + 1 < Attempts
          /\ tries' = [tries EXCEPT ![t] = tries[t] + 1]
          /\ UNCHANGED <<pc, counter, chosen, read, rest>>
      BY <1>4, <2>3 DEF NotConnected
    <3>2. /\ tries' \in [Tests -> Nat]
          /\ \A u \in Tests : tries'[u] < Attempts \/ tries'[u] < Probes
      BY <3>1 DEF IInv, TypeOK
    <3> QED
      BY <2>1, <3>1, <3>2, KeepingPreserves DEF IInv, TypeOK
  <2> QED
    BY <2>2, <2>3
<1>5. CASE Listen(t)
  <2>1. CASE pc[t] = "idle"
    BY <1>5, <2>1, ListenInMemoryPreserves DEF Listen
  <2>2. CASE pc[t] = "connected"
    <3>1. pc[t] \in Owning /\ "serving" \in Owning
      BY <2>2 DEF Owning
    <3>2. listening' \in [Tests -> Ports \cup {NoPort}]
      BY <1>5 DEF Listen, IInv, TypeOK
    <3>3. Goes(t, "serving") /\ UNCHANGED <<counter, chosen, tries, read,
                                            containers, orphans, bounds>>
      BY <1>5 DEF Listen
    <3> QED
      BY <3>1, <3>2, <3>3, KeepingPreserves DEF IInv, TypeOK
  <2> QED
    BY <1>5, <2>1, <2>2 DEF Listen
<1>6. CASE Count(t)
  BY <1>6, CountPreserves
<1>7. CASE Finish(t) \/ Panic(t)
  <2>1. pc[t] \in Owning
    BY <1>7 DEF Finish, Panic, Counting, Owning
  <2>2. PICK state \in Ended : Leave(t, state)
    BY <1>7 DEF Finish, Panic, Ended
  <2> QED
    BY <2>1, <2>2, LeavePreserves
<1>8. CASE StopDatabase(t)
  BY <1>8, StopDatabasePreserves
<1>9. CASE Probe(t)
  <2>1. CASE \E state \in Ended : Leave(t, state)
    BY <1>9, <2>1, LeavePreserves DEF Probe
  <2>2. CASE ~\E state \in Ended : Leave(t, state)
    <3>1. /\ tries[t] + 1 < Probes
          /\ tries' = [tries EXCEPT ![t] = tries[t] + 1]
          /\ UNCHANGED <<pc, counter, chosen, read, rest>>
      BY <1>9, <2>2 DEF Probe, Ended
    <3> QED
      BY <3>1, ProbeAgainPreserves
  <2> QED
    BY <2>1, <2>2
<1> QED
  BY <1>1, <1>2, <1>3, <1>4, <1>5, <1>6, <1>7, <1>8, <1>9 DEF Step

LEMMA IInvPreserved == IInv /\ [Next]_vars => IInv'
<1> SUFFICES ASSUME IInv, [Next]_vars PROVE IInv'
  OBVIOUS
<1>1. CASE UNCHANGED vars
  BY <1>1
  DEF vars, IInv, TypeOK, NamesAreOwn, ContainersAreOwn,
      NothingIsLeftBehind, CountsFromOne, HoldsName, Owns
<1> QED
  BY <1>1, StepPreserves, AcceptPreserves, KillPreserves, RunAgainPreserves
  DEF Next

\* The inductive invariant, for any tests, processes, ports and attempts.
THEOREM InvariantHolds == Spec => []IInv
BY InitIInv, IInvPreserved, PTL DEF Spec

\* Types, and loops that stay within their attempts.
THEOREM TypeCorrect == Spec => []TypeOK
<1>1. IInv => TypeOK
  BY DEF IInv
<1> QED
  BY <1>1, InvariantHolds, PTL

\* A test that goes on after docker run has the container at its port to
\* itself.
THEOREM TestsAreAloneHolds == Spec => []TestsAreAlone
<1>1. IInv => TestsAreAlone
  BY Alone DEF IInv, TestsAreAlone
<1> QED
  BY <1>1, InvariantHolds, PTL

\* Tests read 1, then 2, whatever runs beside them.
THEOREM CountsFromOneHolds == Spec => []CountsFromOne
<1>1. IInv => CountsFromOne
  BY DEF IInv
<1> QED
  BY <1>1, InvariantHolds, PTL

\* What runs belongs to a test that runs, or was left behind by a kill or by
\* a docker rm that failed.
THEOREM NothingIsLeftBehindHolds == Spec => []NothingIsLeftBehind
<1>1. IInv => NothingIsLeftBehind
  BY DEF IInv
<1> QED
  BY <1>1, InvariantHolds, PTL

\* Only what was left behind can refuse a name.
THEOREM OnlyOrphansClashHolds == Spec => []OnlyOrphansClash
<1>1. IInv => OnlyOrphansClash
  BY Clash DEF IInv, OnlyOrphansClash, Owns, Owning
<1> QED
  BY <1>1, InvariantHolds, PTL
=============================================================================
