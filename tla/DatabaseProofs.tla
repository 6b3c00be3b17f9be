--------------------------- MODULE DatabaseProofs ---------------------------
(***************************************************************************)
(* Proofs about the two databases of the repository, the Patroni cluster   *)
(* of HaFailover and the pair of StandbyPair.                              *)
(*                                                                         *)
(* HaFailover, for any number of nodes and all times that fit into ttl:    *)
(* two servers never take visits, and no number that a visitor has read is *)
(* lost.  A primary holds the lock because it stops before the time to     *)
(* live is over; the sync key names only nodes that have every number, so  *)
(* whoever takes the lock has them.                                        *)
(*                                                                         *)
(* StandbyPair, for any number of visits and faults: a standby never makes *)
(* a cluster of its own, and what it has is a prefix of what its primary   *)
(* has.  The entrypoint leaves a standby no way to Postgres but a volume   *)
(* that a copy has filled, and the runbook says who is the primary.        *)
(***************************************************************************)
EXTENDS HaFailover, StandbyPair, SequenceTheorems, TLAPS

Owners == Nodes \cup {Nobody}
Roles == {"primary", "replica", "down"}
Ages == 0..(Ttl - 1)
Logs == 0..MaxVisits
Syncs == [leader: Nodes, standby: Owners]

USE ConstantsAssumption, NobodyAssumption

\* TypeOK with names for its sets, of which the steps need only what they say.
LEMMA TypesNamed ==
    TypeOK <=> /\ lock \in Owners /\ age \in Ages /\ sync \in Syncs
               /\ pg \in [Nodes -> Roles]
               /\ cut \subseteq Nodes /\ listed \subseteq Nodes
               /\ streak \in [Nodes -> Nat]
               /\ \A n \in Nodes : streak[n] < Limit(n)
               /\ wal \in [Nodes -> Logs] /\ answered \in Logs
               /\ faults \in 0..MaxFaults
BY DEF TypeOK, Owners, Ages, Syncs, Roles, Logs

\* The initial states satisfy the inductive invariant.
LEMMA InitEstablishes == Init => IInv
<1> SUFFICES ASSUME Init PROVE IInv
  OBVIOUS
<1>1. PICK first \in Nodes, standby \in Nodes :
        /\ lock = first
        /\ age = 0
        /\ sync = [leader |-> first, standby |-> standby]
        /\ pg = [n \in Nodes |-> IF n = first THEN "primary" ELSE "replica"]
        /\ cut = {}
        /\ listed = {first}
        /\ streak = [n \in Nodes |-> 0]
        /\ wal = [n \in Nodes |-> 0]
        /\ answered = 0
        /\ faults = 0
  BY DEF Init
<1>2. TypeOK
  BY <1>1 DEF TypeOK, Limit
<1>3. PrimaryHoldsLock /\ SyncedHaveAll
  BY <1>1 DEF PrimaryHoldsLock, SyncedHaveAll
<1> QED
  BY <1>2, <1>3 DEF IInv

-----------------------------------------------------------------------------
(* Time *)

\* While there is a primary, its lock is not dropped: it stops before ttl.
LEMMA LockOutlivesPrimary ==
    ASSUME IInv, Tick, NEW n \in Nodes, pg[n] = "primary"
    PROVE  lock' = n /\ age' = age + 1
<1>1. lock = n /\ lock # Nobody
  BY DEF IInv, PrimaryHoldsLock
<1>2. age < LoopWait + RetryTimeout
  BY DEF Tick, MayPass
<1>3. age + 1 # Ttl
  BY <1>2 DEF IInv, TypeOK
<1> QED
  BY <1>1, <1>3 DEF Tick

\* A check that does not change a server's place stays below the limit.
LEMMA StreaksStayBelow ==
    ASSUME TypeOK, Check
    PROVE  /\ listed' \subseteq Nodes
           /\ streak' \in [Nodes -> Nat]
           /\ \A n \in Nodes : streak'[n] < Limit(n)'
<1>1. streak' \in [Nodes -> Nat] /\ listed' \subseteq Nodes
  BY DEF Check, TypeOK
<1>2. ASSUME NEW n \in Nodes
      PROVE  streak'[n] < Limit(n)'
  <2>1. streak[n] \in Nat /\ streak[n] < Limit(n)
    BY DEF TypeOK
  <2>2. CASE Contradicted(n) /\ ~Flips(n)
    <3>1. streak'[n] = streak[n] + 1 /\ (n \in listed' <=> n \in listed)
      BY <2>2 DEF Check, Flips, Contradicted, Answers
    <3>2. streak[n] + 1 # Limit(n)
      BY <2>2 DEF Flips
    <3>3. Limit(n) \in Nat /\ Limit(n)' = Limit(n)
      BY <3>1 DEF Limit
    <3> QED
      BY <2>1, <3>1, <3>2, <3>3
  <2>3. CASE ~(Contradicted(n) /\ ~Flips(n))
    BY <2>3 DEF Check, Limit
  <2> QED
    BY <2>2, <2>3
<1> QED
  BY <1>1, <1>2

LEMMA TickPreserves ==
    ASSUME IInv, Tick
    PROVE  IInv'
<1>1. TypeOK /\ Check
  BY DEF IInv, Tick
<1>2. lock' \in Owners /\ age' \in Ages
  BY <1>1 DEF Tick, TypeOK, Owners, Ages
<1>3. TypeOK'
  BY <1>1, <1>2, StreaksStayBelow, TypesNamed DEF Tick, TypeOK, Owners, Ages
<1>4. PrimaryHoldsLock'
  BY LockOutlivesPrimary DEF Tick, IInv, PrimaryHoldsLock
<1>5. SyncedHaveAll'
  BY DEF Tick, IInv, SyncedHaveAll
<1> QED
  BY <1>3, <1>4, <1>5 DEF IInv

-----------------------------------------------------------------------------
(* Patroni *)

LEMMA RenewPreserves ==
    ASSUME IInv, NEW n \in Nodes, Renew(n)
    PROVE  IInv'
BY DEF Renew, router, IInv, TypeOK, Limit, PrimaryHoldsLock, SyncedHaveAll

LEMMA DemotePreserves ==
    ASSUME IInv, NEW n \in Nodes, Demote(n)
    PROVE  IInv'
<1>1. TypeOK'
  BY TypesNamed DEF Demote, Becomes, dcs, router, IInv, TypeOK, Limit
<1>2. PrimaryHoldsLock' /\ SyncedHaveAll'
  BY DEF Demote, Becomes, dcs, IInv, TypeOK, PrimaryHoldsLock, SyncedHaveAll
<1> QED
  BY <1>1, <1>2 DEF IInv

\* No other node is primary, for the lock is free or n's own; and n has every
\* number, for the sync key names it.
LEMMA AcquirePreserves ==
    ASSUME IInv, NEW n \in Nodes, Acquire(n)
    PROVE  IInv'
<1>1. TypeOK'
  BY DEF Acquire, Becomes, router, IInv, TypeOK, Limit
<1>2. PrimaryHoldsLock'
  BY DEF Acquire, Becomes, IInv, TypeOK, PrimaryHoldsLock
<1>3. wal[n] >= answered
  BY DEF Acquire, IInv, SyncedHaveAll
<1>4. SyncedHaveAll'
  BY <1>3 DEF Acquire, SyncedHaveAll
<1> QED
  BY <1>1, <1>2, <1>4 DEF IInv

LEMMA NameStandbyPreserves ==
    ASSUME IInv, NEW n \in Nodes, NameStandby(n)
    PROVE  IInv'
<1>1. lock = n /\ sync.leader = n /\ wal[n] >= answered
  BY DEF NameStandby, Leads, IInv, PrimaryHoldsLock, SyncedHaveAll
<1>2. TypeOK'
  BY DEF NameStandby, router, IInv, TypeOK, Limit
<1>3. PrimaryHoldsLock'
  BY <1>1 DEF NameStandby, IInv, PrimaryHoldsLock
<1>4. SyncedHaveAll'
  BY <1>1 DEF NameStandby, SyncedHaveAll
<1> QED
  BY <1>2, <1>3, <1>4 DEF IInv

\* Whom a replica follows leads the sync key, and has every number.
LEMMA FollowPreserves ==
    ASSUME IInv, NEW n \in Nodes, Follow(n)
    PROVE  IInv'
<1>1. PICK m \in Nodes :
        /\ Leads(m)
        /\ wal' = [wal EXCEPT ![n] = wal[m]]
        /\ UNCHANGED <<dcs, pg, cut, router, answered, faults>>
  BY DEF Follow
<1>2. wal[m] >= answered
  BY <1>1 DEF Leads, IInv, PrimaryHoldsLock, SyncedHaveAll
<1>3. TypeOK'
  BY <1>1, TypesNamed DEF dcs, router, IInv, TypeOK, Limit, Logs
<1>4. PrimaryHoldsLock'
  BY <1>1 DEF dcs, IInv, PrimaryHoldsLock
<1>5. SyncedHaveAll'
  BY <1>1, <1>2 DEF dcs, IInv, TypeOK, SyncedHaveAll
<1> QED
  BY <1>3, <1>4, <1>5 DEF IInv

-----------------------------------------------------------------------------
(* Visits and faults *)

\* The nodes of the sync key are those that get the new number.
LEMMA VisitPreserves ==
    ASSUME IInv, NEW n \in Nodes, Visit(n)
    PROVE  IInv'
<1> DEFINE behind == IF sync.standby = Nobody THEN {} ELSE {sync.standby}
<1>1. /\ sync.leader = n /\ wal[n] < MaxVisits
      /\ \A m \in behind : wal[m] = wal[n]
      /\ wal' = [m \in Nodes |-> IF m \in behind \cup {n} THEN wal[n] + 1
                                                         ELSE wal[m]]
      /\ answered' = wal[n] + 1
      /\ UNCHANGED <<dcs, pg, cut, router, faults>>
  BY DEF Visit
<1>2. wal[n] + 1 \in Logs
  BY <1>1 DEF IInv, TypeOK, Logs
<1>3. wal' \in [Nodes -> Logs] /\ answered' \in Logs
  BY <1>1, <1>2, TypesNamed DEF IInv
<1>4. TypeOK'
  BY <1>1, <1>3 DEF dcs, router, IInv, TypeOK, Limit, Logs
<1>5. PrimaryHoldsLock'
  BY <1>1 DEF dcs, IInv, PrimaryHoldsLock
<1>6. SyncedHaveAll'
  BY <1>1, <1>2 DEF dcs, Logs, SyncedHaveAll
<1> QED
  BY <1>4, <1>5, <1>6 DEF IInv

LEMMA CrashPreserves ==
    ASSUME IInv, NEW n \in Nodes, Crash(n)
    PROVE  IInv'
<1>1. TypeOK'
  BY DEF Crash, Fault, Becomes, dcs, router, IInv, TypeOK, Limit
<1>2. PrimaryHoldsLock' /\ SyncedHaveAll'
  BY DEF Crash, Becomes, dcs, IInv, TypeOK, PrimaryHoldsLock, SyncedHaveAll
<1> QED
  BY <1>1, <1>2 DEF IInv

LEMMA RestartPreserves ==
    ASSUME IInv, NEW n \in Nodes, Restart(n)
    PROVE  IInv'
<1>1. TypeOK'
  BY DEF Restart, Becomes, dcs, router, IInv, TypeOK, Limit
<1>2. PrimaryHoldsLock' /\ SyncedHaveAll'
  BY DEF Restart, Becomes, dcs, IInv, TypeOK, PrimaryHoldsLock, SyncedHaveAll
<1> QED
  BY <1>1, <1>2 DEF IInv

LEMMA PartitionPreserves ==
    ASSUME IInv, NEW n \in Nodes, Partition(n)
    PROVE  IInv'
BY DEF Partition, Fault, dcs, router, IInv, TypeOK, Limit, PrimaryHoldsLock,
       SyncedHaveAll

LEMMA StutterPreserves ==
    ASSUME IInv, UNCHANGED vars
    PROVE  IInv'
BY DEF vars, dcs, router, IInv, TypeOK, Limit, PrimaryHoldsLock, SyncedHaveAll

LEMMA NextPreserves == IInv /\ [Next]_vars => IInv'
BY TickPreserves, RenewPreserves, DemotePreserves, AcquirePreserves,
   NameStandbyPreserves, FollowPreserves, VisitPreserves, CrashPreserves,
   RestartPreserves, PartitionPreserves, StutterPreserves
   DEF Next, Patroni

-----------------------------------------------------------------------------
\* The types, who holds the lock, and who has every number, in every
\* reachable state (patroni.yml.template:14-20).
THEOREM InvariantHolds == Spec => []IInv
BY InitEstablishes, NextPreserves, PTL DEF Spec

\* No streak of checks reaches its limit, and the lock is younger than ttl.
THEOREM TypeCorrect == Spec => []TypeOK
<1>1. IInv => TypeOK
  BY DEF IInv
<1> QED
  BY <1>1, InvariantHolds, PTL

\* Two servers never take visits at the same time, whatever crashes and
\* whoever is cut off from etcd.
THEOREM OnePrimaryHolds == Spec => []OnePrimary
<1>1. IInv => OnePrimary
  BY DEF IInv, PrimaryHoldsLock, OnePrimary
<1> QED
  BY <1>1, InvariantHolds, PTL

\* A number that a visitor has read is in the database of every later leader.
THEOREM NoNumberIsLostHolds == Spec => []NoNumberIsLost
<1>1. IInv => NoNumberIsLost
  BY DEF IInv, PrimaryHoldsLock, SyncedHaveAll, NoNumberIsLost
<1> QED
  BY <1>1, InvariantHolds, PTL

-----------------------------------------------------------------------------
HIDE NobodyAssumption
HIDE ConstantsAssumption

\* There are two nodes, and each is the other one's other.
LEMMA TwoHosts ==
    /\ First \in Hosts /\ Second \in Hosts /\ Second # First
    /\ Hosts = {First, Second}
    /\ Other(First) = Second /\ Other(Second) = First
<1>1. PICK n \in Hosts : Hosts = {First, n} /\ n # First
  BY PairAssumption
<1>2. First \in Hosts
  BY PairAssumption
<1>3. Other(First) \in Hosts /\ Other(First) # First
  BY <1>1 DEF Other
<1>4. Second = n
  BY <1>1, <1>3 DEF Second
<1>5. Other(n) \in Hosts /\ Other(n) # n
  BY <1>1, <1>2 DEF Other
<1> QED
  BY <1>1, <1>2, <1>4, <1>5 DEF Second

\* What a prefix is.
LEMMA PrefixMeans ==
    ASSUME NEW S, NEW s \in Seq(S), NEW t \in Seq(S)
    PROVE  IsPrefix(s, t) <=> /\ Len(s) <= Len(t)
                              /\ \A i \in 1..Len(s) : s[i] = t[i]
<1>1. /\ Len(s) \in Nat /\ Len(t) \in Nat
      /\ \A i \in 1..Len(s) : s[i] \in S
      /\ \A i \in 1..Len(t) : t[i] \in S
  BY LenProperties, ElementOfSeq
<1>2. ASSUME Len(s) <= Len(t)
      PROVE  SubSeq(s, 1, Len(s)) = SubSeq(t, 1, Len(s))
               <=> \A i \in 1..Len(s) : s[i] = t[i]
  <2>1. /\ SubSeq(s, 1, Len(s)) \in Seq(S)
        /\ Len(SubSeq(s, 1, Len(s))) = Len(s)
        /\ \A i \in 1..Len(s) : SubSeq(s, 1, Len(s))[i] = s[i]
    BY <1>1, SubSeqProperties
  <2>2. \A i \in 1..Len(s) : t[i] \in S
    BY <1>1, <1>2
  <2>3. /\ SubSeq(t, 1, Len(s)) \in Seq(S)
        /\ Len(SubSeq(t, 1, Len(s))) = Len(s)
        /\ \A i \in 1..Len(s) : SubSeq(t, 1, Len(s))[i] = t[i]
    BY <1>1, <2>2, SubSeqProperties
  <2>4. ASSUME \A i \in 1..Len(s) : s[i] = t[i]
        PROVE  SubSeq(s, 1, Len(s)) = SubSeq(t, 1, Len(s))
    BY <2>1, <2>3, <2>4, SeqEqual
  <2>5. ASSUME SubSeq(s, 1, Len(s)) = SubSeq(t, 1, Len(s)),
               NEW i \in 1..Len(s)
        PROVE  s[i] = t[i]
    BY <2>1, <2>3, <2>5
  <2> QED
    BY <2>4, <2>5
<1> QED
  BY <1>2 DEF IsPrefix

LEMMA PrefixOfItself == ASSUME NEW S, NEW s \in Seq(S) PROVE IsPrefix(s, s)
<1>1. Len(s) \in Nat
  BY LenProperties
<1> QED
  BY <1>1, PrefixMeans

\* A copy stays a prefix of a log that grows.
LEMMA PrefixOfLonger ==
    ASSUME NEW S, NEW s \in Seq(S), NEW t \in Seq(S), NEW x \in S,
           IsPrefix(s, t)
    PROVE  Append(t, x) \in Seq(S) /\ IsPrefix(s, Append(t, x))
<1>1. Len(s) \in Nat /\ Len(t) \in Nat
  BY LenProperties
<1>2. Len(s) <= Len(t) /\ \A i \in 1..Len(s) : s[i] = t[i]
  BY PrefixMeans
<1>3. /\ Append(t, x) \in Seq(S) /\ Len(Append(t, x)) = Len(t) + 1
      /\ \A i \in 1..Len(t) : Append(t, x)[i] = t[i]
  BY AppendProperties
<1>4. Len(s) <= Len(Append(t, x))
  BY <1>1, <1>2, <1>3
<1>5. \A i \in 1..Len(s) : s[i] = Append(t, x)[i]
  BY <1>1, <1>2, <1>3
<1> QED
  BY <1>3, <1>4, <1>5, PrefixMeans

\* A copy that applies the next record is a prefix still.
LEMMA PrefixThatGrows ==
    ASSUME NEW S, NEW s \in Seq(S), NEW t \in Seq(S), IsStrictPrefix(s, t)
    PROVE  /\ SubSeq(t, 1, Len(s) + 1) \in Seq(S)
           /\ IsPrefix(SubSeq(t, 1, Len(s) + 1), t)
           /\ IsPrefix(s, SubSeq(t, 1, Len(s) + 1))
<1> DEFINE n == Len(s) + 1
           u == SubSeq(t, 1, n)
<1>1. /\ Len(s) \in Nat /\ Len(t) \in Nat
      /\ \A i \in 1..Len(t) : t[i] \in S
  BY LenProperties, ElementOfSeq
<1>2. Len(s) <= Len(t) /\ \A i \in 1..Len(s) : s[i] = t[i]
  BY PrefixMeans DEF IsStrictPrefix
<1>3. Len(s) # Len(t)
  BY <1>2, SeqEqual DEF IsStrictPrefix
<1>4. n \in Nat /\ 1 <= n /\ n <= Len(t)
  BY <1>1, <1>2, <1>3
<1> HIDE DEF n
<1>5. \A i \in 1..n : t[i] \in S
  BY <1>1, <1>4
<1>6. /\ u \in Seq(S) /\ Len(u) = n
      /\ \A i \in 1..n : u[i] = t[i]
  BY <1>4, <1>5, SubSeqProperties
<1> HIDE DEF u
<1>7. IsPrefix(u, t)
  BY <1>4, <1>6, PrefixMeans
<1>8. Len(s) <= Len(u) /\ \A i \in 1..Len(s) : s[i] = u[i]
  <2>1. n = Len(s) + 1
    BY DEF n
  <2> QED
    BY <1>1, <1>2, <1>6, <2>1
<1>9. IsPrefix(s, u)
  BY <1>6, <1>8, PrefixMeans
<1> QED
  BY <1>6, <1>7, <1>9 DEF u, n

-----------------------------------------------------------------------------
\* The initial state satisfies the inductive invariant.
LEMMA PairInitEstablishes == PairInit => PairIInv
<1> SUFFICES ASSUME PairInit PROVE PairIInv
  OBVIOUS
<1>1. PairTypeOK
  BY EmptySeq, PairAssumption
     DEF PairInit, PairTypeOK, DbRoles, Stages, Kinds
<1>2. StagesMatchData
  BY DEF PairInit, StagesMatchData
<1>3. RunbookInOrder
  BY DEF PairInit, RunbookInOrder, FirstRole, Rebuilt
<1>4. WritersInTurn /\ CopiesArePrefixes
  BY TwoHosts
     DEF PairInit, WritersInTurn, CopiesArePrefixes, Promoted, Rebuilt
<1> QED
  BY <1>1, <1>2, <1>3, <1>4 DEF PairIInv

\* A step that changes no log and makes no standby keeps the prefixes.
LEMMA PrefixesAreKept ==
    ASSUME CopiesArePrefixes, log' = log, runbook' = runbook,
           \A n \in Hosts : data'[n] = "standby" => data[n] = "standby"
    PROVE  CopiesArePrefixes'
BY TwoHosts DEF CopiesArePrefixes, Promoted, Rebuilt

\* An entrypoint empties no volume that has a cluster.
LEMMA EnterPreserves ==
    ASSUME PairIInv, NEW n \in Hosts, Enter(n) PROVE PairIInv'
<1>1. /\ pc[n] = "starting"
      /\ UNCHANGED <<role, log, onBackup, runbook, visits, failures>>
  BY DEF Enter
<1>2. /\ pc \in [Hosts -> Stages] /\ data \in [Hosts -> Kinds]
  BY DEF PairIInv, PairTypeOK
<1>3. CASE /\ role[n] = "standby" /\ ~HasVersion(n)
           /\ Goes(n, "seeding") /\ Holds(n, "empty")
  <2>1. /\ pc' \in [Hosts -> Stages] /\ data' \in [Hosts -> Kinds]
        /\ pc'[n] = "seeding" /\ data'[n] = "empty"
        /\ \A m \in Hosts : m # n => pc'[m] = pc[m] /\ data'[m] = data[m]
    BY <1>2, <1>3 DEF Goes, Holds, Stages, Kinds
  <2>2. PairTypeOK'
    BY <1>1, <2>1 DEF PairIInv, PairTypeOK
  <2>3. StagesMatchData'
    BY <1>1, <1>3, <2>1 DEF PairIInv, StagesMatchData, HasVersion
  <2>4. RunbookInOrder'
    BY <1>1 DEF PairIInv, RunbookInOrder, Promoted, Rebuilt, FirstRole,
                LaterRole
  <2>5. data[n] \notin {"standby", "primary"}
    BY <1>3 DEF HasVersion
  <2>6. ~Promoted => n # First
    BY <1>3, TwoHosts DEF PairIInv, RunbookInOrder, FirstRole
  <2>7. WritersInTurn'
    BY <1>1, <2>1, <2>5, <2>6, TwoHosts
       DEF PairIInv, WritersInTurn, Promoted, Rebuilt
  <2>8. CopiesArePrefixes'
    BY <1>1, <2>1, PrefixesAreKept DEF PairIInv
  <2> QED
    BY <2>2, <2>3, <2>4, <2>7, <2>8 DEF PairIInv
<1>4. CASE /\ role[n] = "standby" => HasVersion(n)
           /\ Goes(n, "exec") /\ UNCHANGED data
  <2>1. /\ pc' \in [Hosts -> Stages] /\ pc'[n] = "exec"
        /\ \A m \in Hosts : m # n => pc'[m] = pc[m]
    BY <1>2, <1>4 DEF Goes, Stages
  <2>2. PairTypeOK'
    BY <1>1, <1>4, <2>1 DEF PairIInv, PairTypeOK
  <2>3. StagesMatchData'
    BY <1>1, <1>4, <2>1 DEF PairIInv, StagesMatchData, HasVersion
  <2>4. RunbookInOrder' /\ WritersInTurn'
    BY <1>1, <1>4 DEF PairIInv, RunbookInOrder, WritersInTurn, Promoted,
                      Rebuilt, FirstRole, LaterRole
  <2>5. CopiesArePrefixes'
    BY <1>1, <1>4, PrefixesAreKept DEF PairIInv
  <2> QED
    BY <2>2, <2>3, <2>4, <2>5 DEF PairIInv
<1> QED
  BY <1>3, <1>4 DEF Enter

\* Only a standby copies, and when the copy is done it is that of its primary.
LEMMA CopyPreserves ==
    ASSUME PairIInv, NEW n \in Hosts, Copy(n) PROVE PairIInv'
<1>1. /\ pc[n] = "seeding" /\ pc[Other(n)] = "running"
      /\ UNCHANGED <<role, onBackup, runbook, visits, failures>>
  BY DEF Copy
<1>2. /\ pc \in [Hosts -> Stages] /\ data \in [Hosts -> Kinds]
      /\ log \in [Hosts -> Seq(Numbers)]
  BY DEF PairIInv, PairTypeOK
<1>3. /\ role[n] = "standby" /\ data[n] \in {"empty"} \cup Incomplete
      /\ data[Other(n)] \in {"standby", "primary"}
  BY <1>1, TwoHosts DEF PairIInv, StagesMatchData
<1>4. /\ ~Promoted => n # First
      /\ Promoted => n # Second
  BY <1>3, TwoHosts
     DEF PairIInv, RunbookInOrder, WritersInTurn, FirstRole, Incomplete
<1>5. RunbookInOrder'
  BY <1>1 DEF PairIInv, RunbookInOrder, Promoted, Rebuilt, FirstRole,
              LaterRole
<1>6. CASE \E kind \in Incomplete :
             Holds(n, kind) /\ UNCHANGED <<pc, log>>
  <2>1. /\ data' \in [Hosts -> Kinds]
        /\ data'[n] \in Incomplete
        /\ \A m \in Hosts : m # n => data'[m] = data[m]
        /\ UNCHANGED <<pc, log>>
    BY <1>2, <1>6 DEF Holds, Kinds
  <2>2. PairTypeOK'
    BY <1>1, <2>1 DEF PairIInv, PairTypeOK
  <2>3. StagesMatchData'
    BY <1>1, <2>1 DEF PairIInv, StagesMatchData, HasVersion
  <2>4. WritersInTurn'
    BY <1>1, <1>4, <2>1, TwoHosts
       DEF PairIInv, WritersInTurn, Promoted, Rebuilt, Incomplete
  <2>5. CopiesArePrefixes'
    BY <1>1, <2>1, PrefixesAreKept DEF PairIInv, Incomplete
  <2> QED
    BY <1>5, <2>2, <2>3, <2>4, <2>5 DEF PairIInv
<1>7. CASE /\ Holds(n, "standby") /\ Goes(n, "exec")
           /\ log' = [log EXCEPT ![n] = log[Other(n)]]
  <2>1. /\ pc' \in [Hosts -> Stages] /\ data' \in [Hosts -> Kinds]
        /\ pc'[n] = "exec" /\ data'[n] = "standby"
        /\ \A m \in Hosts : m # n => pc'[m] = pc[m] /\ data'[m] = data[m]
    BY <1>2, <1>7 DEF Goes, Holds, Stages, Kinds
  <2>2. /\ log' \in [Hosts -> Seq(Numbers)]
        /\ log'[n] = log[Other(n)]
        /\ \A m \in Hosts : m # n => log'[m] = log[m]
    BY <1>2, <1>7, TwoHosts
  <2>3. PairTypeOK'
    BY <1>1, <2>1, <2>2 DEF PairIInv, PairTypeOK
  <2>4. StagesMatchData'
    BY <1>1, <2>1 DEF PairIInv, StagesMatchData, HasVersion
  <2>5. WritersInTurn'
    BY <1>1, <1>3, <1>4, <2>1, TwoHosts
       DEF PairIInv, WritersInTurn, Promoted, Rebuilt, Incomplete
  <2>6. IsPrefix(log'[n], log'[Other(n)])
    BY <1>2, <2>2, TwoHosts, PrefixOfItself
  <2>7. CopiesArePrefixes'
    <3>1. CASE n = First
      BY <1>1, <1>4, <2>6, <3>1, TwoHosts
         DEF CopiesArePrefixes, Promoted, Rebuilt
    <3>2. CASE n = Second
      <4>1. ~Promoted /\ ~Rebuilt
        BY <1>4, <3>2, TwoHosts DEF PairIInv, RunbookInOrder
      <4> QED
        BY <1>1, <2>6, <3>2, <4>1, TwoHosts
           DEF CopiesArePrefixes, Promoted, Rebuilt
    <3> QED
      BY <3>1, <3>2, TwoHosts
  <2> QED
    BY <1>5, <2>3, <2>4, <2>5, <2>7 DEF PairIInv
<1> QED
  BY <1>6, <1>7 DEF Copy, Incomplete

\* A step that moves one container and leaves the volumes alone.
LEMMA MovePreserves ==
    ASSUME PairIInv, NEW n \in Hosts, NEW state \in {"starting", "lost"},
           Goes(n, state), failures' \in 0..MaxFailures,
           UNCHANGED <<role, data, log, onBackup, runbook, visits>>
    PROVE  PairIInv'
<1>1. /\ pc' \in [Hosts -> Stages] /\ pc'[n] = state
      /\ \A m \in Hosts : m # n => pc'[m] = pc[m]
  BY DEF PairIInv, PairTypeOK, Goes, Stages
<1>2. PairTypeOK'
  BY <1>1 DEF PairIInv, PairTypeOK
<1>3. StagesMatchData'
  BY <1>1 DEF PairIInv, StagesMatchData, HasVersion
<1>4. RunbookInOrder' /\ WritersInTurn'
  BY DEF PairIInv, RunbookInOrder, WritersInTurn, Promoted, Rebuilt,
         FirstRole, LaterRole
<1>5. CopiesArePrefixes'
  BY PrefixesAreKept DEF PairIInv
<1> QED
  BY <1>2, <1>3, <1>4, <1>5 DEF PairIInv

LEMMA FaultsPreserve ==
    ASSUME PairIInv, NEW n \in Hosts,
           Kill(n) \/ HostLost(n) \/ HostReturns(n)
    PROVE  PairIInv'
<1>1. failures \in 0..MaxFailures /\ MaxFailures \in Nat
  BY PairAssumption DEF PairIInv, PairTypeOK
<1>2. failures' \in 0..MaxFailures
  BY <1>1 DEF Kill, HostLost, HostReturns, Failure
<1> QED
  BY <1>2, MovePreserves DEF Kill, HostLost, HostReturns

\* A failed copy leaves an empty volume.
LEMMA CopyFailsPreserves ==
    ASSUME PairIInv, NEW n \in Hosts, CopyFails(n) PROVE PairIInv'
<1>1. /\ pc[n] = "seeding" /\ Holds(n, "empty")
      /\ UNCHANGED <<role, pc, log, onBackup, runbook, visits, failures>>
  BY DEF CopyFails
<1>2. /\ role[n] = "standby" /\ data[n] \in {"empty"} \cup Incomplete
  BY <1>1 DEF PairIInv, StagesMatchData
<1>3. ~Promoted => n # First
  BY <1>2, TwoHosts DEF PairIInv, RunbookInOrder, FirstRole
<1>4. /\ data' \in [Hosts -> Kinds] /\ data'[n] = "empty"
      /\ \A m \in Hosts : m # n => data'[m] = data[m]
  BY <1>1 DEF PairIInv, PairTypeOK, Holds, Kinds
<1>5. PairTypeOK'
  BY <1>1, <1>4 DEF PairIInv, PairTypeOK
<1>6. StagesMatchData'
  BY <1>1, <1>4 DEF PairIInv, StagesMatchData, HasVersion
<1>7. RunbookInOrder'
  BY <1>1 DEF PairIInv, RunbookInOrder, Promoted, Rebuilt, FirstRole,
              LaterRole
<1>8. WritersInTurn'
  BY <1>1, <1>2, <1>3, <1>4, TwoHosts
     DEF PairIInv, WritersInTurn, Promoted, Rebuilt, Incomplete
<1>9. CopiesArePrefixes'
  BY <1>1, <1>4, PrefixesAreKept DEF PairIInv
<1> QED
  BY <1>5, <1>6, <1>7, <1>8, <1>9 DEF PairIInv

\* Only the primary of the last deploy makes a new cluster.
LEMMA ExecPreserves ==
    ASSUME PairIInv, NEW n \in Hosts, Exec(n) PROVE PairIInv'
<1>1. /\ pc[n] = "exec"
      /\ UNCHANGED <<role, onBackup, runbook, visits, failures>>
  BY DEF Exec
<1>2. /\ pc \in [Hosts -> Stages] /\ data \in [Hosts -> Kinds]
      /\ log \in [Hosts -> Seq(Numbers)]
      /\ failures \in 0..MaxFailures
  BY DEF PairIInv, PairTypeOK
<1>3. CASE Goes(n, "starting") /\ UNCHANGED <<data, log>>
  BY <1>1, <1>2, <1>3, MovePreserves
<1>4. RunbookInOrder'
  BY <1>1 DEF PairIInv, RunbookInOrder, Promoted, Rebuilt, FirstRole,
              LaterRole
<1>5. CASE /\ data[n] \notin Incomplete /\ data[n] # "empty"
           /\ Goes(n, "running") /\ UNCHANGED <<data, log>>
  <2>1. /\ pc' \in [Hosts -> Stages] /\ pc'[n] = "running"
        /\ \A m \in Hosts : m # n => pc'[m] = pc[m]
    BY <1>2, <1>5 DEF Goes, Stages
  <2>2. data[n] \in {"standby", "primary"}
    BY <1>2, <1>5 DEF Kinds
  <2>3. PairTypeOK'
    BY <1>1, <1>5, <2>1 DEF PairIInv, PairTypeOK
  <2>4. StagesMatchData'
    BY <1>1, <1>5, <2>1, <2>2 DEF PairIInv, StagesMatchData, HasVersion
  <2>5. WritersInTurn'
    BY <1>1, <1>5 DEF PairIInv, WritersInTurn, Promoted, Rebuilt
  <2>6. CopiesArePrefixes'
    BY <1>1, <1>5, PrefixesAreKept DEF PairIInv
  <2> QED
    BY <1>4, <2>3, <2>4, <2>5, <2>6 DEF PairIInv
<1>6. CASE /\ data[n] = "empty"
           /\ Goes(n, "running") /\ Holds(n, "primary")
           /\ log' = [log EXCEPT ![n] = <<>>]
  <2>1. role[n] # "standby"
    BY <1>1, <1>6 DEF PairIInv, StagesMatchData, HasVersion
  <2>2. Promoted => n # Second
    BY <1>6 DEF PairIInv, WritersInTurn
  <2>3. n = First /\ First \notin runbook
    BY <2>1, <2>2, TwoHosts
       DEF PairIInv, RunbookInOrder, FirstRole, LaterRole
  <2>4. ~Rebuilt
    BY <2>3, TwoHosts DEF PairIInv, RunbookInOrder
  <2>5. /\ pc' \in [Hosts -> Stages] /\ data' \in [Hosts -> Kinds]
        /\ pc'[n] = "running" /\ data'[n] = "primary"
        /\ \A m \in Hosts : m # n => pc'[m] = pc[m] /\ data'[m] = data[m]
    BY <1>2, <1>6 DEF Goes, Holds, Stages, Kinds
  <2>6. log' \in [Hosts -> Seq(Numbers)]
    BY <1>2, <1>6, EmptySeq
  <2>7. PairTypeOK'
    BY <1>1, <2>5, <2>6 DEF PairIInv, PairTypeOK
  <2>8. StagesMatchData'
    BY <1>1, <2>5 DEF PairIInv, StagesMatchData, HasVersion
  <2>9. ~Promoted => data[Second] # "standby"
    BY <1>6, <2>3 DEF PairIInv, WritersInTurn
  <2>10. WritersInTurn' /\ CopiesArePrefixes'
    BY <1>1, <2>3, <2>4, <2>5, <2>9, TwoHosts
       DEF PairIInv, WritersInTurn, CopiesArePrefixes, Promoted, Rebuilt
  <2> QED
    BY <1>4, <2>7, <2>8, <2>10 DEF PairIInv
<1> QED
  BY <1>3, <1>5, <1>6 DEF Exec

\* A standby that applies a record still has a prefix of what its primary has.
LEMMA ReplicatePreserves ==
    ASSUME PairIInv, NEW n \in Hosts, Replicate(n) PROVE PairIInv'
<1> DEFINE source == log[Other(n)]
           longer == SubSeq(source, 1, Len(log[n]) + 1)
<1>1. /\ data[n] = "standby" /\ data[Other(n)] = "primary"
      /\ IsStrictPrefix(log[n], source)
      /\ log' = [log EXCEPT ![n] = longer]
      /\ UNCHANGED <<role, pc, data, onBackup, runbook, visits, failures>>
  BY DEF Replicate
<1>2. log \in [Hosts -> Seq(Numbers)] /\ Other(n) \in Hosts /\ Other(n) # n
  BY TwoHosts DEF PairIInv, PairTypeOK
<1>3. longer \in Seq(Numbers) /\ IsPrefix(longer, source)
  BY <1>1, <1>2, PrefixThatGrows
<1>4. log' \in [Hosts -> Seq(Numbers)]
  BY <1>1, <1>2, <1>3
<1>5. /\ log'[n] = longer
      /\ log'[Other(n)] = source
  BY <1>1, <1>2
<1>6. IsPrefix(log'[n], log'[Other(n)])
  BY <1>3, <1>5
<1> HIDE DEF longer, source
<1>7. PairTypeOK'
  BY <1>1, <1>4 DEF PairIInv, PairTypeOK
<1>8. StagesMatchData' /\ RunbookInOrder' /\ WritersInTurn'
  BY <1>1 DEF PairIInv, StagesMatchData, RunbookInOrder, WritersInTurn,
              HasVersion, Promoted, Rebuilt, FirstRole, LaterRole
<1>9. CopiesArePrefixes'
  BY <1>1, <1>6, TwoHosts
     DEF PairIInv, WritersInTurn, CopiesArePrefixes, Promoted, Rebuilt
<1> QED
  BY <1>7, <1>8, <1>9 DEF PairIInv

LEMMA ProbePreserves ==
    ASSUME PairIInv, NEW n \in Hosts, Probe(n) PROVE PairIInv'
<1>1. /\ UNCHANGED <<role, pc, data, log, runbook, visits, failures>>
      /\ onBackup' = onBackup \cup {n} \/ onBackup' = onBackup \ {n}
  BY DEF Probe, node
<1>2. PairTypeOK'
  BY <1>1 DEF PairIInv, PairTypeOK
<1>3. StagesMatchData' /\ RunbookInOrder' /\ WritersInTurn'
  BY <1>1 DEF PairIInv, StagesMatchData, RunbookInOrder, WritersInTurn,
              HasVersion, Promoted, Rebuilt, FirstRole, LaterRole
<1>4. CopiesArePrefixes'
  BY <1>1, PrefixesAreKept DEF PairIInv
<1> QED
  BY <1>2, <1>3, <1>4 DEF PairIInv

\* Wherever a router sends a visit, only a primary counts it, and its log
\* grows at the end.
LEMMA VisitAtPreserves ==
    ASSUME PairIInv, NEW n \in Hosts, VisitAt(n) PROVE PairIInv'
<1> DEFINE t == Target(n)
           grown == Append(log[t], visits + 1)
<1>1. /\ data[t] = "primary" /\ visits < MaxCount /\ visits' = visits + 1
      /\ log' = [log EXCEPT ![t] = grown]
      /\ UNCHANGED <<role, pc, data, onBackup, runbook, failures>>
  BY DEF VisitAt
<1>2. t \in Hosts
  BY TwoHosts DEF Target, Preferred
<1> HIDE DEF t
<1>3. log \in [Hosts -> Seq(Numbers)] /\ visits \in 0..MaxCount
  BY DEF PairIInv, PairTypeOK
<1>4. visits + 1 \in Numbers /\ visits' \in 0..MaxCount
  BY <1>1, <1>3, PairAssumption DEF Numbers
<1>5. grown \in Seq(Numbers)
  BY <1>2, <1>3, <1>4, AppendProperties
<1>6. log' \in [Hosts -> Seq(Numbers)] /\ log'[t] = grown
  BY <1>1, <1>2, <1>3, <1>5
<1>7. \A m \in Hosts : m # t => log'[m] = log[m]
  BY <1>1, <1>3
<1>8. ASSUME NEW m \in Hosts, IsPrefix(log[m], log[t])
      PROVE  IsPrefix(log[m], log'[t])
  BY <1>2, <1>3, <1>4, <1>6, <1>8, PrefixOfLonger
<1> HIDE DEF grown
<1>9. PairTypeOK'
  BY <1>1, <1>4, <1>6 DEF PairIInv, PairTypeOK
<1>10. StagesMatchData' /\ RunbookInOrder' /\ WritersInTurn'
  BY <1>1 DEF PairIInv, StagesMatchData, RunbookInOrder, WritersInTurn,
              HasVersion, Promoted, Rebuilt, FirstRole, LaterRole
<1>11. /\ ~Promoted => t = First
       /\ Rebuilt => t = Second
  BY <1>1, <1>2, TwoHosts DEF PairIInv, WritersInTurn
<1>12. CopiesArePrefixes'
  BY <1>1, <1>7, <1>8, <1>11, TwoHosts
     DEF PairIInv, CopiesArePrefixes, Promoted, Rebuilt
<1> QED
  BY <1>9, <1>10, <1>12 DEF PairIInv

\* The steps of the runbook are marks that no node's name is.
LEMMA StepsAreNoHosts == "promoted" \notin Hosts /\ "rebuilt" \notin Hosts
BY PairAssumption

\* A standby is promoted once: after that it is a primary.
LEMMA PromotePreserves == ASSUME PairIInv, Promote PROVE PairIInv'
<1>1. /\ data[Second] = "standby" /\ Holds(Second, "primary")
      /\ runbook' = runbook \cup {"promoted"}
      /\ UNCHANGED <<role, pc, log, onBackup, visits, failures>>
  BY DEF Promote
<1>2. ~Promoted
  BY <1>1 DEF PairIInv, WritersInTurn
<1>3. ~Rebuilt
  BY <1>2, TwoHosts DEF PairIInv, RunbookInOrder
<1>4. /\ data' \in [Hosts -> Kinds] /\ data'[Second] = "primary"
      /\ \A m \in Hosts : m # Second => data'[m] = data[m]
  BY <1>1, TwoHosts DEF PairIInv, PairTypeOK, Holds, Kinds
<1>5. /\ Promoted' /\ ~Rebuilt'
      /\ \A m \in Hosts : m \in runbook' <=> m \in runbook
  BY <1>1, <1>3, StepsAreNoHosts DEF Promoted, Rebuilt
<1>6. PairTypeOK'
  BY <1>1, <1>4 DEF PairIInv, PairTypeOK
<1>7. StagesMatchData'
  <2>1. \A m \in Hosts : /\ pc'[m] = pc[m] /\ role'[m] = role[m]
                         /\ data'[m] = data[m] \/ m = Second
    BY <1>1, <1>4
  <2>2. pc[Second] # "seeding"
    BY <1>1, TwoHosts DEF PairIInv, StagesMatchData, Incomplete
  <2> QED
    BY <1>4, <2>1, <2>2 DEF PairIInv, StagesMatchData, HasVersion
<1>8. RunbookInOrder'
  BY <1>1, <1>5 DEF PairIInv, RunbookInOrder, FirstRole, LaterRole
<1>9. WritersInTurn' /\ CopiesArePrefixes'
  BY <1>4, <1>5 DEF WritersInTurn, CopiesArePrefixes
<1> QED
  BY <1>6, <1>7, <1>8, <1>9 DEF PairIInv

\* A deploy with the roles swapped restarts a container and leaves its volume.
LEMMA RedeployPreserves ==
    ASSUME PairIInv, NEW n \in Hosts, Redeploy(n) PROVE PairIInv'
<1>1. /\ Promoted /\ n \notin runbook
      /\ runbook' = runbook \cup {n}
      /\ role' = [role EXCEPT ![n] = LaterRole(n)]
      /\ onBackup' = onBackup \ {n}
      /\ Goes(n, "starting")
      /\ UNCHANGED <<data, log, visits, failures>>
  BY DEF Redeploy, Redeployable, Promoted, LaterRole
<1>2. Promoted' /\ (Rebuilt' <=> Rebuilt)
  BY <1>1, StepsAreNoHosts DEF Promoted, Rebuilt
<1>3. ~Rebuilt
  BY <1>1 DEF PairIInv, RunbookInOrder
<1>4. /\ role' \in [Hosts -> DbRoles] /\ role'[n] = LaterRole(n)
      /\ \A m \in Hosts : m # n => role'[m] = role[m]
  BY <1>1 DEF PairIInv, PairTypeOK, LaterRole, DbRoles
<1>5. /\ pc' \in [Hosts -> Stages] /\ pc'[n] = "starting"
      /\ \A m \in Hosts : m # n => pc'[m] = pc[m]
  BY <1>1 DEF PairIInv, PairTypeOK, Goes, Stages
<1>6. PairTypeOK'
  BY <1>1, <1>4, <1>5 DEF PairIInv, PairTypeOK
<1>7. StagesMatchData'
  BY <1>1, <1>4, <1>5 DEF PairIInv, StagesMatchData, HasVersion
<1>8. RunbookInOrder'
  <2>1. \A m \in Hosts : m \in runbook' <=> m \in runbook \/ m = n
    BY <1>1
  <2>2. \A m \in Hosts : role'[m] = IF m \in runbook' THEN LaterRole(m)
                                                      ELSE FirstRole(m)
    BY <1>4, <2>1 DEF PairIInv, RunbookInOrder
  <2> QED
    BY <1>2, <1>3, <2>2 DEF RunbookInOrder, FirstRole, LaterRole
<1>9. WritersInTurn' /\ CopiesArePrefixes'
  BY <1>1, <1>2, <1>3 DEF PairIInv, WritersInTurn, CopiesArePrefixes
<1> QED
  BY <1>6, <1>7, <1>8, <1>9 DEF PairIInv

\* The old primary is wiped before it follows the new one.
LEMMA RebuildPreserves == ASSUME PairIInv, Rebuild PROVE PairIInv'
<1>1. /\ Hosts \subseteq runbook
      /\ runbook' = runbook \cup {"rebuilt"}
      /\ Holds(First, "empty") /\ Goes(First, "starting")
      /\ log' = [log EXCEPT ![First] = <<>>]
      /\ UNCHANGED <<role, onBackup, visits, failures>>
  BY DEF Rebuild, Rebuildable
<1>2. Promoted
  BY <1>1, TwoHosts DEF PairIInv, RunbookInOrder
<1>3. /\ Promoted' /\ Rebuilt' /\ Hosts \subseteq runbook'
  BY <1>1, <1>2 DEF Promoted, Rebuilt
<1>4. /\ data' \in [Hosts -> Kinds] /\ data'[First] = "empty"
      /\ \A m \in Hosts : m # First => data'[m] = data[m]
  BY <1>1, TwoHosts DEF PairIInv, PairTypeOK, Holds, Kinds
<1>5. /\ pc' \in [Hosts -> Stages] /\ pc'[First] = "starting"
      /\ \A m \in Hosts : m # First => pc'[m] = pc[m]
  BY <1>1, TwoHosts DEF PairIInv, PairTypeOK, Goes, Stages
<1>6. log' \in [Hosts -> Seq(Numbers)]
  BY <1>1, EmptySeq DEF PairIInv, PairTypeOK
<1>7. PairTypeOK'
  BY <1>1, <1>4, <1>5, <1>6 DEF PairIInv, PairTypeOK
<1>8. StagesMatchData'
  BY <1>1, <1>4, <1>5 DEF PairIInv, StagesMatchData, HasVersion
<1>9. RunbookInOrder'
  <2>1. \A m \in Hosts : m \in runbook /\ m \in runbook'
    BY <1>1, <1>3
  <2>2. \A m \in Hosts : role'[m] = LaterRole(m)
    BY <1>1, <2>1 DEF PairIInv, RunbookInOrder
  <2> QED
    BY <1>3, <2>1, <2>2 DEF RunbookInOrder, FirstRole, LaterRole
<1>10. WritersInTurn' /\ CopiesArePrefixes'
  BY <1>2, <1>3, <1>4, TwoHosts
     DEF PairIInv, WritersInTurn, CopiesArePrefixes
<1> QED
  BY <1>7, <1>8, <1>9, <1>10 DEF PairIInv

LEMMA PairNextPreserves ==
    ASSUME PairIInv, [PairNext]_pairVars PROVE PairIInv'
<1>1. CASE UNCHANGED pairVars
  <2>1. UNCHANGED <<role, pc, data, log, onBackup, runbook, visits, failures>>
    BY <1>1 DEF pairVars, node
  <2>2. PairTypeOK'
    BY <2>1 DEF PairIInv, PairTypeOK
  <2>3. StagesMatchData' /\ RunbookInOrder' /\ WritersInTurn'
    BY <2>1 DEF PairIInv, StagesMatchData, RunbookInOrder, WritersInTurn,
                HasVersion, Promoted, Rebuilt, FirstRole, LaterRole
  <2>4. CopiesArePrefixes'
    BY <2>1, PrefixesAreKept DEF PairIInv
  <2> QED
    BY <2>2, <2>3, <2>4 DEF PairIInv
<1>2. ASSUME NEW n \in Hosts, Postgres(n) PROVE PairIInv'
  BY <1>2, EnterPreserves, CopyPreserves, CopyFailsPreserves, ExecPreserves
     DEF Postgres
<1>3. ASSUME NEW n \in Hosts,
             \/ Replicate(n) \/ Probe(n) \/ VisitAt(n)
             \/ Kill(n) \/ HostLost(n) \/ HostReturns(n) \/ Redeploy(n)
      PROVE  PairIInv'
  BY <1>3, ReplicatePreserves, ProbePreserves, VisitAtPreserves,
     FaultsPreserve, RedeployPreserves
<1>4. CASE Promote \/ Rebuild
  BY <1>4, PromotePreserves, RebuildPreserves
<1> QED
  BY <1>1, <1>2, <1>3, <1>4 DEF PairNext

-----------------------------------------------------------------------------
\* The inductive invariant: what a container does agrees with its role and its
\* volume, whatever is killed or lost in between (replica-entrypoint.sh:8).
THEOREM PairInvariantHolds == PairSpec => []PairIInv
<1>1. PairInit => PairIInv
  BY PairInitEstablishes
<1>2. PairIInv /\ [PairNext]_pairVars => PairIInv'
  BY PairNextPreserves
<1> QED
  BY <1>1, <1>2, PTL DEF PairSpec

\* Type correctness of the two nodes, and at most MaxCount visits.
THEOREM PairTypeCorrect == PairSpec => []PairTypeOK
<1>1. PairIInv => PairTypeOK
  BY DEF PairIInv
<1> QED
  BY <1>1, PairInvariantHolds, PTL

\* Before the promotion only the first primary can write, and once it has been
\* rebuilt only the promoted node can: an interrupted pg_basebackup never ends
\* in a cluster of the standby's own (replica-entrypoint.sh:8).
THEOREM OneWriterHolds == PairSpec => []OneWriter
<1>1. PairIInv => OneWriter
  BY TwoHosts DEF PairIInv, WritersInTurn, OneWriter, Writers
<1> QED
  BY <1>1, PairInvariantHolds, PTL

\* The copy that is promoted has the visits of the primary up to some visit,
\* in their order, and so has the rebuilt one (promote-postgres-standby.sh).
THEOREM CopiesArePrefixesHolds == PairSpec => []CopiesArePrefixes
<1>1. PairIInv => CopiesArePrefixes
  BY DEF PairIInv
<1> QED
  BY <1>1, PairInvariantHolds, PTL

-----------------------------------------------------------------------------
(* What happens to the volumes. *)

\* A step that leaves a volume alone.
LEMMA UntouchedStays ==
    ASSUME PairIInv, NEW n \in Hosts, data'[n] = data[n], log'[n] = log[n]
    PROVE  ClusterStays(n)
<1>1. log[n] \in Seq(Numbers)
  BY DEF PairIInv, PairTypeOK
<1>2. IsPrefix(log[n], log'[n])
  BY <1>1, PrefixOfItself
<1> QED
  BY <1>2 DEF ClusterStays, HasCluster

\* Only volumes without a cluster are emptied, filled or begun.
LEMMA PostgresKeepsClusters ==
    ASSUME PairIInv, NEW n \in Hosts, NEW m \in Hosts, Postgres(m)
    PROVE  ClusterStays(n)
<1>1. data \in [Hosts -> Kinds] /\ log \in [Hosts -> Seq(Numbers)]
  BY DEF PairIInv, PairTypeOK
<1>2. HasCluster(m) => data'[m] = data[m] /\ log'[m] = log[m]
  <2> SUFFICES ASSUME HasCluster(m)
               PROVE  data'[m] = data[m] /\ log'[m] = log[m]
    OBVIOUS
  <2>1. data[m] # "empty" /\ data[m] \notin Incomplete /\ HasVersion(m)
    BY DEF HasCluster, HasVersion, Incomplete
  <2>2. pc[m] # "seeding"
    BY <2>1 DEF PairIInv, StagesMatchData
  <2> QED
    BY <2>1, <2>2 DEF Postgres, Enter, Copy, CopyFails, Exec
<1>3. n # m => data'[n] = data[n] /\ log'[n] = log[n]
  BY <1>1 DEF Postgres, Enter, Copy, CopyFails, Exec, Holds
<1> QED
  BY <1>2, <1>3, UntouchedStays DEF ClusterStays

LEMMA ReplicateKeepsClusters ==
    ASSUME PairIInv, NEW n \in Hosts, NEW m \in Hosts, Replicate(m)
    PROVE  ClusterStays(n)
<1> DEFINE source == log[Other(m)]
           longer == SubSeq(source, 1, Len(log[m]) + 1)
<1>1. log \in [Hosts -> Seq(Numbers)] /\ Other(m) \in Hosts
  BY TwoHosts DEF PairIInv, PairTypeOK
<1>2. /\ data' = data /\ IsStrictPrefix(log[m], source)
      /\ log' = [log EXCEPT ![m] = longer]
  BY DEF Replicate
<1>3. IsPrefix(log[m], longer)
  BY <1>1, <1>2, PrefixThatGrows
<1>4. log'[m] = longer /\ (n # m => log'[n] = log[n])
  BY <1>1, <1>2
<1> HIDE DEF longer
<1>5. CASE n = m
  BY <1>2, <1>3, <1>4, <1>5 DEF ClusterStays, HasCluster
<1>6. CASE n # m
  BY <1>2, <1>4, <1>6, UntouchedStays
<1> QED
  BY <1>5, <1>6

LEMMA VisitAtKeepsClusters ==
    ASSUME PairIInv, NEW n \in Hosts, NEW m \in Hosts, VisitAt(m)
    PROVE  ClusterStays(n)
<1> DEFINE t == Target(m)
           grown == Append(log[t], visits + 1)
<1>1. /\ data' = data /\ visits < MaxCount
      /\ log' = [log EXCEPT ![t] = grown]
  BY DEF VisitAt
<1>2. t \in Hosts
  BY TwoHosts DEF Target, Preferred
<1> HIDE DEF t
<1>3. log \in [Hosts -> Seq(Numbers)] /\ visits \in 0..MaxCount
  BY DEF PairIInv, PairTypeOK
<1>4. visits + 1 \in Numbers
  BY <1>1, <1>3, PairAssumption DEF Numbers
<1>5. IsPrefix(log[t], log[t])
  BY <1>2, <1>3, PrefixOfItself
<1>6. IsPrefix(log[t], grown)
  BY <1>2, <1>3, <1>4, <1>5, PrefixOfLonger
<1>7. log'[t] = grown /\ (n # t => log'[n] = log[n])
  BY <1>1, <1>2, <1>3
<1> HIDE DEF grown
<1>8. CASE n = t
  BY <1>1, <1>6, <1>7, <1>8 DEF ClusterStays, HasCluster
<1>9. CASE n # t
  BY <1>1, <1>7, <1>9, UntouchedStays
<1> QED
  BY <1>8, <1>9

\* The runbook makes a primary of the standby, and wipes the old primary once.
LEMMA RunbookKeepsClusters ==
    ASSUME PairIInv, NEW n \in Hosts, Promote \/ Rebuild
    PROVE  ClusterStays(n)
<1>1. /\ data \in [Hosts -> Kinds] /\ log \in [Hosts -> Seq(Numbers)]
      /\ log[n] \in Seq(Numbers)
  BY DEF PairIInv, PairTypeOK
<1>2. CASE Promote
  <2>1. log' = log /\ data' = [data EXCEPT ![Second] = "primary"]
    BY <1>2 DEF Promote, Holds
  <2>2. IsPrefix(log[n], log'[n])
    BY <1>1, <2>1, PrefixOfItself
  <2>3. HasCluster(n) => HasCluster(n)'
    BY <1>1, <2>1, TwoHosts DEF HasCluster
  <2> QED
    BY <2>2, <2>3 DEF ClusterStays
<1>3. CASE Rebuild
  <2>1. /\ ~Rebuilt /\ Rebuilt'
        /\ data' = [data EXCEPT ![First] = "empty"]
        /\ log' = [log EXCEPT ![First] = <<>>]
    BY <1>3 DEF Rebuild, Rebuildable, Rebuilt, Holds
  <2>2. CASE n = First
    BY <2>1, <2>2 DEF ClusterStays
  <2>3. CASE n # First
    BY <1>1, <2>1, <2>3, UntouchedStays
  <2> QED
    BY <2>2, <2>3
<1> QED
  BY <1>2, <1>3

\* No entrypoint and no failing copy empties a volume with a cluster, and until
\* the old primary is wiped a cluster only grows: the rm -rf of
\* replica-entrypoint.sh:9 costs no visit that was counted, whenever a
\* container is killed.
THEOREM NoClusterIsWipedHolds == PairSpec => NoClusterIsWiped
<1>1. ASSUME PairIInv, [PairNext]_pairVars, NEW n \in Hosts
      PROVE  ClusterStays(n)
  <2>1. CASE data' = data /\ log' = log
    BY <1>1, <2>1, UntouchedStays
  <2>2. ASSUME NEW m \in Hosts, Postgres(m) PROVE ClusterStays(n)
    BY <1>1, <2>2, PostgresKeepsClusters
  <2>3. ASSUME NEW m \in Hosts, Replicate(m) PROVE ClusterStays(n)
    BY <1>1, <2>3, ReplicateKeepsClusters
  <2>4. ASSUME NEW m \in Hosts, VisitAt(m) PROVE ClusterStays(n)
    BY <1>1, <2>4, VisitAtKeepsClusters
  <2>5. CASE Promote \/ Rebuild
    BY <1>1, <2>5, RunbookKeepsClusters
  <2>6. UNCHANGED pairVars => data' = data /\ log' = log
    BY DEF pairVars, node
  <2>7. \A m \in Hosts :
          Probe(m) \/ Kill(m) \/ HostLost(m) \/ HostReturns(m) \/ Redeploy(m)
            => data' = data /\ log' = log
    BY DEF Probe, node, Kill, HostLost, HostReturns, Redeploy
  <2> QED
    BY <1>1, <2>1, <2>2, <2>3, <2>4, <2>5, <2>6, <2>7 DEF PairNext
<1>2. PairIInv /\ [PairNext]_pairVars => \A n \in Hosts : ClusterStays(n)
  BY <1>1
<1> QED
  BY <1>2, PairInvariantHolds, PTL DEF PairSpec, NoClusterIsWiped
=============================================================================
