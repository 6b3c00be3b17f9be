----------------------------- MODULE HaFailover -----------------------------
(***************************************************************************)
(* The database of docker-compose.ha.yml through a failover: the leader    *)
(* lock in etcd with its time to live, the synchronous standby, and the    *)
(* HAProxy of a server that asks every Patroni for /primary.  A tick is    *)
(* the interval of HAProxy's checks, 2 s; the other times are given in     *)
(* ticks.                                                                  *)
(*                                                                         *)
(* External, by the contracts the templates configure: etcd drops a lock   *)
(* that was not renewed for its time to live.  Patroni renews it in every  *)
(* round, tries for a while when it cannot, and then demotes Postgres; it  *)
(* takes a free lock only if the sync key names its node.  Postgres        *)
(* confirms a commit when the synchronous standby has it.                  *)
(***************************************************************************)
EXTENDS Naturals

CONSTANTS Nodes,
          Ttl,           \* ttl
          LoopWait,      \* loop_wait
          RetryTimeout,  \* retry_timeout
          Fall, Rise,    \* checks until a server is taken out, or in again
          MaxVisits,     \* bound: visits
          MaxFaults      \* bound: crashes and partitions

ASSUME ConstantsAssumption ==
    /\ Nodes # {}
    /\ {LoopWait, RetryTimeout, Fall, Rise} \subseteq Nat \ {0}
    /\ Ttl \in Nat /\ LoopWait + RetryTimeout < Ttl
    /\ MaxVisits \in Nat /\ MaxFaults \in Nat

Nobody == "nobody"
ASSUME NobodyAssumption == Nobody \notin Nodes

VARIABLES lock,      \* the owner of the leader lock, or Nobody
          age,       \* ticks since the lock was renewed
          sync,      \* the sync key: its leader and its standby, or Nobody
          pg,        \* pg[n]: "primary", "replica" or "down"
          cut,       \* nodes that do not reach etcd
          listed,    \* servers that HAProxy uses
          streak,    \* streak[n]: checks in a row that contradict listed
          wal,       \* wal[n]: visits counted in the database of n
          answered,  \* the largest number a visitor got
          faults

dcs == <<lock, age, sync>>
router == <<listed, streak>>
vars == <<dcs, pg, cut, router, wal, answered, faults>>

Alive(n) == pg[n] # "down"
InTouch(n) == Alive(n) /\ n \notin cut
Leads(n) == lock = n /\ pg[n] = "primary"

Init ==
    \E first, standby \in Nodes :
        /\ first # standby
        /\ lock = first
        /\ age = 0
        /\ sync = [leader |-> first, standby |-> standby]
        /\ pg = [n \in Nodes |-> IF n = first THEN "primary" ELSE "replica"]
        /\ cut = {}
        /\ listed = {first}
        /\ streak = [n \in Nodes |-> 0]
        /\ wal = [n \in Nodes |-> 0]
        /\ answered = 0
        /\ faults = 0

Becomes(n, role) == pg' = [pg EXCEPT ![n] = role]

-----------------------------------------------------------------------------
(* Time: HAProxy checks every server. *)

\* GET /primary on port 8008
Answers(n) == pg[n] = "primary"

Contradicted(n) == Answers(n) # (n \in listed)
Limit(n) == IF n \in listed THEN Fall ELSE Rise

Flips(n) == Contradicted(n) /\ streak[n] + 1 = Limit(n)

\* A router that takes servers in and leaves them in.
StickyCheck ==
    /\ listed' = listed \cup {n \in Nodes : Flips(n) /\ n \notin listed}
    /\ streak' = [n \in Nodes |-> IF Contradicted(n) /\ ~Flips(n)
                                    THEN streak[n] + 1 ELSE 0]

Check ==
    /\ listed' = {n \in Nodes : Flips(n) # (n \in listed)}
    /\ streak' = [n \in Nodes |-> IF Contradicted(n) /\ ~Flips(n)
                                    THEN streak[n] + 1 ELSE 0]

\* A retry_timeout that does not fit into ttl.
PatientMayPass ==
    \A n \in Nodes :
        /\ Leads(n) /\ InTouch(n) => age < LoopWait
        /\ pg[n] = "primary" => age < LoopWait + 3 * RetryTimeout

\* A leader acts before its time is up: a renewal is due after loop_wait, and
\* writes end retry_timeout later.
MayPass ==
    \A n \in Nodes :
        /\ Leads(n) /\ InTouch(n) => age < LoopWait
        /\ pg[n] = "primary" => age < LoopWait + RetryTimeout

Tick ==
    /\ MayPass
    /\ Check
    /\ IF lock = Nobody \/ age + 1 = Ttl
         THEN lock' = Nobody /\ age' = 0
         ELSE lock' = lock /\ age' = age + 1
    /\ UNCHANGED <<sync, pg, cut, wal, answered, faults>>

-----------------------------------------------------------------------------
(* Patroni *)

Renew(n) ==
    /\ Leads(n) /\ InTouch(n)
    /\ age >= LoopWait
    /\ age' = 0
    /\ UNCHANGED <<lock, sync, pg, cut, router, wal, answered, faults>>

\* A leader that cannot renew its lock stops taking writes.
Demote(n) ==
    /\ pg[n] = "primary"
    /\ n \in cut /\ age >= LoopWait
    /\ Becomes(n, "replica")
    /\ UNCHANGED <<dcs, cut, router, wal, answered, faults>>

\* What takes the lock when there is no synchronous_mode: any node.
AnyAcquire(n) ==
    /\ InTouch(n) /\ pg[n] = "replica"
    /\ lock \in {Nobody, n}
    /\ lock' = n /\ age' = 0
    /\ sync' = [leader |-> n, standby |-> Nobody]
    /\ Becomes(n, "primary")
    /\ UNCHANGED <<cut, router, wal, answered, faults>>

\* synchronous_mode: true
Acquire(n) ==
    /\ InTouch(n) /\ pg[n] = "replica"
    /\ lock \in {Nobody, n}
    /\ n \in {sync.leader, sync.standby}
    /\ lock' = n /\ age' = 0
    /\ sync' = [leader |-> n, standby |-> Nobody]
    /\ Becomes(n, "primary")
    /\ UNCHANGED <<cut, router, wal, answered, faults>>

\* synchronous_node_count: 1, synchronous_mode_strict: false: the leader
\* names a replica that has everything, or nobody if the one it had is gone.
NameStandby(n) ==
    /\ Leads(n) /\ InTouch(n)
    /\ sync.standby \notin {m \in Nodes : Alive(m)}
    /\ \/ \E m \in Nodes \ {n} :
            /\ pg[m] = "replica" /\ wal[m] = wal[n]
            /\ sync' = [leader |-> n, standby |-> m]
       \/ sync.standby # Nobody /\ sync' = [leader |-> n, standby |-> Nobody]
    /\ UNCHANGED <<lock, age, pg, cut, router, wal, answered, faults>>

\* Streaming, or a rewind.
Follow(n) ==
    \E m \in Nodes :
        /\ Leads(m)
        /\ pg[n] = "replica" /\ wal[n] # wal[m]
        /\ wal' = [wal EXCEPT ![n] = wal[m]]
        /\ UNCHANGED <<dcs, pg, cut, router, answered, faults>>

-----------------------------------------------------------------------------
(* Visits *)

\* A statement that the primary commits and, if it has one, its standby.
Visit(n) ==
    LET behind == IF sync.standby = Nobody THEN {} ELSE {sync.standby}
    IN  /\ n \in listed /\ pg[n] = "primary"
        /\ wal[n] < MaxVisits
        /\ sync.leader = n
        /\ \A m \in behind : pg[m] = "replica" /\ wal[m] = wal[n]
        /\ wal' = [m \in Nodes |-> IF m \in behind \cup {n} THEN wal[n] + 1
                                                           ELSE wal[m]]
        /\ answered' = wal[n] + 1
        /\ UNCHANGED <<dcs, pg, cut, router, faults>>

-----------------------------------------------------------------------------
(* Faults *)

Fault == faults < MaxFaults /\ faults' = faults + 1

\* Postgres and Patroni die, or the drill kills them (kill-primary.sh).
Crash(n) ==
    /\ Fault /\ Alive(n)
    /\ Becomes(n, "down")
    /\ UNCHANGED <<dcs, cut, router, wal, answered>>

\* restart: always, or by hand what the drill has killed.
Restart(n) ==
    /\ ~Alive(n)
    /\ Becomes(n, "replica")
    /\ UNCHANGED <<dcs, cut, router, wal, answered, faults>>

\* partition-node.sh drops what reaches the etcd of n; the model cuts n off
\* from all of etcd, which is a harder fault.  And iptables -F.
Partition(n) ==
    /\ \/ Fault /\ n \notin cut /\ cut' = cut \cup {n}
       \/ n \in cut /\ cut' = cut \ {n} /\ UNCHANGED faults
    /\ UNCHANGED <<dcs, pg, router, wal, answered>>

Patroni(n) ==
    Renew(n) \/ Demote(n) \/ Acquire(n) \/ NameStandby(n) \/ Follow(n)

Next ==
    \/ Tick
    \/ \E n \in Nodes : \/ Patroni(n) \/ Visit(n)
                        \/ Crash(n) \/ Restart(n) \/ Partition(n)

Spec == Init /\ [][Next]_vars
FairSpec == Spec /\ WF_vars(Tick) /\ \A n \in Nodes : WF_vars(Patroni(n))

-----------------------------------------------------------------------------
TypeOK ==
    /\ lock \in Nodes \cup {Nobody}
    /\ age \in 0..(Ttl - 1)
    /\ sync \in [leader: Nodes, standby: Nodes \cup {Nobody}]
    /\ pg \in [Nodes -> {"primary", "replica", "down"}]
    /\ cut \subseteq Nodes
    /\ listed \subseteq Nodes
    /\ streak \in [Nodes -> Nat]
    /\ \A n \in Nodes : streak[n] < Limit(n)
    /\ wal \in [Nodes -> 0..MaxVisits]
    /\ answered \in 0..MaxVisits
    /\ faults \in 0..MaxFaults

\* Whatever crashes and whoever is cut off from etcd, two servers never take
\* visits at the same time: a leader that cannot renew its lock has given up
\* before the lock can pass to another (patroni.yml.template:14-16).
OnePrimary ==
    \A m, n \in Nodes : pg[m] = "primary" /\ pg[n] = "primary" => m = n

\* A number that a visitor has read is in the database of every later leader,
\* also while there is no synchronous standby (patroni.yml.template:18-20).
NoNumberIsLost == \A n \in Nodes : pg[n] = "primary" => wal[n] >= answered

\* Why: a primary holds the lock, which is not dropped while there is one, and
\* the nodes of the sync key have every number that was read.
PrimaryHoldsLock ==
    \A n \in Nodes : pg[n] = "primary" => lock = n /\ sync.leader = n
SyncedHaveAll ==
    \A n \in Nodes : n \in {sync.leader, sync.standby} => wal[n] >= answered

IInv ==
    /\ TypeOK
    /\ PrimaryHoldsLock
    /\ SyncedHaveAll

\* Once faults end, HAProxy uses the leader and no other server.
RouterFindsLeader ==
    <>[](cut = {} /\ \A n \in Nodes : Alive(n)) =>
        <>[](lock # Nobody /\ listed = {lock})
=============================================================================
