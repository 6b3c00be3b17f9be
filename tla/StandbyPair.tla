---------------------------- MODULE StandbyPair -----------------------------
(***************************************************************************)
(* The legacy stack of docker-compose.yml on two nodes: a primary, and a   *)
(* standby that replica-entrypoint.sh seeds with pg_basebackup.  The app   *)
(* of each node reaches Postgres through the HAProxy of its node, which    *)
(* prefers the primary host and has the other one as a backup.  When the   *)
(* primary's host is lost, somebody promotes the standby and follows the   *)
(* steps that promote-postgres-standby.sh prints.                          *)
(*                                                                         *)
(* External: docker restarts a container whose process ended and, after a  *)
(* reboot, all of them; docker-entrypoint.sh makes a new cluster in an     *)
(* empty directory and Postgres refuses an incomplete one; pg_basebackup   *)
(* removes what it copied when it fails but not when it is killed; a       *)
(* standby refuses writes and follows its primary.                         *)
(***************************************************************************)
EXTENDS Naturals, Sequences, SequencesExt

CONSTANTS Hosts,       \* the two nodes
          First,       \* the node that is deployed as the primary
          MaxCount,    \* bound: visits that are counted
          MaxFailures  \* bound: killed containers and lost hosts

ASSUME PairAssumption ==
    /\ First \in Hosts
    /\ \E n \in Hosts : Hosts = {First, n} /\ n # First
    /\ {"promoted", "rebuilt"} \cap Hosts = {}
    /\ MaxCount \in Nat
    /\ MaxFailures \in Nat

Other(n) == CHOOSE m \in Hosts : m # n
Second == Other(First)

VARIABLES role,      \* role[n]: DB_ROLE of the last deploy of n
          pc,        \* pc[n]: what the Postgres container of n does
          data,      \* data[n]: what its volume holds
          log,       \* log[n]: the visits counted in it
          onBackup,  \* nodes whose HAProxy uses the backup
          runbook,   \* the steps that were taken
          visits, failures

node == <<pc, data, log>>
pairVars == <<role, node, onBackup, runbook, visits, failures>>

\* begun: files, but no PG_VERSION; partial: PG_VERSION, but not all files.
Incomplete == {"begun", "partial"}
HasVersion(n) == data[n] \in {"partial", "standby", "primary"}

PairInit ==
    /\ role = [n \in Hosts |-> IF n = First THEN "primary" ELSE "standby"]
    /\ pc = [n \in Hosts |-> "starting"]
    /\ data = [n \in Hosts |-> "empty"]
    /\ log = [n \in Hosts |-> <<>>]
    /\ onBackup = {}
    /\ runbook = {}
    /\ visits = 0
    /\ failures = 0

Goes(n, state) == pc' = [pc EXCEPT ![n] = state]
Holds(n, kind) == data' = [data EXCEPT ![n] = kind]

-----------------------------------------------------------------------------
(* replica-entrypoint.sh *)

\* An entrypoint that asks for the directory and not for PG_VERSION.
HastyEnter(n) ==
    /\ pc[n] = "starting"
    /\ IF role[n] = "standby" /\ data[n] = "empty"
         THEN Goes(n, "seeding")
         ELSE Goes(n, "exec")
    /\ UNCHANGED <<role, data, log, onBackup, runbook, visits, failures>>

\* An entrypoint that seeds no standby.
RoleBlindEnter(n) ==
    /\ pc[n] = "starting"
    /\ Goes(n, "exec")
    /\ UNCHANGED <<role, data, log, onBackup, runbook, visits, failures>>

\* An entrypoint that copies anew whenever a standby starts.
ReseedingEnter(n) ==
    /\ pc[n] = "starting"
    /\ IF role[n] = "standby"
         THEN Goes(n, "seeding") /\ Holds(n, "empty")
         ELSE Goes(n, "exec") /\ UNCHANGED data
    /\ UNCHANGED <<role, log, onBackup, runbook, visits, failures>>

Enter(n) ==
    /\ pc[n] = "starting"
    /\ IF role[n] = "standby" /\ ~HasVersion(n)
         THEN Goes(n, "seeding") /\ Holds(n, "empty")
         ELSE Goes(n, "exec") /\ UNCHANGED data
    /\ UNCHANGED <<role, log, onBackup, runbook, visits, failures>>

\* pg_basebackup while the other node answers.  It writes standby.signal
\* before it ends, and the entrypoint touches it once more.
Copy(n) ==
    /\ pc[n] = "seeding"
    /\ pc[Other(n)] = "running"
    /\ \/ /\ data[n] = "empty" /\ Holds(n, "begun")
          /\ UNCHANGED <<pc, log>>
       \/ /\ data[n] = "begun" /\ Holds(n, "partial")
          /\ UNCHANGED <<pc, log>>
       \/ /\ data[n] = "partial" /\ Holds(n, "standby")
          /\ log' = [log EXCEPT ![n] = log[Other(n)]]
          /\ Goes(n, "exec")
    /\ UNCHANGED <<role, onBackup, runbook, visits, failures>>

\* pg_basebackup fails, is waited for and tried again.
CopyFails(n) ==
    /\ pc[n] = "seeding"
    /\ pc[Other(n)] # "running"
    /\ data[n] # "empty"
    /\ Holds(n, "empty")
    /\ UNCHANGED <<role, pc, log, onBackup, runbook, visits, failures>>

\* docker-entrypoint.sh postgres
Exec(n) ==
    /\ pc[n] = "exec"
    /\ IF data[n] \in Incomplete
         THEN Goes(n, "starting") /\ UNCHANGED <<data, log>>
         ELSE /\ Goes(n, "running")
              /\ IF data[n] = "empty"
                   THEN /\ Holds(n, "primary")
                        /\ log' = [log EXCEPT ![n] = <<>>]
                   ELSE UNCHANGED <<data, log>>
    /\ UNCHANGED <<role, onBackup, runbook, visits, failures>>

\* A standby applies what its primary has written since.
Replicate(n) ==
    LET source == log[Other(n)]
    IN  /\ pc[n] = "running" /\ data[n] = "standby"
        /\ pc[Other(n)] = "running" /\ data[Other(n)] = "primary"
        /\ IsStrictPrefix(log[n], source)
        /\ log' = [log EXCEPT ![n] = SubSeq(source, 1, Len(@) + 1)]
        /\ UNCHANGED <<role, pc, data, onBackup, runbook, visits, failures>>

-----------------------------------------------------------------------------
(* HAProxy and the app *)

Preferred(n) == IF role[n] = "primary" THEN n ELSE Other(n)
Target(n) == IF n \in onBackup THEN Other(Preferred(n)) ELSE Preferred(n)

\* The checks of the preferred server fail, or succeed again; until then the
\* router is behind.
Probe(n) ==
    /\ \/ /\ n \notin onBackup /\ pc[Preferred(n)] # "running"
          /\ onBackup' = onBackup \cup {n}
       \/ /\ n \in onBackup /\ pc[Preferred(n)] = "running"
          /\ onBackup' = onBackup \ {n}
    /\ UNCHANGED <<role, node, runbook, visits, failures>>

\* A visit at node n is counted where its router sends it; a node that is
\* down or a standby refuses.
VisitAt(n) ==
    LET t == Target(n)
    IN  /\ pc[n] # "lost"
        /\ pc[t] = "running" /\ data[t] = "primary"
        /\ visits < MaxCount
        /\ visits' = visits + 1
        /\ log' = [log EXCEPT ![t] = Append(@, visits + 1)]
        /\ UNCHANGED <<role, pc, data, onBackup, runbook, failures>>

-----------------------------------------------------------------------------
(* Faults *)

Failure == failures < MaxFailures /\ failures' = failures + 1

\* Postgres or the entrypoint is killed; docker restarts the container.
Kill(n) ==
    /\ Failure
    /\ pc[n] \in {"seeding", "exec", "running"}
    /\ Goes(n, "starting")
    /\ UNCHANGED <<role, data, log, onBackup, runbook, visits>>

HostLost(n) ==
    /\ Failure
    /\ pc[n] # "lost"
    /\ Goes(n, "lost")
    /\ UNCHANGED <<role, data, log, onBackup, runbook, visits>>

HostReturns(n) ==
    /\ pc[n] = "lost"
    /\ Goes(n, "starting")
    /\ UNCHANGED <<role, data, log, onBackup, runbook, visits, failures>>

-----------------------------------------------------------------------------
(* promote-postgres-standby.sh and the steps it prints *)

\* The operator runs it on the standby when the primary's host is lost.
Promote ==
    /\ pc[First] = "lost"
    /\ pc[Second] = "running" /\ data[Second] = "standby"
    /\ Holds(Second, "primary")
    /\ runbook' = runbook \cup {"promoted"}
    /\ UNCHANGED <<role, pc, log, onBackup, visits, failures>>

Redeployable(n) ==
    /\ "promoted" \in runbook
    /\ n \notin runbook
    /\ pc[n] # "lost"

\* Steps 1 and 2: deploy-compose.sh with the hosts and the roles swapped; the
\* changed environment recreates the container.
Redeploy(n) ==
    /\ Redeployable(n)
    /\ runbook' = runbook \cup {n}
    /\ role' = [role EXCEPT ![n] = IF n = First THEN "standby" ELSE "primary"]
    /\ onBackup' = onBackup \ {n}
    /\ Goes(n, "starting")
    /\ UNCHANGED <<data, log, visits, failures>>

Rebuildable ==
    /\ Hosts \subseteq runbook
    /\ "rebuilt" \notin runbook
    /\ pc[First] # "lost"

\* A rebuild that puts standby.signal into the old volume.
SignallingRebuild ==
    /\ Rebuildable
    /\ runbook' = runbook \cup {"rebuilt"}
    /\ Holds(First, "standby")
    /\ Goes(First, "starting")
    /\ UNCHANGED <<role, log, onBackup, visits, failures>>

\* Step 3, by hand: the volume of the old primary is wiped.
Rebuild ==
    /\ Rebuildable
    /\ runbook' = runbook \cup {"rebuilt"}
    /\ Holds(First, "empty")
    /\ log' = [log EXCEPT ![First] = <<>>]
    /\ Goes(First, "starting")
    /\ UNCHANGED <<role, onBackup, visits, failures>>

Postgres(n) == Enter(n) \/ Copy(n) \/ CopyFails(n) \/ Exec(n)

PairNext ==
    \/ \E n \in Hosts : \/ Postgres(n) \/ Replicate(n) \/ Probe(n)
                        \/ VisitAt(n) \/ Redeploy(n)
                        \/ Kill(n) \/ HostLost(n) \/ HostReturns(n)
    \/ Promote \/ Rebuild

PairSpec == PairInit /\ [][PairNext]_pairVars
PairFairSpec ==
    /\ PairSpec
    /\ \A n \in Hosts : WF_pairVars(Postgres(n)) /\ WF_pairVars(Replicate(n))

-----------------------------------------------------------------------------
Numbers == 1..MaxCount
DbRoles == {"primary", "standby"}
Stages == {"starting", "seeding", "exec", "running", "lost"}
Kinds == {"empty", "standby", "primary"} \cup Incomplete

PairTypeOK ==
    /\ role \in [Hosts -> DbRoles]
    /\ pc \in [Hosts -> Stages]
    /\ data \in [Hosts -> Kinds]
    /\ log \in [Hosts -> Seq(Numbers)]
    /\ onBackup \subseteq Hosts
    /\ runbook \subseteq Hosts \cup {"promoted", "rebuilt"}
    /\ visits \in 0..MaxCount
    /\ failures \in 0..MaxFailures

Writers == {n \in Hosts : data[n] = "primary"}
Promoted == "promoted" \in runbook
Rebuilt == "rebuilt" \in runbook

\* However often a seed is interrupted, a standby never becomes a database of
\* its own, neither before the promotion nor once the old primary is rebuilt
\* (replica-entrypoint.sh:8).
OneWriter ==
    /\ ~Promoted => Writers \subseteq {First}
    /\ Rebuilt => Writers \subseteq {Second}

\* What a standby has is a prefix of what its primary has, so a promotion
\* loses the last visits at most and mixes none.
CopiesArePrefixes ==
    /\ ~Promoted /\ data[Second] = "standby" =>
         IsPrefix(log[Second], log[First])
    /\ Rebuilt /\ data[First] = "standby" =>
         IsPrefix(log[First], log[Second])

\* The entrypoint empties volumes (replica-entrypoint.sh:9), and so does a
\* pg_basebackup that fails, but none that has a cluster: what was counted in
\* it stays there, in its order, until the volume of the old primary is wiped.
HasCluster(n) == data[n] \in {"standby", "primary"}
ClusterStays(n) ==
    HasCluster(n) => \/ HasCluster(n)' /\ IsPrefix(log[n], log'[n])
                     \/ n = First /\ ~Rebuilt /\ Rebuilt'
NoClusterIsWiped == [][\A n \in Hosts : ClusterStays(n)]_pairVars

-----------------------------------------------------------------------------
(* Why OneWriter and CopiesArePrefixes hold. *)

FirstRole(n) == IF n = First THEN "primary" ELSE "standby"
LaterRole(n) == IF n = First THEN "standby" ELSE "primary"

\* A node with the role of a standby starts Postgres on a volume that has a
\* PG_VERSION, so it never makes a cluster of its own.
StagesMatchData ==
    \A n \in Hosts :
        /\ pc[n] = "seeding" =>
             role[n] = "standby" /\ data[n] \in {"empty"} \cup Incomplete
        /\ pc[n] = "exec" /\ role[n] = "standby" => HasVersion(n)
        /\ pc[n] = "running" => data[n] \in {"standby", "primary"}

\* The roles are swapped after the promotion, and the volume of the old
\* primary is wiped when both are.
RunbookInOrder ==
    /\ \A n \in Hosts : role[n] = IF n \in runbook THEN LaterRole(n)
                                                   ELSE FirstRole(n)
    /\ \A n \in Hosts \cap runbook : Promoted
    /\ Rebuilt => Hosts \subseteq runbook

\* Who may write, in each part of the runbook.
WritersInTurn ==
    /\ ~Promoted => /\ data[First] \in {"empty", "primary"}
                    /\ data[Second] # "primary"
                    /\ data[Second] = "standby" => data[First] = "primary"
    /\ Promoted => data[Second] = "primary"
    /\ Rebuilt => data[First] # "primary"

PairIInv ==
    /\ PairTypeOK
    /\ StagesMatchData
    /\ RunbookInOrder
    /\ WritersInTurn
    /\ CopiesArePrefixes

-----------------------------------------------------------------------------
\* A standby whose primary stays up serves in the end, unless its seed was
\* killed after PG_VERSION was copied: the entrypoint then skips the seed
\* (replica-entrypoint.sh:8), and Postgres refuses what is there.
StandbySeeds ==
    <>[](~Promoted /\ pc[First] = "running" /\ pc[Second] # "lost") =>
        \/ <>[](pc[Second] = "running" /\ log[Second] = log[First])
        \/ <>[](data[Second] = "partial")
=============================================================================
