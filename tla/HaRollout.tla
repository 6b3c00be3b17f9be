----------------------------- MODULE HaRollout ------------------------------
(***************************************************************************)
(* The Deploy workflow and what it does to the servers: a push to main     *)
(* cancels the running job and starts one that runs deploy-ha-compose.sh   *)
(* on one server after the other.  The script finds out whether etcd was   *)
(* bootstrapped there and calls docker compose up, which waits for a       *)
(* healthy etcd before it starts Patroni.  Any failure ends the job.  The  *)
(* script of a cancelled job goes on, or dies when it writes to its peer.  *)
(*                                                                         *)
(* External: compose recreates a container whose environment changed and   *)
(* fails when a dependency stays unhealthy; an etcd is healthy while it    *)
(* and a majority run; with data it ignores the initial cluster state.     *)
(*                                                                         *)
(* Simplifications: the loop goes through the servers in the order 1..N    *)
(* (bash fixes some order of the names); a script left behind ends before  *)
(* the next job has verified and built its image; no volume is lost; an    *)
(* ssh connection does not break while its script goes on, which would be  *)
(* a failed job with a script left behind, as one that a push cancels.     *)
(***************************************************************************)
EXTENDS Naturals, FiniteSets

CONSTANTS N,            \* the number of servers
          Established,  \* the servers have formed an etcd cluster before
          MaxVersion,   \* bound: versions of main
          MaxStumbles,  \* bound: failed builds, copies and pulls, slow etcds
          MaxFaults     \* bound: crashes of etcd, probes that cannot run

ASSUME ConstantsAssumption ==
    /\ N \in Nat \ {0}
    /\ Established \in BOOLEAN
    /\ MaxVersion \in Nat \ {0}
    /\ MaxStumbles \in Nat
    /\ MaxFaults \in Nat

Servers == 1..N
Versions == 1..MaxVersion

VARIABLES pushed,    \* the latest version of main
          job,       \* the latest job of the workflow
          script,    \* the latest deploy-ha-compose.sh, on server script.at
          flag,      \* flag[s]: cluster state given to the etcd of s, or "none"
          running,   \* servers whose etcd runs
          data,      \* servers whose etcd volume holds member/snap/db
          app,       \* app[s]: the version the app of s runs, 0 for none
          stumbles, faults

etcd == <<flag, running, data>>
bounds == <<stumbles, faults>>
vars == <<pushed, job, script, etcd, app, bounds>>

Healthy(s) == s \in running /\ 2 * Cardinality(running) > N

NewJob(version) ==
    [status |-> "running", version |-> version, at |-> 1, stage |-> "build"]

Init ==
    /\ pushed = 1
    /\ job = NewJob(1)
    /\ script = [stage |-> "failed", at |-> 1, version |-> 1, want |-> "new"]
    /\ flag = [s \in Servers |-> IF Established THEN "new" ELSE "none"]
    /\ running = IF Established THEN Servers ELSE {}
    /\ data = running
    /\ app = [s \in Servers |-> 0]
    /\ stumbles = 0
    /\ faults = 0

-----------------------------------------------------------------------------
(* The workflow. *)

\* concurrency: deploy-main, cancel-in-progress: true
Push ==
    /\ pushed < MaxVersion
    /\ pushed' = pushed + 1
    /\ job' = NewJob(pushed + 1)
    /\ UNCHANGED <<script, etcd, app, bounds>>

\* Somebody starts the workflow again.
Dispatch ==
    /\ job.status # "running"
    /\ job' = NewJob(pushed)
    /\ UNCHANGED <<pushed, script, etcd, app, bounds>>

JobAt(stage) == job.status = "running" /\ job.stage = stage
ScriptActive == script.stage \in {"detect", "up", "wait"}

\* verify, build and push the image
Build ==
    /\ JobAt("build")
    /\ ~ScriptActive
    /\ job' = [job EXCEPT !.stage = "copy"]
    /\ UNCHANGED <<pushed, script, etcd, app, bounds>>

\* scp, then the script is started over ssh
Copy ==
    /\ JobAt("copy")
    /\ job' = [job EXCEPT !.stage = "script"]
    /\ script' = [script EXCEPT !.stage = "detect", !.at = job.at,
                                !.version = job.version]
    /\ UNCHANGED <<pushed, etcd, app, bounds>>

\* A build, an ssh or an scp fails; the step runs under bash -e.
Stumble ==
    /\ JobAt("build") \/ JobAt("copy")
    /\ stumbles < MaxStumbles
    /\ stumbles' = stumbles + 1
    /\ job' = [job EXCEPT !.status = "failed"]
    /\ UNCHANGED <<pushed, script, etcd, app, faults>>

\* The address of the last server is empty, and the loop skips it.
SkipLast(s) == IF s + 1 >= N THEN [job EXCEPT !.status = "succeeded"]
                             ELSE [job EXCEPT !.at = s + 1, !.stage = "copy"]

\* The loop over the servers goes on.
NextServer(s) == IF s = N THEN [job EXCEPT !.status = "succeeded"]
                          ELSE [job EXCEPT !.at = s + 1, !.stage = "copy"]

\* A loop that goes on to the next server after an error.
SoftAdvance ==
    /\ JobAt("script")
    /\ script.stage \in {"done", "failed"}
    /\ job' = NextServer(job.at)
    /\ UNCHANGED <<pushed, script, etcd, app, bounds>>

\* The job reads the exit status of its script.
Advance ==
    /\ JobAt("script")
    /\ \/ script.stage = "done" /\ job' = NextServer(job.at)
       \/ script.stage = "failed" /\ job' = [job EXCEPT !.status = "failed"]
    /\ UNCHANGED <<pushed, script, etcd, app, bounds>>

-----------------------------------------------------------------------------
(* deploy-ha-compose.sh *)

ScriptAt(stage) == script.stage = stage
ScriptGoes(stage) == script' = [script EXCEPT !.stage = stage]

\* The probe looks into the volume.  One that cannot run (alpine cannot be
\* pulled, say) counts as a volume without etcd.
Prepare ==
    /\ ScriptAt("detect")
    /\ \/ /\ script' = [script EXCEPT
                           !.stage = "up",
                           !.want = IF script.at \in data THEN "existing"
                                                          ELSE "new"]
          /\ UNCHANGED faults
       \/ /\ faults < MaxFaults
          /\ faults' = faults + 1
          /\ script' = [script EXCEPT !.stage = "up", !.want = "new"]
    /\ UNCHANGED <<pushed, job, etcd, app, stumbles>>

\* Rendering, pulling or building fails under set -e.
PrepareFails ==
    /\ ScriptAt("detect")
    /\ stumbles < MaxStumbles
    /\ stumbles' = stumbles + 1
    /\ ScriptGoes("failed")
    /\ UNCHANGED <<pushed, job, etcd, app, faults>>

\* docker compose up: an etcd whose environment changed is recreated.  The
\* app waits for the pooler only and may be replaced before etcd is healthy.
Up ==
    LET s == script.at
    IN  /\ ScriptAt("up")
        /\ ScriptGoes("wait")
        /\ flag' = [flag EXCEPT ![s] = script.want]
        /\ running' = IF flag[s] = script.want THEN running ELSE running \ {s}
        /\ app' \in {app, [app EXCEPT ![s] = script.version]}
        /\ UNCHANGED <<pushed, job, data, bounds>>

\* A compose file with service_started for service_healthy.
StartedGate ==
    /\ ScriptAt("wait")
    /\ ScriptGoes("done")
    /\ app' = [app EXCEPT ![script.at] = script.version]
    /\ UNCHANGED <<pushed, job, etcd, bounds>>

\* etcd is healthy: Patroni starts, and compose is done.
Gate ==
    /\ ScriptAt("wait")
    /\ Healthy(script.at)
    /\ ScriptGoes("done")
    /\ app' = [app EXCEPT ![script.at] = script.version]
    /\ UNCHANGED <<pushed, job, etcd, bounds>>

\* An etcd container exists and docker keeps restarting it.
CanStart(s) ==
    /\ s \notin running
    /\ flag[s] = "new" \/ (flag[s] = "existing" /\ s \in data)

\* The health check gives up: no etcd to wait for, or one that is slow.
GateFails ==
    /\ ScriptAt("wait")
    /\ ~Healthy(script.at)
    /\ \/ (\A t \in Servers : ~CanStart(t)) /\ UNCHANGED stumbles
       \/ stumbles < MaxStumbles /\ stumbles' = stumbles + 1
    /\ ScriptGoes("failed")
    /\ UNCHANGED <<pushed, job, etcd, app, faults>>

\* The job was cancelled and the script dies with its connection.
ScriptDies ==
    /\ ScriptActive
    /\ job.stage = "build"
    /\ ScriptGoes("failed")
    /\ UNCHANGED <<pushed, job, etcd, app, bounds>>

-----------------------------------------------------------------------------
(* The servers. *)

\* restart: always.  An etcd writes its data before a cluster is formed.
EtcdStart(s) ==
    /\ CanStart(s)
    /\ running' = running \cup {s}
    /\ data' = data \cup {s}
    /\ UNCHANGED <<pushed, job, script, flag, app, bounds>>

EtcdCrash(s) ==
    /\ s \in running
    /\ faults < MaxFaults
    /\ faults' = faults + 1
    /\ running' = running \ {s}
    /\ UNCHANGED <<pushed, job, script, flag, data, app, stumbles>>

Job == Build \/ Copy \/ Advance
Script == Prepare \/ Up \/ Gate \/ GateFails

Next ==
    \/ Push \/ Dispatch \/ Stumble \/ Job
    \/ PrepareFails \/ ScriptDies \/ Script
    \/ \E s \in Servers : EtcdStart(s) \/ EtcdCrash(s)

Spec == Init /\ [][Next]_vars

\* Jobs and scripts run, a failed job is started again, docker restarts etcd.
FairSpec ==
    /\ Spec
    /\ WF_vars(Job) /\ WF_vars(Script)
    /\ WF_vars(job.status = "failed" /\ Dispatch)
    /\ \A s \in Servers : WF_vars(EtcdStart(s))

-----------------------------------------------------------------------------
TypeOK ==
    /\ pushed \in Versions
    /\ job \in [status: {"running", "failed", "succeeded"},
                version: Versions,
                at: Servers,
                stage: {"build", "copy", "script"}]
    /\ script \in [stage: {"detect", "up", "wait", "done", "failed"},
                   at: Servers,
                   version: Versions,
                   want: {"new", "existing"}]
    /\ flag \in [Servers -> {"none", "new", "existing"}]
    /\ data \subseteq Servers
    /\ running \subseteq data
    /\ app \in [Servers -> Versions \cup {0}]
    /\ stumbles \in 0..MaxStumbles
    /\ faults \in 0..MaxFaults

\* Rollouts never cost a formed cluster its majority, although the second one
\* changes the environment of every etcd and so restarts it
\* (docker-compose.ha.yml:32): whichever jobs are cancelled, fail or are given
\* up, one etcd is down at most.
RolloutKeepsQuorum ==
    Established /\ faults = 0 => Cardinality(Servers \ running) <= 1

\* Failed and cancelled jobs, and the scripts they leave behind, leave at most
\* a boundary: no server runs a later version than one before it in the loop.
VersionsFollowTheLoop == \A s, t \in Servers : s < t => app[t] <= app[s]

\* A job succeeds only if all servers run its version.
SuccessMeansDeployed ==
    job.status = "succeeded" => \A s \in Servers : app[s] = job.version

\* Why: only the script of the job in its script stage, or the one left behind
\* by a cancelled job that is still building, is active; versions only grow;
\* and the servers before the one in turn run the version in turn.
ScriptOfJob ==
    /\ JobAt("build") => job.at = 1
    /\ JobAt("copy") \/ job.status = "succeeded" => ~ScriptActive
    /\ JobAt("script") => /\ script.at = job.at
                          /\ script.version = job.version

VersionsGrow ==
    /\ script.version <= job.version /\ job.version <= pushed
    /\ \A s \in Servers : app[s] <= script.version

InTurn ==
    /\ JobAt("copy") \/ JobAt("script") =>
         \A t \in Servers : t < job.at => app[t] = job.version
    /\ ScriptActive \/ ScriptAt("done") =>
         \A t \in Servers : t < script.at => app[t] = script.version
    /\ ScriptAt("done") => app[script.at] = script.version

\* An etcd is down only while it is the last one whose environment was changed,
\* and the loop does not pass a server whose etcd is down.
OneRestartAtATime ==
    /\ data = Servers
    /\ \A s \in Servers : flag[s] # "none"
    /\ ScriptAt("up") => script.want = "existing"
    /\ \A s, t \in Servers :
         s < t /\ flag[t] = "existing" => flag[s] = "existing" /\ s \in running
    /\ \A s \in Servers : flag[s] = "new" => s \in running
    /\ JobAt("copy") \/ JobAt("script") =>
         \A t \in Servers :
             t < job.at => flag[t] = "existing" /\ t \in running
    /\ ScriptActive \/ ScriptAt("done") =>
         \A t \in Servers :
             t < script.at => flag[t] = "existing" /\ t \in running
    /\ ScriptAt("wait") \/ ScriptAt("done") => flag[script.at] = "existing"
    /\ ScriptAt("done") => script.at \in running

IInv ==
    /\ TypeOK
    /\ ScriptOfJob
    /\ VersionsGrow
    /\ InTurn
    /\ VersionsFollowTheLoop
    /\ SuccessMeansDeployed
    /\ Established /\ faults = 0 => OneRestartAtATime

\* In a formed cluster every push ends up on all servers, with a healthy etcd
\* on each, whatever jobs and containers fail on the way.
RolloutConverges == <>[](\A s \in Servers : app[s] = pushed /\ Healthy(s))

\* README.md:155: the Deploy workflow "deploys docker-compose.ha.yml to all 3
\* servers"; compared with the first rollout ever.
FirstRolloutReachesAllServers == <>(\A s \in Servers : app[s] # 0)
=============================================================================
