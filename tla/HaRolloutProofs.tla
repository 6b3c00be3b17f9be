--------------------------- MODULE HaRolloutProofs ---------------------------
(***************************************************************************)
(* The safety of the rollout for any number of servers, versions, failed   *)
(* steps and faults, by the invariant IInv of HaRollout: one lemma per     *)
(* action, and one step per part of the invariant it can disturb.          *)
(***************************************************************************)
EXTENDS HaRollout, FiniteSetTheorems, TLAPS

USE ConstantsAssumption

JobStages == {"build", "copy", "script"}
ScriptStages == {"detect", "up", "wait", "done", "failed"}
Jobs == [status: {"running", "failed", "succeeded"}, version: Versions,
         at: Servers, stage: JobStages]
Scripts == [stage: ScriptStages, at: Servers, version: Versions,
            want: {"new", "existing"}]
Flags == {"none", "new", "existing"}

\* The types, with the sets of records named.
LEMMA TypeParts ==
    TypeOK <=> /\ pushed \in Versions
               /\ job \in Jobs
               /\ script \in Scripts
               /\ flag \in [Servers -> Flags]
               /\ data \subseteq Servers
               /\ running \subseteq data
               /\ app \in [Servers -> Versions \cup {0}]
               /\ stumbles \in 0..MaxStumbles
               /\ faults \in 0..MaxFaults
BY DEF TypeOK, Jobs, Scripts, Flags, JobStages, ScriptStages

LEMMA NextTypeParts ==
    TypeOK' <=> /\ pushed' \in Versions
                /\ job' \in Jobs
                /\ script' \in Scripts
                /\ flag' \in [Servers -> Flags]
                /\ data' \subseteq Servers
                /\ running' \subseteq data'
                /\ app' \in [Servers -> Versions \cup {0}]
                /\ stumbles' \in 0..MaxStumbles
                /\ faults' \in 0..MaxFaults
BY DEF TypeOK, Jobs, Scripts, Flags, JobStages, ScriptStages

LEMMA ServersFacts ==
    /\ 1 \in Servers /\ N \in Servers
    /\ \A s \in Servers : s \in Nat /\ s >= 1 /\ s <= N
    /\ \A s \in Servers : s # N => s + 1 \in Servers
BY DEF Servers

LEMMA VersionsFacts ==
    /\ 1 \in Versions
    /\ \A v \in Versions : v \in Nat /\ v >= 1 /\ v <= MaxVersion
    /\ \A v \in Versions : v < MaxVersion => v + 1 \in Versions
BY DEF Versions

LEMMA InitIInv == Init => IInv
<1> SUFFICES ASSUME Init PROVE IInv
  OBVIOUS
<1> USE ServersFacts, VersionsFacts
<1>1. TypeOK
  <2>1. job \in Jobs /\ script \in Scripts
    BY DEF Init, NewJob, Jobs, Scripts, JobStages, ScriptStages
  <2>2. flag \in [Servers -> Flags] /\ running \subseteq Servers
    BY DEF Init, Flags
  <2> QED
    BY <2>1, <2>2, TypeParts DEF Init
<1>2. ScriptOfJob /\ VersionsGrow /\ InTurn
  BY DEF Init, NewJob, ScriptOfJob, VersionsGrow, InTurn, JobAt, ScriptAt,
         ScriptActive
<1>3. VersionsFollowTheLoop /\ SuccessMeansDeployed
  BY DEF Init, NewJob, VersionsFollowTheLoop, SuccessMeansDeployed
<1>4. Established => OneRestartAtATime
  BY DEF Init, NewJob, OneRestartAtATime, JobAt, ScriptAt, ScriptActive
<1> QED
  BY <1>1, <1>2, <1>3, <1>4 DEF IInv

-----------------------------------------------------------------------------
(* The workflow *)

LEMMA PushPreserves ==
    ASSUME IInv, Push
    PROVE  IInv'
<1> USE ServersFacts, VersionsFacts, TypeParts
<1>1. TypeOK'
  <2>1. pushed' \in Versions
    BY DEF Push, IInv, NewJob, etcd, bounds
  <2>2. job' \in Jobs
    BY DEF Push, IInv, Jobs, JobStages, NewJob, etcd, bounds
  <2>3. script' \in Scripts
    BY DEF Push, IInv, Scripts, ScriptStages, Jobs, NewJob, etcd, bounds
  <2>4. flag' \in [Servers -> Flags] /\ data' \subseteq Servers
        /\ running' \subseteq data'
    BY DEF Push, IInv, Flags, Scripts, NewJob, etcd, bounds
  <2>5. app' \in [Servers -> Versions \cup {0}]
    BY DEF Push, IInv, Scripts, NewJob, etcd, bounds
  <2>6. stumbles' \in 0..MaxStumbles /\ faults' \in 0..MaxFaults
    BY DEF Push, IInv, NewJob, etcd, bounds
  <2> QED
    BY <2>1, <2>2, <2>3, <2>4, <2>5, <2>6, NextTypeParts
<1>2. ScriptOfJob' /\ VersionsGrow'
  BY DEF Push, IInv, ScriptOfJob, VersionsGrow, JobAt, ScriptAt, ScriptActive,
         Jobs, Scripts, NewJob, etcd, bounds
<1>3. InTurn'
  BY DEF Push, IInv, ScriptOfJob, InTurn, VersionsGrow, JobAt, ScriptAt,
         ScriptActive, Jobs, Scripts, NewJob, etcd, bounds
<1>4. VersionsFollowTheLoop' /\ SuccessMeansDeployed'
  BY DEF Push, IInv, ScriptOfJob, VersionsGrow, InTurn, VersionsFollowTheLoop,
         SuccessMeansDeployed, JobAt, ScriptAt, ScriptActive, Jobs, Scripts, NewJob, etcd, bounds
<1>5. Established /\ faults' = 0 => OneRestartAtATime'
  BY DEF Push, IInv, ScriptOfJob, OneRestartAtATime, JobAt, ScriptAt, ScriptActive,
         Jobs, Scripts, NewJob, etcd, bounds
<1> QED
  BY <1>1, <1>2, <1>3, <1>4, <1>5 DEF IInv

LEMMA DispatchPreserves ==
    ASSUME IInv, Dispatch
    PROVE  IInv'
<1> USE ServersFacts, VersionsFacts, TypeParts
<1>1. TypeOK'
  <2>1. pushed' \in Versions
    BY DEF Dispatch, IInv, NewJob, etcd, bounds
  <2>2. job' \in Jobs
    BY DEF Dispatch, IInv, Jobs, JobStages, NewJob, etcd, bounds
  <2>3. script' \in Scripts
    BY DEF Dispatch, IInv, Scripts, ScriptStages, Jobs, NewJob, etcd, bounds
  <2>4. flag' \in [Servers -> Flags] /\ data' \subseteq Servers
        /\ running' \subseteq data'
    BY DEF Dispatch, IInv, Flags, Scripts, NewJob, etcd, bounds
  <2>5. app' \in [Servers -> Versions \cup {0}]
    BY DEF Dispatch, IInv, Scripts, NewJob, etcd, bounds
  <2>6. stumbles' \in 0..MaxStumbles /\ faults' \in 0..MaxFaults
    BY DEF Dispatch, IInv, NewJob, etcd, bounds
  <2> QED
    BY <2>1, <2>2, <2>3, <2>4, <2>5, <2>6, NextTypeParts
<1>2. ScriptOfJob' /\ VersionsGrow'
  BY DEF Dispatch, IInv, ScriptOfJob, VersionsGrow, JobAt, ScriptAt, ScriptActive,
         Jobs, Scripts, NewJob, etcd, bounds
<1>3. InTurn'
  BY DEF Dispatch, IInv, ScriptOfJob, InTurn, VersionsGrow, JobAt, ScriptAt,
         ScriptActive, Jobs, Scripts, NewJob, etcd, bounds
<1>4. VersionsFollowTheLoop' /\ SuccessMeansDeployed'
  BY DEF Dispatch, IInv, ScriptOfJob, VersionsGrow, InTurn, VersionsFollowTheLoop,
         SuccessMeansDeployed, JobAt, ScriptAt, ScriptActive, Jobs, Scripts, NewJob, etcd, bounds
<1>5. Established /\ faults' = 0 => OneRestartAtATime'
  BY DEF Dispatch, IInv, ScriptOfJob, OneRestartAtATime, JobAt, ScriptAt, ScriptActive,
         Jobs, Scripts, NewJob, etcd, bounds
<1> QED
  BY <1>1, <1>2, <1>3, <1>4, <1>5 DEF IInv

LEMMA BuildPreserves ==
    ASSUME IInv, Build
    PROVE  IInv'
<1> USE ServersFacts, VersionsFacts, TypeParts
<1>1. TypeOK'
  <2>1. pushed' \in Versions
    BY DEF Build, IInv, etcd, bounds
  <2>2. job' \in Jobs
    BY DEF Build, IInv, Jobs, JobStages, etcd, bounds
  <2>3. script' \in Scripts
    BY DEF Build, IInv, Scripts, ScriptStages, Jobs, etcd, bounds
  <2>4. flag' \in [Servers -> Flags] /\ data' \subseteq Servers
        /\ running' \subseteq data'
    BY DEF Build, IInv, Flags, Scripts, etcd, bounds
  <2>5. app' \in [Servers -> Versions \cup {0}]
    BY DEF Build, IInv, Scripts, etcd, bounds
  <2>6. stumbles' \in 0..MaxStumbles /\ faults' \in 0..MaxFaults
    BY DEF Build, IInv, etcd, bounds
  <2> QED
    BY <2>1, <2>2, <2>3, <2>4, <2>5, <2>6, NextTypeParts
<1>2. ScriptOfJob' /\ VersionsGrow'
  BY DEF Build, IInv, ScriptOfJob, VersionsGrow, JobAt, ScriptAt, ScriptActive,
         Jobs, Scripts, etcd, bounds
<1>3. InTurn'
  BY DEF Build, IInv, ScriptOfJob, InTurn, VersionsGrow, JobAt, ScriptAt,
         ScriptActive, Jobs, Scripts, etcd, bounds
<1>4. VersionsFollowTheLoop' /\ SuccessMeansDeployed'
  BY DEF Build, IInv, ScriptOfJob, VersionsGrow, InTurn, VersionsFollowTheLoop,
         SuccessMeansDeployed, JobAt, ScriptAt, ScriptActive, Jobs, Scripts, etcd, bounds
<1>5. Established /\ faults' = 0 => OneRestartAtATime'
  BY DEF Build, IInv, ScriptOfJob, OneRestartAtATime, JobAt, ScriptAt, ScriptActive,
         Jobs, Scripts, etcd, bounds
<1> QED
  BY <1>1, <1>2, <1>3, <1>4, <1>5 DEF IInv

LEMMA CopyPreserves ==
    ASSUME IInv, Copy
    PROVE  IInv'
<1> USE ServersFacts, VersionsFacts, TypeParts
<1>1. TypeOK'
  <2>1. pushed' \in Versions
    BY DEF Copy, IInv, etcd, bounds
  <2>2. job' \in Jobs
    BY DEF Copy, IInv, Jobs, JobStages, etcd, bounds
  <2>3. script' \in Scripts
    BY DEF Copy, IInv, Scripts, ScriptStages, Jobs, etcd, bounds
  <2>4. flag' \in [Servers -> Flags] /\ data' \subseteq Servers
        /\ running' \subseteq data'
    BY DEF Copy, IInv, Flags, Scripts, etcd, bounds
  <2>5. app' \in [Servers -> Versions \cup {0}]
    BY DEF Copy, IInv, Scripts, etcd, bounds
  <2>6. stumbles' \in 0..MaxStumbles /\ faults' \in 0..MaxFaults
    BY DEF Copy, IInv, etcd, bounds
  <2> QED
    BY <2>1, <2>2, <2>3, <2>4, <2>5, <2>6, NextTypeParts
<1>2. ScriptOfJob' /\ VersionsGrow'
  BY DEF Copy, IInv, ScriptOfJob, VersionsGrow, JobAt, ScriptAt, ScriptActive,
         Jobs, Scripts, etcd, bounds
<1>3. InTurn'
  BY DEF Copy, IInv, ScriptOfJob, InTurn, VersionsGrow, JobAt, ScriptAt,
         ScriptActive, Jobs, Scripts, etcd, bounds
<1>4. VersionsFollowTheLoop' /\ SuccessMeansDeployed'
  BY DEF Copy, IInv, ScriptOfJob, VersionsGrow, InTurn, VersionsFollowTheLoop,
         SuccessMeansDeployed, JobAt, ScriptAt, ScriptActive, Jobs, Scripts, etcd, bounds
<1>5. Established /\ faults' = 0 => OneRestartAtATime'
  BY DEF Copy, IInv, ScriptOfJob, OneRestartAtATime, JobAt, ScriptAt, ScriptActive,
         Jobs, Scripts, etcd, bounds
<1> QED
  BY <1>1, <1>2, <1>3, <1>4, <1>5 DEF IInv

LEMMA StumblePreserves ==
    ASSUME IInv, Stumble
    PROVE  IInv'
<1> USE ServersFacts, VersionsFacts, TypeParts
<1>1. TypeOK'
  <2>1. pushed' \in Versions
    BY DEF Stumble, IInv, etcd
  <2>2. job' \in Jobs
    BY DEF Stumble, IInv, Jobs, JobStages, etcd
  <2>3. script' \in Scripts
    BY DEF Stumble, IInv, Scripts, ScriptStages, Jobs, etcd
  <2>4. flag' \in [Servers -> Flags] /\ data' \subseteq Servers
        /\ running' \subseteq data'
    BY DEF Stumble, IInv, Flags, Scripts, etcd
  <2>5. app' \in [Servers -> Versions \cup {0}]
    BY DEF Stumble, IInv, Scripts, etcd
  <2>6. stumbles' \in 0..MaxStumbles /\ faults' \in 0..MaxFaults
    BY DEF Stumble, IInv, etcd
  <2> QED
    BY <2>1, <2>2, <2>3, <2>4, <2>5, <2>6, NextTypeParts
<1>2. ScriptOfJob' /\ VersionsGrow'
  BY DEF Stumble, IInv, ScriptOfJob, VersionsGrow, JobAt, ScriptAt, ScriptActive,
         Jobs, Scripts, etcd
<1>3. InTurn'
  BY DEF Stumble, IInv, ScriptOfJob, InTurn, VersionsGrow, JobAt, ScriptAt,
         ScriptActive, Jobs, Scripts, etcd
<1>4. VersionsFollowTheLoop' /\ SuccessMeansDeployed'
  BY DEF Stumble, IInv, ScriptOfJob, VersionsGrow, InTurn, VersionsFollowTheLoop,
         SuccessMeansDeployed, JobAt, ScriptAt, ScriptActive, Jobs, Scripts, etcd
<1>5. Established /\ faults' = 0 => OneRestartAtATime'
  BY DEF Stumble, IInv, ScriptOfJob, OneRestartAtATime, JobAt, ScriptAt, ScriptActive,
         Jobs, Scripts, etcd
<1> QED
  BY <1>1, <1>2, <1>3, <1>4, <1>5 DEF IInv

LEMMA AdvancePreserves ==
    ASSUME IInv, Advance
    PROVE  IInv'
<1> USE ServersFacts, VersionsFacts, TypeParts
<1>1. TypeOK'
  <2>1. pushed' \in Versions
    BY DEF Advance, IInv, NextServer, etcd, bounds
  <2>2. job' \in Jobs
    <3>1. job \in Jobs /\ job.at \in Servers
      BY DEF IInv, Jobs
    <3>2. job' = NextServer(job.at) \/ job' = [job EXCEPT !.status = "failed"]
      BY DEF Advance
    <3>3. NextServer(job.at) \in Jobs
      BY <3>1 DEF NextServer, Jobs, JobStages
    <3>4. [job EXCEPT !.status = "failed"] \in Jobs
      BY <3>1 DEF Jobs
    <3> QED
      BY <3>2, <3>3, <3>4
  <2>3. script' \in Scripts
    BY DEF Advance, IInv, Scripts, ScriptStages, Jobs, NextServer, etcd, bounds
  <2>4. flag' \in [Servers -> Flags] /\ data' \subseteq Servers
        /\ running' \subseteq data'
    BY DEF Advance, IInv, Flags, Scripts, NextServer, etcd, bounds
  <2>5. app' \in [Servers -> Versions \cup {0}]
    BY DEF Advance, IInv, Scripts, NextServer, etcd, bounds
  <2>6. stumbles' \in 0..MaxStumbles /\ faults' \in 0..MaxFaults
    BY DEF Advance, IInv, NextServer, etcd, bounds
  <2> QED
    BY <2>1, <2>2, <2>3, <2>4, <2>5, <2>6, NextTypeParts
<1>2. ScriptOfJob' /\ VersionsGrow'
  BY DEF Advance, IInv, ScriptOfJob, VersionsGrow, JobAt, ScriptAt, ScriptActive,
         Jobs, Scripts, NextServer, etcd, bounds
<1>a. /\ script.at = job.at /\ script.version = job.version
      /\ script' = script /\ app' = app /\ job \in Jobs
      /\ flag' = flag /\ running' = running /\ data' = data
  BY DEF Advance, IInv, ScriptOfJob, etcd
<1>b. script.stage = "done" \/ job' = [job EXCEPT !.status = "failed"]
  BY DEF Advance
<1>c. CASE job' = [job EXCEPT !.status = "failed"]
  <2>1. job'.status = "failed"
    BY <1>a, <1>c DEF Jobs
  <2>2. InTurn' /\ VersionsFollowTheLoop' /\ SuccessMeansDeployed'
    BY <1>a, <2>1
    DEF IInv, InTurn, VersionsFollowTheLoop, SuccessMeansDeployed,
        JobAt, ScriptAt, ScriptActive
  <2>3. Established /\ faults' = 0 => OneRestartAtATime'
    BY <1>a, <2>1
    DEF Advance, bounds, IInv, OneRestartAtATime, JobAt, ScriptAt,
        ScriptActive
  <2> QED
    BY <2>2, <2>3, <1>1, <1>2 DEF IInv
<1>d. CASE script.stage = "done" /\ job' = NextServer(job.at)
  <2>1. \A t \in Servers : /\ t < job.at => app[t] = job.version
                           /\ app[job.at] = job.version
    BY <1>a, <1>d DEF IInv, InTurn, ScriptAt
  <2>2. CASE job.at = N
    <3>1. job' = [job EXCEPT !.status = "succeeded"]
      BY <1>d, <2>2 DEF NextServer
    <3>2. \A t \in Servers : app[t] = job.version
      BY <2>1, <2>2
    <3> QED
      <4>1. job'.status = "succeeded" /\ job'.version = job.version
        BY <1>a, <3>1 DEF Jobs
      <4>2. InTurn' /\ VersionsFollowTheLoop' /\ SuccessMeansDeployed'
        BY <1>a, <3>2, <4>1
        DEF IInv, InTurn, VersionsFollowTheLoop, SuccessMeansDeployed,
            JobAt, ScriptAt, ScriptActive
      <4>3. Established /\ faults' = 0 => OneRestartAtATime'
        BY <1>a, <4>1
        DEF Advance, bounds, IInv, OneRestartAtATime, JobAt, ScriptAt,
            ScriptActive
      <4> QED
        BY <4>2, <4>3, <1>1, <1>2 DEF IInv
  <2>3. CASE job.at # N
    <3>1. job' = [job EXCEPT !.at = job.at + 1, !.stage = "copy"]
      BY <1>d, <2>3 DEF NextServer
    <3>2. /\ job'.at = job.at + 1 /\ job'.version = job.version
          /\ job'.status = "running" /\ job.at \in Servers
      BY <1>a, <3>1 DEF Jobs, Advance, JobAt
    <3>3. \A t \in Servers : t < job'.at => t < job.at \/ t = job.at
      BY <3>2 DEF Servers
    <3>4. InTurn'
      BY <1>a, <2>1, <3>2, <3>3
      DEF IInv, InTurn, JobAt, ScriptAt, ScriptActive
    <3>5. Established /\ faults' = 0 => OneRestartAtATime'
      BY <1>a, <1>d, <3>2, <3>3
      DEF Advance, bounds, IInv, OneRestartAtATime, JobAt, ScriptAt,
          ScriptActive
    <3> QED
      BY <1>a, <3>2, <3>4, <3>5, <1>1, <1>2
      DEF IInv, VersionsFollowTheLoop, SuccessMeansDeployed
  <2> QED
    BY <2>2, <2>3
<1> QED
  BY <1>b, <1>c, <1>d DEF Advance

-----------------------------------------------------------------------------
(* deploy-ha-compose.sh *)

LEMMA PreparePreserves ==
    ASSUME IInv, Prepare
    PROVE  IInv'
<1> USE ServersFacts, VersionsFacts, TypeParts
<1>1. TypeOK'
  <2>1. pushed' \in Versions
    BY DEF Prepare, IInv, etcd
  <2>2. job' \in Jobs
    BY DEF Prepare, IInv, Jobs, JobStages, etcd
  <2>3. script' \in Scripts
    BY DEF Prepare, IInv, Scripts, ScriptStages, Jobs, etcd
  <2>4. flag' \in [Servers -> Flags] /\ data' \subseteq Servers
        /\ running' \subseteq data'
    BY DEF Prepare, IInv, Flags, Scripts, etcd
  <2>5. app' \in [Servers -> Versions \cup {0}]
    BY DEF Prepare, IInv, Scripts, etcd
  <2>6. stumbles' \in 0..MaxStumbles /\ faults' \in 0..MaxFaults
    BY DEF Prepare, IInv, etcd
  <2> QED
    BY <2>1, <2>2, <2>3, <2>4, <2>5, <2>6, NextTypeParts
<1>2. ScriptOfJob' /\ VersionsGrow'
  BY DEF Prepare, IInv, ScriptOfJob, VersionsGrow, JobAt, ScriptAt, ScriptActive,
         Jobs, Scripts, etcd
<1>3. InTurn'
  <2>1. /\ script'.at = script.at /\ script'.version = script.version
        /\ script'.stage = "up" /\ script.stage = "detect"
        /\ job' = job /\ app' = app
    BY DEF Prepare, IInv, ScriptAt, Scripts
  <2>2. ScriptActive /\ ScriptActive' /\ ~ScriptAt("done")'
    BY <2>1 DEF ScriptActive, ScriptAt
  <2> QED
    BY <2>1, <2>2 DEF IInv, InTurn, JobAt
<1>4. VersionsFollowTheLoop' /\ SuccessMeansDeployed'
  BY DEF Prepare, IInv, ScriptOfJob, VersionsGrow, InTurn, VersionsFollowTheLoop,
         SuccessMeansDeployed, JobAt, ScriptAt, ScriptActive, Jobs, Scripts, etcd
<1>5. Established /\ faults' = 0 => OneRestartAtATime'
  <2> SUFFICES ASSUME Established, faults' = 0 PROVE OneRestartAtATime'
    OBVIOUS
  <2>1. faults = 0 /\ faults' = faults
    BY DEF Prepare, IInv, TypeOK
  <2>2. OneRestartAtATime /\ script.at \in Servers
    BY <2>1 DEF IInv, Scripts
  <2>3. script' = [script EXCEPT !.stage = "up", !.want = "existing"]
    BY <2>1, <2>2 DEF Prepare, OneRestartAtATime
  <2>4. /\ script'.stage = "up" /\ script'.want = "existing"
        /\ script'.at = script.at /\ script.stage = "detect"
    BY <2>3 DEF Prepare, ScriptAt, IInv, Scripts
  <2> QED
    BY <2>2, <2>4
    DEF Prepare, etcd, OneRestartAtATime, JobAt, ScriptAt, ScriptActive
<1> QED
  BY <1>1, <1>2, <1>3, <1>4, <1>5 DEF IInv

LEMMA PrepareFailsPreserves ==
    ASSUME IInv, PrepareFails
    PROVE  IInv'
<1> USE ServersFacts, VersionsFacts, TypeParts
<1>1. TypeOK'
  <2>1. pushed' \in Versions
    BY DEF PrepareFails, IInv, ScriptGoes, etcd
  <2>2. job' \in Jobs
    BY DEF PrepareFails, IInv, Jobs, JobStages, ScriptGoes, etcd
  <2>3. script' \in Scripts
    BY DEF PrepareFails, IInv, Scripts, ScriptStages, Jobs, ScriptGoes, etcd
  <2>4. flag' \in [Servers -> Flags] /\ data' \subseteq Servers
        /\ running' \subseteq data'
    BY DEF PrepareFails, IInv, Flags, Scripts, ScriptGoes, etcd
  <2>5. app' \in [Servers -> Versions \cup {0}]
    BY DEF PrepareFails, IInv, Scripts, ScriptGoes, etcd
  <2>6. stumbles' \in 0..MaxStumbles /\ faults' \in 0..MaxFaults
    BY DEF PrepareFails, IInv, ScriptGoes, etcd
  <2> QED
    BY <2>1, <2>2, <2>3, <2>4, <2>5, <2>6, NextTypeParts
<1>2. ScriptOfJob' /\ VersionsGrow'
  BY DEF PrepareFails, IInv, ScriptOfJob, VersionsGrow, JobAt, ScriptAt, ScriptActive,
         Jobs, Scripts, ScriptGoes, etcd
<1>3. InTurn'
  BY DEF PrepareFails, IInv, ScriptOfJob, InTurn, VersionsGrow, JobAt, ScriptAt,
         ScriptActive, Jobs, Scripts, ScriptGoes, etcd
<1>4. VersionsFollowTheLoop' /\ SuccessMeansDeployed'
  BY DEF PrepareFails, IInv, ScriptOfJob, VersionsGrow, InTurn, VersionsFollowTheLoop,
         SuccessMeansDeployed, JobAt, ScriptAt, ScriptActive, Jobs, Scripts, ScriptGoes, etcd
<1>5. Established /\ faults' = 0 => OneRestartAtATime'
  BY DEF PrepareFails, IInv, ScriptOfJob, OneRestartAtATime, JobAt, ScriptAt, ScriptActive,
         Jobs, Scripts, ScriptGoes, etcd
<1> QED
  BY <1>1, <1>2, <1>3, <1>4, <1>5 DEF IInv

LEMMA UpPreserves ==
    ASSUME IInv, Up
    PROVE  IInv'
<1> USE ServersFacts, VersionsFacts, TypeParts
<1>1. TypeOK'
  <2>1. pushed' \in Versions
    BY DEF Up, IInv, ScriptGoes, bounds
  <2>2. job' \in Jobs
    BY DEF Up, IInv, Jobs, JobStages, ScriptGoes, bounds
  <2>3. script' \in Scripts
    BY DEF Up, IInv, Scripts, ScriptStages, Jobs, ScriptGoes, bounds
  <2>4. flag' \in [Servers -> Flags] /\ data' \subseteq Servers
        /\ running' \subseteq data'
    BY DEF Up, IInv, Flags, Scripts, ScriptGoes, bounds
  <2>5. app' \in [Servers -> Versions \cup {0}]
    BY DEF Up, IInv, Scripts, ScriptGoes, bounds
  <2>6. stumbles' \in 0..MaxStumbles /\ faults' \in 0..MaxFaults
    BY DEF Up, IInv, ScriptGoes, bounds
  <2> QED
    BY <2>1, <2>2, <2>3, <2>4, <2>5, <2>6, NextTypeParts
<1>2. ScriptOfJob' /\ VersionsGrow'
  BY DEF Up, IInv, ScriptOfJob, VersionsGrow, JobAt, ScriptAt, ScriptActive,
         Jobs, Scripts, ScriptGoes, bounds
<1>3. InTurn'
  BY DEF Up, IInv, ScriptOfJob, InTurn, VersionsGrow, JobAt, ScriptAt,
         ScriptActive, Jobs, Scripts, ScriptGoes, bounds
<1>4. VersionsFollowTheLoop' /\ SuccessMeansDeployed'
  BY DEF Up, IInv, ScriptOfJob, VersionsGrow, InTurn, VersionsFollowTheLoop,
         SuccessMeansDeployed, JobAt, ScriptAt, ScriptActive, Jobs, Scripts, ScriptGoes, bounds
<1>5. Established /\ faults' = 0 => OneRestartAtATime'
  BY DEF Up, IInv, ScriptOfJob, OneRestartAtATime, JobAt, ScriptAt, ScriptActive,
         Jobs, Scripts, ScriptGoes, bounds
<1> QED
  BY <1>1, <1>2, <1>3, <1>4, <1>5 DEF IInv

LEMMA GatePreserves ==
    ASSUME IInv, Gate
    PROVE  IInv'
<1> USE ServersFacts, VersionsFacts, TypeParts
<1>1. TypeOK'
  <2>1. pushed' \in Versions
    BY DEF Gate, IInv, Healthy, ScriptGoes, etcd, bounds
  <2>2. job' \in Jobs
    BY DEF Gate, IInv, Jobs, JobStages, Healthy, ScriptGoes, etcd, bounds
  <2>3. script' \in Scripts
    BY DEF Gate, IInv, Scripts, ScriptStages, Jobs, Healthy, ScriptGoes, etcd, bounds
  <2>4. flag' \in [Servers -> Flags] /\ data' \subseteq Servers
        /\ running' \subseteq data'
    BY DEF Gate, IInv, Flags, Scripts, Healthy, ScriptGoes, etcd, bounds
  <2>5. app' \in [Servers -> Versions \cup {0}]
    BY DEF Gate, IInv, Scripts, Healthy, ScriptGoes, etcd, bounds
  <2>6. stumbles' \in 0..MaxStumbles /\ faults' \in 0..MaxFaults
    BY DEF Gate, IInv, Healthy, ScriptGoes, etcd, bounds
  <2> QED
    BY <2>1, <2>2, <2>3, <2>4, <2>5, <2>6, NextTypeParts
<1>2. ScriptOfJob' /\ VersionsGrow'
  BY DEF Gate, IInv, ScriptOfJob, VersionsGrow, JobAt, ScriptAt, ScriptActive,
         Jobs, Scripts, Healthy, ScriptGoes, etcd, bounds
<1>3. InTurn'
  BY DEF Gate, IInv, ScriptOfJob, InTurn, VersionsGrow, JobAt, ScriptAt,
         ScriptActive, Jobs, Scripts, Healthy, ScriptGoes, etcd, bounds
<1>4. VersionsFollowTheLoop' /\ SuccessMeansDeployed'
  BY DEF Gate, IInv, ScriptOfJob, VersionsGrow, InTurn, VersionsFollowTheLoop,
         SuccessMeansDeployed, JobAt, ScriptAt, ScriptActive, Jobs, Scripts, Healthy, ScriptGoes, etcd, bounds
<1>5. Established /\ faults' = 0 => OneRestartAtATime'
  BY DEF Gate, IInv, ScriptOfJob, OneRestartAtATime, JobAt, ScriptAt, ScriptActive,
         Jobs, Scripts, Healthy, ScriptGoes, etcd, bounds
<1> QED
  BY <1>1, <1>2, <1>3, <1>4, <1>5 DEF IInv

LEMMA GateFailsPreserves ==
    ASSUME IInv, GateFails
    PROVE  IInv'
<1> USE ServersFacts, VersionsFacts, TypeParts
<1>1. TypeOK'
  <2>1. pushed' \in Versions
    BY DEF GateFails, IInv, ScriptGoes, etcd
  <2>2. job' \in Jobs
    BY DEF GateFails, IInv, Jobs, JobStages, ScriptGoes, etcd
  <2>3. script' \in Scripts
    BY DEF GateFails, IInv, Scripts, ScriptStages, Jobs, ScriptGoes, etcd
  <2>4. flag' \in [Servers -> Flags] /\ data' \subseteq Servers
        /\ running' \subseteq data'
    BY DEF GateFails, IInv, Flags, Scripts, ScriptGoes, etcd
  <2>5. app' \in [Servers -> Versions \cup {0}]
    BY DEF GateFails, IInv, Scripts, ScriptGoes, etcd
  <2>6. stumbles' \in 0..MaxStumbles /\ faults' \in 0..MaxFaults
    BY DEF GateFails, IInv, ScriptGoes, etcd
  <2> QED
    BY <2>1, <2>2, <2>3, <2>4, <2>5, <2>6, NextTypeParts
<1>2. ScriptOfJob' /\ VersionsGrow'
  BY DEF GateFails, IInv, ScriptOfJob, VersionsGrow, JobAt, ScriptAt, ScriptActive,
         Jobs, Scripts, ScriptGoes, etcd
<1>3. InTurn'
  BY DEF GateFails, IInv, ScriptOfJob, InTurn, VersionsGrow, JobAt, ScriptAt,
         ScriptActive, Jobs, Scripts, ScriptGoes, etcd
<1>4. VersionsFollowTheLoop' /\ SuccessMeansDeployed'
  BY DEF GateFails, IInv, ScriptOfJob, VersionsGrow, InTurn, VersionsFollowTheLoop,
         SuccessMeansDeployed, JobAt, ScriptAt, ScriptActive, Jobs, Scripts, ScriptGoes, etcd
<1>5. Established /\ faults' = 0 => OneRestartAtATime'
  BY DEF GateFails, IInv, ScriptOfJob, OneRestartAtATime, JobAt, ScriptAt, ScriptActive,
         Jobs, Scripts, ScriptGoes, etcd
<1> QED
  BY <1>1, <1>2, <1>3, <1>4, <1>5 DEF IInv

LEMMA ScriptDiesPreserves ==
    ASSUME IInv, ScriptDies
    PROVE  IInv'
<1> USE ServersFacts, VersionsFacts, TypeParts
<1>1. TypeOK'
  <2>1. pushed' \in Versions
    BY DEF ScriptDies, IInv, ScriptGoes, etcd, bounds
  <2>2. job' \in Jobs
    BY DEF ScriptDies, IInv, Jobs, JobStages, ScriptGoes, etcd, bounds
  <2>3. script' \in Scripts
    BY DEF ScriptDies, IInv, Scripts, ScriptStages, Jobs, ScriptGoes, etcd, bounds
  <2>4. flag' \in [Servers -> Flags] /\ data' \subseteq Servers
        /\ running' \subseteq data'
    BY DEF ScriptDies, IInv, Flags, Scripts, ScriptGoes, etcd, bounds
  <2>5. app' \in [Servers -> Versions \cup {0}]
    BY DEF ScriptDies, IInv, Scripts, ScriptGoes, etcd, bounds
  <2>6. stumbles' \in 0..MaxStumbles /\ faults' \in 0..MaxFaults
    BY DEF ScriptDies, IInv, ScriptGoes, etcd, bounds
  <2> QED
    BY <2>1, <2>2, <2>3, <2>4, <2>5, <2>6, NextTypeParts
<1>2. ScriptOfJob' /\ VersionsGrow'
  BY DEF ScriptDies, IInv, ScriptOfJob, VersionsGrow, JobAt, ScriptAt, ScriptActive,
         Jobs, Scripts, ScriptGoes, etcd, bounds
<1>3. InTurn'
  BY DEF ScriptDies, IInv, ScriptOfJob, InTurn, VersionsGrow, JobAt, ScriptAt,
         ScriptActive, Jobs, Scripts, ScriptGoes, etcd, bounds
<1>4. VersionsFollowTheLoop' /\ SuccessMeansDeployed'
  BY DEF ScriptDies, IInv, ScriptOfJob, VersionsGrow, InTurn, VersionsFollowTheLoop,
         SuccessMeansDeployed, JobAt, ScriptAt, ScriptActive, Jobs, Scripts, ScriptGoes, etcd, bounds
<1>5. Established /\ faults' = 0 => OneRestartAtATime'
  BY DEF ScriptDies, IInv, ScriptOfJob, OneRestartAtATime, JobAt, ScriptAt, ScriptActive,
         Jobs, Scripts, ScriptGoes, etcd, bounds
<1> QED
  BY <1>1, <1>2, <1>3, <1>4, <1>5 DEF IInv

-----------------------------------------------------------------------------
(* The servers *)

LEMMA EtcdStartPreserves ==
    ASSUME IInv, NEW s \in Servers, EtcdStart(s)
    PROVE  IInv'
<1> USE ServersFacts, VersionsFacts, TypeParts
<1>1. TypeOK'
  <2>1. pushed' \in Versions
    BY DEF EtcdStart, IInv, CanStart, bounds
  <2>2. job' \in Jobs
    BY DEF EtcdStart, IInv, Jobs, JobStages, CanStart, bounds
  <2>3. script' \in Scripts
    BY DEF EtcdStart, IInv, Scripts, ScriptStages, Jobs, CanStart, bounds
  <2>4. flag' \in [Servers -> Flags] /\ data' \subseteq Servers
        /\ running' \subseteq data'
    BY DEF EtcdStart, IInv, Flags, Scripts, CanStart, bounds
  <2>5. app' \in [Servers -> Versions \cup {0}]
    BY DEF EtcdStart, IInv, Scripts, CanStart, bounds
  <2>6. stumbles' \in 0..MaxStumbles /\ faults' \in 0..MaxFaults
    BY DEF EtcdStart, IInv, CanStart, bounds
  <2> QED
    BY <2>1, <2>2, <2>3, <2>4, <2>5, <2>6, NextTypeParts
<1>2. ScriptOfJob' /\ VersionsGrow'
  BY DEF EtcdStart, IInv, ScriptOfJob, VersionsGrow, JobAt, ScriptAt, ScriptActive,
         Jobs, Scripts, CanStart, bounds
<1>3. InTurn'
  BY DEF EtcdStart, IInv, ScriptOfJob, InTurn, VersionsGrow, JobAt, ScriptAt,
         ScriptActive, Jobs, Scripts, CanStart, bounds
<1>4. VersionsFollowTheLoop' /\ SuccessMeansDeployed'
  BY DEF EtcdStart, IInv, ScriptOfJob, VersionsGrow, InTurn, VersionsFollowTheLoop,
         SuccessMeansDeployed, JobAt, ScriptAt, ScriptActive, Jobs, Scripts, CanStart, bounds
<1>5. Established /\ faults' = 0 => OneRestartAtATime'
  BY DEF EtcdStart, IInv, ScriptOfJob, OneRestartAtATime, JobAt, ScriptAt, ScriptActive,
         Jobs, Scripts, CanStart, bounds
<1> QED
  BY <1>1, <1>2, <1>3, <1>4, <1>5 DEF IInv

LEMMA EtcdCrashPreserves ==
    ASSUME IInv, NEW s \in Servers, EtcdCrash(s)
    PROVE  IInv'
<1> USE ServersFacts, VersionsFacts, TypeParts
<1>1. TypeOK'
  <2>1. pushed' \in Versions
    BY DEF EtcdCrash, IInv
  <2>2. job' \in Jobs
    BY DEF EtcdCrash, IInv, Jobs, JobStages
  <2>3. script' \in Scripts
    BY DEF EtcdCrash, IInv, Scripts, ScriptStages, Jobs
  <2>4. flag' \in [Servers -> Flags] /\ data' \subseteq Servers
        /\ running' \subseteq data'
    BY DEF EtcdCrash, IInv, Flags, Scripts
  <2>5. app' \in [Servers -> Versions \cup {0}]
    BY DEF EtcdCrash, IInv, Scripts
  <2>6. stumbles' \in 0..MaxStumbles /\ faults' \in 0..MaxFaults
    BY DEF EtcdCrash, IInv
  <2> QED
    BY <2>1, <2>2, <2>3, <2>4, <2>5, <2>6, NextTypeParts
<1>2. ScriptOfJob' /\ VersionsGrow'
  BY DEF EtcdCrash, IInv, ScriptOfJob, VersionsGrow, JobAt, ScriptAt, ScriptActive,
         Jobs, Scripts
<1>3. InTurn'
  BY DEF EtcdCrash, IInv, ScriptOfJob, InTurn, VersionsGrow, JobAt, ScriptAt,
         ScriptActive, Jobs, Scripts
<1>4. VersionsFollowTheLoop' /\ SuccessMeansDeployed'
  BY DEF EtcdCrash, IInv, ScriptOfJob, VersionsGrow, InTurn, VersionsFollowTheLoop,
         SuccessMeansDeployed, JobAt, ScriptAt, ScriptActive, Jobs, Scripts
<1>5. Established /\ faults' = 0 => OneRestartAtATime'
  BY DEF EtcdCrash, IInv, ScriptOfJob, OneRestartAtATime, JobAt, ScriptAt, ScriptActive,
         Jobs, Scripts
<1> QED
  BY <1>1, <1>2, <1>3, <1>4, <1>5 DEF IInv

-----------------------------------------------------------------------------

LEMMA IInvPreserved == IInv /\ [Next]_vars => IInv'
<1> SUFFICES ASSUME IInv, [Next]_vars PROVE IInv'
  OBVIOUS
<1>1. CASE UNCHANGED vars
  BY <1>1
  DEF vars, etcd, bounds, IInv, TypeOK, ScriptOfJob, VersionsGrow, InTurn,
      VersionsFollowTheLoop, SuccessMeansDeployed, OneRestartAtATime,
      JobAt, ScriptAt, ScriptActive
<1>2. CASE \E s \in Servers : EtcdStart(s) \/ EtcdCrash(s)
  BY <1>2, EtcdStartPreserves, EtcdCrashPreserves
<1> QED
  BY <1>1, <1>2, PushPreserves, DispatchPreserves, StumblePreserves,
     BuildPreserves, CopyPreserves, AdvancePreserves, PreparePreserves,
     PrepareFailsPreserves, UpPreserves, GatePreserves, GateFailsPreserves,
     ScriptDiesPreserves
  DEF Next, Job, Script

THEOREM InvariantHolds == Spec => []IInv
BY InitIInv, IInvPreserved, PTL DEF Spec

THEOREM TypeCorrect == Spec => []TypeOK
<1>1. IInv => TypeOK
  BY DEF IInv
<1> QED
  BY <1>1, InvariantHolds, PTL

\* No server runs a later version than one before it in the loop, whichever
\* jobs failed or were cancelled.
THEOREM VersionsFollowTheLoopHolds == Spec => []VersionsFollowTheLoop
<1>1. IInv => VersionsFollowTheLoop
  BY DEF IInv
<1> QED
  BY <1>1, InvariantHolds, PTL

\* A job that succeeds has deployed its version on every server.
THEOREM SuccessMeansDeployedHolds == Spec => []SuccessMeansDeployed
<1>1. IInv => SuccessMeansDeployed
  BY DEF IInv
<1> QED
  BY <1>1, InvariantHolds, PTL

\* Two servers without etcd would be two last ones whose environment changed.
LEMMA OneDown == IInv => RolloutKeepsQuorum
<1> SUFFICES ASSUME IInv, Established, faults = 0
             PROVE  Cardinality(Servers \ running) <= 1
  BY DEF RolloutKeepsQuorum
<1>1. \A s, t \in Servers : s \notin running /\ t \notin running => s = t
  <2> SUFFICES ASSUME NEW s \in Servers, NEW t \in Servers, s < t,
                      s \notin running, t \notin running
               PROVE  FALSE
    BY ServersFacts
  <2>1. flag[t] \in Flags /\ flag[t] # "none" /\ flag[t] # "new"
    BY TypeParts DEF IInv, OneRestartAtATime
  <2>2. flag[t] = "existing"
    BY <2>1 DEF Flags
  <2> QED
    BY <2>2 DEF IInv, OneRestartAtATime
<1>2. CASE Servers \ running = {}
  BY <1>2, FS_EmptySet
<1>3. CASE \E s \in Servers : s \notin running
  <2> PICK s \in Servers : s \notin running
    BY <1>3
  <2>1. Servers \ running = {s}
    BY <1>1
  <2> QED
    <3>1. Cardinality({s}) = 1
      BY FS_Singleton
    <3> QED
      BY <2>1, <3>1
<1> QED
  BY <1>2, <1>3

\* A formed cluster of etcd loses at most one member to rollouts.
THEOREM RolloutKeepsQuorumHolds == Spec => []RolloutKeepsQuorum
BY OneDown, InvariantHolds, PTL
=============================================================================
