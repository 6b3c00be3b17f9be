------------------------- MODULE CertRenewalProofs --------------------------
(***************************************************************************)
(* The certificates of CertRenewal, for any number of servers, renewals,   *)
(* pushes and restarts: types, that a server whose configuration does not  *)
(* load is about to be repaired, and that a server to which no deploy is   *)
(* on its way has what the secrets say.                                    *)
(***************************************************************************)
EXTENDS CertRenewal, TLAPS

USE ConstantsAssumption

\* The items a script goes through are parts of pairs that exist.
LEMMA ItemsExist ==
    ASSUME NEW names \in SUBSET Names, NEW i \in Places, i <= Items(names)
    PROVE  Name(i) \in Names /\ Part(i) \in Parts
BY DEF Items, Name, Part, Parts, Places

LEMMA PartsOfItems ==
    ASSUME NEW i \in Places
    PROVE  /\ Part(i) \in Parts
           /\ Part(i) = "key" <=> i \in {2, 4}
           /\ \A j \in Places : Name(i) = Name(j) /\ Part(i) = Part(j) => i = j
BY DEF Name, Part, Parts, Places

LEMMA FirstPlace == 1 \in Places /\ Places \subseteq Places \cup {5}
BY DEF Places

LEMMA MishapCounts ==
    ASSUME TypeOK, Mishap
    PROVE  mishaps' \in 0..MaxMishaps
BY DEF TypeOK, Mishap

LEMMA ItemsBound ==
    ASSUME NEW names
    PROVE  Items(names) \in {2, 4}
BY DEF Items

LEMMA InitIInv == Init => IInv
<1> SUFFICES ASSUME Init PROVE IInv
  OBVIOUS
<1> USE FirstPlace
<1>1. TypeOK
  <2>1. secrets \in [Names -> Pairs]
    BY DEF Init, Pair, Pairs, Numbers, Renewals, Parts
  <2>2. source \in [Names -> Renewals]
    BY DEF Init, Renewals
  <2>3. NoHarvest \in [Names -> Pairs]
    BY DEF NoHarvest, Pair, Pairs, Numbers, Parts
  <2>4. run \in [step: {"idle", "attempt", "extract", "store", "trigger"},
                 pos: Places, before: [Names -> Numbers],
                 renewed: SUBSET Names, harvest: [Names -> Pairs]]
    BY <2>2, <2>3 DEF Init, Numbers
  <2>5. deploy \in [step: {"idle", "reach", "render"}, at: Servers,
                    pos: Places \cup {5}, taken: [Names -> Pairs]]
    BY <2>1 DEF Init, Servers
  <2>6. static \in [Servers -> SUBSET Names] /\ seen = static
    BY DEF Init
  <2>7. serving \in [Servers -> [Names -> Numbers]]
    BY <2>1 DEF Init, Pairs, Parts
  <2>8. files \in [Servers -> [Names -> Pairs]]
    BY <2>1 DEF Init
  <2>9. waiting \in BOOLEAN /\ up \subseteq Servers
    BY DEF Init
  <2>10. /\ pushes \in 0..MaxPushes /\ mishaps \in 0..MaxMishaps
         /\ restarts \in 0..MaxRestarts
    BY DEF Init
  <2> QED
    BY <2>1, <2>2, <2>4, <2>5, <2>6, <2>7, <2>8, <2>9, <2>10 DEF TypeOK
<1>2. ItemInRange /\ FilesAreWritten
  BY DEF Init, ItemInRange, FilesAreWritten
<1>3. \A n \in Names : Whole(secrets[n])
  BY DEF Init, Whole, Pair, Parts
<1>4. \A s \in Servers : Loadable(s)
  BY DEF Init, Loadable
<1> QED
  BY <1>1, <1>2, <1>3, <1>4
  DEF IInv, Init, HarvestIsOneRenewal, SecretsAreWhole, TakenAreWhole, Midway,
      MixturesAreRepaired, RunAt

-----------------------------------------------------------------------------
(* Types, and items within their range: one step per action. *)

\* The next item of a workflow that has not come to its last one.
LEMMA NextItem ==
    ASSUME NEW i \in Places, NEW names
    PROVE  /\ i < Items(names) => i + 1 \in Places /\ i + 1 <= Items(names)
           /\ 1 <= Items(names)
BY DEF Places, Items

LEMMA TypesPreserved ==
    ASSUME TypeOK, ItemInRange, [Next]_vars
    PROVE  TypeOK' /\ ItemInRange'
<1> USE FirstPlace DEF vars, servers, caddy, workflows, bounded
<1> DEFINE Steps == {"idle", "attempt", "extract", "store", "trigger"}
           Runs == [step: Steps, pos: Places, before: [Names -> Numbers],
                    renewed: SUBSET Names, harvest: [Names -> Pairs]]
           Deploys == [step: {"idle", "reach", "render"}, at: Servers,
                       pos: Places \cup {5}, taken: [Names -> Pairs]]
<1>1. ASSUME NEW n \in Names, CaddyRenews(n) PROVE TypeOK' /\ ItemInRange'
  <2>1. source[n] + 1 \in Renewals
    BY <1>1 DEF CaddyRenews, TypeOK, Renewals
  <2>2. source' \in [Names -> Renewals]
    BY <1>1, <2>1 DEF CaddyRenews, TypeOK
  <2> QED
    BY <1>1, <2>2, MishapCounts DEF CaddyRenews, TypeOK, ItemInRange
<1>2. CASE StartRun
  <2>1. run' \in Runs /\ run'.step = "attempt"
    <3>1. source \in [Names -> Numbers]
      BY DEF TypeOK, Numbers
    <3>2. \A n \in Names : [source EXCEPT ![n] = 0] \in [Names -> Numbers]
      BY <3>1 DEF Numbers
    <3>3. PICK b \in [Names -> Numbers] :
             run' = [run EXCEPT !.step = "attempt", !.pos = 1, !.before = b,
                                !.renewed = {}]
      BY <1>2, <3>1, <3>2 DEF StartRun
    <3> QED
      BY <3>3 DEF TypeOK
  <2> QED
    BY <1>2, <2>1, MishapCounts DEF StartRun, TypeOK, ItemInRange
<1>3. CASE Attempt
  <2>1. NoHarvest \in [Names -> Pairs]
    BY DEF NoHarvest, Pair, Pairs, Numbers, Parts
  <2>2. run.pos < Attempts => run.pos + 1 \in Places
    BY DEF Attempts, TypeOK, Places
  <2>3. run' \in Runs /\ (run'.step = "attempt" \/ run'.pos = 1)
    <3>1. PICK renewed \in SUBSET Names,
               next \in {"attempt", "extract", "idle"} :
             /\ next = "attempt" => run.pos < Attempts
             /\ run' = [run EXCEPT !.renewed = renewed, !.step = next,
                         !.harvest = NoHarvest,
                         !.pos = IF next = "attempt" THEN @ + 1 ELSE 1]
      <4>1. PICK readable \in SUBSET Names :
              LET renewed == run.renewed
                        \cup {n \in readable : source[n] # run.before[n]}
                  next == IF renewed = Names THEN "extract"
                          ELSE IF run.pos < Attempts THEN "attempt"
                          ELSE IF "apex" \in renewed THEN "extract" ELSE "idle"
              IN  run' = [run EXCEPT !.renewed = renewed, !.step = next,
                                 !.harvest = NoHarvest,
                                 !.pos = IF next = "attempt" THEN @ + 1 ELSE 1]
        BY <1>3 DEF Attempt
      <4>2. run.renewed \cup {n \in readable : source[n] # run.before[n]}
              \in SUBSET Names
        BY DEF TypeOK
      <4> QED
        BY <4>1, <4>2
    <3>2. CASE next = "attempt"
      BY <2>1, <2>2, <3>1, <3>2 DEF TypeOK
    <3>3. CASE next # "attempt"
      BY <2>1, <3>1, <3>3 DEF TypeOK
    <3> QED
      BY <3>2, <3>3
  <2>4. ItemInRange'
    BY <2>3, ItemsBound DEF ItemInRange
  <2>5. Mishap \/ UNCHANGED mishaps
    BY <1>3 DEF Attempt
  <2>6. mishaps' \in 0..MaxMishaps
    BY <2>5, MishapCounts DEF TypeOK
  <2> QED
    BY <1>3, <2>3, <2>4, <2>6 DEF Attempt, TypeOK
<1>4. CASE Extract
  <2>1. Name(run.pos) \in Names /\ Part(run.pos) \in Parts
    BY <1>4, ItemsExist DEF Extract, RunAt, TypeOK, ItemInRange
  <2>2. source[Name(run.pos)] \in Numbers /\ 0 \in Numbers
    BY <2>1 DEF TypeOK, Numbers
  <2>3. PICK value \in Numbers :
           Proceed([run EXCEPT
                      !.harvest[Name(run.pos)][Part(run.pos)] = value],
                   "store")
    BY <1>4, <2>2 DEF Extract
  <2>4. [run EXCEPT !.harvest[Name(run.pos)][Part(run.pos)] = value] \in Runs
    BY <2>1, <2>3 DEF TypeOK, Pairs
  <2>5. run' \in Runs /\ ItemInRange'
    <3>1. run.pos \in Places
      BY DEF TypeOK
    <3>2. CASE run.pos < Items(run.renewed)
      <4> DEFINE record ==
            [run EXCEPT !.harvest[Name(run.pos)][Part(run.pos)] = value]
      <4>1. record.pos = run.pos /\ record.renewed = run.renewed
        BY DEF TypeOK
      <4>2. run' = [record EXCEPT !.pos = run.pos + 1]
        BY <2>3, <3>2, <4>1 DEF Proceed
      <4>3. run.pos + 1 \in Places /\ run.pos + 1 <= Items(run.renewed)
        BY <3>1, <3>2, NextItem
      <4> HIDE DEF record
      <4> QED
        BY <2>4, <4>1, <4>2, <4>3 DEF ItemInRange, record
    <3>3. CASE ~(run.pos < Items(run.renewed))
      <4> DEFINE record ==
            [run EXCEPT !.harvest[Name(run.pos)][Part(run.pos)] = value]
      <4>1. record.renewed = run.renewed
        BY DEF TypeOK
      <4>2. run' = [record EXCEPT !.pos = 1, !.step = "store"]
        BY <2>3, <3>3 DEF Proceed
      <4>3. 1 <= Items(run.renewed)
        BY <3>1, NextItem
      <4>4. record \in Runs
        BY <2>4
      <4> HIDE DEF record
      <4> QED
        BY <4>1, <4>2, <4>3, <4>4 DEF ItemInRange
    <3> QED
      BY <3>2, <3>3
  <2> QED
    BY <1>4, <2>5, MishapCounts DEF Extract, TypeOK
<1>5. CASE Store
  <2>1. Name(run.pos) \in Names /\ Part(run.pos) \in Parts
    BY <1>5, ItemsExist DEF Store, RunAt, TypeOK, ItemInRange
  <2>2. secrets' \in [Names -> Pairs]
    BY <1>5, <2>1 DEF Store, TypeOK, Pairs
  <2>3. run' \in Runs /\ ItemInRange'
    <3>1. run.pos \in Places
      BY DEF TypeOK
    <3>2. CASE run.pos < Items(run.renewed)
      <4>1. run' = [run EXCEPT !.pos = run.pos + 1]
        BY <1>5, <3>2 DEF Store, Proceed
      <4>2. run \in Runs
        BY DEF TypeOK
      <4> QED
        BY <3>1, <3>2, <4>1, <4>2, NextItem DEF ItemInRange
    <3>3. CASE ~(run.pos < Items(run.renewed))
      <4>1. run' = [run EXCEPT !.pos = 1, !.step = "trigger"]
        BY <1>5, <3>3 DEF Store, Proceed
      <4>2. run' \in Runs
        BY <4>1, NextItem DEF TypeOK
      <4> QED
        BY <4>1, <4>2, <3>1, NextItem DEF TypeOK, ItemInRange
    <3> QED
      BY <3>2, <3>3
  <2> QED
    BY <1>5, <2>2, <2>3 DEF Store, TypeOK
<1>6. CASE Trigger
  BY <1>6 DEF Trigger, RunGoes, TypeOK, ItemInRange
<1>7. CASE RunFails
  BY <1>7, MishapCounts DEF RunFails, RunGoes, TypeOK, ItemInRange
<1>8. CASE Push
  BY <1>8 DEF Push, TypeOK, ItemInRange
<1>9. CASE StartDeploy
  <2>1. 1 \in Servers
    BY DEF Servers
  <2> QED
    BY <1>9, <2>1 DEF StartDeploy, TypeOK, ItemInRange
<1>10. ASSUME NEW s \in Servers, Reach(s) PROVE TypeOK' /\ ItemInRange'
  BY <1>10 DEF Reach, TypeOK, ItemInRange
<1>11. ASSUME NEW s \in Servers, RenderFile(s) PROVE TypeOK' /\ ItemInRange'
  <2>1. deploy.pos \in Places /\ deploy.pos + 1 \in Places \cup {5}
    <3>1. deploy.pos \in Nat /\ deploy.pos >= 1
      BY DEF TypeOK, Places
    <3> QED
      BY <1>11, <3>1, ItemsBound DEF RenderFile, Places
  <2>2. Name(deploy.pos) \in Names /\ Part(deploy.pos) \in Parts
    BY <1>11, <2>1, ItemsExist DEF RenderFile
  <2>3. Rendered(Name(deploy.pos), Part(deploy.pos)) \in Numbers
    BY <2>2 DEF Rendered, TypeOK, Pairs, Numbers
  <2>4. files' \in [Servers -> [Names -> Pairs]]
    BY <1>11, <2>2, <2>3 DEF RenderFile, TypeOK, Pairs
  <2>5. deploy' \in Deploys
    BY <1>11, <2>1 DEF RenderFile, TypeOK
  <2> QED
    BY <1>11, <2>4, <2>5 DEF RenderFile, TypeOK, ItemInRange
<1>12. ASSUME NEW s \in Servers, RenderCaddyfile(s)
       PROVE  TypeOK' /\ ItemInRange'
  <2>1. deploy' \in Deploys
    <3>1. s # NumServers => s + 1 \in Servers
      BY DEF Servers
    <3> QED
      BY <1>12, <3>1 DEF RenderCaddyfile, TypeOK
  <2>2. static' \in [Servers -> SUBSET Names]
    BY <1>12 DEF RenderCaddyfile, TypeOK
  <2> QED
    BY <1>12, <2>1, <2>2 DEF RenderCaddyfile, TypeOK, ItemInRange
<1>13. CASE DeployFails
  BY <1>13, MishapCounts DEF DeployFails, TypeOK, ItemInRange
<1>14. ASSUME NEW s \in Servers PROVE Loaded(s) \in [Names -> Numbers]
  BY <1>14 DEF Loaded, TypeOK, Pairs, Numbers, Parts
<1>15. ASSUME NEW s \in Servers, Watch(s) PROVE TypeOK' /\ ItemInRange'
  BY <1>14, <1>15 DEF Watch, TypeOK, ItemInRange
<1>16. ASSUME NEW s \in Servers, Stop(s) PROVE TypeOK' /\ ItemInRange'
  <2>1. [n \in Names |-> 0] \in [Names -> Numbers]
    BY DEF Numbers
  <2> QED
    <3>1. restarts' \in 0..MaxRestarts
      BY <1>16 DEF Stop, TypeOK
    <3> QED
      BY <1>16, <2>1, <3>1 DEF Stop, TypeOK, ItemInRange
<1>17. ASSUME NEW s \in Servers, Start(s) PROVE TypeOK' /\ ItemInRange'
  BY <1>14, <1>17 DEF Start, TypeOK, ItemInRange
<1>18. CASE UNCHANGED vars
  BY <1>18 DEF TypeOK, ItemInRange
<1> QED
  BY <1>1, <1>2, <1>3, <1>4, <1>5, <1>6, <1>7, <1>8, <1>9, <1>10, <1>11,
     <1>12, <1>13, <1>15, <1>16, <1>17, <1>18
  DEF Next, Run, Deploy, Caddy

-----------------------------------------------------------------------------
(* What the script has written stays written while it is at its server. *)

LEMMA FilesPreserved ==
    ASSUME TypeOK, FilesAreWritten, [Next]_vars
    PROVE  FilesAreWritten'
<1> USE DEF vars, servers, caddy, workflows, bounded
<1>1. ASSUME UNCHANGED <<deploy, files>> PROVE FilesAreWritten'
  BY <1>1 DEF FilesAreWritten, Rendered, Complete
<1>2. CASE StartDeploy
  BY <1>2 DEF StartDeploy, FilesAreWritten, TypeOK
<1>3. ASSUME NEW s \in Servers, Reach(s) PROVE FilesAreWritten'
  BY <1>3 DEF Reach, FilesAreWritten, TypeOK
<1>4. ASSUME NEW s \in Servers, RenderFile(s) PROVE FilesAreWritten'
  <2>1. deploy.pos \in Places
    <3>1. deploy.pos \in Nat /\ deploy.pos >= 1
      BY DEF TypeOK, Places
    <3> QED
      BY <1>4, <3>1, ItemsBound DEF RenderFile, Places
  <2>2. /\ deploy'.pos = deploy.pos + 1 /\ deploy'.at = s
        /\ deploy'.step = "render" /\ deploy'.taken = deploy.taken
    BY <1>4 DEF RenderFile, TypeOK
  <2>3. ASSUME NEW i \in Places, i < deploy'.pos, Name(i) \in Names
        PROVE  files'[s][Name(i)][Part(i)] = Rendered(Name(i), Part(i))
    <3>1. files[s] \in [Names -> [Parts -> Numbers]]
      BY DEF TypeOK, Pairs
    <3>2. CASE i = deploy.pos
      BY <1>4, <2>3, <3>1, <3>2, PartsOfItems DEF RenderFile, TypeOK, Pairs
    <3>3. CASE i # deploy.pos
      <4>1. i < deploy.pos
        BY <2>1, <2>2, <2>3, <3>3 DEF Places
      <4>2. ~(Name(i) = Name(deploy.pos) /\ Part(i) = Part(deploy.pos))
        BY <2>1, <3>3, PartsOfItems
      <4>3. files'[s][Name(i)][Part(i)] = files[s][Name(i)][Part(i)]
        BY <1>4, <2>3, <3>1, <4>2, PartsOfItems DEF RenderFile, TypeOK, Pairs
      <4> QED
        BY <1>4, <2>3, <4>1, <4>3 DEF RenderFile, FilesAreWritten, Places
    <3> QED
      BY <3>2, <3>3
  <2> QED
    BY <2>2, <2>3 DEF FilesAreWritten, Rendered, Complete, Places
<1>5. ASSUME NEW s \in Servers, RenderCaddyfile(s) PROVE FilesAreWritten'
  BY <1>5 DEF RenderCaddyfile, FilesAreWritten, TypeOK
<1>6. CASE DeployFails
  BY <1>6 DEF DeployFails, FilesAreWritten, TypeOK
<1> QED
  BY <1>1, <1>2, <1>3, <1>4, <1>5, <1>6
  DEF Next, Run, Deploy, Caddy, CaddyRenews, StartRun, Attempt, Extract, Store,
      Trigger, RunFails, Push, Watch, Stop, Start

-----------------------------------------------------------------------------
(* Pairs are whole while nothing fails. *)

Prepared == HarvestIsOneRenewal /\ SecretsAreWhole /\ TakenAreWhole

LEMMA PreparedPreserved ==
    ASSUME TypeOK, ItemInRange, Prepared, Next, mishaps' = mishaps
    PROVE  Prepared'
<1> USE DEF servers, caddy, workflows, bounded
<1>1. ASSUME UNCHANGED <<source, run, secrets, deploy>>, Coming => Coming'
      PROVE  Prepared'
  BY <1>1 DEF Prepared, HarvestIsOneRenewal, SecretsAreWhole, TakenAreWhole,
              Midway, RunAt
<1>2. ~Mishap
  BY DEF Mishap, TypeOK
<1>3. ASSUME NEW n \in Names, CaddyRenews(n) PROVE Prepared'
  BY <1>2, <1>3
  DEF CaddyRenews, Prepared, HarvestIsOneRenewal, SecretsAreWhole,
      TakenAreWhole, Midway, Coming, RunAt
<1>4. CASE StartRun
  BY <1>2, <1>4
  DEF StartRun, Prepared, HarvestIsOneRenewal, SecretsAreWhole,
      TakenAreWhole, Midway, Coming, RunAt, TypeOK
<1>5. CASE Attempt
  <2>1. /\ run'.step \in {"attempt", "extract", "idle"}
        /\ run'.step # "attempt" => run'.pos = 1
    BY <1>5 DEF Attempt, TypeOK
  <2> QED
    BY <1>5, <2>1
    DEF Attempt, Prepared, HarvestIsOneRenewal, SecretsAreWhole,
        TakenAreWhole, Midway, Coming, RunAt, TypeOK
<1>6. CASE Extract
  <2> DEFINE place == run.pos
             n == Name(place)
             p == Part(place)
             record == [run EXCEPT !.harvest[n][p] = source[n]]
  <2>1. place \in Places /\ place <= Items(run.renewed)
    BY <1>6 DEF Extract, RunAt, TypeOK, ItemInRange
  <2>2. n \in Names /\ p \in Parts
    BY <2>1, ItemsExist DEF TypeOK
  <2>3. Proceed(record, "store")
    BY <1>2, <1>6 DEF Extract
  <2>4. /\ run'.renewed = run.renewed
        /\ run'.harvest = [run.harvest EXCEPT ![n][p] = source[n]]
        /\ \/ run'.step = "extract" /\ run'.pos = place + 1
           \/ /\ run'.step = "store" /\ run'.pos = 1
              /\ place >= Items(run.renewed)
    <3>1. record.pos = place /\ record.step = "extract"
      BY <1>6 DEF Extract, RunAt, TypeOK
    <3>2. /\ record.renewed = run.renewed
          /\ record.harvest = [run.harvest EXCEPT ![n][p] = source[n]]
      BY DEF TypeOK
    <3>3. CASE place < Items(run.renewed)
      <4>1. run' = [record EXCEPT !.pos = place + 1]
        BY <2>3, <3>1, <3>3 DEF Proceed
      <4> HIDE DEF record
      <4> QED
        BY <3>1, <3>2, <4>1 DEF TypeOK, record
    <3>4. CASE ~(place < Items(run.renewed))
      <4>1. run' = [record EXCEPT !.pos = 1, !.step = "store"]
        BY <2>3, <3>4 DEF Proceed
      <4>2. place >= Items(run.renewed)
        BY <2>1, <3>4, ItemsBound DEF Places
      <4> QED
        BY <3>2, <4>1, <4>2 DEF TypeOK
    <3> QED
      BY <3>3, <3>4
  <2>5. ASSUME NEW i \in Places, i <= place
        PROVE  run'.harvest[Name(i)][Part(i)] = source[Name(i)]
    <3>1. i <= Items(run.renewed)
      BY <2>1, <2>5, ItemsBound DEF Places
    <3>2. Name(i) \in Names /\ Part(i) \in Parts
      BY <3>1, ItemsExist DEF TypeOK
    <3>3. CASE i = place
      BY <2>2, <2>4, <3>3 DEF TypeOK, Pairs
    <3>4. CASE i # place
      <4>1. run.harvest[Name(i)][Part(i)] = source[Name(i)]
        <5>1. i < place
          BY <2>1, <2>5, <3>4 DEF Places
        <5> QED
          BY <1>6, <3>1, <5>1
          DEF Prepared, HarvestIsOneRenewal, Extract, Places
      <4>2. ~(Name(i) = n /\ Part(i) = p)
        BY <2>1, <3>4, PartsOfItems
      <4> QED
        BY <2>2, <2>4, <3>2, <4>1, <4>2 DEF TypeOK, Pairs
    <3> QED
      BY <3>3, <3>4
  <2>6. HarvestIsOneRenewal'
    <3>1. source' = source
      BY <1>6 DEF Extract
    <3>2. CASE run'.step = "extract"
      BY <2>1, <2>4, <2>5, <3>1, <3>2 DEF HarvestIsOneRenewal, RunAt, Places
    <3>3. CASE run'.step = "store"
      <4> SUFFICES ASSUME NEW i \in Places, i <= Items(run.renewed)
                   PROVE  Fits(run'.harvest[Name(i)])
        BY <2>4, <3>3 DEF HarvestIsOneRenewal, RunAt, Places
      <4>1. PICK j \in Places : /\ Name(j) = Name(i) /\ Part(j) = "crt"
                                /\ j <= Items(run.renewed)
        BY DEF Places, Name, Part, Items
      <4>2. PICK k \in Places : /\ Name(k) = Name(i) /\ Part(k) = "key"
                                /\ k <= Items(run.renewed)
        BY DEF Places, Name, Part, Items
      <4>3. i <= place /\ j <= place /\ k <= place
        BY <2>1, <2>4, <3>3, <4>1, <4>2, ItemsBound DEF Places
      <4>4. source[Name(i)] # 0
        BY ItemsExist DEF TypeOK, Renewals
      <4> QED
        BY <2>5, <4>1, <4>2, <4>3, <4>4 DEF Fits
    <3> QED
      BY <2>4, <3>2, <3>3
  <2>7. SecretsAreWhole'
    <3>1. \A m \in Names : ~Midway(m) /\ ~Midway(m)'
      BY <1>6, <2>4 DEF Extract, Midway, RunAt, Part
    <3> QED
      BY <1>6, <3>1 DEF Extract, Prepared, SecretsAreWhole
  <2>8. TakenAreWhole'
    BY <1>6, <2>4
    DEF Extract, Prepared, TakenAreWhole, Coming, RunAt
  <2> QED
    BY <2>6, <2>7, <2>8 DEF Prepared
<1>7. CASE Store
  <2> DEFINE place == run.pos
             n == Name(place)
             p == Part(place)
  <2>1. place \in Places /\ place <= Items(run.renewed)
    BY <1>7 DEF Store, RunAt, TypeOK, ItemInRange
  <2>2. n \in Names /\ p \in Parts
    BY <2>1, ItemsExist DEF TypeOK
  <2>3. secrets' = [secrets EXCEPT ![n][p] = run.harvest[n][p]]
    BY <1>7 DEF Store
  <2>4. /\ run'.renewed = run.renewed /\ run'.harvest = run.harvest
        /\ \/ run'.step = "store" /\ run'.pos = place + 1
              /\ place < Items(run.renewed)
           \/ run'.step = "trigger" /\ place >= Items(run.renewed)
    <3>1. CASE place < Items(run.renewed)
      BY <1>7, <3>1 DEF Store, RunAt, Proceed, TypeOK
    <3>2. CASE ~(place < Items(run.renewed))
      <4>1. place >= Items(run.renewed)
        BY <2>1, <3>2, ItemsBound DEF Places
      <4> QED
        BY <1>7, <3>2, <4>1 DEF Store, Proceed, TypeOK
    <3> QED
      BY <3>1, <3>2
  <2>5. Fits(run.harvest[n])
    BY <1>7, <2>1 DEF Prepared, HarvestIsOneRenewal, Store, Places
  <2>6. HarvestIsOneRenewal'
    BY <1>7, <2>4 DEF Prepared, HarvestIsOneRenewal, Store, RunAt
  <2>7. ASSUME NEW m \in Names
        PROVE  IF Midway(m)' THEN secrets'[m]["crt"] = run'.harvest[m]["crt"]
                             ELSE Whole(secrets'[m])
    <3>1. CASE p = "crt"
      <4>1. place \in {1, 3}
        BY <2>1, <3>1 DEF Part, Places
      <4>2. run'.step = "store" /\ run'.pos = place + 1
        BY <2>1, <2>4, <4>1 DEF Items
      <4>3. Name(place + 1) = n /\ Part(place + 1) = "key"
        BY <4>1 DEF Name, Part
      <4>4. CASE m = n
        BY <2>2, <2>3, <2>4, <3>1, <4>2, <4>3, <4>4
        DEF Midway, RunAt, TypeOK, Pairs
      <4>5. CASE m # n
        <5>1. ~Midway(m) /\ ~Midway(m)'
          BY <3>1, <4>2, <4>3, <4>5 DEF Midway
        <5> QED
          BY <2>3, <4>5, <5>1 DEF Prepared, SecretsAreWhole, TypeOK
      <4> QED
        BY <4>4, <4>5
    <3>2. CASE p = "key"
      <4>1. ~Midway(m)'
        <5>1. place \in {2, 4}
          BY <2>1, <3>2, PartsOfItems
        <5>2. Part(place + 1) = "crt" \/ place = 4
          BY <5>1 DEF Part
        <5> QED
          BY <2>1, <2>4, <5>1, <5>2, ItemsBound DEF Midway, RunAt, Part
      <4>2. CASE m = n
        <5>1. secrets[n]["crt"] = run.harvest[n]["crt"]
          BY <1>7, <2>2, <3>2 DEF Prepared, SecretsAreWhole, Midway, Store
        <5> QED
          BY <2>2, <2>3, <2>5, <3>2, <4>1, <4>2, <5>1
          DEF Whole, Fits, TypeOK, Pairs
      <4>3. CASE m # n
        BY <2>3, <4>1, <4>3 DEF Prepared, SecretsAreWhole, Midway, TypeOK
      <4> QED
        BY <4>2, <4>3
    <3> QED
      BY <2>2, <3>1, <3>2 DEF Parts
  <2>8. TakenAreWhole'
    BY <1>7, <2>4 DEF Store, TakenAreWhole, Coming, RunAt
  <2> QED
    BY <2>6, <2>7, <2>8 DEF Prepared, SecretsAreWhole
<1>8. CASE Trigger
  BY <1>8
  DEF Trigger, RunGoes, Prepared, HarvestIsOneRenewal, SecretsAreWhole,
      TakenAreWhole, Midway, Coming, RunAt, TypeOK
<1>9. CASE RunFails \/ DeployFails
  BY <1>2, <1>9 DEF RunFails, DeployFails
<1>10. CASE Push
  BY <1>1, <1>10 DEF Push, Coming
<1>11. CASE StartDeploy
  BY <1>11
  DEF StartDeploy, Prepared, HarvestIsOneRenewal, SecretsAreWhole,
      TakenAreWhole, Midway, Coming, RunAt
<1>12. ASSUME NEW s \in Servers,
              Reach(s) \/ RenderFile(s) \/ RenderCaddyfile(s)
       PROVE  Prepared'
  <2>1. deploy'.taken = deploy.taken
    BY <1>12 DEF Reach, RenderFile, RenderCaddyfile, TypeOK
  <2> QED
    BY <1>12, <2>1
    DEF Reach, RenderFile, RenderCaddyfile, Prepared, HarvestIsOneRenewal,
        SecretsAreWhole, TakenAreWhole, Midway, Coming, RunAt
<1>13. ASSUME NEW s \in Servers, Caddy(s) \/ Stop(s) PROVE Prepared'
  BY <1>1, <1>13 DEF Caddy, Watch, Start, Stop, Coming, RunAt
<1> QED
  BY <1>3, <1>4, <1>5, <1>6, <1>7, <1>8, <1>9, <1>10, <1>11, <1>12, <1>13
  DEF Next, Run, Deploy

-----------------------------------------------------------------------------
(* A configuration that does not load has a deploy coming.                 *)

\* The Caddyfile names a certificate only if its pair is complete; with whole
\* pairs, what the script has written by then fits.
LEMMA RenderedLoads ==
    ASSUME TypeOK, FilesAreWritten, NEW s \in Servers, RenderCaddyfile(s),
           \A n \in Names : Whole(deploy.taken[n])
    PROVE  Loadable(s)'
<1>1. /\ static'[s] = {n \in Names : Complete(n)}
      /\ files' = files
  BY DEF RenderCaddyfile, TypeOK, servers
<1> SUFFICES ASSUME NEW n \in Names, Complete(n) PROVE Fits(files[s][n])
  BY <1>1 DEF Loadable
<1>2. PICK j \in Places : Name(j) = n /\ Part(j) = "crt" /\ j <= Items(Names)
  BY DEF Places, Name, Part, Items
<1>3. PICK k \in Places : Name(k) = n /\ Part(k) = "key" /\ k <= Items(Names)
  BY DEF Places, Name, Part, Items
<1>4. j < deploy.pos /\ k < deploy.pos
  <2>1. deploy.pos \in Nat
    BY DEF TypeOK, Places
  <2> QED
    BY <1>2, <1>3, <2>1, ItemsBound DEF RenderCaddyfile, Places
<1>5. /\ files[s][n]["crt"] = Rendered(n, "crt")
      /\ files[s][n]["key"] = Rendered(n, "key")
  BY <1>2, <1>3, <1>4 DEF FilesAreWritten, RenderCaddyfile, Places
<1> QED
  BY <1>5 DEF Rendered, Complete, Whole, Fits, Parts

LEMMA RepairedPreserved ==
    ASSUME TypeOK, FilesAreWritten, TakenAreWhole, Next, mishaps' = mishaps,
           \A s \in Servers : Loadable(s) \/ Repairing(s)
    PROVE  \A s \in Servers : Loadable(s)' \/ Repairing(s)'
<1> USE DEF servers, caddy, workflows, bounded
<1>1. ~Mishap
  BY DEF Mishap, TypeOK
<1>2. ASSUME UNCHANGED <<files, static, deploy>>, Coming => Coming'
      PROVE  \A s \in Servers : Loadable(s)' \/ Repairing(s)'
  BY <1>2 DEF Loadable, Repairing, Coming
<1>3. CASE \E n \in Names : CaddyRenews(n)
  BY <1>2, <1>3 DEF CaddyRenews, Coming, RunAt
<1>4. CASE StartRun \/ RunFails
  BY <1>1, <1>2, <1>4 DEF StartRun, RunFails, Coming, RunAt
<1>5. CASE Attempt \/ Extract
  BY <1>2, <1>5 DEF Attempt, Extract, Coming, RunAt
<1>6. CASE Store
  <2>1. run'.step \in {"store", "trigger"}
    BY <1>6 DEF Store, RunAt, Proceed, TypeOK
  <2> QED
    BY <1>2, <1>6, <2>1 DEF Store, Coming, RunAt
<1>7. CASE Trigger \/ Push
  BY <1>2, <1>7 DEF Trigger, Push, Coming
<1>8. CASE StartDeploy
  BY <1>8 DEF StartDeploy, Repairing, Servers
<1>9. CASE DeployFails
  BY <1>1, <1>9 DEF DeployFails
<1>10. ASSUME NEW t \in Servers, Reach(t)
       PROVE  \A s \in Servers : Loadable(s)' \/ Repairing(s)'
  BY <1>10 DEF Reach, Loadable, Repairing, RunAt, TypeOK
<1>11. ASSUME NEW t \in Servers, RenderFile(t), NEW s \in Servers
       PROVE  Loadable(s)' \/ Repairing(s)'
  <2>1. deploy'.step = "render" /\ deploy'.at = t
    BY <1>11 DEF RenderFile, TypeOK
  <2>2. CASE s = t
    BY <2>1, <2>2 DEF Repairing, Servers
  <2>3. CASE s # t
    BY <1>11, <2>1, <2>3 DEF RenderFile, Loadable, Repairing, RunAt, TypeOK
  <2> QED
    BY <2>2, <2>3
<1>12. ASSUME NEW t \in Servers, RenderCaddyfile(t), NEW s \in Servers
       PROVE  Loadable(s)' \/ Repairing(s)'
  <2>1. CASE Coming
    BY <1>12, <2>1 DEF RenderCaddyfile, Coming, Repairing, RunAt
  <2>2. CASE ~Coming /\ s = t
    BY <1>12, <2>2, RenderedLoads DEF TakenAreWhole
  <2>3. CASE ~Coming /\ s < t
    <3>1. Loadable(s)
      BY <1>12, <2>3 DEF Repairing, Coming, RenderCaddyfile, Servers
    <3> QED
      BY <1>12, <2>3, <3>1 DEF RenderCaddyfile, Loadable, TypeOK, Servers
  <2>4. CASE ~Coming /\ s > t
    <3>1. deploy'.step # "idle" /\ deploy'.at = t + 1
      BY <1>12, <2>4 DEF RenderCaddyfile, TypeOK, Servers
    <3> QED
      BY <2>4, <3>1 DEF Repairing, Servers
  <2> QED
    BY <2>1, <2>2, <2>3, <2>4 DEF Servers
<1>13. ASSUME NEW t \in Servers, Caddy(t) \/ Stop(t)
       PROVE  \A s \in Servers : Loadable(s)' \/ Repairing(s)'
  BY <1>2, <1>13 DEF Caddy, Watch, Start, Stop, Coming, RunAt
<1> QED
  BY <1>3, <1>4, <1>5, <1>6, <1>7, <1>8, <1>9, <1>10, <1>11, <1>12, <1>13
  DEF Next, Run, Deploy

-----------------------------------------------------------------------------
LEMMA IInvPreserved == IInv /\ [Next]_vars => IInv'
<1> SUFFICES ASSUME IInv, [Next]_vars PROVE IInv'
  OBVIOUS
<1>1. TypeOK' /\ ItemInRange' /\ FilesAreWritten'
  BY TypesPreserved, FilesPreserved DEF IInv
<1>2. mishaps' = 0 => mishaps = 0 /\ mishaps' = mishaps
  <2>1. mishaps' = mishaps \/ Mishap
    BY DEF Next, Run, Deploy, Caddy, CaddyRenews, StartRun, Attempt, Extract,
           Store, Trigger, RunFails, Push, StartDeploy, Reach, RenderFile,
           RenderCaddyfile, DeployFails, Watch, Stop, Start, vars, servers,
           caddy, workflows, bounded
  <2> QED
    BY <2>1 DEF Mishap, IInv, TypeOK
<1>3. ASSUME mishaps' = 0
      PROVE  Prepared' /\ \A s \in Servers : Loadable(s)' \/ Repairing(s)'
  <2>1. Prepared /\ \A s \in Servers : Loadable(s) \/ Repairing(s)
    BY <1>2, <1>3 DEF IInv, Prepared, MixturesAreRepaired
  <2>2. CASE Next
    BY <1>2, <1>3, <2>1, <2>2, PreparedPreserved, RepairedPreserved
    DEF IInv, Prepared
  <2>3. CASE UNCHANGED vars
    BY <2>1, <2>3
    DEF vars, servers, caddy, workflows, bounded, Prepared,
        HarvestIsOneRenewal, SecretsAreWhole, TakenAreWhole, Midway, Coming,
        RunAt, Loadable, Repairing
  <2> QED
    BY <2>2, <2>3
<1> QED
  BY <1>1, <1>3 DEF IInv, Prepared, MixturesAreRepaired

\* The inductive invariant, for any number of servers, renewals and faults.
THEOREM InvariantHolds == Spec => []IInv
BY InitIInv, IInvPreserved, PTL DEF Spec

\* Types: in particular, scripts stay within their items.
THEOREM TypeCorrect == Spec => []TypeOK
<1>1. IInv => TypeOK
  BY DEF IInv
<1> QED
  BY <1>1, InvariantHolds, PTL

\* While no step fails, a server whose configuration does not load has a
\* deploy on its way, however pushes, renewals and deploys overlap.
THEOREM MixturesAreRepairedHolds == Spec => []MixturesAreRepaired
<1>1. IInv => MixturesAreRepaired
  BY DEF IInv
<1> QED
  BY <1>1, InvariantHolds, PTL

-----------------------------------------------------------------------------
(* What no deploy is about to change is what the secrets say.              *)

\* Between two gh secret set the workflow still has a deploy to start.
LEMMA SettledIsWhole ==
    ASSUME SecretsAreWhole, ~Coming, NEW n \in Names
    PROVE  Whole(secrets[n])
BY DEF SecretsAreWhole, Midway, Coming

\* A script that has gone through its items has written every pair, and the
\* Caddyfile names the ones that exist.
LEMMA RenderedDelivers ==
    ASSUME TypeOK, FilesAreWritten, SecretsAreWhole, ~Coming,
           deploy.taken = secrets, NEW s \in Servers, RenderCaddyfile(s)
    PROVE  Delivered(s)'
<1>1. /\ static'[s] = {n \in Names : Complete(n)}
      /\ files' = files /\ secrets' = secrets
      /\ deploy.step = "render" /\ deploy.at = s
      /\ deploy.pos > Items(Names) /\ deploy.pos \in Nat
  BY DEF RenderCaddyfile, TypeOK, servers, Places
<1>2. files[s] \in [Names -> Pairs] /\ secrets \in [Names -> Pairs]
  BY DEF TypeOK
<1>3. ASSUME NEW n \in Names
      PROVE  /\ files[s][n] = secrets[n]
             /\ Complete(n) <=> Fits(secrets[n])
  <2>1. \A p \in Parts : \E i \in Places : /\ Name(i) = n /\ Part(i) = p
                                           /\ i <= Items(Names)
    BY DEF Places, Name, Part, Items, Parts
  <2>2. ASSUME NEW p \in Parts PROVE files[s][n][p] = Rendered(n, p)
    <3>1. PICK i \in Places : /\ Name(i) = n /\ Part(i) = p
                              /\ i <= Items(Names)
      BY <2>1
    <3>2. i < deploy.pos
      BY <1>1, <3>1, ItemsBound DEF Places
    <3> QED
      BY <1>1, <3>1, <3>2 DEF FilesAreWritten, Places
  <2>3. /\ secrets[n]["crt"] = secrets[n]["key"]
        /\ Complete(n) <=> secrets[n]["crt"] # 0
    BY <1>3, SettledIsWhole DEF Whole, Complete, Parts
  <2>4. \A p \in Parts : files[s][n][p] = secrets[n][p]
    BY <2>2, <2>3 DEF Rendered, Parts
  <2>5. files[s][n] \in [Parts -> Numbers] /\ secrets[n] \in [Parts -> Numbers]
    BY <1>2 DEF Pairs
  <2>6. files[s][n] = secrets[n]
    BY <2>4, <2>5
  <2> QED
    BY <2>3, <2>6 DEF Fits
<1>4. files[s] = secrets
  BY <1>2, <1>3
<1>5. static'[s] = {n \in Names : Fits(secrets[n])}
  BY <1>1, <1>3
<1> QED
  BY <1>1, <1>4, <1>5 DEF Delivered

\* Every store of a secret is followed by a deploy, and a deploy takes the
\* secrets when it starts.
LEMMA TakenStaysCurrent ==
    ASSUME TypeOK, TakenAreCurrent, Next, mishaps' = mishaps
    PROVE  TakenAreCurrent'
<1> USE DEF servers, caddy, workflows, bounded
<1>1. ~Mishap
  BY DEF Mishap, TypeOK
<1>2. ASSUME UNCHANGED <<secrets, deploy>>, Coming => Coming'
      PROVE  TakenAreCurrent'
  BY <1>2 DEF TakenAreCurrent
<1>3. CASE \/ \E n \in Names : CaddyRenews(n)
           \/ StartRun \/ RunFails \/ Attempt \/ Extract
  BY <1>1, <1>2, <1>3
     DEF CaddyRenews, StartRun, RunFails, Attempt, Extract, Coming, RunAt
<1>4. CASE Store
  <2>1. run'.step \in {"store", "trigger"}
    BY <1>4 DEF Store, RunAt, Proceed, TypeOK
  <2> QED
    BY <2>1 DEF TakenAreCurrent, Coming, RunAt
<1>5. CASE Trigger \/ Push
  BY <1>5 DEF Trigger, Push, TakenAreCurrent, Coming
<1>6. CASE StartDeploy
  BY <1>6 DEF StartDeploy, TakenAreCurrent
<1>7. ASSUME NEW s \in Servers,
             Reach(s) \/ RenderFile(s) \/ RenderCaddyfile(s)
      PROVE  TakenAreCurrent'
  <2>1. deploy'.taken = deploy.taken
    BY <1>7 DEF Reach, RenderFile, RenderCaddyfile, TypeOK
  <2> QED
    BY <1>7, <2>1
       DEF Reach, RenderFile, RenderCaddyfile, TakenAreCurrent, Coming, RunAt
<1>8. CASE DeployFails
  BY <1>1, <1>8 DEF DeployFails
<1>9. ASSUME NEW s \in Servers, Caddy(s) \/ Stop(s) PROVE TakenAreCurrent'
  BY <1>2, <1>9 DEF Caddy, Watch, Start, Stop, Coming, RunAt
<1> QED
  BY <1>3, <1>4, <1>5, <1>6, <1>7, <1>8, <1>9 DEF Next, Run, Deploy

LEMMA DeliveredPreserved ==
    ASSUME TypeOK, FilesAreWritten, SecretsAreWhole, TakenAreCurrent, Next,
           mishaps' = mishaps,
           \A s \in Servers : Delivered(s) \/ Repairing(s)
    PROVE  \A s \in Servers : Delivered(s)' \/ Repairing(s)'
<1> USE DEF servers, caddy, workflows, bounded
<1>1. ~Mishap
  BY DEF Mishap, TypeOK
<1>2. ASSUME UNCHANGED <<files, static, secrets, deploy>>, Coming => Coming'
      PROVE  \A s \in Servers : Delivered(s)' \/ Repairing(s)'
  BY <1>2 DEF Delivered, Repairing, Coming
<1>3. CASE \/ \E n \in Names : CaddyRenews(n)
           \/ StartRun \/ RunFails \/ Attempt \/ Extract
  BY <1>1, <1>2, <1>3
     DEF CaddyRenews, StartRun, RunFails, Attempt, Extract, Coming, RunAt
<1>4. CASE Store
  <2>1. run'.step \in {"store", "trigger"}
    BY <1>4 DEF Store, RunAt, Proceed, TypeOK
  <2> QED
    BY <2>1 DEF Repairing, RunAt
<1>5. CASE Trigger \/ Push
  BY <1>5 DEF Trigger, Push, Repairing
<1>6. CASE StartDeploy
  BY <1>6 DEF StartDeploy, Repairing, Servers
<1>7. CASE DeployFails
  BY <1>1, <1>7 DEF DeployFails
<1>8. ASSUME NEW t \in Servers, Reach(t)
      PROVE  \A s \in Servers : Delivered(s)' \/ Repairing(s)'
  BY <1>8 DEF Reach, Delivered, Repairing, RunAt, TypeOK
<1>9. ASSUME NEW t \in Servers, RenderFile(t), NEW s \in Servers
      PROVE  Delivered(s)' \/ Repairing(s)'
  <2>1. deploy'.step = "render" /\ deploy'.at = t
    BY <1>9 DEF RenderFile, TypeOK
  <2>2. CASE s = t
    BY <2>1, <2>2 DEF Repairing, Servers
  <2>3. CASE s # t
    <3>1. /\ files'[s] = files[s] /\ static' = static /\ secrets' = secrets
          /\ run' = run /\ waiting' = waiting
      BY <1>9, <2>3 DEF RenderFile, TypeOK
    <3> QED
      BY <1>9, <2>1, <3>1 DEF RenderFile, Delivered, Repairing, RunAt
  <2> QED
    BY <2>2, <2>3
<1>10. ASSUME NEW t \in Servers, RenderCaddyfile(t), NEW s \in Servers
       PROVE  Delivered(s)' \/ Repairing(s)'
  <2>1. CASE Coming
    BY <1>10, <2>1 DEF RenderCaddyfile, Coming, Repairing, RunAt
  <2>2. CASE ~Coming /\ s = t
    BY <1>10, <2>2, RenderedDelivers DEF TakenAreCurrent
  <2>3. CASE ~Coming /\ s < t
    <3>1. Delivered(s)
      BY <1>10, <2>3 DEF Repairing, Coming, RenderCaddyfile, Servers
    <3>2. /\ files' = files /\ secrets' = secrets
          /\ static'[s] = static[s]
      BY <1>10, <2>3 DEF RenderCaddyfile, TypeOK, Servers
    <3> QED
      BY <3>1, <3>2 DEF Delivered
  <2>4. CASE ~Coming /\ s > t
    <3>1. deploy'.step # "idle" /\ deploy'.at = t + 1
      BY <1>10, <2>4 DEF RenderCaddyfile, TypeOK, Servers
    <3> QED
      BY <2>4, <3>1 DEF Repairing, Servers
  <2> QED
    BY <2>1, <2>2, <2>3, <2>4 DEF Servers
<1>11. ASSUME NEW t \in Servers, Caddy(t) \/ Stop(t)
       PROVE  \A s \in Servers : Delivered(s)' \/ Repairing(s)'
  BY <1>2, <1>11 DEF Caddy, Watch, Start, Stop, Coming, RunAt
<1> QED
  BY <1>3, <1>4, <1>5, <1>6, <1>7, <1>8, <1>9, <1>10, <1>11
     DEF Next, Run, Deploy

LEMMA DeliveryAtFirst == Init => DeliveryIInv
<1> SUFFICES ASSUME Init PROVE DeliveryIInv
  OBVIOUS
<1>1. TakenAreCurrent
  BY DEF Init, TakenAreCurrent
<1>2. \A s \in Servers : Delivered(s)
  BY DEF Init, Delivered
<1> QED
  BY <1>1, <1>2, InitIInv DEF DeliveryIInv, SecretsAreDelivered

LEMMA DeliveryPreserved ==
    DeliveryIInv /\ [Next]_vars => DeliveryIInv'
<1> SUFFICES ASSUME DeliveryIInv, [Next]_vars PROVE DeliveryIInv'
  OBVIOUS
<1>1. IInv /\ IInv'
  BY IInvPreserved DEF DeliveryIInv
<1>2. ASSUME mishaps' = 0
      PROVE  /\ TakenAreCurrent'
             /\ \A s \in Servers : Delivered(s)' \/ Repairing(s)'
  <2>1. mishaps = 0
    <3>1. mishaps' = mishaps \/ Mishap
      BY DEF Next, Run, Deploy, Caddy, CaddyRenews, StartRun, Attempt,
             Extract, Store, Trigger, RunFails, Push, StartDeploy, Reach,
             RenderFile, RenderCaddyfile, DeployFails, Watch, Stop, Start,
             vars, servers, caddy, workflows, bounded
    <3> QED
      BY <1>1, <1>2, <3>1 DEF Mishap, IInv, TypeOK
  <2>2. /\ TakenAreCurrent /\ SecretsAreWhole
        /\ \A s \in Servers : Delivered(s) \/ Repairing(s)
    BY <1>1, <2>1 DEF DeliveryIInv, IInv, SecretsAreDelivered
  <2>3. CASE Next
    BY <1>1, <1>2, <2>1, <2>2, <2>3, TakenStaysCurrent, DeliveredPreserved
       DEF IInv
  <2>4. CASE UNCHANGED vars
    BY <2>2, <2>4
       DEF vars, servers, caddy, workflows, bounded, TakenAreCurrent, Coming,
           RunAt, Delivered, Repairing
  <2> QED
    BY <2>3, <2>4
<1> QED
  BY <1>1, <1>2 DEF DeliveryIInv, SecretsAreDelivered

\* While no step fails, what is in the secrets is on every server to which no
\* deploy is on its way, files and directives (deploy-infra.yml,
\* render-infra-caddyfile.sh), for any number of servers, renewals and pushes.
THEOREM SecretsAreDeliveredHolds == Spec => []SecretsAreDelivered
<1>1. DeliveryIInv => SecretsAreDelivered
  BY DEF DeliveryIInv
<1> QED
  BY <1>1, DeliveryAtFirst, DeliveryPreserved, PTL DEF Spec
=============================================================================
