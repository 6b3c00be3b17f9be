---------------------------- MODULE CertRenewal -----------------------------
(***************************************************************************)
(* The certificates of nofeebooking.com and www.nofeebooking.com.  Server 1 *)
(* renews them; once a month a workflow harvests what was renewed, stores  *)
(* certificate and key as secrets, one after the other, and starts the     *)
(* infra deploy, which also runs on every push.  A deploy takes all secrets *)
(* when it starts and renders files and Caddyfile on one server after the  *)
(* other; their Caddy watches its Caddyfile.                               *)
(*                                                                         *)
(* A certificate, and the key that fits it, is the number of its renewal;  *)
(* 0 is an empty secret or a file that does not exist.                     *)
(*                                                                         *)
(* External: GitHub runs one workflow of a concurrency group, keeps at most *)
(* one waiting, and hands out secrets when a job starts.  Caddy refuses a  *)
(* configuration whose certificate and key do not fit.  It loads one when  *)
(* it starts and when the Caddyfile differs from the one it saw last; the  *)
(* files a Caddyfile names may change unnoticed.                           *)
(*                                                                         *)
(* Simplifications: the first server of the loop, the source, is left out, *)
(* for its static files are removed; Caddy, which looks at its Caddyfile   *)
(* every second, has done so before another deploy comes by.               *)
(***************************************************************************)
EXTENDS Naturals, FiniteSets

CONSTANTS Names,       \* the host names, "apex" and perhaps "www"
          NumServers,  \* the servers with static certificates
          MaxRenewal,  \* bound: number of the last renewal of each name
          MaxPushes,   \* bound: pushes that change infra/
          MaxMishaps,  \* bound: failing steps, renewals amid a harvest
          MaxRestarts  \* bound: restarts of Caddy

ASSUME ConstantsAssumption ==
    /\ Names \in {{"apex"}, {"apex", "www"}}
    /\ NumServers \in Nat \ {0}
    /\ MaxRenewal \in Nat \ {0}
    /\ MaxPushes \in Nat
    /\ MaxMishaps \in Nat
    /\ MaxRestarts \in Nat

Servers == 1..NumServers
Attempts == 3

\* The scripts go through the certificate and the key of each name, in order.
Parts == {"crt", "key"}
Name(i) == IF i <= 2 THEN "apex" ELSE "www"
Part(i) == IF i \in {1, 3} THEN "crt" ELSE "key"
Items(names) == IF "www" \in names THEN 4 ELSE 2

Renewals == 1..MaxRenewal
Numbers == Renewals \cup {0}
Pair(number) == [p \in Parts |-> number]
NoHarvest == [n \in Names |-> Pair(0)]
Fits(pair) == pair["crt"] = pair["key"] /\ pair["crt"] # 0

VARIABLES source,    \* source[n]: latest renewal of n on server 1
          run,       \* the renewal workflow
          secrets,   \* secrets[n]: [crt, key]
          waiting,   \* an infra deploy waits for the one that runs
          deploy,    \* the infra deploy
          files,     \* files[s][n]: [crt, key] in runtime/tls
          static,    \* static[s]: the names with a directive in the Caddyfile
          seen,      \* seen[s]: static[s] when Caddy looked at it last
          serving,   \* serving[s][n]: what Caddy serves, 0 without a pair
          up,        \* servers whose Caddy runs
          pushes, mishaps, restarts

servers == <<files, static>>
caddy == <<seen, serving, up, restarts>>
workflows == <<source, run, secrets, waiting, deploy>>
bounded == <<pushes, mishaps>>
vars == <<workflows, servers, caddy, bounded>>

Init ==
    /\ source = [n \in Names |-> 1]
    /\ run = [step |-> "idle", pos |-> 1, before |-> source, renewed |-> {},
              harvest |-> NoHarvest]
    /\ secrets \in {[n \in Names |-> Pair(0)], [n \in Names |-> Pair(1)]}
    /\ waiting = FALSE
    /\ deploy = [step |-> "idle", at |-> 1, pos |-> 1, taken |-> secrets]
    /\ files = [s \in Servers |-> secrets]
    /\ static = [s \in Servers |-> {n \in Names : Fits(secrets[n])}]
    /\ seen = static
    /\ serving = [s \in Servers |-> [n \in Names |-> secrets[n]["crt"]]]
    /\ up = Servers
    /\ pushes = 0
    /\ mishaps = 0
    /\ restarts = 0

Mishap == mishaps < MaxMishaps /\ mishaps' = mishaps + 1

-----------------------------------------------------------------------------
(* renew-nofeebooking-cert.yml *)

RunAt(step) == run.step = step
RunGoes(step) == run' = [run EXCEPT !.step = step, !.pos = 1]

\* Caddy renews a certificate, told to by the workflow or by itself.  While
\* the workflow harvests, this is a mishap.
CaddyRenews(n) ==
    /\ source[n] < MaxRenewal
    /\ source' = [source EXCEPT ![n] = @ + 1]
    /\ IF RunAt("extract") THEN Mishap ELSE UNCHANGED mishaps
    /\ UNCHANGED <<run, secrets, waiting, deploy, servers, caddy, pushes>>

\* BEFORE and WWW_BEFORE; what cannot be read counts as none.
StartRun ==
    /\ RunAt("idle")
    /\ \/ /\ run' = [run EXCEPT !.step = "attempt", !.pos = 1,
                             !.before = source, !.renewed = {}]
          /\ UNCHANGED mishaps
       \/ /\ Mishap
          /\ \E n \in Names :
               run' = [run EXCEPT !.step = "attempt", !.pos = 1,
                           !.before = [source EXCEPT ![n] = 0], !.renewed = {}]
    /\ UNCHANGED <<source, secrets, waiting, deploy, servers, caddy, pushes>>

\* AFTER and WWW_AFTER of one of three attempts.  What cannot be read does
\* not count as renewed; the run needs the apex, and www is optional.
Attempt ==
    /\ RunAt("attempt")
    /\ \E readable \in SUBSET Names :
       LET renewed == run.renewed
                        \cup {n \in readable : source[n] # run.before[n]}
           next == IF renewed = Names THEN "extract"
                   ELSE IF run.pos < Attempts THEN "attempt"
                   ELSE IF "apex" \in renewed THEN "extract" ELSE "idle"
       IN  /\ run' = [run EXCEPT !.renewed = renewed, !.step = next,
                                 !.harvest = NoHarvest,
                                 !.pos = IF next = "attempt" THEN @ + 1 ELSE 1]
           /\ IF readable = Names THEN UNCHANGED mishaps ELSE Mishap
    /\ UNCHANGED <<source, secrets, waiting, deploy, servers, caddy, pushes>>

\* The workflow goes on to the next of its items, or to its next step.
Proceed(record, step) ==
    IF run.pos < Items(run.renewed)
      THEN run' = [record EXCEPT !.pos = @ + 1]
      ELSE run' = [record EXCEPT !.pos = 1, !.step = step]

\* docker exec ... cat of one file; when only that fails, the pipe behind it
\* succeeds and the value is empty.
Extract ==
    /\ RunAt("extract")
    /\ LET n == Name(run.pos)
           p == Part(run.pos)
           Read(value) == Proceed([run EXCEPT !.harvest[n][p] = value], "store")
       IN  \/ Read(source[n]) /\ UNCHANGED mishaps
           \/ Read(0) /\ Mishap
    /\ UNCHANGED <<source, secrets, waiting, deploy, servers, caddy, pushes>>

\* A workflow that starts the deploy with the first secret.
EagerStore ==
    /\ RunAt("store")
    /\ LET n == Name(run.pos)
           p == Part(run.pos)
       IN  secrets' = [secrets EXCEPT ![n][p] = run.harvest[n][p]]
    /\ Proceed(run, "idle")
    /\ waiting' = IF run.pos = 1 THEN TRUE ELSE waiting
    /\ UNCHANGED <<source, deploy, servers, caddy, bounded>>

\* gh secret set
Store ==
    /\ RunAt("store")
    /\ LET n == Name(run.pos)
           p == Part(run.pos)
       IN  secrets' = [secrets EXCEPT ![n][p] = run.harvest[n][p]]
    /\ Proceed(run, "trigger")
    /\ UNCHANGED <<source, waiting, deploy, servers, caddy, bounded>>

\* A workflow that starts no deploy when one is running.
TimidTrigger ==
    /\ RunAt("trigger")
    /\ waiting' = (waiting \/ deploy.step = "idle")
    /\ RunGoes("idle")
    /\ UNCHANGED <<source, secrets, deploy, servers, caddy, bounded>>

\* gh workflow run deploy-infra.yml
Trigger ==
    /\ RunAt("trigger")
    /\ waiting' = TRUE
    /\ RunGoes("idle")
    /\ UNCHANGED <<source, secrets, deploy, servers, caddy, bounded>>

\* ssh or gh fails, and the run ends where it is.
RunFails ==
    /\ run.step \in {"extract", "store", "trigger"}
    /\ Mishap
    /\ RunGoes("idle")
    /\ UNCHANGED <<source, secrets, waiting, deploy, servers, caddy, pushes>>

-----------------------------------------------------------------------------
(* deploy-infra.yml and render-infra-caddyfile.sh *)

Push ==
    /\ pushes < MaxPushes
    /\ pushes' = pushes + 1
    /\ waiting' = TRUE
    /\ UNCHANGED <<source, run, secrets, deploy, servers, caddy, mishaps>>

StartDeploy ==
    /\ waiting
    /\ deploy.step = "idle"
    /\ waiting' = FALSE
    /\ deploy' = [step |-> "reach", at |-> 1, pos |-> 1, taken |-> secrets]
    /\ UNCHANGED <<source, run, secrets, servers, caddy, bounded>>

\* mkdir, scp, ssh
Reach(s) ==
    /\ deploy.step = "reach" /\ deploy.at = s
    /\ s \in up => seen[s] = static[s]
    /\ deploy' = [deploy EXCEPT !.step = "render"]
    /\ UNCHANGED <<source, run, secrets, waiting, servers, caddy, bounded>>

Complete(n) == \A p \in Parts : deploy.taken[n][p] # 0
Rendered(n, p) == IF Complete(n) THEN deploy.taken[n][p] ELSE 0

\* A script that writes certificates and leaves the keys as they are.
LeavingRenderFile(s) ==
    /\ deploy.step = "render" /\ deploy.at = s
    /\ deploy.pos <= Items(Names)
    /\ LET n == Name(deploy.pos)
           p == Part(deploy.pos)
       IN  files' = [files EXCEPT ![s][n][p] =
                         IF p = "crt" THEN deploy.taken[n][p] ELSE @]
    /\ deploy' = [deploy EXCEPT !.pos = @ + 1]
    /\ UNCHANGED <<source, run, secrets, waiting, static, caddy, bounded>>

\* One file is written, or removed when the pair is not complete.
RenderFile(s) ==
    /\ deploy.step = "render" /\ deploy.at = s
    /\ deploy.pos <= Items(Names)
    /\ LET n == Name(deploy.pos)
           p == Part(deploy.pos)
       IN  files' = [files EXCEPT ![s][n][p] = Rendered(n, p)]
    /\ deploy' = [deploy EXCEPT !.pos = @ + 1]
    /\ UNCHANGED <<source, run, secrets, waiting, static, caddy, bounded>>

\* The Caddyfile comes last; then docker compose up, which finds Caddy
\* unchanged, and the loop goes on.
RenderCaddyfile(s) ==
    /\ deploy.step = "render" /\ deploy.at = s
    /\ deploy.pos > Items(Names)
    /\ static' = [static EXCEPT ![s] = {n \in Names : Complete(n)}]
    /\ deploy' = IF s = NumServers
                   THEN [deploy EXCEPT !.step = "idle", !.pos = 1]
                   ELSE [deploy EXCEPT !.step = "reach", !.pos = 1,
                                       !.at = s + 1]
    /\ UNCHANGED <<source, run, secrets, waiting, files, caddy, bounded>>

\* A server cannot be reached, or the script fails; the job ends there.
DeployFails ==
    /\ deploy.step # "idle"
    /\ Mishap
    /\ deploy' = [deploy EXCEPT !.step = "idle", !.pos = 1]
    /\ UNCHANGED <<source, run, secrets, waiting, servers, caddy, pushes>>

-----------------------------------------------------------------------------
(* Caddy on the servers with static certificates. *)

Loadable(s) == \A n \in static[s] : Fits(files[s][n])
Loaded(s) ==
    [n \in Names |-> IF n \in static[s] THEN files[s][n]["crt"] ELSE 0]

\* --watch: what does not load is not tried again.
Watch(s) ==
    /\ s \in up
    /\ seen[s] # static[s]
    /\ seen' = [seen EXCEPT ![s] = static[s]]
    /\ serving' = IF Loadable(s)
                    THEN [serving EXCEPT ![s] = Loaded(s)]
                    ELSE serving
    /\ UNCHANGED <<workflows, servers, up, restarts, bounded>>

Stop(s) ==
    /\ s \in up
    /\ restarts < MaxRestarts
    /\ restarts' = restarts + 1
    /\ up' = up \ {s}
    /\ serving' = [serving EXCEPT ![s] = [n \in Names |-> 0]]
    /\ UNCHANGED <<workflows, servers, seen, bounded>>

\* restart: always, again and again until the configuration loads
Start(s) ==
    /\ s \notin up
    /\ Loadable(s)
    /\ up' = up \cup {s}
    /\ serving' = [serving EXCEPT ![s] = Loaded(s)]
    /\ seen' = [seen EXCEPT ![s] = static[s]]
    /\ UNCHANGED <<workflows, servers, restarts, bounded>>

Run == Attempt \/ Extract \/ Store \/ Trigger
Deploy ==
    \/ StartDeploy
    \/ \E s \in Servers : Reach(s) \/ RenderFile(s) \/ RenderCaddyfile(s)
Caddy(s) == Watch(s) \/ Start(s)

Next ==
    \/ StartRun \/ Run \/ RunFails
    \/ Push \/ Deploy \/ DeployFails
    \/ \E n \in Names : CaddyRenews(n)
    \/ \E s \in Servers : Caddy(s) \/ Stop(s)

Spec == Init /\ [][Next]_vars
FairSpec ==
    /\ Spec
    /\ WF_vars(Run) /\ WF_vars(Deploy)
    /\ \A s \in Servers : WF_vars(Caddy(s))

-----------------------------------------------------------------------------
Pairs == [Parts -> Numbers]
Places == 1..4

TypeOK ==
    /\ source \in [Names -> Renewals]
    /\ run \in [step: {"idle", "attempt", "extract", "store", "trigger"},
                pos: Places, before: [Names -> Numbers], renewed: SUBSET Names,
                harvest: [Names -> Pairs]]
    /\ secrets \in [Names -> Pairs]
    /\ waiting \in {TRUE, FALSE}
    /\ deploy \in [step: {"idle", "reach", "render"}, at: Servers, pos: Places \cup {5},
                   taken: [Names -> Pairs]]
    /\ files \in [Servers -> [Names -> Pairs]]
    /\ static \in [Servers -> SUBSET Names]
    /\ seen \in [Servers -> SUBSET Names]
    /\ serving \in [Servers -> [Names -> Numbers]]
    /\ up \subseteq Servers
    /\ pushes \in 0..MaxPushes
    /\ mishaps \in 0..MaxMishaps
    /\ restarts \in 0..MaxRestarts

\* A deploy that is on its way to server s, or will be.
Repairing(s) ==
    \/ RunAt("store") \/ RunAt("trigger")
    \/ waiting
    \/ deploy.step # "idle" /\ deploy.at <= s

\* Certificate and key are two secrets and two files, and a deploy may take
\* the secrets between the two gh secret set (a push starts it): then a server
\* has a configuration its Caddy cannot start from.  While no step has failed,
\* a deploy that repairs it is always under way.
MixturesAreRepaired ==
    mishaps = 0 => \A s \in Servers : Loadable(s) \/ Repairing(s)

\* A server to which no deploy is on its way has the pairs of the secrets and a
\* directive for each of them, whatever pushes start deploys in between and
\* however the steps of run and deploy overlap.
Delivered(s) ==
    /\ files[s] = secrets
    /\ static[s] = {n \in Names : Fits(secrets[n])}
SecretsAreDelivered ==
    mishaps = 0 => \A s \in Servers : Delivered(s) \/ Repairing(s)

\* So a Caddy that is restarted at such a moment comes back.
CaddyComesBack == <>[](mishaps > 0 \/ up = Servers)

\* What a run harvests reaches the files of every server, whatever pushes and
\* deploys overlap with it.
HarvestArrives ==
    \A g \in Renewals :
        (RunAt("extract") /\ source["apex"] = g) ~>
            (\/ mishaps > 0
             \/ \A s \in Servers : \A p \in Parts : files[s]["apex"][p] >= g)

\* renew-nofeebooking-cert.yml:114 announces an "infra deploy to distribute
\* new cert"; compared with what visitors of the servers are served.
HarvestIsServed ==
    \A g \in Renewals :
        (RunAt("extract") /\ source["apex"] = g) ~>
            (\A s \in Servers : serving[s]["apex"] >= g)
-----------------------------------------------------------------------------
(* Why MixturesAreRepaired holds. *)

\* The workflow is at an item of what was renewed.
ItemInRange ==
    run.step \in {"extract", "store"} => run.pos <= Items(run.renewed)

\* A script has written the files it has passed.
FilesAreWritten ==
    /\ deploy.step = "reach" => deploy.pos = 1
    /\ deploy.step = "render" =>
        \A i \in 1..4 : i < deploy.pos /\ Name(i) \in Names =>
            files[deploy.at][Name(i)][Part(i)] = Rendered(Name(i), Part(i))

Whole(pair) == pair["crt"] = pair["key"]
Coming == RunAt("store") \/ RunAt("trigger") \/ waiting
Midway(n) == RunAt("store") /\ Name(run.pos) = n /\ Part(run.pos) = "key"

\* While no step has failed: what is harvested is one renewal, a secret pair
\* is mixed only between its two gh secret set, and a deploy with mixed
\* secrets has another one coming after it.
HarvestIsOneRenewal ==
    /\ RunAt("extract") =>
        \A i \in 1..4 : i < run.pos /\ i <= Items(run.renewed) =>
            run.harvest[Name(i)][Part(i)] = source[Name(i)]
    /\ RunAt("store") =>
        \A i \in 1..4 : i <= Items(run.renewed) => Fits(run.harvest[Name(i)])
SecretsAreWhole ==
    \A n \in Names :
        IF Midway(n) THEN secrets[n]["crt"] = run.harvest[n]["crt"]
                     ELSE Whole(secrets[n])
TakenAreWhole == Coming \/ \A n \in Names : Whole(deploy.taken[n])
TakenAreCurrent == Coming \/ deploy.taken = secrets

IInv ==
    /\ TypeOK
    /\ ItemInRange
    /\ FilesAreWritten
    /\ mishaps = 0 => HarvestIsOneRenewal /\ SecretsAreWhole /\ TakenAreWhole
    /\ MixturesAreRepaired

\* What a deploy that nothing follows has brought to the servers.
DeliveryIInv ==
    /\ IInv
    /\ mishaps = 0 => TakenAreCurrent
    /\ SecretsAreDelivered
=============================================================================
