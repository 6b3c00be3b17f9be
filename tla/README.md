# Verification of the visitor counter

TLA+ models of the hello-world visitor counter of this repository, the TLC runs
that check them on small instances, and TLAPS proofs of what holds for every
value of the constants.

## 1. The system

The service answers `GET /` with "Hello visitor. You are the N'th visitor to
this page". It is a small hexagonal Rust workspace deployed on three servers
that share one highly available Postgres.

| Component | Where | State it keeps | Operations | Modelled in |
|---|---|---|---|---|
| Port `CounterStore` | `crates/application/src/ports.rs` | none; a promise | `next_visitor_count`, `health`, `storage_name` | `VisitorCounter` |
| Greeting service | `crates/application/src/service.rs`, `crates/domain` | mode, a shared store | `hello`, `health`; a count of 0 is an error | `HelloServers` |
| Memory store | `crates/adapter-counter-store-memory` | a `u64` under a FIFO tokio mutex | lock, increment, return; lost on restart | `MemoryCounterStore` |
| Postgres store | `crates/adapter-counter-store-postgres` | none in the process; one row in table `counters` | `connect` + `INIT_SQL`; `next_visitor_count` with retries; `health` | `PostgresCounterStore` |
| Configuration | `crates/adapter-config-env` | none | `from_pairs`: validates the environment | `AppConfig` |
| HTTP adapter | `crates/adapter-http-axum` | label, service | `GET /`, `GET /health`, errors to 503/500 | `HelloServers`, `BinServer` |
| Server binary | `crates/bin-server`, `crates/adapter-observability-tracing` | none | boot order: Sentry, configuration, store, router, address, socket | `BinServer` |
| Client crate | `crates/client-rust` | base URL | `hello`, `health`, errors | `HelloServers` (result of `hello`) |
| HA database | `docker-compose.ha.yml`, `haproxy/`, `postgres/` | etcd, Patroni, data directory, HAProxy's list of servers | leader lock, failover, synchronous standby, checks, drills | `HaFailover`; its faults as the adapter sees them in `PostgresCounterStore` |
| Rollout | `.github/workflows/deploy.yml`, `scripts/deploy/deploy-ha-compose.sh` | containers and volumes per server | push, cancel, sequential deploy, etcd new/existing detection, health gate | `HaRollout` |
| TLS and infra | `renew-nofeebooking-cert.yml`, `deploy-infra.yml`, `scripts/deploy/render-infra-caddyfile.sh`, `infra/` | secrets, certificate files, Caddyfile, what Caddy serves | renew, harvest, store, deploy, render, reload | `CertRenewal` |
| Legacy standby | `docker-compose.yml`, `postgres/replica-entrypoint.sh`, `haproxy/postgres-primary.cfg.template`, `scripts/server/` | two volumes, roles, routing | seed, replicate, promote, redeploy, rebuild | `StandbyPair` |
| Test harness | `crates/test-support`, `crates/integration-tests/tests`, tests of the Postgres adapter | containers, ports, counters of each process | spawn, wait, connect, count, drop | `TestContainers` |
| Operations | `patroni-*.yml`, `restart-patroni.yml`, `scripts/chaos` | none of their own | switchover, reinit, restart, drills | the restart and two drills, as faults of `HaFailover` |

### How the parts interact

The HTTP handler awaits `HelloWorldService::hello`, which in counter mode
awaits the store and turns its number into a greeting. A handler is a future:
when the client disconnects it is dropped at the await where it stands, and
when the process dies so are all of them. The Postgres store opens a connection
per attempt, through PgBouncer and HAProxy, to whichever node is the primary;
the connection is driven by a task of its own, so a statement that was sent
travels on when the handler is gone. All servers share one row. Every boot and
every failed attempt runs `INIT_SQL` against it.

Behind the pooler of each server, HAProxy asks every Patroni who is the
primary, and Patroni's leader is the owner of a lock in etcd. The rollout
recreates the containers of all of them, server by server. In front, one Caddy
per server terminates TLS with certificates that server 1 renews and two
workflows carry to the others by way of GitHub secrets. The tests run the store
against containers of their own. The legacy stack, a primary and one standby,
is what the HA stack replaced and is still in the repository.

### What is hard here

* **Ambiguous failures.** A broken connection does not say whether its UPDATE
  committed. The adapter retries, up to three times (`lib.rs:92`).
* **Late statements.** UPDATEs execute after their task gave up on them.
* **Interleaving.** Calls of all servers, boots, repairs and database faults
  interleave on one row; mutex waiters disconnect while they queue.
* **Crashes.** Handlers vanish mid-await; a memory counter vanishes with its
  process; a volume may be recreated under running servers.
* **Cancelled rollouts.** A push cancels the running job; its remote script may
  go on. A failed job leaves servers of two versions.
* **Races at boot.** `CREATE TABLE IF NOT EXISTS` of two sessions may collide.
* **No timeouts.** Neither `connect` nor `query_one` has one.
* **Limits.** `BIGINT` in Postgres, a wrapping `u64` in memory.
* **Failover.** A leader that is cut off does not know whether its lock has
  passed on; HAProxy learns of a change seconds later; with
  `synchronous_mode_strict` off a primary may go on without a standby.
* **Pairs that are not written together.** A certificate and its key are two
  secrets and two files; pushes start deploys in the middle of a renewal; Caddy
  watches its Caddyfile and not the files it names.
* **Interrupted copies.** `pg_basebackup` may be killed at any point, and the
  next start decides by one file whether the copy is complete.
* **Ports and names of tests.** A port is found and given back before docker
  binds it; a killed process leaves its containers, and its process id may come
  again.

The hazards are listed one by one, with the line where each bites and the
properties that watch it, under `hazards` in `PROJECT.json`. Where no property
watches one, a note says why: mostly because nothing in the repository promises
anything there, as in the time between the promotion of a standby and the
rebuild of the old primary, or of a boot that is bound to fail.

### What makes each part correct

* Port: while no data is lost, no two visitors are greeted with the same
  number, and a visitor who arrives after another one was greeted gets a later
  number.
* Postgres store: it keeps the port's promise; it counts a visit at most
  `MaxRetries + 1` times and exactly once when nothing fails; its counter is
  the number of committed UPDATEs; every call returns; a missing table heals.
* Memory store: it keeps the port's promise until the `u64` wraps; the lock is
  never lost or doubled; visitors are served in the order they came.
* Boot: a server serves the mode and store it was asked for or nothing; it
  serves eventually once the database stays up.
* Servers: greetings are distinct, plain visits and probes are not counted, no
  task outlives its request, every request ends.
* Rollout: it never costs etcd its majority, a job that succeeds has deployed
  its version everywhere, and every push arrives in the end.
* Failover: two servers never take visits at once, a number somebody has read
  is in every later leader's database, and HAProxy ends up with the leader.
* Certificates: a server whose pair does not fit has a deploy coming, a server
  without a deploy coming has what the secrets say, Caddy comes back from a
  restart, and what was harvested reaches every server.
* Legacy pair: a standby never becomes a database of its own, what it has is a
  prefix of its primary's, no cluster is wiped by an entrypoint, and an
  interrupted seed is repeated.
* Tests: a test talks to the container it started and to no other, and removes
  it, unless its process is killed or docker fails to.

## 2. The modules

### VisitorCounter - the promise

A ticket dispenser: a call arrives, takes the next number, and is answered,
refused or abandoned. It is as weak as the adapters are: numbers may be wasted
(an UPDATE nobody awaits), lost on the way to a call that then takes another
(a retry after an ambiguous error), and data may be lost, which starts a new
*era* in which numbering resumes from an earlier value. A ticket is the pair of
era and number. `shown` and `floor` are history: the largest number greeted in
this era, and what it was when a call arrived.

### PostgresCounterStore - adapter, network and database

| Model | Code (`adapter-counter-store-postgres/src/lib.rs`) |
|---|---|
| `pc[c]`, `retries[c]`, `delay[c]` | the place in the loop and its locals, 64-101 |
| `Begin` | the call, 63-65 |
| `Connect` / `ConnectFails` | `client()`, preparing and sending the UPDATE, 54-80 |
| `wire` | UPDATEs sent and not executed; the spawned connection task, 48-52 |
| `Commit` / `Reject` | `UPDATE ... RETURNING` in the database, 70-80 |
| `Receive` | `Ok(row)`, 86-91 |
| `ConnectionLost` | an error of `query_one` after the statement was sent |
| `Repair` | `Err(e) if retries > 0`: a new client, `INIT_SQL`, outcome ignored, 92-95 |
| `WakeUp` | after the sleep: `retries -= 1; delay *= 2`, 96-98 |
| `GiveUp` | `Err(e) => return Err(e)`, 100 |
| `Abandon` | the future is dropped at its await (a set of tasks: a process that dies) |
| `Open` | `PostgresCounterStore::connect` of a server that boots, 27-40 |
| `GoDown`, `ComeUp`, `LoseData` | external: the database behind the pooler |

An UPDATE is the pair of its call and its ordinal among the call's attempts, so
a late UPDATE is never confused with the one that is awaited. `table` stands
for table and row together: `INIT_SQL` is one simple query and so one implicit
transaction. The column is never negative, so the conversion of line 88 never
fails. Delays are kept, time is not.

### MemoryCounterStore

`pc` goes from `idle` through `queued`, `granted` (the mutex was handed to the
task, which has not been polled yet), `locked`, `counted` to `answered`. The
mutex is tokio's, modelled by its documented contract: first come first served,
a dropped waiter leaves the queue or passes on a lock just granted. From
`locked` to `answered` the code has no await, so `Cancel` cannot interrupt it.
`Modulus` is 2^64; the release build wraps. The port's promise is then over
by design, so `ImplementsVisitorCounter` speaks of the steps until the wrap
(`issued' < Modulus`).

### AppConfig and BinServer

`AppConfig` is a pure module: `Environments`, and `Configs(env)`, the set of
configurations `from_pairs` accepts (one or none). `BinServer` boots servers in
the order of `main`: `Observe` (a malformed Sentry DSN panics), `LoadConfig`,
`BuildService` and `Initialise` (the two steps of a Postgres boot between which
another server may create the table), `BuildRouter` (a label that is no header
value panics), `ParseAddress` (a host name is an error), `Serve`; `Die` is a
busy port or a kill, and `Reboot` the `restart: always` of the compose file.
`Fleets` is the set of environments the servers may be started with, and
`Builds` the feature sets that `build_service` distinguishes. `Passed(s)` says
what a server has checked when it has come so far; it carries the proofs.

### HelloServers - the composition

`HelloServers` instantiates `PostgresCounterStore` as `Store` over its own
variables: the request that makes call `c` is `request[c]`. `GetHello` answers
at once in plain mode and begins a store call in counter mode; `Progress` is a
step of that call; `FinishHello` and `FinishHealth` make the response; `Break`
ends requests without one and drops their tasks, for `Disconnect` (one request)
and `Crash` (all requests of a server). `Boot` runs `Store!Open`. Modes may
differ between servers, as they do in the middle of a rollout. A response is
its status, the number in its greeting, and whether it has `x-served-by`.

### HaRollout

| Model | Code |
|---|---|
| `job`, `Push`, `Dispatch` | `deploy.yml` 3-11: triggers, `cancel-in-progress` |
| `Build`, `Copy`, `Stumble`, `Advance` | the steps and the loop under `bash -e`, 43-109 |
| `script`, `Prepare`, `PrepareFails`, `Up` | `deploy-ha-compose.sh`: detection 23-35, compose 37-45 |
| `Gate`, `GateFails` | Patroni depends on a healthy etcd, `docker-compose.ha.yml` 39-45 and 64-66 |
| `EtcdStart`, `EtcdCrash`, `CanStart`, `Healthy` | external: etcd and docker's restart policy |

The job and the script it started over ssh are two processes. A push replaces
the job but not the script, which goes on by itself or dies with its connection
(`ScriptDies`). The model assumes that it has ended before the next job has
passed its verification and built its image, minutes later (`Build`). That is an
assumption about time, not a guard of the code: a script that outlasted it could
put an older version over what the newer job has deployed. An ssh connection
that breaks while its script goes on is not modelled apart from a cancelled job,
whose script is left behind in the same way. The
environment of the etcd container contains the detected state, so the first
rollout after the one that formed the cluster recreates every etcd. An etcd
that slowly comes back may outlast the health check (`GateFails`).

### HaFailover

| Model | Code |
|---|---|
| `Ttl`, `LoopWait`, `RetryTimeout` | `patroni.yml.template` 14-16 |
| `Fall`, `Rise`, `Check`, `Tick` | `haproxy-ha.cfg.template`: checks of `/primary` every 2 s, `fall 3`, `rise 2` |
| `listed`, `Visit` | the servers HAProxy uses; a statement the primary and its standby commit |
| `Renew`, `Demote`, `Acquire` | external: Patroni's leader lock, configured by the template |
| `NameStandby`, `Follow` | external: `synchronous_mode`, streaming replication |
| `Crash`, `Restart`, `Partition` | `kill-primary.sh`, `partition-node.sh`, `restart: always` |

A tick is 2 s. etcd drops a lock that is `Ttl` ticks old. Patroni is bound to
act in time (`MayPass`): a leader that reaches etcd has renewed by
`LoopWait`, and one that does not has demoted Postgres by
`LoopWait + RetryTimeout`, which is before the TTL has passed (`README.md:221`
of the repository says after it). That is the contract the three numbers of the
template are chosen for, and `ConstantsAssumption` is the inequality they have
to satisfy. `Partition` cuts a node off from all of etcd. `partition-node.sh`
drops only what goes to and from the ports 2379 and 2380 of its own node, while
Patroni has three `ETCD_HOSTS`; the model takes the harder fault.

### CertRenewal

| Model | Code |
|---|---|
| `StartRun`, `Attempt` | `renew-nofeebooking-cert.yml` 51-76: before and after, three attempts, apex required |
| `Extract`, `Store`, `Trigger`, `RunFails` | the same file: the two files per name, the two secrets per name, the deploy |
| `Push`, `StartDeploy`, `waiting` | `deploy-infra.yml`: triggers and concurrency group; secrets are taken at the start |
| `Reach`, `RenderFile`, `RenderCaddyfile`, `DeployFails` | its loop, and `render-infra-caddyfile.sh` 52-123 |
| `Watch`, `Start`, `Stop` | `docker-compose.infra.yml`: `caddy run --watch`, `restart: always` |

A certificate and a key are the number of the renewal they came with, so that a
mixed pair is a pair of two numbers. The script writes or removes the files
one at a time and the Caddyfile last. A *mishap* is a step that fails, or a
renewal by Caddy itself in the middle of a harvest.

### StandbyPair

| Model | Code |
|---|---|
| `Enter`, `Copy`, `CopyFails`, `Exec` | `postgres/replica-entrypoint.sh` |
| `Probe`, `VisitAt`, `Target` | `haproxy/postgres-primary.cfg.template`: preferred server and backup |
| `Promote`, `Redeploy`, `Rebuild` | `promote-postgres-standby.sh` and the steps it prints; `deploy-compose.sh` |
| `Replicate`, `Kill`, `HostLost`, `HostReturns` | external: streaming, docker, hosts |

The log of a volume is the sequence of visits counted in it. A copy goes
through `begun` (files, no `PG_VERSION`) and `partial` (`PG_VERSION`, not all
files), and can be killed in either; the entrypoint tells only the first from
a complete one.

### TestContainers

| Model | Code |
|---|---|
| `Choose`, `DockerRun`, `Connected`, `NotConnected` | `postgres_harness.rs`; the `PostgresContainer` of the adapter's tests |
| `ConnectStore`, `Listen` | `test_app.rs` |
| `Count`, `Finish`, `Panic`, `StopDatabase`, `Probe` | the tests themselves |
| `Leave`, `Forget`, `Drop` | `Drop` of `TestApp` and of the containers, which ignores whether `docker rm` fails |
| `Series`, `counter` | the prefixes and the process id in the names; `CONTAINER_COUNTER`, `HARNESS_COUNTER` |
| `Kill`, `RunAgain` | external: a process that is killed, and a later one with the same id |

A name is its prefix (`-test-` or `-harness-`), its process and a number, so
tests of the adapter and tests of an app never share one; those of one binary are
threads that share a counter. `Count` has no retries: what they do to a number is
the subject of `PostgresCounterStore`, and only `CountsFromOne` would notice.
A container that dies by itself, which `--rm` would remove, is not modelled.

### Composition

`PostgresCounterStore` and `MemoryCounterStore` implement `VisitorCounter`;
`HelloServers` composes `PostgresCounterStore` with the handlers; `BinServer`
extends `AppConfig`. The other modules stand for themselves: they share no
variables with the service, and meet it in the external actions of
`PostgresCounterStore` (`GoDown`, `ComeUp`, `LoseData`) and in `Crash` and
`Boot` of `HelloServers`. `NoNumberIsLost` is why a failover is a `GoDown` and
a `ComeUp` there and not a `LoseData`.

### MC modules and proofs

The modules `MC...` give TLC the sets that a configuration cannot write down
(the fleets of `MCBinServer`, the tests of `MCTestContainers`). No symmetry is
used, because the runs check liveness too. Definitions with names like
`ResettingRepair`, `LingeringCrash` or `TimidTrigger` stand before the action
they distort: they are plausible bugs, used by no specification, that show what
each property would catch.

The modules `...Proofs` hold the proofs. Two of them are about two modules each:
`ServerProcessProofs` extends `BinServer` and `MemoryCounterStore`, the two parts
that live and die with a server process, and `DatabaseProofs` extends
`HaFailover` and `StandbyPair`, the two databases. For that, the definitions that
would meet there have names of their own: `BootInit`, `BootNext`, `BootSpec`,
`BootTypeOK`, `BootIInv` in `BinServer`; `PairInit`, `PairNext`, `PairSpec`,
`PairTypeOK`, `PairIInv` in `StandbyPair`, whose nodes are `Hosts` and whose
bounds are `MaxCount` and `MaxFailures`. The variables and constants of the two
modules are disjoint, so neither theorem says anything of the other module.

## 3. The runs

| Run | Configuration | Shows | Bounds |
|---|---|---|---|
| `postgres_store` | `MCPostgresCounterStore.cfg` | `IInv`, `UniqueCounts`, `OvercountBounded`, `ExactWithoutFaults`, `NumbersFollowRealTime`, `ImplementsVisitorCounter`, `EveryCallReturns`, `SelfHealing` | two calls, the code's 3 retries, a column that ends at 3, one spontaneous fault, one data loss |
| `memory_store` | `MCMemoryCounterStore.cfg` | `LockIsConserved`, `FirstComeFirstServed`, `EveryCallReturns`, `ImplementsVisitorCounter` | four calls, a counter modulo 4, one restart |
| `server_boot` | `MCBinServer.cfg` | `ServesWhatWasAsked`, `OpensOnlyOnRequest`, `ServingHasTable`, `EventuallyServes` | two servers, one as in the compose file and one with any two variables different, all builds, one fault |
| `hello_servers` | `MCHelloServers.cfg` | `GreetingsAreDistinct`, `CounterCountsVisitors`, `CounterCoversGreetings`, `TasksServeRequests`, `EveryRequestEnds` | two requests, two servers in any modes, one retry, one fault, one crash |
| `hello_label` | `MCHelloLabel.cfg` | violation of `EveryResponseNamesServer` | the same without crashes |
| `rollout_established` | `MCRolloutEstablished.cfg` | `RolloutKeepsQuorum`, `VersionsFollowTheLoop`, `SuccessMeansDeployed`, `RolloutConverges` | three servers, three versions, two stumbles, one fault |
| `rollout_first` | `MCRolloutFirst.cfg` | violation of `FirstRolloutReachesAllServers` | three blank servers, one version, no faults |
| `ha_failover` | `MCHaFailover.cfg` | `OnePrimary`, `NoNumberIsLost`, `RouterFindsLeader` | three nodes, the template's times (15, 5 and 5 ticks of 2 s; fall 3, rise 2), two visits, three faults |
| `cert_renewal` | `MCCertRenewal.cfg` | `MixturesAreRepaired`, `SecretsAreDelivered`, `CaddyComesBack`, `HarvestArrives` | the apex, two servers, three renewals, one push, one mishap, one restart |
| `cert_served` | `MCCertRenewalServed.cfg` | violation of `HarvestIsServed` | one server, two renewals, nothing fails |
| `standby_pair` | `MCStandbyPair.cfg` | `OneWriter`, `CopiesArePrefixes`, `NoClusterIsWiped`, `StandbySeeds` | two nodes, three visits, four faults |
| `test_containers` | `MCTestContainers.cfg` | `TestsAreAlone`, `NothingIsLeftBehind`, `OnlyOrphansClash`, `EveryTestEnds` | four tests: two of the adapter in one process, one of an app with Postgres, one of an app that counts in memory; two ports, two attempts and probes, one fault, one process run again |

Why the bounds are enough:

* The properties of numbers compare two calls, and two calls with three retries
  give eight UPDATEs, more than the column holds, so refusals at the limit
  occur too. One spontaneous fault lets an attempt fail after its UPDATE was
  sent; faults that have a reason (the database is down, the table is gone) are
  free, so one outage can fail every attempt of every call. One data loss gives
  two eras; under the servers it is left to the proofs.
* Four calls put two waiters behind a granted one, and let a counter modulo 4
  wrap.
* Two servers race for the table, and two slips are enough for one typo to
  hide another.
* Three versions let a job be cancelled whose predecessor was cancelled too;
  two stumbles fail a rollout twice at different servers; three servers are
  what the code has.
* Three faults let the standby be lost, the primary after it, and another node
  be cut off.
* Two servers let a deploy reach one with mixed secrets and not the other;
  three renewals let a certificate change before, during and after a harvest.
  The optional `www` pair goes through the same steps; the proofs cover it.
* Four faults kill a seed, the primary, the seed again and lose a host; three
  visits tell a prefix from a mixture.
* Two ports for four tests make them collide; two threads share a counter, and
  one kill leaves the containers of both; a process that runs again meets its
  own orphans. Tests of two processes with one prefix are left to the proof.

The proofs then remove the bounds for the safety properties: every invariant
and every action property of the runs is proved. The inductive invariants of
the proved modules were checked with TLC on the instances of the runs before
they were proved; they contain the type invariants. `GreetingsFollowRealTime`
was checked on the instance of `hello_servers`. `VisitorCounter` has no run of its
own: it is small, proved, and explored through the two stores that refine it.

`CHECK_DEADLOCK FALSE` everywhere: calls, pushes, visits and tests are finite
in number, and when all are done a system without further faults rightly stops.

### The findings

`README.md:24` says that every response includes `X-Served-By`. The header is
part of the handlers' `Ok` values (`handlers.rs:18`, `27`); the responses that
`AppHttpError::into_response` builds (`handlers.rs:40-51`) do not have it. The
run `hello_label` gives the shortest case: a health probe whose connection
fails is a 503 that does not name its server.

`README.md:155` says that the Deploy workflow deploys to all three servers. On
blank servers it stops at the first one: `docker compose up` waits for a healthy
etcd there, which needs a second member, which only the next iteration of the
loop would start. Starting the workflow again does not help (`rollout_first`).
`rollout_established` shows that once a cluster has been formed the same order
and the same gate are what keeps its majority.

`renew-nofeebooking-cert.yml:114` announces an infra deploy "to distribute new
cert". The deploy does distribute the files (`HarvestArrives` holds), but under
the names they had, and the Caddyfile it renders is the one that is there. Caddy
watches the Caddyfile, and `docker compose up -d` finds its container unchanged,
so visitors are served the old certificate until Caddy is restarted or its
Caddyfile changes (`cert_served`).

Three observations have no run, since there is nothing to explore:
`kill-primary.sh:37` waits for a new leader by asking the container it has just
killed; `patroni-switchover.yml:48` names `/tmp/patroni.yml`, while
`patroni-entrypoint.sh:6` writes `/run/patroni.yml`;
`promote-postgres-standby.sh:27-28` prints the redeploy of both nodes before
the rebuild of the old primary. In between, the old primary is up with its old
volume and still a primary (`replica-entrypoint.sh:8` skips the seed), which is
why `OneWriter` makes no promise between promotion and rebuild.

`StandbySeeds` has an exception for the same line: a seed that was killed after
`PG_VERSION` was copied is never repeated.

## 4. Fairness

* Tasks (`Connect`, `Receive`, `Repair`, `WakeUp`, `GiveUp`; `Resume`,
  `Increment`, `Return`; the finishing of handlers): weak fairness, because the
  tokio runtime polls every task that can proceed, and timers fire.
* `Commit` or `Reject` of the UPDATE a task awaits: a database that is up and
  has a statement executes it. UPDATEs nobody awaits owe nothing.
* `ConnectFails` with a reason, and `ConnectionLost` while the database is down:
  the code has no timeouts, but `haproxy-ha.cfg.template` closes connections
  (`timeout connect 10s`, `timeout server 1m`). Without it `EveryCallReturns`
  would not hold.
* `Boot(s)` of `BinServer`: the process runs, and `restart: always` restarts it.
* `Job`, `Script`, `EtcdStart(s)` of `HaRollout`: processes run and docker
  restarts containers. `Dispatch` of a failed job: somebody starts it again,
  without which no rollout could be promised to arrive.
* `Run`, `Deploy` and `Caddy(s)` of `CertRenewal`: GitHub runs the steps of a
  job it has started and a deploy that waits, Caddy looks at its Caddyfile and
  docker restarts it. No run, push or renewal has to begin.
* `Tick` and `Patroni(n)` of `HaFailover`: time passes and Patroni's loop runs.
  `MayPass` in addition assumes that it runs *in time*; `OnePrimary` rests on it.
* `Postgres(n)` and `Replicate(n)` of `StandbyPair`: containers run and are
  restarted, streaming goes on. Nobody has to promote or rebuild anything.
* `Step(t)` of `TestContainers`: threads run. Postgres need never accept, and
  docker need not remove anything. `EveryTestEnds` speaks of what is so in the
  end, as processes are run again finitely often.
* Nothing is assumed of clients (they need not call or disconnect), of the
  database (it need not come back; `EventuallyServes` has `<>[]up` as its
  hypothesis), of crashes, or of late UPDATEs.

## 5. What is proved

All proofs hold for any set of calls, servers, nodes, tests or processes, any
number of retries and any bounds, from the assumptions the modules state.

**VisitorCounterProofs.** `IInv` is inductive. Uniqueness alone is not: it says
nothing of a number on its way to a call. So `IInv` speaks of every ticket that
is *held*: held tickets differ, a ticket of this era has a number of at most
`last`, what was greeted is at most `last`, and a ticket is later than the
`floor` of its call. `Take` keeps this because `last + 1` exceeds all of them;
the loss of data because tickets carry their era. `UniqueNumbersHolds` and
`RealTimeOrderHolds` follow.

**PostgresCounterStoreProofs.** `IInv` adds to the types: an UPDATE on the wire
or committed is one of its call's attempts and is never both
(`StatementsAreAttempts`); a call has sent at most one UPDATE per round of its
loop (`OneUpdatePerRound`); a task holds a number only while its last UPDATE
has committed (`TicketsAreReplies`); the counter equals the number of commits
before data is lost. From it follow `OvercountBoundedHolds`,
`AnswersMatchAttemptsHolds`, `CounterMatchesCommitsHolds`, and, one lemma per
action, `Refinement`: `Commit` of an awaited UPDATE is `Take`, of any other
`Waste`, `ConnectionLost` is `Lose` or invisible, and so on. Through it the
dispenser's theorems become `UniqueCountsHolds` and `NumbersFollowRealTimeHolds`.

What holds while nothing fails needs more, for a single fault starts retries.
`Undisturbed` says that every task is still in its first round and the
database has been up with its table since; `ExactWithoutFaultsHolds` follows.
`Attended` adds, while nobody leaves, that an UPDATE is on the wire only
for a task that awaits it and has committed only for one that has its number:
commits and holders of numbers are then the same calls
(`HoldersAreCountedHolds`).

**HelloServersProofs.** `UsesStoreHolds`: every step of the servers is a step
of the store or leaves it alone, so all of the above holds of the whole system.
`HandlerInv` - types, `TasksServeRequests`, and `GreetingsCarryTickets`: a
number in a greeting is the ticket its call was answered with - is inductive
relative to it. Together: `GreetingsAreDistinctHolds`, `CounterCoversGreetingsHolds`,
`TypeCorrect` and `TasksServeRequestsHolds`. The store's own theorems, carried to
the handlers, are `ServersKeepThePromise` and `GreetingsFollowRealTimeHolds`: who
asks after somebody was greeted reads a larger number of that era, whichever
servers the two reach. `VisitsHold` says in addition what
each answered call's request looks like, so that the calls that hold a number
are the visitors who read it or are about to; with the store's theorem that is
`CounterCountsVisitorsHolds`.

**ServerProcessProofs**, of the boot. The invariant is `Passed(s)`: at each stage
of its boot, a server has passed every check that `main` makes before it. It holds
for any set of fleets and builds, so no combination of variables and features
makes a server fall back to another store (`ServesWhatWasAskedHolds`,
`OpensOnlyOnRequestHolds`, `ServingHasTableHolds`).

**ServerProcessProofs**, of the memory store. `LockIsConserved` is not inductive:
who gets the lock next depends on the queue. `OneHolder` says that the lock is
free or has one holder, and that nobody queues while it is free;
`QueueIsInOrder` that the queue holds each waiting task once, in the order of
their ranks; `RanksAreInOrder` that ranks are the order of arrival and that whoever
was served came before everybody who still contends. A waiter that disconnects
is a `RemoveAt` in the middle of the queue (`QueueWithout`), which keeps its order.
`NumbersAreInOrder` adds that up to the wrap the counter is the number of
increments and exceeds every number given out. `LockIsConservedHolds` and
`FirstComeFirstServedHolds` follow, and `Refinement`: the store implements the
dispenser, for any number of callers, until the `u64` wraps.

**HaRolloutProofs.** Two things carry the invariant. The script a job waits for
is that job's (`ScriptOfJob`), and the servers before it in the loop run its
version (`InTurn`), which gives `VersionsFollowTheLoopHolds` and
`SuccessMeansDeployedHolds`. In a formed cluster an etcd is down only while it
is the last one whose environment was changed, and the loop does not pass it
before it runs again (`OneRestartAtATime`): `RolloutKeepsQuorumHolds`, for any
number of servers.

**DatabaseProofs**, of the failover. A primary holds the lock
(`PrimaryHoldsLock`), and the lock outlives it (`LockOutlivesPrimary`): time does
not pass beyond `LoopWait + RetryTimeout < Ttl` while there is a primary. Two
primaries would be two owners of one lock: `OnePrimaryHolds`. Every node the sync
key names has all numbers that were read (`SyncedHaveAll`), and only those take
a lock: `NoNumberIsLostHolds`, also while the sync key names no standby.

**DatabaseProofs**, of the legacy pair. Two nodes, as the compose file has them,
but any number of visits and faults. `OneWriter` alone is not inductive: a node
may turn into a primary by starting Postgres on an empty volume. `PairIInv` says
which volumes each stage of a container can meet (`StagesMatchData`: a node with
the role of a standby gets to Postgres only with a `PG_VERSION`), how far the
runbook is (`RunbookInOrder`), and who may write in each part of it
(`WritersInTurn`). `CopiesArePrefixes` is then inductive too: a copy is taken
from the one that writes, and logs only grow at their end (`PrefixOfLonger`,
`PrefixThatGrows`). `OneWriterHolds`, `CopiesArePrefixesHolds` and the action
property `NoClusterIsWipedHolds` follow: the `rm -rf` of the entrypoint never
meets a volume with a cluster.

**CertRenewalProofs.** As long as no step has failed, what is harvested is one
renewal (`HarvestIsOneRenewal`), a pair of secrets is mixed only between its two
`gh secret set` (`SecretsAreWhole`), and a deploy that took a mixed pair has
another one coming behind it (`TakenAreWhole`). With what a script has written
so far (`FilesAreWritten`) that gives `MixturesAreRepairedHolds`. A deploy that
nothing follows has taken the secrets as they are (`TakenAreCurrent`), and every
server it has passed has them: `SecretsAreDeliveredHolds`, the safety part of
`HarvestArrives`, also for the optional `www` pair.

**TestContainersProofs.** A name belongs to the prefix and the process of its
test and is below their counter (`NamesAreOwn`), a container belongs to the one test that holds its name
and no port has two of them (`ContainersAreOwn`). `TestsAreAloneHolds`,
`CountsFromOneHolds`, `NothingIsLeftBehindHolds` and `OnlyOrphansClashHolds`
follow.

**Only model-checked:** the liveness properties (`EveryCallReturns`,
`SelfHealing`, `EventuallyServes`, `EveryRequestEnds`, `RolloutConverges`,
`RouterFindsLeader`, `CaddyComesBack`, `HarvestArrives`, `StandbySeeds`,
`EveryTestEnds`), since the proof system does not reach `ENABLED` and fairness
here, and the three violations.

## 6. What is not modelled, and why

* Shared types, texts, JSON and URL handling in the client: data and formatting.
  What is logged.
* Time, except in `HaFailover`; delays of the retries are kept as numbers.
* The pool of PgBouncer, and elections and replication inside Patroni, etcd and
  Postgres: code of others, modelled by the contracts the templates configure.
* A wiped etcd volume in the rollout: what etcd then does depends on its version.
* The wildcard certificate, which is exported and set by hand, the static files
  of the renewing server itself, and the routes of the Caddyfiles.
* `cutover.sh`, which prints text; the Sentry stack, provisioning, the firewall
  and the CI scripts, which have no state of the service; the drills that fill a
  disk or slow the network, whose faults are outside the models.

## 7. Plan

The order is by importance for a visitor: the counter and its servers, what
boots and deploys them, the failover below them, the certificates in front of
them, the legacy pair and the tests (all done). What is left:

1. `HelloServers` over either store, with both promises through `VisitorCounter`.
2. A pooler between `PostgresCounterStore` and `HaFailover`, so that the outages
   of the one are the failovers of the other.
3. The safety parts of the other liveness properties, as `SecretsAreDelivered`
   is that of `HarvestArrives`: what holds of a rollout, of HAProxy's list and of a
   seed when nothing is under way.
