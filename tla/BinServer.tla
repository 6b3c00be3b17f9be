----------------------------- MODULE BinServer ------------------------------
(***************************************************************************)
(* The boot of the server processes: configuration, store, router, address *)
(* and socket in the order of main, the exits on the way, and the restart  *)
(* policy of the container.  All servers with a Postgres store run         *)
(* INIT_SQL against one shared database.                                   *)
(*                                                                         *)
(* CREATE TABLE IF NOT EXISTS does not serialise with another session's:   *)
(* a session that found no table and commits after another created it      *)
(* may fail with a unique violation, and then so does its server's boot.   *)
(***************************************************************************)
EXTENDS AppConfig, Naturals

CONSTANTS Servers,    \* the server processes
          Fleets,     \* the environments they may be given, together
          Builds,     \* the feature sets the binary may be built with
          MaxFaults   \* bound: kills, outages and busy ports

ASSUME ServerAssumption ==
    /\ Fleets \subseteq [Servers -> Environments]
    /\ Builds \subseteq SUBSET {"memory-store", "postgres-store"}
    /\ MaxFaults \in Nat

VARIABLES env,      \* env[s]: the environment of s
          features, \* the features the binary was built with
          phase,    \* phase[s]: how far the boot of s got
          cfg,      \* cfg[s]: its parsed configuration, as a set of at most one
          saw,      \* saw[s]: the running INIT_SQL of s found the table
          opened,   \* history: servers that ever connected to the database
          up,       \* the database answers
          table,    \* the table exists
          faults    \* faults spent so far

bootVars == <<env, features, phase, cfg, saw, opened, up, table, faults>>
given == <<env, features>>
database == <<up, table, faults>>

Phases == {"starting", "observed", "configured", "initialising", "built", "routed",
           "addressed", "serving", "exited"}

Config(s) == CHOOSE c \in cfg[s] : TRUE

Enter(s, p) == phase' = [phase EXCEPT ![s] = p]

BootInit ==
    /\ env \in Fleets
    /\ features \in Builds
    /\ phase = [s \in Servers |-> "starting"]
    /\ cfg = [s \in Servers |-> {}]
    /\ saw = [s \in Servers |-> FALSE]
    /\ opened = {}
    /\ up \in BOOLEAN
    /\ table \in BOOLEAN
    /\ faults = 0

-----------------------------------------------------------------------------
\* init_observability: sentry::init panics on a DSN it cannot parse.
Observe(s) ==
    /\ phase[s] = "starting"
    /\ Enter(s, IF env[s].SENTRY_DSN = "junk" THEN "exited" ELSE "observed")
    /\ UNCHANGED <<given, cfg, saw, opened, database>>

LoadConfig(s) ==
    /\ phase[s] = "observed"
    /\ cfg' = [cfg EXCEPT ![s] = Configs(env[s])]
    /\ Enter(s, IF Configs(env[s]) = {} THEN "exited" ELSE "configured")
    /\ UNCHANGED <<given, saw, opened, database>>

\* A faulty build that prefers Postgres whenever it has it.
EagerStore(s) ==
    IF "postgres-store" \in features THEN "postgres"
    ELSE IF Config(s).store = "memory" /\ "memory-store" \in features THEN "memory"
    ELSE "none"

\* The store build_service makes of the configuration: a build with one store
\* refuses the other, a build with none refuses both.
Store(s) ==
    IF Config(s).store = "memory" /\ "memory-store" \in features THEN "memory"
    ELSE IF Config(s).store = "postgres" /\ "postgres-store" \in features
      THEN "postgres"
    ELSE "none"

BuildService(s) ==
    /\ phase[s] = "configured"
    /\ \/ /\ Store(s) = "none"
          /\ Enter(s, "exited")
          /\ UNCHANGED <<saw, opened>>
       \/ /\ Store(s) = "memory"
          /\ Enter(s, "built")
          /\ UNCHANGED <<saw, opened>>
       \/ /\ Store(s) = "postgres" /\ ~up
          /\ Enter(s, "exited")
          /\ UNCHANGED <<saw, opened>>
       \/ /\ Store(s) = "postgres" /\ up
          /\ Enter(s, "initialising")
          /\ saw' = [saw EXCEPT ![s] = table]
          /\ opened' = opened \cup {s}
    /\ UNCHANGED <<given, cfg, database>>

\* Faulty boots: one that ignores the error of INIT_SQL, one whose INIT_SQL
\* lacks IF NOT EXISTS.
CarelessInitialise(s) ==
    /\ phase[s] = "initialising"
    /\ Enter(s, "built")
    /\ table' = (table \/ up)
    /\ UNCHANGED <<given, cfg, saw, opened, up, faults>>

BareInitialise(s) ==
    /\ phase[s] = "initialising"
    /\ IF up /\ ~table
         THEN Enter(s, "built") /\ table' = TRUE
         ELSE Enter(s, "exited") /\ UNCHANGED table
    /\ UNCHANGED <<given, cfg, saw, opened, up, faults>>

\* INIT_SQL commits, or it loses its connection, or it loses the race to
\* create a table that was not there when it started.
Initialise(s) ==
    /\ phase[s] = "initialising"
    /\ \/ up /\ Enter(s, "built") /\ table' = TRUE
       \/ ~up /\ Enter(s, "exited") /\ UNCHANGED table
       \/ up /\ table /\ ~saw[s] /\ Enter(s, "exited") /\ UNCHANGED table
    /\ UNCHANGED <<given, cfg, saw, opened, up, faults>>

\* build_router panics when SERVER_LABEL is no header value.
BuildRouter(s) ==
    /\ phase[s] = "built"
    /\ Enter(s, IF Config(s).label = "binary" THEN "exited" ELSE "routed")
    /\ UNCHANGED <<given, cfg, saw, opened, database>>

\* A SocketAddr is parsed from numbers; a host name is an error.
ParseAddress(s) ==
    /\ phase[s] = "routed"
    /\ Enter(s, IF Config(s).host = "name" THEN "exited" ELSE "addressed")
    /\ UNCHANGED <<given, cfg, saw, opened, database>>

Serve(s) ==
    /\ phase[s] = "addressed"
    /\ Enter(s, "serving")
    /\ UNCHANGED <<given, cfg, saw, opened, database>>

\* The port is taken, or the process is killed wherever it stands.
Die(s) ==
    /\ phase[s] # "exited"
    /\ faults < MaxFaults
    /\ faults' = faults + 1
    /\ Enter(s, "exited")
    /\ UNCHANGED <<given, cfg, saw, opened, up, table>>

\* restart: always
Reboot(s) ==
    /\ phase[s] = "exited"
    /\ Enter(s, "starting")
    /\ cfg' = [cfg EXCEPT ![s] = {}]
    /\ saw' = [saw EXCEPT ![s] = FALSE]
    /\ UNCHANGED <<given, opened, database>>

GoDown ==
    /\ up
    /\ faults < MaxFaults
    /\ faults' = faults + 1
    /\ up' = FALSE
    /\ UNCHANGED <<given, phase, cfg, saw, opened, table>>

ComeUp ==
    /\ ~up
    /\ up' = TRUE
    /\ UNCHANGED <<given, phase, cfg, saw, opened, table, faults>>

Boot(s) ==
    \/ Observe(s)
    \/ LoadConfig(s)
    \/ BuildService(s)
    \/ Initialise(s)
    \/ BuildRouter(s)
    \/ ParseAddress(s)
    \/ Serve(s)
    \/ Reboot(s)

BootNext ==
    \/ \E s \in Servers : Boot(s) \/ Die(s)
    \/ GoDown
    \/ ComeUp

BootSpec == BootInit /\ [][BootNext]_bootVars

\* A process runs, and the container runtime restarts it; the database need
\* not come back.
BootFairSpec == BootSpec /\ \A s \in Servers : WF_bootVars(Boot(s))

-----------------------------------------------------------------------------
BootTypeOK ==
    /\ env \in [Servers -> Environments]
    /\ features \in Builds
    /\ phase \in [Servers -> Phases]
    /\ cfg \in [Servers -> SUBSET Configurations]
    /\ saw \in [Servers -> BOOLEAN]
    /\ opened \subseteq Servers
    /\ up \in BOOLEAN
    /\ table \in BOOLEAN
    /\ faults \in 0..MaxFaults

\* Every variable of s has a value the program knows how to serve.
WellConfigured(s) ==
    /\ \A v \in {"APP_PORT", "GREETING_MODE", "COUNTER_STORE", "SENTRY_DSN"} :
          env[s][v] # "junk"
    /\ env[s].APP_HOST # "name"
    /\ env[s].SERVER_LABEL # "binary"
    /\ env[s].COUNTER_STORE = "postgres" =>
          "postgres-store" \in features /\ env[s].DATABASE_URL = "url"
    /\ env[s].COUNTER_STORE # "postgres" => "memory-store" \in features

\* A server that serves, serves the mode and the store it was asked for: no
\* build and no typo makes it fall back to another store silently.
ServesWhatWasAsked ==
    \A s \in Servers :
        phase[s] = "serving" =>
            /\ WellConfigured(s)
            /\ Config(s).mode = Default(env[s].GREETING_MODE, "plain")
            /\ Store(s) = Default(env[s].COUNTER_STORE, "memory")

\* Only a server whose environment asks for Postgres, and parses, ever opens
\* the database; an error found by from_pairs leaves the database alone.
OpensOnlyOnRequest ==
    \A s \in opened :
        /\ env[s].COUNTER_STORE = "postgres"
        /\ \A v \in {"APP_PORT", "GREETING_MODE", "SENTRY_DSN"} : env[s][v] # "junk"

\* A serving Postgres server has its table: no INIT_SQL failure is passed over.
ServingHasTable ==
    \A s \in Servers : phase[s] = "serving" /\ Store(s) = "postgres" => table

\* Why: what a server has passed, at each stage of its boot.
Routed == {"routed", "addressed", "serving"}
Built == {"built"} \cup Routed
Configured == {"configured", "initialising"} \cup Built

Passed(s) ==
    /\ phase[s] \notin {"starting", "exited"} => env[s].SENTRY_DSN # "junk"
    /\ phase[s] \in Configured => cfg[s] = Configs(env[s]) /\ cfg[s] # {}
    /\ phase[s] \in Configured \ {"configured"} => Store(s) # "none"
    /\ phase[s] \in Built /\ Store(s) = "postgres" => table
    /\ phase[s] \in Routed => Config(s).label # "binary"
    /\ phase[s] \in Routed \ {"routed"} => Config(s).host # "name"

BootIInv ==
    /\ BootTypeOK
    /\ OpensOnlyOnRequest
    /\ \A s \in Servers : Passed(s)

\* Under the restart policy a well-configured server gets to serve once the
\* database stays up, even if it loses the race to create the table.
EventuallyServes ==
    \A s \in Servers :
        WellConfigured(s) /\ <>[]up => <>[](phase[s] = "serving")
=============================================================================
