------------------------- MODULE ServerProcessProofs -------------------------
(***************************************************************************)
(* Proofs about one server process: how it boots (BinServer), and the      *)
(* counter it keeps when it has no database (MemoryCounterStore).  The two *)
(* specifications share no variable; each part proves its own.             *)
(*                                                                         *)
(* The boot, for any number of servers, any environments, any builds and   *)
(* any number of kills and outages: nothing is served but what the         *)
(* environment asks for, only who asks for the database opens it, and who  *)
(* serves from it has the table.                                           *)
(*                                                                         *)
(* The counter, for any number of calls and restarts and any width: the    *)
(* lock is conserved, visitors are served in the order they came, and      *)
(* until the counter wraps the store implements the dispenser of the port. *)
(* It rests on one order: who was served came before who holds the lock,   *)
(* who came before the first in the queue, and so on to its end.           *)
(***************************************************************************)
EXTENDS BinServer, MemoryCounterStore, FiniteSetTheorems, SequenceTheorems,
        TLAPS

USE ServerAssumption

-----------------------------------------------------------------------------
(* The boot: the configuration. *)

\* A parsed configuration says what the environment asks for, and from_pairs
\* refuses what it cannot read.
LEMMA ParsedConfig ==
    ASSUME NEW s \in Servers, cfg[s] = Configs(env[s]), cfg[s] # {}
    PROVE  /\ Config(s) \in Configurations
           /\ Config(s).host = Default(env[s].APP_HOST, "address")
           /\ Config(s).label = Default(env[s].SERVER_LABEL, "printable")
           /\ Config(s).mode = Default(env[s].GREETING_MODE, "plain")
           /\ Config(s).store = Default(env[s].COUNTER_STORE, "memory")
           /\ Config(s).store = "postgres" => env[s].DATABASE_URL = "url"
           /\ env[s].APP_PORT # "junk"
<1>1. Config(s) \in Configs(env[s])
  BY DEF Config
<1> QED
  BY <1>1 DEF Configs

\* Every word it accepts is a mode, and a store.
LEMMA ParsedWords ==
    ASSUME NEW s \in Servers, env[s] \in Environments,
           cfg[s] = Configs(env[s]), cfg[s] # {}
    PROVE  /\ \A v \in {"APP_PORT", "GREETING_MODE", "COUNTER_STORE"} :
                 env[s][v] # "junk"
           /\ Config(s).store \in {"memory", "postgres"}
           /\ Config(s).store = "postgres" <=> env[s].COUNTER_STORE = "postgres"
<1>1. /\ Config(s).mode \in {"plain", "counter"}
      /\ Config(s).store \in {"memory", "postgres"}
  BY ParsedConfig DEF Configurations
<1>2. env[s].GREETING_MODE # "junk"
  BY <1>1, ParsedConfig DEF Default
<1>3. env[s].COUNTER_STORE # "junk"
  BY <1>1, ParsedConfig DEF Default
<1>4. Config(s).store = "postgres" <=> env[s].COUNTER_STORE = "postgres"
  BY ParsedConfig DEF Default
<1> QED
  BY <1>1, <1>2, <1>3, <1>4, ParsedConfig

\* The store that is built is the store of the configuration.
LEMMA StoreOfConfig ==
    ASSUME NEW s \in Servers
    PROVE  Store(s) # "none" =>
              /\ Store(s) = Config(s).store
              /\ Store(s) = "memory" => "memory-store" \in features
              /\ Store(s) = "postgres" => "postgres-store" \in features
BY DEF Store

LEMMA StoreIsKept ==
    ASSUME NEW s \in Servers, cfg'[s] = cfg[s], features' = features
    PROVE  Config(s)' = Config(s) /\ Store(s)' = Store(s)
<1>1. Config(s)' = Config(s)
  BY DEF Config
<1> QED
  BY <1>1 DEF Store

\* Whoever did not move keeps what it has passed, and so does whoever died.
LEMMA PassedIsKept ==
    ASSUME NEW s \in Servers, Passed(s), given' = given, cfg'[s] = cfg[s],
           table => table', phase'[s] \in {phase[s], "exited"}
    PROVE  Passed(s)'
<1>1. Config(s)' = Config(s) /\ Store(s)' = Store(s)
  BY StoreIsKept DEF given
<1>2. env' = env
  BY DEF given
<1>3. CASE phase'[s] = phase[s]
  BY <1>1, <1>2, <1>3 DEF Passed
<1>4. CASE phase'[s] = "exited"
  BY <1>4 DEF Passed, Configured, Built, Routed
<1> QED
  BY <1>3, <1>4

-----------------------------------------------------------------------------
(* The boot: every step preserves its invariant. *)

\* The initial states satisfy it.
LEMMA BootInitEstablishes == BootInit => BootIInv
<1> SUFFICES ASSUME BootInit PROVE BootIInv
  OBVIOUS
<1>1. BootTypeOK
  BY DEF BootInit, BootTypeOK, Phases
<1>2. OpensOnlyOnRequest
  BY DEF BootInit, OpensOnlyOnRequest
<1>3. \A s \in Servers : Passed(s)
  BY DEF BootInit, Passed, Configured, Built, Routed
<1> QED
  BY <1>1, <1>2, <1>3 DEF BootIInv

\* The types, of a step that moves one server to a phase.
LEMMA EnterTypes ==
    ASSUME BootTypeOK, NEW s \in Servers, NEW p \in Phases, Enter(s, p)
    PROVE  /\ phase' \in [Servers -> Phases]
           /\ phase'[s] = p
           /\ \A t \in Servers \ {s} : phase'[t] = phase[t]
BY DEF BootTypeOK, Enter

\* A step of s that leaves the configurations alone.
LEMMA OneServerMoves ==
    ASSUME BootIInv, NEW s \in Servers, NEW p \in Phases, Enter(s, p),
           UNCHANGED <<given, cfg>>, table => table',
           saw' \in [Servers -> BOOLEAN], up' \in BOOLEAN, table' \in BOOLEAN,
           opened' \subseteq Servers, faults' \in 0..MaxFaults,
           OpensOnlyOnRequest', Passed(s)'
    PROVE  BootIInv'
<1>1. BootTypeOK'
  BY EnterTypes DEF BootIInv, BootTypeOK, given
<1>2. ASSUME NEW t \in Servers PROVE Passed(t)'
  <2>1. CASE t = s
    BY <2>1
  <2>2. CASE t # s
    <3>1. Passed(t) /\ phase'[t] = phase[t] /\ cfg'[t] = cfg[t]
      BY <2>2, EnterTypes DEF BootIInv
    <3> QED
      BY <3>1, PassedIsKept DEF given
  <2> QED
    BY <2>1, <2>2
<1> QED
  BY <1>1, <1>2 DEF BootIInv

\* Nobody opens the database in such a step.
LEMMA NobodyOpens ==
    ASSUME OpensOnlyOnRequest, UNCHANGED <<given, opened>>
    PROVE  OpensOnlyOnRequest'
BY DEF OpensOnlyOnRequest, given

LEMMA BootObservePreserves ==
    ASSUME BootIInv, NEW s \in Servers, Observe(s)
    PROVE  BootIInv'
<1> DEFINE p == IF env[s].SENTRY_DSN = "junk" THEN "exited" ELSE "observed"
<1>1. p \in Phases /\ Enter(s, p)
  BY DEF Observe, Phases
<1>2. phase'[s] = p
  BY <1>1, EnterTypes DEF BootIInv
<1>3. Passed(s)'
  BY <1>2 DEF Observe, given, Passed, Configured, Built, Routed
<1> QED
  BY <1>1, <1>3, OneServerMoves, NobodyOpens
  DEF Observe, database, BootIInv, BootTypeOK

\* The configuration that a server goes on with is the one it parsed.
LEMMA LoadConfigPreserves ==
    ASSUME BootIInv, NEW s \in Servers, LoadConfig(s)
    PROVE  BootIInv'
<1> DEFINE p == IF Configs(env[s]) = {} THEN "exited" ELSE "configured"
<1>1. /\ p \in Phases /\ Enter(s, p) /\ phase[s] = "observed"
      /\ cfg' = [cfg EXCEPT ![s] = Configs(env[s])]
      /\ UNCHANGED <<given, saw, opened, database>>
  BY DEF LoadConfig, Phases
<1>2. Configs(env[s]) \subseteq Configurations
  BY DEF Configs
<1>3. cfg' \in [Servers -> SUBSET Configurations] /\ cfg'[s] = Configs(env[s])
  BY <1>1, <1>2 DEF BootIInv, BootTypeOK
<1>4. BootTypeOK'
  BY <1>1, <1>3, EnterTypes DEF BootIInv, BootTypeOK, given, database
<1>5. Passed(s)'
  <2>1. phase'[s] = p /\ env' = env
    BY <1>1, EnterTypes DEF BootIInv, given
  <2>2. env[s].SENTRY_DSN # "junk"
    BY <1>1 DEF BootIInv, Passed
  <2> QED
    BY <2>1, <2>2, <1>3 DEF Passed, Configured, Built, Routed
<1>6. ASSUME NEW t \in Servers, t # s PROVE Passed(t)'
  <2>1. Passed(t) /\ phase'[t] = phase[t] /\ cfg'[t] = cfg[t]
    BY <1>1, <1>6, EnterTypes DEF BootIInv, BootTypeOK
  <2> QED
    BY <1>1, <2>1, PassedIsKept DEF database
<1>7. OpensOnlyOnRequest'
  BY <1>1, NobodyOpens DEF BootIInv
<1> QED
  BY <1>4, <1>5, <1>6, <1>7 DEF BootIInv

\* Only a configuration that names Postgres opens the database.
LEMMA BuildServicePreserves ==
    ASSUME BootIInv, NEW s \in Servers, BuildService(s)
    PROVE  BootIInv'
<1>1. /\ phase[s] = "configured"
      /\ UNCHANGED <<given, cfg, database>>
  BY DEF BuildService
<1>2. /\ env[s].SENTRY_DSN # "junk"
      /\ cfg[s] = Configs(env[s]) /\ cfg[s] # {}
  BY <1>1 DEF BootIInv, Passed, Configured
<1>3. Config(s)' = Config(s) /\ Store(s)' = Store(s) /\ env' = env
  BY <1>1, StoreIsKept DEF given
<1>4. CASE /\ Store(s) \in {"none", "postgres"} /\ Enter(s, "exited")
           /\ UNCHANGED <<saw, opened>>
  <2>1. phase'[s] = "exited"
    BY <1>4, EnterTypes DEF BootIInv, Phases
  <2>2. Passed(s)'
    BY <2>1 DEF Passed, Configured, Built, Routed
  <2> QED
    BY <1>1, <1>4, <2>2, OneServerMoves, NobodyOpens
    DEF database, BootIInv, BootTypeOK, Phases
<1>5. CASE Store(s) = "memory" /\ Enter(s, "built") /\ UNCHANGED <<saw, opened>>
  <2>1. phase'[s] = "built"
    BY <1>5, EnterTypes DEF BootIInv, Phases
  <2>2. Passed(s)'
    BY <1>1, <1>2, <1>3, <1>5, <2>1 DEF Passed, Configured, Built, Routed
  <2> QED
    BY <1>1, <1>5, <2>2, OneServerMoves, NobodyOpens
    DEF database, BootIInv, BootTypeOK, Phases
<1>6. CASE /\ Store(s) = "postgres" /\ Enter(s, "initialising")
           /\ saw' = [saw EXCEPT ![s] = table]
           /\ opened' = opened \cup {s}
  <2>1. phase'[s] = "initialising"
    BY <1>6, EnterTypes DEF BootIInv, Phases
  <2>2. Passed(s)'
    BY <1>1, <1>2, <1>3, <1>6, <2>1 DEF Passed, Configured, Built, Routed
  <2>3. /\ env[s].COUNTER_STORE = "postgres"
        /\ \A v \in {"APP_PORT", "GREETING_MODE"} : env[s][v] # "junk"
    <3>1. env[s] \in Environments
      BY DEF BootIInv, BootTypeOK
    <3>2. Config(s).store = "postgres"
      BY <1>6, StoreOfConfig
    <3> QED
      BY <1>2, <3>1, <3>2, ParsedWords
  <2>4. OpensOnlyOnRequest'
    BY <1>2, <1>3, <1>6, <2>3 DEF BootIInv, OpensOnlyOnRequest
  <2>5. saw' \in [Servers -> BOOLEAN] /\ opened' \subseteq Servers
    BY <1>6 DEF BootIInv, BootTypeOK
  <2> QED
    BY <1>1, <1>6, <2>2, <2>4, <2>5, OneServerMoves
    DEF database, BootIInv, BootTypeOK, Phases
<1> QED
  BY <1>4, <1>5, <1>6 DEF BuildService

\* Whoever goes on after INIT_SQL has the table.
LEMMA InitialisePreserves ==
    ASSUME BootIInv, NEW s \in Servers, Initialise(s)
    PROVE  BootIInv'
<1>1. /\ phase[s] = "initialising"
      /\ UNCHANGED <<given, cfg, saw, opened, up, faults>>
      /\ table => table'
      /\ table' \in BOOLEAN
  BY DEF Initialise, BootIInv, BootTypeOK
<1>2. /\ env[s].SENTRY_DSN # "junk"
      /\ cfg[s] = Configs(env[s]) /\ cfg[s] # {}
      /\ Store(s) # "none"
  BY <1>1 DEF BootIInv, Passed, Configured
<1>3. Store(s)' = Store(s) /\ env' = env
  BY <1>1, StoreIsKept DEF given
<1>4. CASE Enter(s, "built") /\ table' = TRUE
  <2>1. phase'[s] = "built"
    BY <1>4, EnterTypes DEF BootIInv, Phases
  <2>2. Passed(s)'
    BY <1>1, <1>2, <1>3, <1>4, <2>1 DEF Passed, Configured, Built, Routed
  <2> QED
    BY <1>1, <1>4, <2>2, OneServerMoves, NobodyOpens
       DEF BootIInv, BootTypeOK, Phases
<1>5. CASE Enter(s, "exited")
  <2>1. phase'[s] = "exited"
    BY <1>5, EnterTypes DEF BootIInv, Phases
  <2>2. Passed(s)'
    BY <2>1 DEF Passed, Configured, Built, Routed
  <2> QED
    BY <1>1, <1>5, <2>2, OneServerMoves, NobodyOpens
       DEF BootIInv, BootTypeOK, Phases
<1> QED
  BY <1>4, <1>5 DEF Initialise

\* The steps after the store was built: each looks at the configuration, and
\* goes on or exits.
LEMMA LaterStepsPreserve ==
    ASSUME BootIInv, NEW s \in Servers,
           BuildRouter(s) \/ ParseAddress(s) \/ Serve(s)
    PROVE  BootIInv'
<1>1. /\ phase[s] \in {"built", "routed", "addressed"}
      /\ UNCHANGED <<given, cfg, saw, opened, database>>
  BY DEF BuildRouter, ParseAddress, Serve
<1>2. /\ env[s].SENTRY_DSN # "junk"
      /\ cfg[s] = Configs(env[s]) /\ cfg[s] # {}
      /\ Store(s) # "none"
      /\ Store(s) = "postgres" => table
      /\ phase[s] # "built" => Config(s).label # "binary"
      /\ phase[s] = "addressed" => Config(s).host # "name"
  BY <1>1 DEF BootIInv, Passed, Configured, Built, Routed
<1>3. /\ Config(s)' = Config(s) /\ Store(s)' = Store(s)
      /\ env' = env /\ table' = table
  BY <1>1, StoreIsKept DEF given, database
<1>4. PICK p \in {"routed", "addressed", "serving", "exited"} :
        /\ Enter(s, p)
        /\ p \in Routed => Config(s).label # "binary"
        /\ p \in Routed \ {"routed"} => Config(s).host # "name"
  BY <1>2 DEF BuildRouter, ParseAddress, Serve, Routed
<1>5. p \in Phases /\ phase'[s] = p
  BY <1>4, EnterTypes DEF BootIInv, Phases
<1>6. Passed(s)'
  <2>1. CASE p = "exited"
    BY <1>5, <2>1 DEF Passed, Configured, Built, Routed
  <2>2. CASE p = "routed"
    BY <1>1, <1>2, <1>3, <1>4, <1>5, <2>2 DEF Passed, Configured, Built, Routed
  <2>3. CASE p \in {"addressed", "serving"}
    <3>1. Config(s).label # "binary" /\ Config(s).host # "name"
      BY <1>4, <2>3 DEF Routed
    <3> QED
      BY <1>1, <1>2, <1>3, <1>5, <2>3, <3>1
         DEF Passed, Configured, Built, Routed
  <2> QED
    BY <2>1, <2>2, <2>3
<1> QED
  BY <1>1, <1>4, <1>5, <1>6, OneServerMoves, NobodyOpens
  DEF database, BootIInv, BootTypeOK

LEMMA BootDiePreserves ==
    ASSUME BootIInv, NEW s \in Servers, Die(s)
    PROVE  BootIInv'
<1>1. /\ Enter(s, "exited") /\ faults' \in 0..MaxFaults
      /\ UNCHANGED <<given, cfg, saw, opened, up, table>>
  BY DEF Die, BootIInv, BootTypeOK
<1>2. phase'[s] = "exited"
  BY <1>1, EnterTypes DEF BootIInv, Phases
<1>3. Passed(s)'
  BY <1>2 DEF Passed, Configured, Built, Routed
<1> QED
  BY <1>1, <1>3, OneServerMoves, NobodyOpens
       DEF BootIInv, BootTypeOK, Phases

LEMMA RebootPreserves ==
    ASSUME BootIInv, NEW s \in Servers, Reboot(s)
    PROVE  BootIInv'
<1>1. /\ Enter(s, "starting")
      /\ cfg' = [cfg EXCEPT ![s] = {}]
      /\ saw' = [saw EXCEPT ![s] = FALSE]
      /\ UNCHANGED <<given, opened, database>>
  BY DEF Reboot
<1>2. BootTypeOK'
  BY <1>1, EnterTypes DEF BootIInv, BootTypeOK, given, database, Phases
<1>3. ASSUME NEW t \in Servers PROVE Passed(t)'
  <2>1. CASE t = s
    <3>1. phase'[s] = "starting"
      BY <1>1, EnterTypes DEF BootIInv, Phases
    <3> QED
      BY <2>1, <3>1 DEF Passed, Configured, Built, Routed
  <2>2. CASE t # s
    <3>1. Passed(t) /\ phase'[t] = phase[t] /\ cfg'[t] = cfg[t]
      BY <1>1, <2>2, EnterTypes DEF BootIInv, BootTypeOK, Phases
    <3> QED
      BY <1>1, <3>1, PassedIsKept DEF database
  <2> QED
    BY <2>1, <2>2
<1> QED
  BY <1>1, <1>2, <1>3, NobodyOpens DEF BootIInv

\* No server moves.
LEMMA BootDatabasePreserves ==
    ASSUME BootIInv, GoDown \/ ComeUp \/ UNCHANGED bootVars
    PROVE  BootIInv'
<1>1. /\ UNCHANGED <<given, phase, cfg, saw, opened, table>>
      /\ up' \in BOOLEAN /\ faults' \in 0..MaxFaults
  <2>1. CASE GoDown
    <3>1. faults' \in 0..MaxFaults
      BY <2>1 DEF GoDown, BootIInv, BootTypeOK
    <3>2. UNCHANGED <<given, phase, cfg, saw, opened, table>> /\ up' = FALSE
      BY <2>1 DEF GoDown
    <3> QED
      BY <3>1, <3>2
  <2>2. CASE ComeUp
    BY <2>2 DEF ComeUp, BootIInv, BootTypeOK
  <2>3. CASE UNCHANGED bootVars
    BY <2>3 DEF bootVars, given, BootIInv, BootTypeOK
  <2> QED
    BY <2>1, <2>2, <2>3
<1>2. BootTypeOK'
  BY <1>1 DEF BootIInv, BootTypeOK, given
<1>3. \A t \in Servers : Passed(t)'
  BY <1>1, PassedIsKept DEF BootIInv
<1> QED
  BY <1>1, <1>2, <1>3, NobodyOpens DEF BootIInv

LEMMA BootNextPreserves == BootIInv /\ [BootNext]_bootVars => BootIInv'
BY BootObservePreserves, LoadConfigPreserves, BuildServicePreserves,
   InitialisePreserves, LaterStepsPreserve, BootDiePreserves, RebootPreserves,
   BootDatabasePreserves
   DEF BootNext, Boot

-----------------------------------------------------------------------------
\* What a server has passed, at each stage of its boot (main.rs:14-28).
THEOREM BootInvariantHolds == BootSpec => []BootIInv
BY BootInitEstablishes, BootNextPreserves, PTL DEF BootSpec

THEOREM BootTypeCorrect == BootSpec => []BootTypeOK
<1>1. BootIInv => BootTypeOK
  BY DEF BootIInv
<1> QED
  BY <1>1, BootInvariantHolds, PTL

\* No build and no typo makes a server fall back to another store or mode.
THEOREM ServesWhatWasAskedHolds == BootSpec => []ServesWhatWasAsked
<1>1. ASSUME BootIInv, NEW s \in Servers, phase[s] = "serving"
      PROVE  /\ WellConfigured(s)
             /\ Config(s).mode = Default(env[s].GREETING_MODE, "plain")
             /\ Store(s) = Default(env[s].COUNTER_STORE, "memory")
  <2>1. /\ env[s].SENTRY_DSN # "junk"
        /\ cfg[s] = Configs(env[s]) /\ cfg[s] # {}
        /\ Store(s) # "none"
        /\ Config(s).label # "binary" /\ Config(s).host # "name"
    BY <1>1 DEF BootIInv, Passed, Configured, Built, Routed
  <2>2. env[s] \in Environments
    BY <1>1 DEF BootIInv, BootTypeOK
  <2>3. env[s].APP_HOST # "name" /\ env[s].SERVER_LABEL # "binary"
    BY <2>1, ParsedConfig DEF Default
  <2>4. /\ env[s].COUNTER_STORE = "postgres" =>
              "postgres-store" \in features /\ env[s].DATABASE_URL = "url"
        /\ env[s].COUNTER_STORE # "postgres" => "memory-store" \in features
    BY <2>1, <2>2, ParsedConfig, ParsedWords, StoreOfConfig
  <2> QED
    BY <2>1, <2>2, <2>3, <2>4, ParsedConfig, ParsedWords, StoreOfConfig
    DEF WellConfigured
<1>2. BootIInv => ServesWhatWasAsked
  BY <1>1 DEF ServesWhatWasAsked
<1> QED
  BY <1>2, BootInvariantHolds, PTL

\* Only a server whose environment asks for Postgres, and parses, ever opens
\* the database.
THEOREM OpensOnlyOnRequestHolds == BootSpec => []OpensOnlyOnRequest
<1>1. BootIInv => OpensOnlyOnRequest
  BY DEF BootIInv
<1> QED
  BY <1>1, BootInvariantHolds, PTL

\* A serving Postgres server has its table.
THEOREM ServingHasTableHolds == BootSpec => []ServingHasTable
<1>1. BootIInv => ServingHasTable
  BY DEF BootIInv, Passed, Built, Routed, ServingHasTable
<1> QED
  BY <1>1, BootInvariantHolds, PTL

HIDE ServerAssumption
USE ConstantsAssumption

-----------------------------------------------------------------------------
(* The counter: queues. *)

\* A queue without its first element.
LEMMA QueueWithoutHead ==
    ASSUME NEW s \in Seq(Calls), s # <<>>
    PROVE  /\ Tail(s) \in Seq(Calls)
           /\ Len(s) \in Nat /\ Len(s) > 0
           /\ Len(Tail(s)) = Len(s) - 1
           /\ Head(s) = s[1] /\ Head(s) \in Calls
           /\ \A i \in 1..Len(Tail(s)) : Tail(s)[i] = s[i + 1]
<1>1. Len(s) \in Nat \ {0}
  BY EmptySeq
<1> QED
  BY <1>1, HeadTailProperties

\* A queue that one of its elements has left.
LEMMA QueueWithout ==
    ASSUME NEW s \in Seq(Calls), NEW i \in 1..Len(s)
    PROVE  /\ RemoveAt(s, i) \in Seq(Calls)
           /\ Len(RemoveAt(s, i)) = Len(s) - 1
           /\ \A j \in 1..(Len(s) - 1) :
                RemoveAt(s, i)[j] = IF j < i THEN s[j] ELSE s[j + 1]
<1> DEFINE before == SubSeq(s, 1, i - 1)
           behind == SubSeq(s, i + 1, Len(s))
<1>1. Len(s) \in Nat /\ \A j \in 1..Len(s) : s[j] \in Calls
  BY LenProperties, ElementOfSeq
<1>2. /\ before \in Seq(Calls)
      /\ Len(before) = i - 1
      /\ \A j \in 1..(i - 1) : before[j] = s[j]
  BY <1>1, SubSeqProperties
<1>3. /\ behind \in Seq(Calls)
      /\ Len(behind) = Len(s) - i
      /\ \A j \in 1..(Len(s) - i) : behind[j] = s[j + i]
  BY <1>1, SubSeqProperties
<1>4. RemoveAt(s, i) = before \o behind
  BY DEF RemoveAt
<1> HIDE DEF before, behind
<1>5. /\ before \o behind \in Seq(Calls)
      /\ Len(before \o behind) = Len(before) + Len(behind)
      /\ \A j \in 1..(Len(before) + Len(behind)) :
           (before \o behind)[j] = IF j <= Len(before) THEN before[j]
                                   ELSE behind[j - Len(before)]
  BY <1>2, <1>3, ConcatProperties
<1>6. Len(before) + Len(behind) = Len(s) - 1
  BY <1>1, <1>2, <1>3
<1>7. ASSUME NEW j \in 1..(Len(s) - 1)
      PROVE  (before \o behind)[j] = IF j < i THEN s[j] ELSE s[j + 1]
  <2>1. CASE j < i
    BY <1>1, <1>2, <1>5, <1>6, <2>1
  <2>2. CASE ~(j < i)
    <3>1. /\ j - (i - 1) \in 1..(Len(s) - i)
          /\ (j - (i - 1)) + i = j + 1
      BY <1>1, <2>2
    <3>2. behind[j - (i - 1)] = s[j + 1]
      BY <1>3, <3>1
    <3> QED
      BY <1>1, <1>2, <1>5, <1>6, <2>2, <3>2
  <2> QED
    BY <2>1, <2>2
<1> QED
  BY <1>4, <1>5, <1>6, <1>7

\* A queue that a caller has joined.
LEMMA QueueWith ==
    ASSUME NEW s \in Seq(Calls), NEW c \in Calls
    PROVE  /\ Append(s, c) \in Seq(Calls)
           /\ Len(s) \in Nat
           /\ Len(Append(s, c)) = Len(s) + 1
           /\ \A j \in 1..Len(s) : Append(s, c)[j] = s[j]
           /\ Append(s, c)[Len(s) + 1] = c
BY AppendProperties, LenProperties

\* Before it wraps, a counter modulo Modulus is exact.
LEMMA NotWrapped == ASSUME NEW n \in 0..(Modulus - 1) PROVE n % Modulus = n
OBVIOUS

-----------------------------------------------------------------------------
(* The counter: every step preserves its invariant. *)

\* The initial state satisfies the inductive invariant.
LEMMA InitEstablishes == Init => IInv
<1> SUFFICES ASSUME Init PROVE IInv
  OBVIOUS
<1>1. TypeOK
  BY DEF Init, TypeOK, States, NoTicket, Tickets
<1>2. OneHolder /\ FirstComeFirstServed
  BY DEF Init, OneHolder, Holding, FirstComeFirstServed
<1>3. QueueIsInOrder
  BY DEF Init, QueueIsInOrder
<1>4. RanksAreInOrder
  <2>1. Arrived = {}
    BY DEF Init, Arrived
  <2> QED
    BY <2>1, FS_EmptySet
       DEF Init, RanksAreInOrder, Holding, Contending, Served
<1>5. NumbersAreInOrder
  BY DEF Init, NumbersAreInOrder, NoTicket, Served
<1> QED
  BY <1>1, <1>2, <1>3, <1>4, <1>5 DEF IInv

\* Who comes is last in every order.
LEMMA LockPreserves == ASSUME IInv, NEW c \in Calls, Lock(c) PROVE IInv'
<1>1. /\ pc[c] = "idle" /\ pc'[c] \in {"locked", "queued"}
      /\ \A d \in Calls : d # c => pc'[d] = pc[d]
      /\ pc' \in [Calls -> States]
      /\ \A d \in Calls : d # c => rank'[d] = rank[d]
      /\ rank'[c] = Cardinality(Arrived) + 1
      /\ UNCHANGED <<counter, ticket, era, shown, issued>>
  BY DEF TypeOK, IInv, Lock, Arrived, States, Holding
<1>2. Cardinality(Arrived) \in Nat /\ rank \in [Calls -> Nat]
      /\ \A d \in Calls : pc[d] # "idle" => rank[d] < rank'[c]
  <2>1. Cardinality(Arrived) \in Nat
    BY FS_CardinalityType DEF IInv, RanksAreInOrder
  <2>2. \A d \in Calls : pc[d] # "idle" => rank[d] <= Cardinality(Arrived)
    BY DEF IInv, RanksAreInOrder, Arrived
  <2>3. rank \in [Calls -> Nat]
    BY DEF IInv, TypeOK
  <2> QED
    BY <1>1, <2>1, <2>2, <2>3
<1>3. TypeOK'
  <2>1. queue' \in Seq(Calls) /\ free' \in BOOLEAN
    BY QueueWith DEF TypeOK, IInv, Lock
  <2>2. rank' \in [Calls -> Nat] /\ floor' \in [Calls -> Tickets]
    BY <1>2 DEF TypeOK, IInv, Lock, Arrived, Tickets
  <2> QED
    BY <1>1, <2>1, <2>2 DEF TypeOK, IInv
<1>4. OneHolder'
  BY <1>1 DEF IInv, OneHolder, Lock, Holding
<1>5. QueueIsInOrder'
  <2>1. CASE free
    <3>1. pc'[c] = "locked" /\ queue = <<>> /\ queue' = <<>>
      BY <2>1 DEF TypeOK, IInv, OneHolder, Lock
    <3> QED
      BY <1>1, <3>1 DEF IInv, QueueIsInOrder
  <2>2. CASE ~free
    <3>1. pc'[c] = "queued" /\ queue' = Append(queue, c)
      BY <2>2 DEF TypeOK, IInv, Lock
    <3>2. /\ Len(queue) \in Nat
          /\ Len(queue') = Len(queue) + 1
          /\ \A j \in 1..Len(queue) : queue'[j] = queue[j]
          /\ queue'[Len(queue) + 1] = c
      BY <3>1, QueueWith DEF TypeOK, IInv
    <3>3. \A j \in 1..Len(queue) :
             queue[j] \in Calls /\ queue[j] # c /\ pc[queue[j]] = "queued"
      BY <1>1, ElementOfSeq DEF TypeOK, IInv, QueueIsInOrder
    <3>4. \A i \in 1..Len(queue') : pc'[queue'[i]] = "queued"
      BY <1>1, <3>1, <3>2, <3>3
    <3>5. \A d \in Calls :
             pc'[d] = "queued" => \E i \in 1..Len(queue') : queue'[i] = d
      BY <1>1, <3>1, <3>2 DEF IInv, QueueIsInOrder
    <3>6. \A i, j \in 1..Len(queue) :
             i < j => rank'[queue'[i]] < rank'[queue'[j]]
      BY <1>1, <3>2, <3>3 DEF IInv, QueueIsInOrder
    <3>7. \A i \in 1..Len(queue) : rank'[queue'[i]] < rank'[c]
      BY <1>1, <1>2, <3>2, <3>3
    <3> QED
      BY <3>2, <3>4, <3>5, <3>6, <3>7 DEF QueueIsInOrder
  <2> QED
    BY <2>1, <2>2
<1>6. RanksAreInOrder'
  <2>1. Arrived' = Arrived \cup {c} /\ c \notin Arrived
    BY <1>1 DEF Arrived
  <2>2. /\ IsFiniteSet(Arrived')
        /\ Cardinality(Arrived') = Cardinality(Arrived) + 1
    BY <2>1, FS_AddElement DEF IInv, RanksAreInOrder
  <2>3. \A d \in Arrived' : rank'[d] <= Cardinality(Arrived)'
    BY <1>1, <1>2, <2>1, <2>2 DEF IInv, RanksAreInOrder, Arrived
  <2>4. free => \A d \in Calls : pc[d] # "queued"
    BY EmptySeq DEF IInv, OneHolder, QueueIsInOrder
  <2>5. \A d, e \in Calls :
          pc'[d] \in Holding /\ pc'[e] = "queued" => rank'[d] < rank'[e]
    BY <1>1, <1>2, <2>4 DEF IInv, RanksAreInOrder, Lock, Holding
  <2>6. \A d, e \in Calls :
          Served(d)' /\ pc'[e] \in Contending' => rank'[d] < rank'[e]
    BY <1>1, <1>2 DEF IInv, RanksAreInOrder, Served, Contending, Holding
  <2> QED
    BY <2>2, <2>3, <2>5, <2>6 DEF RanksAreInOrder, Holding
<1>7. NumbersAreInOrder' /\ FirstComeFirstServed'
  BY <1>1 DEF IInv, NumbersAreInOrder, FirstComeFirstServed, Served
<1> QED
  BY <1>3, <1>4, <1>5, <1>6, <1>7 DEF IInv

LEMMA ResumePreserves == ASSUME IInv, NEW c \in Calls, Resume(c) PROVE IInv'
<1>1. /\ pc[c] = "granted" /\ pc'[c] = "locked"
      /\ \A d \in Calls : d # c => pc'[d] = pc[d]
      /\ pc' \in [Calls -> States]
      /\ UNCHANGED <<mutex, counter, ticket, history>>
  BY DEF TypeOK, IInv, Resume, States, Holding
<1>2. TypeOK'
  BY <1>1 DEF TypeOK, IInv, mutex, history
<1>3. OneHolder' /\ NumbersAreInOrder' /\ FirstComeFirstServed'
  BY <1>1 DEF IInv, OneHolder, NumbersAreInOrder, FirstComeFirstServed,
              Served, Holding, mutex, history
<1>4. QueueIsInOrder'
  BY <1>1, ElementOfSeq DEF TypeOK, IInv, QueueIsInOrder, mutex, history
<1>5. Arrived' = Arrived
  BY <1>1 DEF Arrived
<1>6. RanksAreInOrder'
  BY <1>1, <1>5
     DEF IInv, RanksAreInOrder, Served, Contending, Holding, mutex, history
<1> QED
  BY <1>2, <1>3, <1>4, <1>6 DEF IInv

\* Only one call holds the lock, so no other has counted.
LEMMA IncrementPreserves ==
    ASSUME IInv, NEW c \in Calls, Increment(c) PROVE IInv'
<1>1. /\ pc[c] = "locked" /\ pc'[c] = "counted"
      /\ \A d \in Calls : d # c => pc'[d] = pc[d]
      /\ pc' \in [Calls -> States]
      /\ issued' = issued + 1 /\ counter' = (counter + 1) % Modulus
      /\ UNCHANGED <<mutex, ticket, era, shown, floor, rank>>
  BY DEF TypeOK, IInv, Increment, States, Holding
<1>2. issued' < Modulus => issued < Modulus /\ counter' = counter + 1
  <2>1. issued \in Nat /\ Modulus \in Nat
    BY DEF IInv, TypeOK
  <2>2. SUFFICES ASSUME issued + 1 < Modulus
                 PROVE  issued < Modulus /\ counter' = counter + 1
    BY <1>1
  <2>3. issued < Modulus /\ counter = issued
    BY <2>1, <2>2 DEF IInv, NumbersAreInOrder
  <2>4. (issued + 1) % Modulus = issued + 1
    BY <2>1, <2>2, NotWrapped
  <2> QED
    BY <1>1, <2>3, <2>4
<1>3. TypeOK'
  BY <1>1 DEF TypeOK, IInv, mutex
<1>4. OneHolder'
  BY <1>1 DEF IInv, OneHolder, Holding, mutex
<1>5. QueueIsInOrder'
  BY <1>1, ElementOfSeq DEF TypeOK, IInv, QueueIsInOrder, mutex
<1>6. Arrived' = Arrived
  BY <1>1 DEF Arrived
<1>7. RanksAreInOrder'
  BY <1>1, <1>6
     DEF IInv, RanksAreInOrder, Served, Contending, Holding, mutex
<1>8. NumbersAreInOrder'
  <2>1. \A d \in Calls : /\ pc'[d] # "answered" => ticket'[d] = NoTicket
                         /\ ticket'[d].era <= era'
                         /\ Served(d)' => Served(d)
                         /\ pc'[d] = "counted" => d = c
    BY <1>1, <1>4 DEF IInv, NumbersAreInOrder, Served, OneHolder, Holding
  <2>2. \A d \in Calls : ticket'[d] = ticket[d] /\ ticket[d].number \in Nat
    BY <1>1 DEF IInv, TypeOK, Tickets
  <2>3. issued' < Modulus =>
          /\ counter' = counter + 1 /\ counter = issued /\ issued \in Nat
          /\ \A d \in Calls : Served(d) => ticket[d].number <= counter
    BY <1>2 DEF IInv, TypeOK, NumbersAreInOrder
  <2>4. issued' < Modulus =>
          /\ counter' = issued' /\ counter' > 0
          /\ \A d \in Calls : Served(d)' => ticket'[d].number < counter'
    <3> SUFFICES ASSUME issued' < Modulus
                 PROVE  /\ counter' = issued' /\ counter' > 0
                        /\ \A d \in Calls :
                             Served(d)' => ticket'[d].number < counter'
      OBVIOUS
    <3>1. counter' = issued' /\ counter' > 0
      BY <1>1, <2>3
    <3>2. ASSUME NEW d \in Calls, Served(d)'
          PROVE  ticket'[d].number < counter'
      <4>1. ticket[d].number <= counter
        BY <2>1, <2>3, <3>2
      <4> QED
        BY <2>2, <2>3, <4>1
    <3> QED
      BY <3>1, <3>2
  <2>5. counter' \in Nat /\ \A d \in Calls : ticket'[d].number \in Nat
    <3>1. counter' \in Nat
      BY <1>3 DEF TypeOK
    <3>2. \A d \in Calls : ticket'[d].number \in Nat
      BY <2>2
    <3> QED
      BY <3>1, <3>2
  <2>6. issued' < Modulus =>
          \A d \in Calls : Served(d)' => ticket'[d].number <= counter'
    BY <2>4, <2>5
  <2> QED
    BY <2>1, <2>4, <2>6 DEF NumbersAreInOrder
<1>9. FirstComeFirstServed'
  BY <1>1, <1>2 DEF IInv, FirstComeFirstServed
<1> QED
  BY <1>3, <1>4, <1>5, <1>7, <1>8, <1>9 DEF IInv

\* The lock goes to the first of the queue, who came before the rest of it.
LEMMA UnlockHandsOver ==
    ASSUME IInv, NEW c \in Calls, NEW outcome \in {"answered", "gone"},
           pc[c] \in Holding, Unlock(c, outcome), rank' = rank
    PROVE  /\ pc' \in [Calls -> States] /\ free' \in BOOLEAN
           /\ queue' \in Seq(Calls)
           /\ pc'[c] = outcome
           /\ \A d \in Calls : d # c => \/ pc'[d] = pc[d] /\ pc[d] \notin Holding
                                        \/ pc[d] = "queued" /\ pc'[d] = "granted"
           /\ OneHolder' /\ QueueIsInOrder'
           /\ \A d, e \in Calls :
                pc'[d] \in Holding /\ pc'[e] = "queued" => rank[d] < rank[e]
           /\ \A d \in Calls : pc'[d] \in Contending => rank[c] < rank[d]
<1>1. /\ pc \in [Calls -> States] /\ queue \in Seq(Calls) /\ free \in BOOLEAN
      /\ outcome \in States /\ outcome \notin Contending
      /\ ~free /\ \A d \in Calls : d # c => pc[d] \notin Holding
      /\ \A d \in Calls : pc[d] = "queued" => rank[c] < rank[d]
  BY DEF IInv, TypeOK, OneHolder, RanksAreInOrder, States, Contending, Holding
<1>2. CASE queue = <<>>
  <2>1. /\ free' = TRUE /\ queue' = <<>>
        /\ pc' \in [Calls -> States] /\ pc'[c] = outcome
        /\ \A d \in Calls : d # c => pc'[d] = pc[d]
    BY <1>1, <1>2 DEF Unlock
  <2>2. \A d \in Calls : pc[d] # "queued"
    BY <1>2, EmptySeq DEF IInv, QueueIsInOrder
  <2>3. \A d \in Calls : pc'[d] \notin Contending
    BY <1>1, <2>1, <2>2 DEF Contending
  <2>4. OneHolder'
    BY <2>1, <2>3 DEF OneHolder, Contending
  <2>5. QueueIsInOrder'
    BY <2>1, <2>3, EmptySeq DEF QueueIsInOrder, Contending
  <2>6. queue' \in Seq(Calls) /\ free' \in BOOLEAN
    BY <1>1, <1>2, <2>1
  <2>7. \A d \in Calls : d # c => pc'[d] = pc[d] /\ pc[d] \notin Holding
    BY <1>1, <2>1
  <2>8. \A d \in Calls : pc'[d] \notin Holding
    BY <2>3 DEF Contending
  <2> QED
    BY <2>1, <2>3, <2>4, <2>5, <2>6, <2>7, <2>8
<1>3. CASE queue # <<>>
  <2> DEFINE h == queue[1]
  <2>1. /\ Head(queue) = h /\ h \in Calls
        /\ Len(queue) \in Nat /\ Len(queue) > 0
        /\ Tail(queue) \in Seq(Calls) /\ Len(Tail(queue)) = Len(queue) - 1
        /\ \A i \in 1..Len(Tail(queue)) : Tail(queue)[i] = queue[i + 1]
    BY <1>1, <1>3, QueueWithoutHead
  <2>2. pc[h] = "queued" /\ h # c
    BY <2>1 DEF IInv, QueueIsInOrder, Holding
  <2>3. /\ UNCHANGED free /\ queue' = Tail(queue)
        /\ pc' = [pc EXCEPT ![c] = outcome, ![h] = "granted"]
    BY <1>3, <2>1 DEF Unlock
  <2>4. /\ pc' \in [Calls -> States]
        /\ pc'[c] = outcome /\ pc'[h] = "granted"
        /\ \A d \in Calls : d # c /\ d # h => pc'[d] = pc[d]
    BY <1>1, <2>1, <2>2, <2>3 DEF States, Holding
  <2>5. \A i \in 1..Len(queue') :
           /\ queue'[i] = queue[i + 1]
           /\ i + 1 \in 1..Len(queue)
    BY <2>1, <2>3
  <2>6. \A i \in 1..Len(queue) : queue[i] \in Calls /\ pc[queue[i]] = "queued"
    BY <1>1, ElementOfSeq DEF IInv, QueueIsInOrder
  <2>7. \A i, j \in 1..Len(queue) : i < j => rank[queue[i]] < rank[queue[j]]
    BY DEF IInv, QueueIsInOrder
  <2>8. rank \in [Calls -> Nat]
    BY DEF IInv, TypeOK
  <2>9. \A i \in 2..Len(queue) : queue[i] # h /\ rank[h] < rank[queue[i]]
    BY <2>1, <2>6, <2>7, <2>8
  <2>10. QueueIsInOrder'
    <3>1. \A i \in 1..Len(queue') : pc'[queue'[i]] = "queued"
      <4> SUFFICES ASSUME NEW i \in 1..Len(queue')
                   PROVE  pc'[queue'[i]] = "queued"
        OBVIOUS
      <4>1. i + 1 \in 2..Len(queue)
        BY <2>1, <2>3
      <4>2. queue'[i] \in Calls /\ queue'[i] # h /\ pc[queue'[i]] = "queued"
        BY <2>5, <2>6, <2>9, <4>1
      <4> QED
        BY <2>4, <4>2 DEF Holding
    <3>2. ASSUME NEW d \in Calls, pc'[d] = "queued"
          PROVE  \E i \in 1..Len(queue') : queue'[i] = d
      <4>1. pc[d] = "queued" /\ d # h
        BY <2>4, <3>2, <1>1 DEF Contending
      <4>2. PICK k \in 1..Len(queue) : queue[k] = d
        BY <4>1 DEF IInv, QueueIsInOrder
      <4>3. k # 1 /\ k - 1 \in 1..Len(queue')
        BY <2>1, <2>3, <4>1, <4>2
      <4>4. queue'[k - 1] = d
        BY <2>5, <4>2, <4>3
      <4> QED
        BY <4>3, <4>4
    <3>3. \A i, j \in 1..Len(queue') :
             i < j => rank'[queue'[i]] < rank'[queue'[j]]
      <4> SUFFICES ASSUME NEW i \in 1..Len(queue'), NEW j \in 1..Len(queue'),
                          i < j
                   PROVE  rank[queue'[i]] < rank[queue'[j]]
        OBVIOUS
      <4>1. /\ i + 1 \in 1..Len(queue) /\ j + 1 \in 1..Len(queue)
            /\ queue'[i] = queue[i + 1] /\ queue'[j] = queue[j + 1]
        BY <2>5
      <4>2. i + 1 < j + 1
        OBVIOUS
      <4> QED
        BY <2>7, <4>1, <4>2
    <3> QED
      BY <3>1, <3>2, <3>3 DEF QueueIsInOrder
  <2>11. \A d \in Calls : pc'[d] \in Holding => d = h
    BY <1>1, <2>4 DEF Contending
  <2>12. OneHolder'
    BY <1>1, <2>1, <2>3, <2>4, <2>11 DEF OneHolder, Holding
  <2>13. \A d \in Calls : pc'[d] = "queued" =>
                            pc[d] = "queued" /\ rank[h] < rank[d]
    <3>1. SUFFICES ASSUME NEW d \in Calls, pc'[d] = "queued"
                   PROVE  pc[d] = "queued" /\ rank[h] < rank[d]
      OBVIOUS
    <3>2. pc[d] = "queued" /\ d # h
      BY <1>1, <2>4, <3>1 DEF Contending
    <3>3. PICK k \in 1..Len(queue) : queue[k] = d
      BY <3>2 DEF IInv, QueueIsInOrder
    <3>4. k \in 2..Len(queue)
      BY <2>1, <3>2, <3>3
    <3> QED
      BY <2>9, <3>2, <3>3, <3>4
  <2>14. \A d, e \in Calls :
            pc'[d] \in Holding /\ pc'[e] = "queued" => rank[d] < rank[e]
    BY <2>11, <2>13
  <2>15. \A d \in Calls : pc'[d] \in Contending => rank[c] < rank[d]
    BY <1>1, <2>2, <2>11, <2>13 DEF Contending
  <2>16. \A d \in Calls : d # c => \/ pc'[d] = pc[d] /\ pc[d] \notin Holding
                                   \/ pc[d] = "queued" /\ pc'[d] = "granted"
    <3> SUFFICES ASSUME NEW d \in Calls, d # c
                 PROVE  \/ pc'[d] = pc[d] /\ pc[d] \notin Holding
                        \/ pc[d] = "queued" /\ pc'[d] = "granted"
      OBVIOUS
    <3>1. CASE d = h
      BY <2>2, <2>4, <3>1
    <3>2. CASE d # h
      BY <1>1, <2>4, <3>2
    <3> QED
      BY <3>1, <3>2
  <2> HIDE DEF h
  <2> QED
    BY <1>1, <2>1, <2>3, <2>4, <2>10, <2>12, <2>14, <2>15, <2>16
<1> QED
  BY <1>2, <1>3

\* Once the lock has changed hands, its new holder has not counted yet.
LEMMA NobodyHasCounted ==
    ASSUME IInv, NEW c \in Calls, NEW outcome \in {"answered", "gone"},
           pc[c] \in Holding, Unlock(c, outcome), rank' = rank
    PROVE  /\ Arrived' = Arrived
           /\ \A d \in Calls : pc'[d] # "counted"
           /\ \A d \in Calls :
                d # c => /\ pc'[d] = "answered" <=> pc[d] = "answered"
                         /\ pc'[d] \in Contending => pc[d] \in Contending
<1>1. /\ pc'[c] = outcome /\ pc[c] # "idle"
      /\ \A d \in Calls :
           d # c => \/ pc'[d] = pc[d] /\ pc[d] \notin Holding
                    \/ pc[d] = "queued" /\ pc'[d] = "granted"
  BY UnlockHandsOver DEF Holding
<1>2. \A d \in Calls : pc'[d] # "idle" <=> pc[d] # "idle"
  BY <1>1
<1> QED
  BY <1>1, <1>2 DEF Arrived, Contending, Holding

\* Who returns has the largest number, and came after all who were served.
LEMMA ReturnPreserves == ASSUME IInv, NEW c \in Calls, Return(c) PROVE IInv'
<1>1. /\ pc[c] = "counted" /\ pc[c] \in Holding /\ pc[c] \in Contending
      /\ Unlock(c, "answered")
      /\ shown' = Larger(shown, counter)
      /\ UNCHANGED <<counter, era, floor, rank, issued>>
  BY DEF Return, Holding, Contending
<1>2. /\ pc' \in [Calls -> States] /\ free' \in BOOLEAN
      /\ queue' \in Seq(Calls) /\ pc'[c] = "answered"
      /\ OneHolder' /\ QueueIsInOrder'
      /\ \A d, e \in Calls :
           pc'[d] \in Holding /\ pc'[e] = "queued" => rank[d] < rank[e]
      /\ \A d \in Calls : pc'[d] \in Contending => rank[c] < rank[d]
  BY <1>1, UnlockHandsOver
<1>3. /\ Arrived' = Arrived
      /\ \A d \in Calls : pc'[d] # "counted"
      /\ \A d \in Calls :
           d # c => /\ pc'[d] = "answered" <=> pc[d] = "answered"
                    /\ pc'[d] \in Contending => pc[d] \in Contending
  BY <1>1, NobodyHasCounted
<1>4. /\ counter \in Nat /\ era \in Nat /\ shown \in Nat /\ issued \in Nat
      /\ Modulus \in Nat
      /\ ticket \in [Calls -> Tickets] /\ rank \in [Calls -> Nat]
  BY DEF IInv, TypeOK
<1>5. ticket' = [ticket EXCEPT ![c] = [era |-> era, number |-> counter]]
  BY DEF Return
<1>6. /\ ticket' \in [Calls -> Tickets]
      /\ ticket'[c].era = era /\ ticket'[c].number = counter
      /\ \A d \in Calls : d # c => ticket'[d] = ticket[d]
  BY <1>4, <1>5 DEF Tickets
<1>7. TypeOK'
  BY <1>1, <1>2, <1>4, <1>6 DEF IInv, TypeOK, Larger
<1>8. \A d \in Calls : Served(d)' <=> d = c \/ Served(d)
  BY <1>1, <1>2, <1>3, <1>6 DEF Served
<1>9. RanksAreInOrder'
  <2>1. \A d, e \in Calls :
           Served(d)' /\ pc'[e] \in Contending => rank[d] < rank[e]
    BY <1>2, <1>3, <1>8 DEF IInv, RanksAreInOrder, Contending, Holding
  <2> QED
    BY <1>1, <1>2, <1>3, <2>1
       DEF IInv, RanksAreInOrder, Contending, Holding
<1>10. NumbersAreInOrder'
  <2>1. \A d \in Calls : /\ pc'[d] # "answered" => ticket'[d] = NoTicket
                         /\ ticket'[d].era <= era'
    <3> SUFFICES ASSUME NEW d \in Calls
                 PROVE  /\ pc'[d] # "answered" => ticket'[d] = NoTicket
                        /\ ticket'[d].era <= era'
      OBVIOUS
    <3>1. CASE d = c
      BY <1>1, <1>2, <1>4, <1>6, <3>1
    <3>2. CASE d # c
      BY <1>1, <1>3, <1>6, <3>2 DEF IInv, NumbersAreInOrder
    <3> QED
      BY <3>1, <3>2
  <2>2. issued < Modulus =>
          /\ counter = issued
          /\ \A d \in Calls : Served(d)' => ticket'[d].number <= counter
    BY <1>4, <1>6, <1>8 DEF IInv, NumbersAreInOrder
  <2> QED
    BY <1>1, <1>3, <2>1, <2>2 DEF NumbersAreInOrder
<1>11. FirstComeFirstServed'
  <2>1. SUFFICES ASSUME NEW d \in Calls, NEW e \in Calls, issued < Modulus,
                        Served(d)', Served(e)', rank[d] < rank[e]
                 PROVE  ticket'[d].number < ticket'[e].number
    BY <1>1 DEF FirstComeFirstServed, Served
  <2>2. \A f \in Calls : Served(f) => ticket[f].number < counter
    BY <1>1, <2>1 DEF IInv, NumbersAreInOrder
  <2>3. \A f \in Calls : Served(f) => rank[f] < rank[c]
    BY <1>1 DEF IInv, RanksAreInOrder
  <2>4. d # c
    BY <1>4, <1>8, <2>1, <2>3
  <2>5. Served(d)
    BY <1>8, <2>1, <2>4
  <2>6. CASE e = c
    BY <1>6, <2>2, <2>4, <2>5, <2>6
  <2>7. CASE e # c
    <3>1. Served(e)
      BY <1>8, <2>1, <2>7
    <3>2. ticket[d].number < ticket[e].number
      BY <2>1, <2>5, <3>1 DEF IInv, FirstComeFirstServed, Served
    <3> QED
      BY <1>6, <2>4, <2>7, <3>2
  <2> QED
    BY <2>6, <2>7
<1> QED
  BY <1>2, <1>7, <1>9, <1>10, <1>11 DEF IInv

\* Whoever leaves had no number, and the others keep their order.
LEMMA CancelPreserves == ASSUME IInv, NEW c \in Calls, Cancel(c) PROVE IInv'
<1>1. UNCHANGED <<counter, ticket, era, shown, floor, rank, issued>>
  BY DEF Cancel, history
<1>2. SUFFICES
        /\ pc' \in [Calls -> States] /\ free' \in BOOLEAN
        /\ queue' \in Seq(Calls)
        /\ OneHolder' /\ QueueIsInOrder' /\ Arrived' = Arrived
        /\ \A d, e \in Calls :
             pc'[d] \in Holding /\ pc'[e] = "queued" => rank[d] < rank[e]
        /\ \A d \in Calls :
             /\ pc'[d] = "answered" <=> pc[d] = "answered"
             /\ pc'[d] \in Contending => pc[d] \in Contending
             /\ pc'[d] = "counted" => pc[d] = "counted"
  <2>1. TypeOK'
    BY <1>1, <1>2 DEF IInv, TypeOK
  <2>2. \A d \in Calls : Served(d)' <=> Served(d)
    BY <1>1, <1>2 DEF Served
  <2>3. RanksAreInOrder'
    BY <1>1, <1>2, <2>2 DEF IInv, RanksAreInOrder, Contending, Holding
  <2>4. NumbersAreInOrder'
    BY <1>1, <1>2, <2>2 DEF IInv, NumbersAreInOrder
  <2>5. FirstComeFirstServed'
    BY <1>1, <1>2 DEF IInv, FirstComeFirstServed
  <2> QED
    BY <1>2, <2>1, <2>3, <2>4, <2>5 DEF IInv
<1>3. CASE pc[c] = "granted" /\ Unlock(c, "gone")
  <2>1. pc[c] \in Holding /\ pc[c] # "answered" /\ "gone" \notin Contending
    BY <1>3 DEF Holding, Contending
  <2>2. /\ pc' \in [Calls -> States] /\ free' \in BOOLEAN
        /\ queue' \in Seq(Calls) /\ pc'[c] = "gone"
        /\ OneHolder' /\ QueueIsInOrder'
        /\ \A d, e \in Calls :
             pc'[d] \in Holding /\ pc'[e] = "queued" => rank[d] < rank[e]
    BY <1>1, <1>3, <2>1, UnlockHandsOver
  <2>3. /\ Arrived' = Arrived
        /\ \A d \in Calls : pc'[d] # "counted"
        /\ \A d \in Calls :
             d # c => /\ pc'[d] = "answered" <=> pc[d] = "answered"
                      /\ pc'[d] \in Contending => pc[d] \in Contending
    BY <1>1, <1>3, <2>1, NobodyHasCounted
  <2> QED
    BY <2>1, <2>2, <2>3
<1>4. ASSUME pc[c] = "queued", pc' = [pc EXCEPT ![c] = "gone"],
             NEW k \in 1..Len(queue), queue[k] = c,
             queue' = RemoveAt(queue, k), UNCHANGED free
      PROVE  /\ pc' \in [Calls -> States] /\ free' \in BOOLEAN
             /\ queue' \in Seq(Calls)
             /\ OneHolder' /\ QueueIsInOrder' /\ Arrived' = Arrived
             /\ \A d, e \in Calls :
                  pc'[d] \in Holding /\ pc'[e] = "queued" => rank[d] < rank[e]
             /\ \A d \in Calls :
                  /\ pc'[d] = "answered" <=> pc[d] = "answered"
                  /\ pc'[d] \in Contending => pc[d] \in Contending
                  /\ pc'[d] = "counted" => pc[d] = "counted"
  <2>1. /\ pc' \in [Calls -> States] /\ pc'[c] = "gone"
        /\ \A d \in Calls : d # c => pc'[d] = pc[d]
        /\ free \in BOOLEAN /\ queue \in Seq(Calls)
        /\ rank \in [Calls -> Nat]
    BY <1>4 DEF IInv, TypeOK, States
  <2>2. /\ queue' \in Seq(Calls) /\ Len(queue) \in Nat
        /\ Len(queue') = Len(queue) - 1
        /\ \A j \in 1..Len(queue') :
             queue'[j] = IF j < k THEN queue[j] ELSE queue[j + 1]
    <3>1. Len(queue) \in Nat
      BY <2>1, LenProperties
    <3>2. /\ RemoveAt(queue, k) \in Seq(Calls)
          /\ Len(RemoveAt(queue, k)) = Len(queue) - 1
          /\ \A j \in 1..(Len(queue) - 1) :
               RemoveAt(queue, k)[j] = IF j < k THEN queue[j] ELSE queue[j + 1]
      BY <1>4, <2>1, QueueWithout
    <3> QED
      BY <1>4, <3>1, <3>2
  <2> DEFINE from(j) == IF j < k THEN j ELSE j + 1
  <2>3. \A j \in 1..Len(queue') : /\ from(j) \in 1..Len(queue)
                                  /\ from(j) # k
                                  /\ queue'[j] = queue[from(j)]
    BY <2>2
  <2>4. \A i, j \in 1..Len(queue') : i < j => from(i) < from(j)
    BY <2>2
  <2> HIDE DEF from
  <2>5. \A i, j \in 1..Len(queue) : i < j => rank[queue[i]] < rank[queue[j]]
    BY DEF IInv, QueueIsInOrder
  <2>6. \A j \in 1..Len(queue) : queue[j] \in Calls /\ pc[queue[j]] = "queued"
    BY <2>1, ElementOfSeq DEF IInv, QueueIsInOrder
  <2>7. \A j \in 1..Len(queue) : j # k => queue[j] # c
    BY <1>4, <2>1, <2>2, <2>5, <2>6
  <2>8. QueueIsInOrder'
    <3>1. \A j \in 1..Len(queue') : pc'[queue'[j]] = "queued"
      <4> SUFFICES ASSUME NEW j \in 1..Len(queue')
                   PROVE  pc'[queue'[j]] = "queued"
        OBVIOUS
      <4>1. /\ queue'[j] = queue[from(j)] /\ queue[from(j)] \in Calls
            /\ queue[from(j)] # c /\ pc[queue[from(j)]] = "queued"
        BY <2>3, <2>6, <2>7
      <4> QED
        BY <2>1, <4>1
    <3>2. ASSUME NEW d \in Calls, pc'[d] = "queued"
          PROVE  \E j \in 1..Len(queue') : queue'[j] = d
      <4>1. pc[d] = "queued" /\ d # c
        BY <2>1, <3>2
      <4>2. PICK i \in 1..Len(queue) : queue[i] = d
        BY <4>1 DEF IInv, QueueIsInOrder
      <4>3. i # k
        BY <1>4, <4>1, <4>2
      <4>4. CASE i < k
        <5>1. i \in 1..Len(queue') /\ queue'[i] = queue[i]
          BY <2>2, <4>4
        <5> QED
          BY <4>2, <5>1
      <4>5. CASE i > k
        <5>1. i - 1 \in 1..Len(queue') /\ ~(i - 1 < k) /\ (i - 1) + 1 = i
          BY <2>2, <4>5
        <5>2. queue'[i - 1] = queue[i]
          BY <2>2, <5>1
        <5> QED
          BY <4>2, <5>1, <5>2
      <4> QED
        BY <2>2, <4>3, <4>4, <4>5
    <3>3. \A i, j \in 1..Len(queue') :
             i < j => rank'[queue'[i]] < rank'[queue'[j]]
      BY <1>1, <2>3, <2>4, <2>5
    <3> QED
      BY <3>1, <3>2, <3>3 DEF QueueIsInOrder
  <2>9. \A d \in Calls : pc'[d] \in Holding <=> pc[d] \in Holding
    BY <1>4, <2>1 DEF Holding
  <2>10. OneHolder'
    <3>1. ~free
      BY <1>4, <2>2 DEF IInv, OneHolder
    <3> QED
      BY <1>4, <2>9, <3>1 DEF IInv, OneHolder
  <2>11. Arrived' = Arrived
    BY <1>4, <2>1 DEF Arrived
  <2>12. \A d \in Calls : /\ pc'[d] = "answered" <=> pc[d] = "answered"
                          /\ pc'[d] \in Contending => pc[d] \in Contending
                          /\ pc'[d] = "counted" => pc[d] = "counted"
    BY <1>4, <2>1 DEF Contending, Holding
  <2>13. \A d, e \in Calls :
           pc'[d] \in Holding /\ pc'[e] = "queued" => rank[d] < rank[e]
    BY <2>1, <2>9 DEF IInv, RanksAreInOrder
  <2> QED
    BY <1>4, <2>1, <2>2, <2>8, <2>10, <2>11, <2>12, <2>13
<1> QED
  BY <1>3, <1>4 DEF Cancel

\* A restart leaves nobody in the queue and nobody served in the new era.
LEMMA RestartPreserves == ASSUME IInv, Restart PROVE IInv'
<1>1. /\ pc' \in [Calls -> States]
      /\ \A c \in Calls :
           /\ pc'[c] \in {"idle", "answered", "gone"}
           /\ pc'[c] = "answered" <=> pc[c] = "answered"
           /\ pc'[c] = "idle" <=> pc[c] = "idle"
  BY DEF IInv, TypeOK, Restart, States, Holding
<1>2. /\ era' = era + 1 /\ era \in Nat /\ era < MaxEra
      /\ ticket \in [Calls -> Tickets]
      /\ UNCHANGED <<ticket, floor, rank>>
      /\ free' = TRUE /\ queue' = <<>>
      /\ counter' = 0 /\ shown' = 0 /\ issued' = 0
  BY DEF IInv, TypeOK, Restart
<1>3. \A c \in Calls : ticket[c].era <= era /\ ticket[c].era \in Nat
  BY <1>2 DEF IInv, NumbersAreInOrder, Tickets
<1>4. \A c \in Calls : ticket'[c].era # era' /\ ticket'[c].era <= era'
  BY <1>2, <1>3
<1>5. TypeOK'
  <2>1. era' \in 0..MaxEra /\ counter' \in 0..(Modulus - 1)
    BY <1>2
  <2>2. free' \in BOOLEAN /\ queue' \in Seq(Calls) /\ shown' \in Nat
        /\ issued' \in Nat
    BY <1>2
  <2> QED
    BY <1>1, <1>2, <2>1, <2>2 DEF IInv, TypeOK
<1>6. OneHolder' /\ QueueIsInOrder'
  BY <1>1, <1>2 DEF OneHolder, QueueIsInOrder, Holding
<1>7. Arrived' = Arrived /\ \A c \in Calls : ~Served(c)'
  BY <1>1, <1>4 DEF Arrived, Served
<1>8. RanksAreInOrder'
  BY <1>1, <1>2, <1>7
     DEF IInv, RanksAreInOrder, Holding, Contending
<1>9. NumbersAreInOrder'
  BY <1>1, <1>2, <1>4, <1>7 DEF IInv, NumbersAreInOrder
<1>10. FirstComeFirstServed'
  BY <1>4 DEF FirstComeFirstServed
<1> QED
  BY <1>5, <1>6, <1>8, <1>9, <1>10 DEF IInv

\* Every step preserves the inductive invariant.
LEMMA NextPreserves == IInv /\ [Next]_vars => IInv'
<1> SUFFICES ASSUME IInv, [Next]_vars PROVE IInv'
  OBVIOUS
<1>1. ASSUME NEW c \in Calls, Lock(c) PROVE IInv'
  BY <1>1, LockPreserves
<1>2. ASSUME NEW c \in Calls, Resume(c) PROVE IInv'
  BY <1>2, ResumePreserves
<1>3. ASSUME NEW c \in Calls, Increment(c) PROVE IInv'
  BY <1>3, IncrementPreserves
<1>4. ASSUME NEW c \in Calls, Return(c) PROVE IInv'
  BY <1>4, ReturnPreserves
<1>5. ASSUME NEW c \in Calls, Cancel(c) PROVE IInv'
  BY <1>5, CancelPreserves
<1>6. ASSUME Restart PROVE IInv'
  BY <1>6, RestartPreserves
<1>7. CASE UNCHANGED vars
  BY <1>7 DEF vars, mutex, history, IInv, TypeOK, OneHolder, QueueIsInOrder,
              RanksAreInOrder, NumbersAreInOrder, FirstComeFirstServed,
              Arrived, Contending, Holding, Served
<1> QED
  BY <1>1, <1>2, <1>3, <1>4, <1>5, <1>6, <1>7 DEF Next

\* The inductive invariant holds in every state of every behaviour.
THEOREM InvariantHolds == Spec => []IInv
BY InitEstablishes, NextPreserves, PTL DEF Spec

\* Type correctness.
THEOREM TypeCorrect == Spec => []TypeOK
<1>1. IInv => TypeOK
  BY DEF IInv
<1> QED
  BY <1>1, InvariantHolds, PTL

\* However many tasks wait for tokio's mutex, and whichever of them is dropped
\* before or after the lock was granted to it, exactly one holds it unless it
\* is free (lib.rs:21).
THEOREM LockIsConservedHolds == Spec => []LockIsConserved
<1>1. IInv => LockIsConserved
  <2> SUFFICES ASSUME IInv PROVE LockIsConserved
    OBVIOUS
  <2> DEFINE holders == {c \in Calls : pc[c] \in Holding}
  <2>1. Cardinality(holders) = IF free THEN 0 ELSE 1
    <3>1. CASE free
      <4>1. holders = {}
        BY <3>1 DEF IInv, OneHolder
      <4> QED
        BY <3>1, <4>1, FS_EmptySet
    <3>2. CASE ~free
      <4>1. PICK c \in Calls : pc[c] \in Holding
        BY <3>2 DEF IInv, OneHolder
      <4>2. holders = {c}
        BY <4>1 DEF IInv, OneHolder
      <4> QED
        BY <3>2, <4>2, FS_Singleton
    <3> QED
      BY <3>1, <3>2
  <2>2. free => queue = <<>>
    BY DEF IInv, OneHolder
  <2>3. {queue[i] : i \in 1..Len(queue)} = {c \in Calls : pc[c] = "queued"}
    <3>1. \A i \in 1..Len(queue) : queue[i] \in Calls
      BY ElementOfSeq DEF IInv, TypeOK
    <3> QED
      BY <3>1 DEF IInv, QueueIsInOrder
  <2> HIDE DEF holders
  <2> QED
    BY <2>1, <2>2, <2>3 DEF LockIsConserved, holders
<1> QED
  BY <1>1, InvariantHolds, PTL

\* Any number of visitors of one process are numbered in the order in which
\* they asked for the lock, until the u64 wraps (lib.rs:20-25).
THEOREM FirstComeFirstServedHolds == Spec => []FirstComeFirstServed
<1>1. IInv => FirstComeFirstServed
  BY DEF IInv
<1> QED
  BY <1>1, InvariantHolds, PTL

-----------------------------------------------------------------------------
(* The counter: the refinement of VisitorCounter. *)

\* The state the dispenser sees.
StatusOf == [c \in Calls |-> Status(c)]
TakenOf == [c \in Calls |-> Taken(c)]

LEMMA InitMapsToInit == Init => Dispenser!Init
BY DEF Init, Dispenser!Init, Status, Taken, Holding, NoTicket,
       Dispenser!NoTicket

\* A caller arrives when it asks for the lock, whether it gets it or waits.
LEMMA LockMaps ==
    ASSUME IInv, NEW c \in Calls, Lock(c) PROVE Dispenser!Arrive(c)
<1>1. pc' = [pc EXCEPT ![c] = "locked"] \/ pc' = [pc EXCEPT ![c] = "queued"]
  BY DEF Lock
<1>2. StatusOf[c] = "idle" /\ StatusOf' = [StatusOf EXCEPT ![c] = "pending"]
  BY <1>1 DEF IInv, TypeOK, Lock, StatusOf, Status, Holding
<1>3. TakenOf' = TakenOf
  BY <1>1 DEF IInv, TypeOK, Lock, TakenOf, Taken
<1> QED
  BY <1>2, <1>3 DEF Lock, StatusOf, TakenOf, Dispenser!Arrive

\* The dispenser does not see who holds the lock.
LEMMA ResumeIsInvisible ==
    ASSUME IInv, NEW c \in Calls, Resume(c) PROVE UNCHANGED Dispenser!vars
<1>1. StatusOf' = StatusOf
  BY DEF IInv, TypeOK, Resume, StatusOf, Status, Holding
<1>2. TakenOf' = TakenOf
  BY DEF IInv, TypeOK, Resume, history, TakenOf, Taken
<1> QED
  BY <1>1, <1>2 DEF Resume, history, StatusOf, TakenOf, Dispenser!vars

\* A number is taken by the increment, alone under the lock.
LEMMA IncrementMaps ==
    ASSUME IInv, NEW c \in Calls, Increment(c), issued' < Modulus
    PROVE  Dispenser!Take(c)
<1>1. /\ pc[c] = "locked" /\ pc' = [pc EXCEPT ![c] = "counted"]
      /\ issued' = issued + 1
      /\ counter' = (counter + 1) % Modulus
      /\ UNCHANGED <<ticket, era, shown, floor>>
  BY DEF Increment
<1>2. issued \in Nat /\ Modulus \in Nat /\ pc \in [Calls -> States]
  BY DEF IInv, TypeOK
<1>3. issued < Modulus /\ issued + 1 \in 0..(Modulus - 1)
  BY <1>1, <1>2
<1>4. counter = issued
  BY <1>3 DEF IInv, NumbersAreInOrder
<1>5. counter < Modulus - 1 /\ counter' = counter + 1
  BY <1>1, <1>2, <1>3, <1>4, NotWrapped
<1>6. \A d \in Calls : d # c => pc[d] \notin Holding
  BY <1>1 DEF IInv, OneHolder, Holding
<1>7. StatusOf[c] = "pending" /\ StatusOf' = StatusOf
  BY <1>1, <1>2 DEF StatusOf, Status, Holding
<1>8. TakenOf[c] = NoTicket
  BY <1>1 DEF IInv, NumbersAreInOrder, TakenOf, Taken
<1>9. TakenOf' = [TakenOf EXCEPT ![c] = [era |-> era, number |-> counter + 1]]
  <2>1. Taken(c)' = [era |-> era, number |-> counter + 1]
    BY <1>1, <1>2, <1>5 DEF Taken
  <2>2. \A d \in Calls : d # c => Taken(d)' = Taken(d)
    BY <1>1, <1>2, <1>6 DEF Taken, Holding
  <2> QED
    BY <2>1, <2>2 DEF TakenOf
<1> QED
  BY <1>1, <1>5, <1>7, <1>8, <1>9
     DEF StatusOf, TakenOf, NoTicket, Dispenser!Take, Dispenser!NoTicket

\* The call that unlocks is the only one the dispenser sees; no other has taken
\* a number that it has not returned.
LEMMA UnlockMaps ==
    ASSUME IInv, NEW c \in Calls, NEW outcome \in {"answered", "gone"},
           pc[c] \in Holding, Unlock(c, outcome), rank' = rank
    PROVE  /\ StatusOf[c] = "pending"
           /\ StatusOf' = [StatusOf EXCEPT ![c] = outcome]
           /\ \A d \in Calls : d # c => pc[d] # "counted"
           /\ \A d \in Calls : pc'[d] # "counted"
<1>1. /\ pc'[c] = outcome
      /\ \A d \in Calls :
           d # c => \/ pc'[d] = pc[d] /\ pc[d] \notin Holding
                    \/ pc[d] = "queued" /\ pc'[d] = "granted"
  BY UnlockHandsOver
<1>2. \A d \in Calls : d # c => Status(d)' = Status(d)
  BY <1>1 DEF Status, Holding
<1>3. Status(c)' = outcome
  BY <1>1 DEF Status, Holding
<1>4. StatusOf[c] = "pending"
  BY DEF StatusOf, Status
<1>5. StatusOf' = [StatusOf EXCEPT ![c] = outcome]
  BY <1>2, <1>3 DEF StatusOf
<1> QED
  BY <1>1, <1>4, <1>5, NobodyHasCounted DEF Holding

LEMMA ReturnMaps ==
    ASSUME IInv, NEW c \in Calls, Return(c), issued' < Modulus
    PROVE  Dispenser!Answer(c)
<1>1. /\ pc[c] = "counted" /\ pc[c] \in Holding
      /\ Unlock(c, "answered")
      /\ ticket' = [ticket EXCEPT ![c] = [era |-> era, number |-> counter]]
      /\ shown' = Larger(shown, counter)
      /\ UNCHANGED <<counter, era, floor, rank, issued>>
  BY DEF Return, Holding
<1>2. /\ StatusOf[c] = "pending"
      /\ StatusOf' = [StatusOf EXCEPT ![c] = "answered"]
      /\ \A d \in Calls : d # c => pc[d] # "counted"
      /\ \A d \in Calls : pc'[d] # "counted"
  BY <1>1, UnlockMaps
<1>3. ticket \in [Calls -> Tickets] /\ counter > 0
  BY <1>1 DEF IInv, TypeOK, NumbersAreInOrder
<1>4. TakenOf[c] = [era |-> era, number |-> counter] /\ TakenOf[c] # NoTicket
  BY <1>1, <1>3 DEF TakenOf, Taken, NoTicket
<1>5. TakenOf' = TakenOf
  <2>1. \A d \in Calls : Taken(d)' = Taken(d)
    BY <1>1, <1>2, <1>3 DEF Taken
  <2> QED
    BY <2>1 DEF TakenOf
<1> QED
  BY <1>1, <1>2, <1>4, <1>5
     DEF StatusOf, TakenOf, NoTicket, Larger, Dispenser!Answer,
         Dispenser!NoTicket, Dispenser!Larger

\* Who disconnects before it holds the lock leaves without a number.
LEMMA CancelMaps ==
    ASSUME IInv, NEW c \in Calls, Cancel(c) PROVE Dispenser!Leave({c})
<1>1. UNCHANGED <<counter, ticket, era, shown, floor, rank>>
  BY DEF Cancel, history
<1>2. pc \in [Calls -> States] /\ ticket \in [Calls -> Tickets]
      /\ \A d \in Calls : pc[d] # "answered" => ticket[d] = NoTicket
  BY DEF IInv, TypeOK, NumbersAreInOrder
<1>3. /\ pc[c] \in {"queued", "granted"}
      /\ StatusOf[c] = "pending"
      /\ StatusOf' = [StatusOf EXCEPT ![c] = "gone"]
      /\ \A d \in Calls : pc'[d] = "counted" <=> pc[d] = "counted"
  <2>1. CASE pc[c] = "queued" /\ pc' = [pc EXCEPT ![c] = "gone"]
    BY <1>2, <2>1 DEF StatusOf, Status, Holding
  <2>2. CASE pc[c] = "granted" /\ Unlock(c, "gone")
    BY <1>1, <2>2, UnlockMaps DEF Holding
  <2> QED
    BY <2>1, <2>2 DEF Cancel
<1>4. TakenOf[c] = NoTicket
  BY <1>2, <1>3 DEF TakenOf, Taken
<1>5. TakenOf' = TakenOf
  <2>1. \A d \in Calls : Taken(d)' = Taken(d)
    BY <1>1, <1>3 DEF Taken
  <2> QED
    BY <2>1 DEF TakenOf
<1> QED
  BY <1>1, <1>3, <1>4, <1>5
     DEF StatusOf, TakenOf, NoTicket, Dispenser!Leave, Dispenser!NoTicket

\* With the process the pending calls go, and the number one may have taken.
LEMMA RestartMaps == ASSUME IInv, Restart PROVE Dispenser!Restart
<1>1. /\ era < MaxEra /\ era' = era + 1 /\ counter' = 0 /\ shown' = 0
      /\ UNCHANGED <<ticket, floor>>
      /\ pc' = [c \in Calls |->
                  IF pc[c] \in Holding \cup {"queued"} THEN "gone" ELSE pc[c]]
  BY DEF Restart
<1>2. \A c \in Calls : pc[c] # "answered" => ticket[c] = NoTicket
  BY DEF IInv, NumbersAreInOrder
<1>3. \A c \in Calls :
        Status(c)' = IF Status(c) = "pending" THEN "gone" ELSE Status(c)
  BY <1>1 DEF IInv, TypeOK, States, Status, Holding
<1>4. \A c \in Calls : pc'[c] # "counted"
  BY <1>1 DEF Holding
<1>5. \A c \in Calls :
        Taken(c)' = IF Status(c) = "pending" THEN NoTicket ELSE Taken(c)
  <2>1. ASSUME NEW c \in Calls, Status(c) = "pending"
        PROVE  Taken(c)' = NoTicket
    BY <1>1, <1>2, <1>4, <2>1
       DEF IInv, TypeOK, States, Status, Taken, Holding
  <2>2. ASSUME NEW c \in Calls, Status(c) # "pending"
        PROVE  Taken(c)' = Taken(c)
    BY <1>1, <1>4, <2>2 DEF Status, Taken, Holding
  <2> QED
    BY <2>1, <2>2
<1> QED
  BY <1>1, <1>3, <1>5 DEF NoTicket, Dispenser!Restart, Dispenser!NoTicket

LEMMA NextMapsToNext ==
    IInv /\ [Next]_vars =>
        [issued' < Modulus => Dispenser!Next]_(Dispenser!vars)
<1> SUFFICES ASSUME IInv, [Next]_vars, issued' < Modulus
             PROVE  Dispenser!Next \/ UNCHANGED Dispenser!vars
  OBVIOUS
<1>1. ASSUME NEW c \in Calls,
             Lock(c) \/ Resume(c) \/ Increment(c) \/ Return(c)
      PROVE  Dispenser!Next \/ UNCHANGED Dispenser!vars
  BY <1>1, LockMaps, ResumeIsInvisible, IncrementMaps, ReturnMaps
     DEF Dispenser!Next
<1>2. ASSUME NEW c \in Calls, Cancel(c) PROVE Dispenser!Next
  BY <1>2, CancelMaps DEF Dispenser!Next
<1>3. ASSUME Restart PROVE Dispenser!Next
  BY <1>3, RestartMaps DEF Dispenser!Next
<1>4. CASE UNCHANGED vars
  BY <1>4 DEF vars, mutex, history, Dispenser!vars, Status, Taken
<1> QED
  BY <1>1, <1>2, <1>3, <1>4 DEF Next

\* Until the u64 wraps, the in-memory adapter keeps the port's promise for any
\* number of calls and restarts: every step is one of the dispenser, or
\* invisible to it.
THEOREM Refinement == Spec => ImplementsVisitorCounter
BY InitMapsToInit, NextMapsToNext, InvariantHolds, PTL
   DEF Spec, ImplementsVisitorCounter
==============================================================================
