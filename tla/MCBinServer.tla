---------------------------- MODULE MCBinServer -----------------------------
(* Small instances of BinServer for TLC. *)
EXTENDS BinServer, FiniteSets

CONSTANT Odd  \* a server that may be configured differently

AllBuilds == SUBSET {"memory-store", "postgres-store"}

\* What docker-compose.ha.yml gives the app.
Compose ==
    [APP_HOST |-> "address", APP_PORT |-> "number", GREETING_MODE |-> "counter",
     COUNTER_STORE |-> "postgres", DATABASE_URL |-> "url",
     SERVER_LABEL |-> "printable", SENTRY_DSN |-> "absent"]

Differs(e) == {v \in DOMAIN e : e[v] # Compose[v]}

\* One server, at most two variables of which differ from that.
TwoSlips ==
    {[s \in Servers |-> IF s = Odd THEN e ELSE Compose] :
        e \in {f \in Environments : Cardinality(Differs(f)) <= 2}}
=============================================================================
