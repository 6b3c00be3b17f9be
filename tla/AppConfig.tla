----------------------------- MODULE AppConfig ------------------------------
(***************************************************************************)
(* The environment of a server and what AppConfig::from_pairs makes of it. *)
(* A variable is abstracted to the cases the program tells apart: absent,  *)
(* one of the accepted words, or anything else.                            *)
(***************************************************************************)

\* What the process environment may hold.
Environments ==
    [APP_HOST: {"absent", "address", "name"},
     APP_PORT: {"absent", "number", "junk"},
     GREETING_MODE: {"absent", "plain", "counter", "junk"},
     COUNTER_STORE: {"absent", "memory", "postgres", "junk"},
     DATABASE_URL: {"absent", "url"},
     SERVER_LABEL: {"absent", "printable", "binary"},
     SENTRY_DSN: {"absent", "url", "junk"}]

\* What a parsed AppConfig may say.
Configurations ==
    [host: {"address", "name"}, label: {"printable", "binary"},
     mode: {"plain", "counter"}, store: {"memory", "postgres"}]

Default(value, fallback) == IF value = "absent" THEN fallback ELSE value

\* A faulty reading: an unknown store name falls back to memory.
LenientConfigs(env) ==
    {cfg \in Configurations :
        /\ env.APP_PORT # "junk"
        /\ cfg.host = Default(env.APP_HOST, "address")
        /\ cfg.label = Default(env.SERVER_LABEL, "printable")
        /\ cfg.mode = Default(env.GREETING_MODE, "plain")
        /\ cfg.store = IF env.COUNTER_STORE = "postgres" THEN "postgres" ELSE "memory"
        /\ cfg.store = "postgres" => env.DATABASE_URL = "url"}

\* The configurations from_pairs accepts for env: one, or none when it fails.
\* The defaults are a loopback address, port 3000, the plain greeting, the
\* memory store and the label "local".
Configs(env) ==
    {cfg \in Configurations :
        /\ env.APP_PORT # "junk"
        /\ cfg.host = Default(env.APP_HOST, "address")
        /\ cfg.label = Default(env.SERVER_LABEL, "printable")
        /\ cfg.mode = Default(env.GREETING_MODE, "plain")
        /\ cfg.store = Default(env.COUNTER_STORE, "memory")
        /\ cfg.store = "postgres" => env.DATABASE_URL = "url"}
=============================================================================
