---------------------------- MODULE HelloServers ----------------------------
(***************************************************************************)
(* The servers behind the public hostname: each runs the axum handlers and *)
(* the greeting service in its mode, over a PostgresCounterStore that all  *)
(* of them share.  A request is a call of the store when its server counts *)
(* visitors.  Clients disconnect, server processes die and boot again.     *)
(*                                                                         *)
(* Simplifications: every server is built with the Postgres store, as in   *)
(* docker-compose.ha.yml; a health probe connects and selects in one step; *)
(* message texts are not modelled, only which number they carry.           *)
(***************************************************************************)
EXTENDS Integers, FiniteSets

CONSTANTS Calls, Servers, MaxRetries, InitialDelay, MaxBigint, MaxFaults, MaxEra,
          MaxCrashes  \* bound: how often a server process dies

VARIABLES pc, retries, delay, sent, ticket,     \* the tasks of the store
          up, wire, table, value, faults,       \* the network and the database
          era, committed, shown, floor,         \* the store's history
          mode,     \* mode[s]: the greeting mode of server s
          alive,    \* alive[s]: s serves requests
          request,  \* request[c]: the HTTP request that makes call c
          crashes   \* processes that died so far

Store == INSTANCE PostgresCounterStore

ASSUME ConstantsAssumption == Store!ConstantsAssumption /\ MaxCrashes \in Nat

web == <<mode, alive, request, crashes>>
store == <<pc, retries, delay, sent, ticket, up, wire, table, value, faults, era,
           committed, shown, floor>>
vars == <<store, web>>

NoTicket == Store!NoTicket

\* An HTTP request and what its client got for it.  status is "open" while the
\* handler runs and "broken" when the connection ends without a response;
\* body is the number in the greeting, NoTicket if it has none; labelled says
\* that the response has the header x-served-by.
Requests == [status: {"open", "200", "500", "503", "broken"},
             kind: {"hello", "health"},
             server: Servers,
             body: Store!Tickets,
             labelled: BOOLEAN]

NoRequest == [status |-> "none"]

Open(c, s, kind) ==
    request' = [request EXCEPT ![c] =
        [status |-> "open", kind |-> kind, server |-> s, body |-> NoTicket,
         labelled |-> FALSE]]

\* Only the handlers' Ok values carry the label, AppHttpError does not.
Respond(c, status, body) ==
    request' = [request EXCEPT ![c] =
        [@ EXCEPT !.status = status, !.body = body, !.labelled = (status = "200")]]

Init ==
    /\ Store!Init
    /\ mode \in [Servers -> {"plain", "counter"}]
    /\ alive = [s \in Servers |-> TRUE]
    /\ request = [c \in Calls |-> NoRequest]
    /\ crashes = 0

-----------------------------------------------------------------------------
(* Requests. *)

GreetPlainly(c, s) ==
    request' = [request EXCEPT ![c] =
        [status |-> "200", kind |-> "hello", server |-> s, body |-> NoTicket,
         labelled |-> TRUE]]

\* A faulty service that counts plain visits too.
CountingGetHello(c, s) ==
    /\ request[c] = NoRequest
    /\ alive[s]
    /\ Store!Begin(c)
    /\ IF mode[s] = "counter" THEN Open(c, s, "hello") ELSE GreetPlainly(c, s)
    /\ UNCHANGED <<mode, alive, crashes>>

\* GET /: a plain server answers at once, without its store; a counting one
\* asks its store for the next number.
GetHello(c, s) ==
    /\ request[c] = NoRequest
    /\ alive[s]
    /\ \/ /\ mode[s] = "counter"
          /\ Store!Begin(c)
          /\ Open(c, s, "hello")
       \/ /\ mode[s] = "plain"
          /\ GreetPlainly(c, s)
          /\ UNCHANGED store
    /\ UNCHANGED <<mode, alive, crashes>>

\* The store runs on behalf of the handler.
Progress(c) ==
    /\ pc[c] # "idle"
    /\ Store!TaskStep(c)
    /\ UNCHANGED web

\* A handler that forwards the greeting but not the error.
SilentFinishHello(c) ==
    /\ request[c].status = "open"
    /\ pc[c] = "answered"
    /\ Respond(c, IF ticket[c].number = 0 THEN "500" ELSE "200", ticket[c])
    /\ UNCHANGED <<store, mode, alive, crashes>>

\* The store returned: a number becomes a greeting unless it is 0, an error
\* becomes 503.
FinishHello(c) ==
    /\ request[c].status = "open"
    /\ \/ pc[c] = "unavailable" /\ Respond(c, "503", NoTicket)
       \/ /\ pc[c] = "answered"
          /\ IF ticket[c].number = 0
               THEN Respond(c, "500", NoTicket)
               ELSE Respond(c, "200", ticket[c])
    /\ UNCHANGED <<store, mode, alive, crashes>>

\* GET /health asks the store for SELECT 1, whatever the mode of the server.
GetHealth(c, s) ==
    /\ request[c] = NoRequest
    /\ alive[s]
    /\ Open(c, s, "health")
    /\ UNCHANGED <<store, mode, alive, crashes>>

\* A probe can lose its connection at any time.
FinishHealth(c) ==
    /\ request[c].status = "open"
    /\ request[c].kind = "health"
    /\ \/ up /\ Respond(c, "200", NoTicket)
       \/ Respond(c, "503", NoTicket)
    /\ UNCHANGED <<store, mode, alive, crashes>>

\* These requests end without a response and their tasks are dropped.
Break(broken) ==
    /\ request' = [c \in Calls |->
         IF c \in broken THEN [request[c] EXCEPT !.status = "broken"] ELSE request[c]]
    /\ Store!Abandon({c \in broken : pc[c] \in Store!Attempting})

Disconnect(c) ==
    /\ request[c].status = "open"
    /\ Break({c})
    /\ UNCHANGED <<mode, alive, crashes>>

-----------------------------------------------------------------------------
(* Server processes. *)

RequestsAt(s) == {c \in Calls : request[c].status = "open" /\ request[c].server = s}

\* A shutdown that leaves the handlers of its requests running.
LingeringCrash(s) ==
    /\ alive[s]
    /\ crashes < MaxCrashes
    /\ crashes' = crashes + 1
    /\ alive' = [alive EXCEPT ![s] = FALSE]
    /\ UNCHANGED <<store, mode, request>>

\* The process dies with the tasks of its requests; UPDATEs already sent travel on.
Crash(s) ==
    /\ alive[s]
    /\ crashes < MaxCrashes
    /\ crashes' = crashes + 1
    /\ alive' = [alive EXCEPT ![s] = FALSE]
    /\ Break(RequestsAt(s))
    /\ UNCHANGED mode

\* A boot whose INIT_SQL overwrites the row.
ResettingBoot(s) ==
    /\ ~alive[s]
    /\ up
    /\ table' = TRUE
    /\ value' = 0
    /\ alive' = [alive EXCEPT ![s] = TRUE]
    /\ UNCHANGED <<pc, retries, delay, sent, ticket, up, wire, faults, era, committed,
                   shown, floor, mode, request, crashes>>

\* The restart policy boots it again; main() needs the database, in both modes.
Boot(s) ==
    /\ ~alive[s]
    /\ Store!Open
    /\ alive' = [alive EXCEPT ![s] = TRUE]
    /\ UNCHANGED <<mode, request, crashes>>

Database ==
    /\ \/ \E s \in wire : Store!Commit(s) \/ Store!Reject(s)
       \/ Store!GoDown
       \/ Store!ComeUp
       \/ Store!LoseData
    /\ UNCHANGED web

Next ==
    \/ \E c \in Calls, s \in Servers : GetHello(c, s) \/ GetHealth(c, s)
    \/ \E c \in Calls : \/ Progress(c)
                        \/ FinishHello(c)
                        \/ FinishHealth(c)
                        \/ Disconnect(c)
    \/ \E s \in Servers : Crash(s) \/ Boot(s)
    \/ Database

Spec == Init /\ [][Next]_vars

\* The runtime polls the handlers and the database answers what it is asked
\* (see PostgresCounterStore); clients need not call, nor processes restart.
Fairness ==
    \A c \in Calls :
        /\ WF_vars(Progress(c) /\ (Store!Connect(c) \/ ((~up \/ ~table) /\ Store!ConnectFails(c))))
        /\ WF_vars(Database /\ (Store!Commit(Store!Current(c)) \/ Store!Reject(Store!Current(c))))
        /\ WF_vars(Progress(c) /\ Store!Receive(c))
        /\ WF_vars(Progress(c) /\ ~up /\ Store!ConnectionLost(c))
        /\ WF_vars(Progress(c) /\ (Store!Repair(c) \/ Store!WakeUp(c) \/ Store!GiveUp(c)))
        /\ WF_vars(FinishHello(c))
        /\ WF_vars(FinishHealth(c))

FairSpec == Spec /\ Fairness

-----------------------------------------------------------------------------
\* HelloWorldClient::hello returned a text with a number in it.
Numbered(c) ==
    /\ request[c].status = "200"
    /\ request[c].kind = "hello"
    /\ request[c].body # NoTicket

WebTypeOK ==
    /\ mode \in [Servers -> {"plain", "counter"}]
    /\ alive \in [Servers -> BOOLEAN]
    /\ request \in [Calls -> Requests \cup {NoRequest}]
    /\ crashes \in 0..MaxCrashes

TypeOK == Store!TypeOK /\ WebTypeOK

\* Whichever servers answer, and whatever crashes or is retried in between, no
\* two clients read the same number in one era.
GreetingsAreDistinct ==
    \A c, d \in Calls :
        c # d /\ Numbered(c) /\ Numbered(d) => request[c].body # request[d].body

\* As long as nothing fails and nobody leaves, the counter is exactly the
\* number of visitors that counting servers greeted or are about to greet:
\* neither plain visits nor health probes, boots nor retries count.
CounterCountsVisitors ==
    faults = 0 /\ era = 0 /\ crashes = 0
    /\ (\A c \in Calls : request[c].status # "broken")
    => value = Cardinality({c \in Calls : Numbered(c) \/ (request[c].status = "open"
                                                          /\ ticket[c] # NoTicket)})

\* Reboots keep the numbering: every number read in this era is still covered
\* by the counter.
CounterCoversGreetings ==
    \A c \in Calls :
        Numbered(c) /\ request[c].body.era = era => request[c].body.number <= value

\* Whoever asks after somebody was greeted in the same era reads a larger
\* number, whichever servers the two reach.
GreetingsFollowRealTime ==
    \A c \in Calls :
        Numbered(c) =>
            LET earlier == floor[c]
                body == request[c].body
            IN  \/ earlier.era < body.era
                \/ earlier.era = body.era /\ earlier.number < body.number

\* No request outlives the process that serves it, and a store task runs only
\* for an open visit: nothing retries on behalf of a visitor who is gone.
TasksServeRequests ==
    \A c \in Calls :
        /\ request[c].status = "open" => alive[request[c].server]
        /\ pc[c] \in Store!Attempting =>
               request[c].status = "open" /\ request[c].kind = "hello"

\* A number in a greeting is the one its call was answered with.
GreetingsCarryTickets ==
    \A c \in Calls : Numbered(c) => pc[c] = "answered" /\ request[c].body = ticket[c]

\* The servers use the store as its calls allow: every step of theirs is a
\* step of the store and its database, or leaves them alone.
UsesStore == Store!Spec

\* Every request is answered or its connection ends, also while the database
\* stays down.
EveryRequestEnds ==
    \A c \in Calls : request[c].status = "open" ~> request[c].status # "open"

\* README.md:24 says that every response includes X-Served-By.
EveryResponseNamesServer ==
    \A c \in Calls :
        request[c].status \in {"200", "500", "503"} => request[c].labelled
=============================================================================
