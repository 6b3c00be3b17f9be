------------------------- MODULE HelloServersProofs -------------------------
(***************************************************************************)
(* Proofs about HelloServers, for every set of calls and servers.          *)
(*                                                                         *)
(* Every step of the servers is a step of the store or leaves it alone, so *)
(* what is proved of the store holds of the whole system.  Together with   *)
(* an invariant of the handlers - a number in a greeting is the number the *)
(* store answered - it gives what the visitors see.                        *)
(***************************************************************************)
EXTENDS HelloServers, TLAPS

StoreProofs == INSTANCE PostgresCounterStoreProofs

-----------------------------------------------------------------------------
(* The store of the servers is the store of the proofs. *)

LEMMA SameActions ==
    /\ \A c \in Calls : Store!TaskStep(c) <=> StoreProofs!TaskStep(c)
    /\ \A departing : Store!Abandon(departing) <=> StoreProofs!Abandon(departing)
    /\ \A s \in wire : Store!Commit(s) \/ Store!Reject(s)
                          <=> StoreProofs!Commit(s) \/ StoreProofs!Reject(s)
    /\ Store!Open \/ Store!GoDown \/ Store!ComeUp \/ Store!LoseData
          <=> StoreProofs!Open \/ StoreProofs!GoDown \/ StoreProofs!ComeUp
                \/ StoreProofs!LoseData
<1>1. /\ Store!vars = StoreProofs!vars
      /\ Store!Attempting = StoreProofs!Attempting
      /\ Store!NoTicket = StoreProofs!NoTicket
      /\ \A s : Store!Awaited(s) <=> StoreProofs!Awaited(s)
  BY
    DEF Store!vars, Store!taskVars, Store!dbVars, Store!history, StoreProofs!vars,
        StoreProofs!taskVars, StoreProofs!dbVars, StoreProofs!history,
        Store!Attempting, StoreProofs!Attempting, Store!NoTicket,
        StoreProofs!NoTicket, Store!Awaited, StoreProofs!Awaited,
        Store!Current, StoreProofs!Current
<1>2. ASSUME NEW c \in Calls PROVE Store!TaskStep(c) <=> StoreProofs!TaskStep(c)
  BY <1>1
    DEF Store!TaskStep, Store!Begin, Store!Connect, Store!ConnectFails, Store!Receive,
        Store!ConnectionLost, Store!Repair, Store!WakeUp, Store!GiveUp,
        Store!GoesWrong, Store!Larger, Store!taskVars, Store!dbVars, Store!history,
        StoreProofs!TaskStep, StoreProofs!Begin, StoreProofs!Connect,
        StoreProofs!ConnectFails, StoreProofs!Receive, StoreProofs!ConnectionLost,
        StoreProofs!Repair, StoreProofs!WakeUp, StoreProofs!GiveUp,
        StoreProofs!GoesWrong, StoreProofs!Larger, StoreProofs!taskVars,
        StoreProofs!dbVars, StoreProofs!history
<1>3. \A departing : Store!Abandon(departing) <=> StoreProofs!Abandon(departing)
  BY <1>1 DEF Store!Abandon, StoreProofs!Abandon, Store!dbVars, Store!history,
              StoreProofs!dbVars, StoreProofs!history
<1>4. ASSUME NEW s \in wire
      PROVE  Store!Commit(s) \/ Store!Reject(s)
               <=> StoreProofs!Commit(s) \/ StoreProofs!Reject(s)
  BY <1>1 DEF Store!Commit, Store!Reject, Store!history, StoreProofs!Commit,
              StoreProofs!Reject, StoreProofs!history
<1>5. Store!Open \/ Store!GoDown \/ Store!ComeUp \/ Store!LoseData
        <=> StoreProofs!Open \/ StoreProofs!GoDown \/ StoreProofs!ComeUp
              \/ StoreProofs!LoseData
  BY DEF Store!Open, Store!GoDown, Store!ComeUp, Store!LoseData, Store!taskVars,
         Store!history, StoreProofs!Open, StoreProofs!GoDown, StoreProofs!ComeUp,
         StoreProofs!LoseData, StoreProofs!taskVars, StoreProofs!history
<1>. QED
  BY <1>2, <1>3, <1>4, <1>5

LEMMA SameSteps ==
    /\ Store!Init <=> StoreProofs!Init
    /\ [Store!Next]_(Store!vars) <=> [StoreProofs!Next]_(StoreProofs!vars)
<1>1. Store!Init <=> StoreProofs!Init
  BY DEF Store!Init, StoreProofs!Init, Store!NoTicket, StoreProofs!NoTicket
<1>2. UNCHANGED Store!vars <=> UNCHANGED StoreProofs!vars
  BY DEF Store!vars, Store!taskVars, Store!dbVars, Store!history, StoreProofs!vars,
         StoreProofs!taskVars, StoreProofs!dbVars, StoreProofs!history
<1>3. Store!Next <=> StoreProofs!Next
  BY SameActions DEF Store!Next, StoreProofs!Next
<1>. QED
  BY <1>1, <1>2, <1>3

LEMMA SameInvariants ==
    /\ StoreProofs!IInv => Store!TypeOK
    /\ StoreProofs!UniqueCounts => Store!UniqueCounts
    /\ StoreProofs!TicketsAreCovered => Store!TicketsAreCovered
BY DEF Store!TicketsAreCovered, StoreProofs!TicketsAreCovered, Store!NoTicket,
       StoreProofs!NoTicket,
       Store!TypeOK, Store!Statements, Store!Tickets, Store!Attempting, Store!Finished,
       Store!UniqueCounts, StoreProofs!IInv, StoreProofs!TypeOK,
       StoreProofs!Statements, StoreProofs!Tickets, StoreProofs!Attempting,
       StoreProofs!Finished, StoreProofs!UniqueCounts

LEMMA StoreConstants == StoreProofs!ConstantsAssumption
BY ConstantsAssumption DEF Store!ConstantsAssumption, StoreProofs!ConstantsAssumption

-----------------------------------------------------------------------------
(* Every step is a step of the store or invisible to it. *)

\* Dropping no task at all is a stutter of the store.
LEMMA BreakIsStoreStep ==
    ASSUME Store!TypeOK, NEW broken \in SUBSET Calls, Break(broken)
    PROVE  [Store!Next]_(Store!vars)
<1> DEFINE departing == {c \in broken : pc[c] \in Store!Attempting}
<1>1. Store!Abandon(departing)
  BY DEF Break
<1>2. CASE departing = {}
  BY <1>1, <1>2 DEF Store!Abandon, Store!TypeOK, Store!vars,
                    Store!taskVars, Store!dbVars, Store!history
<1>3. CASE departing # {}
  <2>1. departing \in (SUBSET Calls) \ {{}}
    BY <1>3
  <2>. QED
    BY <1>1, <2>1 DEF Store!Next
<1>. QED
  BY <1>2, <1>3

LEMMA NextIsStoreStep ==
    Store!TypeOK /\ [Next]_vars => [Store!Next]_(Store!vars)
<1> SUFFICES ASSUME Store!TypeOK, [Next]_vars PROVE [Store!Next]_(Store!vars)
  OBVIOUS
<1>1. store' = store => UNCHANGED Store!vars
  BY DEF store, Store!vars, Store!taskVars, Store!dbVars, Store!history
<1>2. ASSUME NEW c \in Calls, NEW s \in Servers, GetHello(c, s) \/ GetHealth(c, s)
      PROVE  [Store!Next]_(Store!vars)
  BY <1>1, <1>2 DEF GetHello, GetHealth, Store!Next, Store!TaskStep
<1>3. ASSUME NEW c \in Calls, Progress(c) \/ FinishHello(c) \/ FinishHealth(c)
      PROVE  [Store!Next]_(Store!vars)
  BY <1>1, <1>3 DEF Progress, FinishHello, FinishHealth, Store!Next
<1>4. ASSUME NEW c \in Calls, Disconnect(c) PROVE [Store!Next]_(Store!vars)
  <2>1. Break({c}) /\ {c} \in SUBSET Calls
    BY <1>4 DEF Disconnect
  <2>. QED
    BY <2>1, BreakIsStoreStep
<1>5. ASSUME NEW s \in Servers, Crash(s) PROVE [Store!Next]_(Store!vars)
  <2>1. Break(RequestsAt(s)) /\ RequestsAt(s) \in SUBSET Calls
    BY <1>5 DEF Crash, RequestsAt
  <2>. QED
    BY <2>1, BreakIsStoreStep
<1>6. ASSUME NEW s \in Servers, Boot(s) PROVE [Store!Next]_(Store!vars)
  BY <1>6 DEF Boot, Store!Next
<1>7. CASE Database
  BY <1>7 DEF Database, Store!Next
<1>8. CASE UNCHANGED vars
  BY <1>1, <1>8 DEF vars
<1>. QED
  BY <1>2, <1>3, <1>4, <1>5, <1>6, <1>7, <1>8 DEF Next

\* The store's inductive invariant holds under the servers.
LEMMA StoreInvariant == Spec => []StoreProofs!IInv
<1>1. Init => StoreProofs!IInv
  BY SameSteps, StoreConstants, StoreProofs!InitEstablishes DEF Init
<1>2. StoreProofs!IInv /\ [Next]_vars => StoreProofs!IInv'
  BY SameSteps, SameInvariants, NextIsStoreStep, StoreConstants, StoreProofs!NextPreserves
<1>. QED
  BY <1>1, <1>2, PTL DEF Spec

\* Whatever the servers do, their store sees only calls, dropped calls and
\* openings: every theorem about PostgresCounterStore holds of the system.
THEOREM UsesStoreHolds == Spec => UsesStore
BY StoreInvariant, SameInvariants, NextIsStoreStep, PTL
   DEF Spec, Init, UsesStore, Store!Spec

-----------------------------------------------------------------------------
(* The handlers. *)

HandlerInv == WebTypeOK /\ TasksServeRequests /\ GreetingsCarryTickets

LEMMA HandlerInitEstablishes == Init => HandlerInv
BY ConstantsAssumption
   DEF Init, HandlerInv, WebTypeOK, TasksServeRequests, GreetingsCarryTickets, Numbered,
       NoRequest, Store!Init, Store!Attempting

\* What a step of the store may do to the tasks the handlers rely on.
LEMMA StoreKeepsAnswers ==
    ASSUME Store!TypeOK, [Store!Next]_(Store!vars), NEW c \in Calls, pc[c] = "answered"
    PROVE  pc'[c] = "answered" /\ ticket'[c] = ticket[c]
BY DEF Store!TypeOK, Store!Next, Store!vars, Store!taskVars, Store!TaskStep, Store!Begin,
       Store!Connect, Store!ConnectFails, Store!Receive, Store!ConnectionLost,
       Store!Repair, Store!WakeUp, Store!GiveUp, Store!Abandon, Store!Commit,
       Store!Reject, Store!Open, Store!GoDown, Store!ComeUp, Store!LoseData,
       Store!Awaited, Store!Attempting, Store!Statements

\* Only the start of a call gives it a task.
LEMMA ProgressStartsNoTask ==
    ASSUME Store!TypeOK, NEW c \in Calls, Progress(c), NEW d \in Calls,
           pc'[d] \in Store!Attempting
    PROVE  pc[d] \in Store!Attempting
BY DEF Progress, Store!TypeOK, Store!Attempting, Store!Finished, Store!TaskStep,
       Store!Begin, Store!Connect, Store!ConnectFails, Store!Receive,
       Store!ConnectionLost, Store!Repair, Store!WakeUp, Store!GiveUp

LEMMA DatabaseStartsNoTask ==
    ASSUME Store!TypeOK, Database, NEW d \in Calls, pc'[d] \in Store!Attempting
    PROVE  pc[d] \in Store!Attempting
BY DEF Database, Store!TypeOK, Store!Attempting, Store!Commit, Store!Reject, Store!GoDown,
       Store!ComeUp, Store!LoseData, Store!taskVars, Store!Awaited, Store!Statements

\* Steps that leave the requests and the servers alone.
LEMMA SilentPreservesHandlers ==
    ASSUME Store!TypeOK, HandlerInv, [Store!Next]_(Store!vars), UNCHANGED web,
           \A d \in Calls : pc'[d] \in Store!Attempting => pc[d] \in Store!Attempting
    PROVE  HandlerInv'
BY StoreKeepsAnswers
   DEF HandlerInv, WebTypeOK, TasksServeRequests, GreetingsCarryTickets, Numbered, web,
       NoTicket, Store!NoTicket, Store!Attempting

LEMMA RequestPreservesHandlers ==
    ASSUME Store!TypeOK, HandlerInv, NEW c \in Calls, NEW s \in Servers,
           GetHello(c, s) \/ GetHealth(c, s)
    PROVE  HandlerInv'
<1>1. PICK r \in Requests : /\ r.status \in {"open", "200"}
                            /\ r.server = s
                            /\ r.body = NoTicket
                            /\ request' = [request EXCEPT ![c] = r]
  BY DEF GetHello, GetHealth, Open, GreetPlainly, Requests, NoTicket, Store!Tickets, Store!NoTicket
<1>2. /\ request[c] = NoRequest
      /\ alive[s]
      /\ UNCHANGED <<mode, alive, crashes>>
      /\ ticket' = ticket
      /\ pc' # pc => /\ pc' = [pc EXCEPT ![c] = "connecting"]
                     /\ r.status = "open" /\ r.kind = "hello"
  BY <1>1 DEF GetHello, GetHealth, GreetPlainly, store, Store!Begin, Open, Store!TypeOK, HandlerInv, WebTypeOK
<1>3. WebTypeOK'
  BY <1>1, <1>2 DEF HandlerInv, WebTypeOK
<1>4. TasksServeRequests'
  BY <1>1, <1>2 DEF HandlerInv, WebTypeOK, TasksServeRequests, Store!TypeOK, NoRequest
<1>5. GreetingsCarryTickets'
  BY <1>1, <1>2
     DEF HandlerInv, WebTypeOK, GreetingsCarryTickets, Numbered, Store!TypeOK, NoTicket
<1>. QED
  BY <1>3, <1>4, <1>5 DEF HandlerInv

LEMMA FinishPreservesHandlers ==
    ASSUME Store!TypeOK, HandlerInv, NEW c \in Calls, FinishHello(c) \/ FinishHealth(c)
    PROVE  HandlerInv'
<1>1. PICK status \in {"200", "500", "503"}, body \in {NoTicket, ticket[c]} :
        /\ Respond(c, status, body)
        /\ body # NoTicket => pc[c] = "answered" /\ body = ticket[c]
  BY DEF FinishHello, FinishHealth
<1>2. /\ request[c] \in Requests
      /\ pc[c] \notin Store!Attempting
      /\ UNCHANGED <<mode, alive, crashes, pc, ticket>>
  BY DEF FinishHello, FinishHealth, store, HandlerInv, WebTypeOK, NoRequest,
         TasksServeRequests, Store!Attempting
<1>3. WebTypeOK'
  <2>1. body \in Store!Tickets
    BY DEF Store!TypeOK, NoTicket, Store!NoTicket, Store!Tickets
  <2>2. (status = "200") \in BOOLEAN
    OBVIOUS
  <2>3. [request[c] EXCEPT !.status = status, !.body = body,
                           !.labelled = (status = "200")] \in Requests
    BY <1>2, <2>1, <2>2 DEF Requests
  <2>. QED
    BY <1>1, <1>2, <2>3 DEF HandlerInv, WebTypeOK, Respond
<1>4. TasksServeRequests'
  BY <1>1, <1>2 DEF HandlerInv, WebTypeOK, TasksServeRequests, Respond, Requests
<1>5. GreetingsCarryTickets'
  BY <1>1, <1>2 DEF HandlerInv, WebTypeOK, GreetingsCarryTickets, Numbered, Respond,
                    Requests, NoTicket
<1>. QED
  BY <1>3, <1>4, <1>5 DEF HandlerInv

\* Requests that end without a response lose their tasks in the same step.
LEMMA BreakPreservesHandlers ==
    ASSUME Store!TypeOK, HandlerInv, NEW broken \in SUBSET Calls, Break(broken),
           \A c \in broken : request[c].status = "open",
           mode' = mode, crashes' \in 0..MaxCrashes, alive' \in [Servers -> BOOLEAN],
           \A c \in Calls \ broken :
               request[c].status = "open" => alive'[request[c].server]
    PROVE  HandlerInv'
<1>1. \A c \in broken : request[c] \in Requests
  BY DEF HandlerInv, WebTypeOK, NoRequest
<1>2. \A c \in broken : /\ request'[c] \in Requests
                        /\ request'[c].status = "broken"
                        /\ pc'[c] \notin Store!Attempting
  BY <1>1 DEF Break, Requests, Store!Abandon, Store!Attempting
<1>3. \A c \in Calls \ broken : request'[c] = request[c] /\ pc'[c] = pc[c]
  BY DEF Break, Store!Abandon
<1>4. WebTypeOK'
  <2>1. request' \in [Calls -> Requests \cup {NoRequest}]
    BY <1>2, <1>3 DEF Break, HandlerInv, WebTypeOK
  <2>. QED
    BY <2>1 DEF HandlerInv, WebTypeOK
<1>5. TasksServeRequests'
  BY <1>2, <1>3 DEF HandlerInv, TasksServeRequests
<1>6. GreetingsCarryTickets'
  <2>1. \A c \in Calls \ broken : ticket'[c] = ticket[c]
    BY DEF Break, Store!Abandon
  <2>. QED
    BY <1>2, <1>3, <2>1 DEF HandlerInv, GreetingsCarryTickets, Numbered, NoTicket, Store!NoTicket
<1>. QED
  BY <1>4, <1>5, <1>6 DEF HandlerInv

LEMMA DisconnectPreservesHandlers ==
    ASSUME Store!TypeOK, HandlerInv, NEW c \in Calls, Disconnect(c)
    PROVE  HandlerInv'
<1>1. /\ Break({c})
      /\ request[c].status = "open"
      /\ UNCHANGED <<mode, alive, crashes>>
  BY DEF Disconnect
<1>2. /\ mode' = mode /\ crashes' \in 0..MaxCrashes /\ alive' \in [Servers -> BOOLEAN]
      /\ \A d \in Calls : request[d].status = "open" => alive'[request[d].server]
  BY <1>1 DEF HandlerInv, WebTypeOK, TasksServeRequests
<1>. QED
  BY <1>1, <1>2, BreakPreservesHandlers

\* A dying process takes exactly the requests it serves with it.
LEMMA CrashPreservesHandlers ==
    ASSUME Store!TypeOK, HandlerInv, NEW s \in Servers, Crash(s)
    PROVE  HandlerInv'
<1>1. /\ Break(RequestsAt(s))
      /\ RequestsAt(s) \in SUBSET Calls
      /\ \A c \in RequestsAt(s) : request[c].status = "open"
  BY DEF Crash, RequestsAt
<1>2. /\ mode' = mode /\ crashes' \in 0..MaxCrashes /\ alive' \in [Servers -> BOOLEAN]
  BY ConstantsAssumption DEF Crash, HandlerInv, WebTypeOK
<1>3. \A c \in Calls \ RequestsAt(s) :
          request[c].status = "open" => alive'[request[c].server]
  <2>1. TAKE c \in Calls \ RequestsAt(s)
  <2>2. HAVE request[c].status = "open"
  <2>3. request[c].server # s /\ request[c].server \in Servers
    BY <2>2 DEF RequestsAt, HandlerInv, WebTypeOK, Requests, NoRequest
  <2>. QED
    BY <2>2, <2>3 DEF Crash, HandlerInv, WebTypeOK, TasksServeRequests
<1>. QED
  BY <1>1, <1>2, <1>3, BreakPreservesHandlers

LEMMA BootPreservesHandlers ==
    ASSUME Store!TypeOK, HandlerInv, NEW s \in Servers, Boot(s)
    PROVE  HandlerInv'
<1>1. /\ alive' = [alive EXCEPT ![s] = TRUE]
      /\ UNCHANGED <<mode, request, crashes, pc, ticket>>
  BY DEF Boot, Store!Open, Store!taskVars
<1>2. WebTypeOK'
  BY <1>1 DEF HandlerInv, WebTypeOK
<1>3. TasksServeRequests'
  BY <1>1 DEF HandlerInv, WebTypeOK, TasksServeRequests
<1>4. GreetingsCarryTickets'
  BY <1>1 DEF HandlerInv, GreetingsCarryTickets, Numbered
<1>. QED
  BY <1>2, <1>3, <1>4 DEF HandlerInv

LEMMA NextPreservesHandlers == Store!TypeOK /\ HandlerInv /\ [Next]_vars => HandlerInv'
<1>. SUFFICES ASSUME Store!TypeOK, HandlerInv, [Next]_vars PROVE HandlerInv'
  OBVIOUS
<1>1. [Store!Next]_(Store!vars)
  BY NextIsStoreStep
<1>2. ASSUME NEW c \in Calls, NEW s \in Servers, GetHello(c, s) \/ GetHealth(c, s)
      PROVE  HandlerInv'
  BY <1>2, RequestPreservesHandlers
<1>3. ASSUME NEW c \in Calls, Progress(c) PROVE HandlerInv'
  <2>1. UNCHANGED web
    BY <1>3 DEF Progress
  <2>. QED
    BY <1>1, <1>3, <2>1, ProgressStartsNoTask, SilentPreservesHandlers
<1>4. ASSUME NEW c \in Calls, FinishHello(c) \/ FinishHealth(c) PROVE HandlerInv'
  BY <1>4, FinishPreservesHandlers
<1>5. ASSUME NEW c \in Calls, Disconnect(c) PROVE HandlerInv'
  BY <1>5, DisconnectPreservesHandlers
<1>6. ASSUME NEW s \in Servers, Crash(s) \/ Boot(s) PROVE HandlerInv'
  BY <1>6, CrashPreservesHandlers, BootPreservesHandlers
<1>7. CASE Database
  <2>1. UNCHANGED web
    BY <1>7 DEF Database
  <2>. QED
    BY <1>1, <1>7, <2>1, DatabaseStartsNoTask, SilentPreservesHandlers
<1>8. CASE UNCHANGED vars
  <2>1. UNCHANGED web /\ pc' = pc
    BY <1>8 DEF vars, store
  <2>. QED
    BY <1>1, <2>1, SilentPreservesHandlers
<1>. QED
  BY <1>2, <1>3, <1>4, <1>5, <1>6, <1>7, <1>8 DEF Next

-----------------------------------------------------------------------------
(* What the visitors see. *)

THEOREM HandlersHold == Spec => []HandlerInv
BY HandlerInitEstablishes, NextPreservesHandlers, StoreInvariant, SameInvariants, PTL
   DEF Spec

\* The components agree on their types.
THEOREM TypeCorrect == Spec => []TypeOK
BY HandlersHold, StoreInvariant, SameInvariants, PTL DEF TypeOK, HandlerInv

\* No request outlives its process and no task outlives its request.
THEOREM TasksServeRequestsHolds == Spec => []TasksServeRequests
BY HandlersHold, PTL DEF HandlerInv

LEMMA StoreSpec == Spec => StoreProofs!Spec
<1>1. Store!Spec => StoreProofs!Spec
  BY SameSteps, PTL DEF Store!Spec, StoreProofs!Spec
<1>. QED
  BY <1>1, UsesStoreHolds DEF UsesStore

\* The handlers keep the promise of the port (ports.rs, service.rs hello): with
\* requests, crashes and boots around it, what the store does are still steps
\* of the dispenser of VisitorCounter, or invisible to it.
THEOREM ServersKeepThePromise == Spec => StoreProofs!ImplementsVisitorCounter
<1>1. StoreProofs!Spec => StoreProofs!ImplementsVisitorCounter
  BY StoreConstants, StoreProofs!Refinement
<1>. QED
  BY <1>1, StoreSpec

\* No two visitors read the same number in one era, on any number of servers
\* that crash, boot, retry and lose connections.
THEOREM GreetingsAreDistinctHolds == Spec => []GreetingsAreDistinct
<1>1. StoreProofs!Spec => []StoreProofs!UniqueCounts
  BY StoreConstants, StoreProofs!UniqueCountsHolds
<1>2. Store!UniqueCounts /\ HandlerInv => GreetingsAreDistinct
  BY DEF Store!UniqueCounts, HandlerInv, GreetingsCarryTickets, GreetingsAreDistinct
<1>. QED
  BY <1>1, <1>2, StoreSpec, SameInvariants, HandlersHold, PTL

\* Boots and repairs never set the counter below a number a visitor has read
\* since data was last lost.
THEOREM CounterCoversGreetingsHolds == Spec => []CounterCoversGreetings
<1>1. StoreProofs!Spec => []StoreProofs!TicketsAreCovered
  BY StoreConstants, StoreProofs!TicketsAreCoveredHolds
<1>2. Store!TicketsAreCovered /\ HandlerInv => CounterCoversGreetings
  BY DEF Store!TicketsAreCovered, HandlerInv, GreetingsCarryTickets, CounterCoversGreetings,
         Numbered, NoTicket
<1>. QED
  BY <1>1, <1>2, StoreSpec, SameInvariants, HandlersHold, PTL

\* The numbers visitors read follow the order in which they came and were
\* greeted, across servers, crashes and retries (service.rs hello).
THEOREM GreetingsFollowRealTimeHolds == Spec => []GreetingsFollowRealTime
<1>1. StoreProofs!Spec => []StoreProofs!NumbersFollowRealTime
  BY StoreConstants, StoreProofs!NumbersFollowRealTimeHolds
<1>2. StoreProofs!NumbersFollowRealTime /\ HandlerInv
        => GreetingsFollowRealTime
  BY DEF StoreProofs!NumbersFollowRealTime, StoreProofs!Dispenser!Precedes,
         HandlerInv, GreetingsCarryTickets, GreetingsFollowRealTime
<1>. QED
  BY <1>1, <1>2, StoreSpec, HandlersHold, PTL

-----------------------------------------------------------------------------
(* How many visitors are counted. *)

\* A call is made by a visit; it is dropped with its request, and its number
\* becomes a greeting.
VisitsHold ==
    \A c \in Calls :
        /\ pc[c] # "idle" => request[c] \in Requests /\ request[c].kind = "hello"
        /\ pc[c] = "gone" => request[c].status = "broken"
        /\ pc[c] = "answered" =>
              \/ request[c].status \in {"open", "broken"}
              \/ request[c].status = "200" /\ request[c].body = ticket[c]

LEMMA VisitsHoldAtFirst == Init => VisitsHold
BY DEF Init, Store!Init, VisitsHold

LEMMA RequestPreservesVisits ==
    ASSUME Store!TypeOK, HandlerInv, VisitsHold, NEW c \in Calls,
           NEW s \in Servers, GetHello(c, s) \/ GetHealth(c, s)
    PROVE  VisitsHold'
<1>1. pc[c] = "idle"
  BY DEF GetHello, GetHealth, VisitsHold, Requests, NoRequest
<1>2. CASE /\ Store!Begin(c) /\ Open(c, s, "hello")
  <2>1. /\ pc' = [pc EXCEPT ![c] = "connecting"] /\ ticket' = ticket
        /\ request' = [request EXCEPT ![c] =
             [status |-> "open", kind |-> "hello", server |-> s,
              body |-> NoTicket, labelled |-> FALSE]]
    BY <1>2 DEF Store!Begin, Open
  <2>2. request'[c] \in Requests /\ request'[c].kind = "hello"
    BY <2>1 DEF Requests, HandlerInv, WebTypeOK, NoTicket, Store!NoTicket,
                Store!Tickets
  <2> QED
    BY <2>1, <2>2 DEF VisitsHold, HandlerInv, WebTypeOK, Store!TypeOK
<1>3. CASE UNCHANGED store
  <2>1. /\ pc' = pc /\ ticket' = ticket
        /\ \A d \in Calls \ {c} : request'[d] = request[d]
    BY <1>3 DEF store, GetHello, GetHealth, GreetPlainly, Open, HandlerInv,
                WebTypeOK
  <2> QED
    BY <1>1, <2>1 DEF VisitsHold
<1> QED
  BY <1>2, <1>3 DEF GetHello, GetHealth

\* A call that returns a number belongs to an open visit.
LEMMA ProgressPreservesVisits ==
    ASSUME Store!TypeOK, HandlerInv, VisitsHold, NEW c \in Calls, Progress(c)
    PROVE  VisitsHold'
<1>1. /\ request' = request
      /\ \A d \in Calls \ {c} : pc'[d] = pc[d] /\ ticket'[d] = ticket[d]
      /\ pc[c] \in Store!Attempting /\ pc'[c] # "gone"
  BY DEF Progress, web, Store!TaskStep, Store!Begin, Store!Connect,
         Store!ConnectFails, Store!Receive, Store!ConnectionLost, Store!Repair,
         Store!WakeUp, Store!GiveUp, Store!TypeOK, Store!Attempting
<1>2. request[c].status = "open" /\ pc[c] # "idle"
  BY <1>1 DEF HandlerInv, TasksServeRequests, Store!Attempting
<1> QED
  BY <1>1, <1>2 DEF VisitsHold

\* A number is not 0, so it is never turned into an error.
LEMMA FinishPreservesVisits ==
    ASSUME Store!TypeOK, StoreProofs!IInv, StoreProofs!NumbersArePositive,
           HandlerInv, VisitsHold, NEW c \in Calls,
           FinishHello(c) \/ FinishHealth(c)
    PROVE  VisitsHold'
<1>1. UNCHANGED <<pc, ticket>> /\ request[c].status = "open"
  BY DEF FinishHello, FinishHealth, store
<1>2. pc[c] = "answered" => ticket[c].number # 0
  BY DEF StoreProofs!IInv, StoreProofs!TicketsAreReplies,
         StoreProofs!NumbersArePositive, StoreProofs!Holders
<1>3. PICK status \in {"200", "500", "503"}, body \in {NoTicket, ticket[c]} :
        /\ Respond(c, status, body)
        /\ pc[c] = "answered" => status = "200" /\ body = ticket[c]
  BY <1>2 DEF FinishHello, FinishHealth, VisitsHold
<1>4. request[c] \in Requests
  BY <1>1 DEF HandlerInv, WebTypeOK, NoRequest
<1>5. /\ request'[c].status = status /\ request'[c].body = body
      /\ request'[c].kind = request[c].kind
      /\ \A d \in Calls \ {c} : request'[d] = request[d]
  BY <1>3, <1>4 DEF Respond, HandlerInv, WebTypeOK, Requests
<1>6. request'[c] \in Requests
  <2>1. HandlerInv'
    BY FinishPreservesHandlers
  <2>2. request'[c] # NoRequest
    BY <1>5 DEF NoRequest
  <2> QED
    BY <2>1, <2>2 DEF HandlerInv, WebTypeOK
<1> QED
  BY <1>1, <1>3, <1>5, <1>6 DEF VisitsHold

LEMMA BreakPreservesVisits ==
    ASSUME Store!TypeOK, HandlerInv, VisitsHold, NEW broken \in SUBSET Calls,
           Break(broken), \A c \in broken : request[c].status = "open"
    PROVE  VisitsHold'
<1>1. ASSUME NEW c \in broken
      PROVE  /\ pc'[c] # "idle" => pc[c] # "idle"
             /\ request'[c].status = "broken"
             /\ request'[c].kind = request[c].kind
             /\ request'[c] \in Requests
  <2>1. request[c] \in Requests
    BY DEF HandlerInv, WebTypeOK, NoRequest
  <2>2. request'[c] = [request[c] EXCEPT !.status = "broken"]
    BY DEF Break
  <2>3. pc[c] = "idle" => pc'[c] = "idle"
    BY DEF Break, Store!Abandon, Store!Attempting
  <2> QED
    BY <2>1, <2>2, <2>3 DEF Requests
<1>2. ASSUME NEW c \in Calls \ broken
      PROVE  request'[c] = request[c] /\ pc'[c] = pc[c] /\ ticket'[c] = ticket[c]
  BY DEF Break, Store!Abandon
<1> QED
  BY <1>1, <1>2 DEF VisitsHold

\* What the database executes answers no call yet, and drops none.
LEMMA DatabasePreservesVisits ==
    ASSUME Store!TypeOK, VisitsHold, Database
    PROVE  VisitsHold'
<1>1. /\ request' = request
      /\ \A c \in Calls : pc'[c] \in {pc[c], "failed"}
      /\ \A c \in Calls : pc'[c] # pc[c] => pc[c] = "awaiting"
      /\ \A c \in Calls : pc[c] # "awaiting" => ticket'[c] = ticket[c]
  BY DEF Database, web, Store!Commit, Store!Reject, Store!GoDown, Store!ComeUp,
         Store!LoseData, Store!taskVars, Store!Awaited, Store!TypeOK,
         Store!Statements
<1> QED
  BY <1>1 DEF VisitsHold

LEMMA NextPreservesVisits ==
    /\ Store!TypeOK /\ StoreProofs!IInv /\ StoreProofs!NumbersArePositive
    /\ HandlerInv /\ VisitsHold /\ [Next]_vars
    => VisitsHold'
<1> SUFFICES ASSUME Store!TypeOK, StoreProofs!IInv,
                    StoreProofs!NumbersArePositive, HandlerInv, VisitsHold,
                    [Next]_vars
             PROVE  VisitsHold'
  OBVIOUS
<1>1. ASSUME NEW c \in Calls, NEW s \in Servers, GetHello(c, s) \/ GetHealth(c, s)
      PROVE  VisitsHold'
  BY <1>1, RequestPreservesVisits
<1>2. ASSUME NEW c \in Calls, Progress(c) \/ FinishHello(c) \/ FinishHealth(c)
      PROVE  VisitsHold'
  BY <1>2, ProgressPreservesVisits, FinishPreservesVisits
<1>3. ASSUME NEW c \in Calls, Disconnect(c) PROVE VisitsHold'
  <2>1. Break({c}) /\ \A d \in {c} : request[d].status = "open"
    BY <1>3 DEF Disconnect
  <2> QED
    BY <2>1, BreakPreservesVisits
<1>4. ASSUME NEW s \in Servers, Crash(s) PROVE VisitsHold'
  <2>1. /\ Break(RequestsAt(s)) /\ RequestsAt(s) \in SUBSET Calls
        /\ \A c \in RequestsAt(s) : request[c].status = "open"
    BY <1>4 DEF Crash, RequestsAt
  <2> QED
    BY <2>1, BreakPreservesVisits
<1>5. ASSUME NEW s \in Servers, Boot(s) PROVE VisitsHold'
  BY <1>5 DEF Boot, Store!Open, Store!taskVars, VisitsHold
<1>6. CASE Database
  BY <1>6, DatabasePreservesVisits
<1>7. CASE UNCHANGED vars
  BY <1>7 DEF vars, store, web, VisitsHold
<1> QED
  BY <1>1, <1>2, <1>3, <1>4, <1>5, <1>6, <1>7 DEF Next

\* Who holds a number reads it, or is about to.
LEMMA HoldersAreVisitors ==
    ASSUME StoreProofs!IInv, HandlerInv, VisitsHold,
           \A c \in Calls : request[c].status # "broken"
    PROVE  {c \in Calls : \/ Numbered(c)
                          \/ request[c].status = "open" /\ ticket[c] # NoTicket}
              = StoreProofs!Holders
<1>1. ASSUME NEW c \in Calls, Numbered(c) PROVE ticket[c] # NoTicket
  BY <1>1 DEF HandlerInv, GreetingsCarryTickets, Numbered
<1>2. ASSUME NEW c \in Calls, ticket[c] # NoTicket
      PROVE  Numbered(c) \/ request[c].status = "open"
  <2>1. pc[c] \in {"awaiting", "answered"}
    BY <1>2 DEF StoreProofs!IInv, StoreProofs!TicketsAreReplies, NoTicket,
                Store!NoTicket, StoreProofs!NoTicket
  <2>2. CASE pc[c] = "awaiting"
    BY <2>2 DEF HandlerInv, TasksServeRequests, Store!Attempting
  <2>3. CASE pc[c] = "answered"
    BY <1>2, <2>3 DEF VisitsHold, Numbered
  <2> QED
    BY <2>1, <2>2, <2>3
<1> QED
  BY <1>1, <1>2 DEF StoreProofs!Holders, NoTicket, Store!NoTicket,
                    StoreProofs!NoTicket

LEMMA SameCardinality ==
    ASSUME NEW S
    PROVE  StoreProofs!Cardinality(S) = Cardinality(S)
BY DEF Cardinality, StoreProofs!Cardinality

\* As long as nothing fails and nobody leaves, the counter is the number of
\* visitors greeted with a number or about to be, on any number of servers in
\* any mix of modes (service.rs:24-44, lib.rs:70-91).
THEOREM CounterCountsVisitorsHolds == Spec => []CounterCountsVisitors
<1>1. StoreProofs!Spec =>
        [](StoreProofs!Untroubled
             => value = StoreProofs!Cardinality(StoreProofs!Holders))
  BY StoreConstants, StoreProofs!HoldersAreCountedHolds
<1>2. StoreProofs!Spec => []StoreProofs!NumbersArePositive
  BY StoreConstants, StoreProofs!NumbersArePositiveHolds
<1>3. Spec => []VisitsHold
  BY <1>2, StoreSpec, StoreInvariant, SameInvariants, HandlersHold,
     VisitsHoldAtFirst, NextPreservesVisits, PTL DEF Spec
<1>4. /\ StoreProofs!Untroubled
           => value = StoreProofs!Cardinality(StoreProofs!Holders)
      /\ StoreProofs!IInv /\ HandlerInv /\ VisitsHold
      => CounterCountsVisitors
  BY HoldersAreVisitors, SameCardinality
     DEF CounterCountsVisitors, VisitsHold, StoreProofs!Untroubled
<1> QED
  BY <1>1, <1>3, <1>4, StoreSpec, StoreInvariant, HandlersHold, PTL
=============================================================================
