------------------------ MODULE PostgresCounterStore ------------------------
(***************************************************************************)
(* The Postgres adapter of the port CounterStore: every call of            *)
(* next_visitor_count is a task that opens a connection of its own, sends  *)
(* one UPDATE ... RETURNING, and on any error re-runs INIT_SQL, sleeps and *)
(* tries again, at most MaxRetries times.                                  *)
(*                                                                         *)
(* Statements travel: an UPDATE that was sent may commit long after its    *)
(* task stopped waiting for it (the connection broke, or the client of the *)
(* call disconnected and the task was dropped).  The database behind the   *)
(* pooler may go down and come back, and may lose data (a recreated        *)
(* volume, a failover to a standby that lags); both are external to the    *)
(* adapter and happen within named budgets.                                *)
(*                                                                         *)
(* Simplifications: connecting and preparing the statement are one step;   *)
(* INIT_SQL, sent as one simple query and so one implicit transaction, is  *)
(* one step; the column value is never negative, so the conversion of      *)
(* lib.rs:88 to u64 does not fail; delays are kept but time is not.        *)
(***************************************************************************)
EXTENDS Integers, FiniteSets

CONSTANTS Calls,         \* calls of next_visitor_count, on all servers
          MaxRetries,    \* retries of a call (3 in the code)
          InitialDelay,  \* first pause of a call (250 ms in the code)
          MaxBigint,     \* the largest value of the column (2^63 - 1)
          MaxFaults,     \* bound: spontaneous faults of network and database
          MaxEra         \* bound: how many times data is lost

ASSUME ConstantsAssumption ==
    /\ MaxRetries \in Nat
    /\ InitialDelay \in Nat
    /\ MaxBigint \in Nat
    /\ MaxFaults \in Nat
    /\ MaxEra \in Nat

VARIABLES
    \* the task of each call
    pc,         \* pc[c]: where the task stands
    retries,    \* retries[c]: retries left
    delay,      \* delay[c]: the next pause
    sent,       \* sent[c]: how many UPDATEs the task has sent
    ticket,     \* ticket[c]: the number returned to the task, with its era
    \* the network and the database
    up,         \* the database accepts connections and answers
    wire,       \* UPDATEs sent and not executed: <<call, ordinal>>
    table,      \* the table exists and holds its row
    value,      \* the column value of that row, 0 before the row exists
    faults,     \* faults spent so far
    \* history
    era,        \* how many times data was lost
    committed,  \* UPDATEs that committed
    shown,      \* the largest number answered in this era
    floor       \* floor[c]: era and shown when the call began

taskVars == <<pc, retries, delay, sent, ticket>>
dbVars == <<up, wire, table, value, faults>>
history == <<era, committed, shown, floor>>
vars == <<taskVars, dbVars, history>>

Attempting == {"connecting", "awaiting", "failed", "sleeping"}
Finished == {"answered", "unavailable", "gone"}
Statements == Calls \X Nat
Tickets == [era: Nat, number: Nat]
NoTicket == [era |-> 0, number |-> 0]
Larger(m, n) == IF m < n THEN n ELSE m

\* The UPDATE that c's current attempt awaits; its reply reaches c.
Current(c) == <<c, sent[c]>>
Awaited(s) == pc[s[1]] = "awaiting" /\ s = Current(s[1])

\* A step that goes wrong: free when there is a reason for it, otherwise a
\* spontaneous fault that is paid for.
GoesWrong(reason) ==
    IF reason
      THEN UNCHANGED faults
      ELSE faults < MaxFaults /\ faults' = faults + 1

Init ==
    /\ pc = [c \in Calls |-> "idle"]
    /\ retries = [c \in Calls |-> MaxRetries]
    /\ delay = [c \in Calls |-> InitialDelay]
    /\ sent = [c \in Calls |-> 0]
    /\ ticket = [c \in Calls |-> NoTicket]
    /\ up = TRUE
    /\ wire = {}
    /\ table = TRUE
    /\ value = 0
    /\ faults = 0
    /\ era = 0
    /\ committed = {}
    /\ shown = 0
    /\ floor = [c \in Calls |-> NoTicket]

-----------------------------------------------------------------------------
(* The task of a call. *)

Begin(c) ==
    /\ pc[c] = "idle"
    /\ pc' = [pc EXCEPT ![c] = "connecting"]
    /\ retries' = [retries EXCEPT ![c] = MaxRetries]
    /\ delay' = [delay EXCEPT ![c] = InitialDelay]
    /\ floor' = [floor EXCEPT ![c] = [era |-> era, number |-> shown]]
    /\ UNCHANGED <<sent, ticket, dbVars, era, committed, shown>>

\* client() connects, the statement is prepared and the UPDATE is sent.
Connect(c) ==
    /\ pc[c] = "connecting"
    /\ up /\ table
    /\ pc' = [pc EXCEPT ![c] = "awaiting"]
    /\ sent' = [sent EXCEPT ![c] = @ + 1]
    /\ wire' = wire \cup {<<c, sent[c] + 1>>}
    /\ UNCHANGED <<retries, delay, ticket, up, table, value, faults, history>>

\* No connection, or the statement cannot be prepared without its table.
ConnectFails(c) ==
    /\ pc[c] = "connecting"
    /\ GoesWrong(~up \/ ~table)
    /\ pc' = [pc EXCEPT ![c] = "failed"]
    /\ UNCHANGED <<retries, delay, sent, ticket, up, wire, table, value, history>>

\* A faulty adapter that re-reads the counter once its UPDATE is done.
RereadingReceive(c) ==
    /\ pc[c] = "awaiting"
    /\ ticket[c] # NoTicket
    /\ pc' = [pc EXCEPT ![c] = "answered"]
    /\ ticket' = [ticket EXCEPT ![c] = [era |-> era, number |-> value]]
    /\ shown' = Larger(shown, value)
    /\ UNCHANGED <<retries, delay, sent, dbVars, era, committed, floor>>

\* The reply arrives: the call returns the number of its row.
Receive(c) ==
    /\ pc[c] = "awaiting"
    /\ ticket[c] # NoTicket
    /\ pc' = [pc EXCEPT ![c] = "answered"]
    /\ shown' = IF ticket[c].era = era
                  THEN Larger(shown, ticket[c].number)
                  ELSE shown
    /\ UNCHANGED <<retries, delay, sent, ticket, dbVars, era, committed, floor>>

\* The connection breaks before the reply arrives.  The UPDATE may still be
\* on its way, or may have committed: the task cannot tell.
ConnectionLost(c) ==
    /\ pc[c] = "awaiting"
    /\ GoesWrong(~up)
    /\ pc' = [pc EXCEPT ![c] = "failed"]
    /\ ticket' = [ticket EXCEPT ![c] = NoTicket]
    /\ UNCHANGED <<retries, delay, sent, up, wire, table, value, history>>

\* Faulty adapters: one that sets the row to 0 when it repairs the table, one
\* that does not repair it, one that waits for the database to come back.
ResettingRepair(c) ==
    /\ pc[c] = "failed"
    /\ retries[c] > 0
    /\ pc' = [pc EXCEPT ![c] = "sleeping"]
    /\ \/ /\ up
          /\ table' = TRUE
          /\ value' = 0
          /\ UNCHANGED faults
       \/ /\ GoesWrong(~up)
          /\ UNCHANGED <<table, value>>
    /\ UNCHANGED <<retries, delay, sent, ticket, up, wire, history>>

IdleRepair(c) ==
    /\ pc[c] = "failed"
    /\ retries[c] > 0
    /\ pc' = [pc EXCEPT ![c] = "sleeping"]
    /\ UNCHANGED <<retries, delay, sent, ticket, dbVars, history>>

StubbornRepair(c) ==
    /\ pc[c] = "failed"
    /\ retries[c] > 0
    /\ up
    /\ pc' = [pc EXCEPT ![c] = "sleeping"]
    /\ table' = TRUE
    /\ UNCHANGED <<retries, delay, sent, ticket, up, wire, value, faults, history>>

\* A faulty loop that does not ask whether retries are left.
UncheckedRepair(c) ==
    /\ pc[c] = "failed"
    /\ pc' = [pc EXCEPT ![c] = "sleeping"]
    /\ \/ /\ up
          /\ table' = TRUE
          /\ UNCHANGED faults
       \/ /\ GoesWrong(~up)
          /\ UNCHANGED table
    /\ UNCHANGED <<retries, delay, sent, ticket, up, wire, value, history>>

\* An attempt failed and retries are left: INIT_SQL is run if a connection
\* can be had, its outcome is ignored, and the task sleeps.
Repair(c) ==
    /\ pc[c] = "failed"
    /\ retries[c] > 0
    /\ pc' = [pc EXCEPT ![c] = "sleeping"]
    /\ \/ /\ up
          /\ table' = TRUE
          /\ UNCHANGED faults
       \/ /\ GoesWrong(~up)
          /\ UNCHANGED table
    /\ UNCHANGED <<retries, delay, sent, ticket, up, wire, value, history>>

\* A faulty loop that never counts its retries down.
EndlessWakeUp(c) ==
    /\ pc[c] = "sleeping"
    /\ pc' = [pc EXCEPT ![c] = "connecting"]
    /\ UNCHANGED <<retries, delay, sent, ticket, dbVars, history>>

WakeUp(c) ==
    /\ pc[c] = "sleeping"
    /\ pc' = [pc EXCEPT ![c] = "connecting"]
    /\ retries' = [retries EXCEPT ![c] = @ - 1]
    /\ delay' = [delay EXCEPT ![c] = @ * 2]
    /\ UNCHANGED <<sent, ticket, dbVars, history>>

\* The last attempt failed: the call returns Unavailable.
GiveUp(c) ==
    /\ pc[c] = "failed"
    /\ retries[c] = 0
    /\ pc' = [pc EXCEPT ![c] = "unavailable"]
    /\ UNCHANGED <<retries, delay, sent, ticket, dbVars, history>>

\* The tasks of these calls are dropped at their await: their clients
\* disconnect, or the process that runs them dies.
Abandon(departing) ==
    /\ \A c \in departing : pc[c] \in Attempting
    /\ pc' = [c \in Calls |-> IF c \in departing THEN "gone" ELSE pc[c]]
    /\ ticket' = [c \in Calls |-> IF c \in departing THEN NoTicket ELSE ticket[c]]
    /\ UNCHANGED <<retries, delay, sent, dbVars, history>>

-----------------------------------------------------------------------------
(* The database. *)

\* An UPDATE without RETURNING: query_one reports an error although it
\* committed.
SilentCommit(s) ==
    /\ up /\ table
    /\ s \in wire
    /\ value < MaxBigint
    /\ wire' = wire \ {s}
    /\ value' = value + 1
    /\ committed' = committed \cup {s}
    /\ pc' = IF Awaited(s) THEN [pc EXCEPT ![s[1]] = "failed"] ELSE pc
    /\ UNCHANGED <<retries, delay, sent, ticket, up, table, faults, era, shown, floor>>

\* nextval() on a sequence whose sessions cache numbers: all different, but
\* not in the order of the calls.
SequenceCommit(s) ==
    /\ up /\ table
    /\ s \in wire
    /\ wire' = wire \ {s}
    /\ \E n \in 1..MaxBigint :
          /\ \A c \in Calls : ticket[c].number # n
          /\ value' = Larger(value, n)
          /\ ticket' = IF Awaited(s)
                         THEN [ticket EXCEPT ![s[1]] = [era |-> era, number |-> n]]
                         ELSE ticket
    /\ committed' = committed \cup {s}
    /\ UNCHANGED <<pc, retries, delay, sent, up, table, faults, era, shown, floor>>

\* UPDATE counters SET value = value + 1 ... RETURNING value: one atomic
\* statement.  The reply reaches the attempt that still awaits it.
Commit(s) ==
    /\ up /\ table
    /\ s \in wire
    /\ value < MaxBigint
    /\ wire' = wire \ {s}
    /\ value' = value + 1
    /\ committed' = committed \cup {s}
    /\ ticket' = IF Awaited(s)
                   THEN [ticket EXCEPT ![s[1]] = [era |-> era, number |-> value + 1]]
                   ELSE ticket
    /\ UNCHANGED <<pc, retries, delay, sent, up, table, faults, era, shown, floor>>

\* The UPDATE fails: no table, no row, or the column is at its limit.
Reject(s) ==
    /\ up
    /\ s \in wire
    /\ ~table \/ value = MaxBigint
    /\ wire' = wire \ {s}
    /\ pc' = IF Awaited(s) THEN [pc EXCEPT ![s[1]] = "failed"] ELSE pc
    /\ UNCHANGED <<retries, delay, sent, ticket, up, table, value, faults, history>>

\* PostgresCounterStore::connect of a server that starts: INIT_SQL creates
\* what is missing and keeps what is there.
Open ==
    /\ up
    /\ table' = TRUE
    /\ UNCHANGED <<taskVars, up, wire, value, faults, history>>

GoDown ==
    /\ up
    /\ faults < MaxFaults
    /\ up' = FALSE
    /\ faults' = faults + 1
    /\ UNCHANGED <<taskVars, wire, table, value, history>>

ComeUp ==
    /\ ~up
    /\ up' = TRUE
    /\ UNCHANGED <<taskVars, wire, table, value, faults, history>>

\* The value falls back to an earlier one, or the table is gone.
LoseData ==
    /\ era < MaxEra
    /\ era' = era + 1
    /\ shown' = 0
    /\ \/ value' \in 0..value /\ UNCHANGED table
       \/ value' = 0 /\ table' = FALSE
    /\ UNCHANGED <<taskVars, up, wire, faults, committed, floor>>

-----------------------------------------------------------------------------
TaskStep(c) ==
    \/ Begin(c)
    \/ Connect(c)
    \/ ConnectFails(c)
    \/ Receive(c)
    \/ ConnectionLost(c)
    \/ Repair(c)
    \/ WakeUp(c)
    \/ GiveUp(c)

Next ==
    \/ \E c \in Calls : TaskStep(c)
    \/ \E departing \in (SUBSET Calls) \ {{}} : Abandon(departing)
    \/ \E s \in wire : Commit(s) \/ Reject(s)
    \/ Open
    \/ GoDown
    \/ ComeUp
    \/ LoseData

Spec == Init /\ [][Next]_vars

\* What the runtime and the database owe a call that has begun.  The clients
\* need not call, the database need not come back, nobody need disconnect,
\* and UPDATEs nobody awaits need not execute.
Fairness ==
    \A c \in Calls :
        /\ WF_vars(Connect(c) \/ ((~up \/ ~table) /\ ConnectFails(c)))
        /\ WF_vars(Commit(Current(c)) \/ Reject(Current(c)))
        /\ WF_vars(Receive(c))
        /\ WF_vars(~up /\ ConnectionLost(c))
        /\ WF_vars(Repair(c))
        /\ WF_vars(WakeUp(c))
        /\ WF_vars(GiveUp(c))

FairSpec == Spec /\ Fairness

-----------------------------------------------------------------------------
TypeOK ==
    /\ pc \in [Calls -> {"idle"} \cup Attempting \cup Finished]
    /\ retries \in [Calls -> 0..MaxRetries]
    /\ delay \in [Calls -> Nat]
    /\ sent \in [Calls -> Nat]
    /\ ticket \in [Calls -> Tickets]
    /\ up \in BOOLEAN
    /\ wire \subseteq Statements
    /\ table \in BOOLEAN
    /\ value \in 0..MaxBigint
    /\ faults \in 0..MaxFaults
    /\ era \in 0..MaxEra
    /\ committed \subseteq Statements
    /\ shown \in Nat
    /\ floor \in [Calls -> Tickets]

\* No two calls return the same number while no data is lost, whatever is
\* retried, lost or executed late (lib.rs next_visitor_count).
UniqueCounts ==
    \A c, d \in Calls :
        c # d /\ pc[c] = "answered" /\ pc[d] = "answered" => ticket[c] # ticket[d]

\* A visitor can be counted several times, because an attempt that failed may
\* have committed (lib.rs:92), but at most once per attempt and so at most
\* MaxRetries + 1 times: the UPDATEs of a call that committed or still may
\* are numbered by its attempts so far.
OvercountBounded ==
    \A s \in committed \cup wire :
        s[2] \in 1..(MaxRetries + 1 - retries[s[1]])

\* An answered call's own last UPDATE committed: a late reply to an attempt it
\* gave up never answers it, and what it sent last is not still on the wire.
AnswersMatchAttempts ==
    \A c \in Calls :
        pc[c] = "answered" => Current(c) \in committed /\ Current(c) \notin wire

\* While no data is lost the counter is the number of UPDATEs that committed:
\* INIT_SQL, run by every start and every retry, never resets the row.
CounterMatchesCommits == era = 0 => value = Cardinality(committed)

\* Without a fault every call sends one UPDATE and is not refused, so the
\* counter counts visitors exactly.
ExactWithoutFaults ==
    faults = 0 /\ era = 0 /\ value < MaxBigint =>
        \A c \in Calls : sent[c] <= 1 /\ pc[c] # "unavailable"

\* Every call returns, even if the database stays down for ever.
EveryCallReturns == \A c \in Calls : pc[c] = "connecting" ~> pc[c] \in Finished

\* No fault is left to happen and the column has room.
Quiet == up /\ faults = MaxFaults /\ era = MaxEra

\* Once the faults are over, a call with a retry left is answered even when
\* the table is missing: its first failure runs INIT_SQL (lib.rs:93).
SelfHealing ==
    \A c \in Calls :
        Quiet /\ pc[c] = "connecting" /\ retries[c] > 0
            ~> pc[c] \in {"answered", "gone"} \/ value = MaxBigint

-----------------------------------------------------------------------------
\* The inductive strengthening behind the invariants above.

\* An UPDATE belongs to an attempt made so far, and executes at most once.
StatementsAreAttempts ==
    /\ \A s \in committed \cup wire : s[2] \in 1..sent[s[1]]
    /\ wire \cap committed = {}

\* One UPDATE at most for each round of the loop begun so far.
OneUpdatePerRound ==
    \A c \in Calls :
        /\ pc[c] \in {"idle", "connecting"} => sent[c] <= MaxRetries - retries[c]
        /\ sent[c] <= MaxRetries + 1 - retries[c]
        /\ pc[c] = "idle" => retries[c] = MaxRetries
        /\ pc[c] = "sleeping" => retries[c] > 0

\* A task holds a number exactly while its reply is on the way and once it
\* has returned, and the number is that of its last UPDATE.
TicketsAreReplies ==
    \A c \in Calls :
        /\ ticket[c] # NoTicket => /\ pc[c] \in {"awaiting", "answered"}
                                  /\ Current(c) \in committed
        /\ pc[c] = "answered" => ticket[c] # NoTicket

CommitsAreFinite == IsFiniteSet(committed)

\* Everything that stays true from step to step.
IInv ==
    /\ TypeOK
    /\ StatementsAreAttempts
    /\ OneUpdatePerRound
    /\ TicketsAreReplies
    /\ CommitsAreFinite
    /\ CounterMatchesCommits

-----------------------------------------------------------------------------
(* The adapter implements the promise of the port. *)

Status(c) ==
    IF pc[c] \in Attempting THEN "pending"
    ELSE IF pc[c] = "unavailable" THEN "refused"
    ELSE pc[c]

Dispenser == INSTANCE VisitorCounter
    WITH MaxNumber <- MaxBigint,
         status <- [c \in Calls |-> Status(c)],
         last <- value

\* Every step of the adapter and its database is a step of VisitorCounter or
\* invisible to it; hence UniqueNumbers and RealTimeOrder hold of it.
ImplementsVisitorCounter == Dispenser!Spec

\* A call that begins after another one returned gets a later number, also
\* when it overtakes the UPDATEs of calls that are being retried.
NumbersFollowRealTime ==
    \A c \in Calls : pc[c] = "answered" => Dispenser!Precedes(floor[c], ticket[c])

\* The counter never falls behind a number of its era that a task holds.
TicketsAreCovered ==
    \A c \in Calls :
        ticket[c] # NoTicket /\ ticket[c].era = era => ticket[c].number <= value
=============================================================================
