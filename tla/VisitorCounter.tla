--------------------------- MODULE VisitorCounter ---------------------------
(***************************************************************************)
(* What the port CounterStore::next_visitor_count promises to the greeting *)
(* service: a ticket dispenser.  A call arrives, the store hands it the    *)
(* next number, and the call is answered with that number, refused, or     *)
(* abandoned by its client.                                                *)
(*                                                                         *)
(* The promise is deliberately weak where the adapters are weak:           *)
(*   - a number may be wasted (an UPDATE whose reply nobody awaits),       *)
(*   - a number already handed out may be lost on its way to the call,     *)
(*     which may then take another one (a retry after an ambiguous error), *)
(*   - data may be lost, which starts a new era: numbering falls back to   *)
(*     some earlier value (a restarted memory store, a recreated volume, a *)
(*     failover to a standby that lags).                                   *)
(* What it never gives up: within an era no two visitors are greeted with  *)
(* the same number, and a visitor who arrives after another was greeted    *)
(* gets a larger number.                                                   *)
(***************************************************************************)
EXTENDS Naturals

CONSTANTS Calls,      \* calls of next_visitor_count
          MaxNumber,  \* the last number that can be handed out
          MaxEra      \* bound: how many times data may be lost

VARIABLES status,   \* status[c]: where call c stands
          ticket,   \* ticket[c]: the number c holds, with its era
          era,      \* how many times data was lost so far
          last,     \* the last number handed out in this era
          shown,    \* history: the largest number greeted in this era
          floor     \* history: <<era, shown>> when c arrived

vars == <<status, ticket, era, last, shown, floor>>

Statuses == {"idle", "pending", "answered", "refused", "gone"}
Tickets == [era: Nat, number: Nat]

\* Numbers start at 1, so number 0 marks the absence of a ticket.
NoTicket == [era |-> 0, number |-> 0]

\* Tickets are ordered by era, then by number.
Precedes(s, t) ==
    \/ s.era < t.era
    \/ s.era = t.era /\ s.number < t.number

Larger(m, n) == IF m < n THEN n ELSE m

Init ==
    /\ status = [c \in Calls |-> "idle"]
    /\ ticket = [c \in Calls |-> NoTicket]
    /\ era = 0
    /\ last = 0
    /\ shown = 0
    /\ floor = [c \in Calls |-> NoTicket]

-----------------------------------------------------------------------------
Arrive(c) ==
    /\ status[c] = "idle"
    /\ status' = [status EXCEPT ![c] = "pending"]
    /\ floor' = [floor EXCEPT ![c] = [era |-> era, number |-> shown]]
    /\ UNCHANGED <<ticket, era, last, shown>>

Take(c) ==
    /\ status[c] = "pending"
    /\ ticket[c] = NoTicket
    /\ last < MaxNumber
    /\ last' = last + 1
    /\ ticket' = [ticket EXCEPT ![c] = [era |-> era, number |-> last + 1]]
    /\ UNCHANGED <<status, era, shown, floor>>

\* A number is consumed on behalf of a call that no longer awaits it.
Waste ==
    /\ last < MaxNumber
    /\ last' = last + 1
    /\ UNCHANGED <<status, ticket, era, shown, floor>>

\* The number is lost on its way to the call.
Lose(c) ==
    /\ status[c] = "pending"
    /\ ticket[c] # NoTicket
    /\ ticket' = [ticket EXCEPT ![c] = NoTicket]
    /\ UNCHANGED <<status, era, last, shown, floor>>

Answer(c) ==
    /\ status[c] = "pending"
    /\ ticket[c] # NoTicket
    /\ status' = [status EXCEPT ![c] = "answered"]
    /\ shown' = IF ticket[c].era = era
                  THEN Larger(shown, ticket[c].number)
                  ELSE shown
    /\ UNCHANGED <<ticket, era, last, floor>>

Refuse(c) ==
    /\ status[c] = "pending"
    /\ ticket[c] = NoTicket
    /\ status' = [status EXCEPT ![c] = "refused"]
    /\ UNCHANGED <<ticket, era, last, shown, floor>>

\* The clients of these calls disconnect, or their server process dies.
Leave(departing) ==
    /\ \A c \in departing : status[c] = "pending"
    /\ status' = [c \in Calls |-> IF c \in departing THEN "gone" ELSE status[c]]
    /\ ticket' = [c \in Calls |-> IF c \in departing THEN NoTicket ELSE ticket[c]]
    /\ UNCHANGED <<era, last, shown, floor>>

\* Data is lost: numbering resumes from an earlier number.
StartEra ==
    /\ era < MaxEra
    /\ era' = era + 1
    /\ last' \in 0..last
    /\ shown' = 0
    /\ UNCHANGED <<status, ticket, floor>>

\* Data is lost and the pending calls with it: a restart of the process
\* that holds the counter in its memory.
Restart ==
    /\ era < MaxEra
    /\ era' = era + 1
    /\ last' = 0
    /\ shown' = 0
    /\ status' = [c \in Calls |-> IF status[c] = "pending" THEN "gone" ELSE status[c]]
    /\ ticket' = [c \in Calls |-> IF status[c] = "pending" THEN NoTicket ELSE ticket[c]]
    /\ UNCHANGED floor

Next ==
    \/ \E c \in Calls : \/ Arrive(c)
                        \/ Take(c)
                        \/ Lose(c)
                        \/ Answer(c)
                        \/ Refuse(c)
    \/ \E departing \in (SUBSET Calls) \ {{}} : Leave(departing)
    \/ Waste
    \/ StartEra
    \/ Restart

Spec == Init /\ [][Next]_vars

-----------------------------------------------------------------------------
TypeOK ==
    /\ status \in [Calls -> Statuses]
    /\ ticket \in [Calls -> Tickets]
    /\ era \in Nat
    /\ last \in Nat
    /\ shown \in Nat
    /\ floor \in [Calls -> Tickets]

\* No two visitors of an era are greeted with the same number, whatever is
\* wasted, lost on the way or taken again (service.rs hello, counter mode).
UniqueNumbers ==
    \A c, d \in Calls :
        /\ c # d
        /\ status[c] = "answered"
        /\ status[d] = "answered"
        => ticket[c] # ticket[d]

\* Numbers follow real time: a visitor who arrives after another one was
\* greeted gets a later number, even when the two calls ran on different
\* servers (service.rs hello, counter mode).
RealTimeOrder ==
    \A c \in Calls : status[c] = "answered" => Precedes(floor[c], ticket[c])

-----------------------------------------------------------------------------
\* The inductive strengthening behind the two invariants above.
HeldTicketsDiffer ==
    \A c, d \in Calls :
        c # d /\ ticket[c] # NoTicket /\ ticket[d] # NoTicket => ticket[c] # ticket[d]

\* A ticket of this era has a number that was handed out in it, or one from
\* before data was lost.
TicketsWereIssued ==
    \A c \in Calls :
        ticket[c] # NoTicket =>
            /\ ticket[c].era \in 0..era
            /\ ticket[c].number >= 1
            /\ ticket[c].era = era => ticket[c].number <= last

GreetedWereIssued == shown <= last

FloorsAreBelow ==
    \A c \in Calls :
        /\ floor[c].era <= era
        /\ floor[c].era = era => floor[c].number <= shown
        /\ ticket[c] # NoTicket => Precedes(floor[c], ticket[c])

AnsweredHold ==
    \A c \in Calls : /\ status[c] = "answered" => ticket[c] # NoTicket
                     /\ status[c] = "idle" => ticket[c] = NoTicket

\* Everything that stays true from step to step.
IInv ==
    /\ TypeOK
    /\ HeldTicketsDiffer
    /\ TicketsWereIssued
    /\ GreetedWereIssued
    /\ FloorsAreBelow
    /\ AnsweredHold
=============================================================================
