------------------------ MODULE VisitorCounterProofs ------------------------
(***************************************************************************)
(* Proofs about VisitorCounter, for every set of calls and every bound.    *)
(* IInv is inductive; UniqueNumbers and RealTimeOrder follow from it.      *)
(*                                                                         *)
(* The argument: a number is taken one above last, every ticket of this    *)
(* era lies in 1..last, and every floor of this era is at most shown,      *)
(* which is at most last.  So a new ticket differs from every held one and *)
(* is above the floor of its call, and nothing else changes a held ticket. *)
(***************************************************************************)
EXTENDS VisitorCounter, TLAPS

\* The initial state satisfies the inductive invariant.
LEMMA InitEstablishes == Init => IInv
<1>. SUFFICES ASSUME Init PROVE IInv
  OBVIOUS
<1>1. TypeOK
  BY DEF Init, TypeOK, Statuses, Tickets, NoTicket
<1>2. HeldTicketsDiffer /\ TicketsWereIssued /\ AnsweredHold
  BY DEF Init, HeldTicketsDiffer, TicketsWereIssued, AnsweredHold
<1>3. GreetedWereIssued /\ FloorsAreBelow
  BY DEF Init, GreetedWereIssued, FloorsAreBelow, NoTicket
<1>. QED
  BY <1>1, <1>2, <1>3 DEF IInv

\* Arriving records how far the greetings had got; no ticket changes.
LEMMA ArrivePreserves == ASSUME IInv, NEW c \in Calls, Arrive(c) PROVE IInv'
<1>1. TypeOK'
  BY DEF IInv, TypeOK, Arrive, Statuses, Tickets
<1>2. (HeldTicketsDiffer /\ TicketsWereIssued /\ GreetedWereIssued)'
  BY DEF IInv, Arrive, HeldTicketsDiffer, TicketsWereIssued, GreetedWereIssued
<1>3. AnsweredHold'
  BY DEF IInv, TypeOK, Arrive, AnsweredHold
<1>4. FloorsAreBelow'
  BY <1>3 DEF IInv, TypeOK, Arrive, FloorsAreBelow, AnsweredHold
<1>. QED
  BY <1>1, <1>2, <1>3, <1>4 DEF IInv

\* A taken number is above every number issued or greeted in this era.
LEMMA TakePreserves == ASSUME IInv, NEW c \in Calls, Take(c) PROVE IInv'
<1>. DEFINE t == [era |-> era, number |-> last + 1]
<1>1. /\ ticket'[c] = t
      /\ \A d \in Calls : d # c => ticket'[d] = ticket[d]
      /\ t # NoTicket
  BY DEF IInv, TypeOK, Take, Tickets, NoTicket
<1>2. TypeOK'
  BY DEF IInv, TypeOK, Take, Tickets
<1>3. \A d \in Calls : ticket[d] # NoTicket => ticket[d] # t
  BY DEF IInv, TypeOK, TicketsWereIssued, Tickets
<1>4. HeldTicketsDiffer'
  BY <1>1, <1>3 DEF IInv, HeldTicketsDiffer
<1>5. TicketsWereIssued' /\ GreetedWereIssued'
  BY <1>1
     DEF IInv, TypeOK, Take, Tickets, TicketsWereIssued, GreetedWereIssued
<1>6. FloorsAreBelow'
  <2>1. Precedes(floor[c], t)
    <3>1. /\ era \in Nat /\ last \in Nat /\ shown \in Nat
          /\ floor[c].era \in Nat /\ floor[c].number \in Nat
      BY DEF IInv, TypeOK, Tickets
    <3>2. /\ floor[c].era <= era
          /\ floor[c].era = era => floor[c].number <= shown
          /\ shown <= last
      BY DEF IInv, FloorsAreBelow, GreetedWereIssued
    <3>3. t.era = era /\ t.number = last + 1
      OBVIOUS
    <3>. QED
      BY <3>1, <3>2, <3>3 DEF Precedes
  <2>2. era' = era /\ shown' = shown /\ floor' = floor
    BY DEF Take
  <2>. QED
    BY <1>1, <2>1, <2>2 DEF IInv, FloorsAreBelow
<1>7. AnsweredHold'
  BY <1>1 DEF IInv, Take, AnsweredHold
<1>. QED
  BY <1>2, <1>4, <1>5, <1>6, <1>7 DEF IInv

\* Losing a ticket leaves fewer tickets to compare.
LEMMA LosePreserves == ASSUME IInv, NEW c \in Calls, Lose(c) PROVE IInv'
<1>1. TypeOK'
  BY DEF IInv, TypeOK, Lose, Tickets, NoTicket
<1>2. /\ ticket'[c] = NoTicket
      /\ \A d \in Calls : d # c => ticket'[d] = ticket[d]
  BY DEF IInv, TypeOK, Lose
<1>3. (HeldTicketsDiffer /\ TicketsWereIssued /\ GreetedWereIssued)'
  BY <1>2 DEF IInv, Lose, HeldTicketsDiffer, TicketsWereIssued, GreetedWereIssued
<1>4. (FloorsAreBelow /\ AnsweredHold)'
  BY <1>2 DEF IInv, Lose, FloorsAreBelow, AnsweredHold
<1>. QED
  BY <1>1, <1>3, <1>4 DEF IInv

\* A greeted number was issued, so shown stays at or below last.
LEMMA AnswerPreserves == ASSUME IInv, NEW c \in Calls, Answer(c) PROVE IInv'
<1>1. /\ shown <= shown'
      /\ shown' <= last
      /\ shown' \in Nat
  BY DEF IInv, TypeOK, Answer, Tickets, TicketsWereIssued, GreetedWereIssued, Larger
<1>2. TypeOK'
  BY <1>1 DEF IInv, TypeOK, Answer, Statuses
<1>3. (HeldTicketsDiffer /\ TicketsWereIssued /\ GreetedWereIssued)'
  BY <1>1 DEF IInv, Answer, HeldTicketsDiffer, TicketsWereIssued, GreetedWereIssued
<1>4. FloorsAreBelow'
  BY <1>1 DEF IInv, TypeOK, Answer, FloorsAreBelow, Tickets
<1>5. AnsweredHold'
  BY DEF IInv, TypeOK, Answer, AnsweredHold
<1>. QED
  BY <1>2, <1>3, <1>4, <1>5 DEF IInv

LEMMA RefusePreserves == ASSUME IInv, NEW c \in Calls, Refuse(c) PROVE IInv'
<1>1. TypeOK'
  BY DEF IInv, TypeOK, Refuse, Statuses
<1>2. (HeldTicketsDiffer /\ TicketsWereIssued /\ GreetedWereIssued /\ FloorsAreBelow)'
  BY DEF IInv, Refuse, HeldTicketsDiffer, TicketsWereIssued, GreetedWereIssued, FloorsAreBelow
<1>3. AnsweredHold'
  BY DEF IInv, TypeOK, Refuse, AnsweredHold
<1>. QED
  BY <1>1, <1>2, <1>3 DEF IInv

\* Dropping the tickets of some calls that are not answered keeps IInv: the
\* shape Leave and Restart share.
LEMMA DroppingTickets ==
    ASSUME IInv, NEW departing \in SUBSET Calls,
           \A c \in departing : status[c] = "pending",
           status' = [c \in Calls |-> IF c \in departing THEN "gone" ELSE status[c]],
           ticket' = [c \in Calls |-> IF c \in departing THEN NoTicket ELSE ticket[c]]
    PROVE  /\ status' \in [Calls -> Statuses]
           /\ ticket' \in [Calls -> Tickets]
           /\ HeldTicketsDiffer'
           /\ AnsweredHold'
           /\ \A c \in Calls : ticket'[c] # NoTicket => ticket'[c] = ticket[c]
<1>1. \A c \in Calls : ticket'[c] # NoTicket => ticket'[c] = ticket[c]
  OBVIOUS
<1>2. status' \in [Calls -> Statuses] /\ ticket' \in [Calls -> Tickets]
  BY DEF IInv, TypeOK, Statuses, Tickets, NoTicket
<1>3. HeldTicketsDiffer'
  BY <1>1 DEF IInv, HeldTicketsDiffer
<1>4. AnsweredHold'
  BY DEF IInv, AnsweredHold
<1>. QED
  BY <1>1, <1>2, <1>3, <1>4

LEMMA LeavePreserves ==
    ASSUME IInv, NEW departing \in SUBSET Calls, Leave(departing) PROVE IInv'
<1>1. /\ status' \in [Calls -> Statuses]
      /\ ticket' \in [Calls -> Tickets]
      /\ HeldTicketsDiffer'
      /\ AnsweredHold'
      /\ \A c \in Calls : ticket'[c] # NoTicket => ticket'[c] = ticket[c]
  BY DroppingTickets DEF Leave
<1>2. TypeOK'
  BY <1>1 DEF IInv, TypeOK, Leave
<1>3. (TicketsWereIssued /\ GreetedWereIssued /\ FloorsAreBelow)'
  BY <1>1 DEF IInv, Leave, TicketsWereIssued, GreetedWereIssued, FloorsAreBelow
<1>. QED
  BY <1>1, <1>2, <1>3 DEF IInv

LEMMA WastePreserves == ASSUME IInv, Waste PROVE IInv'
<1>1. TypeOK'
  BY DEF IInv, TypeOK, Waste
<1>2. (HeldTicketsDiffer /\ FloorsAreBelow /\ AnsweredHold)'
  BY DEF IInv, Waste, HeldTicketsDiffer, FloorsAreBelow, AnsweredHold
<1>3. (TicketsWereIssued /\ GreetedWereIssued)'
  BY DEF IInv, TypeOK, Waste, TicketsWereIssued, GreetedWereIssued, Tickets
<1>. QED
  BY <1>1, <1>2, <1>3 DEF IInv

\* After data loss every ticket and floor belongs to an earlier era.
LEMMA NewEraPreserves ==
    ASSUME IInv,
           era' = era + 1, last' \in 0..last, shown' = 0, floor' = floor,
           \A c \in Calls : ticket'[c] # NoTicket => ticket'[c] = ticket[c]
    PROVE  TicketsWereIssued' /\ GreetedWereIssued' /\ FloorsAreBelow'
<1>1. TicketsWereIssued'
  BY DEF IInv, TypeOK, TicketsWereIssued, Tickets
<1>2. GreetedWereIssued'
  BY DEF IInv, TypeOK, GreetedWereIssued
<1>3. FloorsAreBelow'
  BY DEF IInv, TypeOK, FloorsAreBelow, Tickets
<1>. QED
  BY <1>1, <1>2, <1>3

LEMMA StartEraPreserves == ASSUME IInv, StartEra PROVE IInv'
<1>1. TypeOK'
  BY DEF IInv, TypeOK, StartEra
<1>2. (TicketsWereIssued /\ GreetedWereIssued /\ FloorsAreBelow)'
  BY NewEraPreserves DEF StartEra
<1>3. (HeldTicketsDiffer /\ AnsweredHold)'
  BY DEF IInv, StartEra, HeldTicketsDiffer, AnsweredHold
<1>. QED
  BY <1>1, <1>2, <1>3 DEF IInv

LEMMA RestartPreserves == ASSUME IInv, Restart PROVE IInv'
<1>. DEFINE departing == {c \in Calls : status[c] = "pending"}
<1>1. /\ \A c \in departing : status[c] = "pending"
      /\ status' = [c \in Calls |-> IF c \in departing THEN "gone" ELSE status[c]]
      /\ ticket' = [c \in Calls |-> IF c \in departing THEN NoTicket ELSE ticket[c]]
  BY DEF Restart
<1>2. /\ status' \in [Calls -> Statuses]
      /\ ticket' \in [Calls -> Tickets]
      /\ HeldTicketsDiffer'
      /\ AnsweredHold'
      /\ \A c \in Calls : ticket'[c] # NoTicket => ticket'[c] = ticket[c]
  BY <1>1, DroppingTickets
<1>3. last' \in 0..last
  BY DEF IInv, TypeOK, Restart
<1>4. TypeOK'
  BY <1>2 DEF IInv, TypeOK, Restart
<1>5. (TicketsWereIssued /\ GreetedWereIssued /\ FloorsAreBelow)'
  BY <1>2, <1>3, NewEraPreserves DEF Restart
<1>. QED
  BY <1>2, <1>4, <1>5 DEF IInv

-----------------------------------------------------------------------------
\* Every step of the dispenser preserves the inductive invariant.
LEMMA NextPreserves == IInv /\ [Next]_vars => IInv'
<1>. SUFFICES ASSUME IInv, [Next]_vars PROVE IInv'
  OBVIOUS
<1>1. ASSUME NEW c \in Calls, Arrive(c) PROVE IInv'
  BY <1>1, ArrivePreserves
<1>2. ASSUME NEW c \in Calls, Take(c) PROVE IInv'
  BY <1>2, TakePreserves
<1>3. ASSUME NEW c \in Calls, Lose(c) PROVE IInv'
  BY <1>3, LosePreserves
<1>4. ASSUME NEW c \in Calls, Answer(c) PROVE IInv'
  BY <1>4, AnswerPreserves
<1>5. ASSUME NEW c \in Calls, Refuse(c) PROVE IInv'
  BY <1>5, RefusePreserves
<1>6. ASSUME NEW departing \in SUBSET Calls, Leave(departing) PROVE IInv'
  BY <1>6, LeavePreserves
<1>7. CASE Waste
  BY <1>7, WastePreserves
<1>8. CASE StartEra
  BY <1>8, StartEraPreserves
<1>9. CASE Restart
  BY <1>9, RestartPreserves
<1>10. CASE UNCHANGED vars
  BY <1>10 DEF vars, IInv, TypeOK, HeldTicketsDiffer, TicketsWereIssued,
     GreetedWereIssued, FloorsAreBelow, AnsweredHold
<1>. QED
  BY <1>1, <1>2, <1>3, <1>4, <1>5, <1>6, <1>7, <1>8, <1>9, <1>10 DEF Next

\* The dispenser's state stays well typed and within IInv: every number held
\* was issued once, and every floor is below the ticket taken above it.
THEOREM InvariantHolds == Spec => []IInv
BY InitEstablishes, NextPreserves, PTL DEF Spec

\* For any number of calls, servers and retries: no two visitors of an era
\* are greeted with the same number.
THEOREM UniqueNumbersHolds == Spec => []UniqueNumbers
<1>1. IInv => UniqueNumbers
  BY DEF IInv, HeldTicketsDiffer, AnsweredHold, UniqueNumbers
<1>. QED
  BY <1>1, InvariantHolds, PTL

\* For any number of calls: a visitor who arrives after another was greeted
\* gets a later number.
THEOREM RealTimeOrderHolds == Spec => []RealTimeOrder
<1>1. IInv => RealTimeOrder
  BY DEF IInv, FloorsAreBelow, AnsweredHold, RealTimeOrder
<1>. QED
  BY <1>1, InvariantHolds, PTL
=============================================================================
