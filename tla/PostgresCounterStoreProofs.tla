--------------------- MODULE PostgresCounterStoreProofs ---------------------
(***************************************************************************)
(* Proofs about PostgresCounterStore, for every set of calls, every number *)
(* of retries and every bound.                                             *)
(*                                                                         *)
(* IInv is inductive: an UPDATE is numbered by the attempt that sent it    *)
(* and leaves the wire when it executes, so it commits at most once; a     *)
(* task holds a number only while the UPDATE it sent last has committed.   *)
(* From IInv follow the bound on overcounting, the exact bookkeeping of    *)
(* the counter, and the refinement of VisitorCounter, which brings the     *)
(* uniqueness of the returned numbers.                                     *)
(***************************************************************************)
EXTENDS PostgresCounterStore, FiniteSetTheorems, TLAPS

\* The initial state satisfies the inductive invariant.
LEMMA InitEstablishes == Init => IInv
<1>. SUFFICES ASSUME Init PROVE IInv
  OBVIOUS
<1>1. TypeOK
  BY ConstantsAssumption DEF Init, TypeOK, Statements, Tickets, NoTicket
<1>2. StatementsAreAttempts /\ OneUpdatePerRound /\ TicketsAreReplies
  BY ConstantsAssumption
     DEF Init, StatementsAreAttempts, OneUpdatePerRound, TicketsAreReplies
<1>3. CommitsAreFinite /\ CounterMatchesCommits
  BY FS_EmptySet DEF Init, CommitsAreFinite, CounterMatchesCommits
<1>. QED
  BY <1>1, <1>2, <1>3 DEF IInv

-----------------------------------------------------------------------------
(* The steps of a task. *)

LEMMA BeginPreserves == ASSUME IInv, NEW c \in Calls, Begin(c) PROVE IInv'
<1>1. TypeOK'
  BY ConstantsAssumption DEF IInv, TypeOK, Begin, dbVars, Attempting, Tickets
<1>2. OneUpdatePerRound'
  BY ConstantsAssumption DEF IInv, TypeOK, Begin, OneUpdatePerRound
<1>3. TicketsAreReplies'
  BY DEF IInv, TypeOK, Begin, TicketsAreReplies, Current
<1>4. (StatementsAreAttempts /\ CommitsAreFinite /\ CounterMatchesCommits)'
  BY DEF IInv, Begin, dbVars, StatementsAreAttempts, CommitsAreFinite, CounterMatchesCommits
<1>. QED
  BY <1>1, <1>2, <1>3, <1>4 DEF IInv

\* The new UPDATE carries an ordinal that no earlier UPDATE of c carries.
LEMMA ConnectPreserves == ASSUME IInv, NEW c \in Calls, Connect(c) PROVE IInv'
<1>1. TypeOK'
  BY DEF IInv, TypeOK, Connect, history, Attempting, Statements
<1>2. StatementsAreAttempts'
  <2>1. <<c, sent[c] + 1>> \notin committed
    BY DEF IInv, TypeOK, StatementsAreAttempts
  <2>2. \A s \in committed \cup wire : s[2] \in 1..sent'[s[1]]
    BY DEF IInv, TypeOK, Connect, StatementsAreAttempts, Statements
  <2>. QED
    BY <2>1, <2>2 DEF IInv, TypeOK, Connect, history, StatementsAreAttempts
<1>3. OneUpdatePerRound'
  BY ConstantsAssumption DEF IInv, TypeOK, Connect, OneUpdatePerRound
<1>4. TicketsAreReplies'
  BY DEF IInv, TypeOK, Connect, history, TicketsAreReplies, Current
<1>5. (CommitsAreFinite /\ CounterMatchesCommits)'
  BY DEF IInv, Connect, history, CommitsAreFinite, CounterMatchesCommits
<1>. QED
  BY <1>1, <1>2, <1>3, <1>4, <1>5 DEF IInv

LEMMA ConnectFailsPreserves ==
    ASSUME IInv, NEW c \in Calls, ConnectFails(c) PROVE IInv'
<1>1. TypeOK'
  BY ConstantsAssumption DEF IInv, TypeOK, ConnectFails, GoesWrong, history, Attempting
<1>2. OneUpdatePerRound'
  BY ConstantsAssumption DEF IInv, TypeOK, ConnectFails, OneUpdatePerRound
<1>3. TicketsAreReplies'
  BY DEF IInv, TypeOK, ConnectFails, history, TicketsAreReplies, Current
<1>4. (StatementsAreAttempts /\ CommitsAreFinite /\ CounterMatchesCommits)'
  BY DEF IInv, ConnectFails, history,
     StatementsAreAttempts, CommitsAreFinite, CounterMatchesCommits
<1>. QED
  BY <1>1, <1>2, <1>3, <1>4 DEF IInv

LEMMA ReceivePreserves == ASSUME IInv, NEW c \in Calls, Receive(c) PROVE IInv'
<1>1. TypeOK'
  BY DEF IInv, TypeOK, Receive, dbVars, Attempting, Finished, Tickets, Larger
<1>2. OneUpdatePerRound'
  BY ConstantsAssumption DEF IInv, TypeOK, Receive, OneUpdatePerRound
<1>3. TicketsAreReplies'
  BY DEF IInv, TypeOK, Receive, dbVars, TicketsAreReplies, Current
<1>4. (StatementsAreAttempts /\ CommitsAreFinite /\ CounterMatchesCommits)'
  BY DEF IInv, Receive, dbVars, StatementsAreAttempts, CommitsAreFinite, CounterMatchesCommits
<1>. QED
  BY <1>1, <1>2, <1>3, <1>4 DEF IInv

LEMMA ConnectionLostPreserves ==
    ASSUME IInv, NEW c \in Calls, ConnectionLost(c) PROVE IInv'
<1>1. TypeOK'
  BY ConstantsAssumption
     DEF IInv, TypeOK, ConnectionLost, GoesWrong, history, Attempting, Tickets, NoTicket
<1>2. OneUpdatePerRound'
  BY ConstantsAssumption DEF IInv, TypeOK, ConnectionLost, OneUpdatePerRound
<1>3. TicketsAreReplies'
  BY DEF IInv, TypeOK, ConnectionLost, history, TicketsAreReplies, Current
<1>4. (StatementsAreAttempts /\ CommitsAreFinite /\ CounterMatchesCommits)'
  BY DEF IInv, ConnectionLost, history,
     StatementsAreAttempts, CommitsAreFinite, CounterMatchesCommits
<1>. QED
  BY <1>1, <1>2, <1>3, <1>4 DEF IInv

\* INIT_SQL may create the table; it never changes the value.
LEMMA RepairPreserves == ASSUME IInv, NEW c \in Calls, Repair(c) PROVE IInv'
<1>1. table' \in BOOLEAN /\ faults' \in 0..MaxFaults
  <2>1. table' \in BOOLEAN
    BY DEF IInv, TypeOK, Repair
  <2>2. faults' \in 0..MaxFaults
    BY ConstantsAssumption DEF IInv, TypeOK, Repair, GoesWrong
  <2>. QED
    BY <2>1, <2>2
<1>2. TypeOK'
  BY <1>1 DEF IInv, TypeOK, Repair, history, Attempting, Statements, Tickets
<1>3. OneUpdatePerRound'
  BY ConstantsAssumption DEF IInv, TypeOK, Repair, OneUpdatePerRound
<1>4. TicketsAreReplies'
  BY DEF IInv, TypeOK, Repair, history, TicketsAreReplies, Current
<1>5. (StatementsAreAttempts /\ CommitsAreFinite /\ CounterMatchesCommits)'
  BY DEF IInv, Repair, history, StatementsAreAttempts, CommitsAreFinite, CounterMatchesCommits
<1>. QED
  BY <1>1, <1>2, <1>3, <1>4, <1>5 DEF IInv

\* A sleeping task has a retry left, so the countdown stays in Nat.
LEMMA WakeUpPreserves == ASSUME IInv, NEW c \in Calls, WakeUp(c) PROVE IInv'
<1>1. retries[c] > 0
  BY DEF IInv, WakeUp, OneUpdatePerRound
<1>2. TypeOK'
  BY <1>1, ConstantsAssumption DEF IInv, TypeOK, WakeUp, dbVars, history, Attempting
<1>3. OneUpdatePerRound'
  BY <1>1, ConstantsAssumption DEF IInv, TypeOK, WakeUp, OneUpdatePerRound
<1>4. TicketsAreReplies'
  BY DEF IInv, TypeOK, WakeUp, history, TicketsAreReplies, Current
<1>5. (StatementsAreAttempts /\ CommitsAreFinite /\ CounterMatchesCommits)'
  BY DEF IInv, WakeUp, dbVars, history,
     StatementsAreAttempts, CommitsAreFinite, CounterMatchesCommits
<1>. QED
  BY <1>2, <1>3, <1>4, <1>5 DEF IInv

LEMMA GiveUpPreserves == ASSUME IInv, NEW c \in Calls, GiveUp(c) PROVE IInv'
<1>1. TypeOK'
  BY DEF IInv, TypeOK, GiveUp, dbVars, history, Attempting, Finished
<1>2. OneUpdatePerRound'
  BY ConstantsAssumption DEF IInv, TypeOK, GiveUp, OneUpdatePerRound
<1>3. TicketsAreReplies'
  BY DEF IInv, TypeOK, GiveUp, history, TicketsAreReplies, Current
<1>4. (StatementsAreAttempts /\ CommitsAreFinite /\ CounterMatchesCommits)'
  BY DEF IInv, GiveUp, dbVars, history,
     StatementsAreAttempts, CommitsAreFinite, CounterMatchesCommits
<1>. QED
  BY <1>1, <1>2, <1>3, <1>4 DEF IInv

LEMMA AbandonPreserves ==
    ASSUME IInv, NEW departing \in SUBSET Calls, Abandon(departing) PROVE IInv'
<1>1. TypeOK'
  BY DEF IInv, TypeOK, Abandon, dbVars, history, Attempting, Finished, Tickets, NoTicket
<1>2. OneUpdatePerRound'
  BY ConstantsAssumption DEF IInv, TypeOK, Abandon, OneUpdatePerRound
<1>3. TicketsAreReplies'
  BY DEF IInv, TypeOK, Abandon, history, TicketsAreReplies, Current
<1>4. (StatementsAreAttempts /\ CommitsAreFinite /\ CounterMatchesCommits)'
  BY DEF IInv, Abandon, dbVars, history,
     StatementsAreAttempts, CommitsAreFinite, CounterMatchesCommits
<1>. QED
  BY <1>1, <1>2, <1>3, <1>4 DEF IInv

-----------------------------------------------------------------------------
(* The steps of the database. *)

\* The UPDATE was on the wire, so it had not committed: it counts once more.
LEMMA CommitPreserves == ASSUME IInv, NEW s \in wire, Commit(s) PROVE IInv'
<1>1. s \in Statements /\ s[1] \in Calls /\ s \notin committed
  BY DEF IInv, TypeOK, StatementsAreAttempts, Statements
<1>2. TypeOK'
  BY <1>1, ConstantsAssumption DEF IInv, TypeOK, Commit, Statements, Tickets
<1>3. StatementsAreAttempts'
  BY DEF IInv, Commit, StatementsAreAttempts
<1>4. OneUpdatePerRound'
  BY DEF IInv, Commit, OneUpdatePerRound
<1>5. TicketsAreReplies'
  BY <1>1 DEF IInv, TypeOK, Commit, TicketsAreReplies, Awaited, Current
<1>6. CommitsAreFinite'
  BY FS_AddElement DEF IInv, Commit, CommitsAreFinite
<1>7. CounterMatchesCommits'
  <2>1. Cardinality(committed') = Cardinality(committed) + 1
    BY <1>1, FS_AddElement DEF IInv, Commit, CommitsAreFinite
  <2>. QED
    BY <2>1 DEF IInv, Commit, CounterMatchesCommits
<1>. QED
  BY <1>2, <1>3, <1>4, <1>5, <1>6, <1>7 DEF IInv

LEMMA RejectPreserves == ASSUME IInv, NEW s \in wire, Reject(s) PROVE IInv'
<1>1. s \in Statements /\ s[1] \in Calls /\ s \notin committed
  BY DEF IInv, TypeOK, StatementsAreAttempts, Statements
<1>2. TypeOK'
  BY <1>1 DEF IInv, TypeOK, Reject, history, Statements, Attempting
<1>3. (StatementsAreAttempts /\ CommitsAreFinite /\ CounterMatchesCommits)'
  BY DEF IInv, Reject, history, StatementsAreAttempts, CommitsAreFinite, CounterMatchesCommits
<1>4. OneUpdatePerRound'
  BY <1>1, ConstantsAssumption DEF IInv, TypeOK, Reject, OneUpdatePerRound, Awaited
<1>5. TicketsAreReplies'
  <2>1. Awaited(s) => ticket[s[1]] = NoTicket
    BY <1>1 DEF IInv, TicketsAreReplies, Awaited
  <2>. QED
    BY <1>1, <2>1 DEF IInv, TypeOK, Reject, history, TicketsAreReplies, Awaited, Current
<1>. QED
  BY <1>2, <1>3, <1>4, <1>5 DEF IInv

\* Losing data starts an era in which the counter is no longer compared with
\* the commits before it; the other steps leave both alone.
LEMMA DatabasePreserves ==
    ASSUME IInv, Open \/ GoDown \/ ComeUp \/ LoseData PROVE IInv'
<1>. USE DEF taskVars
<1>1. up' \in BOOLEAN /\ table' \in BOOLEAN
  BY DEF IInv, TypeOK, Open, GoDown, ComeUp, LoseData, history
<1>2. /\ value' \in 0..MaxBigint
      /\ faults' \in 0..MaxFaults
      /\ era' \in 0..MaxEra
      /\ shown' \in Nat
  <2>1. CASE Open
    BY <2>1, ConstantsAssumption DEF IInv, TypeOK, Open, history
  <2>2. CASE GoDown
    BY <2>2, ConstantsAssumption DEF IInv, TypeOK, GoDown, history
  <2>3. CASE ComeUp
    BY <2>3, ConstantsAssumption DEF IInv, TypeOK, ComeUp, history
  <2>4. CASE LoseData
    BY <2>4, ConstantsAssumption DEF IInv, TypeOK, LoseData
  <2>. QED
    BY <2>1, <2>2, <2>3, <2>4
<1>3. UNCHANGED <<taskVars, wire, committed, floor>>
  BY DEF Open, GoDown, ComeUp, LoseData, history
<1>4. TypeOK'
  BY <1>1, <1>2, <1>3 DEF IInv, TypeOK
<1>5. (StatementsAreAttempts /\ OneUpdatePerRound /\ TicketsAreReplies /\ CommitsAreFinite)'
  BY <1>3 DEF IInv, StatementsAreAttempts, OneUpdatePerRound, TicketsAreReplies,
     CommitsAreFinite, Current
<1>6. CounterMatchesCommits'
  BY <1>3 DEF IInv, TypeOK, Open, GoDown, ComeUp, LoseData, history, CounterMatchesCommits
<1>. QED
  BY <1>4, <1>5, <1>6 DEF IInv

-----------------------------------------------------------------------------
\* Every step preserves the inductive invariant.
LEMMA NextPreserves == IInv /\ [Next]_vars => IInv'
<1>. SUFFICES ASSUME IInv, [Next]_vars PROVE IInv'
  OBVIOUS
<1>1. ASSUME NEW c \in Calls, TaskStep(c) PROVE IInv'
  BY <1>1, BeginPreserves, ConnectPreserves, ConnectFailsPreserves, ReceivePreserves,
     ConnectionLostPreserves, RepairPreserves, WakeUpPreserves, GiveUpPreserves
     DEF TaskStep
<1>2. ASSUME NEW departing \in SUBSET Calls, Abandon(departing) PROVE IInv'
  BY <1>2, AbandonPreserves
<1>3. ASSUME NEW s \in wire, Commit(s) \/ Reject(s) PROVE IInv'
  BY <1>3, CommitPreserves, RejectPreserves
<1>4. CASE Open \/ GoDown \/ ComeUp \/ LoseData
  BY <1>4, DatabasePreserves
<1>5. CASE UNCHANGED vars
  BY <1>5 DEF vars, taskVars, dbVars, history, IInv, TypeOK, StatementsAreAttempts,
     OneUpdatePerRound, TicketsAreReplies, CommitsAreFinite, CounterMatchesCommits, Current
<1>. QED
  BY <1>1, <1>2, <1>3, <1>4, <1>5 DEF Next

\* The adapter and its database stay within IInv.
THEOREM InvariantHolds == Spec => []IInv
BY InitEstablishes, NextPreserves, PTL DEF Spec

\* However faults and data losses fall, at most MaxRetries + 1 UPDATEs commit
\* on behalf of one call (lib.rs:92).
THEOREM OvercountBoundedHolds == Spec => []OvercountBounded
<1>1. IInv => OvercountBounded
  <2>. SUFFICES ASSUME IInv, NEW s \in committed \cup wire
                PROVE  s[2] \in 1..(MaxRetries + 1 - retries[s[1]])
    BY DEF OvercountBounded
  <2>1. s[1] \in Calls /\ s[2] \in 1..sent[s[1]]
    BY DEF IInv, TypeOK, Statements, StatementsAreAttempts
  <2>2. sent[s[1]] <= MaxRetries + 1 - retries[s[1]]
    BY <2>1 DEF IInv, OneUpdatePerRound
  <2>. QED
    BY <2>1, <2>2, ConstantsAssumption DEF IInv, TypeOK
<1>. QED
  BY <1>1, InvariantHolds, PTL

\* A call is answered by the UPDATE it sent last and by no other.
THEOREM AnswersMatchAttemptsHolds == Spec => []AnswersMatchAttempts
<1>1. IInv => AnswersMatchAttempts
  BY DEF IInv, TicketsAreReplies, StatementsAreAttempts, AnswersMatchAttempts
<1>. QED
  BY <1>1, InvariantHolds, PTL

\* While no data is lost the counter equals the number of committed UPDATEs:
\* INIT_SQL, however often it runs, never resets the row.
THEOREM CounterMatchesCommitsHolds == Spec => []CounterMatchesCommits
<1>1. IInv => CounterMatchesCommits
  BY DEF IInv
<1>. QED
  BY <1>1, InvariantHolds, PTL

-----------------------------------------------------------------------------
(* Without a fault no attempt fails: whatever goes wrong has a reason, or is *)
(* paid for.                                                                 *)

Smooth(c) ==
    /\ pc[c] \in {"idle", "connecting", "awaiting", "answered", "gone"}
    /\ sent[c] <= 1
    /\ pc[c] \in {"idle", "connecting"} => sent[c] = 0

Undisturbed ==
    faults = 0 /\ era = 0 =>
        /\ up /\ table
        /\ value < MaxBigint => \A c \in Calls : Smooth(c)

LEMMA UndisturbedAtFirst == Init => Undisturbed
BY DEF Init, Undisturbed, Smooth

\* A task that fails has paid for it.
LEMMA TaskStaysUndisturbed ==
    ASSUME IInv, Undisturbed, NEW c \in Calls, TaskStep(c)
    PROVE  Undisturbed'
<1> SUFFICES ASSUME faults' = 0, era' = 0
             PROVE  /\ up' /\ table'
                    /\ value' < MaxBigint => \A d \in Calls : Smooth(d)'
  BY DEF Undisturbed
<1>1. faults = 0 /\ era = 0 /\ up' = up /\ value' = value
  BY DEF TaskStep, Begin, Connect, ConnectFails, Receive, ConnectionLost,
         Repair, WakeUp, GiveUp, GoesWrong, dbVars, history, IInv, TypeOK
<1>2. up /\ table /\ (value < MaxBigint => \A d \in Calls : Smooth(d))
  BY <1>1 DEF Undisturbed
<1>3. table'
  BY <1>2 DEF TaskStep, Begin, Connect, ConnectFails, Receive, ConnectionLost,
              Repair, WakeUp, GiveUp, dbVars
<1>4. ASSUME value < MaxBigint, NEW d \in Calls
      PROVE  Smooth(d)'
  <2>1. Smooth(c) /\ Smooth(d)
    BY <1>2, <1>4
  <2>2. CASE Begin(c)
    BY <2>1, <2>2 DEF Begin, Smooth, IInv, TypeOK
  <2>3. CASE Connect(c)
    BY <2>1, <2>3 DEF Connect, Smooth, IInv, TypeOK
  <2>4. CASE Receive(c)
    BY <2>1, <2>4 DEF Receive, Smooth, IInv, TypeOK
  <2>5. ~ConnectFails(c) /\ ~ConnectionLost(c)
    BY <1>1, <1>2 DEF ConnectFails, ConnectionLost, GoesWrong
  <2>6. ~Repair(c) /\ ~WakeUp(c) /\ ~GiveUp(c)
    BY <2>1 DEF Repair, WakeUp, GiveUp, Smooth
  <2> QED
    BY <2>2, <2>3, <2>4, <2>5, <2>6 DEF TaskStep
<1> QED
  BY <1>1, <1>2, <1>3, <1>4

\* Nothing is refused below the limit, and the counter only grows in an era.
LEMMA OthersStayUndisturbed ==
    ASSUME IInv, Undisturbed,
           \/ \E departing \in SUBSET Calls : Abandon(departing)
           \/ \E s \in wire : Commit(s) \/ Reject(s)
           \/ Open \/ GoDown \/ ComeUp \/ LoseData \/ UNCHANGED vars
    PROVE  Undisturbed'
<1> SUFFICES ASSUME faults' = 0, era' = 0
             PROVE  /\ up' /\ table'
                    /\ value' < MaxBigint => \A c \in Calls : Smooth(c)'
  BY DEF Undisturbed
<1>1. ~GoDown /\ ~LoseData
  BY DEF GoDown, LoseData, IInv, TypeOK
<1>2. faults = 0 /\ era = 0
  BY <1>1 DEF Abandon, Commit, Reject, Open, ComeUp, vars, dbVars, history
<1>3. up /\ table /\ (value < MaxBigint => \A c \in Calls : Smooth(c))
  BY <1>2 DEF Undisturbed
<1>4. up' /\ table'
  BY <1>1, <1>3 DEF Abandon, Commit, Reject, Open, ComeUp, vars, dbVars
<1>5. ASSUME value' < MaxBigint, NEW c \in Calls
      PROVE  Smooth(c)'
  <2>1. CASE \E departing \in SUBSET Calls : Abandon(departing)
    BY <1>3, <1>5, <2>1 DEF Abandon, Smooth, dbVars
  <2>2. CASE \E s \in wire : Commit(s)
    <3>1. value' = value + 1 /\ UNCHANGED <<pc, sent>>
      BY <2>2 DEF Commit
    <3> QED
      BY ConstantsAssumption, <1>3, <1>5, <3>1 DEF Smooth, IInv, TypeOK
  <2>3. ASSUME NEW s \in wire, Reject(s) PROVE FALSE
    <3>1. value' = value /\ value = MaxBigint
      BY <1>3, <2>3 DEF Reject
    <3> QED
      BY ConstantsAssumption, <1>5, <3>1
  <2>4. CASE Open \/ ComeUp \/ UNCHANGED vars
    BY <1>3, <1>5, <2>4 DEF Open, ComeUp, vars, taskVars, dbVars, Smooth
  <2> QED
    BY <1>1, <2>1, <2>2, <2>3, <2>4
<1> QED
  BY <1>4, <1>5

\* As long as nothing fails every call sends one UPDATE and is not refused, so
\* the counter counts visitors exactly.
THEOREM ExactWithoutFaultsHolds == Spec => []ExactWithoutFaults
<1>1. IInv /\ Undisturbed /\ [Next]_vars => Undisturbed'
  BY TaskStaysUndisturbed, OthersStayUndisturbed DEF Next
<1>2. Undisturbed => ExactWithoutFaults
  BY DEF Undisturbed, Smooth, ExactWithoutFaults
<1> QED
  BY <1>1, <1>2, UndisturbedAtFirst, InvariantHolds, PTL DEF Spec

-----------------------------------------------------------------------------
(* As long as nothing fails and nobody leaves, what has committed is what    *)
(* the calls hold.                                                           *)

Holders == {c \in Calls : ticket[c] # NoTicket}
Untroubled == faults = 0 /\ era = 0 /\ \A c \in Calls : pc[c] # "gone"

Attended ==
    Untroubled =>
        /\ up /\ table
        /\ \A s \in wire : Awaited(s) /\ s[1] \notin Holders
        /\ committed = {Current(c) : c \in Holders}

\* A number is never 0.
NumbersArePositive == \A c \in Holders : ticket[c].number > 0

LEMMA PositiveAtFirst == Init => NumbersArePositive
BY DEF Init, NumbersArePositive, Holders

LEMMA NumbersStayPositive ==
    IInv /\ NumbersArePositive /\ [Next]_vars => NumbersArePositive'
<1> SUFFICES ASSUME IInv, NumbersArePositive, [Next]_vars,
                    NEW c \in Calls, ticket'[c] # NoTicket
             PROVE  ticket'[c].number > 0
  BY DEF NumbersArePositive, Holders, NoTicket
<1>1. CASE ticket'[c] = ticket[c]
  BY <1>1 DEF NumbersArePositive, Holders
<1>2. CASE ticket'[c] # ticket[c]
  <2>1. PICK s \in wire : Commit(s)
    BY <1>2 DEF Next, TaskStep, Begin, Connect, ConnectFails, Receive,
                ConnectionLost, Repair, WakeUp, GiveUp, Abandon, Reject, Open,
                GoDown, ComeUp, LoseData, vars, taskVars, IInv, TypeOK
  <2>2. ticket'[c] = [era |-> era, number |-> value + 1]
    BY <1>2, <2>1 DEF Commit, IInv, TypeOK
  <2> QED
    BY <2>2 DEF IInv, TypeOK
<1> QED
  BY <1>1, <1>2

LEMMA NumbersArePositiveHolds == Spec => []NumbersArePositive
BY PositiveAtFirst, NumbersStayPositive, InvariantHolds, PTL DEF Spec

LEMMA AttendedAtFirst == Init => Attended
BY DEF Init, Attended, Holders

\* A task that goes on keeps its number, and its UPDATE if it is on the wire.
LEMMA TaskStaysAttended ==
    ASSUME IInv, Attended, NEW c \in Calls, TaskStep(c)
    PROVE  Attended'
<1> SUFFICES ASSUME Untroubled'
             PROVE  /\ up' /\ table'
                    /\ \A s \in wire' : Awaited(s)' /\ s[1] \notin Holders'
                    /\ committed' = {Current(d)' : d \in Holders'}
  BY DEF Attended
<1>1. /\ faults = 0 /\ era = 0 /\ faults' = 0
      /\ up' = up /\ committed' = committed
  BY DEF Untroubled, TaskStep, Begin, Connect, ConnectFails, Receive,
         ConnectionLost, Repair, WakeUp, GiveUp, GoesWrong, dbVars, history,
         IInv, TypeOK
<1>2. \A d \in Calls : pc[d] # "gone"
  BY DEF Untroubled, TaskStep, Begin, Connect, ConnectFails, Receive,
         ConnectionLost, Repair, WakeUp, GiveUp, IInv, TypeOK
<1>3. /\ up /\ table
      /\ \A s \in wire : Awaited(s) /\ s[1] \notin Holders
      /\ committed = {Current(d) : d \in Holders}
  BY <1>1, <1>2 DEF Attended, Untroubled
<1>4. table'
  BY <1>3 DEF TaskStep, Begin, Connect, ConnectFails, Receive, ConnectionLost,
              Repair, WakeUp, GiveUp, dbVars
<1>5. ~ConnectFails(c) /\ ~ConnectionLost(c)
  BY <1>1, <1>3 DEF ConnectFails, ConnectionLost, GoesWrong
<1>6. ticket' = ticket /\ Holders' = Holders
  BY <1>5 DEF TaskStep, Begin, Connect, Receive, Repair, WakeUp, GiveUp, Holders,
              NoTicket
<1>7. CASE Connect(c)
  <2>1. /\ pc[c] = "connecting" /\ c \notin Holders
        /\ pc' = [pc EXCEPT ![c] = "awaiting"]
        /\ sent' = [sent EXCEPT ![c] = @ + 1]
        /\ wire' = wire \cup {<<c, sent[c] + 1>>}
    BY <1>7 DEF Connect, IInv, TicketsAreReplies, Holders
  <2>2. \A d \in Calls \ {c} : pc'[d] = pc[d] /\ Current(d)' = Current(d)
    BY <2>1 DEF Current, IInv, TypeOK
  <2>3. pc'[c] = "awaiting" /\ Current(c)' = <<c, sent[c] + 1>>
    BY <2>1 DEF Current, IInv, TypeOK
  <2>4. \A s \in wire : s[1] \in Calls \ {c}
    BY <1>3, <2>1 DEF Awaited, IInv, TypeOK, Statements
  <2>5. \A s \in wire' : Awaited(s)' /\ s[1] \notin Holders'
    BY <1>3, <1>6, <2>1, <2>2, <2>3, <2>4 DEF Awaited
  <2>6. Holders \subseteq Calls \ {c}
    BY <2>1 DEF Holders
  <2>7. {Current(d)' : d \in Holders'} = {Current(d) : d \in Holders}
    BY <1>6, <2>2, <2>6
  <2> QED
    BY <1>1, <1>3, <1>4, <2>5, <2>7
<1>8. CASE ~Connect(c)
  <2>1. /\ wire' = wire /\ sent' = sent
        /\ \A d \in Calls \ {c} : pc'[d] = pc[d]
        /\ pc[c] = "awaiting" => c \in Holders
    BY <1>5, <1>8 DEF TaskStep, Begin, Receive, Repair, WakeUp, GiveUp, Holders,
                      dbVars, IInv, TypeOK
  <2>2. \A s \in wire : s[1] \in Calls \ {c}
    BY <1>3, <2>1 DEF Awaited, IInv, TypeOK, Statements
  <2>3. \A d \in Calls : Current(d)' = Current(d)
    BY <2>1 DEF Current
  <2>4. \A s \in wire' : Awaited(s)' /\ s[1] \notin Holders'
    BY <1>3, <1>6, <2>1, <2>2, <2>3 DEF Awaited
  <2>5. {Current(d)' : d \in Holders'} = {Current(d) : d \in Holders}
    BY <1>6, <2>3 DEF Holders
  <2> QED
    BY <1>1, <1>3, <1>4, <2>4, <2>5
<1> QED
  BY <1>7, <1>8

\* What executes was awaited: its call holds the new number, or fails.
LEMMA StatementStaysAttended ==
    ASSUME IInv, Attended, NEW s \in wire, Commit(s) \/ Reject(s)
    PROVE  Attended'
<1> SUFFICES ASSUME Untroubled'
             PROVE  /\ up' /\ table'
                    /\ \A t \in wire' : Awaited(t)' /\ t[1] \notin Holders'
                    /\ committed' = {Current(d)' : d \in Holders'}
  BY DEF Attended
<1>1. /\ faults = 0 /\ era = 0 /\ UNCHANGED <<up, table, sent>>
      /\ wire' = wire \ {s}
  BY DEF Untroubled, Commit, Reject, history
<1>2. s[1] \in Calls /\ \A t \in wire : t[1] \in Calls
  BY DEF IInv, TypeOK, Statements
<1>3. \A d \in Calls : pc[d] # "gone"
  BY <1>2 DEF Untroubled, Commit, Reject, Awaited, IInv, TypeOK
<1>4. /\ up /\ table
      /\ \A t \in wire : Awaited(t) /\ t[1] \notin Holders
      /\ committed = {Current(d) : d \in Holders}
  BY <1>1, <1>3 DEF Attended, Untroubled
<1>5. \A d \in Calls : Current(d)' = Current(d)
  BY <1>1 DEF Current
<1>6. s = Current(s[1]) /\ \A t \in wire' : t[1] # s[1] /\ t \in wire
  BY <1>1, <1>4 DEF Awaited
<1>7. CASE Commit(s)
  <2>1. /\ pc' = pc
        /\ ticket' = [ticket EXCEPT ![s[1]] =
                        [era |-> era, number |-> value + 1]]
        /\ committed' = committed \cup {s}
    BY <1>4, <1>7 DEF Commit
  <2>2. Holders' = Holders \cup {s[1]}
    BY <1>2, <2>1 DEF Holders, NoTicket, IInv, TypeOK
  <2>3. \A t \in wire' : Awaited(t)' /\ t[1] \notin Holders'
    BY <1>2, <1>4, <1>5, <1>6, <2>1, <2>2 DEF Awaited
  <2>4. {Current(d)' : d \in Holders'} = {Current(d) : d \in Holders} \cup {s}
    BY <1>2, <1>5, <1>6, <2>2 DEF Holders
  <2> QED
    BY <1>1, <1>4, <2>1, <2>3, <2>4
<1>8. CASE Reject(s)
  <2>1. /\ pc' = [pc EXCEPT ![s[1]] = "failed"]
        /\ UNCHANGED <<ticket, committed>>
    BY <1>4, <1>8 DEF Reject, history
  <2>2. Holders' = Holders
    BY <2>1 DEF Holders, NoTicket
  <2>3. \A t \in wire' : Awaited(t)' /\ t[1] \notin Holders'
    BY <1>2, <1>4, <1>5, <1>6, <2>1, <2>2 DEF Awaited, IInv, TypeOK
  <2>4. {Current(d)' : d \in Holders'} = {Current(d) : d \in Holders}
    BY <1>5, <2>2 DEF Holders
  <2> QED
    BY <1>1, <1>4, <2>1, <2>3, <2>4
<1> QED
  BY <1>7, <1>8

\* Whoever leaves, and what goes down or is lost, is trouble.
LEMMA OthersStayAttended ==
    ASSUME IInv, Attended,
           \/ \E departing \in (SUBSET Calls) \ {{}} : Abandon(departing)
           \/ Open \/ GoDown \/ ComeUp \/ LoseData \/ UNCHANGED vars
    PROVE  Attended'
<1> SUFFICES ASSUME Untroubled'
             PROVE  /\ up' /\ table'
                    /\ \A s \in wire' : Awaited(s)' /\ s[1] \notin Holders'
                    /\ committed' = {Current(c)' : c \in Holders'}
  BY DEF Attended
<1>1. ~GoDown /\ ~LoseData
  BY DEF Untroubled, GoDown, LoseData, IInv, TypeOK
<1>2. ~\E departing \in (SUBSET Calls) \ {{}} : Abandon(departing)
  BY DEF Untroubled, Abandon
<1>3. UNCHANGED <<pc, sent, ticket, wire, faults, era, committed>>
  BY <1>1, <1>2 DEF Open, ComeUp, vars, taskVars, dbVars, history
<1>4. /\ up /\ table
      /\ \A s \in wire : Awaited(s) /\ s[1] \notin Holders
      /\ committed = {Current(c) : c \in Holders}
  BY <1>3 DEF Untroubled, Attended
<1>5. up' /\ table'
  BY <1>1, <1>2, <1>4 DEF Open, ComeUp, vars, dbVars
<1> QED
  BY <1>3, <1>4, <1>5 DEF Awaited, Current, Holders, NoTicket

LEMMA NextStaysAttended == IInv /\ Attended /\ [Next]_vars => Attended'
BY TaskStaysAttended, StatementStaysAttended, OthersStayAttended DEF Next

\* As many numbers are held as UPDATEs have committed.
LEMMA HoldersAreCounted ==
    ASSUME IInv, Attended, Untroubled
    PROVE  value = Cardinality(Holders)
<1>1. IsFiniteSet(committed) /\ value = Cardinality(committed)
  BY DEF IInv, CommitsAreFinite, CounterMatchesCommits, Untroubled
<1>2. committed = {Current(c) : c \in Holders}
  BY DEF Attended
<1> DEFINE caller == [s \in committed |-> s[1]]
<1>3. caller \in Bijection(committed, Holders)
  <2>1. \A s \in committed : s[1] \in Holders /\ s = Current(s[1])
    BY <1>2 DEF Current
  <2>2. caller \in Injection(committed, Holders)
    <3>1. caller \in [committed -> Holders]
      BY <2>1
    <3>2. ASSUME NEW s \in committed, NEW t \in committed,
                 caller[s] = caller[t]
          PROVE  s = t
      BY <2>1, <3>2
    <3> QED
      BY <3>1, <3>2 DEF Injection, IsInjective
  <2>3. \A c \in Holders : Current(c) \in committed /\ caller[Current(c)] = c
    BY <1>2 DEF Current
  <2>4. caller \in Surjection(committed, Holders)
    BY <2>1, <2>3 DEF Surjection
  <2> QED
    BY <2>2, <2>4 DEF Bijection
<1> QED
  BY <1>1, <1>3, FS_Bijection DEF ExistsBijection

\* As long as nothing fails and nobody leaves, the counter is the number of
\* calls that hold a number (lib.rs:70-91).
THEOREM HoldersAreCountedHolds ==
    Spec => [](Untroubled => value = Cardinality(Holders))
<1>1. IInv /\ Attended => (Untroubled => value = Cardinality(Holders))
  BY HoldersAreCounted
<1> QED
  BY <1>1, AttendedAtFirst, NextStaysAttended, InvariantHolds, PTL DEF Spec

-----------------------------------------------------------------------------
(* The refinement of VisitorCounter, step by step. *)

StatusOf == [c \in Calls |-> Status(c)]

LEMMA InitMapsToInit == Init => Dispenser!Init
BY ConstantsAssumption
   DEF Init, Dispenser!Init, Status, Attempting, NoTicket, Dispenser!NoTicket

\* A call begins where the dispenser sees it arrive.
LEMMA BeginMaps == ASSUME IInv, NEW c \in Calls, Begin(c) PROVE Dispenser!Arrive(c)
<1>1. StatusOf' = [StatusOf EXCEPT ![c] = "pending"] /\ StatusOf[c] = "idle"
  BY DEF IInv, TypeOK, Begin, StatusOf, Status, Attempting
<1>. QED
  BY <1>1 DEF Begin, dbVars, StatusOf, Dispenser!Arrive

\* Between its beginning and its end a task is pending throughout.
LEMMA RetryingIsInvisible ==
    ASSUME IInv, NEW c \in Calls,
           Connect(c) \/ ConnectFails(c) \/ Repair(c) \/ WakeUp(c)
    PROVE  UNCHANGED Dispenser!vars
<1>1. StatusOf' = StatusOf
  BY DEF IInv, TypeOK, Connect, ConnectFails, Repair, WakeUp, StatusOf, Status, Attempting
<1>2. UNCHANGED <<ticket, era, value, shown, floor>>
  BY DEF Connect, ConnectFails, Repair, WakeUp, dbVars, history
<1>. QED
  BY <1>1, <1>2 DEF StatusOf, Dispenser!vars

LEMMA ReceiveMaps == ASSUME IInv, NEW c \in Calls, Receive(c) PROVE Dispenser!Answer(c)
<1>1. StatusOf' = [StatusOf EXCEPT ![c] = "answered"] /\ StatusOf[c] = "pending"
  BY DEF IInv, TypeOK, Receive, StatusOf, Status, Attempting
<1>. QED
  BY <1>1 DEF Receive, dbVars, StatusOf, Larger, NoTicket,
     Dispenser!Answer, Dispenser!Larger, Dispenser!NoTicket

\* A reply that was on its way is lost with its connection.
LEMMA ConnectionLostMaps ==
    ASSUME IInv, NEW c \in Calls, ConnectionLost(c)
    PROVE  Dispenser!Lose(c) \/ UNCHANGED Dispenser!vars
<1>1. StatusOf' = StatusOf /\ StatusOf[c] = "pending"
  BY DEF IInv, TypeOK, ConnectionLost, StatusOf, Status, Attempting
<1>2. UNCHANGED <<era, value, shown, floor>>
  BY DEF ConnectionLost, history
<1>3. CASE ticket[c] = NoTicket
  <2>1. ticket' = ticket
    BY <1>3 DEF IInv, TypeOK, ConnectionLost
  <2>. QED
    BY <1>1, <1>2, <2>1 DEF StatusOf, Dispenser!vars
<1>4. CASE ticket[c] # NoTicket
  BY <1>1, <1>2, <1>4
     DEF ConnectionLost, StatusOf, NoTicket, Dispenser!Lose, Dispenser!NoTicket
<1>. QED
  BY <1>3, <1>4

LEMMA GiveUpMaps == ASSUME IInv, NEW c \in Calls, GiveUp(c) PROVE Dispenser!Refuse(c)
<1>1. StatusOf' = [StatusOf EXCEPT ![c] = "refused"] /\ StatusOf[c] = "pending"
  BY DEF IInv, TypeOK, GiveUp, StatusOf, Status, Attempting
<1>2. ticket[c] = NoTicket
  BY DEF IInv, GiveUp, TicketsAreReplies
<1>. QED
  BY <1>1, <1>2
     DEF GiveUp, dbVars, history, StatusOf, NoTicket, Dispenser!Refuse, Dispenser!NoTicket

LEMMA AbandonMaps ==
    ASSUME IInv, NEW departing \in SUBSET Calls, Abandon(departing)
    PROVE  Dispenser!Leave(departing)
<1>1. /\ StatusOf' = [c \in Calls |-> IF c \in departing THEN "gone" ELSE StatusOf[c]]
      /\ \A c \in departing : StatusOf[c] = "pending"
  BY DEF IInv, TypeOK, Abandon, StatusOf, Status, Attempting
<1>. QED
  BY <1>1 DEF Abandon, dbVars, history, StatusOf, NoTicket,
     Dispenser!Leave, Dispenser!NoTicket

\* An UPDATE that is awaited hands its number to its task; an orphaned one
\* wastes a number.
LEMMA CommitMaps ==
    ASSUME IInv, NEW s \in wire, Commit(s)
    PROVE  Dispenser!Take(s[1]) \/ Dispenser!Waste
<1>1. s[1] \in Calls /\ s \notin committed
  BY DEF IInv, TypeOK, Statements, StatementsAreAttempts
<1>2. StatusOf' = StatusOf
  BY DEF Commit, StatusOf, Status
<1>3. value < MaxBigint /\ value' = value + 1 /\ UNCHANGED <<era, shown, floor>>
  BY DEF Commit
<1>4. CASE Awaited(s)
  <2>1. StatusOf[s[1]] = "pending"
    BY <1>1, <1>4 DEF Awaited, StatusOf, Status, Attempting
  <2>2. ticket[s[1]] = NoTicket
    BY <1>1, <1>4 DEF IInv, TicketsAreReplies, Awaited
  <2>3. ticket' = [ticket EXCEPT ![s[1]] = [era |-> era, number |-> value + 1]]
    BY <1>4 DEF Commit
  <2>. QED
    BY <1>2, <1>3, <2>1, <2>2, <2>3
       DEF StatusOf, NoTicket, Dispenser!Take, Dispenser!NoTicket
<1>5. CASE ~Awaited(s)
  <2>1. ticket' = ticket
    BY <1>5 DEF Commit
  <2>. QED
    BY <1>2, <1>3, <2>1 DEF StatusOf, Dispenser!Waste
<1>. QED
  BY <1>4, <1>5

LEMMA RejectIsInvisible ==
    ASSUME IInv, NEW s \in wire, Reject(s) PROVE UNCHANGED Dispenser!vars
<1>1. s[1] \in Calls
  BY DEF IInv, TypeOK, Statements
<1>2. StatusOf' = StatusOf
  BY <1>1 DEF IInv, TypeOK, Reject, Awaited, StatusOf, Status, Attempting
<1>. QED
  BY <1>2 DEF Reject, history, StatusOf, Dispenser!vars

\* The database shows only when it loses data, and that starts an era.
LEMMA DatabaseMaps ==
    ASSUME IInv, Open \/ GoDown \/ ComeUp \/ LoseData
    PROVE  Dispenser!StartEra \/ UNCHANGED Dispenser!vars
<1>1. StatusOf' = StatusOf /\ UNCHANGED <<ticket, floor>>
  BY DEF Open, GoDown, ComeUp, LoseData, taskVars, history, StatusOf, Status
<1>2. CASE Open \/ GoDown \/ ComeUp
  BY <1>1, <1>2 DEF Open, GoDown, ComeUp, history, StatusOf, Dispenser!vars
<1>3. CASE LoseData
  <2>1. value' \in 0..value
    BY <1>3, ConstantsAssumption DEF IInv, TypeOK, LoseData
  <2>. QED
    BY <1>1, <1>3, <2>1 DEF LoseData, StatusOf, Dispenser!StartEra
<1>. QED
  BY <1>2, <1>3

LEMMA NextMapsToNext == IInv /\ [Next]_vars => [Dispenser!Next]_(Dispenser!vars)
<1>. SUFFICES ASSUME IInv, [Next]_vars
              PROVE  Dispenser!Next \/ UNCHANGED Dispenser!vars
  OBVIOUS
<1>1. ASSUME NEW c \in Calls, TaskStep(c)
      PROVE  Dispenser!Next \/ UNCHANGED Dispenser!vars
  BY <1>1, BeginMaps, RetryingIsInvisible, ReceiveMaps, ConnectionLostMaps, GiveUpMaps
     DEF TaskStep, Dispenser!Next
<1>2. ASSUME NEW departing \in (SUBSET Calls) \ {{}}, Abandon(departing)
      PROVE  Dispenser!Next
  BY <1>2, AbandonMaps DEF Dispenser!Next
<1>3. ASSUME NEW s \in wire, Commit(s) \/ Reject(s)
      PROVE  Dispenser!Next \/ UNCHANGED Dispenser!vars
  <2>1. s[1] \in Calls
    BY DEF IInv, TypeOK, Statements
  <2>. QED
    BY <1>3, <2>1, CommitMaps, RejectIsInvisible DEF Dispenser!Next
<1>4. CASE Open \/ GoDown \/ ComeUp \/ LoseData
  BY <1>4, DatabaseMaps DEF Dispenser!Next
<1>5. CASE UNCHANGED vars
  BY <1>5 DEF vars, taskVars, dbVars, history, Dispenser!vars, Status
<1>. QED
  BY <1>1, <1>2, <1>3, <1>4, <1>5 DEF Next

\* The adapter implements the port's promise for any number of calls, servers,
\* retries, faults and data losses: every step is a step of the dispenser or
\* invisible to it.
THEOREM Refinement == Spec => ImplementsVisitorCounter
BY InitMapsToInit, NextMapsToNext, InvariantHolds, PTL
   DEF Spec, ImplementsVisitorCounter, Dispenser!Spec

\* VisitorCounter's theorems, read through the refinement mapping.
DispenserProofs == INSTANCE VisitorCounterProofs
    WITH MaxNumber <- MaxBigint,
         status <- [c \in Calls |-> Status(c)],
         last <- value

\* Both instances name the same dispenser.
LEMMA SameDispenser ==
    /\ Dispenser!Init => DispenserProofs!Init
    /\ [Dispenser!Next]_(Dispenser!vars) => [DispenserProofs!Next]_(DispenserProofs!vars)
    /\ DispenserProofs!UniqueNumbers => Dispenser!UniqueNumbers
    /\ DispenserProofs!RealTimeOrder => Dispenser!RealTimeOrder
    /\ DispenserProofs!IInv => TicketsAreCovered
BY DEF Dispenser!RealTimeOrder, DispenserProofs!RealTimeOrder, Dispenser!Precedes,
     DispenserProofs!Precedes, DispenserProofs!IInv, DispenserProofs!TicketsWereIssued,
     TicketsAreCovered, NoTicket,
     Dispenser!UniqueNumbers, DispenserProofs!UniqueNumbers,
     Dispenser!Init, Dispenser!Next, Dispenser!vars, Dispenser!Arrive,
     Dispenser!Take, Dispenser!Lose, Dispenser!Answer, Dispenser!Refuse,
     Dispenser!Leave, Dispenser!Waste, Dispenser!StartEra, Dispenser!Restart,
     Dispenser!NoTicket, Dispenser!Larger, DispenserProofs!Init,
     DispenserProofs!Next, DispenserProofs!vars, DispenserProofs!Arrive,
     DispenserProofs!Take, DispenserProofs!Lose, DispenserProofs!Answer,
     DispenserProofs!Refuse, DispenserProofs!Leave, DispenserProofs!Waste,
     DispenserProofs!StartEra, DispenserProofs!Restart, DispenserProofs!NoTicket,
     DispenserProofs!Larger

LEMMA DispenserSpec == Spec => DispenserProofs!Spec
<1>1. Dispenser!Spec => DispenserProofs!Spec
  BY SameDispenser, PTL DEF Dispenser!Spec, DispenserProofs!Spec
<1>. QED
  BY <1>1, Refinement DEF ImplementsVisitorCounter

\* No two calls return the same number of one era: the refinement carries
\* over the dispenser's theorem.
THEOREM UniqueCountsHolds == Spec => []UniqueCounts
<1>1. DispenserProofs!Spec => []DispenserProofs!UniqueNumbers
  BY DispenserProofs!UniqueNumbersHolds
<1>2. Dispenser!UniqueNumbers => UniqueCounts
  BY DEF Dispenser!UniqueNumbers, UniqueCounts, Status, Attempting
<1>. QED
  BY <1>1, <1>2, DispenserSpec, SameDispenser, PTL

\* Numbers follow the order in which visitors were answered and arrived.
THEOREM NumbersFollowRealTimeHolds == Spec => []NumbersFollowRealTime
<1>1. DispenserProofs!Spec => []DispenserProofs!RealTimeOrder
  BY DispenserProofs!RealTimeOrderHolds
<1>2. Dispenser!RealTimeOrder => NumbersFollowRealTime
  BY DEF Dispenser!RealTimeOrder, NumbersFollowRealTime, Status, Attempting
<1>. QED
  BY <1>1, <1>2, DispenserSpec, SameDispenser, PTL

\* The counter stays at or above every number of its era in a task's hands.
THEOREM TicketsAreCoveredHolds == Spec => []TicketsAreCovered
<1>1. DispenserProofs!Spec => []DispenserProofs!IInv
  BY DispenserProofs!InvariantHolds
<1>. QED
  BY <1>1, DispenserSpec, SameDispenser, PTL
=============================================================================
