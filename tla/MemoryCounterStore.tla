------------------------- MODULE MemoryCounterStore -------------------------
(***************************************************************************)
(* The in-memory adapter of the port CounterStore: a u64 behind a tokio    *)
(* mutex.  The mutex is external and modelled by its documented contract:  *)
(* waiters queue first come first served; unlocking grants the lock to the *)
(* head of the queue, whose task resumes later; a waiter whose future is   *)
(* dropped leaves the queue, or passes on the lock it was just granted.    *)
(* Once a task holds the lock it increments, reads and unlocks without an  *)
(* await, so its client cannot interrupt it there; other threads can still *)
(* run between these steps.                                                *)
(***************************************************************************)
EXTENDS Naturals, Sequences, FiniteSets, SequencesExt

CONSTANTS Calls,    \* calls of next_visitor_count in the process
          Modulus,  \* the counter is a u64, built in release mode: 2^64
          MaxEra    \* bound: restarts of the process

ASSUME ConstantsAssumption == Modulus \in Nat \ {0} /\ MaxEra \in Nat

VARIABLES pc,       \* pc[c]: where the call stands
          free,     \* the mutex is unlocked
          queue,    \* calls waiting for it, in order
          counter,  \* the protected u64
          ticket,   \* ticket[c]: the number returned, with its era
          era,      \* history: how often the process restarted
          shown,    \* history: the largest number answered in this era
          floor,    \* history: era and shown when the call began
          rank,     \* history: rank[c]: c was the rank-th call to lock
          issued    \* history: increments in this era

mutex == <<free, queue>>
history == <<era, shown, floor, rank, issued>>
vars == <<pc, mutex, counter, ticket, history>>

Holding == {"granted", "locked", "counted"}
States == {"idle", "queued", "answered", "gone"} \cup Holding
Tickets == [era: Nat, number: Nat]
NoTicket == [era |-> 0, number |-> 0]
Larger(m, n) == IF m < n THEN n ELSE m

Init ==
    /\ pc = [c \in Calls |-> "idle"]
    /\ free = TRUE
    /\ queue = <<>>
    /\ counter = 0
    /\ ticket = [c \in Calls |-> NoTicket]
    /\ era = 0
    /\ shown = 0
    /\ floor = [c \in Calls |-> NoTicket]
    /\ rank = [c \in Calls |-> 0]
    /\ issued = 0

-----------------------------------------------------------------------------
\* A mutex that grants the lock to the latest waiter.
UnfairUnlock(c, outcome) ==
    IF queue = <<>>
      THEN /\ free' = TRUE
           /\ pc' = [pc EXCEPT ![c] = outcome]
           /\ UNCHANGED queue
      ELSE /\ pc' = [pc EXCEPT ![c] = outcome, ![queue[Len(queue)]] = "granted"]
           /\ queue' = SubSeq(queue, 1, Len(queue) - 1)
           /\ UNCHANGED free

\* The lock leaves c, which ends in outcome, for the head of the queue.
Unlock(c, outcome) ==
    IF queue = <<>>
      THEN /\ free' = TRUE
           /\ pc' = [pc EXCEPT ![c] = outcome]
           /\ UNCHANGED queue
      ELSE /\ pc' = [pc EXCEPT ![c] = outcome, ![Head(queue)] = "granted"]
           /\ queue' = Tail(queue)
           /\ UNCHANGED free

\* self.counter.lock().await
Lock(c) ==
    /\ pc[c] = "idle"
    /\ IF free
         THEN /\ free' = FALSE
              /\ pc' = [pc EXCEPT ![c] = "locked"]
              /\ UNCHANGED queue
         ELSE /\ queue' = Append(queue, c)
              /\ pc' = [pc EXCEPT ![c] = "queued"]
              /\ UNCHANGED free
    /\ floor' = [floor EXCEPT ![c] = [era |-> era, number |-> shown]]
    /\ rank' = [rank EXCEPT ![c] = Cardinality({d \in Calls : pc[d] # "idle"}) + 1]
    /\ UNCHANGED <<counter, ticket, era, shown, issued>>

\* The runtime polls the task that was granted the lock.
Resume(c) ==
    /\ pc[c] = "granted"
    /\ pc' = [pc EXCEPT ![c] = "locked"]
    /\ UNCHANGED <<mutex, counter, ticket, history>>

\* A faulty counter, narrower than its type.
NarrowIncrement(c) ==
    /\ pc[c] = "locked"
    /\ counter' = (counter + 1) % (Modulus - 1)
    /\ issued' = issued + 1
    /\ pc' = [pc EXCEPT ![c] = "counted"]
    /\ UNCHANGED <<mutex, ticket, era, shown, floor, rank>>

\* *counter += 1
Increment(c) ==
    /\ pc[c] = "locked"
    /\ counter' = (counter + 1) % Modulus
    /\ issued' = issued + 1
    /\ pc' = [pc EXCEPT ![c] = "counted"]
    /\ UNCHANGED <<mutex, ticket, era, shown, floor, rank>>

\* A return that does not hand the lock on.
ForgetfulReturn(c) ==
    /\ pc[c] = "counted"
    /\ ticket' = [ticket EXCEPT ![c] = [era |-> era, number |-> counter]]
    /\ shown' = Larger(shown, counter)
    /\ pc' = [pc EXCEPT ![c] = "answered"]
    /\ free' = (queue = <<>>)
    /\ UNCHANGED <<queue, counter, era, floor, rank, issued>>

\* Ok(*counter), and the guard is dropped.
Return(c) ==
    /\ pc[c] = "counted"
    /\ ticket' = [ticket EXCEPT ![c] = [era |-> era, number |-> counter]]
    /\ shown' = Larger(shown, counter)
    /\ Unlock(c, "answered")
    /\ UNCHANGED <<counter, era, floor, rank, issued>>

\* A mutex that forgets a lock granted to a task that is gone.
LeakyCancel(c) ==
    /\ pc[c] \in {"queued", "granted"}
    /\ pc' = [pc EXCEPT ![c] = "gone"]
    /\ queue' = SelectSeq(queue, LAMBDA d : d # c)
    /\ UNCHANGED <<free, counter, ticket, history>>

\* The client disconnects while the task awaits the lock.
Cancel(c) ==
    /\ \/ /\ pc[c] = "queued"
          /\ pc' = [pc EXCEPT ![c] = "gone"]
          /\ \E i \in 1..Len(queue) :
               queue[i] = c /\ queue' = RemoveAt(queue, i)
          /\ UNCHANGED free
       \/ /\ pc[c] = "granted"
          /\ Unlock(c, "gone")
    /\ UNCHANGED <<counter, ticket, history>>

\* The process dies and starts again with MemoryCounterStore::default().
Restart ==
    /\ era < MaxEra
    /\ era' = era + 1
    /\ pc' = [c \in Calls |->
                IF pc[c] \in Holding \cup {"queued"} THEN "gone" ELSE pc[c]]
    /\ free' = TRUE
    /\ queue' = <<>>
    /\ counter' = 0
    /\ shown' = 0
    /\ issued' = 0
    /\ UNCHANGED <<ticket, floor, rank>>

Next ==
    \/ \E c \in Calls : \/ Lock(c)
                        \/ Resume(c)
                        \/ Increment(c)
                        \/ Return(c)
                        \/ Cancel(c)
    \/ Restart

Spec == Init /\ [][Next]_vars

\* The runtime polls tasks that can proceed; clients need not call.
Fairness ==
    \A c \in Calls : WF_vars(Resume(c)) /\ WF_vars(Increment(c)) /\ WF_vars(Return(c))

FairSpec == Spec /\ Fairness

-----------------------------------------------------------------------------
TypeOK ==
    /\ pc \in [Calls -> States]
    /\ free \in BOOLEAN
    /\ queue \in Seq(Calls)
    /\ counter \in 0..(Modulus - 1)
    /\ ticket \in [Calls -> Tickets]
    /\ era \in 0..MaxEra
    /\ shown \in Nat
    /\ floor \in [Calls -> Tickets]
    /\ rank \in [Calls -> Nat]
    /\ issued \in Nat

\* The lock is never lost nor held twice, also when a waiter disconnects just
\* after it was granted the lock; and whoever waits is in the queue.
LockIsConserved ==
    /\ Cardinality({c \in Calls : pc[c] \in Holding}) = IF free THEN 0 ELSE 1
    /\ free => queue = <<>>
    /\ {queue[i] : i \in 1..Len(queue)} = {c \in Calls : pc[c] = "queued"}

\* Until the u64 wraps, the visitors of one process are numbered in the order
\* in which they came, whoever leaves the queue in between (lib.rs:20-25).
FirstComeFirstServed ==
    \A c, d \in Calls :
        /\ issued < Modulus
        /\ pc[c] = "answered" /\ pc[d] = "answered"
        /\ ticket[c].era = era /\ ticket[d].era = era
        /\ rank[c] < rank[d]
        => ticket[c].number < ticket[d].number

\* Every call that asks for the lock returns, whoever disconnects before it.
EveryCallReturns ==
    \A c \in Calls : pc[c] = "queued" ~> pc[c] \in {"answered", "gone"}

-----------------------------------------------------------------------------
(* Why LockIsConserved and FirstComeFirstServed hold. *)

Arrived == {c \in Calls : pc[c] # "idle"}
Contending == Holding \cup {"queued"}
Served(c) == pc[c] = "answered" /\ ticket[c].era = era

\* One call holds the lock exactly when it is not free.
OneHolder ==
    /\ \A c, d \in Calls : pc[c] \in Holding /\ pc[d] \in Holding => c = d
    /\ free <=> \A c \in Calls : pc[c] \notin Holding
    /\ free => queue = <<>>

\* The queue has every waiter once, in the order in which they came.
QueueIsInOrder ==
    /\ \A i \in 1..Len(queue) : pc[queue[i]] = "queued"
    /\ \A c \in Calls :
         pc[c] = "queued" => \E i \in 1..Len(queue) : queue[i] = c
    /\ \A i, j \in 1..Len(queue) : i < j => rank[queue[i]] < rank[queue[j]]

\* Who was served came before who holds the lock, and that one before who
\* waits for it.
RanksAreInOrder ==
    /\ IsFiniteSet(Arrived)
    /\ \A c \in Arrived : rank[c] <= Cardinality(Arrived)
    /\ \A c, d \in Calls :
         pc[c] \in Holding /\ pc[d] = "queued" => rank[c] < rank[d]
    /\ \A c, d \in Calls :
         Served(c) /\ pc[d] \in Contending => rank[c] < rank[d]

\* The counter is what was served last, or one more when its holder has
\* counted.
NumbersAreInOrder ==
    /\ \A c \in Calls : /\ pc[c] # "answered" => ticket[c] = NoTicket
                        /\ ticket[c].era <= era
    /\ issued < Modulus =>
         /\ counter = issued
         /\ \A c \in Calls : Served(c) => ticket[c].number <= counter
         /\ \A d \in Calls : pc[d] = "counted" =>
              /\ counter > 0
              /\ \A c \in Calls : Served(c) => ticket[c].number < counter

IInv ==
    /\ TypeOK
    /\ OneHolder
    /\ QueueIsInOrder
    /\ RanksAreInOrder
    /\ NumbersAreInOrder
    /\ FirstComeFirstServed
-----------------------------------------------------------------------------
(* Until the u64 wraps, the store implements the promise of the port.  A   *)
(* call takes its number when it increments.                               *)

Status(c) ==
    IF pc[c] \in Holding \cup {"queued"} THEN "pending" ELSE pc[c]

Taken(c) ==
    IF pc[c] = "counted" THEN [era |-> era, number |-> counter] ELSE ticket[c]

Dispenser == INSTANCE VisitorCounter
    WITH MaxNumber <- Modulus - 1,
         status <- [c \in Calls |-> Status(c)],
         ticket <- [c \in Calls |-> Taken(c)],
         last <- counter

\* Locking, incrementing, returning, disconnecting and restarting are steps
\* of VisitorCounter or invisible to it, until an increment wraps.
ImplementsVisitorCounter ==
    /\ Dispenser!Init
    /\ [][issued' < Modulus => Dispenser!Next]_(Dispenser!vars)
=============================================================================
