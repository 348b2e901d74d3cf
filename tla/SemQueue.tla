------------------------------ MODULE SemQueue ------------------------------
(***************************************************************************)
(* ProducerConsumer of src/Src/Sem-ProdcuerCondumer.cpp: a buffer guarded  *)
(* by a mutex, and two counting semaphores for its free and filled slots.  *)
(* The file has no main; the threads that call produce and consume are     *)
(* modelled as loops of ProduceCount and ConsumeCount calls.               *)
(*                                                                         *)
(* A thread's program counter names the next thing it will do:             *)
(*   "sem"     sem_wait on empty_slots or filled_slots (lines 20 and 28)   *)
(*   "lock"    buffer_mutex.lock()                     (21 and 29)         *)
(*   "push", "front", "pop"  the access to buffer      (22, 30, 31)        *)
(*   "unlock"  buffer_mutex.unlock()                   (23 and 32)         *)
(*   "post"    sem_post on the other semaphore         (24 and 33)         *)
(*   "done"    the thread makes no more calls                              *)
(* sem_wait returns only once it has decremented the semaphore: no signal  *)
(* handler interrupts it (its result is not looked at).                    *)
(***************************************************************************)
EXTENDS Integers, Sequences, FiniteSets

CONSTANTS
  Producers,     \* threads that call produce
  Consumers,     \* threads that call consume
  BUFFER_SIZE,   \* the number of slots
  ProduceCount,  \* the calls of produce by each producer
  ConsumeCount,  \* the calls of consume by each consumer
  NoThread       \* the owner of a mutex that is free

Threads == Producers \cup Consumers

ASSUME SemQueueAssumption ==
  /\ IsFiniteSet(Producers)
  /\ IsFiniteSet(Consumers)
  /\ Producers \cap Consumers = {}
  /\ NoThread \notin Producers \cup Consumers
  /\ BUFFER_SIZE \in Nat \ {0}
  /\ ProduceCount \in Nat
  /\ ConsumeCount \in Nat

VARIABLES
  buffer,        \* the std::queue, oldest item first
  buffer_mutex,  \* the thread that holds the mutex
  empty_slots,   \* the value of the semaphore of free slots
  filled_slots,  \* the value of the semaphore of filled slots
  pc,            \* where each thread is
  calls,         \* the calls each thread has completed
  item,          \* the local item of consume in each consumer
  got            \* the items each consumer has removed, in order (history)

vars == <<buffer, buffer_mutex, empty_slots, filled_slots, pc, calls, item, got>>

Items == Producers \X (0 .. ProduceCount - 1)

\* The argument of produce: distinct for every call.
Datum(p) == <<p, calls[p]>>

Count(t) == IF t \in Producers THEN ProduceCount ELSE ConsumeCount

NextCall(t, n) == IF n < Count(t) THEN "sem" ELSE "done"

\* The constructor, and threads about to make their first call.
Init ==
  /\ buffer = << >>
  /\ buffer_mutex = NoThread
  /\ empty_slots = BUFFER_SIZE
  /\ filled_slots = 0
  /\ calls = [t \in Threads |-> 0]
  /\ pc = [t \in Threads |-> NextCall(t, 0)]
  /\ item = [c \in Consumers |-> << >>]
  /\ got = [c \in Consumers |-> << >>]
-----------------------------------------------------------------------------
Goto(t, from, to) == pc[t] = from /\ pc' = [pc EXCEPT ![t] = to]

\* Mutant: the buffer is accessed without waiting for the mutex.
LockIgnored(t, to) ==
  /\ Goto(t, "lock", to)
  /\ buffer_mutex' = t
  /\ UNCHANGED <<buffer, empty_slots, filled_slots, calls, item, got>>

Lock(t, to) ==
  /\ Goto(t, "lock", to)
  /\ buffer_mutex = NoThread
  /\ buffer_mutex' = t
  /\ UNCHANGED <<buffer, empty_slots, filled_slots, calls, item, got>>

Unlock(t) ==
  /\ Goto(t, "unlock", "post")
  /\ buffer_mutex' = NoThread
  /\ UNCHANGED <<buffer, empty_slots, filled_slots, calls, item, got>>

\* The call returns after its sem_post.
Return(t) ==
  /\ Goto(t, "post", NextCall(t, calls[t] + 1))
  /\ calls' = [calls EXCEPT ![t] = @ + 1]
-----------------------------------------------------------------------------
\* Mutant: the call goes on although sem_wait was interrupted.
WaitEmptySlotInterrupted(p) ==
  /\ Goto(p, "sem", "lock")
  /\ empty_slots' = IF empty_slots > 0 THEN empty_slots - 1 ELSE empty_slots
  /\ UNCHANGED <<buffer, buffer_mutex, filled_slots, calls, item, got>>

WaitEmptySlot(p) ==
  /\ Goto(p, "sem", "lock")
  /\ empty_slots > 0
  /\ empty_slots' = empty_slots - 1
  /\ UNCHANGED <<buffer, buffer_mutex, filled_slots, calls, item, got>>

Push(p) ==
  /\ Goto(p, "push", "unlock")
  /\ buffer' = Append(buffer, Datum(p))
  /\ UNCHANGED <<buffer_mutex, empty_slots, filled_slots, calls, item, got>>

PostFilledSlot(p) ==
  /\ Return(p)
  /\ filled_slots' = filled_slots + 1
  /\ UNCHANGED <<buffer, buffer_mutex, empty_slots, item, got>>

\* Mutant: produce takes the mutex before it waits for a slot.
produceLockFirst(p) ==
  \/ /\ Goto(p, "sem", "lock")
     /\ buffer_mutex = NoThread
     /\ buffer_mutex' = p
     /\ UNCHANGED <<buffer, empty_slots, filled_slots, calls, item, got>>
  \/ /\ Goto(p, "lock", "push")
     /\ empty_slots > 0
     /\ empty_slots' = empty_slots - 1
     /\ UNCHANGED <<buffer, buffer_mutex, filled_slots, calls, item, got>>
  \/ Push(p)
  \/ Unlock(p)
  \/ PostFilledSlot(p)

produce(p) ==
  \/ WaitEmptySlot(p)
  \/ Lock(p, "push")
  \/ Push(p)
  \/ Unlock(p)
  \/ PostFilledSlot(p)
-----------------------------------------------------------------------------
WaitFilledSlot(c) ==
  /\ Goto(c, "sem", "lock")
  /\ filled_slots > 0
  /\ filled_slots' = filled_slots - 1
  /\ UNCHANGED <<buffer, buffer_mutex, empty_slots, calls, item, got>>

Front(c) ==
  /\ Goto(c, "front", "pop")
  /\ item' = [item EXCEPT ![c] = Head(buffer)]
  /\ UNCHANGED <<buffer, buffer_mutex, empty_slots, filled_slots, calls, got>>

Pop(c) ==
  /\ Goto(c, "pop", "unlock")
  /\ buffer' = Tail(buffer)
  /\ got' = [got EXCEPT ![c] = Append(@, item[c])]
  /\ UNCHANGED <<buffer_mutex, empty_slots, filled_slots, calls, item>>

\* Mutant: consume posts the semaphore it waited for.
PostWrongSlot(c) ==
  /\ Return(c)
  /\ filled_slots' = filled_slots + 1
  /\ UNCHANGED <<buffer, buffer_mutex, empty_slots, item, got>>

PostEmptySlot(c) ==
  /\ Return(c)
  /\ empty_slots' = empty_slots + 1
  /\ UNCHANGED <<buffer, buffer_mutex, filled_slots, item, got>>

consume(c) ==
  \/ WaitFilledSlot(c)
  \/ Lock(c, "front")
  \/ Front(c)
  \/ Pop(c)
  \/ Unlock(c)
  \/ PostEmptySlot(c)
-----------------------------------------------------------------------------
Terminating == (\A t \in Threads : pc[t] = "done") /\ UNCHANGED vars

Next ==
  \/ \E p \in Producers : produce(p)
  \/ \E c \in Consumers : consume(c)
  \/ Terminating

Spec == Init /\ [][Next]_vars

\* Every thread that can take a step eventually takes one.
FairSpec ==
  /\ Spec
  /\ \A p \in Producers : WF_vars(produce(p))
  /\ \A c \in Consumers : WF_vars(consume(c))
-----------------------------------------------------------------------------
Places == {"sem", "lock", "push", "front", "pop", "unlock", "post", "done"}

Holding == {"push", "front", "pop", "unlock"}

\* The shape of the state.
TypeOK ==
  /\ buffer \in Seq(Items)
  /\ buffer_mutex \in Threads \cup {NoThread}
  /\ empty_slots \in 0 .. BUFFER_SIZE
  /\ filled_slots \in 0 .. BUFFER_SIZE
  /\ pc \in [Threads -> Places]
  /\ calls \in [Threads -> Nat]
  /\ item \in [Consumers -> Items \cup {<< >>}]
  /\ got \in [Consumers -> Seq(Items)]

\* A slot that no semaphore counts is in the hands of the thread between its
\* sem_wait and its sem_post.
Busy == {"lock", "push", "front", "pop", "unlock", "post"}
SlotsInHand == {t \in Threads : pc[t] \in Busy}

\* No slot is ever lost or counted twice: the two semaphores and the calls in
\* progress together account for all BUFFER_SIZE slots.
EverySlotCounted ==
  empty_slots + filled_slots + Cardinality(SlotsInHand) = BUFFER_SIZE

\* The items not counted by filled_slots: those just pushed and not yet posted,
\* and those a consumer was let in for and has not yet removed.
ItemsInHand ==
  {p \in Producers : pc[p] \in {"unlock", "post"}}
    \cup {c \in Consumers : pc[c] \in {"lock", "front", "pop"}}

\* The semaphores speak the truth about the buffer: it holds the items counted
\* by filled_slots and those in hand. Hence it never outgrows BUFFER_SIZE, and
\* front and pop are never applied to an empty buffer.
BufferMatches == Len(buffer) = filled_slots + Cardinality(ItemsInHand)

Channel == INSTANCE BoundedChannel
  WITH Capacity <- BUFFER_SIZE,
       chan <- buffer,
       sent <- [p \in Producers |->
                  calls[p] + (IF pc[p] \in {"unlock", "post"} THEN 1 ELSE 0)],
       got <- got

\* The semaphore buffer implements the same channel as the monitor of SyncQueue.
Implements == Channel!Spec

\* Every call returns, when as many items are consumed as are produced.
Termination == <>(\A t \in Threads : pc[t] = "done")
=============================================================================
