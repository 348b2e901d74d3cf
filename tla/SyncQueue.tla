------------------------------ MODULE SyncQueue ------------------------------
(***************************************************************************)
(* sync_queue<T> of src/Src/Synchronization.cpp with its producerthread    *)
(* and consumerthread: a monitor of one mutex and two condition variables. *)
(* BlockingQueue of ProducerConsumer.cpp, swap and misc.txt is the same    *)
(* monitor.                                                                *)
(*                                                                         *)
(* A thread's program counter names the next thing it will do:             *)
(*   "lock"    construct the unique_lock              (lines 78 and 85)    *)
(*   "test"    evaluate the predicate of wait, mutex held    (79 and 86)   *)
(*   "wait"    blocked inside wait, mutex released                         *)
(*   "relock"  woken inside wait, the mutex to be acquired again           *)
(*   "push", "front", "pop"  the access to q          (lines 80, 87, 88)   *)
(*   "notify"  notify_one                             (lines 81 and 89)    *)
(*   "unlock"  the destructor of unique_lock, and the loop of the thread   *)
(*   "done"    the thread function has returned                            *)
(***************************************************************************)
EXTENDS Integers, Sequences, FiniteSets

CONSTANTS
  Producers,     \* threads running producerthread
  Consumers,     \* threads running consumerthread
  Capacity,      \* the constructor's argument
  ProduceCount,  \* the argument count of producerthread
  ConsumeCount,  \* the argument count of consumerthread
  MaxSpurious,   \* bound on the spurious wakeups of a behaviour
  NoThread       \* the owner of a mutex that is free

Threads == Producers \cup Consumers

ASSUME SyncQueueAssumption ==
  /\ IsFiniteSet(Producers)
  /\ IsFiniteSet(Consumers)
  /\ Producers \cap Consumers = {}
  /\ NoThread \notin Producers \cup Consumers
  /\ Capacity \in Nat \ {0}
  /\ ProduceCount \in Nat
  /\ ConsumeCount \in Nat
  /\ MaxSpurious \in Nat

VARIABLES
  q,         \* the std::queue, oldest item first
  mutex,     \* the thread that holds m
  pc,        \* where each thread is
  i,         \* the loop variable of each thread
  item,      \* the local item of pop in each consumer
  got,       \* the items each consumer has removed, in order (history)
  spurious   \* the number of spurious wakeups so far

vars == <<q, mutex, pc, i, item, got, spurious>>

Items == Producers \X (0 .. ProduceCount - 1)

\* The item a producer pushes: its loop variable, tagged with the producer.
Datum(p) == <<p, i[p]>>

Count(t) == IF t \in Producers THEN ProduceCount ELSE ConsumeCount

LoopHead(t, n) == IF n < Count(t) THEN "lock" ELSE "done"

Init ==
  /\ q = << >>
  /\ mutex = NoThread
  /\ i = [t \in Threads |-> 0]
  /\ pc = [t \in Threads |-> LoopHead(t, 0)]
  /\ item = [c \in Consumers |-> << >>]
  /\ got = [c \in Consumers |-> << >>]
  /\ spurious = 0
-----------------------------------------------------------------------------
(* Both waits are wait(lock, pred): while (!pred()) wait(lock).            *)

\* The threads blocked on cond_not_full and on cond_not_empty.
NotFullWaiters == {p \in Producers : pc[p] = "wait"}
NotEmptyWaiters == {c \in Consumers : pc[c] = "wait"}

\* The predicate a thread waits for.
Ready(t) == IF t \in Producers THEN Len(q) < Capacity ELSE q # << >>

\* Where a thread goes once its predicate holds.
Critical(t) == IF t \in Producers THEN "push" ELSE "front"

\* Mutant: a woken thread does not look again (if in place of while).
AcquireWithoutRecheck(t) ==
  /\ pc[t] \in {"lock", "relock"}
  /\ mutex = NoThread
  /\ mutex' = t
  /\ pc' = [pc EXCEPT ![t] = IF pc[t] = "relock" THEN Critical(t) ELSE "test"]
  /\ UNCHANGED <<q, i, item, got, spurious>>

\* The mutex is acquired on entry, and again by a thread that was woken.
Acquire(t) ==
  /\ pc[t] \in {"lock", "relock"}
  /\ mutex = NoThread
  /\ mutex' = t
  /\ pc' = [pc EXCEPT ![t] = "test"]
  /\ UNCHANGED <<q, i, item, got, spurious>>

Proceed(t) ==
  /\ pc[t] = "test"
  /\ Ready(t)
  /\ pc' = [pc EXCEPT ![t] = Critical(t)]
  /\ UNCHANGED <<q, mutex, i, item, got, spurious>>

\* Blocking on the condition variable and releasing the mutex is one step.
Wait(t) ==
  /\ pc[t] = "test"
  /\ ~Ready(t)
  /\ pc' = [pc EXCEPT ![t] = "wait"]
  /\ mutex' = NoThread
  /\ UNCHANGED <<q, i, item, got, spurious>>

\* A wait may return although nobody notified.
SpuriousWakeup(t) ==
  /\ pc[t] = "wait"
  /\ spurious < MaxSpurious
  /\ spurious' = spurious + 1
  /\ pc' = [pc EXCEPT ![t] = "relock"]
  /\ UNCHANGED <<q, mutex, i, item, got>>

\* notify_one wakes one of the blocked threads, whichever the system picks, and
\* does nothing when none is blocked.
NotifyOne(t, waiters) ==
  /\ pc[t] = "notify"
  /\ \/ \E w \in waiters : pc' = [pc EXCEPT ![t] = "unlock", ![w] = "relock"]
     \/ /\ waiters = {}
        /\ pc' = [pc EXCEPT ![t] = "unlock"]
  /\ UNCHANGED <<q, mutex, i, item, got, spurious>>

\* The unique_lock goes out of scope; the thread's loop advances.
Unlock(t) ==
  /\ pc[t] = "unlock"
  /\ mutex' = NoThread
  /\ i' = [i EXCEPT ![t] = @ + 1]
  /\ pc' = [pc EXCEPT ![t] = LoopHead(t, i[t] + 1)]
  /\ UNCHANGED <<q, item, got, spurious>>
-----------------------------------------------------------------------------
(* The accesses to the queue.                                              *)

Push(p) ==
  /\ pc[p] = "push"
  /\ q' = Append(q, Datum(p))
  /\ pc' = [pc EXCEPT ![p] = "notify"]
  /\ UNCHANGED <<mutex, i, item, got, spurious>>

\* Mutant: pop returns the newest item.
FrontNewest(c) ==
  /\ pc[c] = "front"
  /\ item' = [item EXCEPT ![c] = q[Len(q)]]
  /\ pc' = [pc EXCEPT ![c] = "pop"]
  /\ UNCHANGED <<q, mutex, i, got, spurious>>

Front(c) ==
  /\ pc[c] = "front"
  /\ item' = [item EXCEPT ![c] = Head(q)]
  /\ pc' = [pc EXCEPT ![c] = "pop"]
  /\ UNCHANGED <<q, mutex, i, got, spurious>>

\* Mutant: the item is returned and stays in the queue.
PopKeeps(c) ==
  /\ pc[c] = "pop"
  /\ got' = [got EXCEPT ![c] = Append(@, item[c])]
  /\ pc' = [pc EXCEPT ![c] = "notify"]
  /\ UNCHANGED <<q, mutex, i, item, spurious>>

Pop(c) ==
  /\ pc[c] = "pop"
  /\ q' = Tail(q)
  /\ got' = [got EXCEPT ![c] = Append(@, item[c])]
  /\ pc' = [pc EXCEPT ![c] = "notify"]
  /\ UNCHANGED <<mutex, i, item, spurious>>

\* Mutant: push notifies only when the queue was empty before.
NotifyNotEmptyFirstOnly(p) ==
  NotifyOne(p, IF Len(q) = 1 THEN NotEmptyWaiters ELSE {})

\* Mutant: pop notifies the condition variable of the consumers.
NotifyNotFullWrong(c) == NotifyOne(c, NotEmptyWaiters)

NotifyNotEmpty(p) == NotifyOne(p, NotEmptyWaiters)
NotifyNotFull(c) == NotifyOne(c, NotFullWaiters)
-----------------------------------------------------------------------------
Monitor(t) == Acquire(t) \/ Proceed(t) \/ Wait(t) \/ Unlock(t)

producerthread(p) == Monitor(p) \/ Push(p) \/ NotifyNotEmpty(p)

consumerthread(c) == Monitor(c) \/ Front(c) \/ Pop(c) \/ NotifyNotFull(c)

\* main has joined both threads.
Terminating == (\A t \in Threads : pc[t] = "done") /\ UNCHANGED vars

Next ==
  \/ \E p \in Producers : producerthread(p)
  \/ \E c \in Consumers : consumerthread(c)
  \/ \E t \in Threads : SpuriousWakeup(t)
  \/ Terminating

Spec == Init /\ [][Next]_vars

\* The operating system runs every thread that can run. Nothing is assumed of
\* the order in which a free mutex is granted, nor of spurious wakeups.
Fairness ==
  /\ \A p \in Producers : WF_vars(producerthread(p))
  /\ \A c \in Consumers : WF_vars(consumerthread(c))

FairSpec == Spec /\ Fairness
-----------------------------------------------------------------------------
Places == {"lock", "test", "wait", "relock", "push", "front", "pop", "notify",
           "unlock", "done"}

\* The places at which a thread holds the mutex.
Holding == {"test", "push", "front", "pop", "notify", "unlock"}

\* The shape of the state.
TypeOK ==
  /\ q \in Seq(Items)
  /\ mutex \in Threads \cup {NoThread}
  /\ pc \in [Threads -> Places]
  /\ i \in [Threads -> Nat]
  /\ item \in [Consumers -> Items \cup {<< >>}]
  /\ got \in [Consumers -> Seq(Items)]
  /\ spurious \in 0 .. MaxSpurious

\* The queue never outgrows its capacity, and front and pop, which are undefined
\* on an empty std::queue, are never reached with the queue empty: a woken
\* thread looks at the queue again, because another may have got in first.
QueueSafe ==
  /\ Len(q) <= Capacity
  /\ \A c \in Consumers : pc[c] \in {"front", "pop"} => q # << >>

\* The consumers about to look at the queue or to take from it, and the
\* producers about to notify one more.
ItemTakers ==
  {c \in Consumers : pc[c] \in {"relock", "test", "front", "pop"}}
    \cup {p \in Producers : pc[p] = "notify"}

\* The same for a free slot.
SlotTakers ==
  {p \in Producers : pc[p] \in {"relock", "test", "push"}}
    \cup {c \in Consumers : pc[c] = "notify"}

\* One notify_one for each item and each slot is enough: while a thread is
\* blocked, there are no more items (slots) than threads on their way to them,
\* even when a thread that never waited takes the item another was woken for.
NoLostWakeup ==
  /\ NotEmptyWaiters # {} => Len(q) <= Cardinality(ItemTakers)
  /\ NotFullWaiters # {} => Capacity - Len(q) <= Cardinality(SlotTakers)

\* push and pop take effect at one instant, the access to q; push counts as
\* done from there on although its loop variable advances only later.
Sent(p) == i[p] + (IF pc[p] \in {"notify", "unlock"} THEN 1 ELSE 0)

Channel == INSTANCE BoundedChannel
             WITH chan <- q, sent <- [p \in Producers |-> Sent(p)], got <- got

\* The monitor implements the channel: every step inserts, removes or does
\* nothing that shows, and what pop returns is the oldest item.
Implements == Channel!Spec

\* What the threads see of it: items are neither lost, nor handed out twice, nor
\* reordered between one producer and one consumer.
Delivery ==
  /\ Channel!NothingLost
  /\ Channel!DeliveredOnce
  /\ Channel!PerProducerOrder

\* main joins the two threads and returns: as many items are produced as are
\* consumed, so every thread function returns.
Termination == <>(\A t \in Threads : pc[t] = "done")
=============================================================================
