--------------------------- MODULE PriorityTasks ---------------------------
(***************************************************************************)
(* The task list of src/Src/ThreadPriorities.cpp with its producer and     *)
(* consumer threads: a list kept sorted by pushTask, a mutex, and one      *)
(* condition variable on which only consumers wait.                        *)
(*                                                                         *)
(* A thread's program counter names the next thing it will do:             *)
(*   "lock"    construct the unique_lock              (lines 24 and 50)    *)
(*   "insert"  find the place and insert the task     (25-29)              *)
(*   "notify"  cv.notify_one()                        (30)                 *)
(*   "test"    look whether the list is empty         (52)                 *)
(*   "wait"    blocked in cv.wait, mutex released     (53)                 *)
(*   "relock"  woken inside cv.wait, mutex to be acquired again            *)
(*   "take"    front and pop_front                    (56-57)              *)
(*   "unlock"  end of pushTask, lock.unlock(); the loop goes on (31, 58)   *)
(*   "done"    the thread function has returned                            *)
(* std::rand is any priority; output and the pauses are not modelled.      *)
(***************************************************************************)
EXTENDS Naturals, FiniteSets, SequencesExt

CONSTANTS
  Producers,         \* threads running producerFunc
  Consumers,         \* threads running consumerFunc
  tasksPerProducer,
  Priorities,        \* the results of rand() % 100
  MaxSpurious,       \* bound on the spurious wakeups of a behaviour
  NoThread           \* the owner of a mutex that is free

Threads == Producers \cup Consumers

ASSUME PriorityTasksAssumption ==
  /\ IsFiniteSet(Producers) /\ IsFiniteSet(Consumers)
  /\ Consumers # {}
  /\ Producers \cap Consumers = {}
  /\ NoThread \notin Producers \cup Consumers
  /\ tasksPerProducer \in Nat /\ MaxSpurious \in Nat
  /\ Priorities \subseteq Nat

VARIABLES
  taskList,
  mtx,       \* the thread that holds the mutex
  pc,        \* where each thread is
  i,         \* the loop variable of each thread
  prio,      \* the local prio of producerFunc
  arrived,   \* the tasks inserted, in order (history)
  taken,     \* the tasks taken, in order (history)
  spurious   \* the number of spurious wakeups so far

vars == <<taskList, mtx, pc, i, prio, arrived, taken, spurious>>

Names == Producers \X (0 .. tasksPerProducer - 1)

totalTasks == Cardinality(Producers) * tasksPerProducer
perConsumer == totalTasks \div Cardinality(Consumers)

Limit(t) == IF t \in Producers THEN tasksPerProducer ELSE perConsumer

LoopHead(t, n) == IF n < Limit(t) THEN "lock" ELSE "done"

Init ==
  /\ taskList = << >>
  /\ mtx = NoThread
  /\ i = [t \in Threads |-> 0]
  /\ pc = [t \in Threads |-> LoopHead(t, 0)]
  /\ prio \in [Producers -> Priorities]
  /\ arrived = << >> /\ taken = << >>
  /\ spurious = 0
-----------------------------------------------------------------------------
Goto(t, from, to) == pc[t] = from /\ pc' = [pc EXCEPT ![t] = to]

Lock(t, from, to) ==
  /\ Goto(t, from, to)
  /\ mtx = NoThread
  /\ mtx' = t
  /\ UNCHANGED <<taskList, i, prio, arrived, taken, spurious>>

Unlock(t) ==
  /\ Goto(t, "unlock", LoopHead(t, i[t] + 1))
  /\ mtx' = NoThread
  /\ i' = [i EXCEPT ![t] = @ + 1]
  /\ IF t \in Producers
     THEN \E r \in Priorities : prio' = [prio EXCEPT ![t] = r]
     ELSE UNCHANGED prio
  /\ UNCHANGED <<taskList, arrived, taken, spurious>>
-----------------------------------------------------------------------------
\* Mutant: the new task goes before those of its own priority.
PlaceBeforeEqual(priority) ==
  Min({k \in DOMAIN taskList : taskList[k].priority <= priority}
        \cup {Len(taskList) + 1})

\* The first task of lower priority, or the end.
Place(priority) ==
  Min({k \in DOMAIN taskList : taskList[k].priority < priority}
        \cup {Len(taskList) + 1})

Insert(p) ==
  LET task == [name |-> <<p, i[p]>>, priority |-> prio[p]] IN
  /\ Goto(p, "insert", "notify")
  /\ taskList' = InsertAt(taskList, Place(prio[p]), task)
  /\ arrived' = Append(arrived, task)
  /\ UNCHANGED <<mtx, i, prio, taken, spurious>>

Waiters == {c \in Consumers : pc[c] = "wait"}

\* Mutant: a task that is not the only one wakes nobody.
NotifyFirstOnly(p) ==
  /\ \/ \E w \in Waiters : /\ Len(taskList) = 1
                           /\ pc' = [pc EXCEPT ![p] = "unlock", ![w] = "relock"]
     \/ (Waiters = {} \/ Len(taskList) # 1) /\ Goto(p, "notify", "unlock")
  /\ pc[p] = "notify"
  /\ UNCHANGED <<taskList, mtx, i, prio, arrived, taken, spurious>>

\* Mutant: the call of notify_one is missing.
NotifyNobody(p) ==
  /\ Goto(p, "notify", "unlock")
  /\ UNCHANGED <<taskList, mtx, i, prio, arrived, taken, spurious>>

\* notify_one wakes any one of the waiting consumers.
Notify(p) ==
  /\ pc[p] = "notify"
  /\ \/ \E w \in Waiters : pc' = [pc EXCEPT ![p] = "unlock", ![w] = "relock"]
     \/ Waiters = {} /\ pc' = [pc EXCEPT ![p] = "unlock"]
  /\ UNCHANGED <<taskList, mtx, i, prio, arrived, taken, spurious>>

producerFunc(p) == Lock(p, "lock", "insert") \/ Insert(p) \/ Notify(p) \/ Unlock(p)
-----------------------------------------------------------------------------
NotEmpty(c) ==
  /\ taskList # << >>
  /\ Goto(c, "test", "take")
  /\ UNCHANGED <<taskList, mtx, i, prio, arrived, taken, spurious>>

\* Blocking on the condition variable and releasing the mutex is one step.
Wait(c) ==
  /\ taskList = << >>
  /\ Goto(c, "test", "wait")
  /\ mtx' = NoThread
  /\ UNCHANGED <<taskList, i, prio, arrived, taken, spurious>>

SpuriousWakeup(c) ==
  /\ spurious < MaxSpurious
  /\ Goto(c, "wait", "relock")
  /\ spurious' = spurious + 1
  /\ UNCHANGED <<taskList, mtx, i, prio, arrived, taken>>

\* Mutant: the back of the list is taken.
TakeBack(c) ==
  /\ Goto(c, "take", "unlock")
  /\ taken' = Append(taken, taskList[Len(taskList)])
  /\ taskList' = SubSeq(taskList, 1, Len(taskList) - 1)
  /\ UNCHANGED <<mtx, i, prio, arrived, spurious>>

Take(c) ==
  /\ Goto(c, "take", "unlock")
  /\ taken' = Append(taken, Head(taskList))
  /\ taskList' = Tail(taskList)
  /\ UNCHANGED <<mtx, i, prio, arrived, spurious>>

consumerFunc(c) ==
  \/ Lock(c, "lock", "test") \/ Lock(c, "relock", "test")
  \/ NotEmpty(c) \/ Wait(c)
  \/ Take(c)
  \/ Unlock(c)
-----------------------------------------------------------------------------
\* main has joined all threads.
Terminating == (\A t \in Threads : pc[t] = "done") /\ UNCHANGED vars

Next ==
  \/ \E p \in Producers : producerFunc(p)
  \/ \E c \in Consumers : consumerFunc(c) \/ SpuriousWakeup(c)
  \/ Terminating

Spec == Init /\ [][Next]_vars

\* Every thread that can take a step eventually takes one; nothing is assumed of
\* the choices of notify_one and of the mutex, nor of spurious wakeups.
FairSpec ==
  /\ Spec
  /\ \A p \in Producers : WF_vars(producerFunc(p))
  /\ \A c \in Consumers : WF_vars(consumerFunc(c))
-----------------------------------------------------------------------------
Tasks == [name : Names, priority : Priorities]

Places == {"lock", "insert", "notify", "test", "wait", "relock", "take", "unlock",
           "done"}

\* The shape of the state.
TypeOK ==
  /\ taskList \in Seq(Tasks)
  /\ mtx \in Threads \cup {NoThread}
  /\ pc \in [Threads -> Places]
  /\ i \in [Threads -> Nat]
  /\ prio \in [Producers -> Priorities]
  /\ arrived \in Seq(Tasks) /\ taken \in Seq(Tasks)
  /\ spurious \in 0 .. MaxSpurious

Pool == INSTANCE PriorityPool

\* The list holds the tasks inserted and not yet taken, each once, highest
\* priority first and, within one priority, in the order of insertion, while
\* consumers empty it from the front between the insertions.
Sorted ==
  /\ Range(taskList) = Pool!Waiting
  /\ \A j, k \in DOMAIN taskList : j < k => Pool!Precedes(taskList[j], taskList[k])

\* One notify_one for each task is enough: while a consumer waits, there are no
\* more tasks than threads on their way to them. Hence front is never applied to
\* an empty list.
NoLostWakeup ==
  /\ Waiters # {} =>
       Len(taskList) <=
         Cardinality({c \in Consumers : pc[c] \in {"relock", "test", "take"}}
                       \cup {p \in Producers : pc[p] = "notify"})
  /\ \A c \in Consumers : pc[c] = "take" => taskList # << >>

\* The threads implement the pool: the task a consumer gets is the one of
\* highest priority at that moment, the oldest of them.
Implements == Pool!Spec

\* main joins all threads and says "All work done": then the tasks that the
\* integer division of line 74 gave to no consumer, and no others, are left in
\* the list.
Termination ==
  <>(/\ \A t \in Threads : pc[t] = "done"
     /\ Len(taskList) = totalTasks % Cardinality(Consumers))
=============================================================================
