------------------------ MODULE PriorityTasksProofs ------------------------
(***************************************************************************)
(* Theorems about PriorityTasks for any number of threads and tasks, any   *)
(* priorities and any number of spurious wakeups.                          *)
(***************************************************************************)
EXTENDS PriorityTasks, SequenceLemmas

\* Where a thread holds the mutex.
Holding == {"insert", "notify", "test", "take", "unlock"}

Exclusion == \A t \in Threads : pc[t] \in Holding <=> mtx = t

\* A thread function that has not returned is inside its loop.
InLoop == \A t \in Threads : pc[t] # "done" => i[t] < Limit(t)

\* What the test under the mutex established still holds at the access.
TakeFindsTask == \A c \in Consumers : pc[c] = "take" => taskList # << >>

\* How many tasks each producer has inserted.
Inserted ==
  [p \in Producers |-> IF pc[p] \in {"notify", "unlock"} THEN i[p] + 1 ELSE i[p]]

\* The next name of a producer is new, no name was used twice, and only tasks
\* that have arrived were taken.
NamesNew ==
  /\ \A k \in 1 .. Len(arrived) :
       arrived[k].name[2] < Inserted[arrived[k].name[1]]
  /\ \A j, k \in 1 .. Len(arrived) : arrived[j].name = arrived[k].name => j = k
  /\ Range(taken) \subseteq Range(arrived)

\* Precedes of the pool, for the tasks arr in the order of arrival.
Ahead(arr, a, b) ==
  \/ a.priority > b.priority
  \/ /\ a.priority = b.priority
     /\ \E j, k \in DOMAIN arr : j < k /\ arr[j] = a /\ arr[k] = b

\* The inductive invariant.
IInv ==
  /\ TypeOK
  /\ Exclusion
  /\ InLoop
  /\ TakeFindsTask
  /\ NamesNew
  /\ Sorted

\* What a sequence of tasks consists of.
LEMMA TaskSequence ==
  ASSUME NEW s \in Seq(Tasks)
  PROVE  /\ Len(s) \in Nat /\ DOMAIN s = 1 .. Len(s)
         /\ \A k \in 1 .. Len(s) :
              /\ s[k] \in Tasks
              /\ s[k].name \in Names /\ s[k].name[1] \in Producers
              /\ s[k].name[2] \in Nat /\ s[k].priority \in Nat
<1>1. Len(s) \in Nat /\ DOMAIN s = 1 .. Len(s) /\ \A k \in 1 .. Len(s) : s[k] \in Tasks
  BY LenProperties, ElementOfSeq
<1>2. \A x \in Tasks : /\ x.name \in Names /\ x.name[1] \in Producers
                       /\ x.name[2] \in Nat /\ x.priority \in Nat
  <2> TAKE x \in Tasks
  <2>1. x.name \in Names /\ x.priority \in Nat
    BY PriorityTasksAssumption DEF Tasks
  <2>2. \A n \in Names : n[1] \in Producers /\ n[2] \in Nat
    BY PriorityTasksAssumption DEF Names
  <2> QED
    BY <2>1, <2>2
<1> QED
  BY <1>1, <1>2

LEMMA InitIInv == Init => IInv
<1> SUFFICES ASSUME Init PROVE IInv
  OBVIOUS
<1> USE PriorityTasksAssumption
<1>1. TypeOK
  BY DEF Init, TypeOK, Threads, Places, LoopHead
<1>2. Exclusion /\ TakeFindsTask
  BY DEF Init, Exclusion, TakeFindsTask, Holding, LoopHead, Threads
<1>3. InLoop
  BY DEF Init, InLoop, LoopHead
<1>4. NamesNew /\ Sorted
  BY DEF Init, NamesNew, Sorted, Pool!Waiting, Range
<1> QED
  BY <1>1, <1>2, <1>3, <1>4 DEF IInv

\* Steps that leave the list and the histories alone.
LEMMA QuietStep ==
  ASSUME IInv, UNCHANGED <<taskList, arrived, taken>>,
         Inserted' = Inserted
  PROVE  NamesNew' /\ Sorted'
<1>1. \A k \in 1 .. Len(arrived) : arrived[k].name[1] \in Producers
  BY TaskSequence DEF IInv, TypeOK
<1> QED
  BY <1>1 DEF IInv, NamesNew, Sorted, Pool!Waiting, Pool!Precedes

\* The place of a new task: those before it have no lower priority, those from
\* there on have a lower one.
LEMMA PlaceProperties ==
  ASSUME TypeOK, Sorted, NEW r \in Priorities
  PROVE  /\ Place(r) \in 1 .. Len(taskList) + 1
         /\ \A k \in 1 .. Len(taskList) :
              /\ k < Place(r) => taskList[k].priority >= r
              /\ k >= Place(r) => taskList[k].priority < r
<1> DEFINE S == {k \in DOMAIN taskList : taskList[k].priority < r}
                  \cup {Len(taskList) + 1}
<1>1. /\ Len(taskList) \in Nat
      /\ DOMAIN taskList = 1 .. Len(taskList)
      /\ \A k \in 1 .. Len(taskList) : taskList[k].priority \in Nat
      /\ r \in Nat
  BY PriorityTasksAssumption, TaskSequence DEF TypeOK
<1>2. Min(S) \in S /\ \A k \in S : Min(S) <= k
  <2>1. S \in SUBSET Nat /\ S # {}
    BY <1>1
  <2> QED
    BY <2>1, MinProperties
<1>3. Place(r) = Min(S)
  BY DEF Place
<1> HIDE DEF S
<1>4. Place(r) \in 1 .. Len(taskList) + 1
  BY <1>1, <1>2, <1>3 DEF S
<1>5. ASSUME NEW k \in 1 .. Len(taskList), k < Place(r)
      PROVE  taskList[k].priority >= r
  BY <1>1, <1>2, <1>3, <1>5, <1>4 DEF S
<1>6. ASSUME NEW k \in 1 .. Len(taskList), k >= Place(r)
      PROVE  taskList[k].priority < r
  <2>1. taskList[Place(r)].priority < r
    BY <1>1, <1>2, <1>3, <1>4, <1>6 DEF S
  <2>2. k = Place(r) \/ Pool!Precedes(taskList[Place(r)], taskList[k])
    BY <1>1, <1>4, <1>6 DEF Sorted
  <2>3. taskList[k].priority <= taskList[Place(r)].priority
    BY <1>1, <1>4, <1>6, <2>2 DEF Pool!Precedes
  <2> QED
    BY <1>1, <1>4, <1>6, <2>1, <2>3
<1> QED
  BY <1>4, <1>5, <1>6

\* What Insert makes of the list and of the tasks that have arrived.
LEMMA InsertStep ==
  ASSUME IInv, NEW p \in Producers, Insert(p)
  PROVE  LET task == [name |-> <<p, i[p]>>, priority |-> prio[p]]
             here == Place(prio[p])
         IN  /\ task \in Tasks
             /\ here \in 1 .. Len(taskList) + 1
             /\ taskList' \in Seq(Tasks) /\ Len(taskList') = Len(taskList) + 1
             /\ \A j \in 1 .. Len(taskList) + 1 :
                  taskList'[j] = IF j < here THEN taskList[j]
                                 ELSE IF j = here THEN task ELSE taskList[j - 1]
             /\ arrived' \in Seq(Tasks) /\ Len(arrived') = Len(arrived) + 1
             /\ \A j \in 1 .. Len(arrived) : arrived'[j] = arrived[j]
             /\ arrived'[Len(arrived) + 1] = task
             /\ \A j \in 1 .. Len(arrived) : arrived[j].name # task.name
<1> DEFINE task == [name |-> <<p, i[p]>>, priority |-> prio[p]]
           here == Place(prio[p])
<1>1. TypeOK /\ InLoop /\ Sorted /\ NamesNew
  BY DEF IInv
<1>2. /\ taskList' = InsertAt(taskList, here, task) /\ arrived' = Append(arrived, task)
  BY DEF Insert, Goto
<1>3. i[p] \in 0 .. tasksPerProducer - 1 /\ prio[p] \in Priorities /\ Inserted[p] = i[p]
  <2>1. pc[p] = "insert"
    BY DEF Insert, Goto
  <2>2. i[p] \in Nat /\ i[p] < tasksPerProducer
    BY <1>1, <2>1 DEF TypeOK, InLoop, Limit, Threads
  <2> QED
    BY <1>1, <2>1, <2>2, PriorityTasksAssumption DEF TypeOK, Inserted
<1>4. task \in Tasks
  BY <1>3 DEF Tasks, Names
<1>5. here \in 1 .. Len(taskList) + 1
  BY <1>1, <1>3, PlaceProperties
<1>6. \A j \in 1 .. Len(arrived) : arrived[j].name # <<p, i[p]>>
  <2> SUFFICES ASSUME NEW j \in 1 .. Len(arrived), arrived[j].name = <<p, i[p]>>
               PROVE  FALSE
    OBVIOUS
  <2>1. i[p] < Inserted[p]
    BY <1>1 DEF NamesNew
  <2> QED
    BY <1>3, <2>1
<1>7. /\ arrived' \in Seq(Tasks) /\ Len(arrived') = Len(arrived) + 1
      /\ \A j \in 1 .. Len(arrived) : arrived'[j] = arrived[j]
      /\ arrived'[Len(arrived) + 1] = task
  <2> HIDE DEF task
  <2> QED
    BY <1>1, <1>2, <1>4, AppendProperties DEF TypeOK
<1>8. /\ taskList' \in Seq(Tasks) /\ Len(taskList') = Len(taskList) + 1
      /\ \A j \in 1 .. Len(taskList) + 1 :
           taskList'[j] = IF j < here THEN taskList[j]
                          ELSE IF j = here THEN task ELSE taskList[j - 1]
  <2> HIDE DEF task, here
  <2>1. taskList \in Seq(Tasks)
    BY <1>1 DEF TypeOK
  <2>2. /\ InsertAt(taskList, here, task) \in Seq(Tasks)
        /\ Len(InsertAt(taskList, here, task)) = Len(taskList) + 1
    BY <1>4, <1>5, <2>1, InsertAtProperties
  <2>3. \A j \in 1 .. Len(taskList) + 1 :
          InsertAt(taskList, here, task)[j] =
            IF j < here THEN taskList[j]
            ELSE IF j = here THEN task ELSE taskList[j - 1]
    BY <1>4, <1>5, <2>1, InsertAtProperties
  <2> QED
    BY <1>2, <2>2, <2>3
<1>9. task.name = <<p, i[p]>>
  OBVIOUS
<1> HIDE DEF task, here
<1>10. /\ task \in Tasks
       /\ here \in 1 .. Len(taskList) + 1
       /\ taskList' \in Seq(Tasks) /\ Len(taskList') = Len(taskList) + 1
       /\ \A j \in 1 .. Len(taskList) + 1 :
            taskList'[j] = IF j < here THEN taskList[j]
                           ELSE IF j = here THEN task ELSE taskList[j - 1]
       /\ arrived' \in Seq(Tasks) /\ Len(arrived') = Len(arrived) + 1
       /\ \A j \in 1 .. Len(arrived) : arrived'[j] = arrived[j]
       /\ arrived'[Len(arrived) + 1] = task
       /\ \A j \in 1 .. Len(arrived) : arrived[j].name # task.name
  BY <1>4, <1>5, <1>6, <1>7, <1>8, <1>9
<1> QED
  BY <1>10 DEF task, here

LEMMA InsertNamesNew ==
  ASSUME IInv, NEW p \in Producers, Insert(p)
  PROVE  NamesNew'
<1> DEFINE task == [name |-> <<p, i[p]>>, priority |-> prio[p]]
           n == Len(arrived)
<1>1. /\ task \in Tasks
      /\ arrived' \in Seq(Tasks) /\ Len(arrived') = n + 1
      /\ \A j \in 1 .. n : arrived'[j] = arrived[j]
      /\ arrived'[n + 1] = task
      /\ \A j \in 1 .. n : arrived[j].name # task.name
  BY InsertStep
<1>2. /\ n \in Nat /\ DOMAIN arrived = 1 .. n /\ DOMAIN arrived' = 1 .. n + 1
      /\ \A k \in 1 .. n : arrived[k].name[1] \in Producers
      /\ i \in [Threads -> Nat] /\ pc \in [Threads -> Places]
      /\ task.name = <<p, i[p]>>
  BY <1>1, TaskSequence DEF IInv, TypeOK
<1> HIDE DEF task, n
<1>3. pc[p] = "insert" /\ pc' = [pc EXCEPT ![p] = "notify"] /\ i' = i /\ taken' = taken
  BY DEF Insert, Goto
<1>4. /\ Inserted'[p] = i[p] + 1
      /\ \A x \in Producers : x # p => Inserted'[x] = Inserted[x]
      /\ i[p] \in Nat /\ Inserted[p] = i[p]
  BY <1>2, <1>3 DEF Inserted, Threads
<1>5. \A k \in 1 .. Len(arrived') : arrived'[k].name[2] < Inserted'[arrived'[k].name[1]]
  <2> TAKE k \in 1 .. Len(arrived')
  <2>1. CASE k = n + 1
    BY <1>1, <1>2, <1>4, <2>1
  <2>2. CASE k \in 1 .. n
    <3>1. arrived[k].name[2] < Inserted[arrived[k].name[1]]
      BY <2>2 DEF IInv, NamesNew, n
    <3>2. arrived[k].name[2] \in Nat
      BY <2>2, TaskSequence DEF IInv, TypeOK, n
    <3>3. CASE arrived[k].name[1] = p
      BY <1>1, <1>4, <2>2, <3>1, <3>2, <3>3
    <3>4. CASE arrived[k].name[1] # p
      BY <1>1, <1>2, <1>4, <2>2, <3>1, <3>4
    <3> QED
      BY <3>3, <3>4
  <2> QED
    BY <1>1, <1>2, <2>1, <2>2
<1>6. \A j, k \in 1 .. Len(arrived') : arrived'[j].name = arrived'[k].name => j = k
  BY <1>1, <1>2 DEF IInv, NamesNew, n
<1>7. Range(taken') \subseteq Range(arrived')
  <2>1. \A k \in DOMAIN arrived : arrived[k] \in Range(arrived')
    BY <1>1, <1>2 DEF Range
  <2> QED
    BY <1>3, <2>1 DEF IInv, NamesNew, Range
<1> QED
  BY <1>5, <1>6, <1>7 DEF NamesNew

LEMMA WaitingAgain ==
  /\ Pool!Waiting = Range(arrived) \ Range(taken)
  /\ Pool!Waiting' = Range(arrived') \ Range(taken')
BY DEF Pool!Waiting, Pool!Range, Range

\* The tasks that wait are those of before and the new one.
LEMMA InsertWaiting ==
  ASSUME IInv, NEW p \in Producers, Insert(p)
  PROVE  /\ Range(taskList') = Range(taskList) \cup {[name |-> <<p, i[p]>>, priority |-> prio[p]]}
         /\ Pool!Waiting' = Pool!Waiting \cup {[name |-> <<p, i[p]>>, priority |-> prio[p]]}
<1> DEFINE task == [name |-> <<p, i[p]>>, priority |-> prio[p]]
           here == Place(prio[p])
<1>1. /\ here \in 1 .. Len(taskList) + 1
      /\ taskList' \in Seq(Tasks) /\ Len(taskList') = Len(taskList) + 1
      /\ \A j \in 1 .. Len(taskList) + 1 :
           taskList'[j] = IF j < here THEN taskList[j]
                          ELSE IF j = here THEN task ELSE taskList[j - 1]
  BY InsertStep
<1>2. /\ arrived' \in Seq(Tasks) /\ Len(arrived') = Len(arrived) + 1
      /\ \A j \in 1 .. Len(arrived) : arrived'[j] = arrived[j]
      /\ arrived'[Len(arrived) + 1] = task
      /\ \A j \in 1 .. Len(arrived) : arrived[j].name # task.name
  BY InsertStep
<1> HIDE DEF task, here
<1>3. /\ Len(taskList) \in Nat /\ DOMAIN taskList = 1 .. Len(taskList)
      /\ Len(arrived) \in Nat /\ DOMAIN arrived = 1 .. Len(arrived)
      /\ DOMAIN taskList' = 1 .. Len(taskList) + 1
      /\ DOMAIN arrived' = 1 .. Len(arrived) + 1
  BY <1>1, <1>2, TaskSequence DEF IInv, TypeOK
<1>4. Range(taskList') = Range(taskList) \cup {task}
  <2>1. \A j \in DOMAIN taskList' : taskList'[j] \in Range(taskList) \cup {task}
    BY <1>1, <1>3 DEF Range
  <2>2. \A j \in DOMAIN taskList : taskList[j] \in Range(taskList')
    <3> TAKE j \in DOMAIN taskList
    <3>1. CASE j < here
      BY <1>1, <1>3, <3>1 DEF Range
    <3>2. CASE j >= here
      <4>1. j + 1 \in DOMAIN taskList' /\ taskList'[j + 1] = taskList[j]
        BY <1>1, <1>3, <3>2
      <4> QED
        BY <4>1 DEF Range
    <3> QED
      BY <1>1, <1>3, <3>1, <3>2
  <2>3. task \in Range(taskList')
    <3>1. here \in DOMAIN taskList' /\ taskList'[here] = task
      BY <1>1, <1>3
    <3> QED
      BY <3>1 DEF Range
  <2> QED
    BY <2>1, <2>2, <2>3 DEF Range
<1>5. Range(arrived') = Range(arrived) \cup {task}
  <2>1. \A j \in DOMAIN arrived' : arrived'[j] \in Range(arrived) \cup {task}
    BY <1>2, <1>3 DEF Range
  <2>2. \A j \in DOMAIN arrived : arrived[j] \in Range(arrived')
    BY <1>2, <1>3 DEF Range
  <2>3. task \in Range(arrived')
    <3>1. Len(arrived) + 1 \in DOMAIN arrived'
      BY <1>3
    <3> QED
      BY <1>2, <3>1 DEF Range
  <2> QED
    BY <2>1, <2>2, <2>3 DEF Range
<1>6. task \notin Range(taken) /\ taken' = taken
  <2>1. task \notin Range(arrived)
    BY <1>2, <1>3 DEF Range
  <2> QED
    BY <2>1 DEF IInv, NamesNew, Insert
<1>7. Pool!Waiting' = Pool!Waiting \cup {task}
  BY <1>5, <1>6, WaitingAgain
<1> QED
  BY <1>4, <1>7 DEF task

\* Sorted, with the tasks that have arrived as a parameter of the order.
LEMMA SortedAgain ==
  /\ Sorted <=> /\ Range(taskList) = Pool!Waiting
                /\ \A j, k \in DOMAIN taskList :
                     j < k => Ahead(arrived, taskList[j], taskList[k])
  /\ Sorted' <=> /\ Range(taskList') = Pool!Waiting'
                 /\ \A j, k \in DOMAIN taskList' :
                      j < k => Ahead(arrived', taskList'[j], taskList'[k])
BY DEF Sorted, Pool!Precedes, Ahead

LEMMA InsertSorted ==
  ASSUME IInv, NEW p \in Producers, Insert(p)
  PROVE  Sorted'
<1> DEFINE task == [name |-> <<p, i[p]>>, priority |-> prio[p]]
           here == Place(prio[p])
           n == Len(arrived)
<1>1. /\ here \in 1 .. Len(taskList) + 1
      /\ taskList' \in Seq(Tasks) /\ Len(taskList') = Len(taskList) + 1
      /\ \A j \in 1 .. Len(taskList) + 1 :
           taskList'[j] = IF j < here THEN taskList[j]
                          ELSE IF j = here THEN task ELSE taskList[j - 1]
  BY InsertStep
<1>2. /\ arrived' \in Seq(Tasks) /\ Len(arrived') = n + 1
      /\ \A j \in 1 .. n : arrived'[j] = arrived[j]
      /\ arrived'[n + 1] = task
      /\ task.priority = prio[p] /\ prio[p] \in Priorities /\ prio[p] \in Nat
  BY InsertStep, PriorityTasksAssumption DEF IInv, TypeOK
<1>3. Range(taskList') = Pool!Waiting'
  BY InsertWaiting DEF IInv, Sorted
<1>4. /\ Len(taskList) \in Nat /\ DOMAIN taskList = 1 .. Len(taskList)
      /\ n \in Nat /\ DOMAIN arrived = 1 .. n
      /\ DOMAIN taskList' = 1 .. Len(taskList) + 1
      /\ DOMAIN arrived' = 1 .. n + 1
      /\ \A k \in 1 .. Len(taskList) : taskList[k].priority \in Nat
  BY <1>1, <1>2, TaskSequence DEF IInv, TypeOK
<1>5. \A k \in 1 .. Len(taskList) :
        /\ k < here => taskList[k].priority >= prio[p]
        /\ k >= here => taskList[k].priority < prio[p]
  BY <1>2, PlaceProperties DEF IInv
<1>6. \A k \in 1 .. Len(taskList) : taskList[k] \in Range(arrived)
  BY <1>4, WaitingAgain DEF IInv, Sorted, Range
<1> HIDE DEF task, here, n
<1>7. \A a, b : Ahead(arrived, a, b) => Ahead(arrived', a, b)
  BY SMTT(30), <1>2, <1>4 DEF Ahead
<1>8. \A k \in 1 .. Len(taskList) : k < here => Ahead(arrived', taskList[k], task)
  <2> SUFFICES ASSUME NEW k \in 1 .. Len(taskList), k < here
               PROVE  Ahead(arrived', taskList[k], task)
    OBVIOUS
  <2>1. CASE taskList[k].priority > prio[p]
    BY <1>2, <2>1 DEF Ahead
  <2>2. CASE taskList[k].priority = prio[p]
    <3>1. PICK m \in 1 .. n : arrived[m] = taskList[k]
      BY <1>4, <1>6 DEF Range
    <3>2. /\ m \in DOMAIN arrived' /\ n + 1 \in DOMAIN arrived' /\ m < n + 1
          /\ arrived'[m] = taskList[k] /\ arrived'[n + 1] = task
      BY <1>2, <1>4, <3>1
    <3> QED
      BY <1>2, <2>2, <3>2 DEF Ahead
  <2> QED
    BY <1>2, <1>4, <1>5, <2>1, <2>2
<1>9. \A k \in 1 .. Len(taskList) : k >= here => Ahead(arrived', task, taskList[k])
  BY <1>2, <1>4, <1>5 DEF Ahead
<1>10. ASSUME NEW j \in DOMAIN taskList', NEW k \in DOMAIN taskList', j < k
       PROVE  Ahead(arrived', taskList'[j], taskList'[k])
  <2>1. \A x, y \in 1 .. Len(taskList) : x < y => Ahead(arrived', taskList[x], taskList[y])
    BY <1>4, <1>7, SortedAgain DEF IInv
  <2>2. CASE k < here
    <3>1. taskList'[j] = taskList[j] /\ taskList'[k] = taskList[k]
      BY <1>1, <1>4, <1>10, <2>2
    <3>2. j \in 1 .. Len(taskList) /\ k \in 1 .. Len(taskList)
      BY <1>1, <1>4, <1>10, <2>2
    <3> QED
      BY <1>10, <2>1, <3>1, <3>2
  <2>3. CASE k = here
    <3>1. taskList'[j] = taskList[j] /\ taskList'[k] = task
      BY <1>1, <1>4, <1>10, <2>3
    <3>2. j \in 1 .. Len(taskList) /\ j < here
      BY <1>1, <1>4, <1>10, <2>3
    <3> QED
      BY <1>8, <3>1, <3>2
  <2>4. CASE k > here
    <3>1. taskList'[k] = taskList[k - 1] /\ k - 1 \in 1 .. Len(taskList) /\ k - 1 >= here
      BY <1>1, <1>4, <2>4
    <3>2. CASE j < here
      <4>1. taskList'[j] = taskList[j] /\ j \in 1 .. Len(taskList) /\ j < k - 1
        BY <1>1, <1>4, <2>4, <3>2
      <4> QED
        BY <2>1, <3>1, <4>1
    <3>3. CASE j = here
      <4>1. taskList'[j] = task
        BY <1>1, <1>4, <3>3
      <4> QED
        BY <1>9, <3>1, <4>1
    <3>4. CASE j > here
      <4>1. taskList'[j] = taskList[j - 1] /\ j - 1 \in 1 .. Len(taskList) /\ j - 1 < k - 1
        BY <1>1, <1>4, <1>10, <3>4
      <4> QED
        BY <2>1, <3>1, <4>1
    <3> QED
      BY <1>1, <1>4, <3>2, <3>3, <3>4
  <2> QED
    BY <1>1, <1>4, <2>2, <2>3, <2>4
<1> QED
  BY <1>3, <1>10, SortedAgain

LEMMA InsertIInv ==
  ASSUME IInv, NEW p \in Producers, Insert(p)
  PROVE  IInv'
<1> USE PriorityTasksAssumption
<1>1. /\ taskList' \in Seq(Tasks) /\ arrived' \in Seq(Tasks) /\ taskList' # << >>
  <2>1. taskList' \in Seq(Tasks) /\ Len(taskList') = Len(taskList) + 1 /\ arrived' \in Seq(Tasks)
    BY InsertStep
  <2>2. Len(taskList) \in Nat
    BY TaskSequence DEF IInv, TypeOK
  <2> QED
    BY <2>1, <2>2, EmptySeq
<1>2. TypeOK'
  BY <1>1 DEF IInv, TypeOK, Insert, Goto, Places, Threads
<1>3. Exclusion' /\ InLoop'
  BY DEF IInv, TypeOK, Exclusion, InLoop, Holding, Insert, Goto, Threads
<1>4. TakeFindsTask'
  BY <1>1 DEF TakeFindsTask
<1> QED
  BY <1>2, <1>3, <1>4, InsertNamesNew, InsertSorted DEF IInv

\* The head of the list is the only place of its task in it.
LEMMA TakeStep ==
  ASSUME IInv, NEW c \in Consumers, Take(c)
  PROVE  /\ taskList # << >> /\ Head(taskList) = taskList[1] /\ Head(taskList) \in Tasks
         /\ taskList' \in Seq(Tasks) /\ Len(taskList') = Len(taskList) - 1
         /\ \A k \in 1 .. Len(taskList) - 1 : taskList'[k] = taskList[k + 1]
         /\ \A k \in 2 .. Len(taskList) :
              /\ taskList[k] # Head(taskList)
              /\ Pool!Precedes(Head(taskList), taskList[k])
<1>1. TypeOK /\ taskList # << >> /\ taskList' = Tail(taskList)
  BY DEF IInv, TakeFindsTask, Take, Goto
<1>2. /\ Head(taskList) = taskList[1] /\ Head(taskList) \in Tasks
      /\ taskList' \in Seq(Tasks) /\ Len(taskList') = Len(taskList) - 1
      /\ \A k \in 1 .. Len(taskList) - 1 : taskList'[k] = taskList[k + 1]
  BY <1>1, HeadTailProperties DEF TypeOK
<1>3. \A k \in 2 .. Len(taskList) : Ahead(arrived, taskList[1], taskList[k])
  BY <1>1, TaskSequence, SortedAgain DEF IInv, TypeOK
<1>4. \A a \in Tasks : ~ Ahead(arrived, a, a)
  <2> SUFFICES ASSUME NEW a \in Tasks, Ahead(arrived, a, a) PROVE FALSE
    OBVIOUS
  <2>1. a.priority \in Nat
    BY PriorityTasksAssumption DEF Tasks
  <2>2. PICK j, k \in DOMAIN arrived : j < k /\ arrived[j] = a /\ arrived[k] = a
    BY <2>1 DEF Ahead
  <2>3. DOMAIN arrived = 1 .. Len(arrived)
    BY <1>1, TaskSequence DEF TypeOK
  <2> QED
    BY <2>2, <2>3 DEF IInv, NamesNew
<1>5. \A k \in 2 .. Len(taskList) : taskList[k] # Head(taskList)
  BY <1>2, <1>3, <1>4
<1>6. \A k \in 2 .. Len(taskList) : Pool!Precedes(Head(taskList), taskList[k])
  BY <1>2, <1>3 DEF Pool!Precedes, Ahead
<1> QED
  BY <1>1, <1>2, <1>5, <1>6

LEMMA TakeIInv ==
  ASSUME IInv, NEW c \in Consumers, Take(c)
  PROVE  IInv'
<1> USE PriorityTasksAssumption
<1> DEFINE h == Head(taskList)
<1>1. /\ taskList # << >> /\ h = taskList[1] /\ h \in Tasks
      /\ taskList' \in Seq(Tasks) /\ Len(taskList') = Len(taskList) - 1
      /\ \A k \in 1 .. Len(taskList) - 1 : taskList'[k] = taskList[k + 1]
      /\ \A k \in 2 .. Len(taskList) : taskList[k] # h
  BY TakeStep
<1>2. /\ Len(taskList) \in Nat \ {0}
      /\ DOMAIN taskList = 1 .. Len(taskList) /\ DOMAIN taskList' = 1 .. Len(taskList) - 1
  BY <1>1, TaskSequence, EmptySeq DEF IInv, TypeOK
<1>3. /\ taken' \in Seq(Tasks) /\ taken' = Append(taken, h)
      /\ arrived' = arrived /\ i' = i /\ pc' = [pc EXCEPT ![c] = "unlock"] /\ pc[c] = "take"
  BY <1>1, AppendProperties DEF IInv, TypeOK, Take, Goto
<1>4. Range(taken') = Range(taken) \cup {h}
  <2>1. /\ Len(taken) \in Nat /\ DOMAIN taken = 1 .. Len(taken)
        /\ DOMAIN taken' = 1 .. Len(taken) + 1 /\ taken'[Len(taken) + 1] = h
        /\ \A k \in 1 .. Len(taken) : taken'[k] = taken[k]
    BY <1>1, <1>3, TaskSequence, AppendProperties DEF IInv, TypeOK
  <2> HIDE DEF h
  <2>2. \A k \in DOMAIN taken' : taken'[k] \in Range(taken) \cup {h}
    BY <2>1 DEF Range
  <2>3. \A k \in DOMAIN taken : taken[k] \in Range(taken')
    BY <2>1 DEF Range
  <2>4. h \in Range(taken')
    <3>1. Len(taken) + 1 \in DOMAIN taken'
      BY <2>1
    <3> QED
      BY <2>1, <3>1 DEF Range
  <2> QED
    BY <2>2, <2>3, <2>4 DEF Range
<1>5. Range(taskList') = Range(taskList) \ {h}
  <2> HIDE DEF h
  <2>1. \A k \in DOMAIN taskList' : taskList'[k] \in Range(taskList) \ {h}
    <3> TAKE k \in DOMAIN taskList'
    <3>1. k + 1 \in DOMAIN taskList /\ k + 1 \in 2 .. Len(taskList)
          /\ taskList'[k] = taskList[k + 1]
      BY <1>1, <1>2
    <3> QED
      BY <1>1, <3>1 DEF Range
  <2>2. \A k \in DOMAIN taskList : taskList[k] = h \/ taskList[k] \in Range(taskList')
    <3> TAKE k \in DOMAIN taskList
    <3>1. CASE k = 1
      BY <1>1, <3>1
    <3>2. CASE k # 1
      <4>1. k - 1 \in DOMAIN taskList' /\ taskList'[k - 1] = taskList[k]
        BY <1>1, <1>2, <3>2
      <4> QED
        BY <4>1 DEF Range
    <3> QED
      BY <3>1, <3>2
  <2> QED
    BY <2>1, <2>2 DEF Range
<1>6. h \in Range(taskList) /\ h \in Range(arrived)
  <2>1. h \in Range(taskList)
    <3>1. 1 \in DOMAIN taskList
      BY <1>2
    <3> QED
      BY <1>1, <3>1 DEF Range
  <2> QED
    BY <2>1, WaitingAgain DEF IInv, Sorted
<1> HIDE DEF h
<1>7. Range(taskList') = Pool!Waiting'
  BY <1>3, <1>4, <1>5, WaitingAgain DEF IInv, Sorted
<1>8. Sorted'
  <2>1. \A j, k \in DOMAIN taskList' : j < k => Ahead(arrived', taskList'[j], taskList'[k])
    <3> SUFFICES ASSUME NEW j \in DOMAIN taskList', NEW k \in DOMAIN taskList', j < k
                 PROVE  Ahead(arrived, taskList[j + 1], taskList[k + 1])
      BY <1>1, <1>2, <1>3
    <3>1. j + 1 \in DOMAIN taskList /\ k + 1 \in DOMAIN taskList /\ j + 1 < k + 1
      BY <1>2
    <3> QED
      BY <3>1, SortedAgain DEF IInv
  <2> QED
    BY <1>7, <2>1, SortedAgain
<1>9. NamesNew'
  <2>1. Inserted' = Inserted
    BY <1>3 DEF Inserted, IInv, TypeOK, Threads
  <2>2. Range(taken') \subseteq Range(arrived')
    BY <1>3, <1>4, <1>6 DEF IInv, NamesNew
  <2> QED
    BY <1>3, <2>1, <2>2 DEF IInv, NamesNew
<1>10. TypeOK'
  BY <1>1, <1>3 DEF IInv, TypeOK, Take, Goto, Places, Threads
<1>11. Exclusion' /\ InLoop'
  BY DEF IInv, TypeOK, Exclusion, InLoop, Holding, Take, Goto, Threads
<1>12. TakeFindsTask'
  BY <1>3 DEF TakeFindsTask, IInv, TypeOK, Exclusion, Holding, Threads
<1> QED
  BY <1>8, <1>9, <1>10, <1>11, <1>12 DEF IInv

LEMMA NextIInv == IInv /\ [Next]_vars => IInv'
<1> SUFFICES ASSUME IInv, [Next]_vars PROVE IInv'
  OBVIOUS
<1> USE PriorityTasksAssumption
\* Every step but Insert and Take leaves the list and the histories alone.
<1>1. ASSUME TypeOK', Exclusion', InLoop', TakeFindsTask',
             UNCHANGED <<taskList, arrived, taken>>, Inserted' = Inserted
      PROVE  IInv'
  BY <1>1, QuietStep DEF IInv
<1>2. ASSUME NEW t \in Threads, NEW to \in {"insert", "test"},
             Lock(t, "lock", to) \/ (to = "test" /\ Lock(t, "relock", to))
      PROVE  IInv'
  <2>1. TypeOK' /\ Exclusion' /\ InLoop' /\ TakeFindsTask'
    BY <1>2 DEF Lock, Goto, IInv, TypeOK, Exclusion, InLoop, TakeFindsTask, Holding,
       Places, Threads
  <2>2. Inserted' = Inserted /\ UNCHANGED <<taskList, arrived, taken>>
    BY <1>2 DEF Lock, Goto, IInv, TypeOK, Inserted, Threads
  <2> QED
    BY <1>1, <2>1, <2>2
<1>3. ASSUME NEW t \in Threads, Unlock(t) PROVE IInv'
  <2> DEFINE to == LoopHead(t, i[t] + 1)
  <2>1. /\ to \in {"lock", "done"} /\ (to = "lock" => i[t] + 1 < Limit(t))
        /\ pc[t] = "unlock" /\ pc' = [pc EXCEPT ![t] = to]
        /\ i' = [i EXCEPT ![t] = i[t] + 1] /\ i[t] + 1 \in Nat
        /\ mtx' = NoThread
        /\ UNCHANGED <<taskList, arrived, taken, spurious>>
    BY <1>3 DEF Unlock, Goto, LoopHead, IInv, TypeOK
  <2> HIDE DEF to
  <2>2. TypeOK'
    <3>1. prio' \in [Producers -> Priorities]
      BY <1>3 DEF Unlock, IInv, TypeOK
    <3>2. pc' \in [Threads -> Places] /\ i' \in [Threads -> Nat]
      BY <2>1 DEF IInv, TypeOK, Places
    <3> QED
      BY <2>1, <3>1, <3>2 DEF IInv, TypeOK
  <2>3. Exclusion' /\ InLoop'
    BY <2>1 DEF IInv, TypeOK, Exclusion, InLoop, Holding, Threads
  <2>4. TakeFindsTask' /\ Inserted' = Inserted
    BY <2>1 DEF IInv, TypeOK, TakeFindsTask, Inserted, Threads
  <2> QED
    BY <1>1, <2>1, <2>2, <2>3, <2>4
<1>4. ASSUME NEW p \in Producers, Notify(p) PROVE IInv'
  <2>1. TypeOK' /\ Exclusion' /\ InLoop' /\ TakeFindsTask'
    BY <1>4 DEF Notify, Waiters, IInv, TypeOK, Exclusion, InLoop, TakeFindsTask,
       Holding, Places, Threads
  <2>2. Inserted' = Inserted /\ UNCHANGED <<taskList, arrived, taken>>
    BY <1>4 DEF Notify, Waiters, IInv, TypeOK, Inserted, Threads
  <2> QED
    BY <1>1, <2>1, <2>2
<1>5. ASSUME NEW c \in Consumers, NotEmpty(c) \/ Wait(c) \/ SpuriousWakeup(c) PROVE IInv'
  <2>1. TypeOK'
    <3>1. pc' \in [Threads -> Places]
      BY <1>5 DEF NotEmpty, Wait, SpuriousWakeup, Goto, IInv, TypeOK, Places
    <3>3. spurious' \in 0 .. MaxSpurious
      BY <1>5 DEF NotEmpty, Wait, SpuriousWakeup, IInv, TypeOK
    <3>2. /\ mtx' \in Threads \cup {NoThread}
          /\ UNCHANGED <<taskList, i, prio, arrived, taken>>
      BY <1>5 DEF NotEmpty, Wait, SpuriousWakeup, IInv, TypeOK
    <3> QED
      BY <3>1, <3>2, <3>3 DEF IInv, TypeOK
  <2>2. Exclusion'
    BY <1>5 DEF NotEmpty, Wait, SpuriousWakeup, Goto, IInv, TypeOK, Exclusion, Holding,
       Threads
  <2>3. InLoop'
    BY <1>5 DEF NotEmpty, Wait, SpuriousWakeup, Goto, IInv, TypeOK, InLoop, Threads
  <2>4. TakeFindsTask'
    BY <1>5 DEF NotEmpty, Wait, SpuriousWakeup, Goto, IInv, TypeOK, TakeFindsTask, Threads
  <2>5. Inserted' = Inserted /\ UNCHANGED <<taskList, arrived, taken>>
    BY <1>5 DEF NotEmpty, Wait, SpuriousWakeup, Goto, IInv, TypeOK, Inserted, Threads
  <2> QED
    BY <1>1, <2>1, <2>2, <2>3, <2>4, <2>5
<1>6. CASE UNCHANGED vars
  <2>1. Inserted' = Inserted
    BY <1>6 DEF vars, Inserted
  <2> QED
    BY <1>1, <1>6, <2>1 DEF vars, IInv, TypeOK, Exclusion, InLoop, TakeFindsTask
<1> QED
  BY <1>2, <1>3, <1>4, <1>5, <1>6, InsertIInv, TakeIInv
  DEF Next, producerFunc, consumerFunc, Terminating, Threads

THEOREM Invariance == Spec => []IInv
BY InitIInv, NextIInv, PTL DEF Spec

\* The state keeps its shape; in particular every task has a name of its own
\* producer and an admissible priority.
THEOREM TypeCorrect == Spec => []TypeOK
BY Invariance, PTL DEF IInv

\* Whatever the producers insert between two accesses of the consumers, the list
\* holds the tasks not yet taken, ordered by priority and by arrival.
THEOREM StaysSorted == Spec => []Sorted
BY Invariance, PTL DEF IInv
-----------------------------------------------------------------------------
(* The implementation of the pool.                                         *)

LEMMA NextImplements == IInv /\ [Next]_vars => [Pool!Next]_(<<arrived, taken>>)
<1> SUFFICES ASSUME IInv, [Next]_vars
             PROVE  Pool!Next \/ UNCHANGED <<arrived, taken>>
  OBVIOUS
<1>1. ASSUME NEW p \in Producers, Insert(p) PROVE Pool!Next
  <2> DEFINE task == [name |-> <<p, i[p]>>, priority |-> prio[p]]
  <2>1. /\ task \in Tasks
        /\ \A j \in 1 .. Len(arrived) : arrived[j].name # task.name
    BY <1>1, InsertStep
  <2>2. DOMAIN arrived = 1 .. Len(arrived)
    BY TaskSequence DEF IInv, TypeOK
  <2>3. Pool!Put(task) /\ task \in Pool!Tasks
    BY <1>1, <2>1, <2>2 DEF Pool!Put, Pool!Tasks, Tasks, Insert
  <2> QED
    BY <2>3 DEF Pool!Next
<1>2. ASSUME NEW c \in Consumers, Take(c) PROVE Pool!Next
  <2>1. /\ Head(taskList) = taskList[1] /\ taskList # << >>
        /\ \A k \in 2 .. Len(taskList) : Pool!Precedes(Head(taskList), taskList[k])
    BY <1>2, TakeStep
  <2>2. DOMAIN taskList = 1 .. Len(taskList) /\ Len(taskList) \in Nat \ {0}
    BY <2>1, TaskSequence, EmptySeq DEF IInv, TypeOK
  <2>3. \A x \in Pool!Waiting : \E k \in 1 .. Len(taskList) : x = taskList[k]
    BY <2>2 DEF IInv, Sorted, Range
  <2>4. Head(taskList) \in Pool!Waiting
    BY <2>1, <2>2 DEF IInv, Sorted, Range
  <2>5. ASSUME NEW x \in Pool!Waiting \ {Head(taskList)}
        PROVE  Pool!Precedes(Head(taskList), x)
    <3>1. PICK k \in 1 .. Len(taskList) : x = taskList[k]
      BY <2>3
    <3>2. k \in 2 .. Len(taskList)
      BY <2>1, <2>2, <3>1
    <3> QED
      BY <2>1, <3>1, <3>2
  <2>6. Pool!Take(Head(taskList))
    BY <1>2, <2>5 DEF Pool!Take, Take
  <2> QED
    BY <2>4, <2>6 DEF Pool!Next
<1> QED
  BY <1>1, <1>2 DEF Next, producerFunc, consumerFunc, Lock, Notify, Unlock, NotEmpty,
     Wait, SpuriousWakeup, Terminating, vars

\* The threads implement the pool: the task a consumer gets is the oldest of
\* those of highest priority, among all that have arrived by then.
THEOREM Refinement == Spec => Implements
<1>1. Init => Pool!Init
  BY DEF Init, Pool!Init
<1> QED
  BY <1>1, Invariance, NextImplements, PTL DEF Spec, Implements, Pool!Spec
-----------------------------------------------------------------------------
(* No wakeup is lost.                                                      *)

\* The threads on their way to a task.
Takers ==
  {c \in Consumers : pc[c] \in {"relock", "test", "take"}}
    \cup {p \in Producers : pc[p] = "notify"}

LEMMA TakersFinite == IsFiniteSet(Takers) /\ Cardinality(Takers) \in Nat
<1>1. IsFiniteSet(Threads)
  BY PriorityTasksAssumption, FS_Union DEF Threads
<1>2. Takers \subseteq Threads
  BY DEF Takers, Threads
<1> QED
  BY <1>1, <1>2, FS_Subset, FS_CardinalityType

LEMMA NextNoLostWakeup ==
  IInv /\ IInv' /\ NoLostWakeup /\ [Next]_vars => NoLostWakeup'
<1> SUFFICES ASSUME IInv, IInv', NoLostWakeup, [Next]_vars PROVE NoLostWakeup'
  OBVIOUS
<1> USE PriorityTasksAssumption
<1>t. TypeOK /\ TypeOK' /\ Len(taskList) \in Nat /\ Len(taskList') \in Nat
  BY LenProperties DEF IInv, TypeOK
<1>f. IsFiniteSet(Takers) /\ Cardinality(Takers) \in Nat
  BY TakersFinite
<1>g. IsFiniteSet(Takers') /\ Cardinality(Takers') \in Nat
  <2>1. IsFiniteSet(Threads) /\ Takers' \subseteq Threads
    BY FS_Union DEF Threads, Takers
  <2> QED
    BY <2>1, FS_Subset, FS_CardinalityType
<1>s. TakeFindsTask' /\ (Waiters # {} => Len(taskList) <= Cardinality(Takers))
  BY DEF IInv, NoLostWakeup, Takers
<1>p. ASSUME Waiters' # {} => Len(taskList') <= Cardinality(Takers')
      PROVE  NoLostWakeup'
  BY <1>s, <1>p DEF NoLostWakeup, Takers, TakeFindsTask
\* Steps that leave the list alone, block nobody and lose no taker.
<1>1. ASSUME taskList' = taskList, Waiters' \subseteq Waiters, Takers \subseteq Takers'
      PROVE  NoLostWakeup'
  <2>1. Cardinality(Takers) <= Cardinality(Takers')
    BY <1>1, <1>g, FS_Subset
  <2> QED
    BY <1>1, <1>f, <1>g, <1>p, <1>s, <1>t, <2>1
<1>2. ASSUME NEW t \in Threads, NEW to \in {"insert", "test"},
             \/ t \in Producers /\ Lock(t, "lock", to)
             \/ t \in Consumers /\ to = "test" /\ Lock(t, "lock", to)
             \/ t \in Consumers /\ to = "test" /\ Lock(t, "relock", to)
             \/ Unlock(t)
             \/ t \in Consumers /\ (NotEmpty(t) \/ SpuriousWakeup(t))
      PROVE  NoLostWakeup'
  <2>1. taskList' = taskList
    BY <1>2 DEF Lock, Unlock, NotEmpty, SpuriousWakeup
  <2>2. Waiters' \subseteq Waiters
    BY <1>2, <1>t DEF Lock, Unlock, NotEmpty, SpuriousWakeup, Goto, LoopHead, TypeOK,
       Waiters, Threads
  <2>3. Takers \subseteq Takers'
    BY <1>2, <1>t DEF Lock, Unlock, NotEmpty, SpuriousWakeup, Goto, LoopHead, TypeOK,
       Takers, Threads
  <2> QED
    BY <1>1, <2>1, <2>2, <2>3
\* A consumer blocks only when there is nothing for it.
<1>3. ASSUME NEW c \in Consumers, Wait(c) PROVE NoLostWakeup'
  <2>1. Len(taskList') = 0
    BY <1>3 DEF Wait
  <2> QED
    BY <2>1, <1>g, <1>p
\* A new task, and its producer as a new taker.
<1>4. ASSUME NEW p \in Producers, Insert(p) PROVE NoLostWakeup'
  <2>1. Len(taskList') = Len(taskList) + 1
    BY <1>4, InsertStep
  <2>2. Waiters' = Waiters /\ p \notin Takers /\ Takers' = Takers \cup {p}
    BY <1>4, <1>t DEF Insert, Goto, TypeOK, Waiters, Takers, Threads
  <2>3. Cardinality(Takers') = Cardinality(Takers) + 1
    BY <2>2, <1>f, FS_AddElement
  <2> QED
    BY <2>1, <2>2, <2>3, <1>f, <1>p, <1>s, <1>t
\* The notifier stops being a taker, the consumer it wakes becomes one.
<1>5. ASSUME NEW p \in Producers, Notify(p) PROVE NoLostWakeup'
  <2>1. taskList' = taskList /\ p \in Takers
    BY <1>5 DEF Notify, Takers
  <2>2. CASE Waiters = {}
    <3>1. Waiters' = {}
      BY <1>5, <1>t, <2>2 DEF Notify, TypeOK, Waiters, Threads
    <3> QED
      BY <3>1, <1>p
  <2>3. CASE Waiters # {}
    <3>1. PICK w \in Waiters : pc' = [pc EXCEPT ![p] = "unlock", ![w] = "relock"]
      BY <1>5, <2>3 DEF Notify
    <3>2. w \notin Takers /\ w # p /\ Takers' = (Takers \ {p}) \cup {w}
      BY <1>5, <1>t, <3>1 DEF Notify, TypeOK, Waiters, Takers, Threads
    <3>3. Cardinality(Takers') = Cardinality(Takers)
      <4>1. /\ IsFiniteSet(Takers \ {p})
            /\ Cardinality(Takers \ {p}) = Cardinality(Takers) - 1
        BY <2>1, <1>f, FS_RemoveElement
      <4>2. Cardinality(Takers') = Cardinality(Takers \ {p}) + 1
        BY <3>2, <4>1, FS_AddElement
      <4> QED
        BY <4>1, <4>2, <1>f
    <3> QED
      BY <2>1, <2>3, <3>3, <1>f, <1>p, <1>s, <1>t
  <2> QED
    BY <2>2, <2>3
\* A taker that takes leaves with its task.
<1>6. ASSUME NEW c \in Consumers, Take(c) PROVE NoLostWakeup'
  <2>1. Len(taskList') = Len(taskList) - 1
    <3>1. taskList # << >> /\ taskList' = Tail(taskList) /\ taskList \in Seq(Tasks)
      BY <1>6, <1>t, TakeStep DEF Take, TypeOK
    <3> QED
      BY <3>1, HeadTailProperties
  <2>2. Waiters' = Waiters /\ c \in Takers /\ Takers' = Takers \ {c}
    BY <1>6, <1>t DEF Take, Goto, TypeOK, Waiters, Takers, Threads
  <2>3. Cardinality(Takers') = Cardinality(Takers) - 1
    BY <2>2, <1>f, FS_RemoveElement
  <2> QED
    BY <2>1, <2>2, <2>3, <1>f, <1>g, <1>p, <1>s, <1>t
<1>7. CASE UNCHANGED vars
  BY <1>7, <1>1 DEF vars, Waiters, Takers
<1> QED
  BY <1>2, <1>3, <1>4, <1>5, <1>6, <1>7
  DEF Next, producerFunc, consumerFunc, Terminating, Threads

\* For every number of threads: while a consumer waits, each task in the list
\* has a thread on its way to it, so that one notify_one for a task is enough.
THEOREM NeverLosesWakeup == Spec => []NoLostWakeup
<1>1. Init => NoLostWakeup
  BY TakersFinite DEF Init, NoLostWakeup, Takers, Waiters, LoopHead, Threads
<1> QED
  BY <1>1, Invariance, NextNoLostWakeup, PTL DEF Spec
=============================================================================
