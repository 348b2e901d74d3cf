---------------------------- MODULE PriorityPool ----------------------------
(***************************************************************************)
(* What the task list of src/Src/ThreadPriorities.cpp promises: a pool of  *)
(* tasks in which putting and taking are atomic, and the task taken is the *)
(* one of highest priority, the oldest of them.                            *)
(***************************************************************************)
EXTENDS Naturals, Sequences, Functions

CONSTANTS
  Names,      \* the names of tasks; no name is used twice
  Priorities  \* a set of integers

VARIABLES
  arrived,  \* the tasks put, in order
  taken     \* the tasks taken, in order

Tasks == [name : Names, priority : Priorities]

Waiting == Range(arrived) \ Range(taken)

\* a is taken in preference to b.
Precedes(a, b) ==
  \/ a.priority > b.priority
  \/ /\ a.priority = b.priority
     /\ \E i, j \in DOMAIN arrived : i < j /\ arrived[i] = a /\ arrived[j] = b

Init == arrived = << >> /\ taken = << >>

Put(task) ==
  /\ \A i \in DOMAIN arrived : arrived[i].name # task.name
  /\ arrived' = Append(arrived, task)
  /\ UNCHANGED taken

Take(task) ==
  /\ \A other \in Waiting \ {task} : Precedes(task, other)
  /\ taken' = Append(taken, task)
  /\ UNCHANGED arrived

Next ==
  \/ \E task \in Tasks : Put(task)
  \/ \E task \in Waiting : Take(task)

Spec == Init /\ [][Next]_<<arrived, taken>>
=============================================================================
