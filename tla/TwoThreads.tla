----------------------------- MODULE TwoThreads -----------------------------
(***************************************************************************)
(* src/Src/thread.cpp: main starts two threads with pointers to its own    *)
(* local variables, waits for both and closes their handles.               *)
(*                                                                         *)
(* step is where main is: "create", "wait", "close" (with the number of    *)
(* the thread it has come to, in turn), "returned".  A thread has "read"   *)
(* ahead of it (line 7, through the pointer), then "run" with its turns    *)
(* left, and is "over" when its function has returned.  CreateThread may   *)
(* fail; a wait for the NULL handle it gives then returns at once.         *)
(***************************************************************************)
EXTENDS Naturals

CONSTANTS
  NumThreads,   \* two, in the code
  Turns         \* the turns of a thread's loop, five in the code

VARIABLES
  step, turn,   \* where main is
  thread,       \* "none" (not created), "read", "run" or "over"
  left          \* the turns each thread has left

vars == <<step, turn, thread, left>>

Numbers == 1 .. NumThreads

Init ==
  /\ step = "create" /\ turn = 1
  /\ thread = [n \in Numbers |-> "none"]
  /\ left = [n \in Numbers |-> Turns]

\* main has done something for all the threads, or goes on to the next one.
Proceed(from, to) ==
  /\ step = from
  /\ IF turn < NumThreads THEN turn' = turn + 1 /\ UNCHANGED step
     ELSE turn' = 1 /\ step' = to

CreateThread ==
  /\ Proceed("create", "wait")
  /\ \E outcome \in {"read", "none"} : thread' = [thread EXCEPT ![turn] = outcome]
  /\ UNCHANGED left

\* Mutant: main waits for the first thread only.
SignaledFirstOnly(n) == n > 1 \/ thread[n] \in {"none", "over"}

\* What WaitForSingleObject waits for.
Signaled(n) == thread[n] \in {"none", "over"}

WaitForSingleObject ==
  /\ step = "wait"
  /\ Signaled(turn)
  /\ Proceed("wait", "close")
  /\ UNCHANGED <<thread, left>>

CloseHandle == Proceed("close", "returned") /\ UNCHANGED <<thread, left>>

main == CreateThread \/ WaitForSingleObject \/ CloseHandle

\* *(int*)lpParam
ReadParameter(n) ==
  /\ thread[n] = "read"
  /\ thread' = [thread EXCEPT ![n] = "run"]
  /\ UNCHANGED <<step, turn, left>>

Turn(n) ==
  /\ thread[n] = "run"
  /\ left[n] > 0
  /\ left' = [left EXCEPT ![n] = @ - 1]
  /\ UNCHANGED <<step, turn, thread>>

Return(n) ==
  /\ thread[n] = "run"
  /\ left[n] = 0
  /\ thread' = [thread EXCEPT ![n] = "over"]
  /\ UNCHANGED <<step, turn, left>>

ThreadFunction(n) == ReadParameter(n) \/ Turn(n) \/ Return(n)

Exited == step = "returned" /\ UNCHANGED vars

Next == main \/ Exited \/ \E n \in Numbers : ThreadFunction(n)

Spec == Init /\ [][Next]_vars
-----------------------------------------------------------------------------
\* The local variables a thread reads through its pointer still exist, and
\* "Both threads have completed." is true: main is past its waits only when
\* every thread that was created has come to its end.
ParametersAlive ==
  step \in {"close", "returned"} =>
    \A n \in Numbers : thread[n] = "none" \/ (thread[n] = "over" /\ left[n] = 0)
=============================================================================
