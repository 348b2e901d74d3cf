--------------------------- MODULE BounceThreads ---------------------------
(***************************************************************************)
(* The threads of src/Src/bufferthread.cpp: main reads keys and starts     *)
(* bouncing threads; the run mutex, which main holds until 'q', tells them *)
(* to go on, and the screen mutex serializes their drawing.                *)
(*                                                                         *)
(* The Win32 objects are modelled from how they are used.  A mutex whose   *)
(* owner has ended is abandoned: the next wait for it succeeds, with a     *)
(* result that is not WAIT_TIMEOUT.  A wait for a handle that is NULL or   *)
(* closed fails at once.  _beginthread returns a handle that the end of    *)
(* the thread closes, or fails and returns -1, which as a handle means the *)
(* process itself: a wait for it lasts as long as the process.             *)
(* When main returns, the process ends with all its threads.               *)
(*                                                                         *)
(* mainPc: "keys" (line 86), "release" (67), "loop" (69), "join" (72),     *)
(* "screen" (76), "clear" (77), "close_screen" (59), "close_run" (60),     *)
(* "exit".  pc of a bouncing thread: "none" not started, "screen" (135),   *)
(* "draw" (137-154), "run" (175), "end" past the loop, "ended".            *)
(* What is drawn and where, and the key 't', are in module BounceMoves;    *)
(* the title is not modelled.                                              *)
(***************************************************************************)
EXTENDS Naturals, FiniteSets

CONSTANTS
  MAX_THREADS,  \* the length of hThreads
  Main, Nobody, \* owners of a mutex other than bouncing threads
  NULL,         \* no handle
  Process       \* the handle of the process

IDs == 1 .. MAX_THREADS

ASSUME BounceThreadsAssumption ==
  /\ MAX_THREADS \in Nat \ {0}
  /\ Main # Nobody /\ {Main, Nobody} \cap IDs = {}
  /\ NULL # Process /\ {NULL, Process} \cap IDs = {}

VARIABLES
  ThreadNr,
  hThreads,      \* the handle in each cell: a thread's number, NULL or Process
  hRunMutex,     \* the owner of the run mutex
  hScreenMutex,  \* the owner of the screen mutex
  open,          \* which of the two mutex handles are open
  mainPc,
  pc,
  started        \* how many threads 'a' has started or failed to start (history)

objects == <<hThreads, hRunMutex, hScreenMutex, open>>
vars == <<ThreadNr, objects, mainPc, pc, started>>

Init ==
  /\ ThreadNr = 0
  /\ hThreads = [i \in 0 .. MAX_THREADS - 1 |-> NULL]
  /\ hRunMutex = Main
  /\ hScreenMutex = Nobody
  /\ open = {"run", "screen"}
  /\ mainPc = "keys"
  /\ pc = [t \in IDs |-> "none"]
  /\ started = 0
-----------------------------------------------------------------------------
MainGoes(from, to) == mainPc = from /\ mainPc' = to

\* hThreads has no cell MAX_THREADS: the handle of the last thread is written
\* behind the array, and lost.
StoreHandle(t, h) ==
  hThreads' = [i \in DOMAIN hThreads |-> IF i = t THEN h ELSE hThreads[i]]

RoomForThread == ThreadNr < MAX_THREADS

\* The key 'a'. Whether the thread could be started is not looked at.
Start ==
  /\ mainPc = "keys"
  /\ RoomForThread
  /\ ThreadNr' = ThreadNr + 1
  /\ \/ /\ StoreHandle(ThreadNr + 1, ThreadNr + 1)
        /\ pc' = [pc EXCEPT ![ThreadNr + 1] = "screen"]
     \/ StoreHandle(ThreadNr + 1, Process) /\ UNCHANGED pc
  /\ started' = started + 1
  /\ UNCHANGED <<hRunMutex, hScreenMutex, open, mainPc>>

\* The key 'q'.
Quit ==
  /\ MainGoes("keys", "release")
  /\ UNCHANGED <<ThreadNr, objects, pc, started>>

ReleaseRun ==
  /\ MainGoes("release", "loop")
  /\ hRunMutex' = Nobody
  /\ UNCHANGED <<ThreadNr, hThreads, hScreenMutex, open, pc, started>>

\* Mutant: the loop stops before the cell of the first thread.
NextJoinStopsEarly ==
  \/ /\ ThreadNr > 2
     /\ MainGoes("loop", "join")
     /\ ThreadNr' = ThreadNr - 1
     /\ UNCHANGED <<objects, pc, started>>
  \/ /\ ThreadNr <= 2
     /\ MainGoes("loop", "screen")
     /\ UNCHANGED <<ThreadNr, objects, pc, started>>

NextJoin ==
  \/ /\ ThreadNr > 0
     /\ MainGoes("loop", "join")
     /\ ThreadNr' = ThreadNr - 1
     /\ UNCHANGED <<objects, pc, started>>
  \/ /\ ThreadNr = 0
     /\ MainGoes("loop", "screen")
     /\ UNCHANGED <<ThreadNr, objects, pc, started>>

\* The wait succeeds when the thread has ended, and fails when there is no
\* handle, as in cell 0. The process does not end before main does.
Signaled(h) == h # NULL => (h \in IDs /\ pc[h] = "ended") = TRUE

Join ==
  /\ MainGoes("join", "loop")
  /\ Signaled(hThreads[ThreadNr])
  /\ UNCHANGED <<ThreadNr, objects, pc, started>>

LockScreen ==
  /\ MainGoes("screen", "clear")
  /\ hScreenMutex = Nobody
  /\ hScreenMutex' = Main
  /\ UNCHANGED <<ThreadNr, hThreads, hRunMutex, open, pc, started>>

\* ShutDown returns without releasing the screen mutex.
ClearScreen ==
  /\ MainGoes("clear", "close_screen")
  /\ UNCHANGED <<ThreadNr, objects, pc, started>>

CloseScreen ==
  /\ MainGoes("close_screen", "close_run")
  /\ open' = open \ {"screen"}
  /\ UNCHANGED <<ThreadNr, hThreads, hRunMutex, hScreenMutex, pc, started>>

CloseRun ==
  /\ MainGoes("close_run", "exit")
  /\ open' = open \ {"run"}
  /\ UNCHANGED <<ThreadNr, hThreads, hRunMutex, hScreenMutex, pc, started>>

ShutDown == ReleaseRun \/ NextJoin \/ Join \/ LockScreen \/ ClearScreen

CleanUp == CloseScreen \/ CloseRun
-----------------------------------------------------------------------------
Goes(t, from, to) ==
  /\ mainPc # "exit"
  /\ pc[t] = from
  /\ pc' = [pc EXCEPT ![t] = to]

\* Mutant: a thread draws without waiting for the screen.
WaitScreenIgnored(t) ==
  /\ Goes(t, "screen", "draw")
  /\ hScreenMutex' = IF hScreenMutex = Nobody THEN t ELSE hScreenMutex
  /\ UNCHANGED <<ThreadNr, hThreads, hRunMutex, open, mainPc, started>>

\* The result of the wait is not looked at: with a closed handle the thread
\* draws without the mutex.
WaitScreen(t) ==
  /\ Goes(t, "screen", "draw")
  /\ \/ /\ "screen" \in open
        /\ hScreenMutex = Nobody
        /\ hScreenMutex' = t
     \/ "screen" \notin open /\ UNCHANGED hScreenMutex
  /\ UNCHANGED <<ThreadNr, hThreads, hRunMutex, open, mainPc, started>>

Draw(t) ==
  /\ Goes(t, "draw", "run")
  /\ hScreenMutex' = IF hScreenMutex = t THEN Nobody ELSE hScreenMutex
  /\ UNCHANGED <<ThreadNr, hThreads, hRunMutex, open, mainPc, started>>

\* WAIT_TIMEOUT: the run mutex is taken, the loop goes on.
Timeout(t) ==
  /\ Goes(t, "run", "screen")
  /\ "run" \in open
  /\ hRunMutex # Nobody
  /\ UNCHANGED <<ThreadNr, objects, mainPc, started>>

\* WAIT_OBJECT_0 or WAIT_ABANDONED, and the thread owns the mutex; or
\* WAIT_FAILED.
Told(t) ==
  /\ Goes(t, "run", "end")
  /\ \/ /\ "run" \in open
        /\ hRunMutex = Nobody
        /\ hRunMutex' = t
     \/ "run" \notin open /\ UNCHANGED hRunMutex
  /\ UNCHANGED <<ThreadNr, hThreads, hScreenMutex, open, mainPc, started>>

\* Mutant: the end of a thread does not free the run mutex.
EndKeepsMutex(t) ==
  /\ Goes(t, "end", "ended")
  /\ UNCHANGED <<ThreadNr, hThreads, hRunMutex, hScreenMutex, open, mainPc, started>>

\* The thread ends and abandons the run mutex.
End(t) ==
  /\ Goes(t, "end", "ended")
  /\ hRunMutex' = IF hRunMutex = t THEN Nobody ELSE hRunMutex
  /\ UNCHANGED <<ThreadNr, hThreads, hScreenMutex, open, mainPc, started>>

BounceProc(t) == WaitScreen(t) \/ Draw(t) \/ Timeout(t) \/ Told(t) \/ End(t)
-----------------------------------------------------------------------------
\* Main waits for the handle of a thread that could not be started.
Stuck == mainPc = "join" /\ hThreads[ThreadNr] = Process /\ UNCHANGED vars

Exited == mainPc = "exit" /\ UNCHANGED vars

Next ==
  \/ Start
  \/ Quit
  \/ ShutDown
  \/ CleanUp
  \/ \E t \in IDs : BounceProc(t)
  \/ Stuck
  \/ Exited

Spec == Init /\ [][Next]_vars

\* Every thread keeps running; nobody has to press a key.
FairSpec ==
  /\ Spec
  /\ WF_vars(ShutDown \/ CleanUp)
  /\ \A t \in IDs : WF_vars(BounceProc(t))
-----------------------------------------------------------------------------
Running(t) == pc[t] \notin {"none", "ended"}

\* The screen is written by one thread at a time, until the process ends: also
\* by the thread that outlives the screen mutex, for which the wait fails.
OneWriter ==
  mainPc # "exit" =>
    Cardinality({t \in IDs : pc[t] = "draw"} \cup
                (IF mainPc = "clear" THEN {Main} ELSE {})) <= 1

\* Past the loop of ShutDown every thread has ended, except the one started
\* last: its cell of hThreads is not waited for, whatever lines 58 and 71 say.
EarlierThreadsDone ==
  mainPc \in {"screen", "clear", "close_screen", "close_run"} =>
    \A t \in IDs : t < started => ~Running(t)

Unstarted == \E i \in 1 .. ThreadNr - 1 : hThreads[i] = Process

\* Once 'q' has been typed the program ends, unless some thread but the last
\* could not be started: then main waits for ever.
QuitEnds ==
  /\ (mainPc = "release" /\ ~Unstarted) ~> (mainPc = "exit")
  /\ (mainPc = "release" /\ Unstarted) ~> [](mainPc = "join")
=============================================================================
