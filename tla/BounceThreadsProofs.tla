------------------------ MODULE BounceThreadsProofs ------------------------
(***************************************************************************)
(* Theorems about BounceThreads for any length of hThreads.                *)
(***************************************************************************)
EXTENDS BounceThreads, FiniteSetTheorems, TLAPS

MainPlaces == {"keys", "release", "loop", "join", "screen", "clear", "close_screen",
               "close_run", "exit"}

Places == {"none", "screen", "draw", "run", "end", "ended"}

Types ==
  /\ ThreadNr \in 0 .. MAX_THREADS
  /\ started \in 0 .. MAX_THREADS
  /\ hThreads \in [0 .. MAX_THREADS - 1 -> IDs \cup {NULL, Process}]
  /\ mainPc \in MainPlaces
  /\ pc \in [IDs -> Places]

\* While keys are read ThreadNr counts the threads; the loop of ShutDown only
\* counts down.
Counted ==
  /\ ThreadNr <= started
  /\ mainPc \in {"keys", "release"} => ThreadNr = started
  /\ \A t \in IDs : t > started => pc[t] = "none"

\* A thread that was started left its handle in its cell, if it has one; cell 0
\* stays empty.
Handles ==
  /\ hThreads[0] = NULL
  /\ \A t \in 1 .. MAX_THREADS - 1 : pc[t] # "none" => hThreads[t] = t

\* The loop has waited for the threads of the cells from the last but one that
\* was started down to the one that it looked at last; "join" is still to do.
Joined ==
  /\ mainPc \notin {"keys", "release", "join"} =>
       \A t \in IDs : ThreadNr <= t /\ t < started => ~Running(t)
  /\ mainPc = "join" =>
       \A t \in IDs : ThreadNr < t /\ t < started => ~Running(t)
  /\ mainPc \in {"screen", "clear", "close_screen", "close_run", "exit"} => ThreadNr = 0

Closed == mainPc \in {"close_run", "exit"}

\* The screen mutex says who draws as long as its handle is open; afterwards
\* only the thread that nobody waited for can draw.
ScreenOwner ==
  /\ "screen" \in open <=> ~Closed
  /\ ~Closed => \A t \in IDs : pc[t] = "draw" => hScreenMutex = t
  /\ mainPc \in {"clear", "close_screen"} => hScreenMutex = Main
  /\ Closed => \A t \in IDs : pc[t] = "draw" => t = started

\* The inductive invariant.
IInv == Types /\ Counted /\ Handles /\ Joined /\ ScreenOwner

LEMMA InitIInv == Init => IInv
BY BounceThreadsAssumption
DEF Init, IInv, Types, MainPlaces, Places, Counted, Handles, Joined,
    ScreenOwner, Closed, IDs

LEMMA Numbers ==
  ASSUME IInv
  PROVE  /\ ThreadNr \in Nat /\ started \in Nat
         /\ \A t \in IDs : t \in Nat /\ t > 0
BY BounceThreadsAssumption DEF IInv, Types, IDs

\* A step of a bouncing thread neither starts nor revives a thread.
LEMMA ThreadStep ==
  ASSUME IInv, NEW t \in IDs, BounceProc(t)
  PROVE  /\ UNCHANGED <<ThreadNr, hThreads, open, mainPc, started>>
         /\ Running(t)
         /\ \E to \in Places \ {"none"} :
              /\ pc' = [pc EXCEPT ![t] = to]
              /\ to = "draw" => pc[t] = "screen"
         /\ mainPc # "exit"
BY DEF BounceProc, WaitScreen, Draw, Timeout, Told, End, Goes, objects, Running, Places

LEMMA ThreadIInv ==
  ASSUME IInv, NEW t \in IDs, BounceProc(t)
  PROVE  IInv'
<1> USE BounceThreadsAssumption
<1>1. PICK to \in Places \ {"none"} :
        pc' = [pc EXCEPT ![t] = to] /\ (to = "draw" => pc[t] = "screen")
  BY ThreadStep
<1>2. /\ UNCHANGED <<ThreadNr, hThreads, open, mainPc, started>>
      /\ Running(t) /\ mainPc # "exit"
  BY ThreadStep
<1>3. Types'
  BY <1>1, <1>2 DEF IInv, Types
<1>4. Counted'
  BY <1>1, <1>2 DEF IInv, Types, Counted, Running
<1>5. Handles'
  BY <1>1, <1>2 DEF IInv, Types, Handles, Running, IDs
<1>6. Joined'
  BY <1>1, <1>2 DEF IInv, Types, Joined, Running
<1>7. ScreenOwner'
  <2>1. mainPc \in {"clear", "close_screen"} => hScreenMutex' = Main
    BY <1>1, <1>2 DEF BounceProc, WaitScreen, Draw, Timeout, Told, End, Goes, objects,
       IInv, Types, ScreenOwner, Closed
  <2>2. ASSUME ~Closed, NEW u \in IDs, pc'[u] = "draw" PROVE hScreenMutex' = u
    <3>1. CASE u = t
      BY <1>1, <1>2, <2>2, <3>1
      DEF BounceProc, WaitScreen, Draw, Timeout, Told, End, Goes, IInv, Types, ScreenOwner
    <3>2. CASE u # t
      <4>1. pc[u] = "draw" /\ hScreenMutex = u /\ "screen" \in open
        BY <1>1, <2>2, <3>2 DEF IInv, Types, ScreenOwner
      <4> QED
        BY <2>2, <3>2, <4>1 DEF BounceProc, WaitScreen, Draw, Timeout, Told, End, objects
    <3> QED
      BY <3>1, <3>2
  <2>3. ASSUME Closed, NEW u \in IDs, pc'[u] = "draw" PROVE u = started
    <3>1. CASE pc[u] = "draw"
      BY <2>3, <3>1 DEF IInv, ScreenOwner
    <3>2. CASE pc[u] # "draw"
      <4>1. u = t
        BY <1>1, <2>3, <3>2 DEF IInv, Types
      <4>2. u >= started
        <5>1. ThreadNr = 0
          BY <2>3 DEF IInv, Joined, Closed
        <5>2. ThreadNr <= t /\ t < started => ~Running(t)
          BY <2>3 DEF IInv, Joined, Closed
        <5> QED
          BY <1>2, <4>1, <5>1, <5>2, Numbers
      <4>3. u <= started
        BY <1>2, <4>1 DEF IInv, Types, Counted, Running, IDs
      <4> QED
        BY <4>2, <4>3 DEF IInv, Types, IDs
    <3> QED
      BY <3>1, <3>2
  <2> QED
    BY <1>2, <2>1, <2>2, <2>3 DEF IInv, ScreenOwner, Closed
<1> QED
  BY <1>3, <1>4, <1>5, <1>6, <1>7 DEF IInv

\* The wait for a cell that is not NULL, nor the process, is for the end of the
\* thread with its number.
LEMMA JoinIInv ==
  ASSUME IInv, Join
  PROVE  IInv'
<1> USE BounceThreadsAssumption
<1>1. /\ mainPc = "join" /\ mainPc' = "loop" /\ Signaled(hThreads[ThreadNr])
      /\ UNCHANGED <<ThreadNr, hThreads, hScreenMutex, open, pc, started>>
  BY DEF Join, MainGoes, objects
<1>2. Joined'
  <2> SUFFICES ASSUME NEW t \in IDs, ThreadNr <= t, t < started PROVE ~Running(t)
    BY <1>1 DEF Joined, Running
  <2>1. CASE t = ThreadNr
    <3>1. t \in 1 .. MAX_THREADS - 1
      BY DEF IInv, Types, IDs
    <3>2. pc[t] # "none" => pc[t] = "ended"
      BY <1>1, <2>1, <3>1 DEF IInv, Handles, Signaled, IDs
    <3> QED
      BY <3>2 DEF Running
  <2>2. CASE t # ThreadNr
    BY <1>1, <2>2 DEF IInv, Types, Joined, IDs
  <2> QED
    BY <2>1, <2>2
<1>3. Types' /\ Counted' /\ Handles' /\ ScreenOwner'
  BY <1>1 DEF IInv, Types, MainPlaces, Counted, Handles, ScreenOwner, Closed
<1> QED
  BY <1>2, <1>3 DEF IInv

LEMMA NextIInv == IInv /\ [Next]_vars => IInv'
<1> SUFFICES ASSUME IInv, [Next]_vars PROVE IInv'
  OBVIOUS
<1> USE BounceThreadsAssumption
<1>1. CASE Start
  <2> DEFINE n == ThreadNr + 1
  <2>1. /\ mainPc = "keys" /\ n \in IDs /\ n = started + 1
        /\ started' = n /\ ThreadNr' = n /\ UNCHANGED <<hScreenMutex, open, mainPc>>
    BY <1>1 DEF Start, RoomForThread, IInv, Types, Counted, IDs
  <2>2. PICK h \in IDs \cup {Process} :
          /\ hThreads' = [i \in 0 .. MAX_THREADS - 1 |-> IF i = n THEN h ELSE hThreads[i]]
          /\ \/ h = n /\ pc' = [pc EXCEPT ![n] = "screen"]
             \/ h = Process /\ pc' = pc
    BY <1>1, <2>1 DEF Start, StoreHandle, IInv, Types
  <2>3. pc[n] = "none"
    BY <2>1 DEF IInv, Counted, Types
  <2> HIDE DEF n
  <2>4. Types'
    <3>1. hThreads' \in [0 .. MAX_THREADS - 1 -> IDs \cup {NULL, Process}]
      BY <2>2 DEF IInv, Types
    <3> QED
      BY <2>1, <2>2, <3>1 DEF IInv, Types, Places, IDs
  <2>5. Counted'
    BY <2>1, <2>2 DEF IInv, Types, Counted, IDs
  <2>6. Handles'
    <3>1. hThreads'[0] = NULL
      BY <2>1, <2>2 DEF IInv, Handles, IDs
    <3>2. ASSUME NEW t \in 1 .. MAX_THREADS - 1, pc'[t] # "none"
          PROVE  hThreads'[t] = t
      <4>1. CASE t = n
        BY <2>2, <2>3, <3>2, <4>1
      <4>2. CASE t # n
        BY <2>2, <3>2, <4>2 DEF IInv, Types, Handles, IDs
      <4> QED
        BY <4>1, <4>2
    <3> QED
      BY <3>1, <3>2 DEF Handles
  <2>7. Joined'
    BY <2>1, <2>2 DEF IInv, Types, Joined, IDs
  <2>8. ScreenOwner'
    BY <2>1, <2>2 DEF IInv, Types, ScreenOwner, Closed, IDs
  <2> QED
    BY <2>4, <2>5, <2>6, <2>7, <2>8 DEF IInv
<1>2. CASE Quit \/ ReleaseRun
  <2>1. /\ UNCHANGED <<ThreadNr, hThreads, hScreenMutex, open, pc, started>>
        /\ \/ mainPc = "keys" /\ mainPc' = "release"
           \/ mainPc = "release" /\ mainPc' = "loop"
    BY <1>2 DEF Quit, ReleaseRun, MainGoes, objects
  <2>2. Types' /\ Counted'
    BY <2>1 DEF IInv, Types, MainPlaces, Counted
  <2>3. Handles' /\ ScreenOwner'
    BY <2>1 DEF IInv, Handles, ScreenOwner, Closed
  <2>4. Joined'
    <3>1. ThreadNr = started
      BY <2>1 DEF IInv, Counted
    <3>2. \A t \in IDs : ~(ThreadNr <= t /\ t < started)
      BY <3>1, Numbers
    <3> QED
      BY <2>1, <3>2 DEF Joined
  <2> QED
    BY <2>2, <2>3, <2>4 DEF IInv
<1>3. CASE NextJoin
  <2>1. /\ mainPc = "loop" /\ UNCHANGED <<hThreads, hScreenMutex, open, pc, started>>
        /\ \/ ThreadNr > 0 /\ mainPc' = "join" /\ ThreadNr' = ThreadNr - 1
           \/ ThreadNr = 0 /\ mainPc' = "screen" /\ ThreadNr' = ThreadNr
    BY <1>3 DEF NextJoin, MainGoes, objects
  <2>2. Types'
    <3>1. ThreadNr' \in 0 .. MAX_THREADS
      BY <2>1 DEF IInv, Types
    <3>2. mainPc' \in MainPlaces
      BY <2>1 DEF MainPlaces
    <3> QED
      BY <2>1, <3>1, <3>2 DEF IInv, Types
  <2>3. Counted'
    BY <2>1, Numbers DEF IInv, Counted
  <2>4. Handles' /\ ScreenOwner'
    BY <2>1 DEF IInv, Handles, ScreenOwner, Closed
  <2>5. Joined'
    <3>1. CASE ThreadNr = 0
      BY <2>1, <3>1, Numbers DEF IInv, Joined, Running
    <3>2. CASE ThreadNr > 0
      <4>1. \A t \in IDs : ThreadNr - 1 < t => ThreadNr <= t
        BY Numbers
      <4> QED
        BY <2>1, <3>2, <4>1, Numbers DEF IInv, Joined, Running
    <3> QED
      BY <3>1, <3>2, Numbers
  <2> QED
    BY <2>2, <2>3, <2>4, <2>5 DEF IInv
<1>4. CASE LockScreen \/ ClearScreen \/ CleanUp
  <2>1. /\ UNCHANGED <<ThreadNr, hThreads, pc, started>>
        /\ \/ mainPc = "screen" /\ mainPc' = "clear"
           \/ mainPc = "clear" /\ mainPc' = "close_screen"
           \/ mainPc = "close_screen" /\ mainPc' = "close_run"
           \/ mainPc = "close_run" /\ mainPc' = "exit"
    BY <1>4 DEF LockScreen, ClearScreen, CleanUp, CloseScreen, CloseRun, MainGoes, objects
  <2>2. Types' /\ Counted' /\ Handles'
    BY <2>1 DEF IInv, Types, MainPlaces, Counted, Handles
  <2>3. Joined'
    BY <2>1 DEF IInv, Types, Joined, Running
  <2>4. ScreenOwner'
    BY <1>4, <2>1 DEF LockScreen, ClearScreen, CleanUp, CloseScreen, CloseRun, MainGoes,
       objects, IInv, Types, ScreenOwner, Closed, IDs
  <2> QED
    BY <2>2, <2>3, <2>4 DEF IInv
<1>5. CASE UNCHANGED vars
  BY <1>5 DEF vars, objects, IInv, Types, Counted, Handles, Joined, Running,
     ScreenOwner, Closed
<1> QED
  BY <1>1, <1>2, <1>3, <1>4, <1>5, ThreadIInv, JoinIInv
  DEF Next, ShutDown, Stuck, Exited

THEOREM Invariance == Spec => []IInv
BY InitIInv, NextIInv, PTL DEF Spec

\* However many threads hThreads has room for: the screen has one writer at a
\* time, with the mutex and, once its handle is closed, without it.
THEOREM OneWriterAlways == Spec => []OneWriter
<1>1. IInv => OneWriter
  <2> SUFFICES ASSUME IInv, mainPc # "exit"
               PROVE  LET W == {t \in IDs : pc[t] = "draw"} \cup
                               (IF mainPc = "clear" THEN {Main} ELSE {})
                      IN  Cardinality(W) <= 1
    BY DEF OneWriter
  <2> DEFINE W == {t \in IDs : pc[t] = "draw"} \cup
                  (IF mainPc = "clear" THEN {Main} ELSE {})
             w == IF Closed THEN started ELSE hScreenMutex
  <2>1. W \subseteq {w}
    BY BounceThreadsAssumption DEF IInv, ScreenOwner, Closed
  <2> HIDE DEF W, w
  <2>2. Cardinality(W) <= 1
    <3>1. IsFiniteSet({w}) /\ Cardinality({w}) = 1
      BY FS_Singleton
    <3>2. IsFiniteSet(W) /\ Cardinality(W) <= Cardinality({w})
      BY <2>1, <3>1, FS_Subset
    <3> QED
      BY <3>1, <3>2
  <2> QED
    BY <2>2 DEF W
<1> QED
  BY <1>1, Invariance, PTL

\* Whatever could not be started, past the loop of ShutDown only the thread
\* started last can still run.
THEOREM EarlierThreadsAreDone == Spec => []EarlierThreadsDone
<1>1. IInv => EarlierThreadsDone
  <2> SUFFICES ASSUME IInv, NEW t \in IDs, t < started,
                      mainPc \in {"screen", "clear", "close_screen", "close_run"}
               PROVE  pc[t] \in {"none", "ended"}
    BY DEF EarlierThreadsDone, Running
  <2>1. ThreadNr = 0
    BY DEF IInv, Joined
  <2>2. ThreadNr <= t
    BY <2>1 DEF IDs
  <2> QED
    BY <2>2 DEF IInv, Joined, Running
<1> QED
  BY <1>1, Invariance, PTL
=============================================================================
