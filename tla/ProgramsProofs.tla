--------------------------- MODULE ProgramsProofs ---------------------------
(***************************************************************************)
(* Proofs about the programs of module MCPrograms, for every value of the  *)
(* constants.  A step of one program leaves the variables of the others    *)
(* alone (Frame), so that each is proved about as if it ran by itself.     *)
(* LinkedProofs has the programs on linked lists and trees.                *)
(***************************************************************************)
EXTENDS MCPrograms, SequenceLemmas, FiniteSetTheorems, FunctionTheorems, TLAPS

\* The variables of one program change only by a step of that program.
LEMMA Frame ==
  ASSUME [Next]_vars
  PROVE  /\ [FreeList!Next]_freeList
         /\ [NextFit!Next]_nextFit
         /\ [ById!Next]_byId
         /\ [Events!Next]_events
         /\ [Timers!Next]_timers
         /\ [Ring!Next]_ring
         /\ [Led!Next]_led
         /\ [Two!Next]_two
         /\ [Moves!Next]_moves
         /\ [Aligned!Next]_alignment
         /\ [OneCondition!Next]_oneCondition
<1> USE DEF pools, sequential, concurrent
<1>1. CASE HeapAllocator BY <1>1 DEF HeapAllocator
<1>2. CASE staticmempool BY <1>2 DEF staticmempool
<1>3. CASE LeetCodeMemPool BY <1>3 DEF LeetCodeMemPool
<1>4. CASE CircularBuffer BY <1>4 DEF CircularBuffer
<1>5. CASE DynamicEventHandler BY <1>5 DEF DynamicEventHandler
<1>6. CASE TimerSystem BY <1>6 DEF TimerSystem, Timers!Next
<1>7. CASE TimerUser BY <1>7 DEF TimerUser, Timers!Next
<1>8. CASE AlignPadding BY <1>8 DEF AlignPadding
<1>9. CASE List BY <1>9 DEF List
<1>10. CASE StateMachine BY <1>10 DEF StateMachine
<1>11. CASE treechallenge BY <1>11 DEF treechallenge
<1>12. CASE LlistMutex BY <1>12 DEF LlistMutex
<1>13. CASE producer BY <1>13 DEF producer, OneCondition!Next
<1>14. CASE consumer BY <1>14 DEF consumer, OneCondition!Next
<1>15. CASE SpuriousOrJoining BY <1>15 DEF SpuriousOrJoining, OneCondition!Next
<1>16. CASE TwoThreads BY <1>16 DEF TwoThreads
<1>17. CASE bufferthread BY <1>17 DEF bufferthread
<1>18. CASE UNCHANGED vars BY <1>18 DEF vars
<1> QED
  BY SMTT(30), <1>1, <1>2, <1>3, <1>4, <1>5, <1>6, <1>7, <1>8, <1>9, <1>10, <1>11, <1>12,
     <1>13, <1>14, <1>15, <1>16, <1>17, <1>18 DEF Next

\* An index that has gone on by at most one turn.
LEMMA Wrap ==
  ASSUME NEW N \in Nat \ {0}, NEW a \in 0 .. N - 1, NEW k \in 0 .. N
  PROVE  (a + k) % N = IF a + k < N THEN a + k ELSE a + k - N
OBVIOUS
-----------------------------------------------------------------------------
(* StateMachine.cpp                                                        *)

\* The phases of the state machine.
LedInv ==
  /\ ticks \in {0, 1}
  /\ \/ presses = 0 /\ currentState = "OFF" /\ ledState = FALSE
     \/ presses = 1 /\ currentState = "ON" /\ ledState = TRUE
     \/ presses = 2 /\ currentState = "BLINK" /\ ticks = 0 /\ ledState = FALSE
     \/ presses = 2 /\ currentState = "BLINK" /\ ticks = 1 /\ ledState = TRUE

\* What the two tables of the code hold, and the cycle of the states.
LEMMA LedTables ==
  /\ \A event : Led!processEvent("OFF", event) = IF event = "TIMER_EXPIRE" THEN "OFF" ELSE "ON"
  /\ \A event : Led!processEvent("ON", event) = IF event = "TIMER_EXPIRE" THEN "ON" ELSE "BLINK"
  /\ \A event : Led!processEvent("BLINK", event) = IF event = "TIMER_EXPIRE" THEN "BLINK" ELSE "OFF"
  /\ Led!handleState("OFF") = FALSE
  /\ Led!handleState("ON") = TRUE
  /\ ledState = FALSE => Led!handleState("BLINK") = TRUE
  /\ ledState = TRUE => Led!handleState("BLINK") = FALSE
  /\ <<"OFF", "ON", "BLINK">>[1] = "OFF"
  /\ <<"OFF", "ON", "BLINK">>[2] = "ON"
  /\ <<"OFF", "ON", "BLINK">>[3] = "BLINK"
BY DEF Led!processEvent, Led!handleState

\* The state and the LED of the state machine are a function of the events:
\* handleState toggles once for each expiry while blinking, and on entry.
THEOREM LedAlwaysFollows == Spec => []LedFollows
<1>1. Init => LedInv
  BY DEF Init, Led!Init, LedInv
<1>2. LedInv /\ [Next]_vars => LedInv'
  <2> SUFFICES ASSUME LedInv, [Led!Next]_led PROVE LedInv'
    BY Frame
  <2>1. CASE Led!Press
    <3>1. /\ currentState' = Led!processEvent(currentState, "BUTTON_PRESS")
          /\ ledState' = Led!handleState(currentState')
          /\ presses' = (presses + 1) % 3
          /\ ticks' = 0
      BY <2>1 DEF Led!Press, Led!Event
    <3>2. CASE currentState = "OFF"
      BY <3>1, <3>2, LedTables DEF LedInv
    <3>3. CASE currentState = "ON"
      BY <3>1, <3>3, LedTables DEF LedInv
    <3>4. CASE currentState = "BLINK"
      BY <3>1, <3>4, LedTables DEF LedInv
    <3> QED
      BY <3>2, <3>3, <3>4 DEF LedInv
  <2>2. CASE Led!Expire
    <3>1. /\ currentState' = Led!processEvent(currentState, "TIMER_EXPIRE")
          /\ ledState' = Led!handleState(currentState')
          /\ presses' = presses
          /\ ticks' = (ticks + 1) % 2
      BY <2>2 DEF Led!Expire, Led!Event
    <3>2. CASE currentState \in {"OFF", "ON"}
      BY <3>1, <3>2, LedTables DEF LedInv
    <3>3. CASE currentState = "BLINK" /\ ticks = 0
      BY <3>1, <3>3, LedTables DEF LedInv
    <3>4. CASE currentState = "BLINK" /\ ticks = 1
      BY <3>1, <3>4, LedTables DEF LedInv
    <3> QED
      BY <3>2, <3>3, <3>4 DEF LedInv
  <2>3. CASE UNCHANGED led
    BY <2>3 DEF led, LedInv
  <2> QED
    BY <2>1, <2>2, <2>3 DEF Led!Next
<1>3. LedInv => LedFollows
  <2> SUFFICES ASSUME LedInv PROVE Led!LedFollows
    BY DEF LedFollows
  <2>1. currentState = <<"OFF", "ON", "BLINK">>[presses + 1]
    BY LedTables DEF LedInv
  <2>2. ledState <=> \/ currentState = "ON"
                     \/ currentState = "BLINK" /\ ticks = 1
    BY DEF LedInv
  <2> QED
    BY <2>1, <2>2 DEF Led!LedFollows
<1> QED
  BY <1>1, <1>2, <1>3, PTL DEF Spec
-----------------------------------------------------------------------------
(* thread.cpp                                                              *)

TwoTypes ==
  /\ step \in {"create", "wait", "close", "returned"}
  /\ turn \in 1 .. 2
  /\ thread \in [1 .. 2 -> {"none", "read", "run", "over"}]
  /\ left \in [1 .. 2 -> Int]

\* The threads main has waited for.
Waited(n) == step \in {"close", "returned"} \/ (step = "wait" /\ n < turn)

TwoInv ==
  /\ TwoTypes
  /\ \A n \in 1 .. 2 : thread[n] = "over" => left[n] = 0
  /\ \A n \in 1 .. 2 : Waited(n) => thread[n] \in {"none", "over"}

\* No thread of thread.cpp reads main's local variables after main has gone
\* past WaitForSingleObject, however late it is scheduled.
THEOREM ParametersStayAlive == Spec => []ParametersAlive
<1> USE DEF Two!Numbers
<1>1. Init => TwoInv
  BY TurnsAssumption DEF Init, Two!Init, TwoInv, TwoTypes, Waited
<1>2. TwoInv /\ [Next]_vars => TwoInv'
  <2> SUFFICES ASSUME TwoInv, [Two!Next]_two PROVE TwoInv'
    BY Frame
  <2> USE DEF TwoInv, TwoTypes, Waited
  <2>1. CASE Two!CreateThread
    BY <2>1 DEF Two!CreateThread, Two!Proceed
  <2>2. CASE Two!WaitForSingleObject
    BY <2>2 DEF Two!WaitForSingleObject, Two!Proceed, Two!Signaled
  <2>3. CASE Two!CloseHandle
    BY <2>3 DEF Two!CloseHandle, Two!Proceed
  <2>4. ASSUME NEW n \in 1 .. 2, Two!ReadParameter(n) PROVE TwoInv'
    BY <2>4 DEF Two!ReadParameter
  <2>5. ASSUME NEW n \in 1 .. 2, Two!Turn(n) PROVE TwoInv'
    BY <2>5 DEF Two!Turn
  <2>6. ASSUME NEW n \in 1 .. 2, Two!Return(n) PROVE TwoInv'
    BY <2>6 DEF Two!Return
  <2>7. CASE Two!Exited
    BY <2>7 DEF Two!Exited, Two!vars
  <2>8. CASE UNCHANGED two
    BY <2>8 DEF two
  <2> QED
    BY <2>1, <2>2, <2>3, <2>4, <2>5, <2>6, <2>7, <2>8
    DEF Two!Next, Two!main, Two!ThreadFunction
<1>3. TwoInv => ParametersAlive
  BY DEF TwoInv, TwoTypes, Waited, ParametersAlive, Two!ParametersAlive
<1> QED
  BY <1>1, <1>2, <1>3, PTL DEF Spec
-----------------------------------------------------------------------------
(* bufferthread.cpp: what is drawn                                         *)

MovesTypes ==
  /\ screen \in [0 .. ConsoleSize -> IDs \cup {0}]
  /\ coord \in [IDs -> Int]
  /\ old \in [IDs -> Int]
  /\ delta \in [IDs -> Int]
  /\ drawn \in [IDs -> BOOLEAN]
  /\ bTrails \in BOOLEAN /\ trailed \in BOOLEAN
  /\ covered \in [IDs -> BOOLEAN]

\* Trails are on only if they have been switched on.
MovesInv == MovesTypes /\ (bTrails => trailed) /\ NoGhosts

\* With trails off the bouncing threads leave no character behind where another
\* has drawn over theirs and gone on; none blanks the character of another; and
\* none is lost off the screen.
THEOREM NeverGhosts == Spec => []NoGhosts
<1> USE DEF MovesInv, MovesTypes, NoGhosts, Moves!NoGhosts, Moves!Cells
<1>1. Init => MovesInv
  <2> SUFFICES ASSUME Moves!Init PROVE MovesInv
    BY DEF Init
  <2>1. screen \in [0 .. ConsoleSize -> IDs \cup {0}] /\ drawn \in [IDs -> BOOLEAN]
    BY DEF Moves!Init
  <2>2. coord \in [IDs -> Int] /\ delta \in [IDs -> Int] /\ old \in [IDs -> Int]
    BY MovesAssumption DEF Moves!Init
  <2>3. \A t \in IDs : ~Moves!OffScreen(coord[t])
    BY MovesAssumption DEF Moves!Init, Moves!OffScreen
  <2>4. covered \in [IDs -> BOOLEAN] /\ \A t \in IDs : covered[t]
    BY DEF Moves!Init
  <2> QED
    BY <2>1, <2>2, <2>3, <2>4 DEF Moves!Init
<1>2. MovesInv /\ [Next]_vars => MovesInv'
  <2> SUFFICES ASSUME MovesInv, [Moves!Next]_moves PROVE MovesInv'
    BY Frame
  <2>1. CASE Moves!ToggleTrails
    BY <2>1 DEF Moves!ToggleTrails, Moves!OffScreen, Moves!LastDrawn
  <2>2. ASSUME NEW t \in IDs, Moves!Draw(t) PROVE MovesInv'
    <3>1. MovesTypes'
      BY <2>2 DEF Moves!Draw
    <3>2. ASSUME ~trailed, NEW c \in 0 .. ConsoleSize, screen'[c] # 0
          PROVE  Moves!LastDrawn(screen[c])' = c
      BY <2>2, <3>2 DEF Moves!Draw, Moves!Blanked, Moves!LastDrawn
    <3>3. \A s \in IDs : Moves!OffScreen(coord[s])' => ~Moves!OffScreen(coord[s] + delta[s])'
      BY <2>2 DEF Moves!Draw, Moves!OffScreen
    <3>4. ASSUME NEW s \in IDs, ~covered'[s], Moves!LastDrawn(s)' \in 0 .. ConsoleSize
          PROVE  screen'[Moves!LastDrawn(s)'] = s
      <4>1. CASE s = t
        <5>1. Moves!LastDrawn(s)' = coord[t]
          BY <2>2, <4>1 DEF Moves!Draw, Moves!LastDrawn
        <5> QED
          BY <2>2, <3>4, <4>1, <5>1 DEF Moves!Draw
      <4>2. CASE s # t
        <5>1. Moves!LastDrawn(s)' = Moves!LastDrawn(s)
          BY <2>2, <4>2 DEF Moves!Draw, Moves!LastDrawn
        <5>2. ~covered[s] /\ Moves!LastDrawn(s) # coord[t]
          BY <2>2, <3>4, <4>2 DEF Moves!Draw
        <5>3. screen[Moves!LastDrawn(s)] = s
          BY <3>4, <5>1, <5>2
        <5> QED
          BY <2>2, <3>4, <4>2, <5>1, <5>2, <5>3 DEF Moves!Draw, Moves!Blanked
      <4> QED
        BY <4>1, <4>2
    <3> QED
      BY <2>2, <3>1, <3>2, <3>3, <3>4 DEF Moves!Draw
  <2>3. ASSUME NEW t \in IDs, Moves!Move(t) PROVE MovesInv'
    <3>1. MovesTypes'
      BY <2>3 DEF Moves!Move
    <3>2. ASSUME ~trailed, NEW c \in 0 .. ConsoleSize, screen'[c] # 0
          PROVE  Moves!LastDrawn(screen[c])' = c
      BY <2>3, <3>2, MovesAssumption DEF Moves!Move, Moves!LastDrawn
    <3>3. \A s \in IDs : Moves!OffScreen(coord[s])' => ~Moves!OffScreen(coord[s] + delta[s])'
      BY <2>3 DEF Moves!Move, Moves!OffScreen
    <3>4. \A s \in IDs : Moves!LastDrawn(s)' = Moves!LastDrawn(s)
      BY <2>3 DEF Moves!Move, Moves!LastDrawn
    <3>5. \A s \in IDs : ~covered'[s] /\ Moves!LastDrawn(s)' \in 0 .. ConsoleSize
                           => screen'[Moves!LastDrawn(s)'] = s
      BY <2>3, <3>4 DEF Moves!Move
    <3> QED
      BY <2>3, <3>1, <3>2, <3>3, <3>5 DEF Moves!Move
  <2>4. CASE UNCHANGED moves
    BY <2>4 DEF moves, Moves!OffScreen, Moves!LastDrawn
  <2> QED
    BY <2>1, <2>2, <2>3, <2>4 DEF Moves!Next
<1> QED
  BY <1>1, <1>2, PTL DEF Spec
-----------------------------------------------------------------------------
(* LeetCodeMemPool.cpp                                                     *)

Segments == [id : Ids, start : Nat, size : Nat]

SegmentsInv ==
  /\ bufpool \in [0 .. NumUnits - 1 -> Ids \cup {0}]
  /\ segments \subseteq Segments
  /\ \A s \in segments : ById!Cells(s) \subseteq 0 .. NumUnits - 1
  /\ SegmentsIntact

\* The first fit is a place where every unit is free.
LEMMA FirstFit ==
  ASSUME NEW size \in 1 .. NumUnits, ById!Fits(size) # {}
  PROVE  /\ ById!Min(ById!Fits(size)) \in Nat
         /\ ById!Run(ById!Min(ById!Fits(size)), size) \subseteq 0 .. NumUnits - 1
         /\ \A u \in ById!Run(ById!Min(ById!Fits(size)), size) : bufpool[u] = 0
<1>1. ById!Fits(size) \in SUBSET Nat
  BY UnitsAssumption DEF ById!Fits
<1>2. ById!Min(ById!Fits(size)) = Min(ById!Fits(size))
  BY DEF ById!Min, Min
<1>3. ById!Min(ById!Fits(size)) \in ById!Fits(size)
  BY <1>1, <1>2, MinProperties
<1> QED
  BY <1>3, UnitsAssumption DEF ById!Fits, ById!Run

\* Allocations of the id allocator stay whole: whatever is allocated and freed,
\* by whatever ids, no two share a unit and none loses one.
THEOREM SegmentsStayIntact == Spec => []SegmentsIntact
<1> USE DEF SegmentsInv, SegmentsIntact, ById!SegmentsIntact, ById!Units
<1>1. Init => SegmentsInv
  BY DEF Init, ById!Init
<1>2. SegmentsInv /\ [Next]_vars => SegmentsInv'
  <2> SUFFICES ASSUME SegmentsInv, [ById!Next]_byId PROVE SegmentsInv'
    BY Frame
  <2>1. ASSUME NEW size \in 1 .. NumUnits, NEW id \in Ids, ById!allocate(size, id)
        PROVE  SegmentsInv'
    <3> DEFINE start == ById!Min(ById!Fits(size))
               new == [id |-> id, start |-> start, size |-> size]
    <3>1. /\ start \in Nat
          /\ ById!Run(start, size) \subseteq 0 .. NumUnits - 1
          /\ \A u \in ById!Run(start, size) : bufpool[u] = 0
      BY <2>1, FirstFit DEF ById!allocate
    <3>2. /\ segments' = segments \cup {new}
          /\ bufpool' = [u \in 0 .. NumUnits - 1 |->
                           IF u \in ById!Run(start, size) THEN id ELSE bufpool[u]]
      BY <2>1 DEF ById!allocate
    <3> HIDE DEF start
    <3>3. new \in Segments /\ ById!Cells(new) = ById!Run(start, size)
      BY <3>1, UnitsAssumption DEF Segments, ById!Cells
    <3>4. \A s \in segments : ById!Cells(s) \cap ById!Cells(new) = {}
      BY <3>1, <3>3, UnitsAssumption DEF Segments
    <3> HIDE DEF new
    <3>5. new.id = id
      BY DEF new
    <3>6. \A s, t \in segments' : s # t => ById!Cells(s) \cap ById!Cells(t) = {}
      BY <3>2, <3>4
    <3>7. \A s \in segments' : \A u \in ById!Cells(s) : bufpool'[u] = s.id
      BY <3>1, <3>2, <3>3, <3>4, <3>5
    <3>8. \A u \in 0 .. NumUnits - 1 : bufpool'[u] # 0 => \E s \in segments' : u \in ById!Cells(s)
      BY <3>1, <3>2, <3>3
    <3> QED
      BY <3>1, <3>2, <3>3, <3>6, <3>7, <3>8
  <2>2. ASSUME NEW id \in Ids, ById!freeMemory(id) PROVE SegmentsInv'
    BY <2>2, UnitsAssumption DEF ById!freeMemory, Segments
  <2>3. CASE UNCHANGED byId
    BY <2>3 DEF byId
  <2>4. ASSUME NEW size \in 1 .. NumUnits, ById!AllocateFails(size) PROVE SegmentsInv'
    BY <2>3, <2>4 DEF ById!AllocateFails, ById!vars, byId
  <2> QED
    BY <2>1, <2>2, <2>3, <2>4 DEF ById!Next
<1> QED
  BY <1>1, <1>2, PTL DEF Spec
-----------------------------------------------------------------------------
(* CircularBuffer.cpp and misc.txt                                         *)

\* The index n places behind another, without the modulus.
Behind(t, n) == IF t + n < RingSize THEN t + n ELSE t + n - RingSize

\* The place n slots behind t, as Behind computes it.
LEMMA BehindWraps ==
  ASSUME NEW t \in 0 .. RingSize - 1, NEW n \in 0 .. RingSize
  PROVE  (t + n) % RingSize = Behind(t, n)
BY RingAssumption, Wrap DEF Behind

\* The next index is the place one slot behind.
LEMMA AfterIsBehind ==
  ASSUME NEW t \in 0 .. RingSize - 1
  PROVE  Ring!After(t) = Behind(t, 1)
<1>1. 1 \in 0 .. RingSize
  BY RingAssumption
<1> QED
  BY <1>1, BehindWraps DEF Ring!After

RingInv ==
  /\ buffer \in [0 .. RingSize - 1 -> Bytes \cup {0}]
  /\ head \in 0 .. RingSize - 1
  /\ tail \in 0 .. RingSize - 1
  /\ count \in 0 .. RingSize
  /\ unread \in Seq(Bytes) /\ Len(unread) = count
  /\ \A n \in 1 .. count : buffer[Behind(tail, n - 1)] = unread[n]
  /\ head = Behind(tail, count)

\* A byte stored behind the last one of a buffer with room.
LEMMA StoreInOrder ==
  ASSUME RingInv, NEW byte \in Bytes, Ring!Store(byte), count < RingSize,
         count' = count + 1, unread' = Append(unread, byte), tail' = tail
  PROVE  RingInv'
<1> USE RingAssumption DEF RingInv
<1>1. /\ head' = Behind(head, 1)
      /\ buffer' = [buffer EXCEPT ![head] = byte]
  BY AfterIsBehind DEF Ring!Store
<1>2. /\ head' \in 0 .. RingSize - 1
      /\ head' = Behind(tail', count')
  BY <1>1 DEF Behind
<1>3. \A n \in 1 .. count : Behind(tail, n - 1) \in 0 .. RingSize - 1 /\ Behind(tail, n - 1) # head
  BY DEF Behind
<1>4. ASSUME NEW n \in 1 .. count'
      PROVE  buffer'[Behind(tail', n - 1)] = unread'[n]
  <2>1. CASE n = count + 1
    BY <1>1, <2>1
  <2>2. CASE n \in 1 .. count
    BY <1>1, <1>3, <2>2
  <2> QED
    BY <2>1, <2>2
<1> QED
  BY <1>1, <1>2, <1>4

\* The oldest byte leaves a buffer that is not empty.
LEMMA TailMovesOn ==
  ASSUME RingInv, count # 0
  PROVE  /\ Ring!After(tail) \in 0 .. RingSize - 1
         /\ Tail(unread) \in Seq(Bytes) /\ Len(Tail(unread)) = count - 1
         /\ \A n \in 1 .. count - 1 : Tail(unread)[n] = unread[n + 1]
         /\ \A n \in 0 .. count - 1 : Behind(Ring!After(tail), n) = Behind(tail, n + 1)
<1> USE RingAssumption DEF RingInv
<1>1. Ring!After(tail) = Behind(tail, 1)
  BY AfterIsBehind
<1>2. Ring!After(tail) \in 0 .. RingSize - 1
  BY <1>1 DEF Behind
<1>3. unread # << >>
  OBVIOUS
<1>4. /\ Tail(unread) \in Seq(Bytes) /\ Len(Tail(unread)) = count - 1
      /\ \A n \in 1 .. count - 1 : Tail(unread)[n] = unread[n + 1]
  BY <1>3
<1>5. \A n \in 0 .. count - 1 : Behind(Behind(tail, 1), n) = Behind(tail, n + 1)
  BY DEF Behind
<1> QED
  BY <1>1, <1>2, <1>4, <1>5

\* A byte stored over the oldest one of a full buffer.
LEMMA OverwriteInOrder ==
  ASSUME RingInv, NEW byte \in Bytes, Ring!Store(byte), count = RingSize,
         count' = count, unread' = Append(Tail(unread), byte), tail' = Ring!After(tail)
  PROVE  RingInv'
<1> USE RingAssumption DEF RingInv
<1>1. /\ head = tail /\ head' = tail'
      /\ buffer' = [buffer EXCEPT ![tail] = byte]
  <2>1. head = Behind(tail, RingSize)
    OBVIOUS
  <2>2. head = tail
    BY <2>1 DEF Behind
  <2> QED
    BY <2>2 DEF Ring!Store
<1>2. /\ tail' \in 0 .. RingSize - 1
      /\ \A n \in 0 .. count - 1 : Behind(tail', n) = Behind(tail, n + 1)
      /\ unread' \in Seq(Bytes) /\ Len(unread') = count
      /\ unread'[count] = byte
      /\ \A n \in 1 .. count - 1 : unread'[n] = unread[n + 1]
  BY TailMovesOn
<1>3. head' = Behind(tail', count')
  BY <1>1, <1>2 DEF Behind
<1>4. /\ Behind(tail, count) = tail
      /\ \A n \in 1 .. count - 1 : Behind(tail, n) \in 0 .. RingSize - 1 /\ Behind(tail, n) # tail
  BY DEF Behind
<1>5. ASSUME NEW n \in 1 .. count'
      PROVE  buffer'[Behind(tail', n - 1)] = unread'[n]
  <2>1. Behind(tail', n - 1) = Behind(tail, n)
    <3>1. n - 1 \in 0 .. count - 1 /\ (n - 1) + 1 = n
      OBVIOUS
    <3> QED
      BY <1>2, <3>1
  <2>2. CASE n = count
    BY <1>1, <1>2, <1>4, <2>1, <2>2
  <2>3. CASE n \in 1 .. count - 1
    <3>1. n + 1 \in 1 .. count /\ (n + 1) - 1 = n
      BY <2>3
    <3>2. buffer[Behind(tail, n)] = unread[n + 1]
      BY <3>1
    <3> QED
      BY <1>1, <1>2, <1>4, <2>1, <2>3, <3>2
  <2> QED
    BY <2>2, <2>3
<1> QED
  BY ZenonT(30), <1>1, <1>2, <1>3, <1>5

\* What the two ring buffers give back is what was last put in, in its order,
\* also when the oldest bytes have been overwritten.
THEOREM BytesStayInOrder == Spec => []LastBytesInOrder
<1>1. Init => RingInv
  BY RingAssumption DEF Init, Ring!Init, RingInv, Behind
<1>2. RingInv /\ [Next]_vars => RingInv'
  <2> SUFFICES ASSUME RingInv, [Ring!Next]_ring PROVE RingInv'
    BY Frame
  <2> USE RingAssumption
  <2>1. ASSUME NEW byte \in Bytes, Ring!write(byte) PROVE RingInv'
    <3>1. CASE count < RingSize
      <4>1. /\ Ring!Store(byte) /\ count' = count + 1
            /\ unread' = Append(unread, byte) /\ tail' = tail
        BY <2>1, <3>1 DEF Ring!write, RingInv
      <4> QED
        BY <3>1, <4>1, StoreInOrder
    <3>2. CASE count >= RingSize
      <4>1. /\ Ring!Store(byte) /\ count' = count /\ tail' = Ring!After(tail)
            /\ unread' = Append(Tail(unread), byte) /\ count = RingSize
        BY <2>1, <3>2 DEF Ring!write, Ring!Overwrite, RingInv
      <4> QED
        BY <4>1, OverwriteInOrder
    <3> QED
      BY <3>1, <3>2 DEF RingInv
  <2>2. ASSUME NEW byte \in Bytes, Ring!cq_enqueue(byte) PROVE RingInv'
    <3>1. /\ Ring!Store(byte) /\ count' = count + 1 /\ count < RingSize
          /\ unread' = Append(unread, byte) /\ tail' = tail
      BY <2>2 DEF Ring!cq_enqueue, RingInv
    <3> QED
      BY <3>1, StoreInOrder
  <2>3. CASE Ring!read
    <3>1. /\ count # 0 /\ tail' = Ring!After(tail) /\ count' = count - 1
          /\ unread' = Tail(unread) /\ buffer' = buffer /\ head' = head
      BY <2>3 DEF Ring!read
    <3>2. /\ tail' \in 0 .. RingSize - 1
          /\ unread' \in Seq(Bytes) /\ Len(unread') = count - 1
          /\ \A n \in 1 .. count - 1 : unread'[n] = unread[n + 1]
          /\ \A n \in 0 .. count - 1 : Behind(tail', n) = Behind(tail, n + 1)
      BY <3>1, TailMovesOn
    <3>3. head' = Behind(tail', count')
      <4>1. count - 1 \in 0 .. count - 1 /\ (count - 1) + 1 = count
        BY <3>1 DEF RingInv
      <4> QED
        BY <3>1, <3>2, <4>1 DEF RingInv
    <3>4. ASSUME NEW n \in 1 .. count'
          PROVE  buffer'[Behind(tail', n - 1)] = unread'[n]
      <4>1. /\ n \in 1 .. count - 1 /\ n - 1 \in 0 .. count - 1 /\ (n - 1) + 1 = n
            /\ n + 1 \in 1 .. count /\ (n + 1) - 1 = n
        BY <3>1 DEF RingInv
      <4>2. buffer[Behind(tail, n)] = unread[n + 1]
        BY <4>1 DEF RingInv
      <4> QED
        BY <3>1, <3>2, <4>1, <4>2
    <3> QED
      BY <3>1, <3>2, <3>3, <3>4 DEF RingInv
  <2>4. CASE UNCHANGED ring
    BY <2>4 DEF ring, RingInv, Behind
  <2>5. CASE Ring!Refused
    BY <2>4, <2>5 DEF Ring!Refused, Ring!vars, ring
  <2> QED
    BY <2>1, <2>2, <2>3, <2>4, <2>5 DEF Ring!Next
<1>3. RingInv => LastBytesInOrder
  <2> SUFFICES ASSUME RingInv PROVE Ring!LastBytesInOrder
    BY DEF LastBytesInOrder
  <2> USE RingAssumption DEF RingInv
  <2>1. head = (tail + count) % RingSize
    BY BehindWraps
  <2>2. ASSUME NEW n \in 1 .. count
        PROVE  buffer[(tail + n - 1) % RingSize] = unread[n]
    <3>1. n - 1 \in 0 .. RingSize /\ tail + (n - 1) = tail + n - 1
      OBVIOUS
    <3>2. (tail + (n - 1)) % RingSize = Behind(tail, n - 1)
      BY <3>1, BehindWraps
    <3> QED
      BY <3>1, <3>2
  <2> QED
    BY <2>1, <2>2 DEF Ring!LastBytesInOrder
<1> QED
  BY <1>1, <1>2, <1>3, PTL DEF Spec
-----------------------------------------------------------------------------
(* staticmempool.c                                                         *)

NextFitInv ==
  /\ in_use \in [0 .. NumBlocks - 1 -> BOOLEAN]
  /\ next_buffer \in Nat
  /\ NumBlocks > 0 => next_buffer < NumBlocks

\* The search comes past every buffer and examines no other.
LEMMA SearchCoversAll ==
  ASSUME NextFitInv
  PROVE  /\ \A n \in 0 .. NumBlocks - 1 : NextFit!Index(n) \in 0 .. NumBlocks - 1
         /\ \A b \in 0 .. NumBlocks - 1 :
              \E n \in 0 .. NumBlocks - 1 : NextFit!Index(n) = b
<1> USE PoolsAssumption DEF NextFitInv
<1>1. CASE NumBlocks = 0
  BY <1>1
<1>2. CASE NumBlocks # 0
  <2>1. NumBlocks \in Nat \ {0} /\ next_buffer \in 0 .. NumBlocks - 1
    BY <1>2
  <2>2. \A n \in 0 .. NumBlocks - 1 :
          NextFit!Index(n) = IF next_buffer + n < NumBlocks THEN next_buffer + n
                             ELSE next_buffer + n - NumBlocks
    <3> TAKE n \in 0 .. NumBlocks - 1
    <3>1. n \in 0 .. NumBlocks
      OBVIOUS
    <3> QED
      BY <2>1, <3>1, Wrap DEF NextFit!Index
  <2>3. ASSUME NEW b \in 0 .. NumBlocks - 1
        PROVE  \E m \in 0 .. NumBlocks - 1 : NextFit!Index(m) = b
    <3>1. CASE b >= next_buffer
      <4>1. b - next_buffer \in 0 .. NumBlocks - 1 /\ NextFit!Index(b - next_buffer) = b
        BY <2>2, <3>1
      <4> QED
        BY <4>1
    <3>2. CASE b < next_buffer
      <4>1. /\ b - next_buffer + NumBlocks \in 0 .. NumBlocks - 1
            /\ NextFit!Index(b - next_buffer + NumBlocks) = b
        BY <2>2, <3>2
      <4> QED
        BY <4>1
    <3> QED
      BY <3>1, <3>2
  <2>4. \A n \in 0 .. NumBlocks - 1 : NextFit!Index(n) \in 0 .. NumBlocks - 1
    BY <2>1, <2>2
  <2> QED
    BY <2>3, <2>4
<1> QED
  BY <1>1, <1>2

\* The search from the cursor on implements the allocator.
THEOREM NextFitImplements == Spec => NextFit!Implements
<1> DEFINE busy == {b \in 0 .. NumBlocks - 1 : in_use[b]}
<1>1. Init => NextFitInv /\ NextFit!Pool!Init
  BY PoolsAssumption DEF Init, NextFit!Init, NextFit!Blocks, NextFitInv, NextFit!Pool!Init
<1>2. NextFitInv /\ [Next]_vars => NextFitInv' /\ [NextFit!Pool!Next]_<<busy, packet>>
  <2> SUFFICES ASSUME NextFitInv, [NextFit!Next]_nextFit
               PROVE  NextFitInv' /\ [NextFit!Pool!Next]_<<busy, packet>>
    BY Frame
  <2> USE DEF NextFit!Blocks
  <2>1. CASE NextFit!get_buffer /\ NextFit!FreeTurns = {}
    <3>1. busy = 0 .. NumBlocks - 1
      BY <2>1, SearchCoversAll DEF NextFit!FreeTurns
    <3>2. NextFit!Pool!Exhausted /\ NextFitInv'
      BY <2>1, <3>1 DEF NextFit!get_buffer, NextFit!Pool!Exhausted, NextFitInv
    <3> QED
      BY <3>2 DEF NextFit!Pool!Next
  <2>2. CASE NextFit!get_buffer /\ NextFit!FreeTurns # {}
    <3>1. NextFit!FreeTurns \in SUBSET Nat
      BY PoolsAssumption DEF NextFit!FreeTurns
    <3>2. NextFit!Min(NextFit!FreeTurns) = Min(NextFit!FreeTurns)
      BY DEF NextFit!Min, Min
    <3>3. NextFit!Min(NextFit!FreeTurns) \in NextFit!FreeTurns
      BY <2>2, <3>1, <3>2, MinProperties
    <3>4. PICK b \in 0 .. NumBlocks - 1 : b = NextFit!Index(NextFit!Min(NextFit!FreeTurns))
      BY <3>3, SearchCoversAll DEF NextFit!FreeTurns
    <3>5. /\ ~in_use[b]
          /\ in_use' = [in_use EXCEPT ![b] = TRUE]
          /\ next_buffer' = (b + 1) % NumBlocks
          /\ packet' = b
      BY <2>2, <3>3, <3>4 DEF NextFit!get_buffer, NextFit!FreeTurns
    <3>6. NextFitInv'
      <4>1. NumBlocks \in Nat \ {0} /\ 1 \in 0 .. NumBlocks
        BY PoolsAssumption
      <4>2. (b + 1) % NumBlocks = IF b + 1 < NumBlocks THEN b + 1 ELSE b + 1 - NumBlocks
        BY <4>1, Wrap
      <4> QED
        BY <3>5, <4>2, PoolsAssumption DEF NextFitInv
    <3>7. NextFit!Pool!Allocate(b)
      BY <3>5 DEF NextFit!Pool!Allocate, NextFitInv
    <3> QED
      BY <3>6, <3>7 DEF NextFit!Pool!Next
  <2>3. ASSUME NEW b \in 0 .. NumBlocks - 1, NextFit!release_buffer(b)
        PROVE  NextFitInv' /\ NextFit!Pool!Release(b)
    BY <2>3 DEF NextFit!release_buffer, NextFit!Pool!Release, NextFitInv
  <2>4. CASE UNCHANGED nextFit
    BY <2>4 DEF nextFit, NextFitInv
  <2> QED
    BY <2>1, <2>2, <2>3, <2>4 DEF NextFit!Next, NextFit!Pool!Next
<1> QED
  BY <1>1, <1>2, PTL DEF Spec, NextFit!Implements, NextFit!Pool!Spec, NextFit!Blocks
-----------------------------------------------------------------------------
(* HeapAllocator.c                                                         *)

\* The free list leads from its head through n blocks, those of path.
IsFreeList(n, path) ==
  /\ \A j, k \in 1 .. n : path[j] = path[k] => j = k
  /\ \A b \in 0 .. NumBlocks - 1 : b \notin held <=> \E k \in 1 .. n : path[k] = b
  /\ list = IF n = 0 THEN NULL ELSE path[1]
  /\ \A k \in 1 .. n : memory[path[k]] = IF k = n THEN NULL ELSE path[k + 1]

FreeListInv ==
  /\ memory \in [0 .. NumBlocks - 1 -> (0 .. NumBlocks - 1) \cup {NULL, Data}]
  /\ open \in BOOLEAN
  /\ held \subseteq 0 .. NumBlocks - 1
  /\ ~open => held = {}
  /\ open => \E n \in Nat : \E path \in [1 .. n -> 0 .. NumBlocks - 1] : IsFreeList(n, path)

\* What is reached from the head are the blocks of the list, then nothing.
LEMMA ReachedIsPath ==
  ASSUME FreeListInv, NEW n \in Nat, NEW path \in [1 .. n -> 0 .. NumBlocks - 1],
         IsFreeList(n, path)
  PROVE  \A k \in Nat : FreeList!Reached[k] = IF k < n THEN path[k + 1] ELSE NULL
<1> USE PoolsAssumption DEF FreeList!Blocks
<1> DEFINE f == [k \in Nat |-> IF k < n THEN path[k + 1] ELSE NULL]
           Step(g) == [k \in Nat |->
                         IF k = 0 THEN list
                         ELSE IF g[k - 1] \in 0 .. NumBlocks - 1 THEN memory[g[k - 1]] ELSE NULL]
<1>1. ASSUME NEW k \in Nat
      PROVE  f[k] = IF k = 0 THEN list
                    ELSE IF f[k - 1] \in 0 .. NumBlocks - 1 THEN memory[f[k - 1]] ELSE NULL
  <2>1. CASE k = 0
    BY <2>1 DEF IsFreeList
  <2>2. CASE k # 0 /\ k - 1 < n
    <3>1. f[k - 1] = path[k] /\ k \in 1 .. n /\ path[k] \in 0 .. NumBlocks - 1
      BY <2>2
    <3>2. memory[path[k]] = IF k = n THEN NULL ELSE path[k + 1]
      BY <3>1 DEF IsFreeList
    <3> QED
      BY <2>2, <3>1, <3>2
  <2>3. CASE k # 0 /\ ~(k - 1 < n)
    BY <2>3
  <2> QED
    BY <2>1, <2>2, <2>3
<1>2. f = Step(f)
  BY <1>1
<1>3. FreeList!Reached = CHOOSE g : g = Step(g)
  BY DEF FreeList!Reached
<1> HIDE DEF Step
<1>4. FreeList!Reached = Step(FreeList!Reached)
  BY <1>2, <1>3, Zenon
<1>5. \A k \in Nat :
        FreeList!Reached[k] = IF k = 0 THEN list
                              ELSE IF FreeList!Reached[k - 1] \in 0 .. NumBlocks - 1
                              THEN memory[FreeList!Reached[k - 1]] ELSE NULL
  BY <1>4 DEF Step
<1> HIDE DEF f
<1>6. FreeList!Reached[0] = f[0]
  BY <1>1, <1>5
<1>7. ASSUME NEW k \in Nat, FreeList!Reached[k] = f[k]
      PROVE  FreeList!Reached[k + 1] = f[k + 1]
  <2>1. k + 1 \in Nat /\ k + 1 # 0 /\ (k + 1) - 1 = k
    OBVIOUS
  <2> QED
    BY SMTT(30), <1>1, <1>5, <1>7, <2>1
<1>8. \A k \in Nat : FreeList!Reached[k] = f[k]
  BY <1>6, <1>7, SameEverywhere
<1> QED
  BY <1>8 DEF f

\* The blocks not held are as many as the list is long.
LEMMA PathLength ==
  ASSUME FreeListInv, NEW n \in Nat, NEW path \in [1 .. n -> 0 .. NumBlocks - 1],
         IsFreeList(n, path)
  PROVE  /\ IsFiniteSet(held)
         /\ n = NumBlocks - Cardinality(held)
         /\ Cardinality(held) \in 0 .. NumBlocks
<1> DEFINE B == 0 .. NumBlocks - 1
           F == B \ held
<1>1. IsFiniteSet(B) /\ Cardinality(B) = NumBlocks
  BY PoolsAssumption, FS_Interval
<1>2. /\ IsFiniteSet(held) /\ Cardinality(held) \in Nat
      /\ IsFiniteSet(F) /\ Cardinality(F) \in Nat
      /\ held \subseteq B
  BY <1>1, FS_Subset, FS_CardinalityType DEF FreeListInv
<1>3. Cardinality(B) = Cardinality(held) + Cardinality(F)
  <2>1. held \cup F = B /\ held \cap F = {}
    BY <1>2
  <2>2. Cardinality(held \cup F) = Cardinality(held) + Cardinality(F) - Cardinality(held \cap F)
    BY <1>2, FS_Union
  <2>3. Cardinality(held \cap F) = 0
    BY <2>1, FS_EmptySet
  <2>4. Cardinality(held \cup F) = Cardinality(B)
    BY <2>1
  <2> HIDE DEF B, F
  <2> QED
    BY <1>2, <2>2, <2>3, <2>4
<1>4. path \in Bijection(1 .. n, F)
  <2>1. path \in [1 .. n -> F]
    BY DEF IsFreeList
  <2>2. \A j, k \in 1 .. n : path[j] = path[k] => j = k
    BY DEF IsFreeList
  <2>3. \A b \in F : \E k \in 1 .. n : path[k] = b
    BY DEF IsFreeList
  <2> QED
    BY <2>1, <2>2, <2>3, Fun_IsBij
<1>5. IsFiniteSet(1 .. n) /\ Cardinality(1 .. n) = n
  BY FS_Interval
<1>6. Cardinality(F) = n
  BY <1>4, <1>5, FS_Bijection, Fun_ExistsBij
<1> QED
  BY <1>1, <1>2, <1>3, <1>6, PoolsAssumption

\* pool_free_count counts the blocks that are not held.
LEMMA FreeCount ==
  ASSUME FreeListInv, open
  PROVE  FreeList!pool_free_count = NumBlocks - Cardinality(held)
<1>1. PICK n \in Nat : \E path \in [1 .. n -> 0 .. NumBlocks - 1] : IsFreeList(n, path)
  BY DEF FreeListInv
<1>2. PICK path \in [1 .. n -> 0 .. NumBlocks - 1] : IsFreeList(n, path)
  BY <1>1
<1>3. n = NumBlocks - Cardinality(held) /\ n <= NumBlocks
  BY <1>2, PathLength, PoolsAssumption
<1>4. \A k \in Nat : FreeList!Reached[k] = IF k < n THEN path[k + 1] ELSE NULL
  BY <1>2, ReachedIsPath
<1>5. {k \in 0 .. NumBlocks - 1 : FreeList!Reached[k] # NULL} = 0 .. n - 1
  <2>1. \A k \in 0 .. n - 1 : path[k + 1] # NULL
    BY PoolsAssumption
  <2>2. \A k \in 0 .. NumBlocks - 1 : FreeList!Reached[k] # NULL <=> k \in 0 .. n - 1
    BY <1>4, <2>1, PoolsAssumption
  <2>3. 0 .. n - 1 \subseteq 0 .. NumBlocks - 1
    BY <1>2, <1>3, PathLength, PoolsAssumption
  <2> QED
    BY <2>2, <2>3
<1>6. Cardinality(0 .. n - 1) = n
  BY FS_Interval
<1>7. FreeList!pool_free_count = Cardinality({k \in 0 .. NumBlocks - 1 : FreeList!Reached[k] # NULL})
  BY DEF FreeList!pool_free_count, FreeList!Blocks, FreeList!Cardinality, Cardinality
<1>8. FreeList!pool_free_count = n
  BY <1>5, <1>6, <1>7
<1> QED
  BY <1>3, <1>8

\* Some list again.
LEMMA FreeListAgain ==
  ASSUME memory' \in [0 .. NumBlocks - 1 -> (0 .. NumBlocks - 1) \cup {NULL, Data}],
         open', open' \in BOOLEAN, held' \subseteq 0 .. NumBlocks - 1,
         NEW n \in Nat, NEW path \in [1 .. n -> 0 .. NumBlocks - 1], IsFreeList(n, path)'
  PROVE  FreeListInv'
BY DEF FreeListInv

\* The links of create_pool, of an allocation, of a freed block and of a write.
LEMMA CreatedList ==
  ASSUME FreeListInv, FreeList!create_pool
  PROVE  FreeListInv'
<1> USE PoolsAssumption DEF FreeListInv, FreeList!create_pool, FreeList!Blocks
<1> DEFINE path == [k \in 1 .. NumBlocks |-> NumBlocks - k]
<1>1. path \in [1 .. NumBlocks -> 0 .. NumBlocks - 1]
  OBVIOUS
<1>2. IsFreeList(NumBlocks, path)'
  <2>1. \A j, k \in 1 .. NumBlocks : path[j] = path[k] => j = k
    OBVIOUS
  <2>2. \A b \in 0 .. NumBlocks - 1 : \E k \in 1 .. NumBlocks : path[k] = b
    <3> TAKE b \in 0 .. NumBlocks - 1
    <3>1. NumBlocks - b \in 1 .. NumBlocks /\ path[NumBlocks - b] = b
      OBVIOUS
    <3> QED
      BY <3>1
  <2>3. held' = {}
    OBVIOUS
  <2>4. list' = IF NumBlocks = 0 THEN NULL ELSE path[1]
    OBVIOUS
  <2>5. \A k \in 1 .. NumBlocks :
          memory'[path[k]] = IF k = NumBlocks THEN NULL ELSE path[k + 1]
    OBVIOUS
  <2> HIDE DEF path
  <2> QED
    BY <2>1, <2>2, <2>3, <2>4, <2>5 DEF IsFreeList
<1>3. memory' \in [0 .. NumBlocks - 1 -> (0 .. NumBlocks - 1) \cup {NULL, Data}]
  OBVIOUS
<1> HIDE DEF path
<1>4. \E n \in Nat : \E p \in [1 .. n -> 0 .. NumBlocks - 1] : IsFreeList(n, p)'
  BY <1>1, <1>2
<1> QED
  BY <1>3, <1>4

\* A block is taken off the list.
LEMMA AllocatedList ==
  ASSUME FreeListInv, FreeList!pool_alloc
  PROVE  /\ FreeListInv'
         /\ list = NULL => held = 0 .. NumBlocks - 1
         /\ list # NULL => list \in (0 .. NumBlocks - 1) \ held
<1> USE PoolsAssumption DEF FreeListInv, FreeList!pool_alloc, FreeList!Blocks
<1>1. PICK n \in Nat : \E path \in [1 .. n -> 0 .. NumBlocks - 1] : IsFreeList(n, path)
  OBVIOUS
<1>2. PICK path \in [1 .. n -> 0 .. NumBlocks - 1] : IsFreeList(n, path)
  BY <1>1
<1>3. CASE n = 0
  <2>1. list = NULL
    BY <1>2, <1>3 DEF IsFreeList
  <2>2. \A b \in 0 .. NumBlocks - 1 : b \in held
    BY <1>2, <1>3 DEF IsFreeList
  <2>3. memory' = memory /\ list' = list /\ open' = open /\ held' = held
    BY <2>1
  <2>4. IsFreeList(n, path)'
    BY <1>2, <2>3 DEF IsFreeList
  <2>5. /\ memory' \in [0 .. NumBlocks - 1 -> (0 .. NumBlocks - 1) \cup {NULL, Data}]
        /\ open' /\ open' \in BOOLEAN /\ held' \subseteq 0 .. NumBlocks - 1
    BY <2>3
  <2> HIDE DEF FreeListInv, FreeList!pool_alloc
  <2>6. FreeListInv'
    BY <2>4, <2>5, FreeListAgain
  <2>7. held = 0 .. NumBlocks - 1
    BY <2>2 DEF FreeListInv
  <2> QED
    BY <2>1, <2>6, <2>7
<1>4. CASE n # 0
  <2> DEFINE rest == [k \in 1 .. n - 1 |-> path[k + 1]]
  <2>1. list = path[1] /\ list \in 0 .. NumBlocks - 1 /\ list \notin held /\ list # NULL
    BY <1>2, <1>4 DEF IsFreeList
  <2>2. rest \in [1 .. n - 1 -> 0 .. NumBlocks - 1] /\ n - 1 \in Nat
    BY <1>4
  <2>3. /\ list' = memory[list] /\ held' = held \cup {list}
        /\ memory' = memory /\ open' = open
    BY <2>1 DEF FreeList!NewHead
  <2>4. IsFreeList(n - 1, rest)'
    <3>1. \A j, k \in 1 .. n - 1 : rest[j] = rest[k] => j = k
      BY <1>2 DEF IsFreeList
    <3>2. \A b \in 0 .. NumBlocks - 1 : b \notin held' => \E k \in 1 .. n - 1 : rest[k] = b
      <4> SUFFICES ASSUME NEW b \in 0 .. NumBlocks - 1, b \notin held'
                   PROVE  \E k \in 1 .. n - 1 : rest[k] = b
        OBVIOUS
      <4>1. PICK k \in 1 .. n : path[k] = b
        BY <1>2, <2>3 DEF IsFreeList
      <4>2. k - 1 \in 1 .. n - 1 /\ rest[k - 1] = b
        BY <2>1, <2>3, <4>1
      <4> QED
        BY <4>2
    <3>3. \A k \in 1 .. n - 1 : rest[k] \notin held'
      BY <1>2, <2>1, <2>3 DEF IsFreeList
    <3>4. list' = IF n - 1 = 0 THEN NULL ELSE rest[1]
      BY <1>2, <1>4, <2>1, <2>3 DEF IsFreeList
    <3>5. \A k \in 1 .. n - 1 : memory[rest[k]] = IF k = n - 1 THEN NULL ELSE rest[k + 1]
      BY <1>2 DEF IsFreeList
    <3> HIDE DEF rest
    <3> QED
      BY <2>3, <3>1, <3>2, <3>3, <3>4, <3>5 DEF IsFreeList
  <2> HIDE DEF rest
  <2>5. FreeListInv'
    <3>1. PICK m \in Nat : m = n - 1
      BY <2>2
    <3>2. rest \in [1 .. m -> 0 .. NumBlocks - 1] /\ IsFreeList(m, rest)'
      BY <2>2, <2>4, <3>1
    <3>3. memory' \in [0 .. NumBlocks - 1 -> (0 .. NumBlocks - 1) \cup {NULL, Data}]
      BY <2>3
    <3>4. open' /\ open' \in BOOLEAN
      BY <2>3
    <3>5. held' \subseteq 0 .. NumBlocks - 1
      BY <2>1, <2>3
    <3> QED
      BY <3>2, <3>3, <3>4, <3>5, FreeListAgain
  <2> QED
    BY <2>1, <2>5
<1> QED
  BY <1>3, <1>4

\* A block is put back at the head of the list.
LEMMA FreedList ==
  ASSUME FreeListInv, NEW b \in 0 .. NumBlocks - 1, FreeList!pool_free(b)
  PROVE  FreeListInv'
<1> USE PoolsAssumption
<1>1. /\ b \in held /\ memory' = [memory EXCEPT ![b] = list]
      /\ list' = b /\ held' = held \ {b} /\ open' = open
  BY DEF FreeList!pool_free
<1>2. open /\ open \in BOOLEAN
  BY <1>1 DEF FreeListInv
<1>3. PICK n \in Nat : \E path \in [1 .. n -> 0 .. NumBlocks - 1] : IsFreeList(n, path)
  BY <1>2 DEF FreeListInv
<1>4. PICK path \in [1 .. n -> 0 .. NumBlocks - 1] : IsFreeList(n, path)
  BY <1>3
<1>5. PICK m \in Nat : m = n + 1
  OBVIOUS
<1> DEFINE longer == [k \in 1 .. m |-> IF k = 1 THEN b ELSE path[k - 1]]
<1>6. longer \in [1 .. m -> 0 .. NumBlocks - 1]
  BY <1>5
<1>7. \A k \in 1 .. n : path[k] \in 0 .. NumBlocks - 1 /\ path[k] # b /\ path[k] \notin held
  BY <1>1, <1>4 DEF IsFreeList
<1>8. IsFreeList(m, longer)'
  <2>1. \A j, k \in 1 .. m : longer[j] = longer[k] => j = k
    <3> SUFFICES ASSUME NEW j \in 1 .. m, NEW k \in 1 .. m, longer[j] = longer[k] PROVE j = k
      OBVIOUS
    <3>1. CASE j = 1 \/ k = 1
      BY <1>5, <1>7, <3>1
    <3>2. CASE j # 1 /\ k # 1
      <4>1. j - 1 \in 1 .. n /\ k - 1 \in 1 .. n /\ path[j - 1] = path[k - 1]
        BY <1>5, <3>2
      <4>2. j - 1 = k - 1
        BY <1>4, <4>1 DEF IsFreeList
      <4> QED
        BY <4>2
    <3> QED
      BY <3>1, <3>2
  <2>2. \A c \in 0 .. NumBlocks - 1 : c \notin held' => \E k \in 1 .. m : longer[k] = c
    <3> SUFFICES ASSUME NEW c \in 0 .. NumBlocks - 1, c \notin held'
                 PROVE  \E k \in 1 .. m : longer[k] = c
      OBVIOUS
    <3>1. CASE c = b
      <4>1. 1 \in 1 .. m /\ longer[1] = c
        BY <1>5, <3>1
      <4> QED
        BY <4>1
    <3>2. CASE c # b
      <4>1. PICK k \in 1 .. n : path[k] = c
        BY <1>1, <1>4, <3>2 DEF IsFreeList
      <4>2. k + 1 \in 1 .. m /\ longer[k + 1] = c
        BY <1>5, <4>1
      <4> QED
        BY <4>2
    <3> QED
      BY <3>1, <3>2
  <2>3. \A k \in 1 .. m : longer[k] \notin held'
    <3> TAKE k \in 1 .. m
    <3>1. CASE k = 1
      BY <1>1, <3>1
    <3>2. CASE k # 1
      BY <1>1, <1>5, <1>7, <3>2
    <3> QED
      BY <3>1, <3>2
  <2>4. m # 0 /\ list' = longer[1]
    BY <1>1, <1>5
  <2>5. \A k \in 1 .. m : memory'[longer[k]] = IF k = m THEN NULL ELSE longer[k + 1]
    <3> TAKE k \in 1 .. m
    <3>1. CASE k = 1
      <4>1. longer[1] = b /\ memory'[b] = list
        BY <1>1, <1>5 DEF FreeListInv
      <4>2. list = IF m = 1 THEN NULL ELSE longer[2]
        BY <1>4, <1>5 DEF IsFreeList
      <4> QED
        BY <3>1, <4>1, <4>2
    <3>2. CASE k # 1
      <4>1. k - 1 \in 1 .. n /\ longer[k] = path[k - 1]
        BY <1>5, <3>2
      <4>2. memory'[path[k - 1]] = memory[path[k - 1]]
        BY <1>1, <1>7, <4>1 DEF FreeListInv
      <4>3. memory[path[k - 1]] = IF k - 1 = n THEN NULL ELSE path[(k - 1) + 1]
        BY <1>4, <4>1 DEF IsFreeList
      <4>4. k # m => longer[k + 1] = path[(k - 1) + 1]
        BY <1>5, <3>2
      <4> QED
        BY <1>5, <4>1, <4>2, <4>3, <4>4
    <3> QED
      BY <3>1, <3>2
  <2> HIDE DEF longer
  <2> QED
    BY <2>1, <2>2, <2>3, <2>4, <2>5 DEF IsFreeList
<1> HIDE DEF longer
<1>9. memory' \in [0 .. NumBlocks - 1 -> (0 .. NumBlocks - 1) \cup {NULL, Data}]
  <2>1. list \in (0 .. NumBlocks - 1) \cup {NULL}
    BY <1>4 DEF IsFreeList
  <2> QED
    BY <1>1, <2>1 DEF FreeListInv
<1>10. open' /\ open' \in BOOLEAN
  BY <1>1, <1>2
<1>11. held' \subseteq 0 .. NumBlocks - 1
  BY <1>1 DEF FreeListInv
<1> QED
  BY <1>6, <1>8, <1>9, <1>10, <1>11, FreeListAgain

\* The program writes into a block it holds.
LEMMA WrittenList ==
  ASSUME FreeListInv, NEW b \in 0 .. NumBlocks - 1, FreeList!WriteBlock(b)
  PROVE  FreeListInv'
<1>1. /\ b \in held /\ memory' = [memory EXCEPT ![b] = Data]
      /\ list' = list /\ held' = held /\ open' = open
  BY DEF FreeList!WriteBlock
<1>2. open /\ open \in BOOLEAN
  BY <1>1 DEF FreeListInv
<1>3. PICK n \in Nat : \E path \in [1 .. n -> 0 .. NumBlocks - 1] : IsFreeList(n, path)
  BY <1>2 DEF FreeListInv
<1>4. PICK path \in [1 .. n -> 0 .. NumBlocks - 1] : IsFreeList(n, path)
  BY <1>3
<1>5. \A k \in 1 .. n : path[k] \in 0 .. NumBlocks - 1 /\ path[k] # b
  BY <1>1, <1>4 DEF IsFreeList
<1>6. \A k \in 1 .. n : memory'[path[k]] = memory[path[k]]
  BY <1>1, <1>5 DEF FreeListInv
<1>7. IsFreeList(n, path)'
  BY <1>1, <1>4, <1>6 DEF IsFreeList
<1>8. memory' \in [0 .. NumBlocks - 1 -> (0 .. NumBlocks - 1) \cup {NULL, Data}]
  BY <1>1 DEF FreeListInv
<1>9. open' /\ open' \in BOOLEAN
  BY <1>1, <1>2
<1>10. held' \subseteq 0 .. NumBlocks - 1
  BY <1>1 DEF FreeListInv
<1> QED
  BY <1>7, <1>8, <1>9, <1>10, FreeListAgain

\* The list through the free blocks implements the allocator, whatever the
\* program writes to the blocks it holds, and pool_free_count counts its blocks.
THEOREM FreeListImplements == Spec => FreeList!Implements
<1>1. Init => FreeListInv /\ FreeList!Pool!Init
  BY PoolsAssumption
  DEF Init, FreeList!Init, FreeList!Blocks, FreeListInv, FreeList!Pool!Init
<1>2. FreeListInv /\ [Next]_vars => FreeListInv' /\ [FreeList!Pool!Next]_<<held, block>>
  <2> SUFFICES ASSUME FreeListInv, [FreeList!Next]_freeList
               PROVE  FreeListInv' /\ [FreeList!Pool!Next]_<<held, block>>
    BY Frame
  <2> USE DEF FreeList!Blocks
  <2>1. CASE FreeList!create_pool
    <3>1. UNCHANGED <<held, block>>
      BY <2>1 DEF FreeList!create_pool
    <3> QED
      BY <2>1, <3>1, CreatedList
  <2>2. CASE FreeList!destroy_pool
    <3>1. FreeList!Pool!Discard
      BY <2>2 DEF FreeList!destroy_pool, FreeList!Pool!Discard
    <3>2. FreeListInv'
      BY <2>2 DEF FreeList!destroy_pool, FreeListInv
    <3> QED
      BY <3>1, <3>2 DEF FreeList!Pool!Next
  <2>3. CASE FreeList!pool_alloc /\ list = NULL
    <3>1. FreeList!Pool!Exhausted /\ FreeListInv'
      BY <2>3, AllocatedList DEF FreeList!pool_alloc, FreeList!Pool!Exhausted
    <3> QED
      BY <3>1 DEF FreeList!Pool!Next
  <2>4. CASE FreeList!pool_alloc /\ list # NULL
    <3>1. PICK b \in 0 .. NumBlocks - 1 : b = list /\ b \notin held
      BY <2>4, AllocatedList
    <3>2. FreeList!Pool!Allocate(b) /\ FreeListInv'
      BY <2>4, <3>1, AllocatedList DEF FreeList!pool_alloc, FreeList!Pool!Allocate
    <3> QED
      BY <3>2 DEF FreeList!Pool!Next
  <2>5. ASSUME NEW b \in 0 .. NumBlocks - 1, FreeList!pool_free(b)
        PROVE  FreeListInv' /\ FreeList!Pool!Release(b)
    BY <2>5, FreedList DEF FreeList!pool_free, FreeList!Pool!Release
  <2>6. ASSUME NEW b \in 0 .. NumBlocks - 1, FreeList!WriteBlock(b)
        PROVE  FreeListInv' /\ UNCHANGED <<held, block>>
    BY <2>6, WrittenList DEF FreeList!WriteBlock
  <2>7. CASE UNCHANGED freeList
    <3>1. memory' = memory /\ list' = list /\ open' = open /\ held' = held /\ block' = block
      BY <2>7 DEF freeList
    <3>2. \A n, path : IsFreeList(n, path)' <=> IsFreeList(n, path)
      BY <3>1 DEF IsFreeList
    <3>3. FreeListInv'
      BY <3>1, <3>2 DEF FreeListInv
    <3> QED
      BY <3>1, <3>3
  <2>8. CASE FreeList!CreateFails
    BY <2>7, <2>8 DEF FreeList!CreateFails, FreeList!vars, freeList
  <2> QED
    BY <2>1, <2>2, <2>3, <2>4, <2>5, <2>6, <2>7, <2>8 DEF FreeList!Next, FreeList!Pool!Next
<1>3. Cardinality(held) = FreeList!Cardinality(held)
  BY DEF Cardinality, FreeList!Cardinality
<1>4. FreeListInv => (open => FreeList!pool_free_count = NumBlocks - FreeList!Cardinality(held))
  BY <1>3, FreeCount
<1> QED
  BY <1>1, <1>2, <1>4, PTL DEF Spec, FreeList!Implements, FreeList!Pool!Spec

\* Both pools of fixed-size blocks implement the allocator: no block is handed
\* out twice, and NULL is returned only when every block is held.
THEOREM PoolsAlwaysImplement == Spec => PoolsImplement
BY FreeListImplements, NextFitImplements DEF PoolsImplement
-----------------------------------------------------------------------------
(* TimerDynamicArray.cpp                                                   *)

InInterrupt == timerPc \in {"interrupt", "callback"}

\* The handle h is in the slot of time t, and the interrupt, if it is there,
\* has not finished with it.
IsLive(h, t) ==
  \E k \in 1 .. Len(timeToCallbacks[t]) :
    /\ timeToCallbacks[t][k] = h
    /\ InInterrupt /\ t = currentTime => k >= at

TimerTypes ==
  /\ nextHandle \in Nat \ {0}
  /\ currentTime \in Nat
  /\ at \in Nat
  /\ timerPc \in {"idle", "advance", "interrupt", "callback"}
  /\ due \in Seq(Nat) /\ Len(due) = nextHandle - 1
  /\ fired \in Seq(Nat \X Nat)

\* Every slot holds handles registered for its time, in their order, and its
\* time is to come or the interrupt's.
SlotsSound ==
  \A t \in DOMAIN timeToCallbacks :
    /\ t \in Nat
    /\ timeToCallbacks[t] \in Seq(Nat) /\ timeToCallbacks[t] # << >>
    /\ \A k \in 1 .. Len(timeToCallbacks[t]) :
         /\ timeToCallbacks[t][k] \in 1 .. nextHandle - 1
         /\ due[timeToCallbacks[t][k]] = t
    /\ \A j, k \in 1 .. Len(timeToCallbacks[t]) :
         j < k => timeToCallbacks[t][j] < timeToCallbacks[t][k]
    /\ t > currentTime \/ (t = currentTime /\ InInterrupt)

\* The loop of the interrupt reads the slot of the time, which does not change.
LoopSound ==
  InInterrupt =>
    /\ currentTime \in DOMAIN timeToCallbacks
    /\ batch = timeToCallbacks[currentTime]
    /\ at \in 1 .. Len(batch) + 1
    /\ timerPc = "callback" =>
         /\ at <= Len(batch) /\ handle = batch[at]
         /\ \E n \in 1 .. Len(fired) : fired[n][1] = batch[at]

HandlesSound ==
  /\ DOMAIN handleToTime \subseteq 1 .. nextHandle - 1
  /\ \A h \in 1 .. nextHandle - 1 :
       h \in DOMAIN handleToTime <=> \E t \in DOMAIN timeToCallbacks : IsLive(h, t)
  /\ \A h \in DOMAIN handleToTime : handleToTime[h] = due[h]

FiredSound ==
  /\ \A n \in 1 .. Len(fired) :
       /\ fired[n][1] \in 1 .. nextHandle - 1
       /\ fired[n][2] = due[fired[n][1]]
       /\ fired[n][2] <= currentTime
       /\ InInterrupt /\ fired[n][2] = currentTime =>
            \E k \in 1 .. Len(batch) :
              /\ fired[n][1] = batch[k]
              /\ k < at \/ (k = at /\ timerPc = "callback")
  /\ \A m, n \in 1 .. Len(fired) : m < n =>
       \/ fired[m][2] < fired[n][2]
       \/ fired[m][2] = fired[n][2] /\ fired[m][1] < fired[n][1]

NoneForgotten ==
  \A h \in 1 .. nextHandle - 1 :
    \/ h \in removed
    \/ h \in DOMAIN handleToTime
    \/ \E n \in 1 .. Len(fired) : fired[n][1] = h

RegisterSound ==
  ~InInterrupt => \A t \in DOMAIN timeToCallbacks : hwRegister <= t

TimerInv ==
  /\ TimerTypes /\ SlotsSound /\ LoopSound /\ HandlesSound
  /\ FiredSound /\ NoneForgotten /\ RegisterSound

\* Outside the interrupt nothing but the tables matters.
LEMMA AdvancedTimers ==
  ASSUME TimerInv, Timers!advanceTime(newTime') \/ Timers!AdvanceEnds
  PROVE  TimerInv'
<1>1. /\ ~InInterrupt /\ ~InInterrupt' /\ timerPc' \in {"idle", "advance"}
      /\ UNCHANGED <<timeToCallbacks, handleToTime, nextHandle, currentTime, hwRegister,
                     batch, at, handle, due, fired, removed>>
  BY DEF Timers!advanceTime, Timers!AdvanceEnds, Timers!tables, Timers!history, InInterrupt
<1>2. \A h, t : IsLive(h, t)' <=> IsLive(h, t)
  BY <1>1 DEF IsLive
<1>3. TimerTypes' /\ SlotsSound' /\ LoopSound' /\ NoneForgotten' /\ RegisterSound'
  BY <1>1 DEF TimerInv, TimerTypes, SlotsSound, LoopSound, NoneForgotten, RegisterSound
<1>4. HandlesSound'
  BY <1>1, <1>2 DEF TimerInv, HandlesSound
<1>5. FiredSound'
  BY <1>1 DEF TimerInv, FiredSound
<1> QED
  BY <1>3, <1>4, <1>5 DEF TimerInv

\* A tick comes to no slot, or to the first one.
LEMMA TickedTimers ==
  ASSUME TimerInv, Timers!Tick
  PROVE  TimerInv'
<1>1. /\ ~InInterrupt /\ currentTime' = currentTime + 1
      /\ UNCHANGED <<timeToCallbacks, handleToTime, nextHandle, hwRegister, due, fired, removed>>
      /\ timerPc' \in {"advance", "interrupt"}
      /\ InInterrupt' => /\ currentTime' \in DOMAIN timeToCallbacks
                         /\ batch' = timeToCallbacks[currentTime'] /\ at' = 1
      /\ ~InInterrupt' => currentTime' \notin DOMAIN timeToCallbacks /\ at' = at
  BY DEF Timers!Tick, Timers!tables, Timers!history, InInterrupt, TimerInv, TimerTypes
<1>2. currentTime \in Nat /\ at' \in Nat
  BY <1>1 DEF TimerInv, TimerTypes
<1>3. \A h, t : t \in DOMAIN timeToCallbacks => (IsLive(h, t)' <=> IsLive(h, t))
  BY <1>1 DEF IsLive, TimerInv, SlotsSound
<1>4. TimerTypes'
  BY <1>1, <1>2 DEF TimerInv, TimerTypes
<1>5. SlotsSound'
  <2> SUFFICES ASSUME NEW t \in DOMAIN timeToCallbacks
               PROVE  t > currentTime' \/ (t = currentTime' /\ InInterrupt')
    BY <1>1 DEF TimerInv, SlotsSound
  <2>1. t \in Nat /\ t > currentTime
    BY <1>1 DEF TimerInv, SlotsSound
  <2> QED
    BY <1>1, <1>2, <2>1
<1>6. LoopSound'
  <2>1. CASE InInterrupt'
    <3>1. timerPc' = "interrupt"
      BY <1>1, <2>1 DEF InInterrupt
    <3>2. Len(batch') \in Nat
      BY <1>1, <2>1 DEF TimerInv, SlotsSound
    <3> QED
      BY <1>1, <2>1, <3>1, <3>2 DEF LoopSound
  <2>2. CASE ~InInterrupt'
    BY <2>2 DEF LoopSound
  <2> QED
    BY <2>1, <2>2
<1>7. HandlesSound' /\ NoneForgotten' /\ RegisterSound'
  BY <1>1, <1>3 DEF TimerInv, HandlesSound, NoneForgotten, RegisterSound
<1>8. FiredSound'
  <2>1. \A n \in 1 .. Len(fired) : fired[n][2] \in Nat /\ fired[n][2] < currentTime'
    BY SMTT(30), <1>1, <1>2 DEF TimerInv, TimerTypes, FiredSound
  <2> QED
    BY <1>1, <1>2, <2>1 DEF TimerInv, FiredSound
<1> QED
  BY <1>4, <1>5, <1>6, <1>7, <1>8 DEF TimerInv

\* A callback is executed when its time has come, after all the earlier ones.
LEMMA ExecutedTimers ==
  ASSUME TimerInv, Timers!Execute
  PROVE  TimerInv'
<1> DEFINE new == <<batch[at], currentTime>>
<1>1. /\ timerPc = "interrupt" /\ timerPc' = "callback" /\ InInterrupt /\ InInterrupt'
      /\ at <= Len(batch) /\ handle' = batch[at] /\ fired' = Append(fired, new)
      /\ UNCHANGED <<timeToCallbacks, handleToTime, nextHandle, hwRegister, currentTime,
                     batch, at, due, removed>>
  BY DEF Timers!Execute, Timers!tables, InInterrupt
<1>2. /\ currentTime \in DOMAIN timeToCallbacks /\ currentTime \in Nat
      /\ batch = timeToCallbacks[currentTime] /\ batch \in Seq(Nat) /\ at \in 1 .. Len(batch)
      /\ fired \in Seq(Nat \X Nat)
  BY <1>1 DEF TimerInv, LoopSound, SlotsSound, TimerTypes
<1>3. /\ batch[at] \in Nat /\ batch[at] \in 1 .. nextHandle - 1 /\ due[batch[at]] = currentTime
      /\ \A k \in 1 .. Len(batch) : k < at => batch[k] < batch[at]
  <2>1. /\ \A k \in 1 .. Len(batch) :
             batch[k] \in 1 .. nextHandle - 1 /\ due[batch[k]] = currentTime
        /\ \A j, k \in 1 .. Len(batch) : j < k => batch[j] < batch[k]
    BY <1>2 DEF TimerInv, SlotsSound
  <2>2. batch[at] \in Nat
    BY <1>2
  <2> QED
    BY <1>2, <2>1, <2>2
<1>4. /\ new \in Nat \X Nat /\ new[1] = batch[at] /\ new[2] = currentTime
      /\ Len(fired') = Len(fired) + 1 /\ Len(fired) \in Nat /\ fired' \in Seq(Nat \X Nat)
      /\ fired'[Len(fired) + 1] = new
      /\ \A n \in 1 .. Len(fired) : fired'[n] = fired[n]
  BY <1>1, <1>2, <1>3
<1> HIDE DEF new
<1>5. \A h, t : IsLive(h, t)' <=> IsLive(h, t)
  BY <1>1 DEF IsLive
<1>6. TimerTypes' /\ RegisterSound'
  BY <1>1, <1>4 DEF TimerInv, TimerTypes, RegisterSound
<1>7. SlotsSound'
  BY <1>1 DEF TimerInv, SlotsSound
<1>8. HandlesSound'
  BY <1>1, <1>5 DEF TimerInv, HandlesSound
<1>9. LoopSound'
  <2>1. \E n \in 1 .. Len(fired') : fired'[n][1] = batch[at]
    BY SMTT(30), <1>4
  <2> QED
    BY <1>1, <1>2, <2>1 DEF LoopSound
<1>10. NoneForgotten'
  <2> SUFFICES ASSUME NEW h \in 1 .. nextHandle - 1, h \notin removed, h \notin DOMAIN handleToTime
               PROVE  \E n \in 1 .. Len(fired') : fired'[n][1] = h
    BY <1>1 DEF NoneForgotten
  <2>1. PICK n \in 1 .. Len(fired) : fired[n][1] = h
    BY DEF TimerInv, NoneForgotten
  <2> QED
    BY SMTT(30), <1>4, <2>1
<1>11. FiredSound'
  <2>1. \A n \in 1 .. Len(fired) :
          /\ fired[n][1] \in Nat /\ fired[n][2] \in Nat
          /\ fired[n][2] < currentTime \/ (fired[n][2] = currentTime /\ fired[n][1] < batch[at])
    <3> TAKE n \in 1 .. Len(fired)
    <3>1. fired[n][1] \in Nat /\ fired[n][2] \in Nat /\ fired[n][2] <= currentTime
      BY <1>2 DEF TimerInv, FiredSound
    <3>2. ASSUME fired[n][2] = currentTime PROVE fired[n][1] < batch[at]
      <4>1. PICK k \in 1 .. Len(batch) : fired[n][1] = batch[k] /\ k < at
        BY <1>1, <3>2 DEF TimerInv, FiredSound
      <4> QED
        BY <1>3, <4>1
    <3> QED
      BY <1>2, <3>1, <3>2
  <2>2. ASSUME NEW n \in 1 .. Len(fired')
        PROVE  /\ fired'[n][1] \in 1 .. nextHandle - 1
               /\ fired'[n][2] = due[fired'[n][1]]
               /\ fired'[n][2] <= currentTime
               /\ fired'[n][2] = currentTime =>
                    \E k \in 1 .. Len(batch) : fired'[n][1] = batch[k] /\ (k < at \/ k = at)
    <3>1. CASE n = Len(fired) + 1
      BY <1>2, <1>3, <1>4, <3>1
    <3>2. CASE n \in 1 .. Len(fired)
      BY <1>1, <1>4, <3>2 DEF TimerInv, FiredSound
    <3> QED
      BY <1>4, <2>2, <3>1, <3>2
  <2>3. ASSUME NEW m \in 1 .. Len(fired'), NEW n \in 1 .. Len(fired'), m < n
        PROVE  \/ fired'[m][2] < fired'[n][2]
               \/ fired'[m][2] = fired'[n][2] /\ fired'[m][1] < fired'[n][1]
    <3>1. CASE n = Len(fired) + 1
      <4>1. m \in 1 .. Len(fired)
        BY <1>4, <2>3, <3>1
      <4> QED
        BY <1>4, <2>1, <3>1, <4>1
    <3>2. CASE n \in 1 .. Len(fired)
      <4>1. m \in 1 .. Len(fired)
        BY <1>4, <2>3, <3>2
      <4>2. \/ fired[m][2] < fired[n][2]
            \/ fired[m][2] = fired[n][2] /\ fired[m][1] < fired[n][1]
        BY <2>3, <3>2, <4>1 DEF TimerInv, FiredSound
      <4>3. fired'[m] = fired[m] /\ fired'[n] = fired[n]
        BY <1>4, <3>2, <4>1
      <4> QED
        BY <4>2, <4>3
    <3> QED
      BY <1>4, <2>3, <3>1, <3>2
  <2> QED
    BY <1>1, <2>2, <2>3 DEF FiredSound
<1> QED
  BY <1>6, <1>7, <1>8, <1>9, <1>10, <1>11 DEF TimerInv

\* A handle stays valid until its callback has returned.
LEMMA ReturnedTimers ==
  ASSUME TimerInv, Timers!CallbackReturns
  PROVE  TimerInv'
<1>1. /\ timerPc = "callback" /\ timerPc' = "interrupt" /\ InInterrupt /\ InInterrupt'
      /\ at' = at + 1
      /\ handle = batch[at] /\ DOMAIN handleToTime' = DOMAIN handleToTime \ {batch[at]}
      /\ \A h \in DOMAIN handleToTime' : handleToTime'[h] = handleToTime[h]
      /\ UNCHANGED <<timeToCallbacks, nextHandle, hwRegister, currentTime,
                     batch, due, fired, removed>>
  BY DEF Timers!CallbackReturns, Timers!Erase, Timers!history, InInterrupt, TimerInv, LoopSound
<1>2. /\ currentTime \in DOMAIN timeToCallbacks
      /\ batch = timeToCallbacks[currentTime] /\ at \in 1 .. Len(batch) /\ Len(batch) \in Nat
      /\ \E n \in 1 .. Len(fired) : fired[n][1] = batch[at]
  BY <1>1 DEF TimerInv, LoopSound, SlotsSound
<1>3. /\ \A k \in 1 .. Len(batch) : batch[k] \in Nat /\ due[batch[k]] = currentTime
      /\ \A j, k \in 1 .. Len(batch) : j < k => batch[j] < batch[k]
  BY SMTT(30), <1>2 DEF TimerInv, SlotsSound
<1>4. TimerTypes' /\ RegisterSound'
  BY <1>1 DEF TimerInv, TimerTypes, RegisterSound
<1>5. SlotsSound'
  BY <1>1 DEF TimerInv, SlotsSound
<1>6. LoopSound'
  BY <1>1, <1>2 DEF LoopSound
<1>7. \A k \in 1 .. Len(batch) : batch[k] = batch[at] => k = at
  BY <1>2, <1>3
<1>8. ASSUME NEW h, NEW t \in DOMAIN timeToCallbacks
      PROVE  IsLive(h, t)' <=> IsLive(h, t) /\ h # batch[at]
  <2>1. CASE t = currentTime
    <3>1. IsLive(h, t) <=> \E k \in 1 .. Len(batch) : batch[k] = h /\ k >= at
      BY <1>1, <1>2, <2>1 DEF IsLive
    <3>2. IsLive(h, t)' <=> \E k \in 1 .. Len(batch) : batch[k] = h /\ k >= at + 1
      BY <1>1, <1>2, <2>1 DEF IsLive
    <3> QED
      BY <1>2, <1>7, <3>1, <3>2
  <2>2. CASE t # currentTime
    <3>1. IsLive(h, t)' <=> IsLive(h, t)
      BY <1>1, <2>2 DEF IsLive
    <3>2. IsLive(h, t) => due[h] = t
      BY DEF IsLive, TimerInv, SlotsSound
    <3> QED
      BY <1>2, <1>3, <2>2, <3>1, <3>2
  <2> QED
    BY <2>1, <2>2
<1>9. HandlesSound'
  BY <1>1, <1>8 DEF TimerInv, HandlesSound
<1>10. NoneForgotten'
  BY <1>1, <1>2 DEF TimerInv, NoneForgotten
<1>11. FiredSound'
  <2> SUFFICES ASSUME NEW n \in 1 .. Len(fired), fired[n][2] = currentTime
               PROVE  \E k \in 1 .. Len(batch) : fired[n][1] = batch[k] /\ k < at + 1
    BY <1>1 DEF TimerInv, FiredSound
  <2>1. PICK k \in 1 .. Len(batch) : fired[n][1] = batch[k] /\ (k < at \/ k = at)
    BY <1>1 DEF TimerInv, FiredSound
  <2> QED
    BY <1>2, <2>1
<1> QED
  BY <1>4, <1>5, <1>6, <1>9, <1>10, <1>11 DEF TimerInv

\* The register is written with no time after any slot's.
LEMMA RegisterIsEarliest ==
  ASSUME NEW slots, DOMAIN slots \subseteq Nat, Timers!SetEarliest(slots)
  PROVE  \A t \in DOMAIN slots : hwRegister' <= t
<1> SUFFICES ASSUME NEW t \in DOMAIN slots PROVE hwRegister' <= t
  OBVIOUS
<1>1. slots # << >>
  OBVIOUS
<1>2. hwRegister' = Timers!Min(DOMAIN slots)
  BY <1>1 DEF Timers!SetEarliest
<1>3. Timers!Min(DOMAIN slots) = Min(DOMAIN slots)
  BY DEF Timers!Min, Min
<1>4. Min(DOMAIN slots) <= t
  BY MinProperties
<1> QED
  BY <1>2, <1>3, <1>4

\* The slot goes when every one of its callbacks has been executed.
LEMMA EndedTimers ==
  ASSUME TimerInv, Timers!InterruptEnds
  PROVE  TimerInv'
<1>1. /\ timerPc = "interrupt" /\ timerPc' = "advance" /\ InInterrupt /\ ~InInterrupt'
      /\ at > Len(batch) /\ at' = 0
      /\ DOMAIN timeToCallbacks' = DOMAIN timeToCallbacks \ {currentTime}
      /\ \A t \in DOMAIN timeToCallbacks' : timeToCallbacks'[t] = timeToCallbacks[t]
      /\ Timers!SetEarliest(timeToCallbacks')
      /\ UNCHANGED <<handleToTime, nextHandle, currentTime, due, fired, removed>>
  BY DEF Timers!InterruptEnds, Timers!Erase, Timers!history, InInterrupt
<1>2. batch = timeToCallbacks[currentTime] /\ Len(batch) \in Nat /\ at \in Nat
  BY <1>1 DEF TimerInv, LoopSound, SlotsSound, TimerTypes
<1>3. ASSUME NEW h, NEW t \in DOMAIN timeToCallbacks
      PROVE  IsLive(h, t) <=> t \in DOMAIN timeToCallbacks' /\ IsLive(h, t)'
  <2>1. CASE t = currentTime
    BY <1>1, <1>2, <2>1 DEF IsLive
  <2>2. CASE t # currentTime
    BY <1>1, <2>2 DEF IsLive
  <2> QED
    BY <2>1, <2>2
<1>4. TimerTypes' /\ LoopSound' /\ NoneForgotten'
  BY <1>1 DEF TimerInv, TimerTypes, LoopSound, NoneForgotten
<1>5. SlotsSound'
  BY <1>1 DEF TimerInv, SlotsSound
<1>6. HandlesSound'
  BY <1>1, <1>3 DEF TimerInv, HandlesSound
<1>7. FiredSound'
  BY <1>1 DEF TimerInv, FiredSound
<1>8. RegisterSound'
  <2>1. PICK slots : slots = timeToCallbacks'
    OBVIOUS
  <2>2. DOMAIN slots \subseteq Nat
    BY <1>1, <2>1 DEF TimerInv, SlotsSound
  <2> QED
    BY <1>1, <2>1, <2>2, RegisterIsEarliest DEF RegisterSound
<1> QED
  BY <1>4, <1>5, <1>6, <1>7, <1>8 DEF TimerInv

\* A new event comes last in its slot, which is not the one the interrupt is in.
LEMMA AddedTimers ==
  ASSUME TimerInv, NEW time \in 1 .. MaxTime, Timers!timerAddEvent(time)
  PROVE  TimerInv'
<1> DEFINE was == IF time \in DOMAIN timeToCallbacks THEN timeToCallbacks[time] ELSE << >>
<1>1. /\ time > currentTime /\ time \in Nat /\ nextHandle' = nextHandle + 1
      /\ DOMAIN timeToCallbacks' = DOMAIN timeToCallbacks \cup {time}
      /\ timeToCallbacks'[time] = Append(was, nextHandle)
      /\ \A t \in DOMAIN timeToCallbacks : t # time => timeToCallbacks'[t] = timeToCallbacks[t]
      /\ DOMAIN handleToTime' = DOMAIN handleToTime \cup {nextHandle}
      /\ handleToTime'[nextHandle] = time
      /\ \A h \in DOMAIN handleToTime : h # nextHandle => handleToTime'[h] = handleToTime[h]
      /\ due' = Append(due, time)
      /\ UNCHANGED <<currentTime, timerPc, batch, at, handle, fired, removed>>
  BY TimersAssumption
  DEF Timers!timerAddEvent, Timers!AddInTime, Timers!Assign, Timers!PushBack, Timers!Slot, Timers!loops
<1>2. /\ nextHandle \in Nat \ {0} /\ currentTime \in Nat
      /\ due \in Seq(Nat) /\ Len(due) = nextHandle - 1
  BY DEF TimerInv, TimerTypes
<1>3. /\ was \in Seq(Nat)
      /\ \A k \in 1 .. Len(was) : was[k] \in 1 .. nextHandle - 1 /\ due[was[k]] = time
      /\ \A j, k \in 1 .. Len(was) : j < k => was[j] < was[k]
  BY DEF TimerInv, SlotsSound
<1> DEFINE new == Append(was, nextHandle)
<1>4. /\ due' \in Seq(Nat) /\ Len(due') = nextHandle /\ due'[nextHandle] = time
      /\ \A h \in 1 .. nextHandle - 1 : due'[h] = due[h]
  BY <1>1, <1>2
<1> HIDE DEF was
<1>5. /\ new \in Seq(Nat) /\ Len(new) = Len(was) + 1 /\ Len(was) \in Nat /\ new # << >>
      /\ new[Len(was) + 1] = nextHandle
      /\ \A k \in 1 .. Len(was) : new[k] = was[k]
  <2>1. nextHandle \in Nat /\ was \in Seq(Nat)
    BY <1>2, <1>3
  <2> QED
    BY <2>1, AppendProperties, LenProperties
<1>6. timeToCallbacks'[time] = new
  BY <1>1
<1> HIDE DEF new
<1>7. /\ \A k \in 1 .. Len(new) : new[k] \in 1 .. nextHandle /\ due'[new[k]] = time
      /\ \A j, k \in 1 .. Len(new) : j < k => new[j] < new[k]
  <2>1. \A k \in 1 .. Len(new) : \/ k = Len(was) + 1 /\ new[k] = nextHandle
                                 \/ k \in 1 .. Len(was) /\ new[k] = was[k]
    BY <1>5
  <2>2. ASSUME NEW k \in 1 .. Len(new) PROVE new[k] \in 1 .. nextHandle /\ due'[new[k]] = time
    <3>1. CASE k = Len(was) + 1 /\ new[k] = nextHandle
      BY <1>2, <1>4, <3>1
    <3>2. CASE k \in 1 .. Len(was) /\ new[k] = was[k]
      <4>1. PICK h \in 1 .. nextHandle - 1 : h = new[k] /\ due[h] = time
        BY <1>3, <3>2
      <4> QED
        BY <1>2, <1>4, <4>1
    <3> QED
      BY <2>1, <3>1, <3>2
  <2>3. ASSUME NEW j \in 1 .. Len(new), NEW k \in 1 .. Len(new), j < k PROVE new[j] < new[k]
    <3>1. j \in 1 .. Len(was) /\ new[j] = was[j] /\ was[j] \in 1 .. nextHandle - 1
      BY <1>3, <1>5, <2>1, <2>3
    <3>2. CASE k = Len(was) + 1
      BY <1>2, <1>5, <3>1, <3>2
    <3>3. CASE k \in 1 .. Len(was)
      BY <1>3, <1>5, <2>3, <3>1, <3>3
    <3> QED
      BY <2>1, <3>2, <3>3
  <2> QED
    BY <2>2, <2>3
<1>8. TimerTypes'
  BY <1>1, <1>2, <1>4 DEF TimerInv, TimerTypes
<1>9. InInterrupt' <=> InInterrupt
  BY <1>1 DEF InInterrupt
<1>10. SlotsSound'
  <2> SUFFICES ASSUME NEW t \in DOMAIN timeToCallbacks'
               PROVE  /\ t \in Nat
                      /\ timeToCallbacks'[t] \in Seq(Nat) /\ timeToCallbacks'[t] # << >>
                      /\ \A k \in 1 .. Len(timeToCallbacks'[t]) :
                           /\ timeToCallbacks'[t][k] \in 1 .. nextHandle' - 1
                           /\ due'[timeToCallbacks'[t][k]] = t
                      /\ \A j, k \in 1 .. Len(timeToCallbacks'[t]) :
                           j < k => timeToCallbacks'[t][j] < timeToCallbacks'[t][k]
                      /\ t > currentTime' \/ (t = currentTime' /\ InInterrupt')
    BY DEF SlotsSound
  <2>1. CASE t = time
    BY <1>1, <1>2, <1>5, <1>6, <1>7, <2>1
  <2>2. CASE t # time
    <3>1. /\ t \in DOMAIN timeToCallbacks /\ timeToCallbacks'[t] = timeToCallbacks[t]
      BY <1>1, <2>2
    <3>2. /\ t \in Nat
          /\ timeToCallbacks[t] \in Seq(Nat) /\ timeToCallbacks[t] # << >>
          /\ \A k \in 1 .. Len(timeToCallbacks[t]) :
               /\ timeToCallbacks[t][k] \in 1 .. nextHandle - 1
               /\ due[timeToCallbacks[t][k]] = t
          /\ \A j, k \in 1 .. Len(timeToCallbacks[t]) :
               j < k => timeToCallbacks[t][j] < timeToCallbacks[t][k]
          /\ t > currentTime \/ (t = currentTime /\ InInterrupt)
      BY <3>1 DEF TimerInv, SlotsSound
    <3>3. \A k \in 1 .. Len(timeToCallbacks[t]) :
            /\ timeToCallbacks[t][k] \in 1 .. nextHandle
            /\ due'[timeToCallbacks[t][k]] = t
      <4> TAKE k \in 1 .. Len(timeToCallbacks[t])
      <4>1. PICK h \in 1 .. nextHandle - 1 : h = timeToCallbacks[t][k] /\ due[h] = t
        BY <3>2
      <4> QED
        BY SMTT(30), <1>2, <1>4, <4>1
    <3>4. nextHandle' - 1 = nextHandle /\ currentTime' = currentTime
      BY <1>1, <1>2
    <3> QED
      BY <1>9, <3>1, <3>2, <3>3, <3>4
  <2> QED
    BY <2>1, <2>2
<1>11. LoopSound'
  BY <1>1, <1>2, <1>9 DEF TimerInv, LoopSound
<1>12. ASSUME NEW h \in 1 .. nextHandle - 1, NEW t \in DOMAIN timeToCallbacks
       PROVE  IsLive(h, t)' <=> IsLive(h, t)
  <2>1. CASE t = time
    <3>1. IsLive(h, t) <=> \E k \in 1 .. Len(was) : was[k] = h
      BY <1>1, <1>2, <2>1 DEF IsLive, was
    <3>2. IsLive(h, t)' <=> \E k \in 1 .. Len(new) : new[k] = h
      BY <1>1, <1>2, <1>6, <2>1 DEF IsLive
    <3>3. ASSUME NEW k \in 1 .. Len(was), was[k] = h PROVE \E j \in 1 .. Len(new) : new[j] = h
      BY <1>5, <3>3
    <3>4. ASSUME NEW k \in 1 .. Len(new), new[k] = h PROVE \E j \in 1 .. Len(was) : was[j] = h
      <4>1. k # Len(was) + 1
        BY <1>2, <1>5, <3>4
      <4>2. k \in 1 .. Len(was)
        BY <1>5, <4>1
      <4> QED
        BY <1>5, <3>4, <4>2
    <3> QED
      BY <3>1, <3>2, <3>3, <3>4
  <2>2. CASE t # time
    BY <1>1, <1>9, <2>2 DEF IsLive
  <2> QED
    BY <2>1, <2>2
<1>13. ASSUME NEW h \in 1 .. nextHandle
       PROVE  h \in DOMAIN handleToTime' <=> \E t \in DOMAIN timeToCallbacks' : IsLive(h, t)'
  <2>1. CASE h = nextHandle
    <3>1. IsLive(h, time)'
      BY <1>1, <1>2, <1>5, <1>6, <2>1 DEF IsLive
    <3> QED
      BY <1>1, <2>1, <3>1
  <2>2. CASE h \in 1 .. nextHandle - 1
    <3>1. h \in DOMAIN handleToTime' <=> h \in DOMAIN handleToTime
      BY <1>1, <1>2, <2>2
    <3>2. h \in DOMAIN handleToTime <=> \E t \in DOMAIN timeToCallbacks : IsLive(h, t)
      BY <2>2 DEF TimerInv, HandlesSound
    <3>3. ASSUME time \notin DOMAIN timeToCallbacks PROVE ~IsLive(h, time)'
      <4>1. was = << >> /\ Len(new) = 1 /\ new[1] = nextHandle
        BY <1>5, <3>3 DEF was
      <4> QED
        BY <1>2, <1>6, <2>2, <4>1 DEF IsLive
    <3> QED
      BY <1>1, <1>12, <2>2, <3>1, <3>2, <3>3
  <2> QED
    BY <1>2, <2>1, <2>2
<1>14. HandlesSound'
  <2>1. DOMAIN handleToTime' \subseteq 1 .. nextHandle
    BY <1>1, <1>2 DEF TimerInv, HandlesSound
  <2>2. \A h \in DOMAIN handleToTime' : handleToTime'[h] = due'[h]
    BY <1>1, <1>2, <1>4 DEF TimerInv, HandlesSound
  <2>3. nextHandle' - 1 = nextHandle
    BY <1>1, <1>2
  <2> QED
    BY <1>13, <2>1, <2>2, <2>3 DEF HandlesSound
<1>15. FiredSound'
  BY <1>1, <1>2, <1>4, <1>9 DEF TimerInv, FiredSound
<1>16. NoneForgotten'
  <2> SUFFICES ASSUME NEW h \in 1 .. nextHandle
               PROVE  \/ h \in removed
                      \/ h \in DOMAIN handleToTime'
                      \/ \E n \in 1 .. Len(fired) : fired[n][1] = h
    BY SMTT(30), <1>1, <1>2 DEF NoneForgotten
  <2>1. CASE h = nextHandle
    BY <1>1, <2>1
  <2>2. CASE h \in 1 .. nextHandle - 1
    BY <1>1, <2>2 DEF TimerInv, NoneForgotten
  <2> QED
    BY <1>2, <2>1, <2>2
<1>17. RegisterSound'
  <2>1. PICK slots : slots = timeToCallbacks'
    OBVIOUS
  <2>2. DOMAIN slots \subseteq Nat
    BY <1>1, <2>1 DEF TimerInv, SlotsSound
  <2>3. Timers!SetEarliest(slots)
    BY <2>1 DEF Timers!timerAddEvent
  <2> QED
    BY <2>1, <2>2, <2>3, RegisterIsEarliest DEF RegisterSound
<1> QED
  BY <1>8, <1>10, <1>11, <1>14, <1>15, <1>16, <1>17 DEF TimerInv

\* An event that is removed leaves its slot, which is not the interrupt's.
LEMMA RemovedTimers ==
  ASSUME TimerInv, ~ SameSlot, NEW h \in 1 .. MaxHandle, Timers!timerRemoveEvent(h)
  PROVE  TimerInv'
<1>1. /\ h \in DOMAIN handleToTime /\ h \in 1 .. nextHandle - 1 /\ handleToTime[h] = due[h]
      /\ h \in Nat
  BY DEF Timers!timerRemoveEvent, TimerInv, HandlesSound
<1>2. PICK t \in DOMAIN timeToCallbacks : IsLive(h, t)
  BY <1>1 DEF TimerInv, HandlesSound
<1>3. PICK k \in 1 .. Len(timeToCallbacks[t]) : timeToCallbacks[t][k] = h
  BY <1>2 DEF IsLive
<1>4. PICK slot : slot = timeToCallbacks[t]
  OBVIOUS
<1>5. /\ t \in Nat /\ slot \in Seq(Nat) /\ Len(slot) \in Nat
      /\ k \in 1 .. Len(slot) /\ slot[k] = h
      /\ \A j \in 1 .. Len(slot) : slot[j] \in 1 .. nextHandle - 1 /\ due[slot[j]] = t
      /\ \A a, b \in 1 .. Len(slot) : a < b => slot[a] < slot[b]
      /\ t > currentTime \/ (t = currentTime /\ InInterrupt)
  BY <1>3, <1>4 DEF TimerInv, SlotsSound
<1>6. handleToTime[h] = t
  BY <1>1, <1>5
<1>7. \A a, b \in 1 .. Len(slot) : slot[a] = slot[b] => a = b
  BY <1>5
<1> DEFINE rest == RemoveAt(slot, k)
<1>8. Timers!WithoutHandle(Timers!Slot(t), h) = rest
  <2>1. RemoveFirst(slot, slot[k]) = RemoveAt(slot, k)
    BY <1>5, <1>7, RemoveFirstProperties
  <2>2. Timers!RemoveFirst(slot, h) = RemoveFirst(slot, h)
    BY Zenon DEF Timers!RemoveFirst, RemoveFirst, Timers!RemoveAt, RemoveAt,
                 Timers!SelectInSeq, SelectInSeq, Timers!Min, Min
  <2>3. Timers!Slot(t) = slot
    BY <1>2, <1>4 DEF Timers!Slot
  <2> QED
    BY <1>5, <2>1, <2>2, <2>3 DEF Timers!WithoutHandle
<1>9. /\ rest \in Seq(Nat) /\ Len(rest) = Len(slot) - 1
      /\ \A j \in 1 .. Len(slot) - 1 : rest[j] = IF j < k THEN slot[j] ELSE slot[j + 1]
  BY <1>5, RemoveAtProperties
<1> HIDE DEF rest
<1>10. ~(timerPc = "callback" /\ t = currentTime)
  BY <1>1, <1>6 DEF Timers!timerRemoveEvent, Timers!Executing, Timers!RemoveUnderLoop
<1>11. /\ timerPc \in {"idle", "callback"}
       /\ Timers!RemoveFromSlot(t, h)
       /\ DOMAIN handleToTime' = DOMAIN handleToTime \ {h}
       /\ \A g \in DOMAIN handleToTime' : handleToTime'[g] = handleToTime[g]
       /\ removed' = removed \cup {h}
       /\ UNCHANGED <<nextHandle, hwRegister, currentTime, at, handle, due, fired, batch, timerPc>>
  BY <1>6, <1>10
  DEF Timers!timerRemoveEvent, Timers!UserRuns, Timers!Erase, Timers!Executing
<1>12. t > currentTime /\ (InInterrupt' <=> InInterrupt)
  BY <1>5, <1>10, <1>11 DEF InInterrupt
<1>13. /\ DOMAIN timeToCallbacks' = IF rest = << >> THEN DOMAIN timeToCallbacks \ {t}
                                    ELSE DOMAIN timeToCallbacks
       /\ \A u \in DOMAIN timeToCallbacks' :
            timeToCallbacks'[u] = IF u = t THEN rest ELSE timeToCallbacks[u]
  BY <1>2, <1>8, <1>11 DEF Timers!RemoveFromSlot, Timers!Erase, Timers!Assign
<1>14. TimerTypes'
  BY <1>11 DEF TimerInv, TimerTypes
<1>15. SlotsSound'
  <2>0. ASSUME NEW j \in 1 .. Len(rest)
        PROVE  /\ j \in 1 .. Len(slot) /\ j + 1 \in 1 .. Len(slot)
               /\ rest[j] = slot[j] \/ rest[j] = slot[j + 1]
               /\ j < k => rest[j] = slot[j]
               /\ ~(j < k) => rest[j] = slot[j + 1]
    BY SMTT(30), <1>5, <1>9
  <2>1. ASSUME NEW j \in 1 .. Len(rest)
        PROVE  rest[j] \in 1 .. nextHandle - 1 /\ due[rest[j]] = t
    BY ZenonT(30), <1>5, <2>0
  <2>2. ASSUME NEW a \in 1 .. Len(rest), NEW b \in 1 .. Len(rest), a < b
        PROVE  rest[a] < rest[b]
    <3>1. CASE b < k
      <4>1. rest[a] = slot[a] /\ rest[b] = slot[b]
        BY <1>5, <2>0, <2>2, <3>1
      <4> QED
        BY <1>5, <2>0, <2>2, <4>1
    <3>2. CASE ~(b < k) /\ a < k
      <4>1. rest[a] = slot[a] /\ rest[b] = slot[b + 1] /\ a < b + 1
        BY <1>5, <2>0, <2>2, <3>2
      <4> QED
        BY <1>5, <2>0, <4>1
    <3>3. CASE ~(b < k) /\ ~(a < k)
      <4>1. rest[a] = slot[a + 1] /\ rest[b] = slot[b + 1] /\ a + 1 < b + 1
        BY <1>5, <2>0, <2>2, <3>3
      <4> QED
        BY <1>5, <2>0, <4>1
    <3> QED
      BY <3>1, <3>2, <3>3
  <2> SUFFICES ASSUME NEW u \in DOMAIN timeToCallbacks'
               PROVE  /\ u \in Nat
                      /\ timeToCallbacks'[u] \in Seq(Nat) /\ timeToCallbacks'[u] # << >>
                      /\ \A j \in 1 .. Len(timeToCallbacks'[u]) :
                           /\ timeToCallbacks'[u][j] \in 1 .. nextHandle - 1
                           /\ due[timeToCallbacks'[u][j]] = u
                      /\ \A a, b \in 1 .. Len(timeToCallbacks'[u]) :
                           a < b => timeToCallbacks'[u][a] < timeToCallbacks'[u][b]
                      /\ u > currentTime \/ (u = currentTime /\ InInterrupt)
    BY <1>11, <1>12 DEF SlotsSound
  <2>3. CASE u = t
    BY <1>5, <1>9, <1>12, <1>13, <2>1, <2>2, <2>3
  <2>4. CASE u # t
    BY <1>13, <2>4 DEF TimerInv, SlotsSound
  <2> QED
    BY <2>3, <2>4
<1>16. LoopSound'
  <2>1. InInterrupt => currentTime \in DOMAIN timeToCallbacks /\ currentTime \in Nat
    BY DEF TimerInv, LoopSound, SlotsSound
  <2>2. InInterrupt => /\ currentTime \in DOMAIN timeToCallbacks'
                       /\ timeToCallbacks'[currentTime] = timeToCallbacks[currentTime]
    BY <1>5, <1>12, <1>13, <2>1
  <2> QED
    BY <1>11, <1>12, <2>2 DEF TimerInv, LoopSound
<1>17. ASSUME NEW g, NEW u \in DOMAIN timeToCallbacks
       PROVE  IsLive(g, u) /\ g # h <=> u \in DOMAIN timeToCallbacks' /\ IsLive(g, u)'
  <2>1. CASE u # t
    <3>1. IsLive(g, u)' <=> IsLive(g, u)
      BY <1>11, <1>12, <1>13, <2>1 DEF IsLive
    <3>2. ASSUME IsLive(h, u) PROVE FALSE
      <4>1. PICK j \in 1 .. Len(timeToCallbacks[u]) : timeToCallbacks[u][j] = h
        BY <3>2 DEF IsLive
      <4>2. due[h] = u
        BY <4>1 DEF TimerInv, SlotsSound
      <4> QED
        BY <1>1, <1>6, <2>1, <4>2
    <3>3. u \in DOMAIN timeToCallbacks'
      BY <1>13, <2>1
    <3> QED
      BY <3>1, <3>2, <3>3
  <2>2. CASE u = t
    <3>0. currentTime \in Nat /\ t # currentTime
      BY <1>5, <1>12 DEF TimerInv, TimerTypes
    <3>1. IsLive(g, t) <=> \E j \in 1 .. Len(slot) : slot[j] = g
      BY <1>4, <3>0 DEF IsLive
    <3>2. t \in DOMAIN timeToCallbacks' => (IsLive(g, t)' <=> \E j \in 1 .. Len(rest) : rest[j] = g)
      BY <1>11, <1>13, <3>0 DEF IsLive
    <3>3. t \notin DOMAIN timeToCallbacks' => Len(rest) = 0
      BY <1>2, <1>13
    <3>4. ASSUME NEW j \in 1 .. Len(rest), rest[j] = g
          PROVE  g # h /\ \E m \in 1 .. Len(slot) : slot[m] = g
      <4>1. CASE j < k
        BY SMTT(30), <1>5, <1>7, <1>9, <3>4, <4>1
      <4>2. CASE ~(j < k)
        <5>1. j + 1 \in 1 .. Len(slot) /\ rest[j] = slot[j + 1] /\ j + 1 # k
          BY <1>5, <1>9, <4>2
        <5> QED
          BY <1>5, <1>7, <3>4, <5>1
      <4> QED
        BY <4>1, <4>2
    <3>5. ASSUME NEW j \in 1 .. Len(slot), slot[j] = g, g # h
          PROVE  \E m \in 1 .. Len(rest) : rest[m] = g
      <4>1. CASE j < k
        <5>1. j \in 1 .. Len(rest) /\ rest[j] = slot[j]
          BY SMTT(30), <1>5, <1>9, <4>1
        <5> QED
          BY <3>5, <5>1
      <4>2. CASE j > k
        <5>1. j - 1 \in 1 .. Len(rest) /\ rest[j - 1] = slot[j]
          BY <1>5, <1>9, <4>2
        <5> QED
          BY <3>5, <5>1
      <4>3. j # k
        BY <1>5, <3>5
      <4> QED
        BY <1>5, <4>1, <4>2, <4>3
    <3> QED
      BY <2>2, <3>1, <3>2, <3>3, <3>4, <3>5
  <2> QED
    BY <2>1, <2>2
<1>18. HandlesSound'
  <2>1. \A g \in 1 .. nextHandle - 1 :
          g \in DOMAIN handleToTime' <=> \E u \in DOMAIN timeToCallbacks' : IsLive(g, u)'
    <3> TAKE g \in 1 .. nextHandle - 1
    <3>1. g \in DOMAIN handleToTime <=> \E u \in DOMAIN timeToCallbacks : IsLive(g, u)
      BY DEF TimerInv, HandlesSound
    <3>2. DOMAIN timeToCallbacks' \subseteq DOMAIN timeToCallbacks
      BY <1>13
    <3> QED
      BY <1>11, <1>17, <3>1, <3>2
  <2> QED
    BY <1>11, <2>1 DEF TimerInv, HandlesSound
<1>19. FiredSound'
  BY <1>11, <1>12 DEF TimerInv, FiredSound
<1>20. NoneForgotten'
  BY <1>11 DEF TimerInv, NoneForgotten
<1>21. RegisterSound'
  BY <1>11, <1>12, <1>13 DEF TimerInv, RegisterSound
<1> QED
  BY <1>14, <1>15, <1>16, <1>18, <1>19, <1>20, <1>21 DEF TimerInv

\* The inductive invariant of the timers.
LEMMA TimerInvariance == ~ SameSlot /\ Spec => []TimerInv
<1>1. Init => TimerInv
  <2> SUFFICES ASSUME Init PROVE TimerInv
    OBVIOUS
  <2>1. /\ timeToCallbacks = << >> /\ handleToTime = << >> /\ nextHandle = 1
        /\ currentTime = 0 /\ timerPc = "idle" /\ at = 0 /\ due = << >> /\ fired = << >>
    BY DEF Init, Timers!Init
  <2>2. DOMAIN timeToCallbacks = {} /\ DOMAIN handleToTime = {} /\ ~InInterrupt
    BY <2>1 DEF InInterrupt
  <2>3. TimerTypes
    BY <2>1 DEF TimerTypes
  <2>4. SlotsSound /\ LoopSound /\ RegisterSound
    BY <2>2 DEF SlotsSound, LoopSound, RegisterSound
  <2>5. HandlesSound /\ FiredSound /\ NoneForgotten
    BY <2>1, <2>2 DEF HandlesSound, FiredSound, NoneForgotten
  <2> QED
    BY <2>3, <2>4, <2>5 DEF TimerInv
<1>2. ~ SameSlot /\ TimerInv /\ [Next]_vars => TimerInv'
  <2> SUFFICES ASSUME ~ SameSlot, TimerInv, [Timers!Next]_timers PROVE TimerInv'
    BY Frame
  <2>1. ASSUME NEW t \in Timers!Times, Timers!timerAddEvent(t) PROVE TimerInv'
    BY <2>1, AddedTimers, TimersAssumption DEF Timers!Times
  <2>2. ASSUME NEW t \in Timers!Times, Timers!advanceTime(t) PROVE TimerInv'
    <3>1. Timers!advanceTime(newTime')
      BY <2>2 DEF Timers!advanceTime
    <3> QED
      BY <3>1, AdvancedTimers
  <2>3. ASSUME NEW h \in Timers!Handles, Timers!timerRemoveEvent(h) PROVE TimerInv'
    BY <2>3, RemovedTimers DEF Timers!Handles
  <2>4. CASE Timers!Tick
    BY <2>4, TickedTimers
  <2>5. CASE Timers!AdvanceEnds
    BY <2>5, AdvancedTimers
  <2>6. CASE Timers!Execute
    BY <2>6, ExecutedTimers
  <2>7. CASE Timers!CallbackReturns
    BY <2>7, ReturnedTimers
  <2>8. CASE Timers!InterruptEnds
    BY <2>8, EndedTimers
  <2>9. CASE UNCHANGED timers
    <3>1. UNCHANGED <<timeToCallbacks, handleToTime, nextHandle, currentTime, hwRegister,
                      timerPc, batch, at, handle, due, fired, removed>>
      BY <2>9 DEF timers
    <3>2. InInterrupt' <=> InInterrupt
      BY <3>1 DEF InInterrupt
    <3>3. \A h, t : IsLive(h, t)' <=> IsLive(h, t)
      BY <3>1, <3>2 DEF IsLive
    <3>4. TimerTypes' /\ SlotsSound' /\ LoopSound' /\ NoneForgotten' /\ RegisterSound'
      BY <3>1, <3>2 DEF TimerInv, TimerTypes, SlotsSound, LoopSound, NoneForgotten, RegisterSound
    <3>5. HandlesSound' /\ FiredSound'
      BY <3>1, <3>2, <3>3 DEF TimerInv, HandlesSound, FiredSound
    <3> QED
      BY <3>4, <3>5 DEF TimerInv
  <2>10. CASE UNCHANGED Timers!vars
    <3>1. UNCHANGED timers
      BY <2>10 DEF timers, Timers!vars, Timers!tables, Timers!loops, Timers!history
    <3> QED
      BY <2>9, <3>1
  <2> QED
    BY <2>1, <2>2, <2>3, <2>4, <2>5, <2>6, <2>7, <2>8, <2>9, <2>10
    DEF Timers!Next, Timers!User, Timers!System, Timers!timerModuleInterruptHandler,
        Timers!AddRefused, Timers!RemoveRefused
<1>3. CASE ~ SameSlot
  BY <1>1, <1>2, <1>3, PTL DEF Spec
<1> QED
  BY <1>3

\* If no callback removes an event of the slot being executed, itself or another:
\* the two tables of the timers describe the same events at every step, in the
\* middle of an interrupt whose callbacks add events and remove those of other
\* times too.
THEOREM HandlesAlwaysAgree == ~ SameSlot /\ Spec => []HandlesAgree
<1>1. TimerInv => HandlesAgree
  <2> SUFFICES ASSUME TimerInv PROVE Timers!HandlesAgree
    BY DEF HandlesAgree
  <2>0. Timers!InInterrupt <=> InInterrupt
    BY DEF Timers!InInterrupt, InInterrupt
  <2>1. ASSUME NEW t \in DOMAIN timeToCallbacks, NEW h
        PROVE  h \in Timers!Live(t) <=> IsLive(h, t)
    <3>1. Len(timeToCallbacks[t]) \in Nat /\ at \in Nat
      BY DEF TimerInv, SlotsSound, TimerTypes
    <3>2. CASE InInterrupt /\ t = currentTime
      <4>1. at \in Nat \ {0}
        BY <3>2 DEF TimerInv, LoopSound
      <4> QED
        BY <2>0, <3>1, <3>2, <4>1 DEF Timers!Live, IsLive
    <3>3. CASE ~(InInterrupt /\ t = currentTime)
      BY <2>0, <3>1, <3>3 DEF Timers!Live, IsLive
    <3> QED
      BY <3>2, <3>3
  <2>2. ASSUME NEW t \in DOMAIN timeToCallbacks, NEW h, IsLive(h, t)
        PROVE  h \in 1 .. nextHandle - 1 /\ due[h] = t
    BY <2>2 DEF TimerInv, SlotsSound, IsLive
  <2>3. ASSUME NEW h PROVE h \in DOMAIN handleToTime
                             <=> \E t \in DOMAIN timeToCallbacks : IsLive(h, t)
    BY <2>2 DEF TimerInv, HandlesSound
  <2>4. DOMAIN handleToTime = UNION {Timers!Live(t) : t \in DOMAIN timeToCallbacks}
    BY <2>1, <2>3
  <2>5. \A t \in DOMAIN timeToCallbacks : \A h \in Timers!Live(t) : handleToTime[h] = t
    BY <2>1, <2>2, <2>3 DEF TimerInv, HandlesSound
  <2>6. ASSUME NEW t \in DOMAIN timeToCallbacks
        PROVE  timeToCallbacks[t] # << >> /\ t >= currentTime
    <3>1. /\ t \in Nat /\ timeToCallbacks[t] # << >>
          /\ t > currentTime \/ t = currentTime
      BY DEF TimerInv, SlotsSound
    <3> QED
      BY <3>1 DEF TimerInv, TimerTypes
  <2> QED
    BY <2>4, <2>5, <2>6 DEF Timers!HandlesAgree
<1> QED
  BY <1>1, TimerInvariance, PTL

\* Under the same condition callbacks are executed at the time registered, in the
\* order of time and of registration, none is passed over, and the hardware never
\* wakes late. Without it one is passed over: the run timers_self.
THEOREM AlwaysFiredOnTime == ~ SameSlot /\ Spec => []FiredOnTime
<1>1. TimerInv => FiredOnTime
  <2> SUFFICES ASSUME TimerInv PROVE Timers!FiredOnTime
    BY DEF FiredOnTime
  <2>0. Timers!InInterrupt <=> InInterrupt
    BY DEF Timers!InInterrupt, InInterrupt
  <2>1. \A n \in 1 .. Len(fired) : fired[n][2] = due[fired[n][1]]
    BY DEF TimerInv, FiredSound
  <2>2. \A m, n \in 1 .. Len(fired) : m < n =>
          \/ fired[m][2] < fired[n][2]
          \/ fired[m][2] = fired[n][2] /\ fired[m][1] < fired[n][1]
    BY DEF TimerInv, FiredSound
  <2>3. ASSUME NEW h \in 1 .. nextHandle - 1
        PROVE  \/ h \in Timers!Executed \cup removed
               \/ due[h] > currentTime
               \/ due[h] = currentTime /\ InInterrupt
    <3>1. CASE h \in removed
      BY <3>1
    <3>2. CASE \E n \in 1 .. Len(fired) : fired[n][1] = h
      BY <3>2 DEF Timers!Executed
    <3>3. CASE h \in DOMAIN handleToTime
      <4>1. PICK t \in DOMAIN timeToCallbacks : IsLive(h, t)
        BY <3>3 DEF TimerInv, HandlesSound
      <4>2. due[h] = t
        BY <4>1 DEF TimerInv, SlotsSound, IsLive
      <4> QED
        BY <4>2 DEF TimerInv, SlotsSound
    <3> QED
      BY <3>1, <3>2, <3>3 DEF TimerInv, NoneForgotten
  <2>4. ~InInterrupt => \A t \in DOMAIN timeToCallbacks : hwRegister <= t
    BY DEF TimerInv, RegisterSound
  <2> QED
    BY <2>0, <2>1, <2>2, <2>3, <2>4 DEF Timers!FiredOnTime
<1> QED
  BY <1>1, TimerInvariance, PTL
-----------------------------------------------------------------------------
(* DynamicEventHandler.c                                                   *)

Holds(ids, id) == \E j \in 1 .. Len(ids) : ids[j] = id

\* Listeners are in the order of their ids, the newest first.
Descends(ids) == \A j, k \in 1 .. Len(ids) : j < k => ids[j] > ids[k]

ListsSound ==
  /\ next_id \in Nat
  /\ callbacks \in [EventTypes -> Seq(Nat)]
  /\ \A e \in EventTypes :
       /\ \A j \in 1 .. Len(callbacks[e]) : callbacks[e][j] \in 1 .. next_id
       /\ Descends(callbacks[e])

Frames ==
  [type : EventTypes, current : Nat \cup {NULL}, running : BOOLEAN,
   steady : SUBSET Nat, ran : Seq(Nat), newest : Nat]

\* The node a trigger stands at is in the list; those called are before it (it
\* is itself one of them while its callback runs), those to call behind it.
Stands(frame, ids) ==
  /\ frame.current # NULL =>
       /\ Holds(ids, frame.current)
       /\ frame.current <= frame.newest
       /\ \A k \in 1 .. Len(frame.ran) :
            frame.ran[k] > frame.current \/ (frame.running /\ frame.ran[k] = frame.current)
  /\ frame.running => frame.current # NULL /\ Holds(frame.ran, frame.current)

\* What a trigger has called, and that nothing is missing from it.
Calls(frame, ids) ==
  /\ Descends(frame.ran)
  /\ \A k \in 1 .. Len(frame.ran) : frame.ran[k] <= frame.newest
  /\ \A id \in frame.steady :
       Holds(ids, id) =>
         Holds(frame.ran, id) \/ (frame.current # NULL /\ id <= frame.current)

TriggerSound(frame, ids) == Stands(frame, ids) /\ Calls(frame, ids)

EventsInv ==
  /\ ListsSound
  /\ frames \in Seq(Frames)
  /\ \A d \in 1 .. Len(frames) :
       /\ frames[d].steady \subseteq 1 .. next_id
       /\ TriggerSound(frames[d], callbacks[frames[d].type])

\* The fields of a frame.
LEMMA FrameFields ==
  ASSUME NEW frame \in Frames
  PROVE  /\ frame.type \in EventTypes /\ frame.current \in Nat \cup {NULL}
         /\ frame.running \in BOOLEAN /\ frame.steady \subseteq Nat
         /\ frame.ran \in Seq(Nat) /\ Len(frame.ran) \in Nat /\ frame.newest \in Nat
         /\ \A k \in 1 .. Len(frame.ran) : frame.ran[k] \in Nat
<1>1. /\ frame.type \in EventTypes /\ frame.current \in Nat \cup {NULL}
      /\ frame.running \in BOOLEAN /\ frame.steady \subseteq Nat
      /\ frame.ran \in Seq(Nat) /\ frame.newest \in Nat
  BY DEF Frames
<1> QED
  BY <1>1, LenProperties, ElementOfSeq

\* What becomes of the lists while the triggers stay where they are: listeners
\* are added, or removed if no trigger stands at them.
LEMMA ListsChange ==
  ASSUME EventsInv, ListsSound', frames' = frames, next_id <= next_id',
         \A d \in 1 .. Len(frames) : \A id \in 1 .. next_id :
           /\ Holds(callbacks'[frames[d].type], id) => Holds(callbacks[frames[d].type], id)
           /\ id = frames[d].current /\ Holds(callbacks[frames[d].type], id)
                => Holds(callbacks'[frames[d].type], id)
  PROVE  EventsInv'
<1> SUFFICES ASSUME NEW d \in 1 .. Len(frames)
             PROVE  /\ frames[d].steady \subseteq 1 .. next_id'
                    /\ TriggerSound(frames[d], callbacks'[frames[d].type])
  BY DEF EventsInv
<1> DEFINE frame == frames[d]
<1>1. frame \in Frames /\ next_id \in Nat /\ next_id' \in Nat
  BY ElementOfSeq DEF EventsInv, ListsSound
<1>2. frame.type \in EventTypes /\ frame.current \in Nat \cup {NULL}
  BY <1>1, FrameFields
<1>3. TriggerSound(frame, callbacks[frame.type])
  BY DEF EventsInv
<1>4. \A id : Holds(callbacks[frame.type], id) => id \in 1 .. next_id
  BY <1>2 DEF EventsInv, ListsSound, Holds
<1>5. frame.current # NULL => Holds(callbacks'[frame.type], frame.current)
  BY <1>3, <1>4 DEF TriggerSound, Stands
<1>6. frame.steady \subseteq 1 .. next_id /\ frame.steady \subseteq 1 .. next_id'
  BY <1>1 DEF EventsInv
<1>7. \A id \in frame.steady :
        Holds(callbacks'[frame.type], id) => Holds(callbacks[frame.type], id)
  BY <1>6
<1>8. Stands(frame, callbacks'[frame.type])
  BY <1>3, <1>5 DEF TriggerSound, Stands
<1>9. Calls(frame, callbacks'[frame.type])
  BY <1>3, <1>7 DEF TriggerSound, Calls
<1> QED
  BY <1>6, <1>8, <1>9 DEF TriggerSound

\* Adding a listener, removing one, and cleaning up.
LEMMA ListenerAdded ==
  ASSUME EventsInv, NEW e \in EventTypes, Events!add_listener(e)
  PROVE  EventsInv'
<1> DEFINE before == callbacks[e]
           after == <<next_id + 1>> \o before
<1>1. /\ next_id' = next_id + 1 /\ frames' = frames /\ next_id \in Nat
      /\ callbacks' = [callbacks EXCEPT ![e] = after]
      /\ callbacks \in [EventTypes -> Seq(Nat)]
  BY DEF Events!add_listener, Events!Linked, EventsInv, ListsSound
<1>2. /\ before \in Seq(Nat) /\ Len(before) \in Nat
      /\ \A j \in 1 .. Len(before) : before[j] \in 1 .. next_id
      /\ \A j, k \in 1 .. Len(before) : j < k => before[j] > before[k]
  BY DEF EventsInv, ListsSound, Descends
<1> HIDE DEF before
<1>3. /\ after \in Seq(Nat) /\ Len(after) = Len(before) + 1
      /\ after[1] = next_id + 1
      /\ \A j \in 2 .. Len(after) : after[j] = before[j - 1]
  BY <1>1, <1>2
<1> HIDE DEF after
<1>4. \A j \in 1 .. Len(after) : \/ j = 1 /\ after[j] = next_id + 1
                                 \/ j > 1 /\ j - 1 \in 1 .. Len(before) /\ after[j] = before[j - 1]
  BY <1>2, <1>3
<1>5. Descends(after)
  <2> SUFFICES ASSUME NEW j \in 1 .. Len(after), NEW k \in 1 .. Len(after), j < k
               PROVE  after[j] > after[k]
    BY DEF Descends
  <2>1. k > 1 /\ k - 1 \in 1 .. Len(before) /\ after[k] = before[k - 1]
    BY <1>2, <1>3, <1>4
  <2>2. CASE j = 1
    <3>1. after[j] = next_id + 1 /\ after[k] \in 1 .. next_id
      BY <1>2, <1>3, <2>1, <2>2
    <3> QED
      BY <1>1, <3>1
  <2>3. CASE j > 1 /\ j - 1 \in 1 .. Len(before) /\ after[j] = before[j - 1]
    <3>1. j - 1 < k - 1
      BY <1>2, <1>3
    <3> QED
      BY <1>2, <2>1, <2>3, <3>1
  <2> QED
    BY <1>4, <2>2, <2>3
<1>6. ASSUME NEW j \in 1 .. Len(after) PROVE after[j] \in 1 .. next_id + 1
  <2>1. \A x \in 1 .. next_id : x \in 1 .. next_id + 1
    BY <1>1
  <2> QED
    <3>1. CASE j = 1 /\ after[j] = next_id + 1
      BY <1>1, <3>1
    <3>2. CASE j > 1 /\ j - 1 \in 1 .. Len(before) /\ after[j] = before[j - 1]
      BY <1>2, <2>1, <3>2
    <3> QED
      BY <1>4, <3>1, <3>2
<1>7. ListsSound'
  BY <1>1, <1>3, <1>5, <1>6 DEF EventsInv, ListsSound, Descends
<1>8. ASSUME NEW id \in 1 .. next_id
      PROVE  Holds(after, id) <=> Holds(before, id)
  <2>1. ASSUME NEW j \in 1 .. Len(before) PROVE j + 1 \in 2 .. Len(after) /\ after[j + 1] = before[j]
    BY <1>2, <1>3
  <2>2. next_id + 1 # id
    BY <1>1
  <2>3. ASSUME NEW j \in 1 .. Len(after), after[j] = id PROVE Holds(before, id)
    BY <1>4, <2>2, <2>3 DEF Holds
  <2>4. ASSUME NEW j \in 1 .. Len(before), before[j] = id PROVE Holds(after, id)
    <3>1. j + 1 \in 1 .. Len(after) /\ after[j + 1] = id
      BY <1>3, <2>1, <2>4
    <3> QED
      BY <3>1 DEF Holds
  <2> QED
    BY <2>3, <2>4 DEF Holds
<1>9. ASSUME NEW d \in 1 .. Len(frames), NEW id \in 1 .. next_id
      PROVE  Holds(callbacks'[frames[d].type], id) <=> Holds(callbacks[frames[d].type], id)
  <2>1. frames[d].type \in EventTypes
    BY FrameFields, ElementOfSeq DEF EventsInv
  <2> QED
    BY <1>1, <1>8, <2>1 DEF before
<1> QED
  BY <1>1, <1>7, <1>9, ListsChange

\* A listener is unlinked, unless a trigger stands at it.
LEMMA ListenerRemoved ==
  ASSUME EventsInv, NEW e \in EventTypes, NEW id, Events!remove_listener(e, id)
  PROVE  EventsInv'
<1>0. PICK before : before = callbacks[e]
  OBVIOUS
<1>1. /\ next_id' = next_id /\ frames' = frames /\ next_id \in Nat
      /\ callbacks' = [callbacks EXCEPT ![e] = Events!RemoveFirst(before, id)]
      /\ callbacks \in [EventTypes -> Seq(Nat)]
      /\ \A d \in DOMAIN frames : frames[d].current # id
  BY <1>0 DEF Events!remove_listener, EventsInv, ListsSound
<1>2. /\ before \in Seq(Nat) /\ Len(before) \in Nat /\ DOMAIN before = 1 .. Len(before)
      /\ \A j \in 1 .. Len(before) : before[j] \in 1 .. next_id /\ before[j] \in Nat
      /\ \A j, k \in 1 .. Len(before) : j < k => before[j] > before[k]
  BY <1>0 DEF EventsInv, ListsSound, Descends
<1>3. PICK k \in 1 .. Len(before) : before[k] = id
  <2>1. id \in Events!Range(before)
    BY <1>0 DEF Events!remove_listener
  <2> QED
    BY <1>2, <2>1 DEF Events!Range
<1>4. \A m, j \in 1 .. Len(before) : before[m] = before[j] => m = j
  BY <1>2
<1>5. Events!RemoveFirst(before, id) = RemoveAt(before, k)
  <2>1. RemoveFirst(before, before[k]) = RemoveAt(before, k)
    BY <1>2, <1>4, RemoveFirstProperties
  <2>2. Events!RemoveFirst(before, id) = RemoveFirst(before, id)
    BY Zenon DEF Events!RemoveFirst, RemoveFirst, Events!RemoveAt, RemoveAt,
                 Events!SelectInSeq, SelectInSeq, Events!Min, Min
  <2> QED
    BY <1>3, <2>1, <2>2
<1> DEFINE after == RemoveAt(before, k)
<1>6. /\ after \in Seq(Nat) /\ Len(after) = Len(before) - 1
      /\ \A j \in 1 .. Len(before) - 1 :
           after[j] = IF j < k THEN before[j] ELSE before[j + 1]
  <2>1. before \in Seq(Nat) /\ k \in 1 .. Len(before)
    BY <1>2, <1>3
  <2> HIDE <1>2, <1>3
  <2> QED
    BY <2>1, RemoveAtProperties
<1>7. callbacks' = [callbacks EXCEPT ![e] = after]
  BY <1>1, <1>5
<1> HIDE DEF after
<1>8. ASSUME NEW j \in 1 .. Len(after)
      PROVE  /\ j \in 1 .. Len(before) /\ j + 1 \in 1 .. Len(before)
             /\ j < k => after[j] = before[j]
             /\ ~(j < k) => after[j] = before[j + 1]
  BY <1>2, <1>6
<1>9. Descends(after)
  <2> SUFFICES ASSUME NEW a \in 1 .. Len(after), NEW b \in 1 .. Len(after), a < b
               PROVE  after[a] > after[b]
    BY DEF Descends
  <2>1. CASE b < k
    <3>1. after[a] = before[a] /\ after[b] = before[b]
      BY <1>2, <1>8, <2>1
    <3> QED
      BY <1>2, <1>8, <3>1
  <2>2. CASE ~(b < k) /\ a < k
    <3>1. after[a] = before[a] /\ after[b] = before[b + 1] /\ a < b + 1
      BY <1>2, <1>8, <2>2
    <3> QED
      BY <1>2, <1>8, <3>1
  <2>3. CASE ~(b < k) /\ ~(a < k)
    <3>1. after[a] = before[a + 1] /\ after[b] = before[b + 1] /\ a + 1 < b + 1
      BY <1>2, <1>8, <2>3
    <3> QED
      BY <1>2, <1>8, <3>1
  <2> QED
    BY <2>1, <2>2, <2>3
<1>10. \A j \in 1 .. Len(after) : after[j] \in 1 .. next_id
  BY <1>2, <1>8
<1>11. ListsSound'
  BY <1>1, <1>6, <1>7, <1>9, <1>10 DEF EventsInv, ListsSound, Descends
<1>12. ASSUME NEW x PROVE /\ Holds(after, x) => Holds(before, x)
                          /\ Holds(before, x) /\ x # id => Holds(after, x)
  <2>1. Holds(after, x) => Holds(before, x)
    BY <1>8 DEF Holds
  <2>2. ASSUME NEW j \in 1 .. Len(before), before[j] = x, x # id PROVE Holds(after, x)
    <3>1. CASE j < k
      <4>1. j \in 1 .. Len(after) /\ after[j] = x
        BY <1>2, <1>6, <2>2, <3>1
      <4> QED
        BY <4>1 DEF Holds
    <3>2. CASE j > k
      <4>1. j - 1 \in 1 .. Len(after) /\ after[j - 1] = x
        BY <1>2, <1>6, <2>2, <3>2
      <4> QED
        BY <4>1 DEF Holds
    <3>3. j # k
      BY <1>3, <2>2
    <3> QED
      BY <3>1, <3>2, <3>3
  <2> QED
    BY <2>1, <2>2 DEF Holds
<1>13. ASSUME NEW d \in 1 .. Len(frames), NEW x \in 1 .. next_id
       PROVE  /\ Holds(callbacks'[frames[d].type], x) => Holds(callbacks[frames[d].type], x)
              /\ x = frames[d].current /\ Holds(callbacks[frames[d].type], x)
                   => Holds(callbacks'[frames[d].type], x)
  <2>1. frames[d].type \in EventTypes /\ d \in DOMAIN frames
    BY FrameFields, ElementOfSeq DEF EventsInv
  <2>2. frames[d].current # id
    BY <1>1, <2>1
  <2> QED
    BY <1>0, <1>1, <1>7, <1>12, <2>1, <2>2
<1> QED
  BY <1>1, <1>11, <1>13, ListsChange

\* All listeners of all events are removed.
LEMMA CleanedUp ==
  ASSUME EventsInv, Events!cleanup_event_system
  PROVE  EventsInv'
<1>1. /\ frames = << >> /\ frames' = << >> /\ next_id' = next_id
      /\ callbacks' = [e \in EventTypes |-> << >>]
  BY DEF Events!cleanup_event_system
<1>2. << >> \in Seq(Nat) /\ Len(<< >>) = 0
  OBVIOUS
<1>3. ListsSound'
  BY <1>1, <1>2 DEF EventsInv, ListsSound, Descends
<1> QED
  BY <1>1, <1>3 DEF EventsInv

\* What becomes of the triggers while the lists stay as they are.
LEMMA TriggersChange ==
  ASSUME EventsInv, frames' \in Seq(Frames), UNCHANGED <<callbacks, next_id>>,
         \A d \in 1 .. Len(frames') :
           \/ d \in 1 .. Len(frames) /\ frames'[d] = frames[d]
           \/ /\ frames'[d].steady \subseteq 1 .. next_id
              /\ TriggerSound(frames'[d], callbacks[frames'[d].type])
  PROVE  EventsInv'
<1>1. ListsSound'
  BY DEF EventsInv, ListsSound
<1> SUFFICES ASSUME NEW d \in 1 .. Len(frames')
             PROVE  /\ frames'[d].steady \subseteq 1 .. next_id
                    /\ TriggerSound(frames'[d], callbacks[frames'[d].type])
  BY <1>1 DEF EventsInv
<1> QED
  BY DEF EventsInv

\* A trigger begins at the newest listener, or has none to call.
LEMMA TriggerBegins ==
  ASSUME EventsInv, NEW e \in EventTypes, Events!trigger_event(e)
  PROVE  EventsInv'
<1>0. PICK ids : ids = callbacks[e]
  OBVIOUS
<1>1. /\ ids \in Seq(Nat) /\ Len(ids) \in Nat /\ next_id \in Nat
      /\ \A j \in 1 .. Len(ids) : ids[j] \in 1 .. next_id
      /\ \A j, k \in 1 .. Len(ids) : j < k => ids[j] > ids[k]
  BY <1>0 DEF EventsInv, ListsSound, Descends
<1> DEFINE steady == Events!Range(ids)
<1>2. /\ steady \subseteq 1 .. next_id /\ steady \subseteq Nat
      /\ \A id \in steady : Holds(ids, id)
  BY <1>1 DEF Events!Range, Holds
<1>3. PICK current : current = Events!FirstOf(ids)
  OBVIOUS
<1>4. /\ current \in Nat \cup {NULL}
      /\ current # NULL => Holds(ids, current) /\ current <= next_id
      /\ \A id : Holds(ids, id) => current # NULL /\ id <= current
  <2>1. CASE ids = << >>
    BY <1>3, <2>1 DEF Events!FirstOf, Holds
  <2>2. CASE ids # << >>
    <3>1. current = ids[1] /\ 1 \in 1 .. Len(ids) /\ current \in 1 .. next_id
      BY <1>1, <1>3, <2>2 DEF Events!FirstOf
    <3>2. current \in Nat /\ current # NULL
      BY <1>1, <3>1, PoolsAssumption
    <3>3. ASSUME NEW j \in 1 .. Len(ids) PROVE ids[j] <= current
      <4>1. CASE j = 1
        BY <3>1, <3>2, <4>1
      <4>2. CASE 1 < j
        BY <1>1, <3>1, <4>2
      <4> QED
        BY <1>1, <4>1, <4>2
    <3> QED
      BY <1>1, <3>1, <3>2, <3>3 DEF Holds
  <2> QED
    BY <2>1, <2>2
<1> DEFINE new == [type |-> e, current |-> current, running |-> FALSE,
                   steady |-> steady, ran |-> << >>, newest |-> next_id]
<1>5. frames' = Append(frames, new) /\ UNCHANGED <<callbacks, next_id>>
  BY <1>0, <1>3 DEF Events!trigger_event
<1> HIDE DEF steady
<1>6. new \in Frames
  BY <1>1, <1>2, <1>4 DEF Frames
<1>7. TriggerSound(new, ids)
  <2>1. Stands(new, ids)
    BY <1>4 DEF Stands
  <2>2. Calls(new, ids)
    BY <1>2, <1>4 DEF Calls, Descends
  <2> QED
    BY <2>1, <2>2 DEF TriggerSound
<1>8. new.steady \subseteq 1 .. next_id /\ new.type = e
  BY <1>2
<1> HIDE DEF new
<1>9. /\ frames' \in Seq(Frames) /\ Len(frames) \in Nat /\ Len(frames') = Len(frames) + 1
      /\ frames'[Len(frames) + 1] = new
      /\ \A d \in 1 .. Len(frames) : frames'[d] = frames[d]
  <2>1. frames \in Seq(Frames)
    BY DEF EventsInv
  <2> QED
    BY <1>5, <1>6, <2>1, AppendProperties, LenProperties
<1>10. \A d \in 1 .. Len(frames') : d \in 1 .. Len(frames) \/ d = Len(frames) + 1
  BY <1>9
<1> QED
  BY <1>0, <1>5, <1>7, <1>8, <1>9, <1>10, TriggersChange

\* The innermost trigger goes from one frame to the next.
LEMMA TopChanges ==
  ASSUME EventsInv, frames # << >>, UNCHANGED <<callbacks, next_id>>,
         NEW frame \in Frames, frames' = [frames EXCEPT ![Len(frames)] = frame],
         frame.steady \subseteq 1 .. next_id, TriggerSound(frame, callbacks[frame.type])
  PROVE  EventsInv'
<1>1. /\ frames \in Seq(Frames) /\ Len(frames) \in Nat /\ Len(frames) \in 1 .. Len(frames)
      /\ DOMAIN frames = 1 .. Len(frames)
  BY DEF EventsInv
<1>2. /\ frames' \in Seq(Frames) /\ Len(frames') = Len(frames)
      /\ \A d \in 1 .. Len(frames) : frames'[d] = IF d = Len(frames) THEN frame ELSE frames[d]
  BY <1>1, ExceptSeq
<1> QED
  BY ZenonT(30), <1>1, <1>2, TriggersChange

\* The innermost trigger, and what the invariant says of it.
LEMMA TopSound ==
  ASSUME EventsInv, frames # << >>, NEW frame, frame = Events!Top
  PROVE  /\ frame \in Frames
         /\ frame.steady \subseteq 1 .. next_id
         /\ TriggerSound(frame, callbacks[frame.type])
         /\ callbacks[frame.type] \in Seq(Nat)
         /\ \A j, k \in 1 .. Len(callbacks[frame.type]) :
              j < k => callbacks[frame.type][j] > callbacks[frame.type][k]
<1>1. Len(frames) \in 1 .. Len(frames) /\ frame = frames[Len(frames)] /\ frames \in Seq(Frames)
  BY DEF Events!Top, EventsInv
<1>2. frame \in Frames
  BY <1>1, ElementOfSeq
<1>3. frame.type \in EventTypes
  BY <1>2, FrameFields
<1> QED
  BY <1>1, <1>2, <1>3 DEF EventsInv, ListsSound, Descends

\* A trigger calls the listener at which it stands.
LEMMA ListenerCalled ==
  ASSUME EventsInv, Events!CallListener
  PROVE  EventsInv'
<1>0. PICK f : f = Events!Top
  OBVIOUS
<1>1. /\ frames # << >> /\ ~f.running /\ f.current # NULL
      /\ UNCHANGED <<callbacks, next_id>>
      /\ frames' = [frames EXCEPT ![Len(frames)] =
                      [f EXCEPT !.running = TRUE, !.ran = Append(f.ran, f.current)]]
  BY <1>0 DEF Events!CallListener, Events!SetTop
<1>2. PICK ids : ids = callbacks[f.type]
  OBVIOUS
<1>3. f \in Frames /\ f.steady \subseteq 1 .. next_id /\ TriggerSound(f, ids)
  BY <1>0, <1>1, <1>2, TopSound
<1>4. /\ f.type \in EventTypes /\ f.current \in Nat /\ f.running = FALSE
      /\ f.ran \in Seq(Nat) /\ Len(f.ran) \in Nat /\ f.newest \in Nat /\ f.steady \subseteq Nat
      /\ \A k \in 1 .. Len(f.ran) : f.ran[k] \in Nat
  BY <1>1, <1>3, FrameFields
<1> DEFINE g == [f EXCEPT !.running = TRUE, !.ran = Append(f.ran, f.current)]
<1>5. /\ g \in Frames /\ g.type = f.type /\ g.current = f.current /\ g.running = TRUE
      /\ g.steady = f.steady /\ g.newest = f.newest /\ g.ran = Append(f.ran, f.current)
  <2>1. PICK ran : ran = Append(f.ran, f.current)
    OBVIOUS
  <2>2. ran \in Seq(Nat)
    BY <1>4, <2>1
  <2>3. g = [f EXCEPT !.running = TRUE, !.ran = ran]
    BY <2>1
  <2> HIDE DEF g
  <2> QED
    BY <1>3, <1>4, <2>1, <2>2, <2>3 DEF Frames
<1> HIDE DEF g
<1>6. /\ g.ran \in Seq(Nat) /\ Len(g.ran) = Len(f.ran) + 1
      /\ g.ran[Len(f.ran) + 1] = f.current
      /\ \A k \in 1 .. Len(f.ran) : g.ran[k] = f.ran[k]
  BY <1>4, <1>5, AppendProperties
<1>7. \A k \in 1 .. Len(g.ran) : k \in 1 .. Len(f.ran) \/ k = Len(f.ran) + 1
  BY <1>4, <1>6
<1>8. /\ Holds(ids, f.current) /\ f.current <= f.newest
      /\ \A k \in 1 .. Len(f.ran) : f.ran[k] > f.current
  BY <1>1, <1>3, <1>4 DEF TriggerSound, Stands
<1>9. Holds(g.ran, f.current)
  <2>1. Len(f.ran) + 1 \in 1 .. Len(g.ran)
    BY <1>4, <1>6
  <2> QED
    BY <1>6, <2>1 DEF Holds
<1>10. Stands(g, ids)
  BY <1>1, <1>5, <1>6, <1>7, <1>8, <1>9 DEF Stands
<1>11. Descends(g.ran)
  <2> SUFFICES ASSUME NEW j \in 1 .. Len(g.ran), NEW k \in 1 .. Len(g.ran), j < k
               PROVE  g.ran[j] > g.ran[k]
    BY DEF Descends
  <2>1. j \in 1 .. Len(f.ran)
    BY <1>4, <1>6
  <2>2. CASE k \in 1 .. Len(f.ran)
    BY <1>3, <1>6, <2>1, <2>2 DEF TriggerSound, Calls, Descends
  <2>3. CASE k = Len(f.ran) + 1
    BY <1>6, <1>8, <2>1, <2>3
  <2> QED
    BY <1>7, <2>2, <2>3
<1>12. \A id : Holds(f.ran, id) => Holds(g.ran, id)
  <2> SUFFICES ASSUME NEW k \in 1 .. Len(f.ran) PROVE Holds(g.ran, f.ran[k])
    BY DEF Holds
  <2>1. k \in 1 .. Len(g.ran) /\ g.ran[k] = f.ran[k]
    BY <1>4, <1>6
  <2> QED
    BY <2>1 DEF Holds
<1>13. \A k \in 1 .. Len(g.ran) : g.ran[k] <= g.newest
  BY <1>3, <1>5, <1>6, <1>7, <1>8 DEF TriggerSound, Calls
<1>14. Calls(g, ids)
  BY <1>3, <1>5, <1>11, <1>12, <1>13 DEF TriggerSound, Calls
<1>15. frames' = [frames EXCEPT ![Len(frames)] = g]
  BY <1>1 DEF g
<1> QED
  BY <1>1, <1>2, <1>3, <1>5, <1>10, <1>14, <1>15, TopChanges DEF TriggerSound

\* A listener returns, and its trigger goes on to the next one.
LEMMA ListenerReturned ==
  ASSUME EventsInv, Events!ListenerReturns
  PROVE  EventsInv'
<1>0. PICK f : f = Events!Top
  OBVIOUS
<1>1. PICK ids : ids = callbacks[f.type]
  OBVIOUS
<1>2. PICK next : next = Events!NextOf(ids, f.current)
  OBVIOUS
<1> DEFINE g == [f EXCEPT !.running = FALSE, !.current = next]
<1>3. /\ frames # << >> /\ f.running
      /\ UNCHANGED <<callbacks, next_id>>
      /\ frames' = [frames EXCEPT ![Len(frames)] = g]
  BY <1>0, <1>1, <1>2 DEF Events!ListenerReturns, Events!SetTop
<1>4. /\ f \in Frames /\ f.steady \subseteq 1 .. next_id /\ TriggerSound(f, ids)
      /\ ids \in Seq(Nat) /\ Len(ids) \in Nat /\ \A j \in 1 .. Len(ids) : ids[j] \in Nat
      /\ \A j, k \in 1 .. Len(ids) : j < k => ids[j] > ids[k]
  <2>1. /\ f \in Frames /\ f.steady \subseteq 1 .. next_id /\ TriggerSound(f, ids)
        /\ ids \in Seq(Nat)
        /\ \A j, k \in 1 .. Len(ids) : j < k => ids[j] > ids[k]
    BY <1>0, <1>1, <1>3, TopSound
  <2> QED
    BY <2>1, LenProperties, ElementOfSeq
<1>5. /\ f.type \in EventTypes /\ f.current \in Nat \cup {NULL} /\ f.running = TRUE
      /\ f.ran \in Seq(Nat) /\ Len(f.ran) \in Nat /\ f.newest \in Nat /\ f.steady \subseteq Nat
      /\ \A k \in 1 .. Len(f.ran) : f.ran[k] \in Nat
  BY <1>3, <1>4, FrameFields
<1>6. /\ f.current \in Nat
      /\ Holds(ids, f.current) /\ f.current <= f.newest /\ Holds(f.ran, f.current)
      /\ \A k \in 1 .. Len(f.ran) : f.ran[k] >= f.current
  <2>1. f.current # NULL /\ Holds(f.ran, f.current)
    BY <1>4, <1>5 DEF TriggerSound, Stands
  <2>2. /\ f.current \in Nat /\ Holds(ids, f.current) /\ f.current <= f.newest
        /\ \A k \in 1 .. Len(f.ran) : f.ran[k] > f.current \/ f.ran[k] = f.current
    BY <1>4, <1>5, <2>1 DEF TriggerSound, Stands
  <2>3. ASSUME NEW k \in 1 .. Len(f.ran) PROVE f.ran[k] >= f.current
    <3>1. f.ran[k] \in Nat
      BY <1>5
    <3> QED
      BY <2>2, <3>1
  <2> QED
    BY <2>1, <2>2, <2>3
<1>7. PICK k \in 1 .. Len(ids) : ids[k] = f.current
  BY <1>6 DEF Holds
<1>8. next = IF k = Len(ids) THEN NULL ELSE ids[k + 1]
  <2>1. \A j \in DOMAIN ids : ids[j] = f.current <=> j = k
    BY <1>4, <1>7
  <2>2. k \in DOMAIN ids
    BY <1>4, <1>7
  <2> DEFINE place == CHOOSE j \in DOMAIN ids : ids[j] = f.current
  <2>3. next = IF place = Len(ids) THEN NULL ELSE ids[place + 1]
    BY <1>2 DEF Events!NextOf
  <2>4. place = k
    BY <2>1, <2>2
  <2> HIDE DEF place
  <2> QED
    BY <2>3, <2>4
<1>9. /\ next \in Nat \cup {NULL}
      /\ next # NULL => Holds(ids, next) /\ next < f.current
      /\ \A id : Holds(ids, id) /\ id <= f.current => id = f.current \/ (next # NULL /\ id <= next)
  <2>1. CASE k = Len(ids)
    <3>1. ASSUME NEW j \in 1 .. Len(ids), ids[j] <= f.current PROVE ids[j] = f.current
      <4>1. j < k \/ j = k
        BY <1>4, <2>1
      <4> QED
        BY <1>4, <1>6, <1>7, <3>1, <4>1
    <3> QED
      BY <1>8, <2>1, <3>1 DEF Holds
  <2>2. CASE k # Len(ids)
    <3>1. /\ next = ids[k + 1] /\ k + 1 \in 1 .. Len(ids) /\ next \in Nat
      BY <1>4, <1>7, <1>8, <2>2
    <3>2. next < f.current /\ next # NULL
      BY <1>4, <1>6, <1>7, <3>1, PoolsAssumption
    <3>3. ASSUME NEW j \in 1 .. Len(ids), ids[j] <= f.current
          PROVE  ids[j] = f.current \/ ids[j] <= next
      <4>1. j < k \/ j = k \/ j = k + 1 \/ k + 1 < j
        BY <1>4, <1>7
      <4> QED
        BY <1>4, <1>6, <1>7, <3>1, <3>3, <4>1
    <3> QED
      BY <3>1, <3>2, <3>3 DEF Holds
  <2> QED
    BY <2>1, <2>2
<1>10. /\ g \in Frames /\ g.type = f.type /\ g.current = next /\ g.running = FALSE
       /\ g.steady = f.steady /\ g.newest = f.newest /\ g.ran = f.ran
  BY <1>4, <1>9 DEF Frames
<1> HIDE DEF g
<1>11. Stands(g, ids)
  <2>1. ASSUME next # NULL
        PROVE  next <= f.newest /\ \A j \in 1 .. Len(f.ran) : f.ran[j] > next
    <3>1. next \in Nat /\ next < f.current
      BY <1>9, <2>1
    <3> QED
      BY <1>5, <1>6, <3>1
  <2> QED
    BY <1>9, <1>10, <2>1 DEF Stands
<1>12. Calls(g, ids)
  <2>1. ASSUME NEW id \in f.steady, Holds(ids, id)
        PROVE  Holds(f.ran, id) \/ (next # NULL /\ id <= next)
    <3>1. Holds(f.ran, id) \/ id <= f.current
      BY <1>4, <2>1 DEF TriggerSound, Calls
    <3> QED
      BY <1>6, <1>9, <2>1, <3>1
  <2>2. Descends(f.ran) /\ \A j \in 1 .. Len(f.ran) : f.ran[j] <= f.newest
    BY <1>4 DEF TriggerSound, Calls
  <2> QED
    BY <1>10, <2>1, <2>2 DEF Calls
<1> QED
  BY <1>1, <1>3, <1>4, <1>10, <1>11, <1>12, TopChanges DEF TriggerSound

\* The innermost trigger ends.
LEMMA TriggerEnded ==
  ASSUME EventsInv, Events!TriggerEnds
  PROVE  EventsInv'
<1>1. /\ frames # << >> /\ UNCHANGED <<callbacks, next_id>>
      /\ frames' = SubSeq(frames, 1, Len(frames) - 1)
  BY DEF Events!TriggerEnds, Events!Front
<1>2. frames \in Seq(Frames) /\ Len(frames) \in Nat \ {0}
  BY <1>1 DEF EventsInv
<1>3. /\ frames' \in Seq(Frames) /\ Len(frames') = Len(frames) - 1
      /\ \A d \in 1 .. Len(frames) - 1 : frames'[d] = frames[d]
  <2>1. PICK n \in Nat : n = Len(frames) - 1
    BY <1>2
  <2>2. \A d \in 1 .. n : frames[d] \in Frames
    BY <1>2, <2>1, ElementOfSeq
  <2>3. /\ SubSeq(frames, 1, n) \in Seq(Frames) /\ Len(SubSeq(frames, 1, n)) = n
        /\ \A d \in 1 .. n : SubSeq(frames, 1, n)[d] = frames[d]
    BY <1>2, <2>2, SubSeqProperties
  <2> QED
    BY <1>1, <2>1, <2>3
<1>4. \A d \in 1 .. Len(frames') : d \in 1 .. Len(frames) /\ d \in 1 .. Len(frames) - 1
  BY <1>2, <1>3
<1> QED
  BY <1>1, <1>3, <1>4, TriggersChange

\* A trigger of the event system calls every listener that was there all along,
\* each once, whatever events its callbacks trigger, whatever listeners they add
\* and whatever listeners they remove, except those at which a trigger in
\* progress stands (remove_listener's guard): their own is one of these.
THEOREM TriggersComplete == Spec => []TriggerComplete
<1>1. Init => EventsInv
  <2> SUFFICES ASSUME Events!Init PROVE EventsInv
    BY DEF Init
  <2>1. << >> \in Seq(Nat) /\ << >> \in Seq(Frames) /\ Len(<< >>) = 0
    OBVIOUS
  <2> QED
    BY <2>1 DEF Events!Init, EventsInv, ListsSound, Descends
<1>2. EventsInv /\ [Next]_vars => EventsInv'
  <2> SUFFICES ASSUME EventsInv, [Events!Next]_events PROVE EventsInv'
    BY Frame
  <2>1. ASSUME NEW e \in EventTypes, Events!add_listener(e) PROVE EventsInv'
    BY <2>1, ListenerAdded
  <2>2. ASSUME NEW e \in EventTypes, Events!trigger_event(e) PROVE EventsInv'
    BY <2>2, TriggerBegins
  <2>3. ASSUME NEW e \in EventTypes, NEW id \in 1 .. MaxId, Events!remove_listener(e, id)
        PROVE  EventsInv'
    BY <2>3, ListenerRemoved
  <2>4. CASE Events!cleanup_event_system
    BY <2>4, CleanedUp
  <2>5. CASE Events!CallListener
    BY <2>5, ListenerCalled
  <2>6. CASE Events!ListenerReturns
    BY <2>6, ListenerReturned
  <2>7. CASE Events!TriggerEnds
    BY <2>7, TriggerEnded
  <2>8. CASE UNCHANGED events
    BY <2>8 DEF events, EventsInv, ListsSound
  <2>9. CASE UNCHANGED Events!vars
    BY <2>8, <2>9 DEF events, Events!vars
  <2> QED
    BY <2>1, <2>2, <2>3, <2>4, <2>5, <2>6, <2>7, <2>8, <2>9
    DEF Events!Next, Events!AddFails, Events!RemoveFails
<1>3. EventsInv => TriggerComplete
  <2> SUFFICES ASSUME EventsInv, NEW d \in DOMAIN frames
               PROVE  LET frame == frames[d] IN
                      /\ \A j, k \in DOMAIN frame.ran : j < k => frame.ran[j] > frame.ran[k]
                      /\ \A k \in DOMAIN frame.ran : frame.ran[k] <= frame.newest
                      /\ frame.current = NULL => Events!Steady(frame) \subseteq Events!Range(frame.ran)
    BY DEF TriggerComplete, Events!TriggerComplete
  <2>1. PICK f : f = frames[d]
    OBVIOUS
  <2>2. f \in Frames /\ TriggerSound(f, callbacks[f.type])
    BY <2>1, ElementOfSeq DEF EventsInv
  <2>3. /\ f.type \in EventTypes /\ DOMAIN f.ran = 1 .. Len(f.ran)
        /\ callbacks[f.type] \in Seq(Nat)
    BY <2>2, FrameFields DEF EventsInv, ListsSound
  <2>4. ASSUME f.current = NULL, NEW id \in Events!Steady(f)
        PROVE  id \in Events!Range(f.ran)
    <3>1. id \in f.steady /\ Holds(callbacks[f.type], id)
      BY <2>3, <2>4 DEF Events!Steady, Events!Range, Holds
    <3>2. Holds(f.ran, id)
      BY <2>2, <2>4, <3>1 DEF TriggerSound, Calls
    <3> QED
      BY <2>3, <3>2 DEF Holds, Events!Range
  <2> QED
    BY <2>1, <2>2, <2>3, <2>4 DEF TriggerSound, Calls, Descends
<1> QED
  BY <1>1, <1>2, <1>3, PTL DEF Spec
-----------------------------------------------------------------------------
(* Align-Padding.c                                                         *)

\* The block has room for the bytes of the pointer h and for a pointer before
\* them.
Inside(h, b) == b.raw <= h.ptr - PtrSize /\ h.ptr + h.size <= b.raw + b.total

\* The bytes before those of h hold the address of the block.
Stores(h, b) == \A a \in h.ptr - PtrSize .. h.ptr - 1 : arena[a] = b.raw

Raws == [raw : Nat, total : Nat \ {0}]

Pointers == [ptr : Nat, size : Nat \ {0}, alignment : Nat \ {0}]

Apart(b, c) ==
  \A a \in Nat : ~(b.raw <= a /\ a < b.raw + b.total /\ c.raw <= a /\ a < c.raw + c.total)

BlocksSound ==
  /\ blocks \subseteq Raws
  /\ \A b \in blocks : b.raw + b.total <= ArenaSize
  /\ \A b, c \in blocks : b # c => Apart(b, c)

PointersSound ==
  /\ pointers \subseteq Pointers
  /\ \A h \in pointers : h.ptr % h.alignment = 0
  /\ \A h \in pointers : \E b \in blocks : Inside(h, b) /\ Stores(h, b)
  /\ \A g, h \in pointers : \A b \in blocks : Inside(g, b) /\ Inside(h, b) => g = h

AlignedInv ==
  /\ DOMAIN arena = 0 .. ArenaSize - 1
  /\ BlocksSound
  /\ PointersSound
  /\ IsFiniteSet(blocks) /\ IsFiniteSet(pointers)
  /\ Cardinality(blocks) = Cardinality(pointers)

\* Rounding up to a multiple.
LEMMA AlignUpBounds ==
  ASSUME NEW x \in Nat, NEW a \in Nat \ {0}
  PROVE  /\ Aligned!AlignUp(x, a) \in Nat
         /\ x <= Aligned!AlignUp(x, a) /\ Aligned!AlignUp(x, a) <= x + a - 1
         /\ Aligned!AlignUp(x, a) % a = 0
<1>1. PICK times : times = (x + a - 1) \div a
  OBVIOUS
<1>2. times \in Nat
  BY <1>1
<1>3. times * a <= x + a - 1 /\ x + a - 1 < times * a + a
  BY <1>1
<1>4. PICK p \in Nat : p = times * a
  BY <1>2
<1>5. p % a = 0
  <2>1. PICK d, r : d = p \div a /\ r = p % a
    OBVIOUS
  <2>2. d \in Int /\ r \in 0 .. a - 1 /\ p = a * d + r
    BY <1>4, <2>1
  <2>3. PICK e \in Int : e = times - d
    BY <1>2, <2>2
  <2>4. a * e = r
    BY <1>2, <1>4, <2>2, <2>3
  <2>5. CASE e >= 1
    <3>1. a * e >= a
      BY <2>5
    <3> QED
      BY <2>2, <2>4, <3>1
  <2>6. CASE e <= -1
    <3>1. a * e <= -a
      BY <2>6
    <3> QED
      BY <2>2, <2>4, <3>1
  <2>7. CASE e = 0
    BY <2>1, <2>2, <2>4, <2>7
  <2> QED
    BY <2>3, <2>5, <2>6, <2>7
<1> QED
  BY <1>1, <1>3, <1>4, <1>5 DEF Aligned!AlignUp

\* Numbers, and the intervals of AlignedMalloc.
LEMMA ArenaNumbers ==
  /\ ArenaSize \in Nat /\ PtrSize \in Nat \ {0} /\ MaxSize \in Nat /\ MaxAlign \in Nat
  /\ \A b \in Raws : b.raw \in Nat /\ b.total \in Nat \ {0}
  /\ \A h \in Pointers : h.ptr \in Nat /\ h.size \in Nat \ {0} /\ h.alignment \in Nat \ {0}
BY ArenaAssumption DEF Raws, Pointers

\* A pointer inside a block lies in it, and so does the slot before it.
LEMMA InsideMeets ==
  ASSUME NEW h \in Pointers, NEW b \in Raws, Inside(h, b)
  PROVE  /\ \A c \in Raws : Inside(h, c) => ~Apart(b, c)
         /\ \A c \in Raws : Apart(b, c) =>
              \A a \in h.ptr - PtrSize .. h.ptr - 1 : ~(c.raw <= a /\ a < c.raw + c.total)
<1>1. /\ h.ptr \in Nat /\ h.size \in Nat \ {0} /\ PtrSize \in Nat \ {0}
      /\ b.raw \in Nat /\ b.total \in Nat \ {0}
      /\ b.raw <= h.ptr - PtrSize /\ h.ptr + h.size <= b.raw + b.total
  BY ArenaNumbers DEF Inside
<1>2. ASSUME NEW c \in Raws, Inside(h, c), Apart(b, c) PROVE FALSE
  <2>1. c.raw \in Nat /\ c.raw <= h.ptr - PtrSize /\ h.ptr + h.size <= c.raw + c.total /\ c.total \in Nat
    BY <1>2, ArenaNumbers DEF Inside
  <2>2. /\ b.raw <= h.ptr /\ h.ptr < b.raw + b.total
        /\ c.raw <= h.ptr /\ h.ptr < c.raw + c.total
    BY <1>1, <2>1
  <2> QED
    BY <1>1, <1>2, <2>2 DEF Apart
<1>3. ASSUME NEW c \in Raws, Apart(b, c), NEW a \in h.ptr - PtrSize .. h.ptr - 1
      PROVE  ~(c.raw <= a /\ a < c.raw + c.total)
  <2>1. a \in Nat /\ b.raw <= a /\ a < b.raw + b.total
    BY <1>1
  <2> QED
    BY <1>3, <2>1 DEF Apart
<1> QED
  BY <1>2, <1>3

\* What free_aligned reads before a pointer.
LEMMA StoredRaw ==
  ASSUME ArenaSize \in Nat, PtrSize \in Nat \ {0}, NEW h, NEW b, h.ptr \in Nat,
         b.raw \in Nat, b.total \in Nat \ {0}, b.raw + b.total <= ArenaSize,
         h.size \in Nat, Inside(h, b), Stores(h, b)
  PROVE  Aligned!Stored(h.ptr) = b.raw
<1>1. Aligned!Slot(h.ptr) = h.ptr - PtrSize .. h.ptr - 1
  <2>1. (h.ptr - PtrSize) + PtrSize - 1 = h.ptr - 1
    OBVIOUS
  <2> QED
    BY <2>1 DEF Aligned!Slot, Aligned!Span
<1>2. ASSUME NEW a \in h.ptr - PtrSize .. h.ptr - 1
      PROVE  a \in 0 .. ArenaSize - 1 /\ arena[a] = b.raw
  BY DEF Stores, Inside
<1>3. b.raw \in 0 .. ArenaSize - 1 /\ h.ptr - PtrSize \in h.ptr - PtrSize .. h.ptr - 1
  OBVIOUS
<1> QED
  BY <1>1, <1>2, <1>3 DEF Aligned!Stored, Aligned!Arena

\* malloc_aligned keeps its promise for every block that malloc may return.
LEMMA BlockAllocated ==
  ASSUME AlignedInv, NEW size \in 0 .. MaxSize, NEW align \in 0 .. MaxAlign,
         Aligned!malloc_aligned(size, align)
  PROVE  AlignedInv'
<1>1. PICK raw \in Aligned!Room(Aligned!Total(size, align)) :
        LET ptr == Aligned!AlignUp(raw + PtrSize, align) IN
        /\ blocks' = blocks \cup {[raw |-> raw, total |-> Aligned!Total(size, align)]}
        /\ arena' = [a \in Aligned!Arena |-> IF a \in Aligned!Slot(ptr) THEN raw ELSE arena[a]]
        /\ pointers' = pointers \cup {[ptr |-> ptr, size |-> size, alignment |-> align]}
  BY DEF Aligned!malloc_aligned
<1>2. size \in Nat \ {0} /\ align \in Nat \ {0} /\ ArenaSize \in Nat /\ PtrSize \in Nat \ {0}
  BY ArenaNumbers DEF Aligned!malloc_aligned, Aligned!Acceptable
<1>3. PICK total \in Nat \ {0} : total = Aligned!Total(size, align) /\ total = size + align - 1 + PtrSize
  BY <1>2 DEF Aligned!Total
<1>4. /\ raw \in Nat /\ raw + total <= ArenaSize
      /\ \A b \in blocks : Aligned!Span(raw, total) \cap Aligned!Span(b.raw, b.total) = {}
  <2>1. /\ raw \in 0 .. ArenaSize - 1 /\ raw .. raw + total - 1 \subseteq 0 .. ArenaSize - 1
        /\ \A b \in blocks : Aligned!Span(raw, total) \cap Aligned!Span(b.raw, b.total) = {}
    BY <1>1, <1>3 DEF Aligned!Room, Aligned!Span, Aligned!Arena
  <2>2. raw + total - 1 \in raw .. raw + total - 1
    BY <1>2, <1>3, <2>1
  <2> QED
    BY <1>2, <1>3, <2>1, <2>2
<1>5. PICK ptr \in Nat : /\ ptr = Aligned!AlignUp(raw + PtrSize, align)
                         /\ raw + PtrSize <= ptr /\ ptr <= raw + PtrSize + align - 1
                         /\ ptr % align = 0
  <2>1. PICK lowest \in Nat : lowest = raw + PtrSize
    BY <1>2, <1>4
  <2> QED
    BY <1>2, <2>1, AlignUpBounds
<1> DEFINE span == [raw |-> raw, total |-> total]
           pointer == [ptr |-> ptr, size |-> size, alignment |-> align]
<1>6. /\ blocks' = blocks \cup {span} /\ pointers' = pointers \cup {pointer}
      /\ arena' = [a \in 0 .. ArenaSize - 1 |->
                     IF a \in ptr - PtrSize .. ptr - 1 THEN raw ELSE arena[a]]
  <2>1. (ptr - PtrSize) + PtrSize - 1 = ptr - 1
    BY <1>2, <1>5
  <2> QED
    BY <1>1, <1>3, <1>5, <2>1 DEF Aligned!Arena, Aligned!Slot, Aligned!Span
<1>7. /\ span \in Raws /\ span.raw = raw /\ span.total = total
      /\ pointer \in Pointers /\ pointer.ptr = ptr /\ pointer.size = size
      /\ pointer.alignment = align
  BY <1>2, <1>3, <1>4, <1>5 DEF Raws, Pointers
<1> HIDE DEF span, pointer
<1>8. ASSUME NEW b \in blocks PROVE Apart(span, b) /\ Apart(b, span)
  <2>1. b.raw \in Nat /\ b.total \in Nat
    BY ArenaNumbers DEF AlignedInv, BlocksSound
  <2>2. SUFFICES ASSUME NEW a \in Nat, raw <= a, a < raw + total, b.raw <= a, a < b.raw + b.total
                 PROVE  FALSE
    BY <1>7 DEF Apart
  <2>3. a \in raw .. raw + total - 1 /\ a \in b.raw .. b.raw + b.total - 1
    BY <1>3, <1>4, <2>1, <2>2
  <2> QED
    BY <1>4, <2>3 DEF Aligned!Span
<1>9. Inside(pointer, span) /\ Stores(pointer, span)'
  <2>1. Inside(pointer, span)
    BY <1>2, <1>3, <1>4, <1>5, <1>7 DEF Inside
  <2>2. \A a \in ptr - PtrSize .. ptr - 1 : a \in 0 .. ArenaSize - 1
    BY <1>2, <1>3, <1>4, <1>5
  <2> QED
    BY <1>6, <1>7, <2>1, <2>2 DEF Stores
<1>10. ~Apart(span, span)
  <2>1. raw <= raw /\ raw < raw + total
    BY <1>3, <1>4
  <2> QED
    BY <1>4, <1>7, <2>1 DEF Apart
<1>11. blocks \subseteq Raws /\ pointers \subseteq Pointers
  BY DEF AlignedInv, BlocksSound, PointersSound
<1>12. ASSUME NEW h \in pointers
       PROVE  /\ ~Inside(h, span)
              /\ \A b \in blocks : ~Inside(pointer, b)
  <2>1. PICK b \in blocks : Inside(h, b)
    BY DEF AlignedInv, PointersSound
  <2> QED
    BY <1>7, <1>8, <1>9, <1>11, <2>1, InsideMeets
<1>13. span \notin blocks /\ pointer \notin pointers
  BY <1>8, <1>9, <1>10, <1>12
<1>14. BlocksSound'
  <2>1. blocks' \subseteq Raws /\ \A b \in blocks' : b.raw + b.total <= ArenaSize
    BY <1>4, <1>6, <1>7, <1>11 DEF AlignedInv, BlocksSound
  <2>2. \A b, c \in blocks' : b # c => Apart(b, c)
    BY <1>6, <1>8 DEF AlignedInv, BlocksSound
  <2> QED
    BY <2>1, <2>2 DEF BlocksSound
<1>15. ASSUME NEW h \in pointers, NEW b \in blocks, Inside(h, b), Stores(h, b)
       PROVE  Stores(h, b)'
  <2> SUFFICES ASSUME NEW a \in h.ptr - PtrSize .. h.ptr - 1 PROVE arena'[a] = b.raw
    BY DEF Stores
  <2>1. arena[a] = b.raw
    BY <1>15 DEF Stores
  <2>2. /\ h.ptr \in Nat /\ h.size \in Nat \ {0} /\ b.raw \in Nat /\ b.total \in Nat
        /\ b.raw + b.total <= ArenaSize
    BY <1>11, ArenaNumbers DEF AlignedInv, BlocksSound
  <2>3. a \in 0 .. ArenaSize - 1
    BY <1>2, <1>15, <2>2 DEF Inside
  <2>4. ~(raw <= a /\ a < raw + total)
    BY <1>7, <1>8, <1>11, <1>15, InsideMeets
  <2>5. a \notin ptr - PtrSize .. ptr - 1
    BY <1>2, <1>3, <1>4, <1>5, <2>3, <2>4
  <2> QED
    BY <1>6, <2>1, <2>3, <2>5
<1>16. PointersSound'
  <2>1. pointers' \subseteq Pointers /\ \A h \in pointers' : h.ptr % h.alignment = 0
    BY <1>5, <1>6, <1>7, <1>11 DEF AlignedInv, PointersSound
  <2>2. \A h \in pointers' : \E b \in blocks' : Inside(h, b) /\ Stores(h, b)'
    BY <1>6, <1>9, <1>15 DEF AlignedInv, PointersSound
  <2>3. \A g, h \in pointers' : \A b \in blocks' : Inside(g, b) /\ Inside(h, b) => g = h
    BY <1>6, <1>12 DEF AlignedInv, PointersSound
  <2> QED
    BY <2>1, <2>2, <2>3 DEF PointersSound, Inside
<1>17. /\ IsFiniteSet(blocks') /\ IsFiniteSet(pointers')
       /\ Cardinality(blocks') = Cardinality(pointers')
  <2>1. IsFiniteSet(blocks) /\ IsFiniteSet(pointers) /\ Cardinality(blocks) = Cardinality(pointers)
    BY DEF AlignedInv
  <2>2. /\ IsFiniteSet(blocks \cup {span})
        /\ Cardinality(blocks \cup {span}) = Cardinality(blocks) + 1
    BY <1>13, <2>1, FS_AddElement
  <2>3. /\ IsFiniteSet(pointers \cup {pointer})
        /\ Cardinality(pointers \cup {pointer}) = Cardinality(pointers) + 1
    BY <1>13, <2>1, FS_AddElement
  <2> QED
    BY <1>6, <2>1, <2>2, <2>3
<1> QED
  BY <1>6, <1>14, <1>16, <1>17 DEF AlignedInv

\* free_aligned finds the block of the pointer, and no other.
LEMMA BlockFreed ==
  ASSUME AlignedInv, NEW h \in pointers, Aligned!free_aligned(h)
  PROVE  AlignedInv'
<1>1. PICK b \in blocks : Inside(h, b) /\ Stores(h, b)
  BY DEF AlignedInv, PointersSound
<1>2. blocks \subseteq Raws /\ pointers \subseteq Pointers
  BY DEF AlignedInv, BlocksSound, PointersSound
<1>3. /\ ArenaSize \in Nat /\ PtrSize \in Nat \ {0} /\ h.ptr \in Nat /\ h.size \in Nat \ {0}
      /\ b.raw \in Nat /\ b.total \in Nat \ {0} /\ b.raw + b.total <= ArenaSize
      /\ b.raw <= h.ptr - PtrSize /\ h.ptr + h.size <= b.raw + b.total
  BY <1>1, <1>2, ArenaNumbers DEF AlignedInv, BlocksSound, Inside
<1>4. Aligned!Stored(h.ptr) = b.raw
  BY <1>1, <1>3, StoredRaw
<1>5. ASSUME NEW c \in blocks, c.raw = b.raw PROVE c = b
  <2>1. c.raw \in Nat /\ c.total \in Nat \ {0}
    BY <1>2, ArenaNumbers
  <2>2. ~Apart(b, c)
    <3>1. /\ b.raw <= b.raw /\ b.raw < b.raw + b.total
          /\ c.raw <= b.raw /\ b.raw < c.raw + c.total
      BY <1>3, <1>5, <2>1
    <3> QED
      BY <1>3, <3>1 DEF Apart
  <2> QED
    BY <2>2 DEF AlignedInv, BlocksSound
<1>6. {c \in blocks : c.raw = Aligned!Stored(h.ptr)} = {b}
  BY <1>4, <1>5
<1>7. /\ blocks' = blocks \ {b} /\ pointers' = pointers \ {h}
      /\ arena' = [a \in 0 .. ArenaSize - 1 |->
                     IF a \in b.raw .. b.raw + b.total - 1 THEN NULL ELSE arena[a]]
  BY <1>6 DEF Aligned!free_aligned, Aligned!Arena, Aligned!Span
<1>8. BlocksSound'
  BY <1>7 DEF AlignedInv, BlocksSound
<1>9. ASSUME NEW g \in pointers, g # h, NEW c \in blocks, Inside(g, c), Stores(g, c)
      PROVE  c # b /\ Stores(g, c)'
  <2>1. c # b
    BY <1>1, <1>9 DEF AlignedInv, PointersSound
  <2>2. /\ g.ptr \in Nat /\ g.size \in Nat \ {0} /\ c.raw \in Nat /\ c.total \in Nat
        /\ c.raw + c.total <= ArenaSize
    BY <1>2, ArenaNumbers DEF AlignedInv, BlocksSound
  <2>3. Apart(c, b)
    BY <2>1 DEF AlignedInv, BlocksSound
  <2>4. ASSUME NEW a \in g.ptr - PtrSize .. g.ptr - 1 PROVE arena'[a] = c.raw
    <3>1. arena[a] = c.raw
      BY <1>9 DEF Stores
    <3>2. a \in 0 .. ArenaSize - 1
      BY <1>3, <1>9, <2>2 DEF Inside
    <3>3. ~(b.raw <= a /\ a < b.raw + b.total)
      BY <1>2, <1>9, <2>3, InsideMeets
    <3>4. a \notin b.raw .. b.raw + b.total - 1
      BY <1>3, <3>2, <3>3
    <3> QED
      BY <1>7, <3>1, <3>2, <3>4
  <2> QED
    BY <2>1, <2>4 DEF Stores
<1>10. PointersSound'
  <2>1. \A g \in pointers' : \E c \in blocks' : Inside(g, c) /\ Stores(g, c)'
    BY <1>7, <1>9 DEF AlignedInv, PointersSound
  <2> QED
    BY <1>7, <2>1 DEF AlignedInv, PointersSound, Inside
<1>11. /\ IsFiniteSet(blocks') /\ IsFiniteSet(pointers')
       /\ Cardinality(blocks') = Cardinality(pointers')
  BY ZenonT(30), <1>7, FS_RemoveElement DEF AlignedInv
<1> QED
  BY <1>7, <1>8, <1>10, <1>11 DEF AlignedInv

\* What the program writes into its bytes leaves every stored address alone.
LEMMA BytesWritten ==
  ASSUME AlignedInv, NEW h \in pointers, Aligned!WriteBytes(h)
  PROVE  AlignedInv'
<1>1. PICK b \in blocks : Inside(h, b) /\ Stores(h, b)
  BY DEF AlignedInv, PointersSound
<1>2. blocks \subseteq Raws /\ pointers \subseteq Pointers
  BY DEF AlignedInv, BlocksSound, PointersSound
<1>3. /\ ArenaSize \in Nat /\ PtrSize \in Nat \ {0} /\ h.ptr \in Nat /\ h.size \in Nat \ {0}
      /\ b.raw \in Nat /\ b.total \in Nat \ {0}
      /\ b.raw <= h.ptr - PtrSize /\ h.ptr + h.size <= b.raw + b.total
  BY <1>1, <1>2, ArenaNumbers DEF Inside
<1>4. /\ blocks' = blocks /\ pointers' = pointers
      /\ arena' = [a \in 0 .. ArenaSize - 1 |->
                     IF a \in h.ptr .. h.ptr + h.size - 1 THEN Data ELSE arena[a]]
  BY DEF Aligned!WriteBytes, Aligned!Arena, Aligned!Span
<1>5. ASSUME NEW g \in pointers, NEW c \in blocks, Inside(g, c), Stores(g, c)
      PROVE  Stores(g, c)'
  <2>1. /\ g.ptr \in Nat /\ g.size \in Nat \ {0} /\ c.raw \in Nat /\ c.total \in Nat
        /\ c.raw + c.total <= ArenaSize
    BY <1>2, ArenaNumbers DEF AlignedInv, BlocksSound
  <2> SUFFICES ASSUME NEW a \in g.ptr - PtrSize .. g.ptr - 1 PROVE arena'[a] = c.raw
    BY DEF Stores
  <2>2. arena[a] = c.raw
    BY <1>5 DEF Stores
  <2>3. a \in 0 .. ArenaSize - 1
    BY <1>3, <1>5, <2>1 DEF Inside
  <2>4. a \notin h.ptr .. h.ptr + h.size - 1
    <3>1. CASE g = h
      BY <1>3, <3>1
    <3>2. CASE g # h
      <4>1. c # b
        BY <1>1, <1>5, <3>2 DEF AlignedInv, PointersSound
      <4>2. Apart(c, b)
        BY <4>1 DEF AlignedInv, BlocksSound
      <4>3. ~(b.raw <= a /\ a < b.raw + b.total)
        BY <1>2, <1>5, <4>2, InsideMeets
      <4> QED
        BY <1>3, <2>3, <4>3
    <3> QED
      BY <3>1, <3>2
  <2> QED
    BY <1>4, <2>2, <2>3, <2>4
<1>6. BlocksSound'
  BY <1>4 DEF AlignedInv, BlocksSound
<1>7. PointersSound'
  BY <1>4, <1>5 DEF AlignedInv, PointersSound, Inside
<1> QED
  BY <1>4, <1>6, <1>7 DEF AlignedInv

\* Aligned pointers are aligned, lie in a block of malloc of their own, and lead
\* free_aligned to it whatever the program writes into its bytes.
THEOREM BlocksStayAligned == Spec => []AlignedBlocks
<1>1. Init => AlignedInv
  <2> SUFFICES ASSUME Aligned!Init PROVE AlignedInv
    BY DEF Init
  <2> QED
    BY FS_EmptySet DEF Aligned!Init, Aligned!Arena, AlignedInv, BlocksSound, PointersSound
<1>2. AlignedInv /\ [Next]_vars => AlignedInv'
  <2> SUFFICES ASSUME AlignedInv, [Aligned!Next]_alignment PROVE AlignedInv'
    BY Frame
  <2>1. ASSUME NEW size \in 0 .. MaxSize, NEW align \in 0 .. MaxAlign,
               Aligned!malloc_aligned(size, align)
        PROVE  AlignedInv'
    BY <2>1, BlockAllocated
  <2>2. CASE UNCHANGED <<arena, blocks, pointers>>
    BY <2>2 DEF AlignedInv, BlocksSound, PointersSound, Stores
  <2>3. ASSUME NEW h \in pointers, Aligned!free_aligned(h) PROVE AlignedInv'
    BY <2>3, BlockFreed
  <2>4. ASSUME NEW h \in pointers, Aligned!WriteBytes(h) PROVE AlignedInv'
    BY <2>4, BytesWritten
  <2> QED
    BY <2>1, <2>2, <2>3, <2>4 DEF Aligned!Next, Aligned!ReturnsNull, alignment
<1>3. AlignedInv => AlignedBlocks
  <2> SUFFICES ASSUME AlignedInv PROVE Aligned!AlignedBlocks
    BY DEF AlignedBlocks
  <2>1. ASSUME NEW h \in pointers
        PROVE  /\ h.ptr % h.alignment = 0
               /\ \E b \in blocks :
                    /\ b.raw = Aligned!Stored(h.ptr)
                    /\ Aligned!Slot(h.ptr) \cup Aligned!Span(h.ptr, h.size)
                         \subseteq Aligned!Span(b.raw, b.total)
    <3>1. PICK b \in blocks : Inside(h, b) /\ Stores(h, b)
      BY DEF AlignedInv, PointersSound
    <3>2. /\ ArenaSize \in Nat /\ PtrSize \in Nat \ {0} /\ h.ptr \in Nat /\ h.size \in Nat \ {0}
          /\ b.raw \in Nat /\ b.total \in Nat \ {0} /\ b.raw + b.total <= ArenaSize
          /\ b.raw <= h.ptr - PtrSize /\ h.ptr + h.size <= b.raw + b.total
      BY <3>1, ArenaNumbers DEF AlignedInv, BlocksSound, PointersSound, Inside
    <3>3. b.raw = Aligned!Stored(h.ptr)
      BY <3>1, <3>2, StoredRaw
    <3>4. Aligned!Slot(h.ptr) \cup Aligned!Span(h.ptr, h.size) \subseteq Aligned!Span(b.raw, b.total)
      BY <3>2 DEF Aligned!Slot, Aligned!Span
    <3> QED
      BY <3>3, <3>4 DEF AlignedInv, PointersSound
  <2>2. Aligned!Cardinality(blocks) = Aligned!Cardinality(pointers)
    <3>1. Cardinality(blocks) = Cardinality(pointers)
      BY DEF AlignedInv
    <3>2. /\ Aligned!Cardinality(blocks) = Cardinality(blocks)
          /\ Aligned!Cardinality(pointers) = Cardinality(pointers)
      BY Zenon DEF Aligned!Cardinality, Cardinality
    <3> QED
      BY <3>1, <3>2
  <2> QED
    BY <2>1, <2>2 DEF Aligned!AlignedBlocks
<1> QED
  BY <1>1, <1>2, <1>3, PTL DEF Spec
-----------------------------------------------------------------------------
(* producer.cpp                                                            *)

Monitor == {"test", "queue", "notify", "unlock"}

QueueTypes ==
  /\ q \in Seq(Nat) /\ popped \in Seq(Nat)
  /\ i \in 0 .. NumItems
  /\ queuePc \in [OneCondition!Threads -> {"lock", "wait", "relock", "done"} \cup Monitor]

\* A thread in the monitor has the mutex, and what it has waited for is still
\* there when it comes to the queue.
QueueInv ==
  /\ QueueTypes
  /\ Len(q) <= Q_MAX_SIZE
  /\ mtx \in OneCondition!Threads \cup {NoThread}
  /\ \A t \in OneCondition!Threads : mtx = t <=> queuePc[t] \in Monitor
  /\ \A t \in OneCondition!Threads : queuePc[t] = "queue" => OneCondition!Ready(t)
  /\ queuePc["producer"] # "done" => i < NumItems
  /\ queuePc["consumer"] # "done"
  /\ OneCondition!NoLostWakeup

\* The channel that the threads see does not change.
SameChannel ==
  UNCHANGED <<OneCondition!Pairs(q), OneCondition!Sent, OneCondition!Pairs(popped)>>

\* The items of the channel, after an insertion and after a removal.
LEMMA PairsAppended ==
  ASSUME NEW s \in Seq(Nat), NEW n \in Nat
  PROVE  OneCondition!Pairs(Append(s, n)) = Append(OneCondition!Pairs(s), <<"producer", n>>)
<1> DEFINE Item == {"producer"} \X Nat
           pairs == OneCondition!Pairs(s)
           after == OneCondition!Pairs(Append(s, n))
<1>1. Len(s) \in Nat /\ DOMAIN s = 1 .. Len(s) /\ \A k \in 1 .. Len(s) : s[k] \in Nat
  BY LenProperties, ElementOfSeq
<1>2. /\ Append(s, n) \in Seq(Nat) /\ Len(Append(s, n)) = Len(s) + 1
      /\ DOMAIN Append(s, n) = 1 .. Len(s) + 1
      /\ \A k \in 1 .. Len(s) : Append(s, n)[k] = s[k]
      /\ Append(s, n)[Len(s) + 1] = n
  BY AppendProperties, LenProperties
<1>3. /\ pairs \in Seq(Item) /\ Len(pairs) = Len(s)
      /\ \A k \in 1 .. Len(s) : pairs[k] = <<"producer", s[k]>>
  BY <1>1 DEF OneCondition!Pairs
<1>4. /\ after \in Seq(Item) /\ Len(after) = Len(s) + 1
      /\ \A k \in 1 .. Len(s) + 1 : after[k] = <<"producer", Append(s, n)[k]>>
  <2>1. \A k \in 1 .. Len(s) + 1 : Append(s, n)[k] \in Nat
    BY <1>2, ElementOfSeq
  <2> QED
    BY <1>1, <1>2, <2>1 DEF OneCondition!Pairs
<1> HIDE DEF pairs, after
<1>5. /\ Append(pairs, <<"producer", n>>) \in Seq(Item)
      /\ Len(Append(pairs, <<"producer", n>>)) = Len(s) + 1
      /\ \A k \in 1 .. Len(s) : Append(pairs, <<"producer", n>>)[k] = pairs[k]
      /\ Append(pairs, <<"producer", n>>)[Len(s) + 1] = <<"producer", n>>
  <2>1. <<"producer", n>> \in Item
    OBVIOUS
  <2> QED
    BY <1>3, <2>1, AppendProperties
<1>6. \A k \in 1 .. Len(s) + 1 : after[k] = Append(pairs, <<"producer", n>>)[k]
  <2>1. \A k \in 1 .. Len(s) + 1 : k \in 1 .. Len(s) \/ k = Len(s) + 1
    BY <1>1
  <2> QED
    BY <1>2, <1>3, <1>4, <1>5, <2>1
<1>7. after = Append(pairs, <<"producer", n>>)
  BY <1>4, <1>5, <1>6, SeqEqual
<1> QED
  BY <1>7 DEF pairs, after

\* A removal takes the first item, which the consumer adds to what it has got.
LEMMA PairsRemoved ==
  ASSUME NEW s \in Seq(Nat), s # << >>
  PROVE  /\ OneCondition!Pairs(s) # << >>
         /\ Head(OneCondition!Pairs(s)) = <<"producer", Head(s)>>
         /\ Tail(OneCondition!Pairs(s)) = OneCondition!Pairs(Tail(s))
<1> DEFINE Item == {"producer"} \X Nat
           pairs == OneCondition!Pairs(s)
           after == OneCondition!Pairs(Tail(s))
<1>1. Len(s) \in Nat \ {0} /\ DOMAIN s = 1 .. Len(s) /\ \A k \in 1 .. Len(s) : s[k] \in Nat
  BY EmptySeq, LenProperties, ElementOfSeq
<1>2. /\ Tail(s) \in Seq(Nat) /\ Len(Tail(s)) = Len(s) - 1
      /\ DOMAIN Tail(s) = 1 .. Len(s) - 1 /\ Head(s) = s[1]
      /\ \A k \in 1 .. Len(s) - 1 : Tail(s)[k] = s[k + 1] /\ k + 1 \in 1 .. Len(s)
  BY <1>1, HeadTailProperties, LenProperties
<1>3. /\ pairs \in Seq(Item) /\ Len(pairs) = Len(s)
      /\ \A k \in 1 .. Len(s) : pairs[k] = <<"producer", s[k]>>
  BY <1>1 DEF OneCondition!Pairs
<1>4. /\ after \in Seq(Item) /\ Len(after) = Len(s) - 1
      /\ \A k \in 1 .. Len(s) - 1 : after[k] = <<"producer", s[k + 1]>>
  BY <1>1, <1>2 DEF OneCondition!Pairs
<1> HIDE DEF pairs, after
<1>5. pairs # << >>
  BY <1>1, <1>3, EmptySeq
<1>6. /\ Head(pairs) = <<"producer", s[1]>>
      /\ Tail(pairs) \in Seq(Item) /\ Len(Tail(pairs)) = Len(s) - 1
      /\ \A k \in 1 .. Len(s) - 1 : Tail(pairs)[k] = pairs[k + 1]
  <2>1. /\ Head(pairs) = pairs[1] /\ Tail(pairs) \in Seq(Item)
        /\ Len(Tail(pairs)) = Len(pairs) - 1
        /\ \A k \in 1 .. Len(Tail(pairs)) : Tail(pairs)[k] = pairs[k + 1]
    BY <1>3, <1>5, HeadTailProperties
  <2> QED
    BY <1>1, <1>3, <2>1
<1>7. \A k \in 1 .. Len(s) - 1 : Tail(pairs)[k] = after[k]
  BY <1>2, <1>3, <1>4, <1>6
<1>8. Tail(pairs) = after
  <2>1. PICK rest : rest = Tail(pairs)
    OBVIOUS
  <2>2. rest \in Seq(Item) /\ Len(rest) = Len(after) /\ \A k \in 1 .. Len(rest) : rest[k] = after[k]
    BY <1>4, <1>6, <1>7, <2>1
  <2>3. rest = after
    BY <1>4, <2>2, SeqEqual
  <2> QED
    BY <2>1, <2>3
<1> QED
  BY <1>2, <1>5, <1>6, <1>8 DEF pairs, after

\* The number of items, and an item to take if there is any.
LEMMA QueueFacts ==
  ASSUME QueueInv
  PROVE  /\ Len(q) \in Nat /\ (q = << >> <=> Len(q) = 0)
         /\ Q_MAX_SIZE \in Nat /\ Q_MAX_SIZE > 0 /\ NumItems \in Nat
         /\ i \in Nat /\ i <= NumItems
         /\ "producer" # NoThread /\ "consumer" # NoThread
BY QueueAssumption, LenProperties, EmptySeq DEF QueueInv, QueueTypes

\* A thread takes the mutex, tests its predicate, waits or goes on.
LEMMA MonitorEntered ==
  ASSUME QueueInv, NEW t \in OneCondition!Threads,
         \/ OneCondition!Acquire(t) \/ OneCondition!Proceed(t) \/ OneCondition!Wait(t)
         \/ OneCondition!SpuriousWakeup(t)
  PROVE  QueueInv' /\ SameChannel
<1> USE DEF OneCondition!Threads, Monitor
<1>1. UNCHANGED <<q, i, popped>>
  BY DEF OneCondition!Acquire, OneCondition!Proceed, OneCondition!Wait,
         OneCondition!SpuriousWakeup
<1>2. PICK place \in {"test", "queue", "wait", "relock"} :
        /\ queuePc' = [queuePc EXCEPT ![t] = place]
        /\ queuePc[t] \in {"lock", "relock", "test", "wait"}
        /\ place = "test" => mtx = NoThread /\ mtx' = t
        /\ place = "queue" => queuePc[t] = "test" /\ OneCondition!Ready(t) /\ mtx' = mtx
        /\ place = "wait" => queuePc[t] = "test" /\ ~OneCondition!Ready(t) /\ mtx' = NoThread
        /\ place = "relock" => queuePc[t] = "wait" /\ mtx' = mtx
  BY DEF OneCondition!Acquire, OneCondition!Proceed, OneCondition!Wait,
         OneCondition!SpuriousWakeup, OneCondition!Goto
<1>3. /\ queuePc'[t] = place
      /\ \A u \in OneCondition!Threads : u # t => queuePc'[u] = queuePc[u]
  BY <1>2 DEF QueueInv, QueueTypes
<1>4. QueueTypes'
  BY <1>1, <1>2 DEF QueueInv, QueueTypes
<1>5. \A u : OneCondition!Ready(u)' <=> OneCondition!Ready(u)
  BY <1>1 DEF OneCondition!Ready
<1>6. /\ mtx' \in OneCondition!Threads \cup {NoThread}
      /\ \A u \in OneCondition!Threads : mtx' = u <=> queuePc'[u] \in Monitor
  BY <1>2, <1>3, QueueFacts DEF QueueInv
<1>7. \A u \in OneCondition!Threads : queuePc'[u] = "queue" => OneCondition!Ready(u)'
  BY <1>2, <1>3, <1>5 DEF QueueInv
<1>8. OneCondition!NoLostWakeup'
  <2>1. OneCondition!Ready("producer") \/ OneCondition!Ready("consumer")
    BY QueueFacts DEF OneCondition!Ready
  <2> QED
    BY <1>2, <1>3, <1>5, <2>1 DEF QueueInv, OneCondition!NoLostWakeup
<1>9. OneCondition!Sent' = OneCondition!Sent
  BY <1>1, <1>2, <1>3 DEF OneCondition!Sent
<1>10. /\ queuePc'["producer"] # "done" => i' < NumItems
       /\ queuePc'["consumer"] # "done"
       /\ Len(q') <= Q_MAX_SIZE
  BY <1>1, <1>2, <1>3 DEF QueueInv
<1> QED
  BY <1>1, <1>4, <1>6, <1>7, <1>8, <1>9, <1>10 DEF QueueInv, SameChannel

\* A thread wakes the other, or gives the mutex up.
LEMMA MonitorLeft ==
  ASSUME QueueInv, NEW t \in OneCondition!Threads,
         OneCondition!NotifyAll(t) \/ OneCondition!Unlock(t)
  PROVE  QueueInv' /\ SameChannel
<1> USE DEF OneCondition!Threads, Monitor
<1>1. CASE OneCondition!NotifyAll(t)
  <2>1. /\ queuePc[t] = "notify" /\ UNCHANGED <<q, mtx, i, popped>>
        /\ queuePc' = [w \in OneCondition!Threads |->
                         IF w = t THEN "unlock"
                         ELSE IF queuePc[w] = "wait" THEN "relock" ELSE queuePc[w]]
    BY <1>1 DEF OneCondition!NotifyAll, OneCondition!Notified
  <2>2. QueueTypes'
    BY <2>1 DEF QueueInv, QueueTypes
  <2>3. \A u : OneCondition!Ready(u)' <=> OneCondition!Ready(u)
    BY <2>1 DEF OneCondition!Ready
  <2>4. \A u \in OneCondition!Threads : mtx' = u <=> queuePc'[u] \in Monitor
    BY <2>1 DEF QueueInv
  <2>5. \A u \in OneCondition!Threads : queuePc'[u] = "queue" => OneCondition!Ready(u)'
    BY <2>1, <2>3 DEF QueueInv
  <2>6. OneCondition!NoLostWakeup'
    BY <2>1 DEF OneCondition!NoLostWakeup
  <2>7. OneCondition!Sent' = OneCondition!Sent
    BY <2>1 DEF OneCondition!Sent
  <2> QED
    BY <2>1, <2>2, <2>4, <2>5, <2>6, <2>7 DEF QueueInv, SameChannel
<1>2. CASE OneCondition!Unlock(t)
  <2>1. /\ queuePc[t] = "unlock" /\ mtx' = NoThread /\ UNCHANGED <<q, popped>>
        /\ i' = IF t = "producer" THEN i + 1 ELSE i
        /\ queuePc' = [queuePc EXCEPT ![t] = OneCondition!LoopHead(t, i + 1)]
    BY <1>2 DEF OneCondition!Unlock, OneCondition!Goto
  <2>2. PICK place : place = OneCondition!LoopHead(t, i + 1)
    OBVIOUS
  <2>3. /\ place \in {"lock", "done"}
        /\ place = "done" => t = "producer"
        /\ t = "producer" /\ place = "lock" => i + 1 < NumItems
    BY <2>2 DEF OneCondition!LoopHead
  <2>4. /\ queuePc'[t] = place
        /\ \A u \in OneCondition!Threads : u # t => queuePc'[u] = queuePc[u]
    BY <2>1, <2>2 DEF QueueInv, QueueTypes
  <2>5. i' \in 0 .. NumItems
    BY <2>1, QueueFacts DEF QueueInv
  <2>6. QueueTypes'
    BY <2>1, <2>2, <2>3, <2>5 DEF QueueInv, QueueTypes
  <2>7. \A u : OneCondition!Ready(u)' <=> OneCondition!Ready(u)
    BY <2>1 DEF OneCondition!Ready
  <2>8. \A u \in OneCondition!Threads : mtx' = u <=> queuePc'[u] \in Monitor
    BY <2>1, <2>3, <2>4, QueueFacts DEF QueueInv
  <2>9. \A u \in OneCondition!Threads : queuePc'[u] = "queue" => OneCondition!Ready(u)'
    BY <2>3, <2>4, <2>7 DEF QueueInv
  <2>10. OneCondition!NoLostWakeup'
    BY <2>1, <2>3, <2>4, <2>7 DEF QueueInv, OneCondition!NoLostWakeup
  <2>11. OneCondition!Sent' = OneCondition!Sent
    BY <2>1, <2>3, <2>4, QueueFacts DEF OneCondition!Sent
  <2>12. /\ queuePc'["producer"] # "done" => i' < NumItems
         /\ queuePc'["consumer"] # "done"
    BY <2>1, <2>3, <2>4 DEF QueueInv
  <2> QED
    BY <2>1, <2>6, <2>8, <2>9, <2>10, <2>11, <2>12 DEF QueueInv, SameChannel
<1> QED
  BY <1>1, <1>2

\* The access to the queue is the insertion.
LEMMA ItemPushed ==
  ASSUME QueueInv, OneCondition!Push
  PROVE  QueueInv' /\ OneCondition!Channel!Put("producer")
<1> USE DEF OneCondition!Threads, Monitor
<1>1. /\ queuePc["producer"] = "queue" /\ q' = Append(q, i)
      /\ queuePc' = [queuePc EXCEPT !["producer"] = "notify"]
      /\ UNCHANGED <<mtx, i, popped>>
  BY DEF OneCondition!Push, OneCondition!Goto
<1>2. queuePc'["producer"] = "notify" /\ queuePc'["consumer"] = queuePc["consumer"]
  BY <1>1 DEF QueueInv, QueueTypes
<1>3. q \in Seq(Nat) /\ i \in Nat /\ i < NumItems /\ Len(q) < Q_MAX_SIZE
  BY <1>1, QueueFacts DEF QueueInv, QueueTypes, OneCondition!Ready
<1>4. q' \in Seq(Nat) /\ Len(q') = Len(q) + 1
  BY <1>1, <1>3, AppendProperties
<1>5. queuePc["consumer"] \notin Monitor
  BY <1>1 DEF QueueInv
<1>6. QueueInv'
  <2>1. QueueTypes'
    BY <1>1, <1>4 DEF QueueInv, QueueTypes
  <2>2. Len(q') <= Q_MAX_SIZE
    BY <1>3, <1>4, QueueFacts
  <2>3. \A u \in OneCondition!Threads : mtx' = u <=> queuePc'[u] \in Monitor
    BY <1>1, <1>2 DEF QueueInv
  <2>4. OneCondition!NoLostWakeup'
    BY <1>2, <1>5, QueueFacts DEF OneCondition!NoLostWakeup
  <2> QED
    BY <1>1, <1>2, <1>3, <1>5, <2>1, <2>2, <2>3, <2>4 DEF QueueInv
<1>7. /\ OneCondition!Pairs(q)' = Append(OneCondition!Pairs(q), <<"producer", i>>)
      /\ OneCondition!Pairs(popped)' = OneCondition!Pairs(popped)
  <2>1. OneCondition!Pairs(Append(q, i)) = Append(OneCondition!Pairs(q), <<"producer", i>>)
    BY <1>3, PairsAppended
  <2> QED
    BY <1>1, <2>1 DEF OneCondition!Pairs
<1>8. OneCondition!Sent = i /\ OneCondition!Sent' = i + 1
  BY <1>1, <1>2 DEF OneCondition!Sent
<1>9. Len(OneCondition!Pairs(q)) = Len(q)
  BY <1>3 DEF OneCondition!Pairs
<1> QED
  BY <1>3, <1>6, <1>7, <1>8, <1>9 DEF OneCondition!Channel!Put

\* front and pop are the removal.
LEMMA ItemPopped ==
  ASSUME QueueInv, OneCondition!FrontPop
  PROVE  QueueInv' /\ OneCondition!Channel!Get("consumer")
<1> USE DEF OneCondition!Threads, Monitor
<1>1. /\ queuePc["consumer"] = "queue" /\ q' = Tail(q) /\ popped' = Append(popped, Head(q))
      /\ queuePc' = [queuePc EXCEPT !["consumer"] = "notify"]
      /\ UNCHANGED <<mtx, i>>
  BY DEF OneCondition!FrontPop, OneCondition!Goto
<1>2. queuePc'["consumer"] = "notify" /\ queuePc'["producer"] = queuePc["producer"]
  BY <1>1 DEF QueueInv, QueueTypes
<1>3. q \in Seq(Nat) /\ popped \in Seq(Nat) /\ q # << >>
  BY <1>1 DEF QueueInv, QueueTypes, OneCondition!Ready
<1>4. q' \in Seq(Nat) /\ Len(q') = Len(q) - 1 /\ Head(q) \in Nat
  BY <1>1, <1>3, HeadTailProperties
<1>5. popped' \in Seq(Nat)
  BY <1>1, <1>3, <1>4, AppendProperties
<1>6. queuePc["producer"] \notin Monitor
  BY <1>1 DEF QueueInv
<1>7. QueueInv'
  <2>1. QueueTypes'
    BY <1>1, <1>4, <1>5 DEF QueueInv, QueueTypes
  <2>2. Len(q') <= Q_MAX_SIZE
    BY <1>4, QueueFacts DEF QueueInv
  <2>3. \A u \in OneCondition!Threads : mtx' = u <=> queuePc'[u] \in Monitor
    BY <1>1, <1>2 DEF QueueInv
  <2>4. OneCondition!NoLostWakeup'
    BY <1>2, <1>6, QueueFacts DEF OneCondition!NoLostWakeup
  <2> QED
    BY <1>1, <1>2, <1>3, <1>6, <2>1, <2>2, <2>3, <2>4 DEF QueueInv
<1>8. /\ OneCondition!Pairs(q) # << >>
      /\ OneCondition!Pairs(q)' = Tail(OneCondition!Pairs(q))
      /\ OneCondition!Pairs(popped)' = Append(OneCondition!Pairs(popped), Head(OneCondition!Pairs(q)))
  <2>1. /\ OneCondition!Pairs(q) # << >>
        /\ Head(OneCondition!Pairs(q)) = <<"producer", Head(q)>>
        /\ Tail(OneCondition!Pairs(q)) = OneCondition!Pairs(Tail(q))
    BY <1>3, PairsRemoved
  <2>2. OneCondition!Pairs(Append(popped, Head(q)))
          = Append(OneCondition!Pairs(popped), <<"producer", Head(q)>>)
    BY <1>3, <1>4, PairsAppended
  <2> QED
    BY <1>1, <2>1, <2>2 DEF OneCondition!Pairs
<1>9. OneCondition!Sent' = OneCondition!Sent
  BY <1>1, <1>2 DEF OneCondition!Sent
<1> QED
  BY <1>7, <1>8, <1>9 DEF OneCondition!Channel!Get

\* Every step keeps the invariant, and is a step of the channel or none.
LEMMA QueueSteps ==
  QueueInv /\ [Next]_vars => QueueInv' /\ [OneCondition!Channel!Next]_(OneCondition!Channel!vars)
<1> SUFFICES ASSUME QueueInv, [OneCondition!Next]_oneCondition
             PROVE  QueueInv' /\ [OneCondition!Channel!Next]_(OneCondition!Channel!vars)
  BY Frame
<1>1. SameChannel => UNCHANGED OneCondition!Channel!vars
  BY DEF SameChannel, OneCondition!Channel!vars
<1>2. ASSUME NEW t \in OneCondition!Threads, OneCondition!Monitor(t)
      PROVE  QueueInv' /\ SameChannel
  BY <1>2, MonitorEntered, MonitorLeft DEF OneCondition!Monitor
<1>3. CASE OneCondition!Push
  BY <1>3, ItemPushed DEF OneCondition!Channel!Next
<1>4. CASE OneCondition!FrontPop
  BY <1>4, ItemPopped DEF OneCondition!Channel!Next
<1>5. ASSUME NEW t \in OneCondition!Threads, OneCondition!SpuriousWakeup(t)
      PROVE  QueueInv' /\ SameChannel
  BY <1>5, MonitorEntered
<1>6. CASE UNCHANGED oneCondition
  <2>1. UNCHANGED <<q, mtx, queuePc, i, popped>>
    BY <1>6 DEF oneCondition
  <2>2. QueueInv'
    BY <2>1 DEF QueueInv, QueueTypes, OneCondition!Ready, OneCondition!NoLostWakeup
  <2>3. SameChannel
    BY <2>1 DEF SameChannel, OneCondition!Pairs, OneCondition!Sent
  <2> QED
    BY <1>1, <2>2, <2>3
<1>7. CASE OneCondition!Joining
  BY <1>6, <1>7 DEF OneCondition!Joining, OneCondition!vars, oneCondition
<1>8. "producer" \in OneCondition!Threads /\ "consumer" \in OneCondition!Threads
  BY DEF OneCondition!Threads
<1> QED
  BY <1>1, <1>2, <1>3, <1>4, <1>5, <1>6, <1>7, <1>8
     DEF OneCondition!Next, OneCondition!producer, OneCondition!consumer

\* The queue starts as an empty channel.
LEMMA QueueStarts == Init => QueueInv /\ OneCondition!Channel!Init
<1> SUFFICES ASSUME Init PROVE QueueInv /\ OneCondition!Channel!Init
  OBVIOUS
<1>1. /\ q = << >> /\ mtx = NoThread /\ i = 0 /\ popped = << >>
      /\ queuePc = [t \in OneCondition!Threads |-> OneCondition!LoopHead(t, 0)]
  BY DEF Init, OneCondition!Init
<1>2. /\ queuePc["consumer"] = "lock"
      /\ queuePc["producer"] = IF 0 < NumItems THEN "lock" ELSE "done"
  BY <1>1 DEF OneCondition!LoopHead, OneCondition!Threads
<1>3. QueueInv
  <2>1. QueueTypes
    BY <1>1, QueueAssumption DEF QueueTypes, OneCondition!LoopHead, OneCondition!Threads
  <2>2. Len(q) = 0
    BY <1>1
  <2> QED
    BY <1>1, <1>2, <2>1, <2>2, QueueAssumption
       DEF QueueInv, OneCondition!Threads, OneCondition!NoLostWakeup, Monitor
<1>4. /\ OneCondition!Pairs(q) = << >> /\ OneCondition!Pairs(popped) = << >>
      /\ OneCondition!Sent = 0
  BY <1>1, <1>2 DEF OneCondition!Pairs, OneCondition!Sent
<1> QED
  BY <1>3, <1>4 DEF OneCondition!Channel!Init

\* producer.cpp: the queue under one condition variable is a bounded channel:
\* nothing is lost, handed out twice or reordered, and it never exceeds
\* Q_MAX_SIZE, whatever wakeups are spurious.
THEOREM OneConditionImplements == Spec => ProducerImplements
BY QueueStarts, QueueSteps, PTL
DEF Spec, ProducerImplements, OneCondition!Implements, OneCondition!Channel!Spec

\* producer.cpp: the two threads never wait for each other, and the one
\* notify_all of a thread is enough for the other.
THEOREM OneConditionSuffices == Spec => []NoLostWakeup
<1>1. QueueInv => NoLostWakeup
  BY DEF QueueInv, NoLostWakeup
<1> QED
  BY <1>1, QueueStarts, QueueSteps, PTL DEF Spec
=============================================================================
