----------------------------- MODULE MCPrograms -----------------------------
(***************************************************************************)
(* The programs of the repository that have nothing to do with each other  *)
(* and need no run of their own: a behaviour is a run of one of them,      *)
(* while the others stay in their initial states.                          *)
(***************************************************************************)
EXTENDS Integers, FiniteSets

CONSTANTS
  NULL, Data, NumBlocks, NumUnits, Ids, RingSize, Bytes, EventTypes, MaxId,
  MaxDepth, ListThreads, NoThread, Nodes, Keys, MaxTime, MaxHandle, SameSlot,
  Q_MAX_SIZE, NumItems, MaxSpurious, ArenaSize, PtrSize, MaxSize, MaxAlign, ListNodes,
  NumChildren, Levels, TreeNodes, Turns, IDs, ConsoleSize, MaxDelta

\* Counts and sizes are not negative, a thread's ID is not that of a blank.
ASSUME TurnsAssumption == Turns \in Nat
ASSUME MovesAssumption == ConsoleSize \in Nat /\ MaxDelta \in Nat /\ 0 \notin IDs
ASSUME UnitsAssumption == NumUnits \in Nat /\ 0 \notin Ids
ASSUME RingAssumption == RingSize \in Nat \ {0}
ASSUME PoolsAssumption == NumBlocks \in Nat /\ NULL \notin Int /\ Data \notin Int \cup {NULL}
ASSUME ArenaAssumption ==
  ArenaSize \in Nat /\ PtrSize \in Nat \ {0} /\ MaxSize \in Nat /\ MaxAlign \in Nat
ASSUME SharedAssumption ==
  IsFiniteSet(Nodes) /\ NULL \notin Nodes /\ NoThread \notin ListThreads
ASSUME TimersAssumption == MaxTime \in Nat /\ SameSlot \in BOOLEAN
ASSUME ListAssumption == NULL \notin ListNodes
ASSUME QueueAssumption ==
  Q_MAX_SIZE \in Nat \ {0} /\ NumItems \in Nat /\ NoThread \notin {"producer", "consumer"}
ASSUME TreeAssumption == NumChildren \in Nat \ {0} /\ Levels \in Nat

VARIABLES
  program,
  memory, list, open, held, block,
  in_use, next_buffer, packet,
  bufpool, segments,
  kind, buffer, head, tail, count, unread,
  callbacks, next_id, frames,
  first, nodes, mutex, pc, call, temp, prev, newNode, printed, contents,
  timeToCallbacks, handleToTime, nextHandle, currentTime, hwRegister, timerPc,
  newTime, batch, at, handle, due, fired, removed,
  q, mtx, queuePc, i, popped, spurious,
  arena, blocks, pointers, aligned,
  listHead, cells, listTemp, value, listPc, values,
  currentState, ledState, presses, ticks,
  tree, queue, result, shown, out,
  step, turn, thread, left,
  axis, screen, bTrails, coord, old, delta, drawn, trailed,
  covered

FreeList == INSTANCE FreeListPool WITH numblocks <- NumBlocks, result <- block
NextFit == INSTANCE NextFitPool WITH BUFFER_POOL_SIZE <- NumBlocks, result <- packet
ById == INSTANCE IdAllocator WITH capacity <- NumUnits
Ring == INSTANCE RingBuffer WITH capacity <- RingSize
Events == INSTANCE EventSystem
Shared == INSTANCE LlistMutex WITH head <- first, Threads <- ListThreads
Timers == INSTANCE TimerEvents WITH pc <- timerPc
OneCondition == INSTANCE OneConditionQueue WITH pc <- queuePc
Aligned == INSTANCE AlignedMalloc WITH memory <- arena, held <- pointers
Singly == INSTANCE SinglyList WITH
  Nodes <- ListNodes, Values <- Keys, head <- listHead,
  temp <- listTemp, pc <- listPc, contents <- values
Led == INSTANCE LedStateMachine
Tree == INSTANCE TreeTraversals WITH
  MAX_CHILDREN <- NumChildren, MaxDepth <- Levels, MaxNodes <- TreeNodes, Values <- {1, -1}
Two == INSTANCE TwoThreads WITH NumThreads <- 2
Moves == INSTANCE BounceMoves WITH Size <- ConsoleSize

freeList == <<memory, list, open, held, block>>
nextFit == <<in_use, next_buffer, packet>>
byId == <<bufpool, segments>>
ring == <<kind, buffer, head, tail, count, unread>>
events == <<callbacks, next_id, frames>>
shared == <<first, nodes, mutex, pc, call, temp, prev, newNode, printed, contents>>
timers == <<timeToCallbacks, handleToTime, nextHandle, currentTime, hwRegister,
            timerPc, newTime, batch, at, handle, due, fired, removed>>
oneCondition == <<q, mtx, queuePc, i, popped, spurious>>
alignment == <<arena, blocks, pointers, aligned>>
singly == <<listHead, cells, listTemp, value, listPc, values>>
led == <<currentState, ledState, presses, ticks>>
trees == <<tree, queue, result, shown, out>>
two == <<step, turn, thread, left>>
moves == <<axis, screen, bTrails, coord, old, delta, drawn, trailed, covered>>

pools == <<freeList, nextFit, byId>>
sequential == <<ring, events, timers, alignment, singly, led, trees>>
concurrent == <<shared, oneCondition, two, moves>>
vars == <<program, pools, sequential, concurrent>>

\* The programs with several initial states have one while others run.
Init ==
  /\ program \in {"HeapAllocator", "staticmempool", "LeetCodeMemPool",
                  "CircularBuffer", "DynamicEventHandler", "LlistMutex",
                  "TimerDynamicArray", "producer", "Align-Padding", "List",
                  "StateMachine", "treechallenge", "thread", "bufferthread"}
  /\ FreeList!Init /\ NextFit!Init /\ ById!Init
  /\ Ring!Init /\ Events!Init /\ Timers!Init /\ Aligned!Init /\ Singly!Init
  /\ Led!Init /\ Tree!Init
  /\ Shared!Init /\ OneCondition!Init /\ Two!Init /\ Moves!Init
  /\ program # "CircularBuffer" => kind = "CQueue"
  /\ program # "bufferthread" => axis = "X" /\ \A t \in IDs : coord[t] = 0 /\ delta[t] = 0
-----------------------------------------------------------------------------
HeapAllocator ==
  /\ program = "HeapAllocator"
  /\ FreeList!Next
  /\ UNCHANGED <<program, nextFit, byId, sequential, concurrent>>

staticmempool ==
  /\ program = "staticmempool"
  /\ NextFit!Next
  /\ UNCHANGED <<program, freeList, byId, sequential, concurrent>>

LeetCodeMemPool ==
  /\ program = "LeetCodeMemPool"
  /\ ById!Next
  /\ UNCHANGED <<program, freeList, nextFit, sequential, concurrent>>

CircularBuffer ==
  /\ program = "CircularBuffer"
  /\ Ring!Next
  /\ UNCHANGED <<program, pools, events, timers, alignment, singly, led, trees, concurrent>>

DynamicEventHandler ==
  /\ program = "DynamicEventHandler"
  /\ Events!Next
  /\ UNCHANGED <<program, pools, ring, timers, alignment, singly, led, trees, concurrent>>

\* The interrupt handler and advanceTime go on by themselves; the user does not.
TimerSystem ==
  /\ program = "TimerDynamicArray"
  /\ Timers!System
  /\ UNCHANGED <<program, pools, ring, events, alignment, singly, led, trees, concurrent>>

TimerUser ==
  /\ program = "TimerDynamicArray"
  /\ Timers!User
  /\ UNCHANGED <<program, pools, ring, events, alignment, singly, led, trees, concurrent>>

AlignPadding ==
  /\ program = "Align-Padding"
  /\ Aligned!Next
  /\ UNCHANGED <<program, pools, ring, events, timers, singly, led, trees, concurrent>>

List ==
  /\ program = "List"
  /\ Singly!Next
  /\ UNCHANGED <<program, pools, ring, events, timers, alignment, led, trees, concurrent>>

StateMachine ==
  /\ program = "StateMachine"
  /\ Led!Next
  /\ UNCHANGED <<program, pools, ring, events, timers, alignment, singly, trees, concurrent>>

treechallenge ==
  /\ program = "treechallenge"
  /\ Tree!Next
  /\ UNCHANGED <<program, pools, ring, events, timers, alignment, singly, led, concurrent>>

LlistMutex ==
  /\ program = "LlistMutex"
  /\ Shared!Next
  /\ UNCHANGED <<program, pools, sequential, oneCondition, two, moves>>

\* The two threads of producer.cpp, and what else may happen to them.
producer ==
  /\ program = "producer"
  /\ OneCondition!producer
  /\ UNCHANGED <<program, pools, sequential, shared, two, moves>>

consumer ==
  /\ program = "producer"
  /\ OneCondition!consumer
  /\ UNCHANGED <<program, pools, sequential, shared, two, moves>>

SpuriousOrJoining ==
  /\ program = "producer"
  /\ OneCondition!Joining \/ \E t \in OneCondition!Threads : OneCondition!SpuriousWakeup(t)
  /\ UNCHANGED <<program, pools, sequential, shared, two, moves>>

TwoThreads ==
  /\ program = "thread"
  /\ Two!Next
  /\ UNCHANGED <<program, pools, sequential, shared, oneCondition, moves>>

bufferthread ==
  /\ program = "bufferthread"
  /\ Moves!Next
  /\ UNCHANGED <<program, pools, sequential, shared, oneCondition, two>>

Next ==
  \/ HeapAllocator \/ staticmempool \/ LeetCodeMemPool
  \/ CircularBuffer \/ DynamicEventHandler \/ TimerSystem \/ TimerUser
  \/ AlignPadding \/ List \/ StateMachine \/ treechallenge
  \/ LlistMutex \/ producer \/ consumer \/ SpuriousOrJoining \/ TwoThreads
  \/ bufferthread

\* A call of the timers goes on until it returns, and the threads of the queue
\* keep running.
Spec ==
  /\ Init /\ [][Next]_vars
  /\ WF_vars(TimerSystem) /\ WF_vars(producer) /\ WF_vars(consumer)
-----------------------------------------------------------------------------
\* Both pools of fixed-size blocks implement the allocator: no block is handed
\* out twice, and NULL is returned only when every block is held.
PoolsImplement == FreeList!Implements /\ NextFit!Implements

\* See IdAllocator.
SegmentsIntact == ById!SegmentsIntact

\* See RingBuffer.
LastBytesInOrder == Ring!LastBytesInOrder

\* See EventSystem.
TriggerComplete == Events!TriggerComplete

\* See LlistMutex.
Serialized == Shared!Serialized

\* See TimerEvents; no callback removes an event of the slot being executed.
HandlesAgree == Timers!HandlesAgree
FiredOnTime == Timers!FiredOnTime
AdvanceReturns == Timers!AdvanceReturns

\* See OneConditionQueue.
ProducerImplements == OneCondition!Implements
NoLostWakeup == OneCondition!NoLostWakeup
AllConsumed == program = "producer" => OneCondition!AllConsumed

\* See AlignedMalloc.
AlignedBlocks == Aligned!AlignedBlocks

\* See SinglyList.
ListMatches == Singly!ListMatches
OnlyAllocatedFollowed == Singly!OnlyAllocatedFollowed

\* See LedStateMachine.
LedFollows == Led!LedFollows

\* See TreeTraversals.
TraversalsMatch == Tree!TraversalsMatch

\* See TwoThreads.
ParametersAlive == Two!ParametersAlive

\* See BounceMoves.
NoGhosts == Moves!NoGhosts
=============================================================================
