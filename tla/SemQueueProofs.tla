--------------------------- MODULE SemQueueProofs ---------------------------
(***************************************************************************)
(* Theorems about SemQueue for any number of threads, slots and calls.     *)
(***************************************************************************)
EXTENDS SemQueue, FiniteSetTheorems, SequenceTheorems, TLAPS

Exclusion == \A t \in Threads : pc[t] \in Holding <=> buffer_mutex = t

InLoop == \A t \in Threads : pc[t] # "done" => calls[t] < Count(t)

\* Producers and consumers stay in their own code.
OwnCode ==
  /\ \A p \in Producers : pc[p] \notin {"front", "pop"}
  /\ \A c \in Consumers : pc[c] # "push"

ReadsFirst == \A c \in Consumers : pc[c] = "pop" => item[c] = Head(buffer)

\* The inductive invariant: the two accountings of the slots, which tell that
\* the buffer has room for push and an item for pop, and what the mutex protects.
IInv ==
  /\ TypeOK
  /\ Exclusion
  /\ InLoop
  /\ OwnCode
  /\ ReadsFirst
  /\ EverySlotCounted
  /\ BufferMatches

LEMMA ThreadsFinite ==
  IsFiniteSet(Threads) /\ \A S \in SUBSET Threads : IsFiniteSet(S) /\ Cardinality(S) \in Nat
<1>1. IsFiniteSet(Threads)
  BY SemQueueAssumption, FS_Union DEF Threads
<1> QED
  BY <1>1, FS_Subset, FS_CardinalityType

\* A producer about to push finds room, a consumer let in finds an item.
LEMMA RoomAndItem ==
  ASSUME IInv
  PROVE  /\ Len(buffer) <= BUFFER_SIZE
         /\ \A p \in Producers : pc[p] = "push" => Len(buffer) < BUFFER_SIZE
         /\ \A c \in Consumers : pc[c] \in {"front", "pop"} => buffer # << >>
<1> USE SemQueueAssumption
<1>1. /\ IsFiniteSet(ItemsInHand) /\ Cardinality(ItemsInHand) \in Nat
      /\ IsFiniteSet(SlotsInHand) /\ Cardinality(SlotsInHand) \in Nat
      /\ ItemsInHand \subseteq SlotsInHand
  BY ThreadsFinite DEF ItemsInHand, SlotsInHand, Threads, Busy
<1>2. Len(buffer) <= BUFFER_SIZE
  <2>1. Cardinality(ItemsInHand) <= Cardinality(SlotsInHand)
    BY <1>1, FS_Subset
  <2> QED
    BY <1>1, <2>1 DEF IInv, TypeOK, EverySlotCounted, BufferMatches
<1>3. ASSUME NEW p \in Producers, pc[p] = "push" PROVE Len(buffer) < BUFFER_SIZE
  <2>1. p \in SlotsInHand /\ ItemsInHand \subseteq SlotsInHand \ {p}
    BY <1>1, <1>3 DEF ItemsInHand, SlotsInHand, Threads, Busy
  <2>2. /\ IsFiniteSet(SlotsInHand \ {p})
        /\ Cardinality(SlotsInHand \ {p}) = Cardinality(SlotsInHand) - 1
    BY <1>1, <2>1, FS_RemoveElement
  <2>3. Cardinality(ItemsInHand) <= Cardinality(SlotsInHand) - 1
    BY <2>1, <2>2, FS_Subset
  <2> QED
    BY <1>1, <2>3 DEF IInv, TypeOK, EverySlotCounted, BufferMatches
<1>4. ASSUME NEW c \in Consumers, pc[c] \in {"front", "pop"} PROVE buffer # << >>
  <2>1. c \in ItemsInHand
    BY <1>4 DEF ItemsInHand
  <2>2. Cardinality(ItemsInHand) # 0
    BY <1>1, <2>1, FS_EmptySet
  <2> QED
    BY <1>1, <2>2 DEF IInv, TypeOK, BufferMatches
<1> QED
  BY <1>2, <1>3, <1>4

LEMMA InitIInv == Init => IInv
<1> SUFFICES ASSUME Init PROVE IInv
  OBVIOUS
<1> USE SemQueueAssumption
<1>1. TypeOK /\ Exclusion /\ InLoop /\ OwnCode /\ ReadsFirst
  BY DEF Init, TypeOK, Exclusion, InLoop, OwnCode, ReadsFirst, Threads, Places,
         NextCall, Holding
<1>2. SlotsInHand = {} /\ ItemsInHand = {}
  BY DEF Init, SlotsInHand, ItemsInHand, NextCall, Threads, Busy
<1> QED
  BY <1>1, <1>2, FS_EmptySet DEF Init, IInv, EverySlotCounted, BufferMatches

\* The conjuncts that do not count: shape, mutual exclusion, the loops.
Control == TypeOK /\ Exclusion /\ InLoop /\ OwnCode /\ ReadsFirst

\* A step that leaves both accountings alone.
LEMMA SameAccounts ==
  ASSUME IInv, Control', UNCHANGED <<empty_slots, filled_slots>>,
         Len(buffer') = Len(buffer),
         SlotsInHand' = SlotsInHand, ItemsInHand' = ItemsInHand
  PROVE  IInv'
BY DEF IInv, Control, EverySlotCounted, BufferMatches

LEMMA NextIInv == IInv /\ [Next]_vars => IInv'
<1> SUFFICES ASSUME IInv, [Next]_vars PROVE IInv'
  OBVIOUS
<1> USE SemQueueAssumption
<1>0. /\ Control /\ EverySlotCounted /\ BufferMatches
      /\ Len(buffer) \in Nat
      /\ IsFiniteSet(ItemsInHand) /\ Cardinality(ItemsInHand) \in Nat
      /\ IsFiniteSet(SlotsInHand) /\ Cardinality(SlotsInHand) \in Nat
      /\ pc \in [Threads -> Places]
  BY ThreadsFinite DEF IInv, Control, TypeOK, ItemsInHand, SlotsInHand, Threads
<1>1. ASSUME NEW p \in Producers, WaitEmptySlot(p) PROVE IInv'
  <2>1. Control'
    BY <1>0, <1>1 DEF Control, WaitEmptySlot, Goto, TypeOK, Exclusion, InLoop,
       OwnCode, ReadsFirst, Holding, Places, Threads
  <2>2. /\ p \notin SlotsInHand /\ SlotsInHand' = SlotsInHand \cup {p}
        /\ ItemsInHand' = ItemsInHand
    BY <1>0, <1>1 DEF WaitEmptySlot, Goto, SlotsInHand, ItemsInHand, Busy, Threads
  <2>3. Cardinality(SlotsInHand') = Cardinality(SlotsInHand) + 1
    BY <1>0, <2>2, FS_AddElement
  <2>4. EverySlotCounted'
    BY <1>0, <1>1, <2>3 DEF Control, WaitEmptySlot, TypeOK, EverySlotCounted
  <2>5. BufferMatches'
    BY <1>0, <1>1, <2>2 DEF WaitEmptySlot, BufferMatches
  <2> QED
    BY <2>1, <2>4, <2>5 DEF IInv, Control
<1>2. ASSUME NEW c \in Consumers, WaitFilledSlot(c) PROVE IInv'
  <2>1. Control'
    BY <1>0, <1>2 DEF Control, WaitFilledSlot, Goto, TypeOK, Exclusion, InLoop,
       OwnCode, ReadsFirst, Holding, Places, Threads
  <2>2. /\ c \notin SlotsInHand /\ SlotsInHand' = SlotsInHand \cup {c}
        /\ c \notin ItemsInHand /\ ItemsInHand' = ItemsInHand \cup {c}
    BY <1>0, <1>2 DEF WaitFilledSlot, Goto, SlotsInHand, ItemsInHand, Busy, Threads
  <2>3. /\ Cardinality(SlotsInHand') = Cardinality(SlotsInHand) + 1
        /\ Cardinality(ItemsInHand') = Cardinality(ItemsInHand) + 1
    BY <1>0, <2>2, FS_AddElement
  <2>4. EverySlotCounted'
    BY <1>0, <1>2, <2>3 DEF Control, WaitFilledSlot, TypeOK, EverySlotCounted
  <2>5. BufferMatches'
    BY <1>0, <1>2, <2>3 DEF Control, WaitFilledSlot, TypeOK, BufferMatches
  <2> QED
    BY <2>1, <2>4, <2>5 DEF IInv, Control
<1>3. ASSUME NEW t \in Threads, NEW to \in {"push", "front"}, Lock(t, to),
             t \in Producers <=> to = "push"
      PROVE  IInv'
  <2>1. Control'
    BY <1>0, <1>3 DEF Control, Lock, Goto, TypeOK, Exclusion, InLoop, OwnCode,
       ReadsFirst, Holding, Places, Threads
  <2>2. SlotsInHand' = SlotsInHand /\ ItemsInHand' = ItemsInHand
    BY <1>0, <1>3 DEF Lock, Goto, SlotsInHand, ItemsInHand, Busy, Threads
  <2> QED
    BY <1>3, <2>1, <2>2, SameAccounts DEF Lock
<1>4. ASSUME NEW t \in Threads, Unlock(t) PROVE IInv'
  <2>1. Control'
    BY <1>0, <1>4 DEF Control, Unlock, Goto, TypeOK, Exclusion, InLoop, OwnCode,
       ReadsFirst, Holding, Places, Threads
  <2>2. SlotsInHand' = SlotsInHand /\ ItemsInHand' = ItemsInHand
    BY <1>0, <1>4 DEF Unlock, Goto, SlotsInHand, ItemsInHand, Busy, Threads
  <2> QED
    BY <1>4, <2>1, <2>2, SameAccounts DEF Unlock
<1>5. ASSUME NEW p \in Producers, Push(p) PROVE IInv'
  <2>1. buffer_mutex = p /\ Datum(p) \in Items
    <3>1. pc[p] = "push" /\ p \in Threads
      BY <1>5 DEF Push, Goto, Threads
    <3>2. buffer_mutex = p
      BY <1>0, <3>1 DEF Control, Exclusion, Holding
    <3>3. calls[p] \in 0 .. ProduceCount - 1
      BY <1>0, <3>1 DEF Control, TypeOK, InLoop, Count
    <3> QED
      BY <3>2, <3>3 DEF Datum, Items
  <2>2. buffer' \in Seq(Items) /\ Len(buffer') = Len(buffer) + 1
    BY <1>0, <1>5, <2>1, AppendProperties DEF Control, TypeOK, Push
  <2>3. \A c \in Consumers : pc'[c] # "pop"
    BY <1>0, <1>5, <2>1 DEF Control, Push, Goto, Exclusion, Holding, Threads
  <2>4. Control'
    BY <1>0, <1>5, <2>2, <2>3 DEF Control, Push, Goto, TypeOK, Exclusion,
       InLoop, OwnCode, ReadsFirst, Holding, Places, Threads
  <2>5. /\ SlotsInHand' = SlotsInHand
        /\ p \notin ItemsInHand /\ ItemsInHand' = ItemsInHand \cup {p}
    BY <1>0, <1>5 DEF Push, Goto, SlotsInHand, ItemsInHand, Busy, Threads
  <2>6. Cardinality(ItemsInHand') = Cardinality(ItemsInHand) + 1
    BY <1>0, <2>5, FS_AddElement
  <2> QED
    BY <1>0, <1>5, <2>2, <2>4, <2>5, <2>6 DEF IInv, Control, Push, TypeOK,
       EverySlotCounted, BufferMatches
<1>6. ASSUME NEW c \in Consumers, Front(c) PROVE IInv'
  <2>1. Head(buffer) \in Items
    BY <1>0, <1>6, RoomAndItem, HeadTailProperties DEF Control, TypeOK, Front, Goto
  <2>2. Control'
    BY <1>0, <1>6, <2>1 DEF Control, Front, Goto, TypeOK, Exclusion, InLoop,
       OwnCode, ReadsFirst, Holding, Places, Threads
  <2>3. SlotsInHand' = SlotsInHand /\ ItemsInHand' = ItemsInHand
    BY <1>0, <1>6 DEF Front, Goto, SlotsInHand, ItemsInHand, Busy, Threads
  <2> QED
    BY <1>6, <2>2, <2>3, SameAccounts DEF Front
<1>7. ASSUME NEW c \in Consumers, Pop(c) PROVE IInv'
  <2>1. /\ buffer_mutex = c /\ item[c] \in Items
        /\ buffer' \in Seq(Items) /\ Len(buffer') = Len(buffer) - 1
    BY <1>0, <1>7, RoomAndItem, HeadTailProperties
    DEF Control, TypeOK, Pop, Goto, ReadsFirst, Exclusion, Holding, Threads
  <2>2. \A d \in Consumers : pc'[d] # "pop"
    BY <1>0, <1>7, <2>1 DEF Control, Pop, Goto, Exclusion, Holding, Threads
  <2>3. TypeOK'
    BY <1>0, <1>7, <2>1, AppendProperties DEF Control, Pop, Goto, TypeOK, Places,
       Threads
  <2>4. Control'
    BY <1>0, <1>7, <2>2, <2>3 DEF Control, Pop, Goto, Exclusion, InLoop,
       OwnCode, ReadsFirst, Holding, Threads
  <2>5. /\ SlotsInHand' = SlotsInHand
        /\ c \in ItemsInHand /\ ItemsInHand' = ItemsInHand \ {c}
    BY <1>0, <1>7 DEF Pop, Goto, SlotsInHand, ItemsInHand, Busy, Threads
  <2>6. Cardinality(ItemsInHand') = Cardinality(ItemsInHand) - 1
    BY <1>0, <2>5, FS_RemoveElement
  <2> QED
    BY <1>0, <1>7, <2>1, <2>4, <2>5, <2>6 DEF IInv, Control, Pop, TypeOK,
       EverySlotCounted, BufferMatches
<1>8. ASSUME NEW p \in Producers, PostFilledSlot(p) PROVE IInv'
  <2>1. /\ p \in SlotsInHand /\ SlotsInHand' = SlotsInHand \ {p}
        /\ p \in ItemsInHand /\ ItemsInHand' = ItemsInHand \ {p}
    BY <1>0, <1>8 DEF PostFilledSlot, Return, Goto, NextCall, SlotsInHand,
       ItemsInHand, Busy, Threads
  <2>2. /\ Cardinality(SlotsInHand') = Cardinality(SlotsInHand) - 1
        /\ IsFiniteSet(SlotsInHand') /\ Cardinality(SlotsInHand') \in Nat
        /\ Cardinality(ItemsInHand') = Cardinality(ItemsInHand) - 1
    BY <1>0, <2>1, FS_RemoveElement, FS_CardinalityType
  <2>3. EverySlotCounted' /\ BufferMatches'
    BY <1>0, <1>8, <2>2 DEF Control, PostFilledSlot, TypeOK, EverySlotCounted,
       BufferMatches
  <2>4. filled_slots' \in 0 .. BUFFER_SIZE
    BY <1>0, <1>8, <2>2 DEF Control, PostFilledSlot, TypeOK, EverySlotCounted
  <2>5. TypeOK'
    BY <1>0, <1>8, <2>4 DEF Control, PostFilledSlot, Return, Goto, TypeOK,
       NextCall, Places, Threads
  <2>6. Exclusion' /\ InLoop' /\ OwnCode' /\ ReadsFirst'
    BY <1>0, <1>8 DEF Control, PostFilledSlot, Return, Goto, NextCall, TypeOK,
       Exclusion, InLoop, OwnCode, ReadsFirst, Holding, Threads, Count
  <2> QED
    BY <2>3, <2>5, <2>6 DEF IInv
<1>9. ASSUME NEW c \in Consumers, PostEmptySlot(c) PROVE IInv'
  <2>1. /\ c \in SlotsInHand /\ SlotsInHand' = SlotsInHand \ {c}
        /\ ItemsInHand' = ItemsInHand
    BY <1>0, <1>9 DEF PostEmptySlot, Return, Goto, NextCall, SlotsInHand,
       ItemsInHand, Busy, Threads
  <2>2. /\ Cardinality(SlotsInHand') = Cardinality(SlotsInHand) - 1
        /\ IsFiniteSet(SlotsInHand') /\ Cardinality(SlotsInHand') \in Nat
    BY <1>0, <2>1, FS_RemoveElement, FS_CardinalityType
  <2>3. EverySlotCounted' /\ BufferMatches'
    BY <1>0, <1>9, <2>1, <2>2 DEF Control, PostEmptySlot, TypeOK,
       EverySlotCounted, BufferMatches
  <2>4. empty_slots' \in 0 .. BUFFER_SIZE
    BY <1>0, <1>9, <2>2 DEF Control, PostEmptySlot, TypeOK, EverySlotCounted
  <2>5. TypeOK'
    BY <1>0, <1>9, <2>4 DEF Control, PostEmptySlot, Return, Goto, TypeOK,
       NextCall, Places, Threads
  <2>6. Exclusion' /\ InLoop' /\ OwnCode' /\ ReadsFirst'
    BY <1>0, <1>9 DEF Control, PostEmptySlot, Return, Goto, NextCall, TypeOK,
       Exclusion, InLoop, OwnCode, ReadsFirst, Holding, Threads, Count
  <2> QED
    BY <2>3, <2>5, <2>6 DEF IInv
<1>10. CASE UNCHANGED vars
  <2>1. Control'
    BY <1>0, <1>10 DEF vars, Control, TypeOK, Exclusion, InLoop, OwnCode, ReadsFirst
  <2>2. SlotsInHand' = SlotsInHand /\ ItemsInHand' = ItemsInHand
    BY <1>10 DEF vars, SlotsInHand, ItemsInHand
  <2> QED
    BY <1>10, <2>1, <2>2, SameAccounts DEF vars
<1> QED
  BY <1>1, <1>2, <1>3, <1>4, <1>5, <1>6, <1>7, <1>8, <1>9, <1>10
  DEF Next, produce, consume, Terminating, Threads

THEOREM Invariance == Spec => []IInv
BY InitIInv, NextIInv, PTL DEF Spec

\* The state keeps its shape; neither semaphore ever exceeds BUFFER_SIZE.
THEOREM TypeCorrect == Spec => []TypeOK
BY Invariance, PTL DEF IInv

\* The two semaphores and the calls in progress account for every slot.
THEOREM SlotsCounted == Spec => []EverySlotCounted
BY Invariance, PTL DEF IInv

\* filled_slots and the calls in progress account for every item.
THEOREM ItemsCounted == Spec => []BufferMatches
BY Invariance, PTL DEF IInv
-----------------------------------------------------------------------------
(* The implementation of the channel.                                      *)

\* The items producer p has inserted.
Sent(p) == calls[p] + (IF pc[p] \in {"unlock", "post"} THEN 1 ELSE 0)

LEMMA InitImplements == Init => Channel!Init
BY SemQueueAssumption DEF Init, Channel!Init, NextCall, Threads

\* What the channel sees does not change.
Hidden ==
  /\ buffer' = buffer
  /\ got' = got
  /\ \A p \in Producers : Sent(p)' = Sent(p)

LEMMA HiddenStutters == Hidden => UNCHANGED Channel!vars
BY DEF Hidden, Channel!vars, Sent

LEMMA NextImplements == IInv /\ [Next]_vars => [Channel!Next]_(Channel!vars)
<1> SUFFICES ASSUME IInv, [Next]_vars
             PROVE  Channel!Next \/ UNCHANGED Channel!vars
  OBVIOUS
<1> USE SemQueueAssumption
<1>0. /\ pc \in [Threads -> Places] /\ calls \in [Threads -> Nat]
      /\ InLoop /\ ReadsFirst /\ OwnCode
  BY DEF IInv, TypeOK
<1>1. ASSUME NEW p \in Producers, Push(p) PROVE Channel!Put(p)
  <2>1. Sent(p) = calls[p] /\ calls[p] < ProduceCount
    BY <1>0, <1>1 DEF Push, Goto, InLoop, Count, Threads, Sent
  <2>2. Len(buffer) < BUFFER_SIZE
    BY <1>1, RoomAndItem DEF Push, Goto
  <2>3. \A x \in Producers : Sent(x)' = IF x = p THEN Sent(x) + 1 ELSE Sent(x)
    BY <1>0, <1>1 DEF Push, Goto, Sent, Threads
  <2>4. [x \in Producers |-> Sent(x)']
          = [[x \in Producers |-> Sent(x)] EXCEPT ![p] = @ + 1]
    BY <2>3
  <2> QED
    BY <1>1, <2>1, <2>2, <2>4 DEF Push, Channel!Put, Datum, Sent
<1>2. ASSUME NEW c \in Consumers, Pop(c) PROVE Channel!Get(c)
  <2>1. buffer # << >> /\ item[c] = Head(buffer)
    BY <1>0, <1>2, RoomAndItem DEF Pop, Goto, ReadsFirst
  <2>2. \A p \in Producers : Sent(p)' = Sent(p)
    BY <1>0, <1>2 DEF Pop, Goto, Sent, Threads
  <2> QED
    BY <1>2, <2>1, <2>2 DEF Pop, Channel!Get, Sent
<1>3. ASSUME NEW p \in Producers, WaitEmptySlot(p) \/ PostFilledSlot(p)
      PROVE  Hidden
  BY <1>0, <1>3 DEF WaitEmptySlot, PostFilledSlot, Return, Goto, NextCall,
     Hidden, Sent, Threads
<1>4. ASSUME NEW c \in Consumers,
             WaitFilledSlot(c) \/ Front(c) \/ PostEmptySlot(c)
      PROVE  Hidden
  BY <1>0, <1>4 DEF WaitFilledSlot, Front, PostEmptySlot, Return, Goto,
     NextCall, Hidden, Sent, Threads
<1>5. ASSUME NEW t \in Threads,
             Lock(t, "push") \/ Lock(t, "front") \/ Unlock(t)
      PROVE  Hidden
  <2>1. buffer' = buffer /\ got' = got /\ calls' = calls
    BY <1>5 DEF Lock, Unlock
  <2>2. \A p \in Producers : Sent(p)' = Sent(p)
    BY <1>0, <1>5, <2>1 DEF Lock, Unlock, Goto, Sent, Threads
  <2> QED
    BY <2>1, <2>2 DEF Hidden
<1>6. CASE UNCHANGED vars
  BY <1>6, HiddenStutters DEF vars, Hidden, Sent
<1> QED
  BY <1>1, <1>2, <1>3, <1>4, <1>5, <1>6, HiddenStutters
  DEF Next, produce, consume, Terminating, Threads, Channel!Next

\* The semaphore buffer refines the channel, like the monitor of SyncQueue.
THEOREM Refinement == Spec => Implements
BY Invariance, InitImplements, NextImplements, PTL
DEF Spec, Implements, Channel!Spec
=============================================================================
