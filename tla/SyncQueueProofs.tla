--------------------------- MODULE SyncQueueProofs ---------------------------
(***************************************************************************)
(* Theorems about SyncQueue for any number of threads, any capacity and    *)
(* any number of items and spurious wakeups.                               *)
(***************************************************************************)
EXTENDS SyncQueue, FiniteSetTheorems, SequenceTheorems, TLAPS

\* A thread is between its lock and its unlock exactly when it holds m.
Exclusion == \A t \in Threads : pc[t] \in Holding <=> mutex = t

\* A thread function that has not returned is inside its loop.
InLoop == \A t \in Threads : pc[t] # "done" => i[t] < Count(t)

\* What the predicate of the wait established still holds at the access.
PredicateHolds ==
  /\ \A p \in Producers : pc[p] = "push" => Len(q) < Capacity
  /\ \A c \in Consumers : pc[c] \in {"front", "pop"} => q # << >>

\* The item read by front is still the first when pop removes it.
ReadsFirst == \A c \in Consumers : pc[c] = "pop" => item[c] = Head(q)

\* The inductive invariant.
IInv ==
  /\ TypeOK
  /\ Exclusion
  /\ InLoop
  /\ PredicateHolds
  /\ ReadsFirst
  /\ Len(q) <= Capacity

LEMMA InitIInv == Init => IInv
<1> SUFFICES ASSUME Init PROVE IInv
  OBVIOUS
<1> USE SyncQueueAssumption
<1>1. TypeOK
  BY DEF Init, TypeOK, Threads, Places, LoopHead
<1>2. Exclusion /\ PredicateHolds /\ ReadsFirst
  BY DEF Init, Exclusion, PredicateHolds, ReadsFirst, Holding, LoopHead, Threads
<1>3. InLoop
  BY DEF Init, InLoop, LoopHead
<1>4. Len(q) <= Capacity
  BY DEF Init
<1> QED
  BY <1>1, <1>2, <1>3, <1>4 DEF IInv

LEMMA NextIInv == IInv /\ [Next]_vars => IInv'
<1> SUFFICES ASSUME IInv, [Next]_vars PROVE IInv'
  OBVIOUS
<1> USE SyncQueueAssumption DEF IInv
<1>1. ASSUME NEW t \in Threads, Acquire(t) PROVE IInv'
  BY <1>1 DEF Acquire, TypeOK, Exclusion, InLoop, PredicateHolds, ReadsFirst, Holding, Places, Threads, Count
<1>2. ASSUME NEW t \in Threads, Proceed(t) PROVE IInv'
  BY <1>2 DEF Proceed, TypeOK, Exclusion, InLoop, PredicateHolds, ReadsFirst, Holding, Places, Threads, Ready, Critical, Count
<1>3. ASSUME NEW t \in Threads, Wait(t) PROVE IInv'
  BY <1>3 DEF Wait, TypeOK, Exclusion, InLoop, PredicateHolds, ReadsFirst, Holding, Places, Threads, Count
<1>4. ASSUME NEW t \in Threads, SpuriousWakeup(t) PROVE IInv'
  BY <1>4 DEF SpuriousWakeup, TypeOK, Exclusion, InLoop, PredicateHolds, ReadsFirst, Holding, Places, Threads, Count
<1>5. ASSUME NEW t \in Threads, NEW W \in SUBSET {x \in Threads : pc[x] = "wait"}, NotifyOne(t, W) PROVE IInv'
  BY <1>5 DEF NotifyOne, TypeOK, Exclusion, InLoop, PredicateHolds, ReadsFirst, Holding, Places, Threads, Count
<1>6. ASSUME NEW t \in Threads, Unlock(t) PROVE IInv'
  BY <1>6 DEF Unlock, TypeOK, Exclusion, InLoop, PredicateHolds, ReadsFirst, Holding, Places, Threads, LoopHead, Count
<1>7. ASSUME NEW p \in Producers, Push(p) PROVE IInv'
  <2>1. mutex = p /\ i[p] < ProduceCount /\ Len(q) < Capacity
    BY <1>7 DEF Push, Exclusion, InLoop, PredicateHolds, Holding, Threads, Count
  <2>2. Datum(p) \in Items
    BY <2>1 DEF Datum, Items, TypeOK, Threads
  <2>3. q' \in Seq(Items) /\ Len(q') = Len(q) + 1 /\ q' # << >>
    BY <1>7, <2>2, AppendProperties, EmptySeq DEF Push, TypeOK
  <2>4. TypeOK'
    BY <1>7, <2>3 DEF Push, TypeOK, Places, Threads
  <2>5. Exclusion' /\ InLoop'
    BY <1>7, <2>1 DEF Push, TypeOK, Exclusion, InLoop, Holding, Threads, Count
  <2>6. \A t \in Threads : t # p => pc'[t] \notin {"push", "front", "pop"}
    BY <1>7, <2>1 DEF Push, TypeOK, Exclusion, Holding, Threads
  <2>7. PredicateHolds' /\ ReadsFirst'
    BY <1>7, <2>6 DEF Push, TypeOK, PredicateHolds, ReadsFirst, Threads
  <2> QED
    BY <2>1, <2>3, <2>4, <2>5, <2>7 DEF TypeOK
<1>8. ASSUME NEW c \in Consumers, Front(c) PROVE IInv'
  <2>1. q # << >> /\ Head(q) \in Items
    BY <1>8, HeadTailProperties DEF Front, PredicateHolds, TypeOK
  <2>2. TypeOK'
    BY <1>8, <2>1 DEF Front, TypeOK, Places, Threads
  <2>3. Exclusion' /\ InLoop' /\ PredicateHolds'
    BY <1>8 DEF Front, TypeOK, Exclusion, InLoop, PredicateHolds, Holding, Threads, Count
  <2>4. ReadsFirst'
    BY <1>8 DEF Front, TypeOK, ReadsFirst, Threads
  <2> QED
    BY <1>8, <2>2, <2>3, <2>4 DEF Front
<1>9. ASSUME NEW c \in Consumers, Pop(c) PROVE IInv'
  <2>1. mutex = c /\ q # << >> /\ item[c] = Head(q) /\ Head(q) \in Items
    BY <1>9, HeadTailProperties
    DEF Pop, Exclusion, PredicateHolds, ReadsFirst, Holding, Threads, TypeOK
  <2>2. q' \in Seq(Items) /\ Len(q') = Len(q) - 1
    BY <1>9, <2>1, HeadTailProperties DEF Pop, TypeOK
  <2>3. TypeOK'
    BY <1>9, <2>1, <2>2, AppendProperties DEF Pop, TypeOK, Places, Threads
  <2>4. Exclusion' /\ InLoop'
    BY <1>9 DEF Pop, TypeOK, Exclusion, InLoop, Holding, Threads, Count
  <2>5. \A t \in Threads : t # c => pc'[t] \notin {"push", "front", "pop"}
    BY <1>9, <2>1 DEF Pop, TypeOK, Exclusion, Holding, Threads
  <2>6. PredicateHolds' /\ ReadsFirst'
    BY <1>9, <2>5 DEF Pop, TypeOK, PredicateHolds, ReadsFirst, Threads
  <2> QED
    BY <2>2, <2>3, <2>4, <2>6 DEF TypeOK
<1>10. CASE UNCHANGED vars
  BY <1>10 DEF vars, TypeOK, Exclusion, InLoop, PredicateHolds, ReadsFirst
<1> QED
  BY <1>1, <1>2, <1>3, <1>4, <1>5, <1>6, <1>7, <1>8, <1>9, <1>10
     DEF Next, producerthread, consumerthread, Monitor, Terminating, Threads, NotifyNotEmpty, NotifyNotFull, NotFullWaiters, NotEmptyWaiters

THEOREM Invariance == Spec => []IInv
BY InitIInv, NextIInv, PTL DEF Spec

\* The state keeps its shape; in particular only items enter the queue.
THEOREM TypeCorrect == Spec => []TypeOK
BY Invariance, PTL DEF IInv

\* However many threads compete, push never exceeds the capacity and front and
\* pop are never applied to an empty queue.
THEOREM Safe == Spec => []QueueSafe
<1>1. IInv => QueueSafe
  BY DEF IInv, QueueSafe, PredicateHolds
<1> QED
  BY <1>1, Invariance, PTL
-----------------------------------------------------------------------------
(* The implementation of the channel.                                      *)

LEMMA InitImplements == Init => Channel!Init
BY SyncQueueAssumption
DEF Init, Channel!Init, Sent, LoopHead, Threads

\* Only the accesses to q show; the counters of the abstract producers advance
\* with Push.
LEMMA NextImplements == IInv /\ [Next]_vars => [Channel!Next]_(Channel!vars)
<1> SUFFICES ASSUME IInv, [Next]_vars
             PROVE Channel!Next \/ UNCHANGED Channel!vars
  OBVIOUS
<1> USE SyncQueueAssumption
<1>1. ASSUME NEW p \in Producers, Push(p) PROVE Channel!Put(p)
  <2>1. Sent(p) = i[p] /\ i[p] < ProduceCount /\ Len(q) < Capacity
    BY <1>1 DEF Push, IInv, InLoop, PredicateHolds, Count, Threads, Sent, TypeOK
  <2>2. \A x \in Producers : Sent(x)' = IF x = p THEN Sent(x) + 1 ELSE Sent(x)
    BY <1>1 DEF Push, Sent, IInv, TypeOK, Threads
  <2>3. [x \in Producers |-> Sent(x)']
          = [[x \in Producers |-> Sent(x)] EXCEPT ![p] = @ + 1]
    BY <2>2
  <2> QED
    BY <1>1, <2>1, <2>3 DEF Push, Channel!Put, Datum
<1>2. ASSUME NEW c \in Consumers, Pop(c) PROVE Channel!Get(c)
  <2>1. q # << >> /\ item[c] = Head(q)
    BY <1>2 DEF Pop, IInv, PredicateHolds, ReadsFirst
  <2>2. \A p \in Producers : Sent(p)' = Sent(p)
    BY <1>2 DEF Pop, Sent, IInv, TypeOK, Threads
  <2> QED
    BY <1>2, <2>1, <2>2 DEF Pop, Channel!Get
<1>3. ASSUME NEW t \in Threads,
             Monitor(t) \/ SpuriousWakeup(t) \/ (t \in Consumers /\ Front(t))
      PROVE UNCHANGED Channel!vars
  <2>1. q' = q /\ got' = got
    BY <1>3 DEF Monitor, Acquire, Proceed, Wait, Unlock, SpuriousWakeup, Front
  <2>2. \A p \in Producers : Sent(p)' = Sent(p)
    BY <1>3 DEF Monitor, Acquire, Proceed, Wait, Unlock, SpuriousWakeup, Front,
                Sent, LoopHead, Critical, IInv, TypeOK, Threads
  <2> QED
    BY <2>1, <2>2 DEF Channel!vars
<1>4. ASSUME NEW t \in Threads,
             NotifyOne(t, NotEmptyWaiters) \/ NotifyOne(t, NotFullWaiters)
      PROVE UNCHANGED Channel!vars
  <2>1. \A p \in Producers : Sent(p)' = Sent(p)
    BY <1>4 DEF NotifyOne, NotEmptyWaiters, NotFullWaiters, Sent, IInv, TypeOK,
                Threads
  <2> QED
    BY <1>4, <2>1 DEF NotifyOne, Channel!vars
<1>5. ASSUME UNCHANGED vars PROVE UNCHANGED Channel!vars
  BY <1>5 DEF vars, Channel!vars, Sent
<1> QED
  BY <1>1, <1>2, <1>3, <1>4, <1>5
  DEF Next, producerthread, consumerthread, Terminating, NotifyNotEmpty,
      NotifyNotFull, Threads, Channel!Next

\* The monitor refines the channel: a push or a pop takes effect in one step,
\* within capacity, in order, and pop returns what it removed.
THEOREM Refinement == Spec => Implements
BY Invariance, InitImplements, NextImplements, PTL
DEF Spec, Implements, Channel!Spec
-----------------------------------------------------------------------------
(* No wakeup is lost.                                                      *)

LEMMA TakersFinite ==
  ASSUME TypeOK
  PROVE  /\ IsFiniteSet(ItemTakers) /\ Cardinality(ItemTakers) \in Nat
         /\ IsFiniteSet(SlotTakers) /\ Cardinality(SlotTakers) \in Nat
<1>1. IsFiniteSet(Threads)
  BY SyncQueueAssumption, FS_Union DEF Threads
<1>2. ItemTakers \subseteq Threads /\ SlotTakers \subseteq Threads
  BY DEF ItemTakers, SlotTakers, Threads
<1> QED
  BY <1>1, <1>2, FS_Subset, FS_CardinalityType

\* The invariant is inductive relative to IInv: every step that adds an item or
\* blocks a consumer leaves as many consumers on their way as there are items,
\* and likewise for slots and producers.
LEMMA NextNoLostWakeup ==
  IInv /\ IInv' /\ NoLostWakeup /\ [Next]_vars => NoLostWakeup'
<1> SUFFICES ASSUME IInv, IInv', NoLostWakeup, [Next]_vars PROVE NoLostWakeup'
  OBVIOUS
<1> USE SyncQueueAssumption
<1>t. TypeOK /\ TypeOK' /\ Len(q) \in Nat /\ Len(q') \in Nat
  BY DEF IInv, TypeOK
<1>f. /\ IsFiniteSet(ItemTakers) /\ Cardinality(ItemTakers) \in Nat
      /\ IsFiniteSet(SlotTakers) /\ Cardinality(SlotTakers) \in Nat
  BY <1>t, TakersFinite
<1>g. /\ IsFiniteSet(ItemTakers') /\ Cardinality(ItemTakers)' \in Nat
      /\ IsFiniteSet(SlotTakers') /\ Cardinality(SlotTakers)' \in Nat
  <2>1. IsFiniteSet(Threads)
    BY FS_Union DEF Threads
  <2>2. ItemTakers' \subseteq Threads /\ SlotTakers' \subseteq Threads
    BY DEF ItemTakers, SlotTakers, Threads
  <2> QED
    BY <2>1, <2>2, FS_Subset, FS_CardinalityType
\* Steps that leave q alone, block nobody and lose no taker.
<1>1. ASSUME q' = q,
             NotEmptyWaiters' \subseteq NotEmptyWaiters,
             NotFullWaiters' \subseteq NotFullWaiters,
             ItemTakers \subseteq ItemTakers', SlotTakers \subseteq SlotTakers'
      PROVE NoLostWakeup'
  <2>1. /\ Cardinality(ItemTakers) <= Cardinality(ItemTakers')
        /\ Cardinality(SlotTakers) <= Cardinality(SlotTakers')
    BY <1>1, <1>g, FS_Subset
  <2> QED
    BY <1>1, <2>1, <1>t, <1>f, <1>g DEF NoLostWakeup
<1>2. ASSUME NEW t \in Threads,
             \/ Acquire(t) \/ Proceed(t) \/ Unlock(t) \/ SpuriousWakeup(t)
             \/ t \in Consumers /\ Front(t)
      PROVE NoLostWakeup'
  <2>1. q' = q
    BY <1>2 DEF Acquire, Proceed, Unlock, SpuriousWakeup, Front
  <2>2. /\ NotEmptyWaiters' \subseteq NotEmptyWaiters
        /\ NotFullWaiters' \subseteq NotFullWaiters
    BY <1>2, <1>t DEF Acquire, Proceed, Unlock, SpuriousWakeup, Front, TypeOK,
       NotEmptyWaiters, NotFullWaiters, Critical, LoopHead, Threads
  <2>3. ItemTakers \subseteq ItemTakers' /\ SlotTakers \subseteq SlotTakers'
    BY <1>2, <1>t DEF Acquire, Proceed, Unlock, SpuriousWakeup, Front, TypeOK,
       ItemTakers, SlotTakers, Critical, LoopHead, Threads
  <2> QED
    BY <1>1, <2>1, <2>2, <2>3
\* A thread blocks only when there is nothing for it.
<1>3. ASSUME NEW t \in Threads, Wait(t) PROVE NoLostWakeup'
  <2>1. q' = q
    BY <1>3 DEF Wait
  <2>2. CASE t \in Consumers
    <3>1. Len(q') = 0
      BY <1>3, <2>1, <2>2 DEF Wait, Ready
    <3>2. NotFullWaiters' = NotFullWaiters /\ SlotTakers' = SlotTakers
      BY <1>3, <1>t, <2>2 DEF Wait, TypeOK, NotFullWaiters, SlotTakers, Threads
    <3> QED
      BY <2>1, <3>1, <3>2, <1>g DEF NoLostWakeup
  <2>3. CASE t \in Producers
    <3>1. Capacity - Len(q') <= 0
      BY <1>3, <1>t, <2>1, <2>3 DEF Wait, Ready
    <3>2. NotEmptyWaiters' = NotEmptyWaiters /\ ItemTakers' = ItemTakers
      BY <1>3, <1>t, <2>3 DEF Wait, TypeOK, NotEmptyWaiters, ItemTakers, Threads
    <3> QED
      BY <2>1, <3>1, <3>2, <1>g, <1>t DEF NoLostWakeup
  <2> QED
    BY <2>2, <2>3 DEF Threads
\* The notifier stops being a taker, the thread it wakes becomes one.
<1>4. ASSUME NEW p \in Producers, NotifyNotEmpty(p) PROVE NoLostWakeup'
  <2>1. q' = q /\ p \in ItemTakers
    BY <1>4 DEF NotifyNotEmpty, NotifyOne, ItemTakers
  <2>2. NotFullWaiters' = NotFullWaiters /\ SlotTakers' = SlotTakers
    <3>1. \A x \in Producers : pc'[x] = IF x = p THEN "unlock" ELSE pc[x]
      BY <1>4, <1>t DEF NotifyNotEmpty, NotifyOne, TypeOK, NotEmptyWaiters,
         Threads
    <3>2. \A x \in Consumers :
            pc'[x] = pc[x] \/ (pc[x] = "wait" /\ pc'[x] = "relock")
      BY <1>4, <1>t DEF NotifyNotEmpty, NotifyOne, TypeOK, NotEmptyWaiters,
         Threads
    <3> QED
      BY <1>4, <3>1, <3>2 DEF NotifyNotEmpty, NotifyOne, NotFullWaiters,
         SlotTakers
  <2>3. CASE NotEmptyWaiters = {}
    <3>1. NotEmptyWaiters' = {}
      BY <1>4, <1>t, <2>3 DEF NotifyNotEmpty, NotifyOne, TypeOK,
         NotEmptyWaiters, Threads
    <3> QED
      BY <2>1, <2>2, <3>1 DEF NoLostWakeup
  <2>4. CASE NotEmptyWaiters # {}
    <3>1. PICK w \in NotEmptyWaiters :
            pc' = [pc EXCEPT ![p] = "unlock", ![w] = "relock"]
      BY <1>4, <2>4 DEF NotifyNotEmpty, NotifyOne
    <3>2. w \notin ItemTakers /\ ItemTakers' = (ItemTakers \ {p}) \cup {w}
      BY <3>1, <1>4, <1>t DEF NotifyNotEmpty, NotifyOne, TypeOK,
         NotEmptyWaiters, ItemTakers, Threads
    <3>3. /\ IsFiniteSet(ItemTakers \ {p})
          /\ Cardinality(ItemTakers \ {p}) = Cardinality(ItemTakers) - 1
      BY <2>1, <1>f, FS_RemoveElement
    <3>4. Cardinality(ItemTakers') = Cardinality(ItemTakers \ {p}) + 1
      BY <3>2, <3>3, FS_AddElement
    <3> QED
      BY <2>1, <2>2, <2>4, <3>3, <3>4, <1>f DEF NoLostWakeup
  <2> QED
    BY <2>3, <2>4
<1>5. ASSUME NEW c \in Consumers, NotifyNotFull(c) PROVE NoLostWakeup'
  <2>1. q' = q /\ c \in SlotTakers
    BY <1>5 DEF NotifyNotFull, NotifyOne, SlotTakers
  <2>2. NotEmptyWaiters' = NotEmptyWaiters /\ ItemTakers' = ItemTakers
    <3>1. \A x \in Consumers : pc'[x] = IF x = c THEN "unlock" ELSE pc[x]
      BY <1>5, <1>t DEF NotifyNotFull, NotifyOne, TypeOK, NotFullWaiters,
         Threads
    <3>2. \A x \in Producers :
            pc'[x] = pc[x] \/ (pc[x] = "wait" /\ pc'[x] = "relock")
      BY <1>5, <1>t DEF NotifyNotFull, NotifyOne, TypeOK, NotFullWaiters,
         Threads
    <3> QED
      BY <1>5, <3>1, <3>2 DEF NotifyNotFull, NotifyOne, NotEmptyWaiters,
         ItemTakers
  <2>3. CASE NotFullWaiters = {}
    <3>1. NotFullWaiters' = {}
      BY <1>5, <1>t, <2>3 DEF NotifyNotFull, NotifyOne, TypeOK,
         NotFullWaiters, Threads
    <3> QED
      BY <2>1, <2>2, <3>1 DEF NoLostWakeup
  <2>4. CASE NotFullWaiters # {}
    <3>1. PICK w \in NotFullWaiters :
            pc' = [pc EXCEPT ![c] = "unlock", ![w] = "relock"]
      BY <1>5, <2>4 DEF NotifyNotFull, NotifyOne
    <3>2. w \notin SlotTakers /\ SlotTakers' = (SlotTakers \ {c}) \cup {w}
      BY <3>1, <1>5, <1>t DEF NotifyNotFull, NotifyOne, TypeOK,
         NotFullWaiters, SlotTakers, Threads
    <3>3. /\ IsFiniteSet(SlotTakers \ {c})
          /\ Cardinality(SlotTakers \ {c}) = Cardinality(SlotTakers) - 1
      BY <2>1, <1>f, FS_RemoveElement
    <3>4. Cardinality(SlotTakers') = Cardinality(SlotTakers \ {c}) + 1
      BY <3>2, <3>3, FS_AddElement
    <3> QED
      BY <2>1, <2>2, <2>4, <3>3, <3>4, <1>f DEF NoLostWakeup
  <2> QED
    BY <2>3, <2>4
\* An item more, and a producer that will notify for it; a slot less, and a
\* producer that no longer needs one.
<1>6. ASSUME NEW p \in Producers, Push(p) PROVE NoLostWakeup'
  <2>1. Len(q') = Len(q) + 1
    <3>1. mutex = p /\ Datum(p) \in Items
      BY <1>6 DEF Push, IInv, TypeOK, Exclusion, InLoop, Holding, Threads,
         Count, Datum, Items
    <3> QED
      BY <1>6, <1>t, <3>1, AppendProperties DEF Push, TypeOK
  <2>2. /\ NotEmptyWaiters' = NotEmptyWaiters
        /\ NotFullWaiters' = NotFullWaiters
    BY <1>6, <1>t DEF Push, TypeOK, NotEmptyWaiters, NotFullWaiters, Threads
  <2>3. p \notin ItemTakers /\ ItemTakers' = ItemTakers \cup {p}
    BY <1>6, <1>t DEF Push, TypeOK, ItemTakers, Threads
  <2>4. p \in SlotTakers /\ SlotTakers' = SlotTakers \ {p}
    BY <1>6, <1>t DEF Push, TypeOK, SlotTakers, Threads
  <2>5. Cardinality(ItemTakers') = Cardinality(ItemTakers) + 1
    BY <2>3, <1>f, FS_AddElement
  <2>6. Cardinality(SlotTakers') = Cardinality(SlotTakers) - 1
    BY <2>4, <1>f, FS_RemoveElement
  <2> QED
    BY <2>1, <2>2, <2>5, <2>6, <1>t, <1>f DEF NoLostWakeup
<1>7. ASSUME NEW c \in Consumers, Pop(c) PROVE NoLostWakeup'
  <2>1. Len(q') = Len(q) - 1
    BY <1>7, <1>t, HeadTailProperties DEF Pop, IInv, PredicateHolds, TypeOK
  <2>2. /\ NotEmptyWaiters' = NotEmptyWaiters
        /\ NotFullWaiters' = NotFullWaiters
    BY <1>7, <1>t DEF Pop, TypeOK, NotEmptyWaiters, NotFullWaiters, Threads
  <2>3. c \in ItemTakers /\ ItemTakers' = ItemTakers \ {c}
    BY <1>7, <1>t DEF Pop, TypeOK, ItemTakers, Threads
  <2>4. c \notin SlotTakers /\ SlotTakers' = SlotTakers \cup {c}
    BY <1>7, <1>t DEF Pop, TypeOK, SlotTakers, Threads
  <2>5. Cardinality(ItemTakers') = Cardinality(ItemTakers) - 1
    BY <2>3, <1>f, FS_RemoveElement
  <2>6. Cardinality(SlotTakers') = Cardinality(SlotTakers) + 1
    BY <2>4, <1>f, FS_AddElement
  <2> QED
    BY <2>1, <2>2, <2>5, <2>6, <1>t, <1>f DEF NoLostWakeup
<1>8. CASE UNCHANGED vars
  BY <1>1, <1>8 DEF vars, NotEmptyWaiters, NotFullWaiters, ItemTakers, SlotTakers
<1> QED
  BY <1>2, <1>3, <1>4, <1>5, <1>6, <1>7, <1>8
  DEF Next, producerthread, consumerthread, Monitor, Terminating, Threads

\* However the threads compete for the mutex, and however often a wait returns
\* spuriously, no thread stays blocked over an item or a slot that nobody is on
\* the way to.
THEOREM WakeupsSuffice == Spec => []NoLostWakeup
<1>1. Init => NoLostWakeup
  BY SyncQueueAssumption
  DEF Init, NoLostWakeup, NotEmptyWaiters, NotFullWaiters, LoopHead, Threads
<1> QED
  BY <1>1, Invariance, NextNoLostWakeup, PTL DEF Spec
-----------------------------------------------------------------------------
(* What the monitor delivers.  These proofs use nothing but the steps of   *)
(* the channel which the monitor implements.                               *)

\* The number of items each producer has inserted.
Inserted == [p \in Producers |-> Sent(p)]

Typed ==
  /\ q \in Seq(Channel!Items)
  /\ Inserted \in [Producers -> Nat]
  /\ got \in [Consumers -> Seq(Channel!Items)]

\* The items of one producer: those delivered come before those in the channel,
\* which are in order and come before those not yet inserted.
Ordered ==
  /\ \A k \in 1 .. Len(q) : q[k][2] < Inserted[q[k][1]]
  /\ \A j, k \in 1 .. Len(q) :
       (j < k /\ q[j][1] = q[k][1]) => q[j][2] < q[k][2]
  /\ \A c \in Consumers : \A j \in 1 .. Len(got[c]) :
       /\ got[c][j][2] < Inserted[got[c][j][1]]
       /\ \A k \in 1 .. Len(q) :
            got[c][j][1] = q[k][1] => got[c][j][2] < q[k][2]

\* What the consumers hold, and what will come to them, is in order.
InOrder ==
  /\ Typed
  /\ Ordered
  /\ Channel!NothingLost
  /\ Channel!DeliveredOnce
  /\ Channel!PerProducerOrder

\* The empty channel.
LEMMA InitInOrder == Channel!Init => InOrder
<1> SUFFICES ASSUME Channel!Init PROVE InOrder
  OBVIOUS
<1>1. Typed
  BY DEF Channel!Init, Typed, Inserted
<1>2. Ordered
  BY DEF Channel!Init, Ordered, Inserted
<1>3. Channel!NothingLost /\ Channel!DeliveredOnce /\ Channel!PerProducerOrder
  BY DEF Channel!Init, Channel!NothingLost, Channel!DeliveredOnce, Channel!PerProducerOrder, Inserted
<1> QED
  BY <1>1, <1>2, <1>3 DEF InOrder

\* What a producer inserts is the newest of its items.
LEMMA PutInOrder ==
  ASSUME InOrder, NEW p \in Producers, Channel!Put(p)
  PROVE  InOrder'
<1> DEFINE x == <<p, Inserted[p]>>
<1>0. /\ Inserted' = [Inserted EXCEPT ![p] = Inserted[p] + 1] /\ got' = got
      /\ q' = Append(q, x) /\ p \in Producers
  BY DEF Channel!Put, Inserted
<1>1. /\ Typed /\ Ordered
      /\ Channel!NothingLost /\ Channel!DeliveredOnce /\ Channel!PerProducerOrder
      /\ x \in Channel!Items
  BY DEF InOrder, Typed, Channel!Items, Channel!Put
<1>2. /\ q' \in Seq(Channel!Items)
      /\ Len(q') = Len(q) + 1
      /\ \A k \in 1 .. Len(q) : q'[k] = q[k]
      /\ q'[Len(q) + 1] = x
  BY <1>0, <1>1, AppendProperties DEF Typed
<1>3. /\ got' = got
      /\ Inserted'[p] = Inserted[p] + 1
      /\ \A r \in Producers : r # p => Inserted'[r] = Inserted[r]
      /\ \A r \in Producers : Inserted[r] \in Nat /\ Inserted[r] <= Inserted'[r]
  BY <1>0, <1>1 DEF Typed
<1>4. Typed'
  BY <1>0, <1>1, <1>2 DEF Typed
<1>5. /\ Len(q) \in Nat /\ x[1] = p /\ x[2] = Inserted[p]
      /\ \A k \in 1 .. Len(q) : q[k][1] \in Producers /\ q[k][2] \in Nat
      /\ \A c \in Consumers : \A j \in 1 .. Len(got[c]) :
           got[c][j][1] \in Producers /\ got[c][j][2] \in Nat
  BY <1>1 DEF Typed, Channel!Items
\* An item in the channel is the new one or was there before.
<1>6. \A k \in 1 .. Len(q') :
        \/ k = Len(q) + 1 /\ q'[k] = x
        \/ k \in 1 .. Len(q) /\ q'[k] = q[k]
  BY <1>2, <1>5
<1>7. Ordered'
  <2> HIDE DEF x
  <2>1. ASSUME NEW k \in 1 .. Len(q')
        PROVE  q'[k][2] < Inserted'[q'[k][1]]
    <3>1. CASE k = Len(q) + 1 /\ q'[k] = x
      BY <1>3, <1>5, <3>1
    <3>2. CASE k \in 1 .. Len(q) /\ q'[k] = q[k]
      <4>1. q[k][2] < Inserted[q[k][1]]
        BY <1>1, <3>2 DEF Ordered
      <4> QED
        BY <1>3, <1>5, <3>2, <4>1
    <3> QED
      BY <1>6, <3>1, <3>2
  <2>2. ASSUME NEW j \in 1 .. Len(q'), NEW k \in 1 .. Len(q'),
               j < k, q'[j][1] = q'[k][1]
        PROVE  q'[j][2] < q'[k][2]
    <3>1. j \in 1 .. Len(q) /\ q'[j] = q[j]
      BY <1>2, <1>5, <1>6, <2>2
    <3>2. CASE k = Len(q) + 1 /\ q'[k] = x
      <4>1. q[j][2] < Inserted[q[j][1]]
        BY <1>1, <3>1 DEF Ordered
      <4> QED
        BY <1>5, <2>2, <3>1, <3>2, <4>1
    <3>3. CASE k \in 1 .. Len(q) /\ q'[k] = q[k]
      BY <1>1, <2>2, <3>1, <3>3 DEF Ordered
    <3> QED
      BY <1>6, <3>2, <3>3
  <2>3. ASSUME NEW c \in Consumers, NEW j \in 1 .. Len(got[c])
        PROVE  got[c][j][2] < Inserted'[got[c][j][1]]
    <3>1. got[c][j][2] < Inserted[got[c][j][1]]
      BY <1>1 DEF Ordered
    <3> QED
      BY <1>3, <1>5, <3>1
  <2>4. ASSUME NEW c \in Consumers, NEW j \in 1 .. Len(got[c]),
               NEW k \in 1 .. Len(q'), got[c][j][1] = q'[k][1]
        PROVE  got[c][j][2] < q'[k][2]
    <3>1. CASE k = Len(q) + 1 /\ q'[k] = x
      <4>1. got[c][j][2] < Inserted[got[c][j][1]]
        BY <1>1 DEF Ordered
      <4> QED
        BY <1>5, <2>4, <3>1, <4>1
    <3>2. CASE k \in 1 .. Len(q) /\ q'[k] = q[k]
      BY <1>1, <2>4, <3>2 DEF Ordered
    <3> QED
      BY <1>6, <3>1, <3>2
  <2> QED
    BY <1>3, <2>1, <2>2, <2>3, <2>4 DEF Ordered
<1>8. Channel!NothingLost'
  <2> SUFFICES ASSUME NEW r \in Producers, NEW n \in 0 .. Inserted'[r] - 1
               PROVE \/ \E k \in 1 .. Len(q') : q'[k] = <<r, n>>
                     \/ \E c \in Consumers : \E k \in 1 .. Len(got[c]) :
                          got[c][k] = <<r, n>>
    BY <1>3 DEF Channel!NothingLost, Inserted
  <2>1. CASE r = p /\ n = Inserted[p]
    BY <1>1, <1>2, <2>1 DEF Typed
  <2>2. CASE ~(r = p /\ n = Inserted[p])
    <3>1. n \in 0 .. Inserted[r] - 1
      BY <1>3, <2>2
    <3>2. CASE \E k \in 1 .. Len(q) : q[k] = <<r, n>>
      <4>1. PICK k \in 1 .. Len(q) : q[k] = <<r, n>>
        BY <3>2
      <4>2. k \in 1 .. Len(q') /\ q'[k] = <<r, n>>
        BY <1>2, <1>5, <4>1
      <4> QED
        BY <4>2
    <3> QED
      BY <1>1, <3>1, <3>2 DEF Channel!NothingLost, Inserted
  <2> QED
    BY <2>1, <2>2
<1>9. Channel!DeliveredOnce' /\ Channel!PerProducerOrder'
  BY <1>1, <1>3 DEF Channel!DeliveredOnce, Channel!PerProducerOrder, Inserted
<1> QED
  BY <1>4, <1>7, <1>8, <1>9 DEF InOrder

\* What a consumer removes comes after all that is with the consumers.
LEMMA GetInOrder ==
  ASSUME InOrder, NEW c \in Consumers, Channel!Get(c)
  PROVE  InOrder'
<1> DEFINE x == Head(q)
           m == Len(got[c])
<1>1. /\ Typed /\ Ordered
      /\ Channel!NothingLost /\ Channel!DeliveredOnce /\ Channel!PerProducerOrder
      /\ m \in Nat
  BY DEF InOrder, Typed
<1>2. /\ Len(q) \in Nat \ {0}
      /\ x = q[1] /\ x \in Channel!Items
      /\ q' \in Seq(Channel!Items)
      /\ Len(q') = Len(q) - 1
      /\ \A k \in 1 .. Len(q') : q'[k] = q[k + 1]
  BY <1>1, HeadTailProperties, EmptySeq DEF Channel!Get, Typed, Inserted
<1>3. /\ Inserted' = Inserted
      /\ got'[c] \in Seq(Channel!Items)
      /\ Len(got'[c]) = m + 1
      /\ \A j \in 1 .. m : got'[c][j] = got[c][j]
      /\ got'[c][m + 1] = x
      /\ \A d \in Consumers : d # c => got'[d] = got[d]
  BY <1>1, <1>2, AppendProperties DEF Channel!Get, Typed, Inserted
<1>4. Typed'
  BY <1>1, <1>2, <1>3 DEF Channel!Get, Typed, Inserted
<1>5. \A k \in 1 .. Len(q) : q[k] \in Channel!Items
  BY <1>1 DEF Typed
\* An item with a consumer is the new one or was there before.
<1>6. \A d \in Consumers : \A j \in 1 .. Len(got'[d]) :
        \/ d = c /\ j = m + 1 /\ got'[d][j] = x
        \/ j \in 1 .. Len(got[d]) /\ got'[d][j] = got[d][j]
  BY <1>1, <1>3 DEF Typed
<1>7. /\ x[1] \in Producers /\ x[2] \in Nat
      /\ \A k \in 1 .. Len(q) : q[k][1] \in Producers /\ q[k][2] \in Nat
      /\ \A d \in Consumers : \A j \in 1 .. Len(got[d]) :
           got[d][j][1] \in Producers /\ got[d][j][2] \in Nat
  BY <1>1, <1>2 DEF Typed, Channel!Items
\* What was delivered of the producer of x came before x.
<1>8. \A d \in Consumers : \A j \in 1 .. Len(got[d]) :
         got[d][j][1] = x[1] => got[d][j][2] < x[2]
  <2>1. 1 \in 1 .. Len(q)
    BY <1>2
  <2> QED
    BY <1>1, <1>2, <2>1 DEF Ordered
<1> HIDE DEF x, m
<1>9. Ordered'
  <2>1. ASSUME NEW k \in 1 .. Len(q')
        PROVE  /\ k + 1 \in 1 .. Len(q)
               /\ q'[k] = q[k + 1]
               /\ q[k + 1][2] < Inserted[q[k + 1][1]]
               /\ x[1] = q[k + 1][1] => x[2] < q[k + 1][2]
    <3>1. k + 1 \in 1 .. Len(q) /\ 1 \in 1 .. Len(q) /\ 1 < k + 1
      BY <1>2
    <3> QED
      BY <1>1, <1>2, <3>1 DEF Ordered
  <2>2. ASSUME NEW j \in 1 .. Len(q'), NEW k \in 1 .. Len(q'),
               j < k, q'[j][1] = q'[k][1]
        PROVE  q'[j][2] < q'[k][2]
    <3>1. j + 1 < k + 1
      BY <2>2
    <3> QED
      BY <1>1, <2>1, <2>2, <3>1 DEF Ordered
  <2>3. ASSUME NEW d \in Consumers, NEW j \in 1 .. Len(got'[d])
        PROVE  got'[d][j][2] < Inserted'[got'[d][j][1]]
    <3>1. x[2] < Inserted[x[1]]
      BY <1>1, <1>2 DEF Ordered
    <3> QED
      BY <1>1, <1>3, <1>6, <3>1 DEF Ordered
  <2>4. ASSUME NEW d \in Consumers, NEW j \in 1 .. Len(got'[d]),
               NEW k \in 1 .. Len(q'), got'[d][j][1] = q'[k][1]
        PROVE  got'[d][j][2] < q'[k][2]
    <3>1. CASE d = c /\ j = m + 1 /\ got'[d][j] = x
      BY <2>1, <2>4, <3>1
    <3>2. CASE j \in 1 .. Len(got[d]) /\ got'[d][j] = got[d][j]
      BY <1>1, <2>1, <2>4, <3>2 DEF Ordered
    <3> QED
      BY <1>6, <3>1, <3>2
  <2> QED
    BY <1>3, <2>1, <2>2, <2>3, <2>4 DEF Ordered
<1>10. Channel!NothingLost'
  <2> SUFFICES ASSUME NEW r \in Producers, NEW n \in 0 .. Inserted[r] - 1
               PROVE \/ \E k \in 1 .. Len(q') : q'[k] = <<r, n>>
                     \/ \E d \in Consumers : \E k \in 1 .. Len(got'[d]) :
                          got'[d][k] = <<r, n>>
    BY <1>3 DEF Channel!NothingLost, Inserted
  <2>1. CASE \E k \in 1 .. Len(q) : q[k] = <<r, n>>
    <3>1. PICK k \in 1 .. Len(q) : q[k] = <<r, n>>
      BY <2>1
    <3>2. CASE k = 1
      <4>1. m + 1 \in 1 .. Len(got'[c]) /\ got'[c][m + 1] = <<r, n>>
        BY <1>1, <1>2, <1>3, <3>1, <3>2
      <4> QED
        BY <4>1
    <3>3. CASE k # 1
      <4>1. k - 1 \in 1 .. Len(q') /\ q'[k - 1] = <<r, n>>
        BY <1>2, <3>1, <3>3
      <4> QED
        BY <4>1
    <3> QED
      BY <3>2, <3>3
  <2>2. CASE \E d \in Consumers : \E k \in 1 .. Len(got[d]) : got[d][k] = <<r, n>>
    <3>1. PICK d \in Consumers : \E k \in 1 .. Len(got[d]) : got[d][k] = <<r, n>>
      BY <2>2
    <3>2. PICK k \in 1 .. Len(got[d]) : got[d][k] = <<r, n>>
      BY <3>1
    <3>3. k \in 1 .. Len(got'[d]) /\ got'[d][k] = got[d][k]
      <4>1. got[d] \in Seq(Channel!Items) /\ Len(got[d]) \in Nat
        BY <1>1 DEF Typed
      <4>2. CASE d = c
        BY <1>1, <1>3, <4>1, <4>2 DEF m
      <4>3. CASE d # c
        BY <1>3, <4>3
      <4> QED
        BY <4>2, <4>3
    <3> QED
      BY <3>2, <3>3
  <2> QED
    BY <1>1, <2>1, <2>2 DEF Channel!NothingLost, Inserted
<1>11. Channel!DeliveredOnce'
  <2>1. ASSUME NEW d \in Consumers, NEW j \in 1 .. Len(got[d])
        PROVE  got[d][j] # x
    BY <1>7, <1>8
  <2>2. ASSUME NEW d \in Consumers, NEW e \in Consumers,
               NEW j \in 1 .. Len(got'[d]), NEW k \in 1 .. Len(got'[e]),
               got'[d][j] = got'[e][k]
        PROVE  d = e /\ j = k
    <3>1. CASE j \in 1 .. Len(got[d]) /\ k \in 1 .. Len(got[e])
               /\ got'[d][j] = got[d][j] /\ got'[e][k] = got[e][k]
      <4>1. got[d][j] = got[e][k]
        BY <2>2, <3>1
      <4> QED
        BY <1>1, <3>1, <4>1 DEF Channel!DeliveredOnce, Inserted
    <3> QED
      BY <1>6, <2>1, <2>2, <3>1
  <2> QED
    BY <2>2 DEF Channel!DeliveredOnce, Inserted
<1>12. Channel!PerProducerOrder'
  <2>1. ASSUME NEW d \in Consumers,
               NEW j \in 1 .. Len(got'[d]), NEW k \in 1 .. Len(got'[d]),
               j < k, got'[d][j][1] = got'[d][k][1]
        PROVE  got'[d][j][2] < got'[d][k][2]
    <3>1. j \in 1 .. Len(got[d]) /\ got'[d][j] = got[d][j]
      BY <1>1, <1>3, <1>6, <2>1 DEF m, Typed
    <3>2. CASE d = c /\ k = m + 1 /\ got'[d][k] = x
      BY <1>8, <2>1, <3>1, <3>2
    <3>3. CASE k \in 1 .. Len(got[d]) /\ got'[d][k] = got[d][k]
      BY <1>1, <2>1, <3>1, <3>3 DEF Channel!PerProducerOrder, Inserted
    <3> QED
      BY <1>6, <3>2, <3>3
  <2> QED
    BY <2>1 DEF Channel!PerProducerOrder, Inserted
<1> QED
  BY <1>4, <1>9, <1>10, <1>11, <1>12 DEF InOrder

\* A stutter of the channel.
LEMMA StutterInOrder ==
  ASSUME InOrder, UNCHANGED Channel!vars
  PROVE  InOrder'
<1>1. q' = q /\ Inserted' = Inserted /\ got' = got
  BY DEF Channel!vars, Inserted
<1>2. Typed' /\ Ordered'
  BY <1>1 DEF InOrder, Typed, Ordered
<1>3. Channel!NothingLost'
  BY <1>1 DEF InOrder, Channel!NothingLost, Inserted
<1>4. Channel!DeliveredOnce' /\ Channel!PerProducerOrder'
  BY <1>1 DEF InOrder, Channel!DeliveredOnce, Channel!PerProducerOrder
<1> QED
  BY <1>2, <1>3, <1>4 DEF InOrder

\* Between push and pop no item is lost, handed out twice, or overtaken by a
\* later item of the same producer on the way to the same consumer.
THEOREM Delivers == Spec => []Delivery
<1>1. InOrder /\ [Channel!Next]_(Channel!vars) => InOrder'
  BY PutInOrder, GetInOrder, StutterInOrder DEF Channel!Next
<1>2. Channel!Spec => []InOrder
  BY <1>1, InitInOrder, PTL DEF Channel!Spec
<1>3. InOrder => Delivery
  BY DEF InOrder, Delivery
<1> QED
  BY <1>2, <1>3, Refinement, PTL DEF Implements
=============================================================================
