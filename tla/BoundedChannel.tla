--------------------------- MODULE BoundedChannel ---------------------------
(***************************************************************************)
(* What the bounded queues of this repository promise to the threads that  *)
(* share one: a channel of at most Capacity items, where an insertion or a *)
(* removal takes effect at one instant, items leave in the order in which  *)
(* they entered, and every item reaches exactly one consumer.              *)
(*                                                                         *)
(* sync_queue (Synchronization.cpp, module SyncQueue), the semaphore       *)
(* buffer (Sem-ProdcuerCondumer.cpp, module SemQueue) and the queue under  *)
(* one condition variable (producer.cpp, module OneConditionQueue)         *)
(* implement this specification.                                           *)
(***************************************************************************)
EXTENDS Integers, Sequences

CONSTANTS
  Producers,     \* the producing threads
  Consumers,     \* the consuming threads
  Capacity,      \* the most items the channel holds
  ProduceCount   \* the items each producer inserts: 0, 1, ..., ProduceCount - 1

VARIABLES
  chan,   \* the items in the channel, oldest first
  sent,   \* the number of items each producer has inserted
  got     \* the items each consumer has removed, in order

vars == <<chan, sent, got>>

\* A producer inserts the numbers 0, 1, 2, ...; pairing a number with its
\* producer makes every item of a run distinct.
Items == Producers \X Nat

Init ==
  /\ chan = << >>
  /\ sent = [p \in Producers |-> 0]
  /\ got = [c \in Consumers |-> << >>]

Put(p) ==
  /\ sent[p] < ProduceCount
  /\ Len(chan) < Capacity
  /\ chan' = Append(chan, <<p, sent[p]>>)
  /\ sent' = [sent EXCEPT ![p] = @ + 1]
  /\ UNCHANGED got

Get(c) ==
  /\ chan # << >>
  /\ got' = [got EXCEPT ![c] = Append(@, Head(chan))]
  /\ chan' = Tail(chan)
  /\ UNCHANGED sent

Next ==
  \/ \E p \in Producers : Put(p)
  \/ \E c \in Consumers : Get(c)

Spec == Init /\ [][Next]_vars
-----------------------------------------------------------------------------
\* The shape of the state: the channel and the histories hold items only.
TypeOK ==
  /\ chan \in Seq(Items)
  /\ sent \in [Producers -> Nat]
  /\ got \in [Consumers -> Seq(Items)]

\* Nothing is lost: whatever a producer has inserted is still in the channel or
\* has been handed to a consumer.
NothingLost ==
  \A p \in Producers : \A n \in 0 .. sent[p] - 1 :
    \/ \E k \in 1 .. Len(chan) : chan[k] = <<p, n>>
    \/ \E c \in Consumers : \E k \in 1 .. Len(got[c]) : got[c][k] = <<p, n>>

\* Nothing is handed out twice, neither to two consumers nor to one.
DeliveredOnce ==
  \A c, d \in Consumers : \A j \in 1 .. Len(got[c]), k \in 1 .. Len(got[d]) :
    got[c][j] = got[d][k] => c = d /\ j = k

\* A consumer meets the items of one producer in the order in which that
\* producer inserted them.
PerProducerOrder ==
  \A c \in Consumers : \A j, k \in 1 .. Len(got[c]) :
    (j < k /\ got[c][j][1] = got[c][k][1]) => got[c][j][2] < got[c][k][2]
=============================================================================
