-------------------------- MODULE OneConditionQueue --------------------------
(***************************************************************************)
(* src/Src/producer.cpp: a producer of a fixed number of items and a       *)
(* consumer without end share a bounded queue, a mutex and one condition   *)
(* variable, on which both wait and which both notify with notify_all.     *)
(*                                                                         *)
(* pc names the next thing a thread does: "lock" (lines 22 and 36), "test" *)
(* the predicate of wait (23, 38), "wait" blocked, "relock" woken, "queue" *)
(* the access to q (24, 39-41), "notify" (26, 42), "unlock" (27, 43; the   *)
(* sleep and the loop follow), "done" returned.  A wait may end without a  *)
(* notification.                                                           *)
(***************************************************************************)
EXTENDS Integers, Sequences

CONSTANTS
  Q_MAX_SIZE,   \* line 17
  NumItems,     \* the bound of the producer's loop
  MaxSpurious,  \* bound on the spurious wakeups of a behaviour
  NoThread

VARIABLES
  q,
  mtx,     \* the thread that holds it
  pc,
  i,       \* the producer's loop variable
  popped,  \* what the consumer has taken, in order (history)
  spurious \* the number of spurious wakeups so far

vars == <<q, mtx, pc, i, popped, spurious>>

Threads == {"producer", "consumer"}

LoopHead(t, n) == IF t = "consumer" \/ n < NumItems THEN "lock" ELSE "done"

Init ==
  /\ q = << >>
  /\ mtx = NoThread
  /\ i = 0
  /\ pc = [t \in Threads |-> LoopHead(t, 0)]
  /\ popped = << >>
  /\ spurious = 0

\* Mutant: one item too many is let in.
ReadyWhenFull(t) == IF t = "producer" THEN Len(q) <= Q_MAX_SIZE ELSE q # << >>

\* The predicates of the two waits.
Ready(t) == IF t = "producer" THEN Len(q) < Q_MAX_SIZE ELSE q # << >>

Goto(t, place) == pc' = [pc EXCEPT ![t] = place]

Acquire(t) ==
  /\ pc[t] \in {"lock", "relock"}
  /\ mtx = NoThread
  /\ mtx' = t
  /\ Goto(t, "test")
  /\ UNCHANGED <<q, i, popped, spurious>>

Proceed(t) ==
  /\ pc[t] = "test"
  /\ Ready(t)
  /\ Goto(t, "queue")
  /\ UNCHANGED <<q, mtx, i, popped, spurious>>

Wait(t) ==
  /\ pc[t] = "test"
  /\ ~Ready(t)
  /\ Goto(t, "wait")
  /\ mtx' = NoThread
  /\ UNCHANGED <<q, i, popped, spurious>>

SpuriousWakeup(t) ==
  /\ pc[t] = "wait"
  /\ spurious < MaxSpurious
  /\ spurious' = spurious + 1
  /\ Goto(t, "relock")
  /\ UNCHANGED <<q, mtx, i, popped>>

Push ==
  /\ pc["producer"] = "queue"
  /\ q' = Append(q, i)
  /\ Goto("producer", "notify")
  /\ UNCHANGED <<mtx, i, popped, spurious>>

\* front and pop, with the mutex held.
FrontPop ==
  /\ pc["consumer"] = "queue"
  /\ popped' = Append(popped, Head(q))
  /\ q' = Tail(q)
  /\ Goto("consumer", "notify")
  /\ UNCHANGED <<mtx, i, spurious>>

\* Mutant: nobody is woken unless the queue has just stopped being empty.
NotifiedWhenFilled(t) ==
  {w \in Threads : pc[w] = "wait" /\ t = "producer" /\ Len(q) = 1}

\* Those notify_all wakes.
Notified(t) == {w \in Threads : pc[w] = "wait"}

NotifyAll(t) ==
  /\ pc[t] = "notify"
  /\ pc' = [w \in Threads |-> IF w = t THEN "unlock"
                              ELSE IF w \in Notified(t) THEN "relock" ELSE pc[w]]
  /\ UNCHANGED <<q, mtx, i, popped, spurious>>

Unlock(t) ==
  /\ pc[t] = "unlock"
  /\ mtx' = NoThread
  /\ i' = IF t = "producer" THEN i + 1 ELSE i
  /\ Goto(t, LoopHead(t, i + 1))
  /\ UNCHANGED <<q, popped, spurious>>

Monitor(t) == Acquire(t) \/ Proceed(t) \/ Wait(t) \/ NotifyAll(t) \/ Unlock(t)

producer == Monitor("producer") \/ Push
consumer == Monitor("consumer") \/ FrontPop

\* main has joined the producer, and joins the consumer, which nobody wakes.
Joining ==
  /\ pc["producer"] = "done" /\ pc["consumer"] = "wait" /\ q = << >>
  /\ UNCHANGED vars

Next == producer \/ consumer \/ Joining \/ \E t \in Threads : SpuriousWakeup(t)

Spec == Init /\ [][Next]_vars

FairSpec == Spec /\ WF_vars(producer) /\ WF_vars(consumer)
-----------------------------------------------------------------------------
\* push and pop take effect at the access to q; the loop variable follows.
Sent == IF pc["producer"] \in {"notify", "unlock"} THEN i + 1 ELSE i

Pairs(s) == [k \in DOMAIN s |-> <<"producer", s[k]>>]

Channel == INSTANCE BoundedChannel WITH
  Producers <- {"producer"}, Consumers <- {"consumer"},
  Capacity <- Q_MAX_SIZE, ProduceCount <- NumItems,
  chan <- Pairs(q), sent <- [p \in {"producer"} |-> Sent],
  got <- [c \in {"consumer"} |-> Pairs(popped)]

\* The queue under one condition variable implements the channel: at most
\* Q_MAX_SIZE items, handed to the consumer once and in order.
Implements == Channel!Spec

\* The two never wait for each other, and a thread that waits although it could
\* go on is about to be woken, by the one notify_all of the other thread.
NoLostWakeup ==
  /\ pc["producer"] = "wait" => pc["consumer"] \notin {"wait", "done"}
  /\ pc["producer"] = "wait" /\ Ready("producer") => pc["consumer"] = "notify"
  /\ pc["consumer"] = "wait" /\ Ready("consumer") => pc["producer"] = "notify"

\* Everything is consumed, in order, although each thread may block on the
\* other and both share one condition variable; but then the consumer, whose
\* loop has no end, waits for an item that never comes, and main for it.
AllConsumed ==
  <>[](/\ pc["producer"] = "done" /\ pc["consumer"] = "wait"
       /\ popped = [n \in 1 .. NumItems |-> n - 1])
=============================================================================
