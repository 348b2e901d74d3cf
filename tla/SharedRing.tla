----------------------------- MODULE SharedRing -----------------------------
(***************************************************************************)
(* CircularBuffer of src/Src/CircularBuffer.cpp with write called by one   *)
(* thread and read by another, at the grain of the single accesses to cnt, *)
(* tail_ and buffer_.  There is no lock in the code.  head_ belongs to     *)
(* the writer alone.  An increment is a load and a store.  (Plain members  *)
(* shared like this are undefined behaviour in C++; the model takes the    *)
(* accesses of the text in their order, the mildest of the outcomes.)      *)
(*                                                                         *)
(* pc of the writer: "idle"; "count" (line 29); "inc" the store to cnt     *)
(* (32); "load" and "move" the access to tail_ (36).                       *)
(* pc of the reader: "idle"; "fetch" the byte (50); "load" and "move" the  *)
(* access to tail_ (51); "count" and "dec" the access to cnt (53).         *)
(***************************************************************************)
EXTENDS Integers, Sequences

CONSTANTS
  size,
  MaxWrites   \* bound: the bytes the writer writes are 1, 2, ..., MaxWrites

VARIABLES
  buffer_, head_, tail_, cnt,
  pc,        \* where each thread is
  register,  \* the value each thread has loaded
  written,   \* the number of bytes written
  readBytes  \* the bytes read, in order (history)

vars == <<buffer_, head_, tail_, cnt, pc, register, written, readBytes>>

Threads == {"writer", "reader"}

Init ==
  /\ buffer_ = [n \in 0 .. size - 1 |-> 0]
  /\ head_ = 0 /\ tail_ = 0 /\ cnt = 0
  /\ pc = [t \in Threads |-> "idle"]
  /\ register = [t \in Threads |-> 0]
  /\ written = 0
  /\ readBytes = << >>

Goto(t, from, to) == pc[t] = from /\ pc' = [pc EXCEPT ![t] = to]

\* A load into the thread's register, and the end of a call.
Load(t, v) == register' = [register EXCEPT ![t] = v]
Forget(t) == Load(t, 0)

\* Lines 26 and 27.
WriteByte ==
  /\ Goto("writer", "idle", "count")
  /\ written < MaxWrites
  /\ written' = written + 1
  /\ buffer_' = [buffer_ EXCEPT ![head_] = written + 1]
  /\ head_' = (head_ + 1) % size
  /\ UNCHANGED <<tail_, cnt, register, readBytes>>

LoadCountNotFull ==
  /\ Goto("writer", "count", "inc")
  /\ cnt < size
  /\ Load("writer", cnt)
  /\ UNCHANGED <<buffer_, head_, tail_, cnt, written, readBytes>>

LoadCountFull ==
  /\ Goto("writer", "count", "load")
  /\ cnt >= size
  /\ UNCHANGED <<buffer_, head_, tail_, cnt, register, written, readBytes>>

Increment ==
  /\ Goto("writer", "inc", "idle")
  /\ cnt' = register["writer"] + 1
  /\ Forget("writer")
  /\ UNCHANGED <<buffer_, head_, tail_, written, readBytes>>

\* isEmpty: read returns false.
ReadEmpty == pc["reader"] = "idle" /\ cnt = 0 /\ UNCHANGED vars

ReadNotEmpty ==
  /\ Goto("reader", "idle", "fetch")
  /\ cnt # 0
  /\ UNCHANGED <<buffer_, head_, tail_, cnt, register, written, readBytes>>

Fetch ==
  /\ Goto("reader", "fetch", "load")
  /\ readBytes' = Append(readBytes, buffer_[tail_])
  /\ UNCHANGED <<buffer_, head_, tail_, cnt, register, written>>

LoadTail(t) ==
  /\ Goto(t, "load", "move")
  /\ Load(t, tail_)
  /\ UNCHANGED <<buffer_, head_, tail_, cnt, written, readBytes>>

\* The store to tail_, by the reader and by a writer that overwrites.
MoveTail(t) ==
  /\ Goto(t, "move", IF t = "reader" THEN "count" ELSE "idle")
  /\ tail_' = (register[t] + 1) % size
  /\ Forget(t)
  /\ UNCHANGED <<buffer_, head_, cnt, written, readBytes>>

LoadCount ==
  /\ Goto("reader", "count", "dec")
  /\ Load("reader", cnt)
  /\ UNCHANGED <<buffer_, head_, tail_, cnt, written, readBytes>>

Decrement ==
  /\ Goto("reader", "dec", "idle")
  /\ cnt' = register["reader"] - 1
  /\ Forget("reader")
  /\ UNCHANGED <<buffer_, head_, tail_, written, readBytes>>

write == WriteByte \/ LoadCountNotFull \/ LoadCountFull \/ Increment
           \/ LoadTail("writer") \/ MoveTail("writer")

read == ReadEmpty \/ ReadNotEmpty \/ Fetch \/ LoadTail("reader") \/ MoveTail("reader")
          \/ LoadCount \/ Decrement

Next == write \/ read

Spec == Init /\ [][Next]_vars
-----------------------------------------------------------------------------
\* "Thread-safe read/write operations with overflow/underflow detection"
\* (src/README.md, line 112): the reader gets bytes that were written, each at
\* most once and in order, although overwriting may make it miss some.
ReadInOrder ==
  \A n \in 1 .. Len(readBytes) :
    readBytes[n] > (IF n = 1 THEN 0 ELSE readBytes[n - 1])
=============================================================================
