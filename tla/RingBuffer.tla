----------------------------- MODULE RingBuffer -----------------------------
(***************************************************************************)
(* The two ring buffers of the repository: CircularBuffer of               *)
(* src/Src/CircularBuffer.cpp, which overwrites its oldest byte when it is *)
(* full, and CQueue of src/Src/misc.txt, which refuses the byte.  The rest *)
(* of the two is alike.  The capacity is not 0 (the index is taken modulo  *)
(* the capacity).                                                          *)
(***************************************************************************)
EXTENDS Naturals, Sequences

CONSTANTS
  capacity,
  Bytes

VARIABLES
  kind,    \* which of the two
  buffer,
  head,    \* the next index to write
  tail,    \* the next index to read
  count,   \* bytes stored: cnt, count
  unread   \* the bytes written and neither read nor overwritten (history)

vars == <<kind, buffer, head, tail, count, unread>>

Init ==
  /\ kind \in {"CircularBuffer", "CQueue"}
  /\ buffer \in [0 .. capacity - 1 -> {0}]
  /\ head = 0 /\ tail = 0 /\ count = 0
  /\ unread = << >>

After(index) == (index + 1) % capacity

Store(byte) ==
  /\ buffer' = [buffer EXCEPT ![head] = byte]
  /\ head' = After(head)

\* Mutant: the oldest byte is overwritten and still read first.
OverwriteKeepsTail == UNCHANGED <<count, tail>>

\* The branch of write for a full buffer.
Overwrite == tail' = After(tail) /\ UNCHANGED count

write(byte) ==
  /\ kind = "CircularBuffer"
  /\ Store(byte)
  /\ \/ /\ count < capacity
        /\ count' = count + 1
        /\ unread' = Append(unread, byte)
        /\ UNCHANGED tail
     \/ /\ count >= capacity
        /\ Overwrite
        /\ unread' = Append(Tail(unread), byte)
  /\ UNCHANGED kind

cq_enqueue(byte) ==
  /\ kind = "CQueue"
  /\ count # capacity
  /\ Store(byte)
  /\ count' = count + 1
  /\ unread' = Append(unread, byte)
  /\ UNCHANGED <<kind, tail>>

\* read and cq_dequeue.
read ==
  /\ count # 0
  /\ tail' = After(tail)
  /\ count' = count - 1
  /\ unread' = Tail(unread)
  /\ UNCHANGED <<kind, buffer, head>>

\* read, cq_dequeue and cq_peek of an empty buffer, cq_enqueue to a full one.
Refused ==
  /\ count = 0 \/ (kind = "CQueue" /\ count = capacity)
  /\ UNCHANGED vars

Next ==
  \/ read
  \/ Refused
  \/ \E byte \in Bytes : write(byte) \/ cq_enqueue(byte)

Spec == Init /\ [][Next]_vars
-----------------------------------------------------------------------------
\* What read will return, from tail on and around the end, are the last bytes
\* written, at most as many as the capacity, in the order they were written;
\* the next write goes just behind them.
LastBytesInOrder ==
  /\ count = Len(unread)
  /\ \A n \in 1 .. count : buffer[(tail + n - 1) % capacity] = unread[n]
  /\ head = (tail + count) % capacity
=============================================================================
