---------------------------- MODULE NextFitPool ----------------------------
(***************************************************************************)
(* The packet buffers of src/Src/staticmempool.c: a static array searched  *)
(* from next_buffer on.  (Pool of LeetCodeMemPool.cpp, disabled there, is  *)
(* the same code.)  The program releases only what it holds.               *)
(***************************************************************************)
EXTENDS Naturals, FiniteSetsExt

CONSTANTS BUFFER_POOL_SIZE, NULL

VARIABLES
  in_use,       \* the flag of each buffer
  next_buffer,
  result        \* the index of the buffer get_buffer returned, or NULL

vars == <<in_use, next_buffer, result>>

Blocks == 0 .. BUFFER_POOL_SIZE - 1

Init ==
  /\ in_use = [b \in Blocks |-> FALSE]
  /\ next_buffer = 0
  /\ result = NULL

\* Mutant: the search stops at the end of the array.
IndexNoWrap(n) ==
  IF next_buffer + n < BUFFER_POOL_SIZE THEN next_buffer + n ELSE BUFFER_POOL_SIZE - 1

\* The buffer examined in turn n of the loop.
Index(n) == (next_buffer + n) % BUFFER_POOL_SIZE

FreeTurns == {n \in Blocks : ~in_use[Index(n)]}

get_buffer ==
  IF FreeTurns = {}
  THEN result' = NULL /\ UNCHANGED <<in_use, next_buffer>>
  ELSE LET b == Index(Min(FreeTurns)) IN
         /\ in_use' = [in_use EXCEPT ![b] = TRUE]
         /\ next_buffer' = (b + 1) % BUFFER_POOL_SIZE
         /\ result' = b

release_buffer(b) ==
  /\ in_use[b]
  /\ in_use' = [in_use EXCEPT ![b] = FALSE]
  /\ UNCHANGED <<next_buffer, result>>

Next == get_buffer \/ \E b \in Blocks : release_buffer(b)

Spec == Init /\ [][Next]_vars
-----------------------------------------------------------------------------
\* The flags and the cursor implement the pool: the search finds a free buffer
\* whenever there is one, wherever the cursor stands.
Pool == INSTANCE BlockAllocator WITH held <- {b \in Blocks : in_use[b]}
Implements == Pool!Spec
=============================================================================
