--------------------------- MODULE BlockAllocator ---------------------------
(***************************************************************************)
(* What a pool of fixed-size blocks promises: an allocation returns a      *)
(* block nobody holds, and NULL only when every block is held; a block     *)
(* that is given back can be allocated again.  src/Src/HeapAllocator.c and *)
(* src/Src/staticmempool.c both implement it.                              *)
(***************************************************************************)
CONSTANTS Blocks, NULL

VARIABLES
  held,   \* the blocks in the hands of the program
  result  \* what the last allocation returned

Init == held = {} /\ result = NULL

Allocate(b) ==
  /\ b \notin held
  /\ held' = held \cup {b}
  /\ result' = b

Exhausted ==
  /\ held = Blocks
  /\ result' = NULL
  /\ UNCHANGED held

Release(b) ==
  /\ b \in held
  /\ held' = held \ {b}
  /\ UNCHANGED result

\* The pool is destroyed, with all its blocks.
Discard == held' = {} /\ UNCHANGED result

Next == Exhausted \/ Discard \/ \E b \in Blocks : Allocate(b) \/ Release(b)

Spec == Init /\ [][Next]_<<held, result>>
=============================================================================
