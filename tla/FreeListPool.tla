---------------------------- MODULE FreeListPool ----------------------------
(***************************************************************************)
(* MemoryPool of src/Src/HeapAllocator.c: the free blocks are linked       *)
(* through their own first bytes, which the program overwrites while it    *)
(* holds a block.  A block is its number; its content is a link (a block   *)
(* or NULL) or the program's data.  The program frees only what it holds,  *)
(* once, writes only to what it holds, and uses the pool between           *)
(* create_pool and destroy_pool (without a pool the functions do nothing). *)
(***************************************************************************)
EXTENDS Naturals, FiniteSets

CONSTANTS
  numblocks,
  NULL,
  Data        \* content other than a link

VARIABLES
  memory,  \* the first bytes of each block
  list,    \* the head of the free list
  open,    \* whether the pool exists
  held,    \* the blocks the program holds
  result   \* what the last pool_alloc returned

vars == <<memory, list, open, held, result>>

Blocks == 0 .. numblocks - 1

Init ==
  /\ memory = [b \in Blocks |-> NULL]
  /\ list = NULL
  /\ open = FALSE
  /\ held = {}
  /\ result = NULL

\* The blocks are pushed one by one, so that the last is the head.
create_pool ==
  /\ ~open
  /\ open' = TRUE
  /\ memory' = [b \in Blocks |-> IF b = 0 THEN NULL ELSE b - 1]
  /\ list' = IF numblocks = 0 THEN NULL ELSE numblocks - 1
  /\ UNCHANGED <<held, result>>

\* One of the two calls of malloc fails.
CreateFails == ~open /\ UNCHANGED vars

\* The blocks go with the pool, those in use among them.
destroy_pool ==
  /\ open
  /\ open' = FALSE
  /\ held' = {}
  /\ UNCHANGED <<memory, list, result>>

\* Mutant: the head of the list is not moved on.
NewHeadSame == list

NewHead == memory[list]

pool_alloc ==
  /\ open
  /\ IF list = NULL
     THEN result' = NULL /\ UNCHANGED <<list, held>>
     ELSE result' = list /\ list' = NewHead /\ held' = held \cup {list}
  /\ UNCHANGED <<memory, open>>

pool_free(b) ==
  /\ b \in held
  /\ memory' = [memory EXCEPT ![b] = list]
  /\ list' = b
  /\ held' = held \ {b}
  /\ UNCHANGED <<open, result>>

\* The program uses a block it holds.
WriteBlock(b) ==
  /\ b \in held
  /\ memory' = [memory EXCEPT ![b] = Data]
  /\ UNCHANGED <<list, open, held, result>>

Next ==
  \/ create_pool \/ CreateFails \/ destroy_pool
  \/ pool_alloc
  \/ \E b \in Blocks : pool_free(b) \/ WriteBlock(b)

Spec == Init /\ [][Next]_vars
-----------------------------------------------------------------------------
\* What is reached from the head in n steps.
Reached[n \in Nat] ==
  IF n = 0 THEN list
  ELSE IF Reached[n - 1] \in Blocks THEN memory[Reached[n - 1]] ELSE NULL

pool_free_count == Cardinality({n \in Blocks : Reached[n] # NULL})

\* The list through the blocks implements the pool: what the program writes to
\* the blocks it holds never leads the list astray, and pool_free_count counts
\* the blocks not held.
Pool == INSTANCE BlockAllocator
Implements ==
  /\ Pool!Spec
  /\ [](open => pool_free_count = numblocks - Cardinality(held))
=============================================================================
