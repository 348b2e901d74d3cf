--------------------------- MODULE AlignedMalloc ---------------------------
(***************************************************************************)
(* malloc_aligned and free_aligned of src/Src/Align-Padding.c: the         *)
(* original pointer is kept in the bytes just before the aligned address,  *)
(* where free_aligned finds it again.                                      *)
(*                                                                         *)
(* Addresses are those of an arena; a cell holds a byte of the program     *)
(* (Data), nothing yet (NULL), or a part of a stored pointer, for which    *)
(* the pointer itself stands.  malloc returns any address that is a        *)
(* multiple of the size of a pointer and has room behind it, or NULL (so   *)
(* it does when size + alignment - 1 overflows an int: the sum is then a   *)
(* huge size_t).  The program frees what it was given, once, and writes    *)
(* the bytes it asked for and no others.                                   *)
(***************************************************************************)
EXTENDS Integers, FiniteSets

CONSTANTS
  ArenaSize,   \* bound: the addresses are 0 .. ArenaSize - 1
  PtrSize,     \* sizeof(void*)
  MaxSize,     \* bound: the largest size asked for
  MaxAlign,    \* bound: the largest alignment asked for
  NULL,
  Data

VARIABLES
  memory,   \* the content of each cell
  blocks,   \* what malloc has handed out: [raw, total]
  held,     \* what the program holds: [ptr, size, alignment]
  aligned   \* what the last malloc_aligned returned

vars == <<memory, blocks, held, aligned>>

Arena == 0 .. ArenaSize - 1

Span(start, length) == start .. start + length - 1

Init ==
  /\ memory = [a \in Arena |-> NULL]
  /\ blocks = {}
  /\ held = {}
  /\ aligned = NULL

\* The two tests of the arguments; n & (n - 1) is 0 for the powers of two.
PowerOfTwo(n) == \E k \in 0 .. n : n = 2^k
Acceptable(size, alignment) == size > 0 /\ alignment > 0 /\ PowerOfTwo(alignment)

\* Mutant: no room is asked for the pointer.
TotalWithoutSlot(size, alignment) == size + alignment - 1

Total(size, alignment) == size + alignment - 1 + PtrSize

\* (x + alignment - 1) & ~(alignment - 1), for a power of two.
AlignUp(x, alignment) == ((x + alignment - 1) \div alignment) * alignment

\* The addresses malloc may return.
Room(total) ==
  {raw \in Arena :
     /\ raw % PtrSize = 0
     /\ Span(raw, total) \subseteq Arena
     /\ \A b \in blocks : Span(raw, total) \cap Span(b.raw, b.total) = {}}

Slot(ptr) == Span(ptr - PtrSize, PtrSize)

malloc_aligned(size, alignment) ==
  /\ Acceptable(size, alignment)
  /\ \E raw \in Room(Total(size, alignment)) :
       LET ptr == AlignUp(raw + PtrSize, alignment) IN
       /\ blocks' = blocks \cup {[raw |-> raw, total |-> Total(size, alignment)]}
       /\ memory' = [a \in Arena |-> IF a \in Slot(ptr) THEN raw ELSE memory[a]]
       /\ held' = held \cup {[ptr |-> ptr, size |-> size, alignment |-> alignment]}
       /\ aligned' = ptr

\* The arguments are refused, or malloc fails.
ReturnsNull(size, alignment) ==
  /\ aligned' = NULL
  /\ UNCHANGED <<memory, blocks, held>>

\* What free_aligned reads: a pointer, if all bytes of one are still there.
Stored(ptr) ==
  IF \E raw \in Arena : \A a \in Slot(ptr) : a \in Arena /\ memory[a] = raw
  THEN memory[ptr - PtrSize] ELSE NULL

\* The content of a freed block is lost.
free_aligned(h) ==
  LET freed == {b \in blocks : b.raw = Stored(h.ptr)} IN
  /\ h \in held
  /\ blocks' = blocks \ freed
  /\ memory' = [a \in Arena |->
                  IF \E b \in freed : a \in Span(b.raw, b.total) THEN NULL ELSE memory[a]]
  /\ held' = held \ {h}
  /\ UNCHANGED aligned

\* The program fills the bytes it asked for.
WriteBytes(h) ==
  /\ h \in held
  /\ memory' = [a \in Arena |-> IF a \in Span(h.ptr, h.size) THEN Data ELSE memory[a]]
  /\ UNCHANGED <<blocks, held, aligned>>

Next ==
  \/ \E size \in 0 .. MaxSize, alignment \in 0 .. MaxAlign :
       malloc_aligned(size, alignment) \/ ReturnsNull(size, alignment)
  \/ \E h \in held : free_aligned(h) \/ WriteBytes(h)

Spec == Init /\ [][Next]_vars
-----------------------------------------------------------------------------
\* Every pointer held is a multiple of its alignment; the bytes asked for and
\* the stored pointer lie inside one block of malloc; and free_aligned still
\* finds the start of that block, whatever the program wrote. Each block
\* belongs to one pointer held, so that freeing gives all of them back.
AlignedBlocks ==
  /\ \A h \in held :
       /\ h.ptr % h.alignment = 0
       /\ \E b \in blocks :
            /\ b.raw = Stored(h.ptr)
            /\ Slot(h.ptr) \cup Span(h.ptr, h.size) \subseteq Span(b.raw, b.total)
  /\ Cardinality(blocks) = Cardinality(held)
=============================================================================
