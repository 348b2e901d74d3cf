---------------------------- MODULE IdAllocator ----------------------------
(***************************************************************************)
(* Allocator of src/Src/LeetCodeMemPool.cpp: units of a buffer marked with *)
(* the id of their owner, allocated first fit and freed by id.             *)
(* The program allocates between 1 and capacity units, for ids other than  *)
(* 0 (0 marks a free unit, and a larger size makes the loop run past the   *)
(* buffer).                                                                *)
(***************************************************************************)
EXTENDS Integers, FiniteSetsExt

CONSTANTS
  capacity,
  Ids        \* the ids in use, none of them 0

VARIABLES
  bufpool,
  segments  \* the allocations not yet freed (history)

vars == <<bufpool, segments>>

Units == 0 .. capacity - 1

Run(start, size) == start .. start + size - 1

Init ==
  /\ bufpool = [u \in Units |-> 0]
  /\ segments = {}

\* Mutant: the search looks at the first unit only.
FitsFirstUnit(size) == {start \in 0 .. capacity - size : bufpool[start] = 0}

\* The starts the outer loop would accept.
Fits(size) ==
  {start \in 0 .. capacity - size : \A u \in Run(start, size) : bufpool[u] = 0}

allocate(size, id) ==
  LET start == Min(Fits(size)) IN
  /\ Fits(size) # {}
  /\ bufpool' = [u \in Units |-> IF u \in Run(start, size) THEN id ELSE bufpool[u]]
  /\ segments' = segments \cup {[id |-> id, start |-> start, size |-> size]}

\* No room: -1 is returned.
AllocateFails(size) == Fits(size) = {} /\ UNCHANGED vars

freeMemory(id) ==
  /\ bufpool' = [u \in Units |-> IF bufpool[u] = id THEN 0 ELSE bufpool[u]]
  /\ segments' = {s \in segments : s.id # id}

Next ==
  \/ \E size \in 1 .. capacity : AllocateFails(size) \/ \E id \in Ids : allocate(size, id)
  \/ \E id \in Ids : freeMemory(id)

Spec == Init /\ [][Next]_vars
-----------------------------------------------------------------------------
Cells(s) == Run(s.start, s.size)

\* Allocations stay whole: no two share a unit, each unit of an allocation is
\* marked with its id until the id is freed, and every other unit is free,
\* however allocations of equal id are placed side by side and freed together.
SegmentsIntact ==
  /\ \A s, t \in segments : s # t => Cells(s) \cap Cells(t) = {}
  /\ \A s \in segments : \A u \in Cells(s) : bufpool[u] = s.id
  /\ \A u \in Units : bufpool[u] # 0 => \E s \in segments : u \in Cells(s)
=============================================================================
