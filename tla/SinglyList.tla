----------------------------- MODULE SinglyList -----------------------------
(***************************************************************************)
(* src/Src/List.c: a singly linked list.  Memory is the function cells     *)
(* from the allocated nodes to their fields; an access outside its domain  *)
(* is undefined behaviour.  The program appends through next pointers as   *)
(* main does, deletes values and frees the list; free_list leaves the      *)
(* head as it is, so that the program has to assign it before it uses the  *)
(* list again, as main does in line 82.  It does not delete from an empty  *)
(* list: line 46 would follow the NULL head (as it does in Test 6 of main, *)
(* which ends the program).                                                *)
(*                                                                         *)
(* pc: "idle" outside every function; "walk" at the head of the loop of    *)
(* delete_node (line 53) and "free" of free_list (34); "dangling" between  *)
(* free_list and the assignment of the head.                               *)
(***************************************************************************)
EXTENDS Naturals, SequencesExt

CONSTANTS
  Nodes,        \* the addresses of nodes; malloc succeeds while one is free
  Values,
  NULL

VARIABLES
  head,
  cells,      \* the allocated nodes
  temp,       \* the pointer of the loop
  value,      \* the argument of delete_node
  pc,
  contents    \* the values the list should hold (history)

vars == <<head, cells, temp, value, pc, contents>>

Init ==
  /\ head = NULL
  /\ cells = << >>
  /\ temp = NULL
  /\ value = NULL
  /\ pc = "idle"
  /\ contents = << >>

Without(n) == [x \in DOMAIN cells \ {n} |-> cells[x]]
Plus(n, v) == [x \in DOMAIN cells \cup {n} |->
                 IF x = n THEN [data |-> v, next |-> NULL] ELSE cells[x]]

\* The last node: main reaches it by head->next->...->next.
LastNode == CHOOSE n \in DOMAIN cells : cells[n].next = NULL

\* head = create_node(v), and last->next = create_node(v).
create_node(v) ==
  /\ pc \in {"idle", "dangling"}
  /\ \E n \in Nodes \ DOMAIN cells :
       IF head = NULL \/ pc = "dangling"
       THEN cells' = Plus(n, v) /\ head' = n
       ELSE cells' = [Plus(n, v) EXCEPT ![LastNode].next = n] /\ UNCHANGED head
  /\ pc' = "idle"
  /\ contents' = Append(contents, v)
  /\ UNCHANGED <<temp, value>>
-----------------------------------------------------------------------------
\* Lines 43 to 51: the head is followed before anything is known of it.
delete_node(v) ==
  /\ pc = "idle"
  /\ head # NULL
  /\ contents' = RemoveFirst(contents, v)
  /\ IF cells[head].data = v
     THEN head' = cells[head].next /\ cells' = Without(head) /\ UNCHANGED <<temp, value, pc>>
     ELSE temp' = head /\ value' = v /\ pc' = "walk" /\ UNCHANGED <<head, cells>>

NextOfTemp == cells[temp].next

\* Mutant: the nodes behind the deleted one are lost.
UnlinkForgetsRest ==
  cells' = [Without(NextOfTemp) EXCEPT ![temp].next = NULL]

\* Mutant: the link to the deleted node stays.
UnlinkKeepsLink == cells' = Without(NextOfTemp)

\* The node after temp is taken out of the list and freed.
Unlink == cells' = [Without(NextOfTemp) EXCEPT ![temp].next = cells[NextOfTemp].next]

Return == pc' = "idle" /\ temp' = NULL /\ value' = NULL

DeleteNext ==
  /\ pc = "walk"
  /\ NextOfTemp # NULL
  /\ cells[NextOfTemp].data = value
  /\ Unlink
  /\ Return
  /\ UNCHANGED <<head, contents>>

Advance ==
  /\ pc = "walk"
  /\ NextOfTemp # NULL
  /\ cells[NextOfTemp].data # value
  /\ temp' = NextOfTemp
  /\ UNCHANGED <<head, cells, value, pc, contents>>

NotFound ==
  /\ pc = "walk"
  /\ NextOfTemp = NULL
  /\ Return
  /\ UNCHANGED <<head, cells, contents>>
-----------------------------------------------------------------------------
free_list ==
  /\ pc = "idle"
  /\ temp' = head
  /\ pc' = "free"
  /\ contents' = << >>
  /\ UNCHANGED <<head, cells, value>>

FreeNode ==
  /\ pc = "free"
  /\ temp # NULL
  /\ temp' = NextOfTemp
  /\ cells' = Without(temp)
  /\ UNCHANGED <<head, value, pc, contents>>

\* A head that was NULL is not dangling, but still to be assigned.
FreeEnds ==
  /\ pc = "free"
  /\ temp = NULL
  /\ pc' = "dangling"
  /\ UNCHANGED <<head, cells, temp, value, contents>>

Next ==
  \/ \E v \in Values : create_node(v) \/ delete_node(v)
  \/ DeleteNext \/ Advance \/ NotFound
  \/ free_list \/ FreeNode \/ FreeEnds

Spec == Init /\ [][Next]_vars
-----------------------------------------------------------------------------
\* What the next pointers lead to from a node on: memory is read where it is
\* allocated.
ValuesFrom[n \in DOMAIN cells \cup {NULL}] ==
  IF n = NULL THEN << >> ELSE <<cells[n].data>> \o ValuesFrom[cells[n].next]

NodesFrom[n \in DOMAIN cells \cup {NULL}] ==
  IF n = NULL THEN {} ELSE {n} \cup NodesFrom[cells[n].next]

\* Between calls the list holds what was appended, in order, less the first
\* occurrence of each value deleted, wherever it was (nothing is deleted from an
\* empty list); every allocated node is in the list, and after free_list there
\* is none.
ListMatches ==
  /\ pc = "idle" => ValuesFrom[head] = contents /\ NodesFrom[head] = DOMAIN cells
  /\ pc = "dangling" => cells = << >>

\* No pointer that any function may follow leads to a node that has been freed:
\* neither a link of an allocated node, nor the head that main holds, nor the
\* pointer of a loop, which the loop of delete_node follows untested.
OnlyAllocatedFollowed ==
  /\ \A n \in DOMAIN cells : cells[n].next \in DOMAIN cells \cup {NULL}
  /\ pc \in {"idle", "walk"} => head \in DOMAIN cells \cup {NULL}
  /\ pc \in {"walk", "free"} => temp \in DOMAIN cells \cup {NULL}
  /\ pc = "walk" => temp # NULL
=============================================================================
