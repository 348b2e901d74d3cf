----------------------------- MODULE LlistMutex -----------------------------
(***************************************************************************)
(* LinkedList of src/Src/LlistMutex.cpp: a singly linked list that several *)
(* threads share under a Win32 mutex.  Memory is a set of nodes; malloc    *)
(* returns any free one, and NULL when there is none.  The list is         *)
(* destroyed, without the mutex, only while no thread is in a call.        *)
(*                                                                         *)
(* pc: "idle", "wait" for the mutex (lines 31, 50, 79, 115), "malloc" (33, *)
(* 52), "walk" through the list (66-68, 85-96), "link" (40-41, 63, 69),    *)
(* "unlink" (86-87, 105-106), "release" the mutex (36, 44, 55, 73, 88,     *)
(* 101, 109, 126).  printList walks from line 118 to 121.                  *)
(***************************************************************************)
EXTENDS Naturals, SequencesExt

CONSTANTS
  Threads, NoThread,
  Nodes, NULL,
  Keys

VARIABLES
  head,
  nodes,       \* the nodes malloc has returned and free has not taken back
  mutex,       \* the owner of the mutex
  pc,
  call,        \* the operation and its argument
  temp, prev,  \* the walking pointers of each thread
  newNode,     \* the node an insertion has allocated
  printed,     \* what the printList in progress has printed
  contents     \* what the operations make of the list, in the order in which
               \* they hold the mutex (history)

output == <<printed, contents>>
locals == <<call, temp, prev, newNode>>
vars == <<head, nodes, mutex, pc, locals, output>>

Requests ==
  [op : {"insertAtBeginning", "insertAtEnd", "deleteNode"}, key : Keys]
    \cup [op : {"printList"}, key : {0}]

NoCall == [op |-> "none", key |-> 0]

\* initList
Init ==
  /\ head = NULL
  /\ nodes = << >>
  /\ mutex = NoThread
  /\ pc = [t \in Threads |-> "idle"]
  /\ call = [t \in Threads |-> NoCall]
  /\ temp = [t \in Threads |-> NULL] /\ prev = temp /\ newNode = temp
  /\ printed = << >>
  /\ contents = << >>

Op(t) == call[t].op
Key(t) == call[t].key
Goto(t, from, to) == pc[t] = from /\ pc' = [pc EXCEPT ![t] = to]

Call(t, request) ==
  /\ Goto(t, "idle", "wait")
  /\ call' = [call EXCEPT ![t] = request]
  /\ UNCHANGED <<head, nodes, mutex, temp, prev, newNode, output>>

Wait(t) ==
  /\ Goto(t, "wait", IF Op(t) \in {"deleteNode", "printList"} THEN "walk" ELSE "malloc")
  /\ mutex = NoThread
  /\ mutex' = t
  /\ temp' = [temp EXCEPT ![t] = head]
  /\ prev' = [prev EXCEPT ![t] = NULL]
  /\ UNCHANGED <<head, nodes, call, newNode, output>>

\* The call returns, and its variables are no more.
Release(t) ==
  /\ Goto(t, "release", "idle")
  /\ mutex' = NoThread
  /\ call' = [call EXCEPT ![t] = NoCall]
  /\ temp' = [temp EXCEPT ![t] = NULL]
  /\ prev' = [prev EXCEPT ![t] = NULL]
  /\ newNode' = [newNode EXCEPT ![t] = NULL]
  /\ printed' = << >>
  /\ UNCHANGED <<head, nodes, contents>>

Malloc(t) ==
  \/ \E n \in Nodes \ DOMAIN nodes :
       /\ Goto(t, "malloc", IF Op(t) = "insertAtEnd" THEN "walk" ELSE "link")
       /\ nodes' = [m \in DOMAIN nodes \cup {n} |->
                     IF m # n THEN nodes[m]
                     ELSE [data |-> Key(t),
                           next |-> IF Op(t) = "insertAtEnd" THEN NULL ELSE head]]
       /\ newNode' = [newNode EXCEPT ![t] = n]
       /\ UNCHANGED <<head, mutex, call, temp, prev, output>>
  \/ /\ DOMAIN nodes = Nodes
     /\ Goto(t, "malloc", "release")
     /\ UNCHANGED <<head, nodes, mutex, locals, output>>

\* Mutant: the search stops at the last node, whatever its key.
FoundLast(t) ==
  temp[t] # NULL => (nodes[temp[t]].next = NULL \/ nodes[temp[t]].data = Key(t)) = TRUE

\* The conditions that end the walks.
Found(t) == temp[t] # NULL => nodes[temp[t]].data = Key(t)
AtEnd(t) == temp[t] # NULL => nodes[temp[t]].next = NULL

Arrived(t) == CASE Op(t) = "deleteNode" -> Found(t)
                [] Op(t) = "insertAtEnd" -> AtEnd(t)
                [] Op(t) = "printList" -> temp[t] = NULL

Walk(t) ==
  /\ pc[t] = "walk"
  /\ ~Arrived(t)
  /\ prev' = [prev EXCEPT ![t] = temp[t]]
  /\ temp' = [temp EXCEPT ![t] = nodes[temp[t]].next]
  /\ printed' = IF Op(t) = "printList" THEN Append(printed, nodes[temp[t]].data) ELSE printed
  /\ UNCHANGED <<head, nodes, mutex, pc, call, newNode, contents>>

WalkEnds(t) ==
  /\ Goto(t, "walk", IF Op(t) = "insertAtEnd" THEN "link"
                       ELSE IF temp[t] # NULL THEN "unlink" ELSE "release")
  /\ Arrived(t)
  /\ UNCHANGED <<head, nodes, mutex, locals, output>>

Link(t) ==
  /\ Goto(t, "link", "release")
  /\ IF Op(t) = "insertAtBeginning" \/ head = NULL
     THEN head' = newNode[t] /\ UNCHANGED nodes
     ELSE nodes' = [nodes EXCEPT ![temp[t]].next = newNode[t]] /\ UNCHANGED head
  /\ contents' = IF Op(t) = "insertAtEnd"
                 THEN Append(contents, Key(t)) ELSE <<Key(t)>> \o contents
  /\ UNCHANGED <<mutex, locals, printed>>

\* The node is taken out of the list and freed.
Unlink(t) ==
  /\ Goto(t, "unlink", "release")
  /\ head' = IF temp[t] = head THEN nodes[temp[t]].next ELSE head
  /\ nodes' = [n \in DOMAIN nodes \ {temp[t]} |->
                 IF temp[t] # head /\ n = prev[t]
                 THEN [nodes[n] EXCEPT !.next = nodes[temp[t]].next] ELSE nodes[n]]
  /\ contents' = RemoveFirst(contents, Key(t))
  /\ UNCHANGED <<mutex, locals, printed>>
-----------------------------------------------------------------------------
\* The node reached from the head in n steps, and the nodes of the list.
Reached[n \in Nat] ==
  IF n = 0 THEN head
  ELSE IF Reached[n - 1] = NULL THEN NULL
  ELSE nodes[Reached[n - 1]].next

Linked == {Reached[n] : n \in 0 .. Cardinality(Nodes)} \ {NULL}

\* The nodes of the list are freed one by one; nobody looks meanwhile.
destroyList ==
  /\ \A t \in Threads : pc[t] = "idle"
  /\ nodes' = [n \in DOMAIN nodes \ Linked |-> nodes[n]]
  /\ head' = NULL
  /\ contents' = << >>
  /\ UNCHANGED <<mutex, pc, locals, printed>>

Next ==
  \/ \E t \in Threads :
       \/ \E request \in Requests : Call(t, request)
       \/ Wait(t) \/ Release(t)
       \/ Malloc(t) \/ Walk(t) \/ WalkEnds(t) \/ Link(t) \/ Unlink(t)
  \/ destroyList

Spec == Init /\ [][Next]_vars
-----------------------------------------------------------------------------
Critical == {"malloc", "walk", "link", "unlink", "release"}

\* The threads that hold a node not yet linked.
Inserting ==
  {t \in Threads : /\ pc[t] \in {"walk", "link"}
                   /\ Op(t) \in {"insertAtBeginning", "insertAtEnd"}}

\* The threads' operations take effect one after the other, each at the moment
\* it writes its one link: at every moment the links lead through just the
\* values that the operations done so far leave, in their order; every other
\* node is free or about to be linked by an insertion. What printList prints is
\* the list of one moment. The mutex belongs to a thread in mid-operation.
Serialized ==
  /\ \A n \in 1 .. Len(contents) :
       Reached[n - 1] # NULL /\ nodes[Reached[n - 1]].data = contents[n]
  /\ Reached[Len(contents)] = NULL
  /\ DOMAIN nodes = Linked \cup {newNode[t] : t \in Inserting}
  /\ \A t \in Threads :
       /\ mutex = t <=> pc[t] \in Critical
       /\ pc[t] = "release" /\ Op(t) = "printList" => printed = contents
=============================================================================
