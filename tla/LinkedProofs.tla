---------------------------- MODULE LinkedProofs ----------------------------
(***************************************************************************)
(* Proofs about the programs of module MCPrograms that build lists and     *)
(* trees of nodes: LlistMutex.cpp, List.c and treechallenge.cpp.           *)
(***************************************************************************)
EXTENDS MCPrograms, SequenceLemmas, FiniteSetTheorems, FunctionTheorems, TLAPS

\* The variables of one program change only by a step of that program.
LEMMA Frame ==
  ASSUME [Next]_vars
  PROVE  /\ [Shared!Next]_shared
         /\ [Singly!Next]_singly
         /\ [Tree!Next]_trees
<1> USE DEF pools, sequential, concurrent
<1>1. CASE HeapAllocator BY <1>1 DEF HeapAllocator
<1>2. CASE staticmempool BY <1>2 DEF staticmempool
<1>3. CASE LeetCodeMemPool BY <1>3 DEF LeetCodeMemPool
<1>4. CASE CircularBuffer BY <1>4 DEF CircularBuffer
<1>5. CASE DynamicEventHandler BY <1>5 DEF DynamicEventHandler
<1>6. CASE TimerSystem BY <1>6 DEF TimerSystem, Timers!Next
<1>7. CASE TimerUser BY <1>7 DEF TimerUser, Timers!Next
<1>8. CASE AlignPadding BY <1>8 DEF AlignPadding
<1>9. CASE List BY <1>9 DEF List
<1>10. CASE StateMachine BY <1>10 DEF StateMachine
<1>11. CASE treechallenge BY <1>11 DEF treechallenge
<1>12. CASE LlistMutex BY <1>12 DEF LlistMutex
<1>13. CASE producer BY <1>13 DEF producer, OneCondition!Next
<1>14. CASE consumer BY <1>14 DEF consumer, OneCondition!Next
<1>15. CASE SpuriousOrJoining BY <1>15 DEF SpuriousOrJoining, OneCondition!Next
<1>16. CASE TwoThreads BY <1>16 DEF TwoThreads
<1>17. CASE bufferthread BY <1>17 DEF bufferthread
<1>18. CASE UNCHANGED vars BY <1>18 DEF vars
<1> QED
  BY SMTT(30), <1>1, <1>2, <1>3, <1>4, <1>5, <1>6, <1>7, <1>8, <1>9, <1>10, <1>11, <1>12,
     <1>13, <1>14, <1>15, <1>16, <1>17, <1>18 DEF Next
-----------------------------------------------------------------------------
(* LlistMutex.cpp                                                          *)

Places == {"idle", "wait"} \cup Shared!Critical

Cells == [data : Keys, next : Nodes \cup {NULL}]

SharedTypes ==
  /\ DOMAIN nodes \subseteq Nodes
  /\ nodes \in [DOMAIN nodes -> Cells]
  /\ pc \in [ListThreads -> Places]
  /\ call \in [ListThreads -> Shared!Requests \cup {Shared!NoCall}]
  /\ temp \in [ListThreads -> Nodes \cup {NULL}]
  /\ prev \in [ListThreads -> Nodes \cup {NULL}]
  /\ newNode \in [ListThreads -> Nodes \cup {NULL}]
  /\ printed \in Seq(Keys)
  /\ contents \in Seq(Keys)

MutexSound ==
  /\ \A t \in ListThreads : mutex = t <=> pc[t] \in Shared!Critical
  /\ mutex \in ListThreads \cup {NoThread}
  /\ mutex = NoThread => printed = << >>

\* The k-th node of the path; there is none before the first and behind the last.
NodeAt(path, k) == IF k \in 1 .. Len(contents) THEN path[k] ELSE NULL

\* The path is the list: it has the values of contents.
IsPath(path) ==
  /\ path \in [1 .. Len(contents) -> DOMAIN nodes]
  /\ \A j, k \in 1 .. Len(contents) : path[j] = path[k] => j = k
  /\ first = NodeAt(path, 1)
  /\ \A k \in 1 .. Len(contents) :
       nodes[path[k]].data = contents[k] /\ nodes[path[k]].next = NodeAt(path, k + 1)

\* All other nodes are about to be linked.
NothingElse(path) ==
  \A m : m \in DOMAIN nodes <=> \/ \E k \in 1 .. Len(contents) : m = path[k]
                                \/ \E t \in Shared!Inserting : m = newNode[t]

\* A walking thread is between two nodes of the list; it has not passed by what
\* it looks for, nor by anything that it should have printed.
StandsAt(t, path, k) == temp[t] = NodeAt(path, k) /\ prev[t] = NodeAt(path, k - 1)

NotBefore(t, k) == \A j \in 1 .. k - 1 : contents[j] # Shared!Key(t)

WalksAt(t, path, k) ==
  /\ StandsAt(t, path, k)
  /\ Shared!Op(t) = "deleteNode" => NotBefore(t, k)
  /\ Shared!Op(t) = "insertAtEnd" => k <= Len(contents) \/ Len(contents) = 0
  /\ Shared!Op(t) = "printList" =>
       Len(printed) = k - 1 /\ \A j \in 1 .. k - 1 : printed[j] = contents[j]

\* The node of an insertion is not in the list yet.
Fresh(t, path) ==
  /\ newNode[t] \in DOMAIN nodes
  /\ \A k \in 1 .. Len(contents) : newNode[t] # path[k]
  /\ nodes[newNode[t]].data = Shared!Key(t)
  /\ nodes[newNode[t]].next = IF Shared!Op(t) = "insertAtEnd" THEN NULL ELSE first

ThreadSound(t, path) ==
  /\ pc[t] # "idle" => call[t] \in Shared!Requests
  /\ pc[t] = "malloc" =>
       Shared!Op(t) \in {"insertAtBeginning", "insertAtEnd"} /\ StandsAt(t, path, 1)
  /\ pc[t] = "walk" =>
       /\ Shared!Op(t) # "insertAtBeginning"
       /\ \E k \in 1 .. Len(contents) + 1 : WalksAt(t, path, k)
  /\ pc[t] = "link" =>
       /\ Shared!Op(t) \in {"insertAtBeginning", "insertAtEnd"}
       /\ Shared!Op(t) = "insertAtEnd" => temp[t] = NodeAt(path, Len(contents))
  /\ pc[t] = "unlink" =>
       /\ Shared!Op(t) = "deleteNode"
       /\ \E k \in 1 .. Len(contents) :
            StandsAt(t, path, k) /\ NotBefore(t, k) /\ contents[k] = Shared!Key(t)
  /\ pc[t] = "release" /\ Shared!Op(t) = "printList" => printed = contents
  /\ t \in Shared!Inserting => Fresh(t, path)

Represents(path) ==
  IsPath(path) /\ NothingElse(path) /\ \A t \in ListThreads : ThreadSound(t, path)

SharedInv == SharedTypes /\ MutexSound /\ \E path : Represents(path)

\* What a path is made of.
LEMMA PathFacts ==
  ASSUME SharedTypes, NEW path, IsPath(path)
  PROVE  /\ Len(contents) \in Nat
         /\ \A k \in 1 .. Len(contents) :
              /\ path[k] \in DOMAIN nodes /\ path[k] \in Nodes /\ path[k] # NULL
              /\ contents[k] \in Keys
         /\ \A k \in Nat : NodeAt(path, k) = NULL <=> k \notin 1 .. Len(contents)
<1>1. Len(contents) \in Nat /\ \A k \in 1 .. Len(contents) : contents[k] \in Keys
  BY LenProperties, ElementOfSeq DEF SharedTypes
<1>2. \A k \in 1 .. Len(contents) :
        path[k] \in DOMAIN nodes /\ path[k] \in Nodes /\ path[k] # NULL
  BY SharedAssumption DEF IsPath, SharedTypes
<1> QED
  BY <1>1, <1>2 DEF NodeAt

\* The request of a thread.
LEMMA RequestFields ==
  ASSUME NEW request \in Shared!Requests
  PROVE  /\ request.op \in {"insertAtBeginning", "insertAtEnd", "deleteNode", "printList"}
         /\ request.op # "printList" => request.key \in Keys
BY DEF Shared!Requests

\* While one thread has the mutex, or none, the others are outside.
LEMMA OthersOutside ==
  ASSUME SharedInv, NEW t \in ListThreads, mutex \in {t, NoThread}
  PROVE  \A u \in ListThreads \ {t} : pc[u] \in {"idle", "wait"}
<1> SUFFICES ASSUME NEW u \in ListThreads \ {t} PROVE pc[u] \in {"idle", "wait"}
  OBVIOUS
<1>1. mutex # u
  BY SharedAssumption
<1>2. pc[u] \notin Shared!Critical
  BY <1>1 DEF SharedInv, MutexSound
<1> QED
  BY <1>2 DEF SharedInv, SharedTypes, Places

\* A thread outside inserts nothing.
LEMMA OutsideInsertsNothing ==
  ASSUME NEW u, pc[u] \in {"idle", "wait"}
  PROVE  u \notin Shared!Inserting
BY DEF Shared!Inserting

\* The nodes, as the owner of the mutex finds them.
LEMMA OwnersNodes ==
  ASSUME SharedInv, NEW t \in ListThreads, mutex \in {t, NoThread},
         NEW path, Represents(path)
  PROVE  \A m : m \in DOMAIN nodes <=> \/ \E k \in 1 .. Len(contents) : m = path[k]
                                       \/ t \in Shared!Inserting /\ m = newNode[t]
<1>1. \A u \in Shared!Inserting : u \in ListThreads
  BY DEF Shared!Inserting
<1>2. \A u \in Shared!Inserting : u = t
  BY <1>1, OthersOutside, OutsideInsertsNothing
<1> QED
  BY <1>2 DEF Represents, NothingElse

\* A step of the thread that has the mutex, takes it or releases it.
LEMMA OwnerSteps ==
  ASSUME SharedInv, NEW t \in ListThreads, mutex \in {t, NoThread}, SharedTypes',
         NEW place \in Places, pc' = [pc EXCEPT ![t] = place],
         mutex' = IF place \in Shared!Critical THEN t ELSE NoThread,
         place \in Shared!Critical \/ printed' = << >>,
         \A u \in ListThreads \ {t} : call'[u] = call[u],
         NEW path, IsPath(path)', ThreadSound(t, path)',
         \A m : m \in DOMAIN nodes' <=> \/ \E k \in 1 .. Len(contents') : m = path[k]
                                        \/ t \in Shared!Inserting' /\ m = newNode'[t]
  PROVE  SharedInv'
<1>1. \A u \in ListThreads \ {t} : pc[u] \in {"idle", "wait"} /\ pc'[u] = pc[u]
  BY OthersOutside DEF SharedInv, SharedTypes
<1>2. pc'[t] = place
  BY DEF SharedInv, SharedTypes
<1>3. MutexSound'
  <2>1. ASSUME NEW u \in ListThreads
        PROVE  mutex' = u <=> pc'[u] \in Shared!Critical
    <3>1. CASE u = t
      BY <1>2, <3>1, SharedAssumption
    <3>2. CASE u # t
      BY <1>1, <3>2, SharedAssumption DEF Shared!Critical
    <3> QED
      BY <3>1, <3>2
  <2> QED
    BY <2>1, SharedAssumption DEF MutexSound
<1>4. \A u \in Shared!Inserting' : u = t
  BY <1>1 DEF Shared!Inserting
<1>5. NothingElse(path)'
  BY <1>4 DEF NothingElse
<1>6. ASSUME NEW u \in ListThreads \ {t} PROVE ThreadSound(u, path)'
  <2>1. PICK before : Represents(before)
    BY DEF SharedInv
  <2>2. ThreadSound(u, before)
    BY <2>1 DEF Represents
  <2>3. pc[u] # "idle" => call[u] \in Shared!Requests
    BY <2>2 DEF ThreadSound
  <2>4. pc'[u] \in {"idle", "wait"} /\ call'[u] = call[u] /\ pc'[u] = pc[u]
    BY <1>1
  <2>5. u \notin Shared!Inserting'
    BY <1>4
  <2> QED
    BY <2>3, <2>4, <2>5 DEF ThreadSound
<1> QED
  BY <1>3, <1>5, <1>6 DEF SharedInv, Represents

\* A thread calls an operation, and waits for the mutex.
LEMMA OperationCalled ==
  ASSUME SharedInv, NEW t \in ListThreads, NEW request \in Shared!Requests,
         Shared!Call(t, request)
  PROVE  SharedInv'
<1>1. /\ pc[t] = "idle" /\ pc' = [pc EXCEPT ![t] = "wait"]
      /\ call' = [call EXCEPT ![t] = request]
      /\ UNCHANGED <<first, nodes, mutex, temp, prev, newNode, printed, contents>>
  BY DEF Shared!Call, Shared!Goto, Shared!output
<1>2. PICK path : Represents(path)
  BY DEF SharedInv
<1>3. /\ pc'[t] = "wait" /\ call'[t] = request
      /\ \A u \in ListThreads : u # t => pc'[u] = pc[u] /\ call'[u] = call[u]
  BY <1>1 DEF SharedInv, SharedTypes
<1>4. SharedTypes'
  BY <1>1 DEF SharedInv, SharedTypes, Places
<1>5. MutexSound'
  BY <1>1, <1>3 DEF SharedInv, MutexSound, Shared!Critical
<1>6. IsPath(path)'
  BY <1>1, <1>2 DEF Represents, IsPath, NodeAt
<1>7. Shared!Inserting' = Shared!Inserting
  BY <1>1, <1>3 DEF Shared!Inserting, Shared!Op
<1>8. NothingElse(path)'
  BY <1>1, <1>2, <1>7 DEF Represents, NothingElse
<1>9. ASSUME NEW u \in ListThreads PROVE ThreadSound(u, path)'
  <2>1. CASE u = t
    BY <1>3, <2>1 DEF ThreadSound, Shared!Inserting
  <2>2. CASE u # t
    <3>1. ThreadSound(u, path)
      BY <1>2 DEF Represents
    <3> QED
      BY <1>1, <1>3, <1>7, <2>2, <3>1
         DEF ThreadSound, WalksAt, StandsAt, NotBefore, NodeAt, Fresh, Shared!Op, Shared!Key
  <2> QED
    BY <2>1, <2>2
<1> QED
  BY <1>2, <1>4, <1>5, <1>6, <1>8, <1>9 DEF SharedInv, Represents

\* It gets the mutex, and stands before the first node.
LEMMA MutexTaken ==
  ASSUME SharedInv, NEW t \in ListThreads, Shared!Wait(t)
  PROVE  SharedInv'
<1>1. PICK place : place = IF Shared!Op(t) \in {"deleteNode", "printList"} THEN "walk" ELSE "malloc"
  OBVIOUS
<1>2. /\ pc[t] = "wait" /\ pc' = [pc EXCEPT ![t] = place]
      /\ mutex = NoThread /\ mutex' = t
      /\ temp' = [temp EXCEPT ![t] = first] /\ prev' = [prev EXCEPT ![t] = NULL]
      /\ UNCHANGED <<first, nodes, call, newNode, printed, contents>>
  BY <1>1 DEF Shared!Wait, Shared!Goto, Shared!output
<1>3. PICK path : Represents(path)
  BY DEF SharedInv
<1>4. /\ IsPath(path) /\ SharedTypes /\ Len(contents) \in Nat
      /\ first = NodeAt(path, 1) /\ NodeAt(path, 0) = NULL /\ first \in Nodes \cup {NULL}
  BY <1>3, PathFacts DEF SharedInv, Represents, IsPath, NodeAt
<1>5. /\ call[t] \in Shared!Requests /\ printed = << >>
      /\ Shared!Op(t) \in {"insertAtBeginning", "insertAtEnd", "deleteNode", "printList"}
  BY <1>2, <1>3, RequestFields DEF Represents, ThreadSound, SharedInv, MutexSound, Shared!Op
<1>6. pc'[t] = place /\ temp'[t] = first /\ prev'[t] = NULL
  BY <1>2, <1>4 DEF SharedTypes
<1>7. SharedTypes'
  BY <1>1, <1>2, <1>4 DEF SharedTypes, Places, Shared!Critical
<1>8. IsPath(path)'
  BY <1>2, <1>4 DEF IsPath, NodeAt
<1>9. StandsAt(t, path, 1)'
  BY <1>2, <1>4, <1>6 DEF StandsAt, NodeAt
<1>10. t \notin Shared!Inserting /\ t \notin Shared!Inserting'
  BY <1>1, <1>2, <1>6 DEF Shared!Inserting, Shared!Op
<1>11. ThreadSound(t, path)'
  <2>1. CASE place = "walk"
    <3>1. Shared!Op(t)' \in {"deleteNode", "printList"}
      BY <1>1, <1>2, <2>1 DEF Shared!Op
    <3>2. NotBefore(t, 1)'
      BY DEF NotBefore
    <3>3. Len(printed') = 1 - 1 /\ \A j \in 1 .. 1 - 1 : printed'[j] = contents'[j]
      BY <1>2, <1>5
    <3>4. WalksAt(t, path, 1)'
      BY <1>9, <3>1, <3>2, <3>3 DEF WalksAt
    <3>5. 1 \in 1 .. Len(contents') + 1
      BY <1>2, <1>4
    <3> QED
      BY <1>2, <1>5, <1>6, <1>10, <2>1, <3>1, <3>4, <3>5 DEF ThreadSound
  <2>2. CASE place = "malloc"
    <3>1. Shared!Op(t)' \in {"insertAtBeginning", "insertAtEnd"}
      BY <1>1, <1>2, <1>5, <2>2 DEF Shared!Op
    <3> QED
      BY <1>2, <1>5, <1>6, <1>9, <1>10, <2>2, <3>1 DEF ThreadSound
  <2> QED
    BY <1>1, <2>1, <2>2
<1>12. \A m : m \in DOMAIN nodes' <=> \/ \E k \in 1 .. Len(contents') : m = path[k]
                                      \/ t \in Shared!Inserting' /\ m = newNode'[t]
  BY <1>2, <1>3, <1>10, OwnersNodes
<1>13. place \in Places /\ place \in Shared!Critical
  BY <1>1 DEF Places, Shared!Critical
<1> QED
  BY <1>2, <1>7, <1>8, <1>11, <1>12, <1>13, OwnerSteps

\* It releases the mutex.
LEMMA CallReturned ==
  ASSUME SharedInv, NEW t \in ListThreads, Shared!Release(t)
  PROVE  SharedInv'
<1>1. /\ pc[t] = "release" /\ pc' = [pc EXCEPT ![t] = "idle"] /\ mutex' = NoThread
      /\ call' = [call EXCEPT ![t] = Shared!NoCall]
      /\ temp' = [temp EXCEPT ![t] = NULL] /\ prev' = [prev EXCEPT ![t] = NULL]
      /\ newNode' = [newNode EXCEPT ![t] = NULL] /\ printed' = << >>
      /\ UNCHANGED <<first, nodes, contents>>
  BY DEF Shared!Release, Shared!Goto
<1>2. PICK path : Represents(path)
  BY DEF SharedInv
<1>3. mutex = t /\ SharedTypes /\ IsPath(path)
  BY <1>1, <1>2 DEF SharedInv, MutexSound, Shared!Critical, Represents
<1>4. pc'[t] = "idle"
  BY <1>1, <1>3 DEF SharedTypes
<1>5. SharedTypes'
  BY <1>1, <1>3 DEF SharedTypes, Places
<1>6. IsPath(path)'
  BY <1>1, <1>3 DEF IsPath, NodeAt
<1>7. t \notin Shared!Inserting /\ t \notin Shared!Inserting'
  BY <1>1, <1>4 DEF Shared!Inserting
<1>8. ThreadSound(t, path)'
  BY <1>4, <1>7 DEF ThreadSound
<1>9. \A m : m \in DOMAIN nodes' <=> \/ \E k \in 1 .. Len(contents') : m = path[k]
                                     \/ t \in Shared!Inserting' /\ m = newNode'[t]
  BY <1>1, <1>2, <1>3, <1>7, OwnersNodes
<1>10. /\ "idle" \in Places /\ "idle" \notin Shared!Critical
       /\ \A u \in ListThreads \ {t} : call'[u] = call[u]
  BY <1>1, <1>3 DEF Places, Shared!Critical, SharedTypes
<1> QED
  BY <1>1, <1>3, <1>5, <1>6, <1>8, <1>9, <1>10, OwnerSteps

\* An insertion gets a node, or none.
LEMMA NodeAllocated ==
  ASSUME SharedInv, NEW t \in ListThreads, Shared!Malloc(t)
  PROVE  SharedInv'
<1>1. pc[t] = "malloc" /\ UNCHANGED <<first, mutex, call, temp, prev, printed, contents>>
  BY DEF Shared!Malloc, Shared!Goto, Shared!output, Shared!locals
<1>2. PICK path : Represents(path)
  BY DEF SharedInv
<1>3. mutex = t /\ SharedTypes /\ IsPath(path) /\ Len(contents) \in Nat
  BY <1>1, <1>2, PathFacts DEF SharedInv, MutexSound, Shared!Critical, Represents
<1>4. /\ call[t] \in Shared!Requests /\ Shared!Key(t) \in Keys
      /\ Shared!Op(t) \in {"insertAtBeginning", "insertAtEnd"} /\ StandsAt(t, path, 1)
  BY <1>1, <1>2, RequestFields DEF Represents, ThreadSound, Shared!Key, Shared!Op
<1>5. t \notin Shared!Inserting
  BY <1>1 DEF Shared!Inserting
<1>6. \A m : m \in DOMAIN nodes <=> \E k \in 1 .. Len(contents) : m = path[k]
  BY <1>2, <1>3, <1>5, OwnersNodes
<1>7. ASSUME NEW n \in Nodes \ DOMAIN nodes,
             Shared!Goto(t, "malloc", IF Shared!Op(t) = "insertAtEnd" THEN "walk" ELSE "link"),
             nodes' = [m \in DOMAIN nodes \cup {n} |->
                         IF m # n THEN nodes[m]
                         ELSE [data |-> Shared!Key(t),
                               next |-> IF Shared!Op(t) = "insertAtEnd" THEN NULL ELSE first]],
             newNode' = [newNode EXCEPT ![t] = n]
      PROVE  SharedInv'
  <2>1. PICK place : place = IF Shared!Op(t) = "insertAtEnd" THEN "walk" ELSE "link"
    OBVIOUS
  <2>2. pc' = [pc EXCEPT ![t] = place] /\ pc'[t] = place /\ newNode'[t] = n
    BY <1>3, <1>7, <2>1 DEF Shared!Goto, SharedTypes
  <2>3. first \in Nodes \cup {NULL}
    BY <1>3, PathFacts DEF IsPath, NodeAt
  <2>4. /\ DOMAIN nodes' = DOMAIN nodes \cup {n}
        /\ \A m \in DOMAIN nodes : m # n /\ nodes'[m] = nodes[m]
        /\ nodes'[n] = [data |-> Shared!Key(t),
                        next |-> IF Shared!Op(t) = "insertAtEnd" THEN NULL ELSE first]
    BY <1>7
  <2>5. nodes'[n] \in Cells
    BY <1>4, <2>3, <2>4 DEF Cells
  <2>6. nodes' \in [DOMAIN nodes' -> Cells] /\ DOMAIN nodes' \subseteq Nodes
    <3>1. \A m \in DOMAIN nodes' : nodes'[m] \in Cells
      BY <1>3, <2>4, <2>5 DEF SharedTypes
    <3> QED
      BY <1>3, <1>7, <3>1 DEF SharedTypes
  <2>7. SharedTypes'
    BY <1>1, <1>3, <1>7, <2>1, <2>2, <2>6 DEF SharedTypes, Places, Shared!Critical
  <2>8. \A k \in 1 .. Len(contents) : path[k] \in DOMAIN nodes
    BY <1>3, PathFacts
  <2>9. IsPath(path)'
    <3>1. path \in [1 .. Len(contents) -> DOMAIN nodes']
      BY <1>3, <2>4, <2>8 DEF IsPath
    <3> QED
      BY <1>1, <1>3, <2>4, <2>8, <3>1 DEF IsPath, NodeAt
  <2>10. t \in Shared!Inserting'
    BY <1>1, <1>4, <2>1, <2>2 DEF Shared!Inserting, Shared!Op
  <2>11. Fresh(t, path)'
    BY <1>1, <2>2, <2>4, <2>8 DEF Fresh, Shared!Op, Shared!Key
  <2>12. StandsAt(t, path, 1)'
    BY <1>1, <1>4 DEF StandsAt, NodeAt
  <2>13. Shared!Op(t)' = Shared!Op(t)
    BY <1>1 DEF Shared!Op
  <2>14. ThreadSound(t, path)'
    <3>1. CASE place = "walk"
      <4>1. Shared!Op(t)' = "insertAtEnd"
        BY <2>1, <2>13, <3>1
      <4>2. 1 \in 1 .. Len(contents') + 1 /\ (1 <= Len(contents') \/ Len(contents') = 0)
        BY <1>1, <1>3
      <4>3. WalksAt(t, path, 1)'
        BY <2>12, <4>1, <4>2 DEF WalksAt
      <4> QED
        BY <1>1, <1>4, <2>2, <2>11, <3>1, <4>1, <4>2, <4>3 DEF ThreadSound
    <3>2. CASE place = "link"
      <4>1. Shared!Op(t)' = "insertAtBeginning"
        BY <1>4, <2>1, <2>13, <3>2
      <4> QED
        BY <1>1, <1>4, <2>2, <2>11, <3>2, <4>1 DEF ThreadSound
    <3> QED
      BY <2>1, <3>1, <3>2
  <2>15. \A m : m \in DOMAIN nodes' <=> \/ \E k \in 1 .. Len(contents') : m = path[k]
                                        \/ t \in Shared!Inserting' /\ m = newNode'[t]
    BY <1>1, <1>6, <2>2, <2>4, <2>10
  <2>16. place \in Places /\ place \in Shared!Critical
    BY <2>1 DEF Places, Shared!Critical
  <2> QED
    BY <1>1, <1>3, <2>2, <2>7, <2>9, <2>14, <2>15, <2>16, OwnerSteps
<1>8. ASSUME Shared!Goto(t, "malloc", "release"), UNCHANGED <<nodes, newNode>>
      PROVE  SharedInv'
  <2>1. pc' = [pc EXCEPT ![t] = "release"] /\ pc'[t] = "release"
    BY <1>3, <1>8 DEF Shared!Goto, SharedTypes
  <2>2. SharedTypes'
    BY <1>1, <1>3, <1>8, <2>1 DEF SharedTypes, Places, Shared!Critical
  <2>3. IsPath(path)'
    BY <1>1, <1>3, <1>8 DEF IsPath, NodeAt
  <2>4. t \notin Shared!Inserting' /\ Shared!Op(t)' # "printList"
    BY <1>1, <1>4, <2>1 DEF Shared!Inserting, Shared!Op
  <2>5. ThreadSound(t, path)'
    BY <1>1, <1>4, <2>1, <2>4 DEF ThreadSound
  <2>6. \A m : m \in DOMAIN nodes' <=> \/ \E k \in 1 .. Len(contents') : m = path[k]
                                       \/ t \in Shared!Inserting' /\ m = newNode'[t]
    BY <1>1, <1>6, <1>8, <2>4
  <2>7. "release" \in Places /\ "release" \in Shared!Critical
    BY DEF Places, Shared!Critical
  <2> QED
    BY <1>1, <1>3, <2>1, <2>2, <2>3, <2>5, <2>6, <2>7, OwnerSteps
<1> QED
  BY <1>7, <1>8 DEF Shared!Malloc, Shared!locals

\* A thread walks on from a node that is not what it looks for.
LEMMA WalkedOn ==
  ASSUME SharedInv, NEW t \in ListThreads, Shared!Walk(t)
  PROVE  SharedInv'
<1>1. /\ pc[t] = "walk" /\ ~Shared!Arrived(t)
      /\ prev' = [prev EXCEPT ![t] = temp[t]]
      /\ temp' = [temp EXCEPT ![t] = nodes[temp[t]].next]
      /\ printed' = IF Shared!Op(t) = "printList"
                    THEN Append(printed, nodes[temp[t]].data) ELSE printed
      /\ UNCHANGED <<first, nodes, mutex, pc, call, newNode, contents>>
  BY DEF Shared!Walk
<1>2. PICK path : Represents(path)
  BY DEF SharedInv
<1>3. mutex = t /\ SharedTypes /\ IsPath(path) /\ Len(contents) \in Nat
  BY <1>1, <1>2, PathFacts DEF SharedInv, MutexSound, Shared!Critical, Represents
<1>4. /\ call[t] \in Shared!Requests /\ ThreadSound(t, path)
      /\ Shared!Op(t) \in {"insertAtEnd", "deleteNode", "printList"}
  BY <1>1, <1>2, RequestFields DEF Represents, ThreadSound, Shared!Op
<1>5. PICK k \in 1 .. Len(contents) + 1 : WalksAt(t, path, k)
  BY <1>1, <1>4 DEF ThreadSound
<1>6. /\ temp[t] # NULL
      /\ Shared!Op(t) = "deleteNode" => nodes[temp[t]].data # Shared!Key(t)
      /\ Shared!Op(t) = "insertAtEnd" => nodes[temp[t]].next # NULL
  <2>1. CASE Shared!Op(t) = "deleteNode"
    BY <1>1, <2>1 DEF Shared!Arrived, Shared!Found
  <2>2. CASE Shared!Op(t) = "insertAtEnd"
    BY <1>1, <2>2 DEF Shared!Arrived, Shared!AtEnd
  <2>3. CASE Shared!Op(t) = "printList"
    BY <1>1, <2>3 DEF Shared!Arrived
  <2> QED
    BY <1>4, <2>1, <2>2, <2>3
<1>7. k \in 1 .. Len(contents) /\ temp[t] = path[k]
  BY <1>5, <1>6 DEF WalksAt, StandsAt, NodeAt
<1>8. /\ nodes[temp[t]].data = contents[k] /\ contents[k] \in Keys
      /\ nodes[temp[t]].next = NodeAt(path, k + 1)
      /\ path[k] \in Nodes
  BY <1>3, <1>7, PathFacts DEF IsPath
<1>9. NodeAt(path, k + 1) \in Nodes \cup {NULL} /\ NodeAt(path, k) = path[k]
  BY <1>3, <1>7, PathFacts DEF NodeAt
<1>10. /\ pc' = [pc EXCEPT ![t] = "walk"]
       /\ temp'[t] = NodeAt(path, k + 1) /\ prev'[t] = NodeAt(path, k)
  BY <1>1, <1>3, <1>7, <1>8, <1>9 DEF SharedTypes
<1>11. Shared!Op(t) = "printList" =>
         /\ printed' \in Seq(Keys) /\ Len(printed') = k
         /\ \A j \in 1 .. k : printed'[j] = contents[j]
  <2> SUFFICES ASSUME Shared!Op(t) = "printList"
               PROVE  /\ printed' \in Seq(Keys) /\ Len(printed') = k
                      /\ \A j \in 1 .. k : printed'[j] = contents[j]
    OBVIOUS
  <2>1. printed' = Append(printed, contents[k]) /\ printed \in Seq(Keys)
    BY <1>1, <1>3, <1>8 DEF SharedTypes
  <2>2. Len(printed) = k - 1 /\ \A j \in 1 .. k - 1 : printed[j] = contents[j]
    BY <1>5 DEF WalksAt
  <2>3. /\ printed' \in Seq(Keys) /\ Len(printed') = Len(printed) + 1
        /\ \A j \in 1 .. Len(printed) : printed'[j] = printed[j]
        /\ printed'[Len(printed) + 1] = contents[k]
    BY <1>8, <2>1, AppendProperties
  <2>4. (k - 1) + 1 = k /\ \A j \in 1 .. k : j \in 1 .. k - 1 \/ j = k
    BY <1>7
  <2> QED
    BY <2>2, <2>3, <2>4
<1>12. SharedTypes'
  <2>1. printed' \in Seq(Keys)
    BY <1>1, <1>3, <1>11 DEF SharedTypes
  <2>2. temp' \in [ListThreads -> Nodes \cup {NULL}] /\ prev' \in [ListThreads -> Nodes \cup {NULL}]
    BY <1>1, <1>3, <1>7, <1>8, <1>9 DEF SharedTypes
  <2> QED
    BY <1>1, <1>3, <2>1, <2>2 DEF SharedTypes
<1>13. IsPath(path)'
  BY <1>1, <1>3 DEF IsPath, NodeAt
<1>14. (t \in Shared!Inserting' <=> t \in Shared!Inserting) /\ (Fresh(t, path) => Fresh(t, path)')
  BY <1>1 DEF Shared!Inserting, Shared!Op, Shared!Key, Fresh
<1>15. WalksAt(t, path, k + 1)'
  <2>1. StandsAt(t, path, k + 1)'
    <3>1. (k + 1) - 1 = k
      BY <1>7
    <3> QED
      BY <1>1, <1>10, <3>1 DEF StandsAt, NodeAt
  <2>2. Shared!Op(t)' = "deleteNode" => NotBefore(t, k + 1)'
    <3>1. SUFFICES ASSUME Shared!Op(t) = "deleteNode", NEW j \in 1 .. (k + 1) - 1
                   PROVE  contents[j] # Shared!Key(t)
      BY <1>1 DEF NotBefore, Shared!Op, Shared!Key
    <3>2. j \in 1 .. k - 1 \/ j = k
      BY <1>7
    <3> QED
      BY <1>5, <1>6, <1>8, <3>1, <3>2 DEF WalksAt, NotBefore
  <2>3. Shared!Op(t)' = "insertAtEnd" => k + 1 <= Len(contents')
    <3>1. SUFFICES ASSUME Shared!Op(t) = "insertAtEnd" PROVE k + 1 <= Len(contents)
      BY <1>1 DEF Shared!Op
    <3>2. NodeAt(path, k + 1) # NULL
      BY <1>6, <1>8, <3>1
    <3> QED
      BY <3>2 DEF NodeAt
  <2>4. Shared!Op(t)' = "printList" =>
          /\ Len(printed') = (k + 1) - 1
          /\ \A j \in 1 .. (k + 1) - 1 : printed'[j] = contents'[j]
    <3>1. (k + 1) - 1 = k
      BY <1>7
    <3> QED
      BY <1>1, <1>11, <3>1 DEF Shared!Op
  <2> QED
    BY <2>1, <2>2, <2>3, <2>4 DEF WalksAt
<1>16. ThreadSound(t, path)'
  <2>1. k + 1 \in 1 .. Len(contents') + 1
    BY <1>1, <1>3, <1>7
  <2>2. Shared!Op(t)' # "insertAtBeginning"
    BY <1>1, <1>4 DEF Shared!Op
  <2>3. t \in Shared!Inserting' => Fresh(t, path)'
    BY <1>4, <1>14 DEF ThreadSound
  <2> QED
    BY <1>1, <1>4, <1>15, <2>1, <2>2, <2>3 DEF ThreadSound
<1>17. \A m : m \in DOMAIN nodes' <=> \/ \E j \in 1 .. Len(contents') : m = path[j]
                                      \/ t \in Shared!Inserting' /\ m = newNode'[t]
  BY <1>1, <1>2, <1>3, <1>14, OwnersNodes
<1>18. "walk" \in Places /\ "walk" \in Shared!Critical
  BY DEF Places, Shared!Critical
<1> QED
  BY <1>1, <1>3, <1>10, <1>12, <1>13, <1>16, <1>17, <1>18, OwnerSteps

\* A thread has found its node, or the end of the list.
LEMMA WalkEnded ==
  ASSUME SharedInv, NEW t \in ListThreads, Shared!WalkEnds(t)
  PROVE  SharedInv'
<1>1. PICK place : place = IF Shared!Op(t) = "insertAtEnd" THEN "link"
                             ELSE IF temp[t] # NULL THEN "unlink" ELSE "release"
  OBVIOUS
<1>2. /\ pc[t] = "walk" /\ pc' = [pc EXCEPT ![t] = place] /\ Shared!Arrived(t)
      /\ UNCHANGED <<first, nodes, mutex, call, temp, prev, newNode, printed, contents>>
  BY <1>1 DEF Shared!WalkEnds, Shared!Goto, Shared!locals, Shared!output
<1>3. PICK path : Represents(path)
  BY DEF SharedInv
<1>4. mutex = t /\ SharedTypes /\ IsPath(path) /\ Len(contents) \in Nat
  BY <1>2, <1>3, PathFacts DEF SharedInv, MutexSound, Shared!Critical, Represents
<1>5. /\ call[t] \in Shared!Requests /\ ThreadSound(t, path)
      /\ Shared!Op(t) \in {"insertAtEnd", "deleteNode", "printList"}
  BY <1>2, <1>3, RequestFields DEF Represents, ThreadSound, Shared!Op
<1>6. PICK k \in 1 .. Len(contents) + 1 : WalksAt(t, path, k)
  BY <1>2, <1>5 DEF ThreadSound
<1>7. temp[t] = NodeAt(path, k) /\ (temp[t] = NULL <=> k = Len(contents) + 1)
  BY <1>4, <1>6, PathFacts DEF WalksAt, StandsAt
<1>8. place \in {"link", "unlink", "release"} /\ place \in Places /\ place \in Shared!Critical
  BY <1>1 DEF Places, Shared!Critical
<1>9. pc'[t] = place
  BY <1>2, <1>4 DEF SharedTypes
<1>10. SharedTypes'
  BY <1>2, <1>4, <1>8 DEF SharedTypes
<1>11. IsPath(path)'
  BY <1>2, <1>4 DEF IsPath, NodeAt
<1>12. Shared!Op(t)' = Shared!Op(t) /\ Shared!Key(t)' = Shared!Key(t)
  BY <1>2 DEF Shared!Op, Shared!Key
<1>13. (t \in Shared!Inserting' <=> t \in Shared!Inserting) /\ (Fresh(t, path) => Fresh(t, path)')
  <2>1. t \in Shared!Inserting <=> Shared!Op(t) = "insertAtEnd"
    BY <1>2, <1>5 DEF Shared!Inserting
  <2>2. t \in Shared!Inserting' <=> Shared!Op(t) = "insertAtEnd"
    <3>1. Shared!Op(t) = "insertAtEnd" => pc'[t] = "link"
      BY <1>1, <1>9
    <3> QED
      BY <1>5, <1>12, <3>1 DEF Shared!Inserting
  <2> QED
    BY <1>2, <1>12, <2>1, <2>2 DEF Fresh
<1>14. ASSUME Shared!Op(t) = "insertAtEnd" PROVE ThreadSound(t, path)'
  <2>1. place = "link"
    BY <1>1, <1>14
  <2>2. temp[t] = NodeAt(path, Len(contents))
    <3>1. CASE temp[t] = NULL
      BY <1>4, <1>6, <1>7, <1>14, <3>1 DEF WalksAt, NodeAt
    <3>2. CASE temp[t] # NULL
      <4>1. nodes[temp[t]].next = NULL
        BY <1>2, <1>14, <3>2 DEF Shared!Arrived, Shared!AtEnd
      <4>2. k \in 1 .. Len(contents) /\ temp[t] = path[k]
        BY <1>6, <1>7, <3>2 DEF NodeAt
      <4>3. NodeAt(path, k + 1) = NULL
        BY <1>4, <4>1, <4>2 DEF IsPath
      <4>4. k = Len(contents)
        BY <1>4, <4>2, <4>3, PathFacts
      <4> QED
        BY <1>7, <4>4
    <3> QED
      BY <3>1, <3>2
  <2>3. ThreadSound(t, path)'
    <3>1. temp'[t] = NodeAt(path, Len(contents))'
      BY <1>2, <2>2 DEF NodeAt
    <3>2. t \in Shared!Inserting' => Fresh(t, path)'
      BY <1>5, <1>13 DEF ThreadSound
    <3> QED
      BY <1>2, <1>5, <1>9, <1>12, <1>14, <2>1, <3>1, <3>2 DEF ThreadSound
  <2> QED
    BY <2>3
<1>15. ASSUME Shared!Op(t) = "deleteNode", temp[t] # NULL PROVE ThreadSound(t, path)'
  <2>1. place = "unlink"
    BY <1>1, <1>15
  <2>2. k \in 1 .. Len(contents) /\ temp[t] = path[k]
    BY <1>6, <1>7, <1>15 DEF NodeAt
  <2>3. nodes[temp[t]].data = Shared!Key(t)
    BY <1>2, <1>15 DEF Shared!Arrived, Shared!Found
  <2>4. contents[k] = Shared!Key(t) /\ NotBefore(t, k) /\ StandsAt(t, path, k)
    BY <1>4, <1>6, <1>15, <2>2, <2>3 DEF IsPath, WalksAt
  <2>5. t \notin Shared!Inserting'
    BY <1>12, <1>15 DEF Shared!Inserting
  <2>6. contents'[k] = Shared!Key(t)' /\ NotBefore(t, k)' /\ StandsAt(t, path, k)'
    BY <1>2, <1>12, <2>4 DEF NotBefore, StandsAt, NodeAt
  <2> QED
    BY <1>2, <1>5, <1>9, <1>12, <1>15, <2>1, <2>2, <2>5, <2>6 DEF ThreadSound
<1>16. ASSUME Shared!Op(t) # "insertAtEnd", temp[t] = NULL PROVE ThreadSound(t, path)'
  <2>1. place = "release" /\ k = Len(contents) + 1
    BY <1>1, <1>7, <1>16
  <2>2. ASSUME Shared!Op(t) = "printList" PROVE printed = contents
    <3>1. Len(printed) = Len(contents) /\ \A j \in 1 .. Len(contents) : printed[j] = contents[j]
      BY <1>4, <1>6, <2>1, <2>2 DEF WalksAt
    <3>2. printed \in Seq(Keys) /\ contents \in Seq(Keys)
      BY <1>4 DEF SharedTypes
    <3> QED
      BY <3>1, <3>2, SeqEqual
  <2>3. t \notin Shared!Inserting'
    BY <1>9, <2>1 DEF Shared!Inserting
  <2> QED
    BY <1>2, <1>5, <1>9, <1>12, <2>1, <2>2, <2>3 DEF ThreadSound
<1>17. ThreadSound(t, path)'
  <2>1. Shared!Op(t) = "printList" => temp[t] = NULL
    BY <1>2 DEF Shared!Arrived
  <2> QED
    BY <1>5, <1>14, <1>15, <1>16, <2>1
<1>18. \A m : m \in DOMAIN nodes' <=> \/ \E j \in 1 .. Len(contents') : m = path[j]
                                      \/ t \in Shared!Inserting' /\ m = newNode'[t]
  BY <1>2, <1>3, <1>4, <1>13, OwnersNodes
<1> QED
  BY <1>2, <1>4, <1>8, <1>10, <1>11, <1>17, <1>18, OwnerSteps

\* The link of an insertion is written: the path gets longer at either end.
LEMMA NodeLinked ==
  ASSUME SharedInv, NEW t \in ListThreads, Shared!Link(t)
  PROVE  SharedInv'
<1>1. /\ pc[t] = "link" /\ pc' = [pc EXCEPT ![t] = "release"]
      /\ UNCHANGED <<mutex, call, temp, prev, newNode, printed>>
  BY DEF Shared!Link, Shared!Goto, Shared!locals
<1>2. PICK path : Represents(path)
  BY DEF SharedInv
<1>3. mutex = t /\ SharedTypes /\ IsPath(path)
  BY <1>1, <1>2 DEF SharedInv, MutexSound, Shared!Critical, Represents
<1>4. PICK n \in Nat : n = Len(contents)
  BY <1>3, PathFacts
<1>5. PICK key \in Keys : key = Shared!Key(t)
  BY <1>1, <1>2, RequestFields DEF Represents, ThreadSound, Shared!Op, Shared!Key
<1>6. /\ call[t] \in Shared!Requests /\ ThreadSound(t, path)
      /\ Shared!Op(t) \in {"insertAtBeginning", "insertAtEnd"}
      /\ t \in Shared!Inserting /\ Fresh(t, path)
      /\ Shared!Op(t) = "insertAtEnd" => temp[t] = NodeAt(path, n)
  BY <1>1, <1>2, <1>4 DEF Represents, ThreadSound, Shared!Inserting
<1>7. PICK new \in DOMAIN nodes :
        /\ new = newNode[t] /\ new \in Nodes
        /\ \A k \in 1 .. n : new # path[k]
        /\ nodes[new].data = key
        /\ nodes[new].next = IF Shared!Op(t) = "insertAtEnd" THEN NULL ELSE first
  BY <1>3, <1>4, <1>5, <1>6 DEF Fresh, SharedTypes
<1>8. /\ path \in [1 .. n -> DOMAIN nodes]
      /\ \A j, k \in 1 .. n : path[j] = path[k] => j = k
      /\ \A k \in 1 .. n : /\ path[k] \in DOMAIN nodes /\ contents[k] \in Keys
                           /\ nodes[path[k]].data = contents[k]
                           /\ nodes[path[k]].next = IF k = n THEN NULL ELSE path[k + 1]
      /\ first = IF n = 0 THEN NULL ELSE path[1]
      /\ n # 0 => first # NULL
  BY <1>3, <1>4, PathFacts DEF IsPath, NodeAt
<1>9. \A m : m \in DOMAIN nodes <=> (\E k \in 1 .. n : m = path[k]) \/ m = new
  BY <1>2, <1>3, <1>4, <1>6, <1>7, OwnersNodes
<1>10. ASSUME NEW longer \in [1 .. n + 1 -> DOMAIN nodes],
              \A m \in DOMAIN nodes : \E k \in 1 .. n + 1 : m = longer[k],
              \A j, k \in 1 .. n + 1 : longer[j] = longer[k] => j = k,
              nodes' \in [DOMAIN nodes -> Cells],
              contents' \in Seq(Keys), Len(contents') = n + 1,
              first' = longer[1],
              \A k \in 1 .. n + 1 :
                /\ nodes'[longer[k]].data = contents'[k]
                /\ nodes'[longer[k]].next = IF k = n + 1 THEN NULL ELSE longer[k + 1]
       PROVE  SharedInv'
  <2>1. SharedTypes'
    BY <1>1, <1>3, <1>10 DEF SharedTypes, Places, Shared!Critical
  <2>2. IsPath(longer)'
    <3>1. DOMAIN nodes' = DOMAIN nodes
      BY <1>10
    <3>2. \A k \in 1 .. n + 1 : NodeAt(longer, k + 1)' = IF k = n + 1 THEN NULL ELSE longer[k + 1]
      BY <1>10 DEF NodeAt
    <3>3. NodeAt(longer, 1)' = longer[1]
      BY <1>10 DEF NodeAt
    <3> QED
      <4>1. /\ 1 .. Len(contents') = 1 .. n + 1
            /\ longer \in [1 .. Len(contents') -> DOMAIN nodes']
        BY <1>10, <3>1
      <4>2. first' = NodeAt(longer, 1)'
        BY <1>10, <3>3
      <4>3. \A k \in 1 .. n + 1 :
              /\ nodes'[longer[k]].data = contents'[k]
              /\ nodes'[longer[k]].next = NodeAt(longer, k + 1)'
        BY <1>10, <3>2
      <4> QED
        BY <1>10, <4>1, <4>2, <4>3 DEF IsPath
  <2>3. pc'[t] = "release" /\ Shared!Op(t)' # "printList"
    BY <1>1, <1>3, <1>6 DEF SharedTypes, Shared!Op
  <2>4. t \notin Shared!Inserting'
    BY <2>3 DEF Shared!Inserting
  <2>5. ThreadSound(t, longer)'
    BY <1>1, <1>6, <2>3, <2>4 DEF ThreadSound
  <2>6. \A m : m \in DOMAIN nodes' <=> \/ \E k \in 1 .. Len(contents') : m = longer[k]
                                       \/ t \in Shared!Inserting' /\ m = newNode'[t]
    BY <1>10, <2>4
  <2>7. "release" \in Places /\ "release" \in Shared!Critical
    BY DEF Places, Shared!Critical
  <2> QED
    BY <1>1, <1>3, <2>1, <2>2, <2>5, <2>6, <2>7, OwnerSteps
<1>11. CASE Shared!Op(t) = "insertAtBeginning"
  <2>1. first' = new /\ nodes' = nodes /\ contents' = <<key>> \o contents
    BY <1>5, <1>7, <1>11 DEF Shared!Link
  <2>2. /\ contents' \in Seq(Keys) /\ Len(contents') = n + 1 /\ contents'[1] = key
        /\ \A k \in 2 .. n + 1 : contents'[k] = contents[k - 1]
    BY <1>3, <1>4, <2>1 DEF SharedTypes
  <2> DEFINE longer == [k \in 1 .. n + 1 |-> IF k = 1 THEN new ELSE path[k - 1]]
  <2>3. \A k \in 2 .. n + 1 : k - 1 \in 1 .. n /\ k # 1 /\ longer[k] = path[k - 1]
    BY <1>4
  <2>4. longer[1] = new /\ \A k \in 1 .. n + 1 : k = 1 \/ k \in 2 .. n + 1
    BY <1>4
  <2>5. longer \in [1 .. n + 1 -> DOMAIN nodes]
    BY <1>8
  <2> HIDE DEF longer
  <2>6. \A j, k \in 1 .. n + 1 : longer[j] = longer[k] => j = k
    <3> SUFFICES ASSUME NEW j \in 1 .. n + 1, NEW k \in 1 .. n + 1, longer[j] = longer[k]
                 PROVE  j = k
      OBVIOUS
    <3>1. CASE j = 1 \/ k = 1
      BY <1>7, <2>3, <2>4, <3>1
    <3>2. CASE j \in 2 .. n + 1 /\ k \in 2 .. n + 1
      <4>1. j - 1 = k - 1
        BY <1>8, <2>3, <3>2
      <4> QED
        BY <3>2, <4>1
    <3> QED
      BY <2>4, <3>1, <3>2
  <2>7. \A m \in DOMAIN nodes : \E k \in 1 .. n + 1 : m = longer[k]
    <3> SUFFICES ASSUME NEW m \in DOMAIN nodes PROVE \E k \in 1 .. n + 1 : m = longer[k]
      OBVIOUS
    <3>1. CASE m = new
      BY <2>4, <3>1
    <3>2. ASSUME NEW k \in 1 .. n, m = path[k] PROVE \E j \in 1 .. n + 1 : m = longer[j]
      <4>1. k + 1 \in 2 .. n + 1 /\ k + 1 \in 1 .. n + 1 /\ (k + 1) - 1 = k
        OBVIOUS
      <4> QED
        BY <2>3, <3>2, <4>1
    <3> QED
      BY <1>9, <3>1, <3>2
  <2>8. ASSUME NEW k \in 1 .. n + 1
        PROVE  /\ nodes'[longer[k]].data = contents'[k]
               /\ nodes'[longer[k]].next = IF k = n + 1 THEN NULL ELSE longer[k + 1]
    <3>1. CASE k = 1
      <4>1. n # 0 => 2 \in 2 .. n + 1 /\ longer[2] = path[1]
        BY <2>3
      <4> QED
        BY <1>7, <1>8, <1>11, <2>1, <2>2, <2>4, <3>1, <4>1
    <3>2. CASE k \in 2 .. n + 1
      <4>1. PICK j \in 1 .. n : j = k - 1 /\ longer[k] = path[j] /\ contents'[k] = contents[j]
        BY <2>2, <2>3, <3>2
      <4>2. j # n => k + 1 \in 2 .. n + 1 /\ longer[k + 1] = path[j + 1]
        <5>1. j # n => k + 1 \in 2 .. n + 1 /\ (k + 1) - 1 = j + 1
          BY <3>2, <4>1
        <5> QED
          BY <2>3, <5>1
      <4>3. j = n <=> k = n + 1
        BY <3>2, <4>1
      <4> QED
        BY <1>8, <2>1, <4>1, <4>2, <4>3
    <3> QED
      BY <2>4, <3>1, <3>2
  <2> QED
    BY <1>3, <1>10, <2>1, <2>2, <2>4, <2>5, <2>6, <2>7, <2>8 DEF SharedTypes
<1>12. CASE Shared!Op(t) = "insertAtEnd"
  <2>1. contents' = Append(contents, key)
    BY <1>5, <1>12 DEF Shared!Link
  <2>2. /\ contents' \in Seq(Keys) /\ Len(contents') = n + 1 /\ contents'[n + 1] = key
        /\ \A k \in 1 .. n : contents'[k] = contents[k]
    <3>1. contents \in Seq(Keys)
      BY <1>3 DEF SharedTypes
    <3> QED
      BY <1>4, <2>1, <3>1, AppendProperties
  <2> DEFINE longer == [k \in 1 .. n + 1 |-> IF k = n + 1 THEN new ELSE path[k]]
  <2>3. \A k \in 1 .. n : k \in 1 .. n + 1 /\ k # n + 1 /\ longer[k] = path[k]
    BY <1>4
  <2>4. longer[n + 1] = new /\ \A k \in 1 .. n + 1 : k = n + 1 \/ k \in 1 .. n
    BY <1>4
  <2>5. longer \in [1 .. n + 1 -> DOMAIN nodes]
    BY <1>8
  <2> HIDE DEF longer
  <2>6. \A j, k \in 1 .. n + 1 : longer[j] = longer[k] => j = k
    BY <1>7, <1>8, <2>3, <2>4
  <2>7. \A m \in DOMAIN nodes : \E k \in 1 .. n + 1 : m = longer[k]
    BY <1>9, <2>3, <2>4
  <2>8. /\ first' = longer[1]
        /\ nodes' \in [DOMAIN nodes -> Cells]
        /\ nodes'[new] = nodes[new]
        /\ \A k \in 1 .. n :
             /\ nodes'[path[k]].data = nodes[path[k]].data
             /\ nodes'[path[k]].next = IF k = n THEN new ELSE nodes[path[k]].next
    <3>1. CASE first = NULL
      <4>1. n = 0
        BY <1>8, <3>1
      <4>2. first' = new /\ nodes' = nodes
        BY <1>7, <1>12, <3>1 DEF Shared!Link
      <4> QED
        BY <1>3, <2>4, <4>1, <4>2 DEF SharedTypes
    <3>2. CASE first # NULL
      <4>1. n \in 1 .. n /\ first = path[1] /\ temp[t] = path[n]
        BY <1>4, <1>6, <1>8, <1>12, <3>2 DEF NodeAt
      <4>2. first' = first /\ nodes' = [nodes EXCEPT ![path[n]].next = new]
        BY <1>7, <1>12, <3>2, <4>1 DEF Shared!Link
      <4>3. \A m \in DOMAIN nodes : nodes[m] \in Cells
        BY <1>3 DEF SharedTypes
      <4>4. /\ path[n] \in DOMAIN nodes /\ nodes[path[n]] \in Cells
            /\ nodes' = [nodes EXCEPT ![path[n]] = [nodes[path[n]] EXCEPT !.next = new]]
        BY <1>8, <4>1, <4>2, <4>3
      <4>5. PICK cell : cell = [nodes[path[n]] EXCEPT !.next = new]
        OBVIOUS
      <4>6. cell \in Cells /\ cell.next = new /\ cell.data = nodes[path[n]].data
        BY <1>7, <4>4, <4>5 DEF Cells
      <4>7. nodes \in [DOMAIN nodes -> Cells] /\ nodes' = [nodes EXCEPT ![path[n]] = cell]
        BY <1>3, <4>4, <4>5 DEF SharedTypes
      <4>8. nodes' \in [DOMAIN nodes -> Cells] /\ nodes'[path[n]] = cell
        BY <4>4, <4>6, <4>7
      <4>9. \A m \in DOMAIN nodes : m # path[n] => nodes'[m] = nodes[m]
        BY <4>7
      <4>10. 1 \in 1 .. n /\ longer[1] = path[1]
        BY <1>4, <2>3, <4>1
      <4> QED
        BY <1>7, <1>8, <4>1, <4>2, <4>6, <4>8, <4>9, <4>10
    <3> QED
      BY <3>1, <3>2
  <2>9. ASSUME NEW k \in 1 .. n + 1
        PROVE  /\ nodes'[longer[k]].data = contents'[k]
               /\ nodes'[longer[k]].next = IF k = n + 1 THEN NULL ELSE longer[k + 1]
    <3>1. CASE k = n + 1
      BY <1>7, <1>12, <2>2, <2>4, <2>8, <3>1
    <3>2. CASE k \in 1 .. n
      <4>1. k # n => k + 1 \in 1 .. n /\ longer[k + 1] = path[k + 1]
        BY <2>3, <3>2
      <4> QED
        BY <1>8, <2>2, <2>3, <2>4, <2>8, <3>2, <4>1
    <3> QED
      BY <2>4, <3>1, <3>2
  <2> QED
    BY <1>10, <2>2, <2>5, <2>6, <2>7, <2>8, <2>9
<1> QED
  BY <1>6, <1>11, <1>12

\* A node is taken out of the list and freed: the path gets shorter.
LEMMA NodeUnlinked ==
  ASSUME SharedInv, NEW t \in ListThreads, Shared!Unlink(t)
  PROVE  SharedInv'
<1>1. /\ pc[t] = "unlink" /\ pc' = [pc EXCEPT ![t] = "release"]
      /\ UNCHANGED <<mutex, call, temp, prev, newNode, printed>>
  BY DEF Shared!Unlink, Shared!Goto, Shared!locals
<1>2. PICK path : Represents(path)
  BY DEF SharedInv
<1>3. mutex = t /\ SharedTypes /\ IsPath(path)
  BY <1>1, <1>2 DEF SharedInv, MutexSound, Shared!Critical, Represents
<1>4. PICK n \in Nat : n = Len(contents)
  BY <1>3, PathFacts
<1>5. call[t] \in Shared!Requests /\ Shared!Op(t) = "deleteNode"
  BY <1>1, <1>2 DEF Represents, ThreadSound
<1>6. PICK k \in 1 .. n : /\ StandsAt(t, path, k) /\ NotBefore(t, k)
                          /\ contents[k] = Shared!Key(t)
  BY <1>1, <1>2, <1>4 DEF Represents, ThreadSound
<1>7. /\ path \in [1 .. n -> DOMAIN nodes]
      /\ \A j, m \in 1 .. n : path[j] = path[m] => j = m
      /\ \A j \in 1 .. n : /\ path[j] \in DOMAIN nodes
                           /\ nodes[path[j]].data = contents[j]
                           /\ nodes[path[j]].next = IF j = n THEN NULL ELSE path[j + 1]
      /\ first = path[1]
      /\ temp[t] = path[k] /\ (k # 1 => prev[t] = path[k - 1])
  <2>1. \A j \in 1 .. n : path[j] \in DOMAIN nodes
    BY <1>3, <1>4, PathFacts
  <2>2. \A j \in 1 .. n : NodeAt(path, j) = path[j]
    BY <1>4 DEF NodeAt
  <2>3. \A j \in 1 .. n : NodeAt(path, j + 1) = IF j = n THEN NULL ELSE path[j + 1]
    BY <1>4 DEF NodeAt
  <2>4. \A j \in 1 .. n : nodes[path[j]].data = contents[j] /\ nodes[path[j]].next = NodeAt(path, j + 1)
    BY <1>3, <1>4 DEF IsPath
  <2>5. 1 \in 1 .. n /\ first = path[1]
    BY <1>3, <1>4, <2>2 DEF IsPath
  <2>6. temp[t] = path[k] /\ (k # 1 => prev[t] = path[k - 1])
    <3>1. k # 1 => k - 1 \in 1 .. n
      OBVIOUS
    <3> QED
      BY <1>6, <2>2, <3>1 DEF StandsAt
  <2>7. path \in [1 .. n -> DOMAIN nodes] /\ \A j, m \in 1 .. n : path[j] = path[m] => j = m
    BY <1>3, <1>4 DEF IsPath
  <2> QED
    BY <2>1, <2>3, <2>4, <2>5, <2>6, <2>7
<1>8. temp[t] = first <=> k = 1
  BY <1>4, <1>7
<1>9. \A m : m \in DOMAIN nodes <=> \E j \in 1 .. n : m = path[j]
  BY <1>1, <1>2, <1>3, <1>4, OwnersNodes DEF Shared!Inserting
<1>10. PICK gone \in DOMAIN nodes : gone = path[k]
  BY <1>7
<1>11. PICK behind : behind = nodes[gone].next
  OBVIOUS
<1>12. behind = IF k = n THEN NULL ELSE path[k + 1]
  BY <1>7, <1>10, <1>11
<1>13. /\ first' = IF k = 1 THEN behind ELSE first
       /\ nodes' = [m \in DOMAIN nodes \ {gone} |->
                      IF k # 1 /\ m = path[k - 1]
                      THEN [nodes[m] EXCEPT !.next = behind] ELSE nodes[m]]
  BY <1>7, <1>8, <1>10, <1>11 DEF Shared!Unlink
<1>14. /\ contents' \in Seq(Keys) /\ Len(contents') = n - 1
       /\ \A j \in 1 .. n - 1 : contents'[j] = IF j < k THEN contents[j] ELSE contents[j + 1]
  <2>1. contents \in Seq(Keys) /\ k \in 1 .. Len(contents)
    BY <1>3, <1>4 DEF SharedTypes
  <2>2. \A j \in 1 .. Len(contents) : contents[j] = contents[k] => k <= j
    BY <1>4, <1>6 DEF NotBefore
  <2>3. RemoveFirst(contents, contents[k]) = RemoveAt(contents, k)
    BY <2>1, <2>2, RemoveFirstFound
  <2>4. Shared!RemoveFirst(contents, contents[k]) = RemoveFirst(contents, contents[k])
    BY Zenon DEF Shared!RemoveFirst, RemoveFirst, Shared!RemoveAt, RemoveAt,
                 Shared!SelectInSeq, SelectInSeq, Shared!Min, Min
  <2>5. contents' = RemoveAt(contents, k)
    BY <1>6, <2>3, <2>4 DEF Shared!Unlink
  <2> QED
    BY <1>4, <2>1, <2>5, RemoveAtProperties
<1>15. \A m \in DOMAIN nodes : nodes[m] \in Cells
  BY <1>3 DEF SharedTypes
<1>16. behind \in Nodes \cup {NULL}
  BY <1>11, <1>15 DEF Cells
<1>17. /\ DOMAIN nodes' = DOMAIN nodes \ {gone}
       /\ \A m \in DOMAIN nodes \ {gone} :
            /\ nodes'[m] \in Cells
            /\ nodes'[m].data = nodes[m].data
            /\ nodes'[m].next = IF k # 1 /\ m = path[k - 1] THEN behind ELSE nodes[m].next
  <2> SUFFICES ASSUME NEW m \in DOMAIN nodes \ {gone}
               PROVE  /\ nodes'[m] \in Cells
                      /\ nodes'[m].data = nodes[m].data
                      /\ nodes'[m].next = IF k # 1 /\ m = path[k - 1]
                                          THEN behind ELSE nodes[m].next
    BY <1>13
  <2>1. PICK cell \in Cells : cell = nodes[m]
    BY <1>15
  <2>2. nodes'[m] = IF k # 1 /\ m = path[k - 1] THEN [cell EXCEPT !.next = behind] ELSE cell
    BY <1>13, <2>1
  <2> QED
    BY <1>16, <2>1, <2>2 DEF Cells
<1> DEFINE shorter == [j \in 1 .. n - 1 |-> IF j < k THEN path[j] ELSE path[j + 1]]
<1>18. \A j \in 1 .. n - 1 :
         \/ j < k /\ j \in 1 .. n /\ shorter[j] = path[j]
         \/ j >= k /\ j + 1 \in 1 .. n /\ shorter[j] = path[j + 1]
  OBVIOUS
<1>19. /\ shorter \in [1 .. n - 1 -> DOMAIN nodes \ {gone}]
       /\ \A j \in 1 .. n - 1 : shorter[j] \in DOMAIN nodes \ {gone}
  <2>1. \A j \in 1 .. n - 1 : (IF j < k THEN path[j] ELSE path[j + 1]) \in DOMAIN nodes \ {gone}
    BY <1>7, <1>10
  <2> QED
    BY <2>1
<1> HIDE DEF shorter
<1>20. \A j, m \in 1 .. n - 1 : shorter[j] = shorter[m] => j = m
  <2> SUFFICES ASSUME NEW j \in 1 .. n - 1, NEW m \in 1 .. n - 1, shorter[j] = shorter[m]
               PROVE  j = m
    OBVIOUS
  <2>1. CASE j < k /\ m < k
    BY <1>7, <1>18, <2>1
  <2>2. CASE j < k /\ m >= k
    <3>1. path[j] = path[m + 1] /\ j \in 1 .. n /\ m + 1 \in 1 .. n
      BY <1>18, <2>2
    <3> QED
      BY <1>7, <2>2, <3>1
  <2>3. CASE j >= k /\ m < k
    <3>1. path[j + 1] = path[m] /\ j + 1 \in 1 .. n /\ m \in 1 .. n
      BY <1>18, <2>3
    <3> QED
      BY <1>7, <2>3, <3>1
  <2>4. CASE j >= k /\ m >= k
    <3>1. path[j + 1] = path[m + 1] /\ j + 1 \in 1 .. n /\ m + 1 \in 1 .. n
      BY <1>18, <2>4
    <3>2. j + 1 = m + 1
      BY <1>7, <3>1
    <3> QED
      BY <3>2
  <2> QED
    BY <2>1, <2>2, <2>3, <2>4
<1>21. first' = IF n - 1 = 0 THEN NULL ELSE shorter[1]
  <2>1. CASE n - 1 = 0
    BY <1>12, <1>13, <2>1
  <2>2. CASE n - 1 # 0
    <3>1. 1 \in 1 .. n - 1
      BY <2>2
    <3>2. CASE k = 1
      <4>1. shorter[1] = path[k + 1] /\ k # n
        BY <1>18, <2>2, <3>1, <3>2
      <4> QED
        BY <1>12, <1>13, <2>2, <3>2, <4>1
    <3>3. CASE k # 1
      <4>1. shorter[1] = path[1]
        BY <1>18, <3>1, <3>3
      <4> QED
        BY <1>7, <1>13, <2>2, <3>3, <4>1
    <3> QED
      BY <3>2, <3>3
  <2> QED
    BY <2>1, <2>2
<1>22. ASSUME NEW j \in 1 .. n - 1
       PROVE  /\ nodes'[shorter[j]].data = contents'[j]
              /\ nodes'[shorter[j]].next = IF j = n - 1 THEN NULL ELSE shorter[j + 1]
  <2>1. CASE j < k
    <3>1. /\ shorter[j] = path[j] /\ j \in 1 .. n /\ j # n /\ j # k
          /\ shorter[j] \in DOMAIN nodes \ {gone}
      BY <1>18, <1>19, <2>1
    <3>2. nodes'[shorter[j]].data = contents'[j]
      <4>1. contents'[j] = contents[j]
        BY <1>14, <2>1
      <4> QED
        BY <1>7, <1>17, <3>1, <4>1
    <3>3. CASE j = k - 1
      <4>1. nodes'[shorter[j]].next = behind
        BY <1>17, <3>1, <3>3
      <4>2. j = n - 1 <=> k = n
        BY <3>3
      <4>3. j # n - 1 => j + 1 \in 1 .. n - 1 /\ j + 1 = k /\ shorter[j + 1] = path[k + 1]
        <5>1. j # n - 1 => j + 1 \in 1 .. n - 1 /\ j + 1 = k /\ ~(j + 1 < k)
          BY <3>3
        <5> QED
          BY <1>18, <5>1
      <4> QED
        BY <1>12, <3>2, <4>1, <4>2, <4>3
    <3>4. CASE j # k - 1
      <4>1. j + 1 < k /\ j + 1 \in 1 .. n - 1 /\ j # n - 1
        BY <2>1, <3>4
      <4>2. shorter[j + 1] = path[j + 1]
        BY <1>18, <4>1
      <4>3. k # 1 => path[j] # path[k - 1]
        <5>1. k # 1 => k - 1 \in 1 .. n
          OBVIOUS
        <5> QED
          BY <1>7, <3>1, <3>4, <5>1
      <4>4. nodes'[shorter[j]].next = nodes[path[j]].next
        BY <1>17, <3>1, <4>3
      <4> QED
        BY <1>7, <3>1, <3>2, <4>1, <4>2, <4>4
    <3> QED
      BY <3>3, <3>4
  <2>2. CASE j >= k
    <3>1. /\ shorter[j] = path[j + 1] /\ j + 1 \in 1 .. n
          /\ shorter[j] \in DOMAIN nodes \ {gone}
      BY <1>18, <1>19, <2>2
    <3>2. k # 1 => path[j + 1] # path[k - 1]
      <4>1. k # 1 => k - 1 \in 1 .. n /\ j + 1 # k - 1
        BY <2>2
      <4> QED
        BY <1>7, <3>1, <4>1
    <3>3. nodes'[shorter[j]].next = nodes[path[j + 1]].next
      BY <1>17, <3>1, <3>2
    <3>4. nodes'[shorter[j]].data = contents'[j]
      <4>1. contents'[j] = contents[j + 1]
        BY <1>14, <2>2
      <4> QED
        BY <1>7, <1>17, <3>1, <4>1
    <3>5. j + 1 = n <=> j = n - 1
      OBVIOUS
    <3>6. j # n - 1 => shorter[j + 1] = path[(j + 1) + 1]
      <4>1. j # n - 1 => j + 1 \in 1 .. n - 1 /\ ~(j + 1 < k)
        BY <2>2
      <4> QED
        BY <1>18, <4>1
    <3> QED
      BY <1>7, <3>1, <3>3, <3>4, <3>5, <3>6
  <2>3. j < k \/ j >= k
    OBVIOUS
  <2> QED
    BY <2>1, <2>2, <2>3
<1>23. SharedTypes'
  <2>1. nodes' \in [DOMAIN nodes' -> Cells]
    <3>1. nodes' = [m \in DOMAIN nodes' |-> nodes'[m]]
      BY <1>13
    <3> QED
      BY <1>17, <3>1
  <2> QED
    BY <1>1, <1>3, <1>14, <1>17, <2>1 DEF SharedTypes, Places, Shared!Critical
<1>24. IsPath(shorter)'
  <2>1. 1 .. Len(contents') = 1 .. n - 1 /\ shorter \in [1 .. Len(contents') -> DOMAIN nodes']
    BY <1>14, <1>17, <1>19
  <2>2. first' = NodeAt(shorter, 1)'
    BY <1>14, <1>21 DEF NodeAt
  <2>3. \A j \in 1 .. n - 1 : NodeAt(shorter, j + 1)' = IF j = n - 1 THEN NULL ELSE shorter[j + 1]
    BY <1>14 DEF NodeAt
  <2>4. \A j \in 1 .. n - 1 :
          /\ nodes'[shorter[j]].data = contents'[j]
          /\ nodes'[shorter[j]].next = NodeAt(shorter, j + 1)'
    BY <1>22, <2>3
  <2> QED
    BY <1>20, <2>1, <2>2, <2>4 DEF IsPath
<1>25. pc'[t] = "release" /\ Shared!Op(t)' # "printList"
  BY <1>1, <1>3, <1>5 DEF SharedTypes, Shared!Op
<1>26. t \notin Shared!Inserting'
  BY <1>25 DEF Shared!Inserting
<1>27. ThreadSound(t, shorter)'
  BY <1>1, <1>5, <1>25, <1>26 DEF ThreadSound
<1>28. \A m : m \in DOMAIN nodes' <=> \/ \E j \in 1 .. Len(contents') : m = shorter[j]
                                      \/ t \in Shared!Inserting' /\ m = newNode'[t]
  <2>1. ASSUME NEW j \in 1 .. n, path[j] # gone PROVE \E m \in 1 .. n - 1 : path[j] = shorter[m]
    <3>1. j # k
      BY <1>10, <2>1
    <3>2. CASE j < k
      <4>1. j \in 1 .. n - 1 /\ shorter[j] = path[j]
        BY <1>18, <3>2
      <4> QED
        BY <4>1
    <3>3. CASE j > k
      <4>1. j - 1 \in 1 .. n - 1 /\ ~(j - 1 < k) /\ (j - 1) + 1 = j
        BY <3>3
      <4>2. shorter[j - 1] = path[j]
        BY <1>18, <4>1
      <4> QED
        BY <4>1, <4>2
    <3> QED
      BY <3>1, <3>2, <3>3
  <2>2. 1 .. Len(contents') = 1 .. n - 1
    BY <1>14
  <2> QED
    BY <1>9, <1>17, <1>19, <1>26, <2>1, <2>2
<1>29. "release" \in Places /\ "release" \in Shared!Critical
  BY DEF Places, Shared!Critical
<1> QED
  BY <1>1, <1>3, <1>23, <1>24, <1>27, <1>28, <1>29, OwnerSteps

\* What is reached from the head are the nodes of the path, then nothing.
LEMMA ReachedOnPath ==
  ASSUME SharedTypes, NEW path, IsPath(path)
  PROVE  \A k \in Nat : Shared!Reached[k] = NodeAt(path, k + 1)
<1> DEFINE f == [k \in Nat |-> NodeAt(path, k + 1)]
           Step(g) == [k \in Nat |->
                         IF k = 0 THEN first
                         ELSE IF g[k - 1] = NULL THEN NULL ELSE nodes[g[k - 1]].next]
<1>1. ASSUME NEW k \in Nat
      PROVE  f[k] = IF k = 0 THEN first
                    ELSE IF f[k - 1] = NULL THEN NULL ELSE nodes[f[k - 1]].next
  <2>1. CASE k = 0
    BY <2>1 DEF IsPath
  <2>2. CASE k # 0
    <3>1. k - 1 \in Nat /\ (k - 1) + 1 = k /\ f[k - 1] = NodeAt(path, k)
      BY <2>2
    <3>2. CASE k \in 1 .. Len(contents)
      <4>1. NodeAt(path, k) = path[k] /\ path[k] # NULL /\ nodes[path[k]].next = NodeAt(path, k + 1)
        BY <3>2, PathFacts DEF NodeAt, IsPath
      <4> QED
        BY <2>2, <3>1, <4>1
    <3>3. CASE k \notin 1 .. Len(contents)
      <4>1. k + 1 \notin 1 .. Len(contents)
        BY <2>2, <3>3, PathFacts
      <4>2. NodeAt(path, k) = NULL /\ NodeAt(path, k + 1) = NULL
        BY <3>3, <4>1 DEF NodeAt
      <4> QED
        BY <2>2, <3>1, <4>2
    <3> QED
      BY <3>2, <3>3
  <2> QED
    BY <2>1, <2>2
<1>2. f = Step(f)
  BY <1>1
<1>3. Shared!Reached = CHOOSE g : g = Step(g)
  BY DEF Shared!Reached
<1> HIDE DEF Step
<1>4. Shared!Reached = Step(Shared!Reached)
  BY <1>2, <1>3, Zenon
<1>5. \A k \in Nat :
        Shared!Reached[k] = IF k = 0 THEN first
                            ELSE IF Shared!Reached[k - 1] = NULL THEN NULL
                            ELSE nodes[Shared!Reached[k - 1]].next
  BY <1>4 DEF Step
<1> HIDE DEF f
<1>6. Shared!Reached[0] = f[0]
  BY <1>1, <1>5
<1>7. ASSUME NEW k \in Nat, Shared!Reached[k] = f[k]
      PROVE  Shared!Reached[k + 1] = f[k + 1]
  <2>1. k + 1 \in Nat /\ k + 1 # 0 /\ (k + 1) - 1 = k
    OBVIOUS
  <2> QED
    BY <1>1, <1>5, <1>7, <2>1
<1>8. \A k \in Nat : Shared!Reached[k] = f[k]
  BY <1>6, <1>7, SameEverywhere
<1> QED
  BY <1>8 DEF f

\* The nodes of the list are those of the path, which is not longer than memory.
LEMMA LinkedIsPath ==
  ASSUME SharedTypes, NEW path, IsPath(path)
  PROVE  \A m : m \in Shared!Linked <=> \E k \in 1 .. Len(contents) : m = path[k]
<1>1. PICK n \in Nat : n = Len(contents)
  BY PathFacts
<1>2. PICK c : c = Cardinality(Nodes)
  OBVIOUS
<1>3. path \in Injection(1 .. n, Nodes)
  <2>1. path \in [1 .. n -> Nodes]
    BY <1>1 DEF IsPath, SharedTypes
  <2>2. \A j, k \in 1 .. n : path[j] = path[k] => j = k
    BY <1>1 DEF IsPath
  <2> QED
    BY <2>1, <2>2 DEF Injection, IsInjective
<1>4. Cardinality(1 .. n) = n
  BY FS_Interval
<1>5. c \in Nat /\ n <= c
  BY <1>2, <1>3, <1>4, SharedAssumption, FS_Injection, FS_CardinalityType
<1>6. Shared!Cardinality(Nodes) = c
  BY <1>2, Zenon DEF Shared!Cardinality, Cardinality
<1>7. Shared!Linked = {Shared!Reached[k] : k \in 0 .. c} \ {NULL}
  BY <1>6 DEF Shared!Linked
<1>8. \A k \in 0 .. c : Shared!Reached[k] = IF k < n THEN path[k + 1] ELSE NULL
  BY <1>1, <1>5, ReachedOnPath DEF NodeAt
<1>9. \A k \in 1 .. n : k - 1 \in 0 .. c /\ k - 1 < n /\ (k - 1) + 1 = k /\ path[k] # NULL
  BY <1>1, <1>5, PathFacts
<1>10. ASSUME NEW m, m \in Shared!Linked PROVE \E k \in 1 .. n : m = path[k]
  <2>1. PICK k \in 0 .. c : m = Shared!Reached[k] /\ m # NULL
    BY <1>7, <1>10
  <2>2. k + 1 \in 1 .. n /\ m = path[k + 1]
    BY <1>8, <2>1
  <2> QED
    BY <2>2
<1>11. ASSUME NEW k \in 1 .. n PROVE path[k] \in Shared!Linked
  <2>1. Shared!Reached[k - 1] = path[k]
    BY <1>8, <1>9
  <2> QED
    BY <1>7, <1>9, <2>1
<1> QED
  BY <1>1, <1>10, <1>11

\* All nodes are freed while nobody looks.
LEMMA ListDestroyed ==
  ASSUME SharedInv, Shared!destroyList
  PROVE  SharedInv'
<1>1. /\ \A t \in ListThreads : pc[t] = "idle"
      /\ nodes' = [m \in DOMAIN nodes \ Shared!Linked |-> nodes[m]]
      /\ first' = NULL /\ contents' = << >>
      /\ UNCHANGED <<mutex, pc, call, temp, prev, newNode, printed>>
  BY DEF Shared!destroyList, Shared!locals
<1>2. PICK path : Represents(path)
  BY DEF SharedInv
<1>3. SharedTypes /\ IsPath(path)
  BY <1>2 DEF SharedInv, Represents
<1>4. Shared!Inserting = {} /\ Shared!Inserting' = {}
  BY <1>1 DEF Shared!Inserting
<1>5. DOMAIN nodes' = {}
  BY <1>1, <1>2, <1>3, <1>4, LinkedIsPath DEF Represents, NothingElse
<1>6. SharedTypes'
  BY <1>1, <1>3, <1>5 DEF SharedTypes
<1>7. MutexSound'
  BY <1>1 DEF SharedInv, MutexSound
<1> DEFINE empty == [k \in 1 .. 0 |-> NULL]
<1>8. Len(contents') = 0 /\ 1 .. 0 = {}
  BY <1>1
<1>9. IsPath(empty)'
  BY <1>1, <1>5, <1>8 DEF IsPath, NodeAt
<1>10. NothingElse(empty)'
  BY <1>4, <1>5, <1>8 DEF NothingElse
<1>11. \A t \in ListThreads : ThreadSound(t, empty)'
  BY <1>1, <1>4 DEF ThreadSound
<1> QED
  BY <1>6, <1>7, <1>9, <1>10, <1>11 DEF SharedInv, Represents

\* LlistMutex.cpp: the operations of the threads take effect one after the
\* other, each at the moment it writes its link, for any threads, nodes and keys.
THEOREM AlwaysSerialized == Spec => []Serialized
<1>1. Init => SharedInv
  <2> SUFFICES ASSUME Init PROVE SharedInv
    OBVIOUS
  <2>1. /\ first = NULL /\ nodes = << >> /\ mutex = NoThread
        /\ pc = [t \in ListThreads |-> "idle"]
        /\ call = [t \in ListThreads |-> Shared!NoCall]
        /\ temp = [t \in ListThreads |-> NULL] /\ prev = temp /\ newNode = temp
        /\ printed = << >> /\ contents = << >>
    BY DEF Init, Shared!Init
  <2>2. DOMAIN nodes = {} /\ Len(contents) = 0 /\ 1 .. 0 = {}
    BY <2>1
  <2>3. SharedTypes
    <3>1. nodes \in [DOMAIN nodes -> Cells]
      BY <2>1, <2>2
    <3> QED
      BY <2>1, <2>2, <3>1 DEF SharedTypes, Places
  <2>4. MutexSound
    BY <2>1, SharedAssumption DEF MutexSound, Shared!Critical
  <2>5. Shared!Inserting = {}
    BY <2>1 DEF Shared!Inserting
  <2> DEFINE empty == [k \in 1 .. 0 |-> NULL]
  <2>6. IsPath(empty) /\ NothingElse(empty)
    BY <2>1, <2>2, <2>5 DEF IsPath, NodeAt, NothingElse
  <2>7. \A t \in ListThreads : ThreadSound(t, empty)
    BY <2>1, <2>5 DEF ThreadSound
  <2> QED
    BY <2>3, <2>4, <2>6, <2>7 DEF SharedInv, Represents
<1>2. SharedInv /\ [Next]_vars => SharedInv'
  <2> SUFFICES ASSUME SharedInv, [Shared!Next]_shared PROVE SharedInv'
    BY Frame
  <2>1. ASSUME NEW t \in ListThreads, NEW request \in Shared!Requests, Shared!Call(t, request)
        PROVE  SharedInv'
    BY <2>1, OperationCalled
  <2>2. ASSUME NEW t \in ListThreads, Shared!Wait(t) PROVE SharedInv'
    BY <2>2, MutexTaken
  <2>3. ASSUME NEW t \in ListThreads, Shared!Release(t) PROVE SharedInv'
    BY <2>3, CallReturned
  <2>4. ASSUME NEW t \in ListThreads, Shared!Malloc(t) PROVE SharedInv'
    BY <2>4, NodeAllocated
  <2>5. ASSUME NEW t \in ListThreads, Shared!Walk(t) PROVE SharedInv'
    BY <2>5, WalkedOn
  <2>6. ASSUME NEW t \in ListThreads, Shared!WalkEnds(t) PROVE SharedInv'
    BY <2>6, WalkEnded
  <2>7. ASSUME NEW t \in ListThreads, Shared!Link(t) PROVE SharedInv'
    BY <2>7, NodeLinked
  <2>8. ASSUME NEW t \in ListThreads, Shared!Unlink(t) PROVE SharedInv'
    BY <2>8, NodeUnlinked
  <2>9. CASE Shared!destroyList
    BY <2>9, ListDestroyed
  <2>10. CASE UNCHANGED shared
    <3>1. PICK path : Represents(path)
      BY DEF SharedInv
    <3>2. UNCHANGED <<first, nodes, mutex, pc, call, temp, prev, newNode, printed, contents>>
      BY <2>10 DEF shared
    <3>3. SharedTypes' /\ MutexSound'
      BY <3>2 DEF SharedInv, SharedTypes, MutexSound
    <3>4. Shared!Inserting' = Shared!Inserting
      BY <3>2 DEF Shared!Inserting, Shared!Op
    <3>5. IsPath(path)' /\ NothingElse(path)'
      BY <3>1, <3>2, <3>4 DEF Represents, IsPath, NodeAt, NothingElse
    <3>6. \A t \in ListThreads : ThreadSound(t, path)'
      BY <3>1, <3>2, <3>4
         DEF Represents, ThreadSound, WalksAt, StandsAt, NotBefore, NodeAt, Fresh,
             Shared!Op, Shared!Key
    <3> QED
      BY <3>3, <3>5, <3>6 DEF SharedInv, Represents
  <2> QED
    BY <2>1, <2>2, <2>3, <2>4, <2>5, <2>6, <2>7, <2>8, <2>9, <2>10 DEF Shared!Next
<1>3. SharedInv => Serialized
  <2> SUFFICES ASSUME SharedInv PROVE Shared!Serialized
    BY DEF Serialized
  <2>1. PICK path : Represents(path)
    BY DEF SharedInv
  <2>2. SharedTypes /\ IsPath(path) /\ Len(contents) \in Nat
    BY <2>1, PathFacts DEF SharedInv, Represents
  <2>3. ASSUME NEW n \in 1 .. Len(contents)
        PROVE  /\ Shared!Reached[n - 1] # NULL
               /\ nodes[Shared!Reached[n - 1]].data = contents[n]
    <3>1. n - 1 \in Nat /\ (n - 1) + 1 = n
      BY <2>2
    <3>2. Shared!Reached[n - 1] = path[n]
      BY <2>2, <3>1, ReachedOnPath DEF NodeAt
    <3> QED
      BY <2>2, <3>2, PathFacts DEF IsPath
  <2>4. Shared!Reached[Len(contents)] = NULL
    <3>1. Len(contents) + 1 \notin 1 .. Len(contents)
      BY <2>2
    <3> QED
      BY <2>2, <3>1, ReachedOnPath DEF NodeAt
  <2>5. DOMAIN nodes = Shared!Linked \cup {newNode[t] : t \in Shared!Inserting}
    BY <2>1, <2>2, LinkedIsPath DEF Represents, NothingElse
  <2>6. ASSUME NEW t \in ListThreads
        PROVE  /\ mutex = t <=> pc[t] \in Shared!Critical
               /\ pc[t] = "release" /\ Shared!Op(t) = "printList" => printed = contents
    BY <2>1 DEF SharedInv, MutexSound, Represents, ThreadSound
  <2> QED
    BY <2>3, <2>4, <2>5, <2>6 DEF Shared!Serialized
<1> QED
  BY <1>1, <1>2, <1>3, PTL DEF Spec
-----------------------------------------------------------------------------
(* List.c                                                                  *)

ListCells == [data : Keys, next : ListNodes \cup {NULL}]

SinglyTypes ==
  /\ DOMAIN cells \subseteq ListNodes
  /\ cells \in [DOMAIN cells -> ListCells]
  /\ listPc \in {"idle", "walk", "free", "dangling"}

\* The k-th node of a path of n; there is none behind the last.
LinkAt(path, n, k) == IF k \in 1 .. n THEN path[k] ELSE NULL

\* All allocated nodes, in the order of the links from start on, hold data.
IsChain(path, data, start) ==
  /\ data \in Seq(Keys)
  /\ path \in [1 .. Len(data) -> DOMAIN cells]
  /\ \A j, k \in 1 .. Len(data) : path[j] = path[k] => j = k
  /\ \A m \in DOMAIN cells : \E k \in 1 .. Len(data) : m = path[k]
  /\ start = LinkAt(path, Len(data), 1)
  /\ \A k \in 1 .. Len(data) :
       /\ cells[path[k]].data = data[k]
       /\ cells[path[k]].next = LinkAt(path, Len(data), k + 1)

\* delete_node has passed by other values only; free_list has freed what is
\* before temp.
SinglyInv ==
  /\ SinglyTypes
  /\ listPc = "idle" => \E path : IsChain(path, values, listHead)
  /\ listPc = "walk" =>
       \E path, data :
         /\ IsChain(path, data, listHead)
         /\ values = RemoveFirst(data, value)
         /\ \E k \in 1 .. Len(data) :
              listTemp = path[k] /\ \A j \in 1 .. k : data[j] # value
  /\ listPc = "free" => values = << >> /\ \E path, data : IsChain(path, data, listTemp)
  /\ listPc = "dangling" => values = << >> /\ cells = << >>

\* A chain of n nodes, with the end spelled out.
LEMMA ChainFacts ==
  ASSUME SinglyTypes, NEW path, NEW data, NEW start, IsChain(path, data, start)
  PROVE  /\ Len(data) \in Nat
         /\ \A k \in 1 .. Len(data) :
              /\ data[k] \in Keys /\ path[k] \in DOMAIN cells
              /\ path[k] \in ListNodes /\ path[k] # NULL
              /\ cells[path[k]].data = data[k]
              /\ cells[path[k]].next = IF k = Len(data) THEN NULL ELSE path[k + 1]
         /\ start = IF Len(data) = 0 THEN NULL ELSE path[1]
         /\ start = NULL <=> Len(data) = 0
         /\ start # NULL => 1 \in 1 .. Len(data) /\ start = path[1]
<1>1. Len(data) \in Nat /\ \A k \in 1 .. Len(data) : data[k] \in Keys
  BY LenProperties, ElementOfSeq DEF IsChain
<1>2. \A k \in 1 .. Len(data) :
        path[k] \in DOMAIN cells /\ path[k] \in ListNodes /\ path[k] # NULL
  BY ListAssumption DEF IsChain, SinglyTypes
<1>3. start = IF Len(data) = 0 THEN NULL ELSE path[1]
  BY <1>1 DEF IsChain, LinkAt
<1>4. \A k \in 1 .. Len(data) :
        LinkAt(path, Len(data), k + 1) = IF k = Len(data) THEN NULL ELSE path[k + 1]
  BY <1>1 DEF LinkAt
<1>5. Len(data) # 0 => 1 \in 1 .. Len(data)
  BY <1>1
<1> QED
  BY <1>1, <1>2, <1>3, <1>4, <1>5 DEF IsChain

\* A node taken out of memory: its place is left out of the path.
LEMMA ChainShortened ==
  ASSUME SinglyTypes, NEW path, NEW data, NEW start, IsChain(path, data, start),
         NEW k \in 1 .. Len(data), NEW newStart,
         newStart = IF k = 1 THEN cells[path[1]].next ELSE start,
         DOMAIN cells' = DOMAIN cells \ {path[k]},
         \A m \in DOMAIN cells' :
           /\ cells'[m].data = cells[m].data
           /\ cells'[m].next = IF cells[m].next = path[k] THEN cells[path[k]].next
                                                          ELSE cells[m].next
  PROVE  \E shorter : IsChain(shorter, RemoveAt(data, k), newStart)'
<1>1. PICK n \in Nat : n = Len(data)
  BY ChainFacts
<1>2. PICK rest : rest = RemoveAt(data, k)
  OBVIOUS
<1>3. /\ path \in [1 .. n -> DOMAIN cells]
      /\ \A h, j \in 1 .. n : path[h] = path[j] => h = j
      /\ \A m \in DOMAIN cells : \E j \in 1 .. n : m = path[j]
      /\ \A j \in 1 .. n : /\ path[j] # NULL
                           /\ path[j] \in DOMAIN cells
                           /\ cells[path[j]].data = data[j]
                           /\ cells[path[j]].next = IF j = n THEN NULL ELSE path[j + 1]
      /\ start = path[1] /\ k \in 1 .. n
  <2>1. n # 0 /\ k \in 1 .. n
    BY <1>1
  <2>2. /\ path \in [1 .. n -> DOMAIN cells]
        /\ \A h, j \in 1 .. n : path[h] = path[j] => h = j
        /\ \A m \in DOMAIN cells : \E j \in 1 .. n : m = path[j]
    BY <1>1 DEF IsChain
  <2>3. /\ \A j \in 1 .. n : /\ path[j] # NULL
                             /\ path[j] \in DOMAIN cells
                             /\ cells[path[j]].data = data[j]
                             /\ cells[path[j]].next = IF j = n THEN NULL ELSE path[j + 1]
        /\ start = IF n = 0 THEN NULL ELSE path[1]
    BY <1>1, ChainFacts
  <2> QED
    BY <2>1, <2>2, <2>3
<1>4. /\ rest \in Seq(Keys) /\ Len(rest) = n - 1
      /\ \A j \in 1 .. n - 1 : rest[j] = IF j < k THEN data[j] ELSE data[j + 1]
  <2>1. data \in Seq(Keys)
    BY DEF IsChain
  <2> QED
    BY <1>1, <1>2, <2>1, RemoveAtProperties
<1> DEFINE shorter == [j \in 1 .. n - 1 |-> IF j < k THEN path[j] ELSE path[j + 1]]
<1>5. \A j \in 1 .. n - 1 : /\ j \in 1 .. n /\ j + 1 \in 1 .. n
                            /\ shorter[j] = IF j < k THEN path[j] ELSE path[j + 1]
  BY <1>1
<1>6. shorter \in [1 .. n - 1 -> DOMAIN cells']
  <2>1. ASSUME NEW j \in 1 .. n - 1 PROVE shorter[j] \in DOMAIN cells'
    <3>1. j # k => path[j] # path[k]
      BY <1>3, <1>5
    <3>2. j + 1 # k => path[j + 1] # path[k]
      BY <1>3, <1>5
    <3>3. j < k => j # k
      BY <1>3
    <3>4. ~(j < k) => j + 1 # k
      BY <1>3
    <3> QED
      BY <1>3, <1>5, <3>1, <3>2, <3>3, <3>4
  <2> QED
    BY <2>1
<1> HIDE DEF shorter
<1>7. \A h, j \in 1 .. n - 1 : shorter[h] = shorter[j] => h = j
  <2> SUFFICES ASSUME NEW h \in 1 .. n - 1, NEW j \in 1 .. n - 1, shorter[h] = shorter[j]
               PROVE  h = j
    OBVIOUS
  <2>1. (IF h < k THEN h ELSE h + 1) = (IF j < k THEN j ELSE j + 1)
    BY <1>3, <1>5
  <2> QED
    BY <1>3, <2>1
<1>8. ASSUME NEW m \in DOMAIN cells' PROVE \E j \in 1 .. n - 1 : m = shorter[j]
  <2>1. PICK j \in 1 .. n : m = path[j] /\ j # k
    BY <1>3
  <2>2. CASE j < k
    <3>1. j \in 1 .. n - 1 /\ shorter[j] = path[j]
      BY <1>3, <1>5, <2>2
    <3> QED
      BY <2>1, <3>1
  <2>3. CASE j > k
    <3>1. j - 1 \in 1 .. n - 1 /\ ~(j - 1 < k) /\ (j - 1) + 1 = j
      BY <1>3, <2>3
    <3>2. shorter[j - 1] = path[j]
      BY <1>5, <3>1
    <3> QED
      BY <2>1, <3>1, <3>2
  <2> QED
    BY <1>3, <2>1, <2>2, <2>3
<1>9. newStart = IF n - 1 = 0 THEN NULL ELSE shorter[1]
  <2>1. CASE n = 1
    BY <1>3, <2>1
  <2>2. CASE n # 1
    <3>1. 1 \in 1 .. n - 1 /\ 1 \in 1 .. n
      BY <1>1, <1>3, <2>2
    <3>2. shorter[1] = IF 1 < k THEN path[1] ELSE path[1 + 1]
      BY <1>5, <3>1
    <3>3. k = 1 \/ 1 < k
      BY <1>3
    <3> QED
      BY <1>3, <2>2, <3>1, <3>2, <3>3
  <2> QED
    BY <2>1, <2>2
<1>10. ASSUME NEW j \in 1 .. n - 1
       PROVE  /\ cells'[shorter[j]].data = rest[j]
              /\ cells'[shorter[j]].next = IF j = n - 1 THEN NULL ELSE shorter[j + 1]
  <2>1. shorter[j] \in DOMAIN cells'
    BY <1>6
  <2>2. j # n - 1 => /\ j + 1 \in 1 .. n - 1
                     /\ shorter[j + 1] = IF j + 1 < k THEN path[j + 1] ELSE path[(j + 1) + 1]
    <3>1. j # n - 1 => j + 1 \in 1 .. n - 1
      OBVIOUS
    <3> QED
      BY <1>5, <3>1
  <2>3. CASE j < k
    <3>1. shorter[j] = path[j] /\ rest[j] = data[j] /\ j # n
      BY <1>3, <1>4, <1>5, <2>3
    <3>2. cells[path[j]].data = data[j] /\ cells[path[j]].next = path[j + 1]
      BY <1>3, <1>5, <3>1
    <3>3. path[j + 1] = path[k] <=> j + 1 = k
      BY <1>3, <1>5
    <3>4. CASE j + 1 = k
      <4>1. cells'[shorter[j]].next = cells[path[k]].next
        BY <2>1, <3>1, <3>2, <3>3, <3>4
      <4>2. cells[path[k]].next = IF k = n THEN NULL ELSE path[k + 1]
        BY <1>3
      <4>3. k = n <=> j = n - 1
        BY <3>4
      <4> QED
        BY <2>1, <2>2, <3>1, <3>2, <3>4, <4>1, <4>2, <4>3
    <3>5. CASE j + 1 # k
      <4>1. cells'[shorter[j]].next = path[j + 1]
        BY <2>1, <3>1, <3>2, <3>3, <3>5
      <4>2. j # n - 1 /\ j + 1 < k
        BY <1>3, <2>3, <3>5
      <4> QED
        BY <2>1, <2>2, <3>1, <3>2, <4>1, <4>2
    <3> QED
      BY <3>4, <3>5
  <2>4. CASE ~(j < k)
    <3>1. shorter[j] = path[j + 1] /\ rest[j] = data[j + 1] /\ j + 1 # k
      BY <1>3, <1>4, <1>5, <2>4
    <3>2. /\ cells[path[j + 1]].data = data[j + 1]
          /\ cells[path[j + 1]].next = IF j + 1 = n THEN NULL ELSE path[(j + 1) + 1]
      BY <1>3, <1>5
    <3>3. cells[path[j + 1]].next # path[k]
      <4>1. CASE j + 1 = n
        BY <1>3, <3>2, <4>1
      <4>2. CASE j + 1 # n
        <5>1. (j + 1) + 1 \in 1 .. n /\ (j + 1) + 1 # k
          BY <1>3, <2>4, <4>2
        <5> QED
          BY <1>3, <3>2, <4>2, <5>1
      <4> QED
        BY <4>1, <4>2
    <3>4. j + 1 = n <=> j = n - 1
      OBVIOUS
    <3>5. ~(j + 1 < k)
      BY <1>3, <2>4
    <3> QED
      BY <2>1, <2>2, <3>1, <3>2, <3>3, <3>4, <3>5
  <2> QED
    BY <2>3, <2>4
<1>11. IsChain(shorter, rest, newStart)'
  <2>1. \A j \in 1 .. n - 1 :
          LinkAt(shorter, n - 1, j + 1) = IF j = n - 1 THEN NULL ELSE shorter[j + 1]
    BY <1>1 DEF LinkAt
  <2>2. LinkAt(shorter, n - 1, 1) = IF n - 1 = 0 THEN NULL ELSE shorter[1]
    <3>1. n - 1 \in Nat
      BY <1>3
    <3> QED
      BY <3>1 DEF LinkAt
  <2>3. LinkAt(shorter, Len(rest), 1)' = LinkAt(shorter, n - 1, 1)
    BY <1>4 DEF LinkAt
  <2>4. \A j \in 1 .. n - 1 : LinkAt(shorter, Len(rest), j + 1)' = LinkAt(shorter, n - 1, j + 1)
    BY <1>4 DEF LinkAt
  <2> QED
    BY <1>4, <1>6, <1>7, <1>8, <1>9, <1>10, <2>1, <2>2, <2>3, <2>4 DEF IsChain
<1> QED
  BY <1>2, <1>11

\* The last node of a chain is the only one that leads nowhere.
LEMMA ChainEnd ==
  ASSUME SinglyTypes, NEW path, NEW data, NEW start, IsChain(path, data, start),
         start # NULL
  PROVE  Len(data) \in 1 .. Len(data) /\ Singly!LastNode = path[Len(data)]
<1>1. PICK n \in Nat : n = Len(data)
  BY ChainFacts
<1>2. n \in 1 .. n
  BY <1>1, ChainFacts
<1>3. path[n] \in DOMAIN cells /\ cells[path[n]].next = NULL
  BY <1>1, <1>2, ChainFacts
<1>4. ASSUME NEW m \in DOMAIN cells, cells[m].next = NULL PROVE m = path[n]
  <2>1. PICK k \in 1 .. n : m = path[k]
    BY <1>1 DEF IsChain
  <2>2. k # n => path[k + 1] # NULL /\ cells[path[k]].next = path[k + 1]
    <3>1. k # n => k + 1 \in 1 .. n
      BY <1>1
    <3> QED
      BY <1>1, <3>1, ChainFacts
  <2> QED
    BY <1>4, <2>1, <2>2
<1>5. Singly!LastNode = path[n]
  BY <1>3, <1>4 DEF Singly!LastNode
<1> QED
  BY <1>1, <1>2, <1>5

\* An allocated node with its fields.
LEMMA CellsTyped ==
  ASSUME SinglyTypes, NEW m \in DOMAIN cells
  PROVE  cells[m].data \in Keys /\ cells[m].next \in ListNodes \cup {NULL}
BY DEF SinglyTypes, ListCells

\* A value is appended at the end of the chain.
LEMMA ValueAppended ==
  ASSUME SinglyInv, NEW v \in Keys, Singly!create_node(v)
  PROVE  SinglyInv'
<1>1. PICK new \in ListNodes \ DOMAIN cells :
        IF listHead = NULL \/ listPc = "dangling"
        THEN cells' = Singly!Plus(new, v) /\ listHead' = new
        ELSE /\ cells' = [Singly!Plus(new, v) EXCEPT ![Singly!LastNode].next = new]
             /\ UNCHANGED listHead
  BY DEF Singly!create_node
<1>2. listPc \in {"idle", "dangling"} /\ listPc' = "idle" /\ values' = Append(values, v)
  BY DEF Singly!create_node
<1>3. PICK plus : plus = Singly!Plus(new, v)
  OBVIOUS
<1>4. /\ plus \in [DOMAIN cells \cup {new} -> ListCells]
      /\ plus[new].data = v /\ plus[new].next = NULL
      /\ \A m \in DOMAIN cells : plus[m] = cells[m]
  <2>1. plus = [m \in DOMAIN cells \cup {new} |->
                  IF m = new THEN [data |-> v, next |-> NULL] ELSE cells[m]]
    BY <1>3 DEF Singly!Plus
  <2>2. [data |-> v, next |-> NULL] \in ListCells
    BY DEF ListCells
  <2>3. \A m \in DOMAIN cells : cells[m] \in ListCells
    BY DEF SinglyInv, SinglyTypes
  <2> QED
    BY <2>1, <2>2, <2>3
<1>5. values \in Seq(Keys)
  <2>1. CASE listPc = "idle"
    BY <2>1 DEF SinglyInv, IsChain
  <2>2. CASE listPc = "dangling"
    BY <2>2 DEF SinglyInv
  <2> QED
    BY <1>2, <2>1, <2>2
<1>6. PICK n \in Nat : n = Len(values)
  BY <1>5, LenProperties
<1>7. /\ values' \in Seq(Keys) /\ Len(values') = n + 1 /\ values'[n + 1] = v
      /\ \A k \in 1 .. n : values'[k] = values[k]
  BY <1>2, <1>5, <1>6, AppendProperties
<1>8. CASE listHead = NULL \/ listPc = "dangling"
  <2>1. cells' = plus /\ listHead' = new
    BY <1>1, <1>3, <1>8
  <2>2. DOMAIN cells = {} /\ n = 0
    <3>1. CASE listPc = "dangling"
      <4>1. cells = << >> /\ values = << >>
        BY <3>1 DEF SinglyInv
      <4> QED
        BY <1>6, <4>1
    <3>2. CASE listPc = "idle"
      <4>1. PICK path : IsChain(path, values, listHead)
        BY <3>2 DEF SinglyInv
      <4>2. n = 0
        BY <1>6, <1>8, <3>2, <4>1, ChainFacts DEF SinglyInv
      <4>3. \A m \in DOMAIN cells : \E k \in 1 .. n : m = path[k]
        BY <1>6, <4>1 DEF IsChain
      <4>4. \A m : m \notin DOMAIN cells
        BY <4>2, <4>3
      <4> QED
        BY <4>2, <4>4
    <3> QED
      BY <1>2, <3>1, <3>2
  <2>3. SinglyTypes'
    BY <1>2, <1>4, <2>1, <2>2 DEF SinglyTypes
  <2> DEFINE single == [k \in 1 .. 1 |-> new]
  <2>4. IsChain(single, values, listHead)'
    <3>1. 1 .. Len(values') = {1} /\ 1 .. 1 = {1}
      BY <1>7, <2>2
    <3>2. LinkAt(single, Len(values), 1)' = new /\ LinkAt(single, Len(values), 1 + 1)' = NULL
      BY <1>7, <2>2 DEF LinkAt
    <3> QED
      BY <1>4, <1>7, <2>1, <2>2, <3>1, <3>2 DEF IsChain
  <2> QED
    BY <1>2, <2>3, <2>4 DEF SinglyInv
<1>9. CASE ~(listHead = NULL \/ listPc = "dangling")
  <2>1. listPc = "idle" /\ SinglyTypes
    BY <1>2, <1>9 DEF SinglyInv
  <2>2. PICK path : IsChain(path, values, listHead)
    BY <2>1 DEF SinglyInv
  <2>3. n \in 1 .. n /\ Singly!LastNode = path[n]
    BY <1>6, <1>9, <2>1, <2>2, ChainEnd
  <2>4. /\ path \in [1 .. n -> DOMAIN cells]
        /\ \A h, k \in 1 .. n : path[h] = path[k] => h = k
        /\ \A m \in DOMAIN cells : \E k \in 1 .. n : m = path[k]
    BY <1>6, <2>2 DEF IsChain
  <2>5. \A k \in 1 .. n : /\ path[k] \in DOMAIN cells /\ path[k] # new
                          /\ cells[path[k]].data = values[k]
                          /\ cells[path[k]].next = IF k = n THEN NULL ELSE path[k + 1]
    BY <1>6, <2>1, <2>2, ChainFacts
  <2>6. listHead = path[1] /\ listHead' = listHead
    BY <1>1, <1>9, <2>1, <2>2, ChainFacts
  <2>7. cells' = [plus EXCEPT ![path[n]].next = new]
    BY <1>1, <1>3, <1>9, <2>3
  <2>8. PICK cell : cell = [plus[path[n]] EXCEPT !.next = new]
    OBVIOUS
  <2>9. plus[path[n]] \in ListCells /\ path[n] \in DOMAIN plus /\ plus[path[n]] = cells[path[n]]
    BY <1>4, <2>3, <2>5
  <2>10. cell \in ListCells /\ cell.next = new /\ cell.data = cells[path[n]].data
    BY <1>1, <2>8, <2>9 DEF ListCells
  <2>11. cells' = [plus EXCEPT ![path[n]] = cell]
    BY <2>7, <2>8, <2>9
  <2>12. /\ cells' \in [DOMAIN cells \cup {new} -> ListCells]
         /\ cells'[path[n]] = cell
         /\ \A m \in DOMAIN cells : m # path[n] => cells'[m] = cells[m]
         /\ cells'[new].data = v /\ cells'[new].next = NULL
    BY <1>1, <1>4, <2>3, <2>5, <2>9, <2>10, <2>11
  <2>13. SinglyTypes'
    BY <1>2, <2>1, <2>12 DEF SinglyTypes
  <2> DEFINE longer == [k \in 1 .. n + 1 |-> IF k = n + 1 THEN new ELSE path[k]]
  <2>14. \A k \in 1 .. n : k \in 1 .. n + 1 /\ k # n + 1 /\ longer[k] = path[k]
    OBVIOUS
  <2>15. longer[n + 1] = new /\ \A k \in 1 .. n + 1 : k = n + 1 \/ k \in 1 .. n
    OBVIOUS
  <2>16. longer \in [1 .. n + 1 -> DOMAIN cells']
    BY <2>5, <2>12
  <2> HIDE DEF longer
  <2>17. \A h, k \in 1 .. n + 1 : longer[h] = longer[k] => h = k
    BY <2>4, <2>5, <2>14, <2>15
  <2>18. \A m \in DOMAIN cells' : \E k \in 1 .. n + 1 : m = longer[k]
    BY <2>4, <2>12, <2>14, <2>15
  <2>19. ASSUME NEW k \in 1 .. n + 1
         PROVE  /\ cells'[longer[k]].data = values'[k]
                /\ cells'[longer[k]].next = IF k = n + 1 THEN NULL ELSE longer[k + 1]
    <3>1. CASE k = n + 1
      BY <1>7, <2>12, <2>15, <3>1
    <3>2. CASE k = n
      BY <1>7, <2>5, <2>10, <2>12, <2>14, <2>15, <3>2
    <3>3. CASE k \in 1 .. n /\ k # n
      <4>1. k + 1 \in 1 .. n /\ longer[k + 1] = path[k + 1] /\ longer[k] = path[k]
        BY <2>14, <3>3
      <4>2. path[k] # path[n] /\ path[k] \in DOMAIN cells
        BY <2>3, <2>4, <2>5, <3>3
      <4> QED
        BY <1>7, <2>5, <2>12, <3>3, <4>1, <4>2
    <3> QED
      BY <2>15, <3>1, <3>2, <3>3
  <2>20. IsChain(longer, values, listHead)'
    <3>1. LinkAt(longer, n + 1, 1) = longer[1] /\ longer[1] = path[1]
      BY <2>3, <2>14 DEF LinkAt
    <3>2. \A k \in 1 .. n + 1 :
            LinkAt(longer, n + 1, k + 1) = IF k = n + 1 THEN NULL ELSE longer[k + 1]
      BY DEF LinkAt
    <3>3. \A k : LinkAt(longer, Len(values), k)' = LinkAt(longer, n + 1, k)
      BY <1>7 DEF LinkAt
    <3> QED
      BY <1>7, <2>6, <2>16, <2>17, <2>18, <2>19, <3>1, <3>2, <3>3 DEF IsChain
  <2> QED
    BY <1>2, <2>13, <2>20 DEF SinglyInv
<1> QED
  BY <1>8, <1>9

\* A chain without its first node, which is freed: what delete_node does with
\* the head, and free_list with every node.
LEMMA FirstFreed ==
  ASSUME SinglyTypes, NEW path, NEW data, NEW start, IsChain(path, data, start),
         start # NULL, cells' = Singly!Without(start),
         NEW newStart, newStart = cells[start].next
  PROVE  \E shorter : IsChain(shorter, RemoveAt(data, 1), newStart)'
<1>1. 1 \in 1 .. Len(data) /\ start = path[1]
  BY ChainFacts
<1>2. /\ DOMAIN cells' = DOMAIN cells \ {path[1]}
      /\ \A m \in DOMAIN cells' : cells'[m] = cells[m]
  BY <1>1 DEF Singly!Without
<1>3. ASSUME NEW m \in DOMAIN cells PROVE cells[m].next # path[1]
  <2>1. PICK n \in Nat : n = Len(data)
    BY ChainFacts
  <2>2. PICK k \in 1 .. n : m = path[k]
    BY <2>1 DEF IsChain
  <2>3. path[1] # NULL
    BY <1>1, ChainFacts
  <2>4. k # n => k + 1 \in 1 .. n /\ k + 1 # 1 /\ 1 \in 1 .. n
    BY <2>1
  <2>5. k # n => path[k + 1] # path[1]
    BY <2>1, <2>4 DEF IsChain
  <2> QED
    BY <2>1, <2>2, <2>3, <2>5, ChainFacts
<1> QED
  BY <1>1, <1>2, <1>3, ChainShortened

\* The types of what is left of memory.
LEMMA TypesWithout ==
  ASSUME SinglyTypes, NEW m, cells' = Singly!Without(m), listPc' \in {"idle", "free"}
  PROVE  SinglyTypes'
BY DEF SinglyTypes, Singly!Without

\* RemoveFirst, as the list finds it and in the words of SequencesExt.
LEMMA SameRemoveFirst == \A s, e : Singly!RemoveFirst(s, e) = RemoveFirst(s, e)
BY Zenon DEF Singly!RemoveFirst, RemoveFirst, Singly!RemoveAt, RemoveAt,
             Singly!SelectInSeq, SelectInSeq, Singly!Min, Min

\* delete_node returns at once, or goes to its loop.
LEMMA DeletionBegins ==
  ASSUME SinglyInv, NEW v \in Keys, Singly!delete_node(v)
  PROVE  SinglyInv'
<1>1. listPc = "idle" /\ listHead # NULL /\ SinglyTypes
  BY DEF Singly!delete_node, SinglyInv
<1>2. PICK path : IsChain(path, values, listHead)
  BY <1>1 DEF SinglyInv
<1>3. PICK data, start : data = values /\ start = listHead
  OBVIOUS
<1>4. IsChain(path, data, start)
  BY <1>2, <1>3
<1>5. /\ data \in Seq(Keys) /\ 1 \in 1 .. Len(data) /\ start = path[1]
      /\ start \in DOMAIN cells /\ cells[start].data = data[1]
  <2>1. start # NULL /\ data \in Seq(Keys)
    BY <1>1, <1>3, <1>4 DEF IsChain
  <2>2. 1 \in 1 .. Len(data) /\ start = path[1]
    BY <1>1, <1>4, <2>1, ChainFacts
  <2> QED
    BY <1>1, <1>4, <2>1, <2>2, ChainFacts
<1>6. values' = RemoveFirst(data, v)
  BY <1>3, SameRemoveFirst DEF Singly!delete_node
<1>7. CASE cells[start].data = v
  <2>1. /\ listHead' = cells[start].next /\ cells' = Singly!Without(start)
        /\ listPc' = "idle"
    BY <1>1, <1>3, <1>7 DEF Singly!delete_node
  <2>2. PICK next : next = cells[start].next
    OBVIOUS
  <2>3. PICK shorter : IsChain(shorter, RemoveAt(data, 1), next)'
    BY <1>1, <1>3, <1>4, <2>1, <2>2, FirstFreed
  <2>4. RemoveFirst(data, data[1]) = RemoveAt(data, 1)
    <3>1. \A k \in 1 .. Len(data) : data[k] = data[1] => 1 <= k
      OBVIOUS
    <3> QED
      BY <1>5, <3>1, RemoveFirstFound
  <2>5. values' = RemoveAt(data, 1) /\ listHead' = next
    BY <1>5, <1>6, <1>7, <2>1, <2>2, <2>4
  <2>6. IsChain(shorter, values, listHead)'
    BY <2>3, <2>5 DEF IsChain
  <2>7. SinglyTypes'
    BY <1>1, <2>1, TypesWithout
  <2> QED
    BY <2>1, <2>6, <2>7 DEF SinglyInv
<1>8. CASE cells[start].data # v
  <2>1. /\ listTemp' = start /\ value' = v /\ listPc' = "walk"
        /\ cells' = cells /\ listHead' = start
    BY <1>1, <1>3, <1>8 DEF Singly!delete_node
  <2>2. IsChain(path, data, listHead)'
    BY <1>4, <2>1 DEF IsChain
  <2>3. \A j \in 1 .. 1 : data[j] # v
    BY <1>5, <1>8
  <2>4. SinglyTypes'
    BY <1>1, <2>1 DEF SinglyTypes
  <2>5. \E k \in 1 .. Len(data) : listTemp' = path[k] /\ \A j \in 1 .. k : data[j] # value'
    BY <1>5, <2>1, <2>3
  <2> QED
    BY <1>6, <2>1, <2>2, <2>4, <2>5 DEF SinglyInv
<1> QED
  BY <1>7, <1>8

\* The loop of delete_node, with the chain that the call has found.
LEMMA WalkFacts ==
  ASSUME SinglyInv, listPc = "walk"
  PROVE  \E path, data, start, v :
           /\ start = listHead /\ v = value
           /\ IsChain(path, data, start) /\ data \in Seq(Keys) /\ Len(data) \in Nat
           /\ values = RemoveFirst(data, v)
           /\ \E k \in 1 .. Len(data) :
                /\ listTemp = path[k] /\ path[k] \in DOMAIN cells /\ path[k] # NULL
                /\ \A j \in 1 .. k : data[j] # v
                /\ Singly!NextOfTemp = IF k = Len(data) THEN NULL ELSE path[k + 1]
                /\ k # Len(data) =>
                     /\ k + 1 \in 1 .. Len(data)
                     /\ path[k + 1] \in DOMAIN cells /\ path[k + 1] # NULL
                     /\ cells[path[k + 1]].data = data[k + 1]
<1>1. PICK path, data :
        /\ IsChain(path, data, listHead)
        /\ values = RemoveFirst(data, value)
        /\ \E k \in 1 .. Len(data) :
             listTemp = path[k] /\ \A j \in 1 .. k : data[j] # value
  BY DEF SinglyInv
<1>2. PICK k \in 1 .. Len(data) : listTemp = path[k] /\ \A j \in 1 .. k : data[j] # value
  BY <1>1
<1>3. PICK start, v : start = listHead /\ v = value
  OBVIOUS
<1>4. data \in Seq(Keys)
  BY <1>1 DEF IsChain
<1>5. SinglyTypes /\ IsChain(path, data, start)
  BY <1>1, <1>3 DEF SinglyInv
<1>6. /\ Len(data) \in Nat
      /\ \A j \in 1 .. Len(data) :
           /\ path[j] \in DOMAIN cells /\ path[j] # NULL
           /\ cells[path[j]].data = data[j]
           /\ cells[path[j]].next = IF j = Len(data) THEN NULL ELSE path[j + 1]
  BY <1>5, ChainFacts
<1>7. k # Len(data) => k + 1 \in 1 .. Len(data)
  BY <1>6
<1>8. Singly!NextOfTemp = IF k = Len(data) THEN NULL ELSE path[k + 1]
  BY <1>2, <1>6 DEF Singly!NextOfTemp
<1> QED
  BY <1>1, <1>2, <1>3, <1>4, <1>5, <1>6, <1>7, <1>8

\* The node after temp is unlinked and freed.
LEMMA NextDeleted ==
  ASSUME SinglyInv, Singly!DeleteNext
  PROVE  SinglyInv'
<1>1. /\ listPc = "walk" /\ Singly!NextOfTemp # NULL
      /\ cells[Singly!NextOfTemp].data = value
      /\ cells' = [Singly!Without(Singly!NextOfTemp)
                     EXCEPT ![listTemp].next = cells[Singly!NextOfTemp].next]
      /\ listPc' = "idle" /\ listHead' = listHead /\ values' = values
  BY DEF Singly!DeleteNext, Singly!Unlink, Singly!Return
<1>2. PICK path, data, start, v :
           /\ start = listHead /\ v = value
           /\ IsChain(path, data, start) /\ data \in Seq(Keys) /\ Len(data) \in Nat
           /\ values = RemoveFirst(data, v)
           /\ \E k \in 1 .. Len(data) :
                /\ listTemp = path[k] /\ path[k] \in DOMAIN cells /\ path[k] # NULL
                /\ \A j \in 1 .. k : data[j] # v
                /\ Singly!NextOfTemp = IF k = Len(data) THEN NULL ELSE path[k + 1]
                /\ k # Len(data) =>
                     /\ k + 1 \in 1 .. Len(data)
                     /\ path[k + 1] \in DOMAIN cells /\ path[k + 1] # NULL
                     /\ cells[path[k + 1]].data = data[k + 1]
  BY <1>1, WalkFacts
<1>3. PICK k \in 1 .. Len(data) :
        /\ listTemp = path[k] /\ path[k] \in DOMAIN cells
        /\ \A j \in 1 .. k : data[j] # v
        /\ k # Len(data) /\ Singly!NextOfTemp = path[k + 1]
        /\ k + 1 \in 1 .. Len(data) /\ path[k + 1] \in DOMAIN cells
        /\ data[k + 1] = v
  BY <1>1, <1>2
<1>4. PICK gone, temporary, after :
        /\ gone = path[k + 1] /\ temporary = path[k] /\ after = cells[gone].next
  OBVIOUS
<1>5. SinglyTypes
  BY DEF SinglyInv
<1>6. gone # temporary /\ temporary \in DOMAIN cells /\ gone \in DOMAIN cells
  BY <1>2, <1>3, <1>4 DEF IsChain
<1>7. PICK without : without = Singly!Without(gone)
  OBVIOUS
<1>8. /\ without \in [DOMAIN cells \ {gone} -> ListCells]
      /\ \A m \in DOMAIN cells \ {gone} : without[m] = cells[m]
  BY <1>5, <1>7 DEF Singly!Without, SinglyTypes
<1>9. cells' = [without EXCEPT ![temporary].next = after]
  BY <1>1, <1>3, <1>4, <1>7
<1>10. PICK cell : cell = [without[temporary] EXCEPT !.next = after]
  OBVIOUS
<1>11. cell \in ListCells /\ cell.next = after /\ cell.data = cells[temporary].data
  <2>1. after \in ListNodes \cup {NULL}
    BY <1>4, <1>5, <1>6, CellsTyped
  <2>2. without[temporary] \in ListCells /\ without[temporary] = cells[temporary]
    BY <1>6, <1>8
  <2> QED
    BY <1>10, <2>1, <2>2 DEF ListCells
<1>12. cells' = [without EXCEPT ![temporary] = cell]
  BY <1>6, <1>8, <1>9, <1>10
<1>13. /\ cells' \in [DOMAIN cells \ {gone} -> ListCells]
       /\ cells'[temporary] = cell
       /\ \A m \in DOMAIN cells \ {gone} : m # temporary => cells'[m] = cells[m]
  BY <1>6, <1>8, <1>11, <1>12
<1>14. SinglyTypes'
  BY <1>1, <1>5, <1>13 DEF SinglyTypes
<1>15. ASSUME NEW m \in DOMAIN cells PROVE cells[m].next = gone <=> m = temporary
  <2>1. PICK n \in Nat : n = Len(data)
    BY <1>2
  <2>2. PICK j \in 1 .. n : m = path[j]
    BY <1>2, <2>1 DEF IsChain
  <2>3. cells[m].next = IF j = n THEN NULL ELSE path[j + 1]
    BY <1>2, <1>5, <2>1, <2>2, ChainFacts
  <2>4. gone # NULL
    BY <1>2, <1>3, <1>4, <1>5, ChainFacts
  <2>5. j # n => (path[j + 1] = path[k + 1] <=> j + 1 = k + 1)
    <3>1. j # n => j + 1 \in 1 .. n
      BY <2>1
    <3> QED
      BY <1>2, <1>3, <2>1, <3>1 DEF IsChain
  <2>6. m = temporary <=> j = k
    BY <1>2, <1>3, <1>4, <2>1, <2>2 DEF IsChain
  <2>7. j + 1 = k + 1 <=> j = k
    BY <2>1, <2>2, <1>3
  <2>8. j = k => j # n
    BY <1>3, <2>1
  <2> QED
    BY <1>4, <2>3, <2>4, <2>5, <2>6, <2>7, <2>8
<1>16. \A m \in DOMAIN cells' :
         /\ cells'[m].data = cells[m].data
         /\ cells'[m].next = IF cells[m].next = gone THEN cells[gone].next ELSE cells[m].next
  <2> SUFFICES ASSUME NEW m \in DOMAIN cells \ {gone}
               PROVE  /\ cells'[m].data = cells[m].data
                      /\ cells'[m].next = IF cells[m].next = gone THEN cells[gone].next
                                                                  ELSE cells[m].next
    BY <1>13
  <2>1. CASE m = temporary
    BY <1>4, <1>11, <1>13, <1>15, <2>1
  <2>2. CASE m # temporary
    BY <1>13, <1>15, <2>2
  <2> QED
    BY <2>1, <2>2
<1>17. PICK place : place = k + 1
  OBVIOUS
<1>18. place \in 1 .. Len(data) /\ place # 1 /\ path[place] = gone
  BY <1>2, <1>3, <1>4, <1>17
<1>19. PICK shorter : IsChain(shorter, RemoveAt(data, place), start)'
  <2>1. start = IF place = 1 THEN cells[path[1]].next ELSE start
    BY <1>18
  <2>2. DOMAIN cells' = DOMAIN cells \ {path[place]}
    BY <1>13, <1>18
  <2>3. \A m \in DOMAIN cells' :
         /\ cells'[m].data = cells[m].data
         /\ cells'[m].next = IF cells[m].next = path[place] THEN cells[path[place]].next
                                                            ELSE cells[m].next
    BY <1>16, <1>18
  <2> QED
    BY <1>2, <1>5, <1>18, <2>1, <2>2, <2>3, ChainShortened
<1>20. RemoveFirst(data, v) = RemoveAt(data, place)
  <2>1. data[place] = v
    BY <1>3, <1>17
  <2>2. \A j \in 1 .. Len(data) : data[j] = data[place] => place <= j
    BY <1>2, <1>3, <1>17, <2>1
  <2>3. RemoveFirst(data, data[place]) = RemoveAt(data, place)
    BY <1>2, <1>18, <2>2, RemoveFirstFound
  <2> QED
    BY <2>1, <2>3
<1>21. values' = RemoveAt(data, place) /\ listHead' = start
  BY <1>1, <1>2, <1>20
<1>22. IsChain(shorter, values, listHead)'
  BY <1>19, <1>21 DEF IsChain
<1> QED
  BY <1>1, <1>14, <1>22 DEF SinglyInv

\* The node after temp holds another value.
LEMMA LoopAdvanced ==
  ASSUME SinglyInv, Singly!Advance
  PROVE  SinglyInv'
<1>1. /\ listPc = "walk" /\ Singly!NextOfTemp # NULL
      /\ cells[Singly!NextOfTemp].data # value
      /\ listTemp' = Singly!NextOfTemp
      /\ UNCHANGED <<listHead, cells, value, listPc, values>>
  BY DEF Singly!Advance
<1>2. PICK path, data, start, v :
           /\ start = listHead /\ v = value
           /\ IsChain(path, data, start) /\ data \in Seq(Keys) /\ Len(data) \in Nat
           /\ values = RemoveFirst(data, v)
           /\ \E k \in 1 .. Len(data) :
                /\ listTemp = path[k] /\ path[k] \in DOMAIN cells /\ path[k] # NULL
                /\ \A j \in 1 .. k : data[j] # v
                /\ Singly!NextOfTemp = IF k = Len(data) THEN NULL ELSE path[k + 1]
                /\ k # Len(data) =>
                     /\ k + 1 \in 1 .. Len(data)
                     /\ path[k + 1] \in DOMAIN cells /\ path[k + 1] # NULL
                     /\ cells[path[k + 1]].data = data[k + 1]
  BY <1>1, WalkFacts
<1>3. PICK k \in 1 .. Len(data) :
        /\ \A j \in 1 .. k : data[j] # v
        /\ Singly!NextOfTemp = path[k + 1]
        /\ k + 1 \in 1 .. Len(data) /\ data[k + 1] # v
  BY <1>1, <1>2
<1>4. listTemp' = path[k + 1] /\ \A j \in 1 .. k + 1 : data[j] # v
  <2>1. \A j \in 1 .. k + 1 : j \in 1 .. k \/ j = k + 1
    BY <1>2
  <2> QED
    BY <1>1, <1>3, <2>1
<1>5. IsChain(path, data, listHead)' /\ values' = RemoveFirst(data, value') /\ value' = v
  BY <1>1, <1>2 DEF IsChain
<1>6. SinglyTypes'
  BY <1>1 DEF SinglyInv, SinglyTypes
<1>7. listPc' = "walk"
  BY <1>1
<1> QED
  BY <1>3, <1>4, <1>5, <1>6, <1>7 DEF SinglyInv

\* The loop has come to the end: there was nothing to delete.
LEMMA ValueNotFound ==
  ASSUME SinglyInv, Singly!NotFound
  PROVE  SinglyInv'
<1>1. /\ listPc = "walk" /\ Singly!NextOfTemp = NULL
      /\ listPc' = "idle"
      /\ UNCHANGED <<listHead, cells, values>>
  BY DEF Singly!NotFound, Singly!Return
<1>2. PICK path, data, start, v :
           /\ start = listHead /\ v = value
           /\ IsChain(path, data, start) /\ data \in Seq(Keys) /\ Len(data) \in Nat
           /\ values = RemoveFirst(data, v)
           /\ \E k \in 1 .. Len(data) :
                /\ listTemp = path[k] /\ path[k] \in DOMAIN cells /\ path[k] # NULL
                /\ \A j \in 1 .. k : data[j] # v
                /\ Singly!NextOfTemp = IF k = Len(data) THEN NULL ELSE path[k + 1]
                /\ k # Len(data) =>
                     /\ k + 1 \in 1 .. Len(data)
                     /\ path[k + 1] \in DOMAIN cells /\ path[k + 1] # NULL
                     /\ cells[path[k + 1]].data = data[k + 1]
  BY <1>1, WalkFacts
<1>3. \A j \in 1 .. Len(data) : data[j] # v
  BY <1>1, <1>2
<1>4. values = data
  BY <1>2, <1>3 DEF RemoveFirst
<1>5. IsChain(path, values, listHead)'
  BY <1>1, <1>2, <1>4 DEF IsChain
<1>6. SinglyTypes'
  BY <1>1 DEF SinglyInv, SinglyTypes
<1> QED
  BY <1>1, <1>5, <1>6 DEF SinglyInv

\* free_list begins, frees one node, and leaves a head that leads nowhere.
LEMMA ListFreed ==
  ASSUME SinglyInv, Singly!free_list \/ Singly!FreeNode \/ Singly!FreeEnds
  PROVE  SinglyInv'
<1>1. CASE Singly!free_list
  <2>1. /\ listPc = "idle" /\ listPc' = "free" /\ listTemp' = listHead
        /\ values' = << >> /\ cells' = cells
    BY <1>1 DEF Singly!free_list
  <2>2. PICK path, data : data = values /\ IsChain(path, data, listHead)
    BY <2>1 DEF SinglyInv
  <2>3. IsChain(path, data, listTemp)'
    BY <2>1, <2>2 DEF IsChain
  <2>4. SinglyTypes'
    BY <2>1 DEF SinglyInv, SinglyTypes
  <2> QED
    BY <2>1, <2>3, <2>4 DEF SinglyInv
<1>2. CASE Singly!FreeNode
  <2>1. /\ listPc = "free" /\ listTemp # NULL /\ listTemp' = Singly!NextOfTemp
        /\ cells' = Singly!Without(listTemp) /\ listPc' = listPc /\ values' = values
    BY <1>2 DEF Singly!FreeNode
  <2>2. values = << >> /\ SinglyTypes
    BY <2>1 DEF SinglyInv
  <2>3. PICK path, data, start : start = listTemp /\ IsChain(path, data, start)
    BY <2>1 DEF SinglyInv
  <2>4. PICK next : next = cells[start].next
    OBVIOUS
  <2>5. PICK shorter : IsChain(shorter, RemoveAt(data, 1), next)'
    BY <2>1, <2>2, <2>3, <2>4, FirstFreed
  <2>6. listTemp' = next
    BY <2>1, <2>3, <2>4 DEF Singly!NextOfTemp
  <2>7. IsChain(shorter, RemoveAt(data, 1), listTemp)'
    BY <2>5, <2>6 DEF IsChain
  <2>8. SinglyTypes'
    BY <2>1, <2>2, TypesWithout
  <2> QED
    BY <2>1, <2>2, <2>7, <2>8 DEF SinglyInv
<1>3. CASE Singly!FreeEnds
  <2>1. /\ listPc = "free" /\ listTemp = NULL /\ listPc' = "dangling"
        /\ cells' = cells /\ values' = values
    BY <1>3 DEF Singly!FreeEnds
  <2>2. values = << >> /\ SinglyTypes
    BY <2>1 DEF SinglyInv
  <2>3. PICK path, data : IsChain(path, data, listTemp)
    BY <2>1 DEF SinglyInv
  <2>4. PICK n : n = Len(data)
    OBVIOUS
  <2>5. n = 0
    BY <2>1, <2>2, <2>3, <2>4, ChainFacts
  <2>6. \A m \in DOMAIN cells : \E k \in 1 .. n : m = path[k]
    BY <2>3, <2>4 DEF IsChain
  <2>7. \A m : m \notin DOMAIN cells
    BY <2>5, <2>6
  <2>8. cells = << >>
    <3>1. cells \in [1 .. 0 -> ListCells]
      <4>1. DOMAIN cells = 1 .. 0
        BY <2>7
      <4> QED
        BY <2>2, <4>1 DEF SinglyTypes
    <3>2. cells \in Seq(ListCells) /\ Len(cells) = 0
      BY <3>1
    <3> QED
      BY <3>2, EmptySeq
  <2>9. SinglyTypes'
    BY <2>1, <2>2 DEF SinglyTypes
  <2> QED
    BY <2>1, <2>2, <2>8, <2>9 DEF SinglyInv
<1> QED
  BY <1>1, <1>2, <1>3

\* What is read along a chain are the values from the node on, and those nodes.
LEMMA ValuesAlongChain ==
  ASSUME SinglyTypes, NEW path, NEW data, NEW start, IsChain(path, data, start)
  PROVE  Singly!ValuesFrom[start] = data
<1>1. PICK n \in Nat : n = Len(data)
  BY ChainFacts
<1>2. /\ data \in Seq(Keys)
      /\ \A h, k \in 1 .. n : path[h] = path[k] => h = k
      /\ \A m \in DOMAIN cells : \E k \in 1 .. n : m = path[k]
  BY <1>1 DEF IsChain
<1>3. /\ \A k \in 1 .. n : /\ path[k] \in DOMAIN cells /\ path[k] # NULL
                           /\ cells[path[k]].data = data[k]
                           /\ cells[path[k]].next = IF k = n THEN NULL ELSE path[k + 1]
      /\ start = IF n = 0 THEN NULL ELSE path[1]
  BY <1>1, ChainFacts
<1>4. /\ SubSeq(data, 1, n) = data /\ SubSeq(data, n + 1, n) = << >>
      /\ \A k \in 1 .. n : <<data[k]>> \o SubSeq(data, k + 1, n) = SubSeq(data, k, n)
  BY <1>1, <1>2, SuffixProperties
<1> DEFINE D == DOMAIN cells \cup {NULL}
           Step(g) == [m \in D |-> IF m = NULL THEN << >>
                                   ELSE <<cells[m].data>> \o g[cells[m].next]]
           Place(m) == CHOOSE k \in 1 .. n : path[k] = m
           f == [m \in D |-> IF m = NULL THEN << >> ELSE SubSeq(data, Place(m), n)]
<1>5. \A m \in D : m = NULL \/ \E k \in 1 .. n : m = path[k]
  BY <1>2
<1>6. /\ f[NULL] = << >>
      /\ \A k \in 1 .. n : f[path[k]] = SubSeq(data, k, n)
  <2>1. \A k \in 1 .. n : Place(path[k]) = k
    BY <1>2
  <2> QED
    BY <1>3, <2>1
<1> HIDE DEF f
<1>7. f = Step(f)
  <2>1. ASSUME NEW m \in D, m # NULL PROVE f[m] = <<cells[m].data>> \o f[cells[m].next]
    <3>1. PICK k \in 1 .. n : m = path[k]
      BY <1>5, <2>1
    <3>2. f[cells[m].next] = SubSeq(data, k + 1, n)
      <4>1. CASE k = n
        BY <1>3, <1>4, <1>6, <3>1, <4>1
      <4>2. CASE k # n
        <5>1. k + 1 \in 1 .. n
          BY <4>2
        <5> QED
          BY <1>3, <1>6, <3>1, <4>2, <5>1
      <4> QED
        BY <4>1, <4>2
    <3> QED
      BY <1>3, <1>4, <1>6, <3>1, <3>2
  <2>2. f = [m \in D |-> f[m]]
    BY DEF f
  <2> QED
    BY <1>6, <2>1, <2>2
<1>8. Singly!ValuesFrom = CHOOSE g : g = Step(g)
  BY DEF Singly!ValuesFrom
<1> HIDE DEF Step
<1>9. PICK g : g = Singly!ValuesFrom /\ g = Step(g)
  BY <1>7, <1>8, Zenon
<1>10. /\ g[NULL] = << >>
       /\ \A m \in DOMAIN cells : m # NULL => g[m] = <<cells[m].data>> \o g[cells[m].next]
  BY <1>9 DEF Step
<1> DEFINE read == [k \in Nat |-> IF k <= n /\ k # 0 THEN g[path[n + 1 - k]] ELSE << >>]
           kept == [k \in Nat |-> IF k <= n THEN SubSeq(data, n + 1 - k, n) ELSE << >>]
<1>11. read[0] = kept[0]
  BY <1>4
<1>12. ASSUME NEW k \in Nat, read[k] = kept[k] PROVE read[k + 1] = kept[k + 1]
  <2>1. CASE k + 1 <= n
    <3>1. PICK j \in 1 .. n : j = n - k
      BY <2>1
    <3>2. n + 1 - (k + 1) = j /\ n + 1 - k = j + 1
      BY <3>1
    <3>3. read[k + 1] = g[path[j]] /\ kept[k + 1] = SubSeq(data, j, n)
      <4>1. k + 1 \in Nat /\ k + 1 # 0
        OBVIOUS
      <4> QED
        BY <2>1, <3>2, <4>1
    <3>4. kept[k] = SubSeq(data, j + 1, n)
      BY <2>1, <3>2
    <3>5. g[path[j]] = <<data[j]>> \o g[cells[path[j]].next]
      BY <1>3, <1>10
    <3>6. read[k] = g[cells[path[j]].next]
      <4>1. CASE k = 0
        <5>1. j = n /\ read[k] = << >>
          BY <3>1, <4>1
        <5> QED
          BY <1>3, <1>10, <5>1
      <4>2. CASE k # 0
        <5>1. j # n /\ read[k] = g[path[j + 1]]
          BY <2>1, <3>1, <3>2, <4>2
        <5> QED
          BY <1>3, <5>1
      <4> QED
        BY <4>1, <4>2
    <3> QED
      BY <1>4, <1>12, <3>3, <3>4, <3>5, <3>6
  <2>2. CASE ~(k + 1 <= n)
    BY <2>2
  <2> QED
    BY <2>1, <2>2
<1> HIDE DEF read, kept
<1>13. \A k \in Nat : read[k] = kept[k]
  BY <1>11, <1>12, SameEverywhere
<1>14. g[start] = data
  <2>1. CASE n = 0
    BY <1>3, <1>4, <1>10, <2>1
  <2>2. CASE n # 0
    <3>1. n + 1 - n = 1
      OBVIOUS
    <3>2. read[n] = g[start] /\ kept[n] = data
      BY <1>3, <1>4, <2>2, <3>1 DEF read, kept
    <3> QED
      BY <1>13, <3>2
  <2> QED
    BY <2>1, <2>2
<1> QED
  BY <1>9, <1>14

\* The nodes read along a chain are all of memory that is allocated.
LEMMA NodesAlongChain ==
  ASSUME SinglyTypes, NEW path, NEW data, NEW start, IsChain(path, data, start)
  PROVE  Singly!NodesFrom[start] = DOMAIN cells
<1>1. PICK n \in Nat : n = Len(data)
  BY ChainFacts
<1>2. /\ \A h, k \in 1 .. n : path[h] = path[k] => h = k
      /\ \A m \in DOMAIN cells : \E k \in 1 .. n : m = path[k]
  BY <1>1 DEF IsChain
<1>3. /\ \A k \in 1 .. n : /\ path[k] \in DOMAIN cells /\ path[k] # NULL
                           /\ cells[path[k]].next = IF k = n THEN NULL ELSE path[k + 1]
      /\ start = IF n = 0 THEN NULL ELSE path[1]
  BY <1>1, ChainFacts
<1> DEFINE D == DOMAIN cells \cup {NULL}
           From(k) == {path[j] : j \in k .. n}
           Step(g) == [m \in D |-> IF m = NULL THEN {} ELSE {m} \cup g[cells[m].next]]
           Place(m) == CHOOSE k \in 1 .. n : path[k] = m
           f == [m \in D |-> IF m = NULL THEN {} ELSE From(Place(m))]
<1>4. /\ From(1) = DOMAIN cells /\ From(n + 1) = {}
      /\ \A k \in 1 .. n : {path[k]} \cup From(k + 1) = From(k)
  <2>1. From(1) = DOMAIN cells
    BY <1>2, <1>3
  <2>2. From(n + 1) = {}
    OBVIOUS
  <2>3. ASSUME NEW k \in 1 .. n PROVE {path[k]} \cup From(k + 1) = From(k)
    <3>1. \A j : j \in k .. n <=> j = k \/ j \in k + 1 .. n
      OBVIOUS
    <3> QED
      BY <3>1
  <2> QED
    BY <2>1, <2>2, <2>3
<1>5. \A m \in D : m = NULL \/ \E k \in 1 .. n : m = path[k]
  BY <1>2
<1> HIDE DEF From
<1>6. f[NULL] = {} /\ \A k \in 1 .. n : f[path[k]] = From(k)
  <2>1. \A k \in 1 .. n : Place(path[k]) = k
    BY <1>2
  <2> QED
    BY <1>3, <2>1
<1> HIDE DEF f
<1>7. f = Step(f)
  <2>1. ASSUME NEW m \in D, m # NULL PROVE f[m] = {m} \cup f[cells[m].next]
    <3>1. PICK k \in 1 .. n : m = path[k]
      BY <1>5, <2>1
    <3>2. f[cells[m].next] = From(k + 1)
      <4>1. CASE k = n
        BY <1>3, <1>4, <1>6, <3>1, <4>1
      <4>2. CASE k # n
        <5>1. k + 1 \in 1 .. n
          BY <4>2
        <5> QED
          BY <1>3, <1>6, <3>1, <4>2, <5>1
      <4> QED
        BY <4>1, <4>2
    <3> QED
      BY <1>4, <1>6, <3>1, <3>2
  <2>2. f = [m \in D |-> f[m]]
    BY DEF f
  <2> QED
    BY <1>6, <2>1, <2>2
<1>8. Singly!NodesFrom = CHOOSE g : g = Step(g)
  BY DEF Singly!NodesFrom
<1> HIDE DEF Step
<1>9. PICK g : g = Singly!NodesFrom /\ g = Step(g)
  BY <1>7, <1>8, Zenon
<1>10. g[NULL] = {} /\ \A m \in DOMAIN cells : m # NULL => g[m] = {m} \cup g[cells[m].next]
  BY <1>9 DEF Step
<1> DEFINE read == [k \in Nat |-> IF k <= n /\ k # 0 THEN g[path[n + 1 - k]] ELSE {}]
           kept == [k \in Nat |-> IF k <= n THEN From(n + 1 - k) ELSE {}]
<1>11. read[0] = kept[0]
  BY <1>4
<1>12. ASSUME NEW k \in Nat, read[k] = kept[k] PROVE read[k + 1] = kept[k + 1]
  <2>1. CASE k + 1 <= n
    <3>1. PICK j \in 1 .. n : j = n - k
      BY <2>1
    <3>2. n + 1 - (k + 1) = j /\ n + 1 - k = j + 1 /\ k + 1 \in Nat /\ k + 1 # 0
      BY <3>1
    <3>3. read[k + 1] = g[path[j]] /\ kept[k + 1] = From(j) /\ kept[k] = From(j + 1)
      BY <2>1, <3>2
    <3>4. g[path[j]] = {path[j]} \cup g[cells[path[j]].next]
      BY <1>3, <1>10
    <3>5. read[k] = g[cells[path[j]].next]
      <4>1. CASE k = 0
        <5>1. j = n /\ read[k] = {}
          BY <3>1, <4>1
        <5> QED
          BY <1>3, <1>10, <5>1
      <4>2. CASE k # 0
        <5>1. j # n /\ read[k] = g[path[j + 1]]
          BY <2>1, <3>1, <3>2, <4>2
        <5> QED
          BY <1>3, <5>1
      <4> QED
        BY <4>1, <4>2
    <3> QED
      BY <1>4, <1>12, <3>3, <3>4, <3>5
  <2>2. CASE ~(k + 1 <= n)
    BY <2>2
  <2> QED
    BY <2>1, <2>2
<1> HIDE DEF read, kept
<1>13. \A k \in Nat : read[k] = kept[k]
  BY <1>11, <1>12, SameEverywhere
<1>14. g[start] = DOMAIN cells
  <2>1. CASE n = 0
    BY <1>3, <1>4, <1>10, <2>1
  <2>2. CASE n # 0
    <3>1. n + 1 - n = 1
      OBVIOUS
    <3>2. read[n] = g[start] /\ kept[n] = DOMAIN cells
      BY <1>3, <1>4, <2>2, <3>1 DEF read, kept
    <3> QED
      BY <1>13, <3>2
  <2> QED
    BY <2>1, <2>2
<1> QED
  BY <1>9, <1>14

\* The chain of the list, through every function.
LEMMA SinglyInvariance == Spec => []SinglyInv
<1>1. Init => SinglyInv
  <2> SUFFICES ASSUME Init PROVE SinglyInv
    OBVIOUS
  <2>1. listHead = NULL /\ cells = << >> /\ listPc = "idle" /\ values = << >>
    BY DEF Init, Singly!Init
  <2>2. DOMAIN cells = {} /\ Len(values) = 0 /\ 1 .. 0 = {}
    BY <2>1
  <2>3. SinglyTypes
    <3>1. cells \in [DOMAIN cells -> ListCells]
      BY <2>1, <2>2
    <3> QED
      BY <2>1, <2>2, <3>1 DEF SinglyTypes
  <2> DEFINE empty == [k \in 1 .. 0 |-> NULL]
  <2>4. IsChain(empty, values, listHead)
    <3>1. values \in Seq(Keys)
      BY <2>1
    <3> QED
      BY <2>1, <2>2, <3>1 DEF IsChain, LinkAt
  <2> QED
    BY <2>1, <2>3, <2>4 DEF SinglyInv
<1>2. SinglyInv /\ [Next]_vars => SinglyInv'
  <2> SUFFICES ASSUME SinglyInv, [Singly!Next]_singly PROVE SinglyInv'
    BY Frame
  <2>1. ASSUME NEW v \in Keys, Singly!create_node(v) PROVE SinglyInv'
    BY <2>1, ValueAppended
  <2>2. ASSUME NEW v \in Keys, Singly!delete_node(v) PROVE SinglyInv'
    BY <2>2, DeletionBegins
  <2>3. CASE Singly!DeleteNext
    BY <2>3, NextDeleted
  <2>4. CASE Singly!Advance
    BY <2>4, LoopAdvanced
  <2>5. CASE Singly!NotFound
    BY <2>5, ValueNotFound
  <2>6. CASE Singly!free_list \/ Singly!FreeNode \/ Singly!FreeEnds
    BY <2>6, ListFreed
  <2>7. CASE UNCHANGED singly
    <3>1. UNCHANGED <<listHead, cells, listTemp, value, listPc, values>>
      BY <2>7 DEF singly
    <3>2. SinglyTypes'
      BY <3>1 DEF SinglyInv, SinglyTypes
    <3>3. \A path, data : /\ IsChain(path, data, listHead)' <=> IsChain(path, data, listHead)
                          /\ IsChain(path, data, listTemp)' <=> IsChain(path, data, listTemp)
                          /\ IsChain(path, values, listHead)' <=> IsChain(path, values, listHead)
      BY <3>1 DEF IsChain
    <3> QED
      BY <3>1, <3>2, <3>3 DEF SinglyInv
  <2> QED
    BY <2>1, <2>2, <2>3, <2>4, <2>5, <2>6, <2>7 DEF Singly!Next
<1> QED
  BY <1>1, <1>2, PTL DEF Spec

\* List.c: between calls the list holds what was appended less what was deleted,
\* in order, and all of memory that is allocated; after free_list there is
\* nothing left. For any values and any memory.
THEOREM ListAlwaysMatches == Spec => []ListMatches
<1>1. SinglyInv => ListMatches
  <2> SUFFICES ASSUME SinglyInv PROVE Singly!ListMatches
    BY DEF ListMatches
  <2>1. CASE listPc = "idle"
    <3>1. PICK path, data, start :
            data = values /\ start = listHead /\ IsChain(path, data, start)
      BY <2>1 DEF SinglyInv
    <3>2. SinglyTypes
      BY DEF SinglyInv
    <3> QED
      BY <2>1, <3>1, <3>2, ValuesAlongChain, NodesAlongChain DEF Singly!ListMatches
  <2>2. CASE listPc # "idle"
    BY <2>2 DEF SinglyInv, Singly!ListMatches
  <2> QED
    BY <2>1, <2>2
<1> QED
  BY <1>1, SinglyInvariance, PTL

\* A chain leads to allocated nodes only, from its start and from each of them.
LEMMA ChainLinks ==
  ASSUME SinglyTypes, NEW path, NEW data, NEW start, IsChain(path, data, start)
  PROVE  /\ start \in DOMAIN cells \cup {NULL}
         /\ \A n \in DOMAIN cells : cells[n].next \in DOMAIN cells \cup {NULL}
<1>1. /\ Len(data) \in Nat
      /\ \A k \in 1 .. Len(data) :
           /\ path[k] \in DOMAIN cells
           /\ cells[path[k]].next = IF k = Len(data) THEN NULL ELSE path[k + 1]
      /\ start # NULL => 1 \in 1 .. Len(data) /\ start = path[1]
  BY ChainFacts
<1>2. ASSUME NEW n \in DOMAIN cells
      PROVE  cells[n].next \in DOMAIN cells \cup {NULL}
  <2>1. PICK k \in 1 .. Len(data) : n = path[k]
    BY DEF IsChain
  <2>2. k # Len(data) => k + 1 \in 1 .. Len(data)
    BY <1>1
  <2> QED
    BY <1>1, <2>1, <2>2
<1> QED
  BY <1>1, <1>2

\* List.c: no function follows a pointer to a node that has been freed, in a
\* program that deletes from no empty list.
THEOREM NeverFollowsFreed == Spec => []OnlyAllocatedFollowed
<1>1. SinglyInv => OnlyAllocatedFollowed
  <2> SUFFICES ASSUME SinglyInv PROVE Singly!OnlyAllocatedFollowed
    BY DEF OnlyAllocatedFollowed
  <2>1. SinglyTypes
    BY DEF SinglyInv
  <2>2. CASE listPc = "idle"
    <3>1. PICK path, data, start : start = listHead /\ IsChain(path, data, start)
      BY <2>2 DEF SinglyInv
    <3> QED
      BY <2>1, <2>2, <3>1, ChainLinks DEF Singly!OnlyAllocatedFollowed
  <2>3. CASE listPc = "walk"
    <3>1. PICK path, data, start : start = listHead /\ IsChain(path, data, start)
      BY <2>3, WalkFacts
    <3>2. listTemp # NULL /\ listTemp \in DOMAIN cells
      BY <2>3, WalkFacts
    <3> QED
      BY <2>1, <2>3, <3>1, <3>2, ChainLinks DEF Singly!OnlyAllocatedFollowed
  <2>4. CASE listPc = "free"
    <3>1. PICK path, data, start : start = listTemp /\ IsChain(path, data, start)
      BY <2>4 DEF SinglyInv
    <3> QED
      BY <2>1, <2>4, <3>1, ChainLinks DEF Singly!OnlyAllocatedFollowed
  <2>5. CASE listPc = "dangling"
    BY <2>5 DEF SinglyInv, Singly!OnlyAllocatedFollowed
  <2> QED
    BY <2>1, <2>2, <2>3, <2>4, <2>5 DEF SinglyTypes
<1> QED
  BY <1>1, SinglyInvariance, PTL
-----------------------------------------------------------------------------
(* treechallenge.cpp                                                       *)

Path == Seq(Tree!Children)

\* The nodes of a tree.
Shape(S) ==
  /\ S \subseteq Path
  /\ \A p \in S : Len(p) < Levels
  /\ \A p \in S : p = << >> \/ SubSeq(p, 1, Len(p) - 1) \in S

\* A node, or a place that has none, and what is below it.
IsUnder(p, n) == Len(n) <= Len(p) /\ \A k \in 1 .. Len(n) : p[k] = n[k]

Below(S, n) == {p \in S : IsUnder(p, n)}

ChildrenBelow(S, n, a, b) == UNION {Below(S, Append(n, c)) : c \in a .. b}

TreeOrder(order) == {pq \in Path \X Path : pq[1] # pq[2] /\ Tree!Precedes(order, pq[1], pq[2])}

\* What a traversal writes for a node and all below it.
Traversal(s, S, order, n) ==
  s \in Seq(S) /\ SortedBy(s, TreeOrder(order)) /\ Range(s) = Below(S, n)

\* Paths, and the operators of the community modules, which are the same ones.
LEMMA TreePaths ==
  /\ NumChildren \in Nat /\ NumChildren > 0 /\ Levels \in Nat
  /\ Tree!Children = 1 .. NumChildren
  /\ \A p \in Path : /\ Len(p) \in Nat /\ DOMAIN p = 1 .. Len(p)
                     /\ \A k \in 1 .. Len(p) : p[k] \in 1 .. NumChildren
  /\ \A p, n \in Path : Len(p) = Len(n) /\ (\A k \in 1 .. Len(p) : p[k] = n[k]) => p = n
  /\ << >> \in Path /\ Len(<< >>) = 0
<1>1. Tree!Children = 1 .. NumChildren
  BY DEF Tree!Children
<1>2. \A p \in Path : /\ Len(p) \in Nat /\ DOMAIN p = 1 .. Len(p)
                      /\ \A k \in 1 .. Len(p) : p[k] \in 1 .. NumChildren
  BY <1>1, LenProperties, ElementOfSeq DEF Path
<1>3. \A p, n \in Path : Len(p) = Len(n) /\ (\A k \in 1 .. Len(p) : p[k] = n[k]) => p = n
  BY <1>2, SeqEqual DEF Path
<1>4. << >> \in Path /\ Len(<< >>) = 0
  BY EmptySeq DEF Path
<1> QED
  BY <1>1, <1>2, <1>3, <1>4, TreeAssumption

\* The instance's FlattenSeq is the one of the lemmas.
LEMMA SameFlattenSeq == \A s : Tree!FlattenSeq(s) = FlattenSeq(s)
BY Zenon DEF Tree!FlattenSeq, FlattenSeq

\* The path of a child.
LEMMA PathExtended ==
  ASSUME NEW n \in Path, NEW c \in 1 .. NumChildren
  PROVE  /\ Append(n, c) \in Path /\ Len(Append(n, c)) = Len(n) + 1
         /\ Append(n, c)[Len(n) + 1] = c
         /\ \A k \in 1 .. Len(n) : Append(n, c)[k] = n[k]
<1>1. n \in Seq(Tree!Children) /\ c \in Tree!Children
  BY TreePaths DEF Path
<1> QED
  BY <1>1, AppendProperties DEF Path

\* The path of a parent.
LEMMA PathShortened ==
  ASSUME NEW p \in Path, p # << >>
  PROVE  /\ SubSeq(p, 1, Len(p) - 1) \in Path
         /\ Len(p) > 0 /\ Len(SubSeq(p, 1, Len(p) - 1)) = Len(p) - 1
         /\ \A k \in 1 .. Len(p) - 1 : SubSeq(p, 1, Len(p) - 1)[k] = p[k]
<1>1. Len(p) \in Nat /\ Len(p) # 0
  BY TreePaths, EmptySeq DEF Path
<1>2. PICK m \in Nat : m = Len(p) - 1 /\ m + 1 - 1 = m
  BY <1>1
<1>3. /\ SubSeq(p, 1, m) \in Path /\ Len(SubSeq(p, 1, m)) = m
      /\ \A k \in 1 .. m : SubSeq(p, 1, m)[k] = p[k]
  BY <1>1, <1>2, SubSeqProperties DEF Path
<1> QED
  BY <1>1, <1>2, <1>3

\* With a node all the nodes on the way to it are in the tree.
LEMMA Ancestors ==
  ASSUME NEW S, Shape(S), NEW n \in Path, NEW p \in S, IsUnder(p, n)
  PROVE  n \in S
<1> DEFINE good == {d \in Nat : \A r \in S : IsUnder(r, n) /\ Len(r) = Len(n) + d => n \in S}
<1>1. Len(n) \in Nat /\ \A r \in S : r \in Path /\ Len(r) \in Nat
  BY TreePaths DEF Shape
<1>2. 0 \in good
  <2>1. ASSUME NEW r \in S, IsUnder(r, n), Len(r) = Len(n) PROVE r = n
    BY <1>1, <2>1, TreePaths DEF IsUnder
  <2> QED
    BY <1>1, <2>1
<1>3. ASSUME NEW d \in Nat, d \in good PROVE d + 1 \in good
  <2>1. SUFFICES ASSUME NEW r \in S, IsUnder(r, n), Len(r) = Len(n) + (d + 1) PROVE n \in S
    OBVIOUS
  <2>2. r # << >>
    BY <1>1, <2>1, TreePaths
  <2>3. PICK f : f = SubSeq(r, 1, Len(r) - 1)
    OBVIOUS
  <2>4. f \in S /\ Len(f) = Len(n) + d /\ \A k \in 1 .. Len(n) + d : f[k] = r[k]
    <3>1. f \in S
      BY <2>2, <2>3 DEF Shape
    <3>2. r \in Path /\ Len(r) - 1 = Len(n) + d
      BY <1>1, <2>1
    <3>3. Len(f) = Len(r) - 1 /\ \A k \in 1 .. Len(r) - 1 : f[k] = r[k]
      BY <2>2, <2>3, <3>2, PathShortened
    <3> QED
      BY <3>1, <3>2, <3>3
  <2>5. IsUnder(f, n)
    BY <1>1, <2>1, <2>4 DEF IsUnder
  <2> QED
    BY <1>3, <2>4, <2>5
<1> HIDE DEF good
<1>4. \A d \in Nat : d \in good
  BY <1>2, <1>3, EveryNumber
<1>5. Len(p) - Len(n) \in Nat /\ Len(p) = Len(n) + (Len(p) - Len(n))
  BY <1>1 DEF IsUnder
<1> QED
  BY <1>4, <1>5 DEF good

\* What is below a node is the node itself, or below one of its children.
LEMMA BelowChildren ==
  ASSUME NEW S, Shape(S), NEW n \in Path
  PROVE  /\ n \notin S => Below(S, n) = {}
         /\ n \in S => Below(S, n) = {n} \cup ChildrenBelow(S, n, 1, NumChildren)
         /\ \A c \in 1 .. NumChildren : \A p \in Below(S, Append(n, c)) :
              p \in S /\ p \in Path /\ IsUnder(p, n) /\ Len(p) > Len(n) /\ p[Len(n) + 1] = c
<1>1. Len(n) \in Nat /\ \A r \in S : r \in Path /\ Len(r) \in Nat
  BY TreePaths DEF Shape
<1>2. ASSUME NEW c \in 1 .. NumChildren, NEW p \in Below(S, Append(n, c))
      PROVE  p \in S /\ p \in Path /\ IsUnder(p, n) /\ Len(p) > Len(n) /\ p[Len(n) + 1] = c
  <2>1. p \in S /\ p \in Path /\ Len(p) \in Nat /\ IsUnder(p, Append(n, c))
    BY <1>1, <1>2 DEF Below
  <2>2. PICK m : m = Append(n, c)
    OBVIOUS
  <2>3. Len(m) = Len(n) + 1 /\ m[Len(n) + 1] = c /\ \A k \in 1 .. Len(n) : m[k] = n[k]
    BY <2>2, PathExtended
  <2>4. Len(n) + 1 <= Len(p) /\ \A k \in 1 .. Len(n) + 1 : p[k] = m[k]
    BY <2>1, <2>2, <2>3 DEF IsUnder
  <2> QED
    BY <1>1, <2>1, <2>3, <2>4 DEF IsUnder
<1>3. ASSUME NEW p \in Below(S, n), p # n
      PROVE  \E c \in 1 .. NumChildren : p \in Below(S, Append(n, c))
  <2>1. p \in S /\ p \in Path /\ Len(p) \in Nat /\ IsUnder(p, n)
    BY <1>1 DEF Below
  <2>2. Len(p) > Len(n)
    BY <1>1, <1>3, <2>1, TreePaths DEF IsUnder
  <2>3. PICK c \in 1 .. NumChildren : c = p[Len(n) + 1]
    BY <1>1, <2>1, <2>2, TreePaths
  <2>4. PICK m : m = Append(n, c)
    OBVIOUS
  <2>5. Len(m) = Len(n) + 1 /\ m[Len(n) + 1] = c /\ \A k \in 1 .. Len(n) : m[k] = n[k]
    BY <2>4, PathExtended
  <2>6. IsUnder(p, m)
    BY <1>1, <2>1, <2>2, <2>3, <2>5 DEF IsUnder
  <2> QED
    BY <2>1, <2>4, <2>6 DEF Below
<1>4. n \notin S => Below(S, n) = {}
  BY Ancestors DEF Below
<1>5. n \in S => n \in Below(S, n)
  BY <1>1 DEF Below, IsUnder
<1>6. \A c \in 1 .. NumChildren : Below(S, Append(n, c)) \subseteq Below(S, n)
  BY <1>2 DEF Below
<1> QED
  BY <1>2, <1>3, <1>4, <1>5, <1>6 DEF ChildrenBelow

\* The order of two nodes below n.
LEMMA OrderBelow ==
  ASSUME NEW n \in Path, NEW p \in Path, NEW r \in Path, IsUnder(p, n), IsUnder(r, n),
         NEW order
  PROVE  \/ Len(p) > Len(n) /\ Len(r) > Len(n) /\ p[Len(n) + 1] < r[Len(n) + 1]
         \/ p = n /\ Len(r) > Len(n) /\ (order = "PreOrder" \/ 2 * r[Len(n) + 1] > NumChildren)
         \/ r = n /\ Len(p) > Len(n) /\ order = "InOrder" /\ 2 * p[Len(n) + 1] <= NumChildren
         => <<p, r>> \in TreeOrder(order)
<1>1. /\ Len(n) \in Nat /\ Len(p) \in Nat /\ Len(r) \in Nat
      /\ \A k \in 1 .. Len(p) : p[k] \in 1 .. NumChildren
      /\ \A k \in 1 .. Len(r) : r[k] \in 1 .. NumChildren
  BY TreePaths
<1>2. \A k \in 1 .. Len(n) : p[k] = n[k] /\ r[k] = n[k]
  BY DEF IsUnder
<1>3. ASSUME NEW u \in Path, NEW v \in Path
      PROVE  Tree!IsPrefix(u, v) <=> IsUnder(v, u)
  <2>1. Len(u) \in Nat /\ Len(v) \in Nat
    BY TreePaths
  <2>2. ASSUME Len(u) <= Len(v)
        PROVE  SubSeq(u, 1, Len(u)) = SubSeq(v, 1, Len(u)) <=> \A k \in 1 .. Len(u) : v[k] = u[k]
    <3>1. /\ SubSeq(u, 1, Len(u)) \in Path /\ Len(SubSeq(u, 1, Len(u))) = Len(u)
          /\ \A k \in 1 .. Len(u) : SubSeq(u, 1, Len(u))[k] = u[k]
      BY <2>1, SubSeqProperties DEF Path
    <3>2. /\ SubSeq(v, 1, Len(u)) \in Path /\ Len(SubSeq(v, 1, Len(u))) = Len(u)
          /\ \A k \in 1 .. Len(u) : SubSeq(v, 1, Len(u))[k] = v[k]
      BY <2>1, <2>2, SubSeqProperties DEF Path
    <3>3. PICK a, b : a = SubSeq(u, 1, Len(u)) /\ b = SubSeq(v, 1, Len(u))
      OBVIOUS
    <3> QED
      BY <2>1, <3>1, <3>2, <3>3, TreePaths
  <2> QED
    BY <2>2 DEF Tree!IsPrefix, IsUnder
<1>4. p # r /\ Tree!Precedes(order, p, r) => <<p, r>> \in TreeOrder(order)
  <2>1. <<p, r>> \in Path \X Path /\ <<p, r>>[1] = p /\ <<p, r>>[2] = r
    OBVIOUS
  <2> QED
    BY <2>1, Zenon DEF TreeOrder
<1>5. ASSUME Len(p) > Len(n) /\ Len(r) > Len(n) /\ p[Len(n) + 1] < r[Len(n) + 1]
      PROVE  <<p, r>> \in TreeOrder(order)
  <2>1. PICK d \in Nat : /\ d = Len(n) + 1 /\ d \in 1 .. Len(p) /\ d \in 1 .. Len(r)
                         /\ p[d] < r[d] /\ p[d] # r[d]
    BY <1>1, <1>5
  <2>2. ~IsUnder(p, r) /\ ~IsUnder(r, p) /\ p # r
    BY <2>1 DEF IsUnder
  <2>3. \A m \in 1 .. d - 1 : p[m] = r[m]
    BY <1>1, <1>2, <2>1
  <2>4. \A k \in 1 .. Len(p) :
          p[k] # r[k] /\ (\A m \in 1 .. k - 1 : p[m] = r[m]) => k = d
    BY <1>1, <2>1, <2>3
  <2>5. Tree!FirstDifference(p, r) = d
    BY <2>1, <2>3, <2>4 DEF Tree!FirstDifference
  <2>6. Tree!Precedes(order, p, r)
    BY <1>3, <2>1, <2>2, <2>5 DEF Tree!Precedes
  <2> QED
    BY <1>4, <2>2, <2>6
<1>6. ASSUME p = n, Len(r) > Len(n),
             order = "PreOrder" \/ 2 * r[Len(n) + 1] > NumChildren
      PROVE  <<p, r>> \in TreeOrder(order)
  <2>1. Tree!IsPrefix(p, r) /\ p # r
    BY <1>1, <1>3, <1>6
  <2>2. Tree!Precedes(order, p, r)
    BY <1>6, <2>1 DEF Tree!Precedes
  <2> QED
    BY <1>4, <2>1, <2>2
<1>7. ASSUME r = n, Len(p) > Len(n), order = "InOrder", 2 * p[Len(n) + 1] <= NumChildren
      PROVE  <<p, r>> \in TreeOrder(order)
  <2>1. Tree!IsPrefix(r, p) /\ ~Tree!IsPrefix(p, r) /\ p # r
    BY <1>1, <1>3, <1>7 DEF IsUnder
  <2>2. Tree!Precedes(order, p, r)
    BY <1>7, <2>1 DEF Tree!Precedes
  <2> QED
    BY <1>4, <2>1, <2>2
<1> QED
  BY <1>5, <1>6, <1>7, Zenon

\* The traversals of m children from a on, one behind the other.
LEMMA ChildrenTraversed ==
  ASSUME NEW S, Shape(S), NEW n \in Path, NEW order, NEW m \in Nat,
         NEW a \in 1 .. NumChildren + 1, a + m - 1 <= NumChildren,
         NEW ss \in [1 .. m -> Seq(S)],
         \A k \in 1 .. m : Traversal(ss[k], S, order, Append(n, a + k - 1))
  PROVE  /\ FlattenSeq(ss) \in Seq(S)
         /\ SortedBy(FlattenSeq(ss), TreeOrder(order))
         /\ Range(FlattenSeq(ss)) = ChildrenBelow(S, n, a, a + m - 1)
<1>1. /\ NumChildren \in Nat /\ ss \in Seq(Seq(S)) /\ Len(ss) = m /\ Shape(S)
      /\ \A k \in 1 .. m : /\ SortedBy(ss[k], TreeOrder(order))
                           /\ Range(ss[k]) = Below(S, Append(n, a + k - 1))
  BY FunctionAsSequence, TreePaths DEF Traversal
<1>2. \A k \in 1 .. m : a + k - 1 \in 1 .. NumChildren /\ a + k - 1 \in a .. a + m - 1
  BY <1>1
<1>3. ASSUME NEW h \in 1 .. m, NEW k \in 1 .. m, h < k,
             NEW x \in Range(ss[h]), NEW y \in Range(ss[k])
      PROVE  <<x, y>> \in TreeOrder(order)
  <2>1. PICK c \in 1 .. NumChildren : c = a + h - 1
    BY <1>2
  <2>2. PICK d \in 1 .. NumChildren : d = a + k - 1
    BY <1>2
  <2>3. x \in Below(S, Append(n, c)) /\ y \in Below(S, Append(n, d)) /\ c < d
    BY <1>1, <1>3, <2>1, <2>2
  <2>4. /\ x \in Path /\ IsUnder(x, n) /\ Len(x) > Len(n) /\ x[Len(n) + 1] = c
        /\ y \in Path /\ IsUnder(y, n) /\ Len(y) > Len(n) /\ y[Len(n) + 1] = d
    BY <2>3, BelowChildren
  <2> QED
    BY <2>3, <2>4, OrderBelow
<1>4. /\ FlattenSeq(ss) \in Seq(S)
      /\ SortedBy(FlattenSeq(ss), TreeOrder(order))
      /\ Range(FlattenSeq(ss)) = UNION {Range(ss[k]) : k \in 1 .. m}
  BY <1>1, <1>3, FlattenSorted
<1>5. ASSUME NEW x
      PROVE  x \in UNION {Range(ss[k]) : k \in 1 .. m}
               <=> x \in ChildrenBelow(S, n, a, a + m - 1)
  <2>1. ASSUME NEW c \in a .. a + m - 1 PROVE \E k \in 1 .. m : c = a + k - 1
    <3>1. c - a + 1 \in 1 .. m /\ c = a + (c - a + 1) - 1
      OBVIOUS
    <3> QED
      BY <3>1
  <2>2. ASSUME NEW k \in 1 .. m, x \in Range(ss[k]) PROVE x \in ChildrenBelow(S, n, a, a + m - 1)
    BY <1>1, <1>2, <2>2 DEF ChildrenBelow
  <2>3. ASSUME NEW c \in a .. a + m - 1, x \in Below(S, Append(n, c))
        PROVE  \E k \in 1 .. m : x \in Range(ss[k])
    <3>1. PICK k \in 1 .. m : c = a + k - 1
      BY <2>1
    <3> QED
      BY <1>1, <2>3, <3>1
  <2> QED
    BY <2>2, <2>3 DEF ChildrenBelow
<1> QED
  BY <1>4, <1>5

\* A traversal of the children, with the node where the order puts it.
LEMMA NodeTraversed ==
  ASSUME NEW S, Shape(S), NEW n \in S, NEW order, NEW g,
         \A c \in 1 .. NumChildren : Traversal(g[Append(n, c)], S, order, Append(n, c)),
         NEW h \in 0 .. NumChildren,
         \/ order = "PreOrder" /\ h = 0
         \/ order = "InOrder" /\ 2 * h <= NumChildren /\ 2 * (h + 1) > NumChildren,
         NEW ss \in [1 .. h -> Seq(S)], \A k \in 1 .. h : ss[k] = g[Append(n, k)],
         NEW us \in [1 .. NumChildren - h -> Seq(S)],
         \A k \in 1 .. NumChildren - h : us[k] = g[Append(n, h + k)]
  PROVE  Traversal(FlattenSeq(ss) \o <<n>> \o FlattenSeq(us), S, order, n)
<1>1. NumChildren \in Nat /\ n \in Path
  BY TreePaths DEF Shape
<1> DEFINE R == TreeOrder(order)
           Under(a, b) == ChildrenBelow(S, n, a, b)
<1>2. PICK before : before = FlattenSeq(ss)
  OBVIOUS
<1>3. PICK after : after = FlattenSeq(us)
  OBVIOUS
<1>4. before \in Seq(S) /\ SortedBy(before, R) /\ Range(before) = Under(1, h)
  <2>1. 1 \in 1 .. NumChildren + 1 /\ 1 + h - 1 <= NumChildren /\ h \in Nat /\ 1 + h - 1 = h
    BY <1>1
  <2>2. ASSUME NEW k \in 1 .. h PROVE Traversal(ss[k], S, order, Append(n, 1 + k - 1))
    <3>1. k \in 1 .. NumChildren /\ 1 + k - 1 = k
      BY <1>1
    <3> QED
      BY <3>1
  <2> QED
    BY <1>1, <1>2, <2>1, <2>2, ChildrenTraversed
<1>5. after \in Seq(S) /\ SortedBy(after, R) /\ Range(after) = Under(h + 1, NumChildren)
  <2>1. PICK a \in 1 .. NumChildren + 1, m \in Nat :
          /\ a = h + 1 /\ m = NumChildren - h
          /\ a + m - 1 <= NumChildren /\ a + m - 1 = NumChildren
    BY <1>1
  <2>2. ASSUME NEW k \in 1 .. m PROVE Traversal(us[k], S, order, Append(n, a + k - 1))
    <3>1. h + k \in 1 .. NumChildren /\ a + k - 1 = h + k /\ k \in 1 .. NumChildren - h
      BY <1>1, <2>1
    <3> QED
      BY <3>1
  <2>3. us \in [1 .. m -> Seq(S)]
    BY <2>1
  <2>4. /\ FlattenSeq(us) \in Seq(S)
        /\ SortedBy(FlattenSeq(us), TreeOrder(order))
        /\ Range(FlattenSeq(us)) = ChildrenBelow(S, n, a, a + m - 1)
    BY <1>1, <2>1, <2>2, <2>3, ChildrenTraversed
  <2> QED
    BY <1>3, <2>1, <2>4
<1>6. ASSUME NEW x \in Range(before)
      PROVE  /\ x \in Path /\ IsUnder(x, n) /\ Len(x) > Len(n)
             /\ x[Len(n) + 1] \in 1 .. h
  <2>1. PICK c \in 1 .. h : x \in Below(S, Append(n, c))
    BY <1>4 DEF ChildrenBelow
  <2>2. c \in 1 .. NumChildren
    BY <1>1
  <2> QED
    BY <1>1, <2>1, <2>2, BelowChildren
<1>7. ASSUME NEW x \in Range(after)
      PROVE  /\ x \in Path /\ IsUnder(x, n) /\ Len(x) > Len(n)
             /\ x[Len(n) + 1] \in h + 1 .. NumChildren
  <2>1. PICK c \in h + 1 .. NumChildren : x \in Below(S, Append(n, c))
    BY <1>5 DEF ChildrenBelow
  <2>2. c \in 1 .. NumChildren
    BY <1>1
  <2> QED
    BY <1>1, <2>1, <2>2, BelowChildren
<1>8. <<n>> \in Seq(S) /\ SortedBy(<<n>>, R) /\ Range(<<n>>) = {n} /\ IsUnder(n, n)
  <2>1. PICK o : o = <<n>>
    OBVIOUS
  <2>2. o \in Seq(S) /\ DOMAIN o = 1 .. 1 /\ o[1] = n
    BY <2>1
  <2>3. Range(o) = {n} /\ SortedBy(o, R)
    BY <2>2 DEF Range, SortedBy
  <2>4. IsUnder(n, n)
    BY <1>1, TreePaths DEF IsUnder
  <2> QED
    BY <2>1, <2>2, <2>3, <2>4
<1>9. ASSUME NEW x \in Range(before) PROVE <<x, n>> \in R
  <2>1. order = "InOrder" /\ 2 * x[Len(n) + 1] <= NumChildren
    BY <1>1, <1>6
  <2> QED
    BY <1>1, <1>6, <1>8, <2>1, OrderBelow
<1>10. ASSUME NEW x \in Range(after) PROVE <<n, x>> \in R
  <2>1. order = "PreOrder" \/ 2 * x[Len(n) + 1] > NumChildren
    BY <1>1, <1>7
  <2> QED
    BY <1>1, <1>7, <1>8, <2>1, OrderBelow
<1>11. ASSUME NEW x \in Range(before), NEW y \in Range(after) PROVE <<x, y>> \in R
  <2>1. x[Len(n) + 1] < y[Len(n) + 1]
    BY <1>1, <1>6, <1>7
  <2> QED
    BY <1>1, <1>6, <1>7, <2>1, OrderBelow
<1>12. Below(S, n) = Under(1, h) \cup {n} \cup Under(h + 1, NumChildren)
  <2>1. \A c : c \in 1 .. NumChildren <=> c \in 1 .. h \/ c \in h + 1 .. NumChildren
    BY <1>1
  <2>2. Below(S, n) = {n} \cup Under(1, NumChildren)
    BY <1>1, BelowChildren
  <2> QED
    BY <2>1, <2>2 DEF ChildrenBelow
<1> HIDE DEF R, Under
<1>13. PICK o : o = <<n>>
  OBVIOUS
<1>14. o \in Seq(S) /\ SortedBy(o, R) /\ Range(o) = {n}
  BY <1>8, <1>13
<1>15. PICK s : /\ s = before \o o /\ s \in Seq(S) /\ SortedBy(s, R)
                /\ Range(s) = Range(before) \cup {n}
  <2>1. \A x \in Range(before), y \in Range(o) : <<x, y>> \in R
    BY <1>9, <1>14
  <2>2. /\ before \o o \in Seq(S) /\ SortedBy(before \o o, R)
        /\ Range(before \o o) = Range(before) \cup Range(o)
    <3> HIDE <1>13
    <3> QED
      BY <1>4, <1>14, <2>1, ConcatSorted
  <2> QED
    BY <1>14, <2>2
<1>16. s \o after \in Seq(S) /\ SortedBy(s \o after, R)
       /\ Range(s \o after) = Range(s) \cup Range(after)
  BY <1>5, <1>10, <1>11, <1>15, ConcatSorted
<1>17. Range(s \o after) = Below(S, n)
  BY <1>4, <1>5, <1>12, <1>16, <1>15
<1> QED
  BY <1>2, <1>3, <1>13, <1>16, <1>17, <1>15 DEF Traversal, R

\* A traversal writes the nodes of a tree in their order.
LEMMA TreeTraversed ==
  ASSUME NEW t, Shape(DOMAIN t), NEW order \in {"PreOrder", "InOrder"}
  PROVE  Traversal(Tree!treeToStringM(t, order), DOMAIN t, order, << >>)
<1> DEFINE S == DOMAIN t
           h == NumChildren \div 2
           Over(g, n, a, b) == FlattenSeq([k \in 1 .. b - a + 1 |-> g[Append(n, a + k - 1)]])
           At(g, n) ==
             IF n \notin S THEN << >>
             ELSE IF order = "PreOrder" THEN <<n>> \o Over(g, n, 1, NumChildren)
             ELSE Over(g, n, 1, h) \o <<n>> \o Over(g, n, h + 1, NumChildren)
           Step(g) == [n \in Path |-> At(g, n)]
           known == {d \in Nat : \E g : \A n \in Path : Len(n) + d >= Levels => g[n] = At(g, n)}
<1>1. /\ NumChildren \in Nat /\ Levels \in Nat /\ NumChildren > 0
      /\ \A n \in Path : Len(n) \in Nat
      /\ \A n \in S : n \in Path /\ Len(n) < Levels
  BY TreePaths DEF Shape
<1>2. h \in 0 .. NumChildren /\ 2 * h <= NumChildren /\ 2 * (h + 1) > NumChildren
  BY <1>1
<1>3. Tree!treeToStringM(t, order) = (CHOOSE g : g = Step(g))[<< >>]
  BY SameFlattenSeq, Zenon
     DEF Tree!treeToStringM, Tree!Half, Tree!Root, Tree!Children, Path
<1> HIDE DEF h
<1>4. ASSUME NEW f, NEW g, NEW n \in Path,
             \A c \in 1 .. NumChildren : f[Append(n, c)] = g[Append(n, c)]
      PROVE  At(f, n) = At(g, n)
  <2>1. ASSUME NEW a \in Nat, NEW b \in Nat, 1 <= a, b <= NumChildren
        PROVE  Over(f, n, a, b) = Over(g, n, a, b)
    <3>1. \A k \in 1 .. b - a + 1 : a + k - 1 \in 1 .. NumChildren
      BY <1>1, <2>1
    <3>2. [k \in 1 .. b - a + 1 |-> f[Append(n, a + k - 1)]]
            = [k \in 1 .. b - a + 1 |-> g[Append(n, a + k - 1)]]
      BY <1>4, <3>1
    <3> QED
      BY <3>2
  <2>2. h \in Nat /\ h + 1 \in Nat /\ 1 <= h + 1 /\ 1 \in Nat /\ 1 <= 1
        /\ h <= NumChildren /\ NumChildren <= NumChildren
    BY <1>1, <1>2
  <2> HIDE DEF Over
  <2>3. /\ Over(f, n, 1, NumChildren) = Over(g, n, 1, NumChildren)
        /\ Over(f, n, 1, h) = Over(g, n, 1, h)
        /\ Over(f, n, h + 1, NumChildren) = Over(g, n, h + 1, NumChildren)
    BY <1>1, <2>1, <2>2
  <2> QED
    BY <2>3
<1> HIDE DEF Over
<1>5. \E g : g = Step(g)
  <2>1. 0 \in known
    <3> DEFINE none == [n \in Path |-> << >>]
    <3>1. ASSUME NEW n \in Path, Len(n) + 0 >= Levels PROVE none[n] = At(none, n)
      <4>1. n \notin S
        BY <1>1, <3>1
      <4> QED
        BY <4>1
    <3> HIDE DEF none, At
    <3>2. \E g : \A n \in Path : Len(n) + 0 >= Levels => g[n] = At(g, n)
      BY <3>1
    <3> QED
      BY <3>2, Zenon
  <2>2. ASSUME NEW d \in Nat, d \in known PROVE d + 1 \in known
    <3>1. PICK g : \A n \in Path : Len(n) + d >= Levels => g[n] = At(g, n)
      BY <2>2
    <3>2. PICK f : f = Step(g)
      OBVIOUS
    <3> HIDE DEF At
    <3>3. \A n \in Path : f[n] = At(g, n)
      BY <3>2
    <3>4. ASSUME NEW n \in Path, Len(n) + (d + 1) >= Levels PROVE f[n] = At(f, n)
      <4>1. ASSUME NEW c \in 1 .. NumChildren PROVE f[Append(n, c)] = g[Append(n, c)]
        <5>1. Append(n, c) \in Path /\ Len(Append(n, c)) + d >= Levels
          BY <1>1, <3>4, PathExtended
        <5> QED
          BY <3>1, <3>3, <5>1
      <4>2. At(f, n) = At(g, n)
        BY <1>4, <4>1
      <4> QED
        BY <3>3, <4>2
    <3>5. \E e : \A n \in Path : Len(n) + (d + 1) >= Levels => e[n] = At(e, n)
      BY <3>4
    <3>6. d + 1 \in Nat
      OBVIOUS
    <3> QED
      BY <3>5, <3>6, Zenon
  <2> HIDE DEF known
  <2>3. Levels \in known
    BY <1>1, <2>1, <2>2, EveryNumber
  <2> HIDE DEF At
  <2>4. PICK g : \A n \in Path : Len(n) + Levels >= Levels => g[n] = At(g, n)
    BY <2>3 DEF known
  <2>5. \A n \in Path : g[n] = At(g, n)
    BY <1>1, <2>4
  <2>6. PICK f : f = Step(g)
    OBVIOUS
  <2>7. \A n \in Path : f[n] = g[n]
    BY <2>5, <2>6
  <2>8. \A n \in Path : At(f, n) = At(g, n)
    BY <1>4, <2>7, PathExtended
  <2>9. f = Step(f)
    BY <2>6, <2>8
  <2> QED
    BY <2>9
<1> HIDE DEF Step
<1>6. PICK g : g = Step(g) /\ Tree!treeToStringM(t, order) = g[<< >>]
  BY <1>3, <1>5, Zenon
<1>7. \A n \in Path : g[n] = At(g, n)
  BY <1>6 DEF Step
<1> DEFINE done == {d \in Nat : \A n \in Path : Len(n) + d >= Levels => Traversal(g[n], S, order, n)}
<1>8. ASSUME NEW n \in Path, n \notin S PROVE Traversal(g[n], S, order, n)
  <2>1. PICK e : e = << >>
    OBVIOUS
  <2>2. e \in Seq(S) /\ DOMAIN e = {}
    BY <2>1
  <2>3. Range(e) = {} /\ SortedBy(e, TreeOrder(order))
    BY <2>2 DEF Range, SortedBy
  <2>4. Below(S, n) = {}
    BY <1>8, BelowChildren
  <2>5. g[n] = e
    BY <1>7, <1>8, <2>1
  <2> QED
    BY <2>2, <2>3, <2>4, <2>5 DEF Traversal
<1>9. ASSUME NEW n \in Path, n \in S,
             \A c \in 1 .. NumChildren : Traversal(g[Append(n, c)], S, order, Append(n, c))
      PROVE  Traversal(g[n], S, order, n)
  <2>1. PICK m \in 0 .. NumChildren :
          \/ order = "PreOrder" /\ m = 0
          \/ order = "InOrder" /\ m = h
    BY <1>1, <1>2
  <2>2. PICK ss : ss = [k \in 1 .. m - 1 + 1 |-> g[Append(n, 1 + k - 1)]]
    OBVIOUS
  <2>3. PICK us : us = [k \in 1 .. NumChildren - (m + 1) + 1 |-> g[Append(n, m + 1 + k - 1)]]
    OBVIOUS
  <2>4. m - 1 + 1 = m /\ NumChildren - (m + 1) + 1 = NumChildren - m
    BY <1>1
  <2>5. ASSUME NEW k \in 1 .. m PROVE ss[k] = g[Append(n, k)] /\ ss[k] \in Seq(S)
    <3>1. k \in 1 .. NumChildren /\ 1 + k - 1 = k
      BY <1>1
    <3> QED
      BY <1>9, <2>2, <2>4, <3>1 DEF Traversal
  <2>6. ASSUME NEW k \in 1 .. NumChildren - m
        PROVE  us[k] = g[Append(n, m + k)] /\ us[k] \in Seq(S)
    <3>1. m + k \in 1 .. NumChildren /\ m + 1 + k - 1 = m + k
      BY <1>1
    <3> QED
      BY <1>9, <2>3, <2>4, <3>1 DEF Traversal
  <2>7. ss \in [1 .. m -> Seq(S)] /\ us \in [1 .. NumChildren - m -> Seq(S)]
    BY <2>2, <2>3, <2>4, <2>5, <2>6
  <2>8. Traversal(FlattenSeq(ss) \o <<n>> \o FlattenSeq(us), S, order, n)
    BY <1>2, <1>9, <2>1, <2>5, <2>6, <2>7, NodeTraversed
  <2>9. g[n] = FlattenSeq(ss) \o <<n>> \o FlattenSeq(us)
    <3>1. FlattenSeq(ss) = Over(g, n, 1, m) /\ FlattenSeq(us) = Over(g, n, m + 1, NumChildren)
      BY <2>2, <2>3 DEF Over
    <3>2. CASE order = "InOrder"
      BY <1>7, <1>9, <2>1, <3>1, <3>2
    <3>3. CASE order = "PreOrder"
      <4>1. m = 0 /\ m + 1 = 1
        BY <2>1, <3>3
      <4>2. ss = << >>
        BY <2>7, <4>1
      <4>3. FlattenSeq(ss) \o <<n>> = <<n>>
        BY <4>2 DEF FlattenSeq
      <4> QED
        BY <1>7, <1>9, <3>1, <3>3, <4>1, <4>3
    <3> QED
      BY <3>2, <3>3
  <2> QED
    BY <2>8, <2>9
<1>10. 0 \in done
  <2>1. ASSUME NEW n \in Path, Len(n) + 0 >= Levels PROVE n \notin S
    BY <1>1, <2>1
  <2> QED
    BY <1>8, <2>1
<1>11. ASSUME NEW d \in Nat, d \in done PROVE d + 1 \in done
  <2>1. ASSUME NEW n \in Path, Len(n) + (d + 1) >= Levels PROVE Traversal(g[n], S, order, n)
    <3>1. ASSUME NEW c \in 1 .. NumChildren
          PROVE  Traversal(g[Append(n, c)], S, order, Append(n, c))
      <4>1. Append(n, c) \in Path /\ Len(Append(n, c)) + d >= Levels
        BY <1>1, <2>1, PathExtended
      <4> QED
        BY <1>11, <4>1
    <3> QED
      BY <1>8, <1>9, <3>1
  <2> QED
    BY <2>1
<1> HIDE DEF done
<1>12. Levels \in done
  BY <1>1, <1>10, <1>11, EveryNumber
<1>13. << >> \in Path /\ Len(<< >>) + Levels >= Levels
  BY <1>1, TreePaths
<1>14. Traversal(g[<< >>], S, order, << >>)
  BY <1>12, <1>13 DEF done
<1> QED
  BY <1>6, <1>14

\* The places of paths, and of the children.
LEMMA PlaceFacts ==
  /\ \A l \in Nat : \A p : p \in Tree!FullLevel(l) <=> p \in Path /\ Len(p) = l
  /\ Tree!Place[<< >>] = 1
  /\ \A n \in Path, c \in 1 .. NumChildren :
       Len(n) < Levels => Tree!Place[Append(n, c)] = (Tree!Place[n] - 1) * NumChildren + c
<1>1. /\ NumChildren \in Nat /\ Levels \in Nat /\ Tree!Children = 1 .. NumChildren
      /\ \A p \in Path : Len(p) \in Nat /\ DOMAIN p = 1 .. Len(p)
      /\ << >> \in Path /\ Len(<< >>) = 0
  BY TreePaths
<1>2. ASSUME NEW l \in Nat, NEW p
      PROVE  p \in [1 .. l -> Tree!Children] <=> p \in Path /\ Len(p) = l
  <2>1. ASSUME p \in [1 .. l -> Tree!Children] PROVE p \in Path /\ Len(p) = l
    BY <2>1, FunctionAsSequence DEF Path
  <2>2. ASSUME p \in Path, Len(p) = l PROVE p \in [1 .. l -> Tree!Children]
    BY <2>2, LenProperties DEF Path
  <2> QED
    BY <2>1, <2>2
<1> DEFINE D == Tree!Paths(Levels + 1)
           Step(g) == [p \in D |-> IF p = << >> THEN 1
                                   ELSE (g[SubSeq(p, 1, Len(p) - 1)] - 1) * NumChildren + p[Len(p)]]
           known == {d \in Nat : \E g : \A p \in D : Len(p) <= d => g[p] = Step(g)[p]}
<1>3. \A p : p \in D <=> p \in Path /\ Len(p) <= Levels
  <2>1. ASSUME NEW p \in D PROVE p \in Path /\ Len(p) <= Levels
    <3>1. PICK d \in 0 .. Levels : p \in [1 .. d -> Tree!Children]
      BY <1>1 DEF Tree!Paths
    <3>2. d \in Nat /\ d <= Levels
      BY <1>1
    <3> QED
      BY <1>2, <3>1, <3>2
  <2>2. ASSUME NEW p \in Path, Len(p) <= Levels PROVE p \in D
    <3>1. PICK d \in 0 .. (Levels + 1) - 1 : d = Len(p)
      BY <1>1, <2>2
    <3>2. p \in [1 .. d -> Tree!Children]
      BY <1>1, <1>2, <3>1
    <3> QED
      BY <3>2 DEF Tree!Paths
  <2> QED
    BY <2>1, <2>2
<1>4. Tree!Place = CHOOSE g : g = Step(g)
  BY Zenon DEF Tree!Place, Tree!Root, Tree!Front, Tree!Last
<1> HIDE DEF D
<1>5. ASSUME NEW p \in D, p # << >>
      PROVE  /\ SubSeq(p, 1, Len(p) - 1) \in D
             /\ Len(SubSeq(p, 1, Len(p) - 1)) = Len(p) - 1
             /\ Len(p) \in Nat /\ Len(p) > 0
  <2>1. p \in Path /\ Len(p) <= Levels /\ Len(p) \in Nat
    BY <1>1, <1>3
  <2>2. PICK f : f = SubSeq(p, 1, Len(p) - 1)
    OBVIOUS
  <2>3. f \in Path /\ Len(p) > 0 /\ Len(f) = Len(p) - 1
    BY <1>5, <2>1, <2>2, PathShortened
  <2>4. Len(f) <= Levels
    BY <1>1, <2>1, <2>3
  <2>5. f \in D
    BY <1>3, <2>3, <2>4
  <2> QED
    BY <2>1, <2>2, <2>3, <2>5
<1>6. \E g : g = Step(g)
  <2>1. 0 \in known
    <3> DEFINE one == [p \in D |-> 1]
    <3>1. ASSUME NEW p \in D, Len(p) <= 0 PROVE one[p] = Step(one)[p]
      <4>1. p = << >>
        BY <1>5, <3>1
      <4> QED
        BY <4>1
    <3> HIDE DEF one, Step
    <3>2. \E g : \A p \in D : Len(p) <= 0 => g[p] = Step(g)[p]
      BY <3>1
    <3> QED
      BY <3>2, Zenon
  <2>2. ASSUME NEW d \in Nat, d \in known PROVE d + 1 \in known
    <3>1. PICK g : \A p \in D : Len(p) <= d => g[p] = Step(g)[p]
      BY <2>2
    <3>2. PICK f : f = Step(g)
      OBVIOUS
    <3>3. ASSUME NEW p \in D, Len(p) <= d + 1 PROVE f[p] = Step(f)[p]
      <4>1. CASE p = << >>
        BY <3>2, <4>1
      <4>2. CASE p # << >>
        <5>1. PICK n : n = SubSeq(p, 1, Len(p) - 1)
          OBVIOUS
        <5>2. n \in D /\ Len(n) <= d
          BY <1>5, <3>3, <4>2, <5>1
        <5>3. f[n] = g[n]
          BY <3>1, <3>2, <5>2
        <5>4. /\ f[p] = (g[n] - 1) * NumChildren + p[Len(p)]
              /\ Step(f)[p] = (f[n] - 1) * NumChildren + p[Len(p)]
          BY <3>2, <4>2, <5>1
        <5> QED
          BY <5>3, <5>4
      <4> QED
        BY <4>1, <4>2
    <3> HIDE DEF Step
    <3>4. \E e : \A p \in D : Len(p) <= d + 1 => e[p] = Step(e)[p]
      BY <3>3
    <3>5. d + 1 \in Nat
      OBVIOUS
    <3> QED
      BY <3>4, <3>5, Zenon
  <2> HIDE DEF known
  <2>3. Levels \in known
    BY <1>1, <2>1, <2>2, EveryNumber
  <2>4. PICK g : \A p \in D : Len(p) <= Levels => g[p] = Step(g)[p]
    BY <2>3 DEF known
  <2>5. PICK f : f = Step(g)
    OBVIOUS
  <2>6. \A p \in D : f[p] = g[p]
    BY <1>3, <2>4, <2>5
  <2>7. Step(f) = Step(g)
    BY <1>5, <2>6
  <2>8. f = Step(f)
    BY <2>5, <2>7
  <2> HIDE DEF Step
  <2> QED
    BY <2>8
<1> HIDE DEF Step
<1>7. PICK g : g = Step(g) /\ g = Tree!Place
  BY <1>4, <1>6, Zenon
<1>8. Tree!Place[<< >>] = 1
  <2>1. << >> \in D
    BY <1>1, <1>3
  <2> QED
    BY <1>7, <2>1 DEF Step
<1>9. ASSUME NEW n \in Path, NEW c \in 1 .. NumChildren, Len(n) < Levels
      PROVE  Tree!Place[Append(n, c)] = (Tree!Place[n] - 1) * NumChildren + c
  <2>1. PICK p : p = Append(n, c)
    OBVIOUS
  <2>2. /\ p \in Path /\ Len(p) = Len(n) + 1 /\ Len(n) \in Nat /\ p[Len(p)] = c
        /\ \A k \in 1 .. Len(n) : p[k] = n[k]
    <3>1. /\ p \in Path /\ Len(p) = Len(n) + 1 /\ p[Len(n) + 1] = c
          /\ \A k \in 1 .. Len(n) : p[k] = n[k]
      BY <2>1, PathExtended
    <3> QED
      BY <1>1, <3>1
  <2>3. p # << >> /\ p \in D
    BY <1>1, <1>3, <1>9, <2>2
  <2>4. SubSeq(p, 1, Len(p) - 1) = n
    <3>1. PICK f : f = SubSeq(p, 1, Len(p) - 1)
      OBVIOUS
    <3>2. f \in Path /\ Len(f) = Len(n) /\ \A k \in 1 .. Len(n) : f[k] = n[k]
      BY <2>2, <2>3, <3>1, PathShortened
    <3> QED
      BY <3>1, <3>2, TreePaths
  <2>5. g[p] = (g[SubSeq(p, 1, Len(p) - 1)] - 1) * NumChildren + p[Len(p)]
    BY <1>7, <2>3 DEF Step
  <2> QED
    BY <1>7, <2>1, <2>2, <2>4, <2>5
<1> QED
  BY <1>2, <1>8, <1>9 DEF Tree!FullLevel

\* The paths of a level, each at its place.
FullQueue(paths, l) ==
  /\ paths \in Seq(Path)
  /\ \A k \in 1 .. Len(paths) : Len(paths[k]) = l /\ Tree!Place[paths[k]] = k
  /\ \A p \in Path : Len(p) = l => /\ Tree!Place[p] \in 1 .. Len(paths)
                                   /\ paths[Tree!Place[p]] = p

\* The children of a level are the next level.
LEMMA QueueGrows ==
  ASSUME NEW paths, NEW l \in Nat, l < Levels, FullQueue(paths, l)
  PROVE  FullQueue(FlattenSeq([k \in DOMAIN paths |-> Tree!Pushed(paths[k])]), l + 1)
<1>1. PICK m \in Nat : m = Len(paths)
  BY LenProperties DEF FullQueue
<1>2. /\ NumChildren \in Nat /\ NumChildren > 0 /\ Tree!Children = 1 .. NumChildren
      /\ DOMAIN paths = 1 .. m
      /\ \A k \in 1 .. m : paths[k] \in Path /\ Len(paths[k]) = l /\ Tree!Place[paths[k]] = k
  BY <1>1, TreePaths, LenProperties, ElementOfSeq DEF FullQueue
<1>3. PICK ss : ss = [k \in 1 .. m |-> [c \in 1 .. NumChildren |-> Append(paths[k], c)]]
  OBVIOUS
<1>4. [k \in DOMAIN paths |-> Tree!Pushed(paths[k])] = ss
  BY <1>2, <1>3 DEF Tree!Pushed
<1>5. ASSUME NEW k \in 1 .. m
      PROVE  /\ ss[k] \in Seq(Path) /\ Len(ss[k]) = NumChildren
             /\ \A c \in 1 .. NumChildren : ss[k][c] = Append(paths[k], c)
  <2>1. PICK e : e = [c \in 1 .. NumChildren |-> Append(paths[k], c)] /\ e = ss[k]
    BY <1>3
  <2>2. \A c \in 1 .. NumChildren : Append(paths[k], c) \in Path
    BY <1>2, PathExtended
  <2>3. e \in [1 .. NumChildren -> Path]
    BY <2>1, <2>2
  <2>4. e \in Seq(Path) /\ Len(e) = NumChildren
    BY <1>2, <2>3, FunctionAsSequence
  <2> QED
    BY <2>1, <2>4
<1>6. ss \in Seq(Seq(Path)) /\ Len(ss) = m
  <2>1. ss \in [1 .. m -> Seq(Path)]
    BY <1>3, <1>5
  <2> QED
    BY <2>1, FunctionAsSequence
<1>7. PICK next : next = FlattenSeq(ss)
  OBVIOUS
<1>8. /\ next \in Seq(Path) /\ Len(next) = m * NumChildren
      /\ \A k \in 1 .. m, c \in 1 .. NumChildren : next[(k - 1) * NumChildren + c] = ss[k][c]
  <2>1. \A k \in 1 .. Len(ss) : Len(ss[k]) = NumChildren
    BY <1>5, <1>6
  <2>2. /\ FlattenSeq(ss) \in Seq(Path)
        /\ Len(FlattenSeq(ss)) = Len(ss) * NumChildren
        /\ \A k \in 1 .. Len(ss), c \in 1 .. NumChildren :
             FlattenSeq(ss)[(k - 1) * NumChildren + c] = ss[k][c]
    <3>1. /\ FlattenSeq(ss) \in Seq(Path)
          /\ Len(FlattenSeq(ss)) = Len(ss) * NumChildren
      BY <1>2, <1>6, <2>1, FlattenEqual
    <3>2. \A k \in 1 .. Len(ss), c \in 1 .. NumChildren :
            FlattenSeq(ss)[(k - 1) * NumChildren + c] = ss[k][c]
      BY <1>2, <1>6, <2>1, FlattenEqual
    <3> QED
      BY <3>1, <3>2
  <2> QED
    BY <1>6, <1>7, <2>2
<1>9. ASSUME NEW k \in 1 .. m, NEW c \in 1 .. NumChildren
      PROVE  /\ next[(k - 1) * NumChildren + c] = Append(paths[k], c)
             /\ Len(Append(paths[k], c)) = l + 1
             /\ Tree!Place[Append(paths[k], c)] = (k - 1) * NumChildren + c
             /\ (k - 1) * NumChildren + c \in 1 .. m * NumChildren
  <2>1. next[(k - 1) * NumChildren + c] = Append(paths[k], c)
    BY <1>5, <1>8
  <2>2. Len(Append(paths[k], c)) = l + 1
    BY <1>2, PathExtended
  <2>3. Tree!Place[Append(paths[k], c)] = (k - 1) * NumChildren + c
    BY <1>2, PlaceFacts
  <2>4. (k - 1) * NumChildren + c \in 1 .. m * NumChildren
    <3>1. PICK h \in Nat, b \in Nat : h = k - 1 /\ b = m - k /\ m = h + b + 1
      OBVIOUS
    <3>2. PICK x \in Nat, y \in Nat : x = h * NumChildren /\ y = b * NumChildren
      BY <1>2
    <3>3. m * NumChildren = x + y + NumChildren
      BY <1>2, <3>1, <3>2
    <3> QED
      BY <1>2, <3>1, <3>2, <3>3
  <2> QED
    BY <2>1, <2>2, <2>3, <2>4
<1>10. ASSUME NEW j \in 1 .. Len(next) PROVE Len(next[j]) = l + 1 /\ Tree!Place[next[j]] = j
  <2>1. j \in 1 .. m * NumChildren
    BY <1>8
  <2>2. PICK k \in 1 .. m, c \in 1 .. NumChildren : j = (k - 1) * NumChildren + c
    BY <1>2, <2>1, PlaceInRow, Zenon
  <2>3. PICK e : e = Append(paths[k], c)
    OBVIOUS
  <2>4. next[j] = e /\ Len(e) = l + 1 /\ Tree!Place[e] = j
    BY <1>9, <2>2, <2>3
  <2> QED
    BY <2>4
<1>11. ASSUME NEW p \in Path, Len(p) = l + 1
       PROVE  Tree!Place[p] \in 1 .. Len(next) /\ next[Tree!Place[p]] = p
  <2>1. p # << >>
    BY <1>11, TreePaths
  <2>2. PICK n : n = SubSeq(p, 1, Len(p) - 1)
    OBVIOUS
  <2>3. n \in Path /\ Len(n) = l /\ \A k \in 1 .. l : n[k] = p[k]
    BY <1>11, <2>1, <2>2, PathShortened
  <2>4. PICK c \in 1 .. NumChildren : c = p[l + 1]
    BY <1>11, TreePaths
  <2>5. p = Append(n, c)
    <3>1. PICK e : e = Append(n, c)
      OBVIOUS
    <3>2. /\ e \in Path /\ Len(e) = l + 1 /\ e[l + 1] = c
          /\ \A k \in 1 .. l : e[k] = n[k]
      BY <2>3, <3>1, PathExtended
    <3>3. \A k \in 1 .. l + 1 : p[k] = e[k]
      BY <2>3, <2>4, <3>2
    <3> QED
      BY <1>11, <3>1, <3>2, <3>3, TreePaths
  <2>6. PICK k \in 1 .. m : k = Tree!Place[n] /\ paths[k] = n
    BY <1>1, <2>3 DEF FullQueue
  <2>7. PICK j : j = (k - 1) * NumChildren + c
    OBVIOUS
  <2>8. next[j] = p /\ Tree!Place[p] = j /\ j \in 1 .. m * NumChildren
    BY <1>9, <2>5, <2>6, <2>7
  <2> QED
    BY <1>8, <2>8
<1> QED
  BY <1>4, <1>7, <1>8, <1>10, <1>11 DEF FullQueue

\* A level of showLevelOrderM: the value of each node, at its place.
LevelShown(level, l) ==
  /\ DOMAIN level = {Tree!Place[p] : p \in Tree!FullLevel(l)}
  /\ \A p \in Tree!FullLevel(l) : level[Tree!Place[p]] = Tree!ValueAt(p)
  /\ ~Tree!Blank(l)

TreeTypes ==
  /\ Shape(DOMAIN tree)
  /\ \A p \in DOMAIN tree : tree[p] \in {1, -1}
  /\ shown \in BOOLEAN
  /\ result \in Seq(Seq(Int))

\* Between two levels the queue is the next level, unless the output has ended.
TreeInv ==
  /\ TreeTypes
  /\ DOMAIN out = {"PreOrder", "InOrder"}
  /\ \A order \in {"PreOrder", "InOrder"} :
       Traversal(out[order], DOMAIN tree, order, << >>)
  /\ \A l \in 1 .. Len(result) : LevelShown(result[l], l - 1)
  /\ shown => Tree!Blank(Len(result))
  /\ ~shown /\ queue # << >> => FullQueue(queue, Len(result))

\* An empty tree, and a tree of at most Levels levels.
LEMMA TreeFacts ==
  ASSUME TreeTypes
  PROVE  /\ Len(result) \in Nat /\ DOMAIN result = 1 .. Len(result)
         /\ \A p : Tree!ValueAt(p) \in {1, -1}
         /\ tree = << >> <=> DOMAIN tree = {}
         /\ DOMAIN tree = {} => \A l : Tree!Blank(l)
         /\ \A l \in Nat : ~Tree!Blank(l) => l < Levels
<1>1. Len(result) \in Nat /\ DOMAIN result = 1 .. Len(result)
  BY LenProperties DEF TreeTypes
<1>2. \A p : Tree!ValueAt(p) \in {1, -1}
  BY DEF TreeTypes, Tree!ValueAt
<1>3. tree = << >> <=> DOMAIN tree = {}
  OBVIOUS
<1>4. DOMAIN tree = {} => \A l : Tree!Blank(l)
  BY DEF Tree!Blank, Tree!ValueAt
<1>5. ASSUME NEW l \in Nat, ~Tree!Blank(l) PROVE l < Levels
  <2>1. PICK p \in Tree!FullLevel(l) : Tree!ValueAt(p) # -1
    BY <1>5 DEF Tree!Blank
  <2>2. p \in DOMAIN tree /\ Len(p) = l
    BY <2>1, PlaceFacts DEF Tree!ValueAt
  <2> QED
    BY <2>2 DEF TreeTypes, Shape
<1> QED
  BY <1>1, <1>2, <1>3, <1>4, <1>5

\* The trees that the model builds.
LEMMA TreesHaveShape ==
  ASSUME NEW t \in Tree!Trees
  PROVE  Shape(DOMAIN t) /\ \A p \in DOMAIN t : t[p] \in {1, -1}
<1>1. PICK S \in Tree!Shapes : t \in [S -> {1, -1}]
  BY DEF Tree!Trees
<1>2. DOMAIN t = S /\ \A p \in DOMAIN t : t[p] \in {1, -1}
  BY <1>1
<1>3. S \subseteq Tree!Paths(Levels)
  BY <1>1 DEF Tree!Shapes, Tree!kSubset
<1>4. ASSUME NEW p \in S PROVE p \in Path /\ Len(p) < Levels
  <2>1. PICK d \in 0 .. Levels - 1 : p \in [1 .. d -> Tree!Children]
    BY <1>3 DEF Tree!Paths
  <2>2. d \in Nat /\ d < Levels
    BY TreePaths
  <2> QED
    BY <2>1, <2>2, FunctionAsSequence DEF Path
<1>5. \A p \in S : p = << >> \/ SubSeq(p, 1, Len(p) - 1) \in S
  BY <1>1, Zenon DEF Tree!Shapes, Tree!Front, Tree!Root
<1> QED
  BY <1>2, <1>4, <1>5 DEF Shape

\* Nothing has been written before there is a tree.
LEMMA NoTree == Traversal(<< >>, {}, "PreOrder", << >>) /\ Traversal(<< >>, {}, "InOrder", << >>)
<1>1. PICK e : e = << >>
  OBVIOUS
<1>2. e \in Seq({}) /\ DOMAIN e = {}
  BY <1>1
<1>3. Range(e) = {} /\ \A R : SortedBy(e, R)
  BY <1>2 DEF Range, SortedBy
<1>4. Below({}, << >>) = {}
  BY DEF Below
<1> QED
  BY <1>1, <1>2, <1>3, <1>4 DEF Traversal

\* main writes a tree in both orders and begins with its root.
LEMMA TreeStarted ==
  ASSUME TreeInv, NEW t \in Tree!Trees, Tree!Start(t)
  PROVE  TreeInv'
<1>1. /\ tree = << >> /\ tree' = t /\ result' = result
      /\ queue' = IF t = << >> THEN << >> ELSE << << >> >>
      /\ shown' = (t = << >>)
      /\ out' = [order \in DOMAIN out |-> Tree!treeToStringM(t, order)]
  BY DEF Tree!Start, Tree!Root
<1>2. Shape(DOMAIN t) /\ \A p \in DOMAIN t : t[p] \in {1, -1}
  BY TreesHaveShape
<1>3. Len(result) = 0
  <2>1. Len(result) \in Nat /\ \A l : Tree!Blank(l)
    BY <1>1, TreeFacts DEF TreeInv
  <2>2. Len(result) # 0 => 1 \in 1 .. Len(result)
    BY <2>1
  <2> QED
    BY <2>1, <2>2 DEF TreeInv, LevelShown
<1>4. TreeTypes'
  BY <1>1, <1>2 DEF TreeInv, TreeTypes
<1>5. /\ DOMAIN out' = {"PreOrder", "InOrder"}
      /\ \A order \in {"PreOrder", "InOrder"} : Traversal(out'[order], DOMAIN tree', order, << >>)
  BY <1>1, <1>2, TreeTraversed DEF TreeInv
<1>6. ASSUME shown' PROVE Tree!Blank(0)'
  <2>1. t = << >>
    BY <1>1, <1>6, Zenon
  <2>2. DOMAIN tree' = {}
    BY <1>1, <2>1
  <2> QED
    BY <2>2 DEF Tree!Blank, Tree!ValueAt
<1>7. FullQueue(<< << >> >>, 0)
  <2>1. PICK o : o = << << >> >>
    OBVIOUS
  <2>2. << >> \in Path /\ Len(<< >>) = 0 /\ Tree!Place[<< >>] = 1
    BY TreePaths, PlaceFacts
  <2>3. o \in Seq(Path) /\ Len(o) = 1 /\ o[1] = << >>
    BY <2>1, <2>2
  <2>4. \A p \in Path : Len(p) = 0 => p = << >>
    BY EmptySeq DEF Path
  <2> QED
    BY <2>1, <2>2, <2>3, <2>4 DEF FullQueue
<1>8. ASSUME queue' # << >> PROVE FullQueue(queue', 0)
  BY <1>1, <1>7, <1>8
<1>9. Len(result') = 0
  BY <1>1, <1>3
<1> QED
  BY <1>4, <1>5, <1>6, <1>8, <1>9 DEF TreeInv

\* One turn of the loop of showLevelOrderM.
LEMMA LevelTaken ==
  ASSUME TreeInv, Tree!Level
  PROVE  TreeInv'
<1>1. PICK l \in Nat : l = Len(result)
  BY TreeFacts DEF TreeInv
<1>2. /\ ~shown /\ queue # << >> /\ UNCHANGED <<tree, out>>
      /\ IF Tree!allEmpty THEN shown' = TRUE /\ result' = result /\ queue' = << >>
         ELSE /\ result' = Append(result, Tree!thisLevel) /\ shown' = shown
              /\ queue' = FlattenSeq([k \in DOMAIN queue |-> Tree!Pushed(queue[k])])
  BY SameFlattenSeq DEF Tree!Level
<1>3. FullQueue(queue, l)
  BY <1>1, <1>2 DEF TreeInv
<1>4. PICK m \in Nat : m = Len(queue) /\ DOMAIN queue = 1 .. m
  BY <1>3, LenProperties DEF FullQueue
<1>5. \A k \in 1 .. m : queue[k] \in Tree!FullLevel(l) /\ Tree!Place[queue[k]] = k
  BY <1>3, <1>4, ElementOfSeq, PlaceFacts DEF FullQueue
<1>6. \A p \in Tree!FullLevel(l) : Tree!Place[p] \in 1 .. m /\ queue[Tree!Place[p]] = p
  BY <1>3, <1>4, PlaceFacts DEF FullQueue
<1>7. PICK level : level = Tree!thisLevel /\ level = [k \in 1 .. m |-> Tree!ValueAt(queue[k])]
  BY <1>4 DEF Tree!thisLevel
<1>8. Tree!allEmpty <=> Tree!Blank(l)
  <2>1. Tree!allEmpty <=> \A k \in 1 .. m : Tree!ValueAt(queue[k]) = -1
    BY <1>7 DEF Tree!allEmpty
  <2> QED
    BY <1>5, <1>6, <2>1 DEF Tree!Blank
<1>9. \A p : Tree!ValueAt(p)' = Tree!ValueAt(p)
  BY <1>2 DEF Tree!ValueAt
<1>10. \A j : Tree!Blank(j)' <=> Tree!Blank(j)
  BY <1>9 DEF Tree!Blank, Tree!FullLevel
<1>11. \A e, j : LevelShown(e, j)' <=> LevelShown(e, j)
  BY <1>9, <1>10 DEF LevelShown, Tree!FullLevel, Tree!Place
<1>12. CASE Tree!allEmpty
  <2>1. TreeTypes'
    BY <1>2, <1>12 DEF TreeInv, TreeTypes
  <2> QED
    BY <1>1, <1>2, <1>8, <1>10, <1>11, <1>12, <2>1 DEF TreeInv
<1>13. CASE ~Tree!allEmpty
  <2>1. result \in Seq(Seq(Int)) /\ TreeTypes /\ l < Levels
    BY <1>8, <1>13, TreeFacts DEF TreeInv, TreeTypes
  <2>2. level \in Seq(Int)
    <3>1. level \in [1 .. m -> Int]
      BY <1>7, <2>1, TreeFacts
    <3> QED
      BY <3>1, FunctionAsSequence
  <2>3. /\ result' \in Seq(Seq(Int)) /\ Len(result') = l + 1
        /\ result'[l + 1] = level
        /\ \A j \in 1 .. l : result'[j] = result[j]
    <3>1. result' = Append(result, level)
      BY <1>2, <1>7, <1>13
    <3>2. /\ Append(result, level) \in Seq(Seq(Int)) /\ Len(Append(result, level)) = l + 1
          /\ Append(result, level)[l + 1] = level
          /\ \A j \in 1 .. l : Append(result, level)[j] = result[j]
      BY <1>1, <2>1, <2>2, AppendProperties
    <3> QED
      BY <3>1, <3>2
  <2>4. TreeTypes'
    BY <1>2, <1>13, <2>1, <2>3 DEF TreeTypes
  <2>5. LevelShown(level, l)
    <3>1. DOMAIN level = {Tree!Place[p] : p \in Tree!FullLevel(l)}
      BY <1>5, <1>6, <1>7
    <3>2. \A p \in Tree!FullLevel(l) : level[Tree!Place[p]] = Tree!ValueAt(p)
      BY <1>6, <1>7
    <3> QED
      BY <1>8, <1>13, <3>1, <3>2 DEF LevelShown
  <2>6. ASSUME NEW j \in 1 .. Len(result') PROVE LevelShown(result'[j], j - 1)
    <3>1. CASE j = l + 1
      BY <1>1, <2>3, <2>5, <3>1
    <3>2. CASE j # l + 1
      <4>1. j \in 1 .. l
        BY <2>3, <3>2
      <4> QED
        BY <1>1, <2>3, <4>1 DEF TreeInv
    <3> QED
      BY <3>1, <3>2
  <2>7. FullQueue(queue', l + 1)
    BY <1>2, <1>3, <1>13, <2>1, QueueGrows
  <2> QED
    BY <1>2, <1>11, <1>13, <2>3, <2>4, <2>6, <2>7 DEF TreeInv
<1> QED
  BY <1>12, <1>13

\* The invariant of the tree's program holds throughout.
LEMMA TreeInvariance == Spec => []TreeInv
<1>1. ASSUME tree = << >>, queue = << >>, result = << >>, shown = FALSE,
             DOMAIN out = {"PreOrder", "InOrder"},
             \A order \in {"PreOrder", "InOrder"} : out[order] = << >>
      PROVE  TreeInv
  <2>1. DOMAIN tree = {} /\ Len(result) = 0 /\ result \in Seq(Seq(Int))
    BY <1>1
  <2>2. TreeTypes
    BY <1>1, <2>1 DEF TreeTypes, Shape
  <2> QED
    BY <1>1, <2>1, <2>2, NoTree DEF TreeInv
<1>2. Init => TreeInv
  <2>1. SUFFICES ASSUME Init PROVE TreeInv
    OBVIOUS
  <2>2. /\ tree = << >> /\ queue = << >> /\ result = << >> /\ shown = FALSE
        /\ out = [PreOrder |-> << >>, InOrder |-> << >>]
    BY <2>1 DEF Init, Tree!Init
  <2>3. /\ DOMAIN out = {"PreOrder", "InOrder"}
        /\ \A order \in {"PreOrder", "InOrder"} : out[order] = << >>
    BY <2>2
  <2> QED
    BY <1>1, <2>2, <2>3
<1>3. TreeInv /\ [Next]_vars => TreeInv'
  <2>1. SUFFICES ASSUME TreeInv, [Next]_vars PROVE TreeInv'
    OBVIOUS
  <2>2. CASE Tree!Done
    <3>1. /\ tree' = << >> /\ queue' = << >> /\ result' = << >> /\ shown' = FALSE
          /\ DOMAIN out' = {"PreOrder", "InOrder"}
          /\ \A order \in {"PreOrder", "InOrder"} : out'[order] = << >>
      BY <2>1, <2>2 DEF Tree!Done, TreeInv
    <3>2. DOMAIN tree' = {} /\ Len(result') = 0 /\ result' \in Seq(Seq(Int))
      BY <3>1
    <3>3. TreeTypes'
      BY <3>1, <3>2 DEF TreeTypes, Shape
    <3> QED
      BY <3>1, <3>2, <3>3, NoTree DEF TreeInv
  <2>3. CASE UNCHANGED trees
    <3>1. \A p : Tree!ValueAt(p)' = Tree!ValueAt(p)
      BY <2>3 DEF trees, Tree!ValueAt
    <3> QED
      BY <2>1, <2>3, <3>1 DEF trees, TreeInv, TreeTypes, LevelShown, Tree!Blank, Tree!FullLevel
  <2> QED
    BY <2>1, <2>2, <2>3, Frame, TreeStarted, LevelTaken DEF Tree!Next
<1> QED
  BY <1>2, <1>3, PTL DEF Spec

\* treechallenge.cpp: each traversal writes every node once, in its order, and
\* the level order has every node at the place of its path, down to the first
\* level that looks empty, for every tree of any width and depth.
THEOREM TraversalsAlwaysMatch == Spec => []TraversalsMatch
<1>1. TreeInv => TraversalsMatch
  <2>1. SUFFICES ASSUME TreeInv PROVE TraversalsMatch
    OBVIOUS
  <2>2. ASSUME NEW order \in DOMAIN out
        PROVE  LET s == out[order] IN
               /\ {s[k] : k \in DOMAIN s} = DOMAIN tree
               /\ \A j, k \in DOMAIN s :
                    j < k => s[j] # s[k] /\ Tree!Precedes(order, s[j], s[k])
    <3>1. PICK s : s = out[order]
      OBVIOUS
    <3>2. Traversal(s, DOMAIN tree, order, << >>)
      BY <2>1, <2>2, <3>1 DEF TreeInv
    <3>3. Below(DOMAIN tree, << >>) = DOMAIN tree
      <4>1. \A p \in DOMAIN tree : Len(p) \in Nat
        BY <2>1, TreePaths DEF TreeInv, TreeTypes, Shape
      <4>2. \A p \in DOMAIN tree : IsUnder(p, << >>)
        BY <4>1, TreePaths DEF IsUnder
      <4> QED
        BY <4>2 DEF Below
    <3>4. {s[k] : k \in DOMAIN s} = DOMAIN tree
      BY <3>2, <3>3 DEF Traversal, Range
    <3>5. ASSUME NEW j \in DOMAIN s, NEW k \in DOMAIN s, j < k
          PROVE  s[j] # s[k] /\ Tree!Precedes(order, s[j], s[k])
      <4>1. PICK x, y : x = s[j] /\ y = s[k]
        OBVIOUS
      <4>2. <<x, y>> \in TreeOrder(order)
        BY <3>2, <3>5, <4>1 DEF Traversal, SortedBy
      <4>3. <<x, y>>[1] = x /\ <<x, y>>[2] = y
        OBVIOUS
      <4> QED
        BY <4>1, <4>2, <4>3, Zenon DEF TreeOrder
    <3> QED
      BY <3>1, <3>4, <3>5
  <2>3. /\ DOMAIN result = 1 .. Len(result)
        /\ \A l \in 1 .. Len(result) : LevelShown(result[l], l - 1)
        /\ shown => Tree!Blank(Len(result))
    BY <2>1, TreeFacts DEF TreeInv
  <2> QED
    BY <2>2, <2>3 DEF TraversalsMatch, Tree!TraversalsMatch, LevelShown
<1> QED
  BY <1>1, TreeInvariance, PTL
=============================================================================
