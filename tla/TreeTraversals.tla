--------------------------- MODULE TreeTraversals ---------------------------
(***************************************************************************)
(* The traversals of src/Src/treechallenge.cpp, over trees of nodes with   *)
(* MAX_CHILDREN children each: showLevelOrderM, which pads every level     *)
(* with -1 for the nodes that are not there, and treeToStringM.            *)
(*                                                                         *)
(* A node is the path of child indexes that leads to it, and a tree is the *)
(* function from its nodes to their values.  A value may be -1, which      *)
(* showLevelOrderM cannot tell from a missing node.  toTreeM and trackerM  *)
(* are empty in the code, so that trees come from outside.                 *)
(***************************************************************************)
EXTENDS Integers, SequencesExt

CONSTANTS
  MAX_CHILDREN,
  MaxDepth,     \* bound: the levels of a tree
  MaxNodes,     \* bound: the nodes of a tree
  Values        \* the values of nodes

VARIABLES
  tree,
  queue,    \* of showLevelOrderM: the paths of the level to come
  result,   \* its levels so far
  shown,    \* whether it has left its loop
  out       \* what treeToStringM has written, for each order

vars == <<tree, queue, result, shown, out>>

Children == 1 .. MAX_CHILDREN
Root == << >>

\* All paths to a depth, and the trees: a node's parent is in the tree.
Paths(depth) == UNION {[1 .. d -> Children] : d \in 0 .. depth - 1}
Shapes ==
  {S \in UNION {kSubset(k, Paths(MaxDepth)) : k \in 0 .. MaxNodes} :
     \A p \in S : p = Root \/ Front(p) \in S}
Trees == UNION {[S -> Values] : S \in Shapes}

Init ==
  /\ tree = << >>
  /\ queue = << >>
  /\ result = << >>
  /\ shown = FALSE
  /\ out = [PreOrder |-> << >>, InOrder |-> << >>]
-----------------------------------------------------------------------------
(* treeToStringM.  The recursion ends at the absent children.              *)

Half == MAX_CHILDREN \div 2

treeToStringM(t, order) ==
  LET string[n \in Seq(Children)] ==
        LET over(from, to) ==
              FlattenSeq([k \in 1 .. to - from + 1 |-> string[Append(n, from + k - 1)]])
        IN IF n \notin DOMAIN t THEN << >>
           ELSE IF order = "PreOrder" THEN <<n>> \o over(1, MAX_CHILDREN)
           ELSE over(1, Half) \o <<n>> \o over(Half + 1, MAX_CHILDREN)
  IN string[Root]

\* main: a tree is built, printed in level order, and validated.
Start(t) ==
  /\ tree = << >>
  /\ tree' = t
  /\ queue' = IF t = << >> THEN << >> ELSE <<Root>>
  /\ shown' = (t = << >>)
  /\ out' = [order \in DOMAIN out |-> treeToStringM(t, order)]
  /\ UNCHANGED result
-----------------------------------------------------------------------------
ValueAt(p) == IF p \in DOMAIN tree THEN tree[p] ELSE -1

\* Mutant: a missing node leaves no place for its children.
PushedOfNodes(p) == IF p \in DOMAIN tree THEN [k \in Children |-> Append(p, k)] ELSE << >>

\* A node pushes its children, a missing node as many missing ones.
Pushed(p) == [k \in Children |-> Append(p, k)]

thisLevel == [k \in DOMAIN queue |-> ValueAt(queue[k])]
allEmpty == \A k \in DOMAIN thisLevel : thisLevel[k] = -1

\* One turn of the loop of showLevelOrderM; a level of nothing but -1 ends it.
Level ==
  /\ ~shown /\ queue # << >>
  /\ IF allEmpty THEN shown' = TRUE /\ UNCHANGED result
     ELSE result' = Append(result, thisLevel) /\ UNCHANGED shown
  /\ queue' = IF allEmpty THEN << >>
              ELSE FlattenSeq([k \in DOMAIN queue |-> Pushed(queue[k])])
  /\ UNCHANGED <<tree, out>>

\* The tree is gone, the next one begins.
Done ==
  /\ shown
  /\ tree' = << >> /\ queue' = << >> /\ result' = << >> /\ shown' = FALSE
  /\ out' = [order \in DOMAIN out |-> << >>]

Next == Level \/ Done \/ \E t \in Trees : Start(t)

Spec == Init /\ [][Next]_vars
-----------------------------------------------------------------------------
\* The order of two nodes in a traversal: in order, the descendants through the
\* first half of the children (rounded down) precede a node.
FirstDifference(p, q) ==
  CHOOSE k \in 1 .. Len(p) : p[k] # q[k] /\ \A m \in 1 .. k - 1 : p[m] = q[m]

Precedes(order, p, q) ==
  IF IsPrefix(p, q) THEN order = "PreOrder" \/ 2 * q[Len(p) + 1] > MAX_CHILDREN
  ELSE IF IsPrefix(q, p) THEN order = "InOrder" /\ 2 * p[Len(q) + 1] <= MAX_CHILDREN
  ELSE p[FirstDifference(p, q)] < q[FirstDifference(p, q)]

\* The paths of a level, all of them, and the place of a path among them: one
\* more than the number which its indexes write in base MAX_CHILDREN.
FullLevel(level) == [1 .. level -> Children]

Place[p \in Paths(MaxDepth + 1)] ==
  IF p = Root THEN 1 ELSE (Place[Front(p)] - 1) * MAX_CHILDREN + Last(p)

Blank(level) == \A p \in FullLevel(level) : ValueAt(p) = -1

\* Each traversal names every node once, in its order. The level order puts
\* every node at the place of its path, missing nodes and missing subtrees
\* counted, down to the first level in which there is nothing but -1.
TraversalsMatch ==
  /\ \A order \in DOMAIN out :
       LET s == out[order] IN
       /\ {s[k] : k \in DOMAIN s} = DOMAIN tree
       /\ \A j, k \in DOMAIN s : j < k => s[j] # s[k] /\ Precedes(order, s[j], s[k])
  /\ \A l \in DOMAIN result :
       /\ DOMAIN result[l] = {Place[p] : p \in FullLevel(l - 1)}
       /\ \A p \in FullLevel(l - 1) : result[l][Place[p]] = ValueAt(p)
       /\ ~Blank(l - 1)
  /\ shown => Blank(Len(result))
=============================================================================
