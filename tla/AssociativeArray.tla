--------------------------- MODULE AssociativeArray ---------------------------
(***************************************************************************)
(* The B-tree of Object/AssociativeArray.c.  A node has its elements, its  *)
(* children (Null in a leaf) and the pointer to its parent; positions      *)
(* count from zero, as in the code.                                        *)
(***************************************************************************)
EXTENDS Integers, SequencesExt

CONSTANT BTreeHalfOrder \* BTREE_HALF_ORDER: BTREE_ORDER is twice that.
ASSUME HalfOrderAssumption == BTreeHalfOrder \in Nat \ {0, 1}

VARIABLES nodes, root, held  \* held: what the array should have, a history

arrayVars == <<nodes, root, held>>

Null  == 0
Order == 2 * BTreeHalfOrder
Fresh(ns) == CHOOSE n \in 1..Cardinality(DOMAIN ns) + 1 : n \notin DOMAIN ns

Tree(ns, r) == [nodes |-> ns, root |-> r]
Leaf(n)     == n.children[1] = Null

\* Children get a node as their parent.
Adopt(ns, n) ==
  [c \in DOMAIN ns |-> IF c \in ToSet(ns[n].children) THEN [ns[c] EXCEPT !.parent = n] ELSE ns[c]]

RECURSIVE Search(_, _, _, _)

Search(elements, key, left, right) ==
  LET pos == (left + right) \div 2
      at  == elements[pos + 1]
  IN  CASE at = key -> [found |-> TRUE, pos |-> pos]
        [] key < at -> IF pos = 0 \/ left > pos - 1 THEN [found |-> FALSE, pos |-> pos]
                       ELSE Search(elements, key, left, pos - 1)
        [] key > at -> IF pos + 1 > right THEN [found |-> FALSE, pos |-> pos + 1]
                       ELSE Search(elements, key, pos + 1, right)

\* bTreeNodeBinarySearch
BinarySearch(elements, key) ==
  IF elements = <<>> THEN [found |-> FALSE, pos |-> 0] ELSE Search(elements, key, 0, Len(elements) - 1)

RECURSIVE FindFrom(_, _, _)

FindFrom(ns, n, key) ==
  LET result == BinarySearch(ns[n].elements, key)
      child  == ns[n].children[result.pos + 1]
  IN  IF result.found \/ child = Null THEN [node |-> n, pos |-> result.pos, found |-> result.found]
      ELSE FindFrom(ns, child, key)

----------------------------------------------------------------------------
(* Insertion *)

RECURSIVE InsertAtNode(_, _, _, _, _)

\* Mutant: children that move to the new node keep their parent.
SplitUnadopted(ns, new) == ns

\* The children of the new node point to it.
Split(ns, new) == IF Leaf(ns[new]) THEN ns ELSE Adopt(ns, new)

\* A full node is split, and its middle element goes up, at last into a new root.
InsertAtNode(tree, n, pos, key, right) ==
  LET node     == tree.nodes[n]
      elements == InsertAt(node.elements, pos + 1, key)
      children == InsertAt(node.children, pos + 2, right)
      middle   == elements[BTreeHalfOrder + 1]
      new      == Fresh(tree.nodes)
      halves   == (new :> [elements |-> SubSeq(elements, BTreeHalfOrder + 2, Order + 1),
                           children |-> SubSeq(children, BTreeHalfOrder + 2, Order + 2), parent |-> node.parent])
                  @@ [tree.nodes EXCEPT ![n].elements = SubSeq(elements, 1, BTreeHalfOrder),
                                        ![n].children = SubSeq(children, 1, BTreeHalfOrder + 1)]
      top      == Fresh(halves)
      up       == IF node.parent # Null THEN node.parent ELSE top
      split    == Split(halves, new)
      rooted   == IF node.parent # Null THEN split
                  ELSE (top :> [elements |-> <<>>, children |-> <<n>>, parent |-> Null])
                       @@ [split EXCEPT ![n].parent = top, ![new].parent = top]
      at       == BinarySearch(rooted[up].elements, middle).pos
  IN  IF Len(node.elements) < Order
      THEN Tree([tree.nodes EXCEPT ![n].elements = elements, ![n].children = children], tree.root)
      ELSE InsertAtNode(Tree(rooted, IF node.parent # Null THEN tree.root ELSE top), up, at, middle, new)

----------------------------------------------------------------------------
(* Deletion *)

RECURSIVE Underflow(_, _, _)

\* An element of a node that has no more than half the order goes, and with it
\* the child before it.  A sibling gives an element, or the node is merged with
\* one, and an element of the parent goes.
Underflow(tree, n, pos) ==
  LET ns       == tree.nodes
      p        == ns[n].parent
      parent   == ns[p]
      \* The first element may be in the parent already.
      res      == BinarySearch(parent.elements, ns[n].elements[2]).pos
      elements == RemoveAt(ns[n].elements, pos + 1)
      children == RemoveAt(ns[n].children, pos + 1)
      l        == parent.children[res]
      r        == parent.children[res + 2]
      Fixed(ms, m) == IF Leaf(ms[m]) THEN ms ELSE Adopt(ms, m)
      fromLeft ==
        Fixed([ns EXCEPT ![n].elements = <<parent.elements[res]>> \o elements,
                         ![n].children = <<Last(ns[l].children)>> \o children,
                         ![p].elements[res] = Last(ns[l].elements),
                         ![l].elements = Front(@), ![l].children = Front(@)], n)
      fromRight ==
        Fixed([ns EXCEPT ![n].elements = Append(elements, parent.elements[res + 1]),
                         ![n].children = Append(children, ns[r].children[1]),
                         ![p].elements[res + 1] = ns[r].elements[1],
                         ![r].elements = Tail(@), ![r].children = Tail(@)], n)
      kept     == IF res = 0 THEN n ELSE l
      freed    == IF res = 0 THEN r ELSE n
      gap      == IF res = 0 THEN 0 ELSE res - 1
      merged   ==
        LET both == [ns EXCEPT ![kept] =
              IF res = 0
              THEN [@ EXCEPT !.elements = elements \o <<parent.elements[1]>> \o ns[r].elements,
                             !.children = children \o ns[r].children]
              ELSE [@ EXCEPT !.elements = @ \o <<parent.elements[res]>> \o elements,
                             !.children = @ \o children]]
        IN  [m \in DOMAIN ns \ {freed} |->
              LET it == Fixed(both, kept)[m]
              IN  IF m = p THEN [it EXCEPT !.children[gap + 1] = kept, !.children[gap + 2] = kept] ELSE it]
      enough   == Len(parent.elements) > (IF parent.parent = Null THEN 1 ELSE BTreeHalfOrder)
  IN  CASE res > 0 /\ Len(ns[l].elements) > BTreeHalfOrder -> Tree(fromLeft, tree.root)
        [] ~(res > 0 /\ Len(ns[l].elements) > BTreeHalfOrder)
             /\ res < Len(parent.elements) /\ Len(ns[r].elements) > BTreeHalfOrder -> Tree(fromRight, tree.root)
        [] OTHER ->
             IF enough
             THEN Tree([merged EXCEPT ![p].elements = RemoveAt(@, gap + 1),
                                      ![p].children = RemoveAt(@, gap + 2)], tree.root)
             ELSE IF parent.parent = Null
             THEN Tree([m \in DOMAIN merged \ {p} |-> IF m = kept THEN [merged[m] EXCEPT !.parent = Null] ELSE merged[m]], kept)
             ELSE Underflow(Tree(merged, tree.root), p, gap)

RECURSIVE Leftmost(_, _)
Leftmost(ns, n) == IF Leaf(ns[n]) THEN n ELSE Leftmost(ns, ns[n].children[1])

\* associativeArrayDelete: an element that is not in a leaf is replaced by the
\* one that follows it, which is deleted instead.
DeleteAt(tree, n, pos) ==
  LET inner == ~Leaf(tree.nodes[n])
      leaf  == IF inner THEN Leftmost(tree.nodes, tree.nodes[n].children[pos + 2]) ELSE n
      at    == IF inner THEN 0 ELSE pos
      ns    == IF inner THEN [tree.nodes EXCEPT ![n].elements[pos + 1] = tree.nodes[leaf].elements[1]]
               ELSE tree.nodes
  IN  IF Len(ns[leaf].elements) > BTreeHalfOrder \/ ns[leaf].parent = Null
      THEN Tree([ns EXCEPT ![leaf].elements = RemoveAt(@, at + 1), ![leaf].children = RemoveAt(@, at + 1)], tree.root)
      ELSE Underflow(Tree(ns, tree.root), leaf, at)

----------------------------------------------------------------------------

InitArray ==
  /\ nodes = (1 :> [elements |-> <<>>, children |-> <<Null>>, parent |-> Null])
  /\ root = 1
  /\ held = {}

Becomes(tree) == nodes' = tree.nodes /\ root' = tree.root

Insert(key) ==
  LET at == FindFrom(nodes, root, key)
  IN  /\ ~at.found
      /\ Becomes(InsertAtNode(Tree(nodes, root), at.node, at.pos, key, Null))
      /\ held' = held \cup {key}

Delete(key) ==
  LET at == FindFrom(nodes, root, key)
  IN  /\ at.found
      /\ Becomes(DeleteAt(Tree(nodes, root), at.node, at.pos))
      /\ held' = held \ {key}

----------------------------------------------------------------------------
(* What the array promises *)

\* The elements of the tree below a node, in order.
RECURSIVE InOrder(_)
InOrder(n) ==
  IF Leaf(nodes[n]) THEN nodes[n].elements
  ELSE FlattenSeq([i \in 1..Len(nodes[n].children) |->
         InOrder(nodes[n].children[i]) \o
         (IF i <= Len(nodes[n].elements) THEN <<nodes[n].elements[i]>> ELSE <<>>)])

RECURSIVE Depths(_)
Depths(n) ==
  IF Leaf(nodes[n]) THEN {0} ELSE {1 + d : d \in UNION {Depths(c) : c \in ToSet(nodes[n].children)}}

\* After any insertions and deletions, with the splits, loans and merges they
\* cause, a walk through the tree meets the elements that were put in and not
\* deleted, each once and in order, and a search finds exactly those.
ArrayIsSorted ==
  /\ LET walk == InOrder(root)
     IN  ToSet(walk) = held /\ \A i \in 1..Len(walk) - 1 : walk[i] < walk[i + 1]
  /\ \A key \in held : FindFrom(nodes, root, key).found

\* All leaves are as deep, no node but the root has fewer elements than half the
\* order, none has more than the order, and every pointer to a parent is right:
\* the next split or merge starts from it.
ArrayIsBalanced ==
  /\ Cardinality(Depths(root)) = 1
  /\ nodes[root].parent = Null
  /\ \A n \in DOMAIN nodes :
       /\ Len(nodes[n].elements) <= Order
       /\ n # root => Len(nodes[n].elements) >= BTreeHalfOrder
       /\ Len(nodes[n].children) = Len(nodes[n].elements) + 1
       /\ ~Leaf(nodes[n]) => \A c \in ToSet(nodes[n].children) : nodes[c].parent = n
==============================================================================
