------------------------------- MODULE OneTrees -------------------------------
(***************************************************************************)
(* Minimum 1-trees as cbLKH computes them: Prim's algorithm on the whole   *)
(* graph or on the candidate edges, the latter with a binary heap, and the *)
(* edge that turns the spanning tree into a 1-tree.                        *)
(*                                                                         *)
(* Nodes are 1 .. g.n.  A graph g is a record                              *)
(*   n          the number of nodes                                        *)
(*   cost       C(i,j), for pairs of different nodes                       *)
(*   low        the lower bound c(i,j) of the cost, as cost                *)
(*   fixed      the fixed edges, sets of two nodes                         *)
(*   forbidden  the edges an ATSP cannot use, sets of two nodes            *)
(* A tree is a record                                                      *)
(*   order  the nodes from FirstNode on, as Suc links them                 *)
(*   dad    the father of a node, 0 for the root                           *)
(*   cost   the Cost of a node: that of the edge to its father             *)
(* Candidates are a sequence of records [to, cost, alpha] for each node.   *)
(***************************************************************************)
EXTENDS Integers, SequencesExt, FiniteSetsExt

MaxInt == 1000000      \* INT_MAX
MinInt == - MaxInt

D(g, pi, a, b) == g.cost[<<a, b>>] + pi[a] + pi[b]
c(g, pi, a, b) == g.low[<<a, b>>] + pi[a] + pi[b]
FixedOrCommon(g, a, b) == {a, b} \in g.fixed
Forbidden(g, a, b) == {a, b} \in g.forbidden
FixedTo2(g, a) == Cardinality({e \in g.fixed : a \in e}) = 2

\* b is moved behind a.
Follow(order, b, a) ==
  LET rest == Remove(order, b)
  IN InsertAt(rest, SelectInSeq(rest, LAMBDA v : v = a) + 1, b)

-----------------------------------------------------------------------------
(* The heap: a sequence of nodes, ordered by their rank.                    *)

Swapped(heap, i, j) == [heap EXCEPT ![i] = heap[j], ![j] = heap[i]]

RECURSIVE SiftUp(_, _, _), SiftDown(_, _, _)
SiftUp(heap, rank, loc) ==
  IF loc > 1 /\ rank[heap[loc]] < rank[heap[loc \div 2]]
  THEN SiftUp(Swapped(heap, loc, loc \div 2), rank, loc \div 2)
  ELSE heap

SmallerChild(heap, rank, loc) ==
  IF 2 * loc < Len(heap) /\ rank[heap[2 * loc + 1]] < rank[heap[2 * loc]]
  THEN 2 * loc + 1 ELSE 2 * loc
SiftDown(heap, rank, loc) ==
  IF loc > Len(heap) \div 2 THEN heap
  ELSE LET child == SmallerChild(heap, rank, loc)
       IN IF rank[heap[loc]] <= rank[heap[child]] THEN heap
          ELSE SiftDown(Swapped(heap, loc, child), rank, child)

HeapSiftUp(heap, rank, node) == SiftUp(heap, rank, CHOOSE i \in DOMAIN heap : heap[i] = node)
HeapWithoutMin(heap, rank) ==
  IF Len(heap) = 1 THEN << >>
  ELSE SiftDown(<<Last(heap)>> \o SubSeq(heap, 2, Len(heap) - 1), rank, 1)

-----------------------------------------------------------------------------
(* MinimumSpanningTree.                                                     *)

\* A node of the dense graph that is not blue yet: s holds the tree, the
\* least cost met and the node it belongs to.
VisitDense(g, pi, blue, s, node) ==
  LET d == D(g, pi, blue, node)
      better == /\ ~ FixedTo2(g, blue) /\ ~ FixedTo2(g, node) /\ ~ Forbidden(g, blue, node)
                /\ c(g, pi, blue, node) < s.tree.cost[node] /\ d < s.tree.cost[node]
      joined == [s.tree EXCEPT !.dad[node] = blue, !.cost[node] = d]
      tree == IF better THEN joined ELSE s.tree
  IN CASE FixedOrCommon(g, blue, node) -> [tree |-> joined, min |-> MinInt, next |-> node]
       [] tree.cost[node] < s.min -> [tree |-> tree, min |-> tree.cost[node], next |-> node]
       [] OTHER -> [s EXCEPT !.tree = tree]

\* A slip for GrowDense: the costs to the nodes of the tree met before are
\* forgotten.
GrowDenseAnew(g, pi, s, i) ==
  LET blue == s.tree.order[i]
      old == [s.tree EXCEPT !.cost = [v \in 1 .. g.n |->
                IF v \in ToSet(SubSeq(s.tree.order, 1, i)) THEN @[v] ELSE MaxInt]]
      seen == FoldLeft(LAMBDA a, node : VisitDense(g, pi, blue, a, node),
                       [tree |-> old, min |-> MaxInt, next |-> s.next],
                       SubSeq(s.tree.order, i + 1, g.n))
  IN [seen EXCEPT !.tree.order = Follow(@, seen.next, blue)]

GrowDense(g, pi, s, i) ==
  LET blue == s.tree.order[i]
      seen == FoldLeft(LAMBDA a, node : VisitDense(g, pi, blue, a, node),
                       [s EXCEPT !.min = MaxInt], SubSeq(s.tree.order, i + 1, g.n))
  IN [seen EXCEPT !.tree.order = Follow(@, seen.next, blue)]

DenseTree(g, pi, order) ==
  LET start == [order |-> order, dad |-> [v \in 1 .. g.n |-> 0],
                cost |-> [v \in 1 .. g.n |-> MaxInt]]
  IN FoldLeft(LAMBDA s, i : GrowDense(g, pi, s, i),
              [tree |-> start, min |-> MaxInt, next |-> 0],
              [i \in 1 .. g.n - 1 |-> i]).tree

\* A candidate of the blue node: s holds the tree, the heap and the ranks.
\* The neighbours of the root are taken whatever they cost.
VisitSparse(g, pi, blue, root, s, candidate) ==
  LET node == candidate.to
      d == candidate.cost + pi[blue] + pi[node]
      Joined(rank) ==
        LET ranks == [s.rank EXCEPT ![node] = rank]
        IN [s EXCEPT !.tree.dad[node] = blue, !.tree.cost[node] = d,
                     !.rank = ranks, !.heap = HeapSiftUp(@, ranks, node)]
  IN CASE node \notin ToSet(s.heap) -> s
       [] node \in ToSet(s.heap) /\ FixedOrCommon(g, blue, node) -> Joined(MinInt)
       [] /\ node \in ToSet(s.heap) /\ ~ FixedOrCommon(g, blue, node)
          /\ ~ FixedTo2(g, blue) /\ ~ FixedTo2(g, node)
          /\ root \/ d < s.tree.cost[node] -> Joined(d)
       [] OTHER -> s

GrowSparse(g, pi, cand, s) ==
  LET blue == Head(s.heap)
      out == [s EXCEPT !.heap = HeapWithoutMin(s.heap, s.rank), !.last = blue,
                       !.tree.order = Follow(@, blue, s.last)]
  IN FoldLeft(LAMBDA a, k : VisitSparse(g, pi, blue, FALSE, a, k), out, cand[blue])

SparseTree(g, pi, cand, order) ==
  LET root == order[1]
      rest == Tail(order)
      tree == [order |-> order, dad |-> [v \in 1 .. g.n |-> IF v = root THEN 0 ELSE root],
               cost |-> [v \in 1 .. g.n |-> MaxInt]]
      start == FoldLeft(LAMBDA a, k : VisitSparse(g, pi, root, TRUE, a, k),
                        [tree |-> tree, rank |-> tree.cost, heap |-> rest, last |-> root],
                        cand[root])
  IN FoldLeft(LAMBDA s, i : GrowSparse(g, pi, cand, s), start, [i \in 1 .. g.n - 1 |-> i]).tree
-----------------------------------------------------------------------------
(* Connect: the second edge of a leaf.  The search gives up below max.      *)

Second(node, cost, done) == [node |-> node, cost |-> cost, done |-> done]
NoSecond == Second(0, MaxInt, FALSE)

\* The edge to a node at the distance d, of a leaf whose best so far is s.
TrySecond(g, tree, leaf, max, s, node, d, usable) ==
  CASE s.done \/ node \in {leaf, tree.dad[leaf]} \/ leaf = tree.dad[node] -> s
    [] ~ s.done /\ node \notin {leaf, tree.dad[leaf]} /\ leaf # tree.dad[node] ->
         IF FixedOrCommon(g, leaf, node) THEN Second(node, d, TRUE)
         ELSE IF FixedTo2(g, leaf) \/ FixedTo2(g, node) \/ ~ usable \/ d >= s.cost THEN s
         ELSE IF d <= max THEN Second(s.node, d, TRUE)
         ELSE Second(node, d, FALSE)

ConnectDense(g, pi, tree, leaf, max) ==
  FoldLeft(LAMBDA s, node :
             TrySecond(g, tree, leaf, max, s, node,
                       IF node = leaf THEN MaxInt ELSE D(g, pi, leaf, node),
                       /\ ~ Forbidden(g, leaf, node)
                       /\ node # leaf => c(g, pi, leaf, node) < s.cost),
           NoSecond, tree.order)

ConnectSparse(g, pi, cand, tree, leaf, max) ==
  FoldLeft(LAMBDA s, k : TrySecond(g, tree, leaf, max, s, k.to,
                                   k.cost + pi[leaf] + pi[k.to], TRUE),
           NoSecond, cand[leaf])

Connect(g, pi, cand, tree, leaf, max, sparse) ==
  IF sparse /\ Len(cand[leaf]) >= 2 THEN ConnectSparse(g, pi, cand, tree, leaf, max)
  ELSE ConnectDense(g, pi, tree, leaf, max)

-----------------------------------------------------------------------------
(* Minimum1TreeCost.                                                        *)

\* The V of a node: its degree less two.
DegreeLess2(tree, v) ==
  Cardinality({w \in DOMAIN tree.dad : tree.dad[w] = v})
    + (IF tree.dad[v] = 0 THEN 0 ELSE 1) - 2

\* The leaf whose second edge is longest, with that edge.
LongestSecond(g, pi, cand, tree, sparse) ==
  FoldLeft(LAMBDA best, leaf :
             LET s == Connect(g, pi, cand, tree, leaf, best.cost, sparse)
             IN IF s.cost > best.cost THEN [leaf |-> leaf, next |-> s.node, cost |-> s.cost]
                ELSE best,
           [leaf |-> 0, next |-> 0, cost |-> MinInt],
           SelectSeq(tree.order, LAMBDA v : DegreeLess2(tree, v) = -1))

RECURSIVE Path(_, _)
Path(dad, v) == IF v = 0 THEN << >> ELSE <<v>> \o Path(dad, dad[v])

\* The leaf becomes FirstNode, and the second node the root.
Led(tree, leaf) ==
  LET first == tree.order[1]
      root == IF leaf = first THEN tree.order[2] ELSE first
      order == <<leaf>> \o Remove(tree.order, leaf)
  IN [order |-> order,
      dad |-> [tree.dad EXCEPT ![first] = tree.order[2], ![root] = 0],
      cost |-> [tree.cost EXCEPT ![first] = tree.cost[tree.order[2]]]]

\* A 1-tree that is a tour is relinked as one: the fathers change, their
\* costs do not.
AsTour(tree) ==
  LET first == tree.order[1]
      up == <<first>> \o Path(tree.dad, tree.dad[first])
      order == up \o SelectSeq(tree.order, LAMBDA v : v \notin ToSet(up))
      Pred(v) == order[SelectInSeq(order, LAMBDA w : w = v) - 1]
  IN [tree EXCEPT !.order = order,
                  !.dad = [v \in DOMAIN @ |-> CASE v = first -> @[v]
                                                [] v = order[2] -> 0
                                                [] OTHER -> Pred(v)]]

Minimum1Tree(g, pi, cand, order, sparse) ==
  LET tree == IF sparse /\ cand[order[1]] # << >> THEN SparseTree(g, pi, cand, order)
              ELSE DenseTree(g, pi, order)
      second == LongestSecond(g, pi, cand, tree, sparse)
      V(v) == DegreeLess2(tree, v) + (IF v \in {second.leaf, second.next} THEN 1 ELSE 0)
      norm == MapThenSumSet(LAMBDA v : V(v) * V(v), 1 .. g.n)
      led == Led(tree, second.leaf)
  IN [tree |-> IF norm = 0 THEN AsTour(led) ELSE led,
      next |-> second.next, nextCost |-> second.cost, V |-> [v \in 1 .. g.n |-> V(v)], norm |-> norm,
      sum |-> MapThenSumSet(LAMBDA v : tree.cost[v], ToSet(Tail(tree.order))) + second.cost
                - 2 * MapThenSumSet(LAMBDA v : pi[v], 1 .. g.n)]
=============================================================================
