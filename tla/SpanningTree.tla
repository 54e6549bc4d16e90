----------------------------- MODULE SpanningTree -----------------------------
(***************************************************************************)
(* The class MST (src/tsp.cpp): a spanning tree of some vertices of a      *)
(* graph, grown a vertex at a time (insert, after Chin and Houck) or all   *)
(* at once (the constructor, after Prim).                                  *)
(*                                                                         *)
(* A graph is a record [n, weight, adjacency]: a weight for every pair of  *)
(* vertices, and the pairs that are edges; a tree is a record [subset,     *)
(* edges, size, cost], its edges both ways.                                *)
(***************************************************************************)
EXTENDS Integers, SequencesExt, FiniteSetsExt

NoTree == [subset |-> {}, edges |-> {}, size |-> 0, cost |-> 0]

Both(edge) == {edge, <<edge[2], edge[1]>>}
Upward(edges) == {e \in edges : e[1] < e[2]}
CostOf(g, edges) == MapThenSumSet(LAMBDA e : g.weight[e], Upward(edges))

\* A slip for Dearer: the cheaper of the two is given up.
DearerReversed(g, old, t) == g.weight[old] < g.weight[t]

\* Of the edge from w to r and the dearest on the way from w to the new
\* vertex, the one that is given up.
Dearer(g, old, t) == g.weight[old] > g.weight[t]

\* _insert: r and the part of the old tree behind it, with the new vertex z.
\* t is the dearest edge that is left between r and z.
InsertFrom(g, tree, z, root, start) ==
  LET Accs == [visited : SUBSET (0 .. g.n - 1), edges : SUBSET DOMAIN g.weight, t : DOMAIN g.weight]
      Neighbours(r) == SelectSeq([i \in 1 .. g.n |-> i - 1], LAMBDA w : <<r, w>> \in tree.edges)
      from[r \in 0 .. g.n - 1, acc \in Accs] ==
        LET Visit(a, w) ==
              IF w \in a.visited \/ <<w, r>> \notin g.adjacency THEN a
              ELSE LET b == from[w, a]
                       old == <<w, r>>
                       up == Dearer(g, old, b.t)
                       given == IF up THEN old ELSE b.t
                       kept == IF up THEN b.t ELSE old
                   IN [visited |-> b.visited, edges |-> b.edges \union Both(kept),
                       t |-> IF g.weight[given] < g.weight[a.t] THEN given ELSE a.t]
        IN FoldLeft(Visit, [acc EXCEPT !.visited = @ \union {r}, !.t = <<r, z>>], Neighbours(r))
  IN from[root, start]

\* insert reads beyond the vectors when the tree holds no vertex but z.
Insertable(tree, z) == tree.size < 2 \/ tree.subset \ {z} # {}

Insert(g, tree, z) ==
  LET subset == tree.subset \union {z}
      joined == {e \in subset \X subset : e[1] # e[2]}
      r == Min(tree.subset \ {z})
      end == InsertFrom(g, tree, z, r, [visited |-> {z}, edges |-> {}, t |-> <<r, z>>])
      edges == end.edges \union Both(end.t)
  IN CASE tree.size = 0 -> [subset |-> subset, edges |-> tree.edges, size |-> 1, cost |-> 0]
       [] tree.size = 1 ->
            [subset |-> subset, edges |-> tree.edges \union joined, size |-> 2,
             cost |-> IF joined = {} THEN tree.cost
                      ELSE g.weight[<<Max(subset), Min(subset)>>]]
       [] OTHER -> [subset |-> end.visited, edges |-> edges,
                    size |-> Cardinality(end.visited), cost |-> CostOf(g, edges)]

\* The constructor: from the last vertex, always the cheapest edge that
\* leaves the tree.
Prim(g, vertices) ==
  LET Grow(tree, i) ==
        LET out == tree.subset \X (vertices \ tree.subset)
            cheapest == CHOOSE e \in out : \A f \in out : g.weight[e] <= g.weight[f]
        IN [subset |-> tree.subset \union {cheapest[2]}, edges |-> tree.edges \union Both(cheapest),
            size |-> tree.size + 1, cost |-> tree.cost + g.weight[cheapest]]
  IN FoldLeft(Grow, [subset |-> {Max(vertices)}, edges |-> {}, size |-> 1, cost |-> 0],
              [i \in 1 .. Cardinality(vertices) - 1 |-> i])

-----------------------------------------------------------------------------
\* Every split of the vertices is crossed.
Connects(edges, vertices) ==
  \A part \in SUBSET vertices \ {{}, vertices} :
    \E e \in edges : (e[1] \in part) # (e[2] \in part)

\* The cost of a cheapest tree, from all of them.
MinimumCost(g, vertices) ==
  LET pairs == Upward(vertices \X vertices)
      trees == {edges \in kSubset(Cardinality(vertices) - 1, pairs) : Connects(edges, vertices)}
  IN Min({CostOf(g, edges) : edges \in trees})
=============================================================================
