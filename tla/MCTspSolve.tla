----------------------------- MODULE MCTspSolve -----------------------------
(***************************************************************************)
(* Instances of TspSolve for TLC: three subgraphs, of which the first two  *)
(* share vertex 4.  A tour is a set of vertices with a cost, and each set  *)
(* of four vertices has tours of several costs.                            *)
(***************************************************************************)
EXTENDS TspSolve, TLC

SubgraphA == (0 :> 1..4) @@ (1 :> 4..7) @@ (2 :> 8..11)
Vertices == 1..11
RequestsA == {Vertices, {1, 2, 3, 4, 8, 9, 10, 11}, {1, 2, 3, 4, 8}, {5, 9}, {}}

CostsOf(s) ==
    CASE Cardinality(s) <= 1 -> {0}
      [] Cardinality(s) = 2 -> {3}
      [] Cardinality(s) = 3 -> {4, 5}
      [] Cardinality(s) > 3 -> IF 1 \in s THEN {4, 5, 8} ELSE {3, 7}

Reachable == UNION {SUBSET SubgraphA[k] : k \in DOMAIN SubgraphA}
ToursA == [s \in Reachable |-> {<<s, c>> : c \in CostsOf(s)}]
TourCostA == [t \in UNION {ToursA[s] : s \in Reachable} |-> t[2]]
=============================================================================
