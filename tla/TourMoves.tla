------------------------------ MODULE TourMoves ------------------------------
(***************************************************************************)
(* What the moves of cbLKH do to a tour, whatever list keeps it.  A tour is *)
(* a sequence of nodes read as a cycle; a move is looked for on the tour    *)
(* 1, 2, ..., N, which is no restriction: the code names nodes only by SUC, *)
(* PRED and BETWEEN (Segment.h:42-63), and a search starts by turning       *)
(* Reversed so that t2 is the successor of t1.                              *)
(***************************************************************************)
EXTENDS Naturals, FiniteSetsExt, SequencesExt

CONSTANTS N,        \* the nodes of the tour (Dimension), five or more
          Fixed     \* the edges no move may delete (FixedOrCommon)

Nodes == 1 .. N
Start == [i \in 1 .. N |-> i]

Suc(a) == (a % N) + 1
Pred(a) == IF a = 1 THEN N ELSE a - 1
Neighbour(a, forward) == IF forward THEN Suc(a) ELSE Pred(a)
AreNeighbours(a, b) == b \in {Suc(a), Pred(a)}

\* b is met on the way from a to c.
Between(a, b, c) == IF a <= c THEN a <= b /\ b <= c ELSE a <= b \/ b <= c

FixedOrCommon(a, b) == {a, b} \in Fixed

\* The candidates of a: no neighbour on the tour.
Far(a) == {b \in Nodes \ {a} : ~AreNeighbours(a, b)}

\* Pairs (b, successor) and (b, predecessor) with the case each of them is.
Ahead(b, case) == {<<b, Suc(b), case>>}
Behind(b, case) == {<<b, Pred(b), case>>}
Toward(forward, b, case) == {<<b, Neighbour(b, forward), case>>}
Pair(s, i, j) == {s[i], s[j]}

Edges(tour) == {{tour[i], tour[(i % Len(tour)) + 1]} : i \in DOMAIN tour}

-----------------------------------------------------------------------------
\* What is left of a tour after a failed assertion or an internal error.
Broken == << >>

At(tour, a) == CHOOSE i \in DOMAIN tour : tour[i] = a
RotatedTo(tour, a) ==
  LET i == At(tour, a)
  IN SubSeq(tour, i, Len(tour)) \o SubSeq(tour, 1, i - 1)

(* The 2-opt move Swap1(a, b, c): (a,b) and the edge that ends at c on the  *)
(* far side of it are replaced by (b,c) and an edge that closes the tour.   *)
(* Nothing happens when c is next to b; (a,b) must be an edge.              *)
Swap1(tour, a, b, c) ==
  IF tour = Broken THEN Broken
  ELSE LET r == RotatedTo(tour, b)
           \* from b on, away from a
           s == IF r[Len(r)] = a THEN r ELSE RotatedTo(Reverse(tour), b)
           j == At(s, c)
       IN IF s[Len(s)] # a \/ c = b THEN Broken
          ELSE IF j \in {2, Len(s)} THEN tour
          ELSE Reverse(SubSeq(s, 1, j - 1)) \o SubSeq(s, j, Len(s))

(* The swaps of a row, three places of t for each, one after the other      *)
(* (Swap2 to Swap5).                                                        *)
Swapped(tour, t, row) ==
  FoldLeft(LAMBDA s, k : Swap1(s, t[row[3 * k - 2]], t[row[3 * k - 1]],
                                  t[row[3 * k]]),
           tour, [k \in 1 .. Len(row) \div 3 |-> k])

-----------------------------------------------------------------------------
(* The swaps of the sequential 3- and 4-opt moves, by case.                 *)
Make3OptMove(s, case) ==
  Swapped(Start, s,
    CASE case \in {1, 2} -> <<1,2,3, 6,5,4>>
      [] case = 5 -> <<1,2,4, 6,5,4, 6,2,3>>
      [] case = 6 -> <<3,4,5, 1,2,3>>
      [] OTHER -> <<1,1,1>>)

Make4OptMove(s, case) ==
  LET B(i, j, k) == Between(s[i], s[j], s[k])
  IN Swapped(Start, s,
       CASE case \in {1, 2} -> <<1,2,3, 6,5,4, 7,8,1>>
         [] case \in {3, 4} -> <<1,2,3, 8,7,6, 5,8,1>>
         [] case = 5 -> IF ~B(2,7,3) THEN <<5,6,7, 2,1,4, 1,4,5>>
                        ELSE IF B(2,7,6) THEN <<5,6,7, 5,8,3, 3,8,1>>
                        ELSE <<1,2,7, 7,2,3, 4,7,6>>
         [] case = 6 -> <<3,4,5, 6,3,2, 1,6,7>>
         [] case = 7 -> <<6,5,8, 2,1,4, 8,5,4>>
         [] case = 11 -> <<1,2,7, 3,4,5, 3,6,7>>
         [] case = 12 -> <<3,4,5, 7,8,1, 3,6,7>>
         [] case = 15 -> <<3,4,5, 3,6,7, 8,3,2>>
         [] OTHER -> <<1,1,1>>)

-----------------------------------------------------------------------------
(* Reference definitions.  An exchange deletes the tour edges (t1,t2),      *)
(* (t3,t4), ... and adds (t2,t3), (t4,t5), ... and the edge back to t1.     *)
Deleted(t) == {{t[2 * i - 1], t[2 * i]} : i \in 1 .. Len(t) \div 2}
Added(t) == {{t[2 * i], t[IF 2 * i = Len(t) THEN 1 ELSE 2 * i + 1]} :
               i \in 1 .. Len(t) \div 2}
Exchanged(t) == (Edges(Start) \ Deleted(t)) \cup Added(t)

\* The deleted edges are all different, so are the added ones, none is both.
Proper(t) ==
  /\ Cardinality(Deleted(t)) = Len(t) \div 2
  /\ Cardinality(Added(t)) = Len(t) \div 2
  /\ Added(t) \cap Edges(Start) = {}

\* A set of edges is one cycle through every node.
IsTour(edges) ==
  LET around(n) == UNION {e \in edges : n \in e}
      reached[i \in 0 .. N] ==
        IF i = 0 THEN {1}
        ELSE reached[i - 1] \cup UNION {around(n) : n \in reached[i - 1]}
  IN /\ \A n \in Nodes : Cardinality({e \in edges : n \in e}) = 2
     /\ reached[N] = Nodes
=============================================================================
