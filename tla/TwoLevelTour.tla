---------------------------- MODULE TwoLevelTour ----------------------------
(***************************************************************************)
(* The two-level list in which cbLKH keeps its tour (cbLKH/SRC/Segment.h,   *)
(* Flip_SL.c, Between_SL.c; default of Segment.h:4-10).  The tour is cut    *)
(* into segments; a node knows its two neighbours and its rank within its   *)
(* segment, a segment its two neighbours, its first and last node and a bit *)
(* that says it is read backwards.  A 2-opt move turns a path round inside  *)
(* one segment, or the bits of a run of whole segments, splitting and       *)
(* merging segments first where the ends of the path are not their ends.    *)
(*                                                                          *)
(* A tour is a record.  Its "pred" and "suc" fields are kept as the two     *)
(* sides of one function, so that the mirrored halves of the code are one   *)
(* definition: link[side][node], slink[side][segment], and tip["pred"] and  *)
(* tip["suc"] for First and Last.  Hash is the set of edges it encodes: the *)
(* code XORs one product of random numbers per edge.  paid[side][node] is   *)
(* the edge whose cost the node keeps for that side (PredCost, SucCost);    *)
(* C_FUNCTION, which an ATSP uses, answers from it (C.c:36-41).             *)
(***************************************************************************)
EXTENDS Integers, Sequences, FiniteSetsExt, SequencesExt

Sides == {"pred", "suc"}
Opp(side) == IF side = "pred" THEN "suc" ELSE "pred"

NodesOf(T) == DOMAIN T.rank
SegmentsOf(T) == DOMAIN T.srank

SUC(T, n) ==
  T.link[IF T.reversed = T.srev[T.parent[n]] THEN "suc" ELSE "pred"][n]
PRED(T, n) ==
  T.link[IF T.reversed = T.srev[T.parent[n]] THEN "pred" ELSE "suc"][n]

Adjacent(T, a, b) == \E side \in Sides : T.link[side][a] = b

\* The edges of the list, and of a tour given as a sequence.
EdgesOf(T) == {{n, SUC(T, n)} : n \in NodesOf(T)}
SeqEdges(tour) ==
  {{tour[i], tour[(i % Len(tour)) + 1]} : i \in DOMAIN tour}

Distance(i, j) == IF i < j THEN j - i ELSE i - j

GroupSize(n) == CHOOSE k \in 1 .. n : k * k <= n /\ n < (k + 1) * (k + 1)
Groups(n) == (n + GroupSize(n) - 1) \div GroupSize(n)

\* The list LinKernighan builds from the tour it starts with.
BuiltTour(tour) ==
  LET n == Len(tour)
      groups == Groups(n)
      at == [v \in 1 .. n |-> CHOOSE i \in 1 .. n : tour[i] = v]
      first(S) == (S - 1) * GroupSize(n) + 1
      last(S) == IF S = groups THEN n ELSE S * GroupSize(n)
  IN [link |-> [side \in Sides |-> [v \in 1 .. n |->
                  IF side = "suc" THEN tour[(at[v] % n) + 1]
                  ELSE tour[((at[v] - 2) % n) + 1]]],
      paid |-> [side \in Sides |-> [v \in 1 .. n |->
                  IF side = "suc" THEN {v, tour[(at[v] % n) + 1]}
                  ELSE {v, tour[((at[v] - 2) % n) + 1]}]],
      rank |-> at,
      parent |-> [v \in 1 .. n |-> ((at[v] - 1) \div GroupSize(n)) + 1],
      slink |-> [side \in Sides |-> [S \in 1 .. groups |->
                  IF side = "suc" THEN (S % groups) + 1
                  ELSE ((S - 2) % groups) + 1]],
      srank |-> [S \in 1 .. groups |-> S],
      srev |-> [S \in 1 .. groups |-> FALSE],
      tip |-> [side \in Sides |-> [S \in 1 .. groups |->
                 tour[IF side = "pred" THEN first(S) ELSE last(S)]]],
      size |-> [S \in 1 .. groups |-> last(S) - first(S) + 1],
      reversed |-> FALSE,
      hash |-> SeqEdges(tour),
      stack |-> << >>]

-----------------------------------------------------------------------------
\* The two sides of every member of moved exchanged.
Turned(sided, moved) ==
  [side \in Sides |-> [x \in DOMAIN sided[side] |->
     sided[IF x \in moved THEN Opp(side) ELSE side][x]]]

TurnNodes(T, moved) ==
  [T EXCEPT !.link = Turned(@, moved), !.paid = Turned(@, moved)]

\* The nodes of a segment from its end on the given side to the node leaves
\* join the segment Q next to it on that side.  Q may run the other way, so that
\* the nodes that join it are turned; a Q of one node is turned itself.
Join(T, side, leaves, stays, number) ==
  LET P == T.parent[leaves]
      Q == T.slink[IF T.srev[P] THEN Opp(side) ELSE side][P]
      end == T.tip[side][P]
      t == T.link[side][end]
      aligned == t = T.tip[Opp(side)][Q]
      turnQ == aligned /\ t = T.tip[side][Q] /\ T.link[Opp(side)][t] # end
      moved == {x \in NodesOf(T) : T.parent[x] = P
                  /\ IF side = "pred" THEN T.rank[x] <= T.rank[leaves]
                                      ELSE T.rank[x] >= T.rank[leaves]}
      place(x) == Distance(T.rank[x], T.rank[end]) + 1
      up == (side = "pred") = aligned
      S == TurnNodes(T, IF ~aligned THEN moved ELSE IF turnQ THEN {t} ELSE {})
  IN [S EXCEPT
        !.parent = [x \in NodesOf(T) |-> IF x \in moved THEN Q ELSE @[x]],
        !.rank = [x \in NodesOf(T) |->
                    IF x \notin moved THEN @[x]
                    ELSE @[t] + (IF up THEN place(x) ELSE -place(x))],
        !.srev[Q] = IF turnQ THEN ~@ ELSE @,
        !.tip = [@ EXCEPT ![IF aligned THEN Opp(side) ELSE side][Q] = leaves,
                          ![side][P] = stays],
        !.size = [@ EXCEPT ![P] = @ - number, ![Q] = @ + number]]

\* The segment of two neighbours is split between them, and the smaller part
\* joins the segment next to it.
SplitSegment(T, lower, upper) ==
  LET P == T.parent[lower]
      count == T.rank[lower] - T.rank[T.tip["pred"][P]] + 1
  IN IF 2 * count < T.size[P] THEN Join(T, "pred", lower, upper, count)
     ELSE Join(T, "suc", upper, lower, T.size[P] - count)
SplitBetween(T, a, b) ==
  IF T.parent[a] # T.parent[b] THEN T
  ELSE IF T.rank[b] < T.rank[a] THEN SplitSegment(T, b, a) ELSE SplitSegment(T, a, b)

\* Whether the path between two nodes of one segment is too long to turn.
TooFar(T, a, b) ==
  /\ T.parent[a] = T.parent[b]
  /\ 4 * Distance(T.rank[a], T.rank[b]) > 3 * GroupSize(Cardinality(NodesOf(T)))

\* The splits Flip_SL makes before it turns a path.
Apart(T, t1, t2, t3, t4) ==
  T.parent[t1] # T.parent[t3] /\ T.parent[t2] # T.parent[t4]
SplitIfApart(T, t1, t2, t3, t4) ==
  IF Apart(T, t1, t2, t3, t4) THEN SplitBetween(T, t3, t4) ELSE T
SplitsFor(T, t1, t2, t3, t4) ==
  IF Apart(T, t1, t2, t3, t4)
  THEN SplitIfApart(SplitBetween(T, t1, t2), t1, t2, t3, t4)
  ELSE IF TooFar(T, t1, t3) \/ TooFar(T, t2, t4)
  THEN SplitBetween(SplitBetween(T, t1, t2), t3, t4)
  ELSE T

\* The neighbour was of the node x, on the given side if it is there and else
\* on the other, gives way to now.
Relink(T, x, side, was, now) ==
  LET s == IF T.link[side][x] = was THEN side ELSE Opp(side)
  IN [T EXCEPT !.link[s][x] = now, !.paid[s][x] = {x, now}]

\* The path b .. d, which lies within one segment between a and c, is turned.
FlipPath(T, a, b, c, d) ==
  LET S == T.parent[b]
      path == {x \in NodesOf(T) : T.parent[x] = S
                 /\ T.rank[b] <= T.rank[x] /\ T.rank[x] <= T.rank[d]}
      turned == [TurnNodes(T, path) EXCEPT
                   !.link = [@ EXCEPT !["pred"][d] = a, !["suc"][b] = c],
                   !.paid = [@ EXCEPT !["pred"][d] = {d, a}, !["suc"][b] = {b, c}]]
      linked == Relink(Relink(turned, a, "suc", b, d), c, "pred", d, b)
      other(x) == IF x = b THEN d ELSE IF x = d THEN b ELSE x
  IN [linked EXCEPT
        !.rank = [x \in NodesOf(T) |->
                    IF x \in path THEN @[b] + @[d] - @[x] ELSE @[x]],
        !.tip = [side \in Sides |-> [@[side] EXCEPT ![S] = other(@)]]]

\* Either the path t2 .. t4 or the path t3 .. t1 lies in one segment.
FlipLocally(T, t1, t2, t3, t4) ==
  LET p == T.parent
      r == T.rank
      forward == IF p[t1] = p[t3] THEN r[t1] < r[t3] ELSE r[t2] <= r[t4]
      inner == \/ p[t1] # p[t3]
               \/ /\ p[t1] = p[t2] /\ p[t1] = p[t4]
                  /\ IF forward THEN r[t2] > r[t1] ELSE r[t2] < r[t1]
      path == CASE inner /\ forward -> <<t1, t2, t3, t4>>
                [] inner /\ ~forward -> <<t3, t4, t1, t2>>
                [] ~inner /\ forward -> <<t2, t1, t4, t3>>
                [] OTHER -> <<t4, t3, t2, t1>>
  IN FlipPath(T, path[1], path[2], path[3], path[4])

\* The segments from that of t3 to that of t1 are turned: their links, their
\* ranks and their bits, and the four nodes at the two cuts are relinked.
\* q = <<t1, t2, t3, t4>>.
FlipSegments(T, q) ==
  LET p == [i \in 1 .. 4 |-> T.parent[q[i]]]
      place(S) == (T.srank[S] - T.srank[p[3]]) % Cardinality(SegmentsOf(T))
      run == {S \in SegmentsOf(T) : place(S) <= place(p[1])}
      cut23 == Relink(Relink(T, q[3], "suc", q[4], q[2]), q[2], "suc", q[1], q[3])
      cut41 == Relink(Relink(cut23, q[1], "pred", q[2], q[4]), q[4], "pred", q[3], q[1])
  IN [cut41 EXCEPT
        !.slink = [Turned(@, run) EXCEPT
                     !["suc"][p[3]] = p[2], !["pred"][p[2]] = p[3],
                     !["pred"][p[1]] = p[4], !["suc"][p[4]] = p[1]],
        !.srank = [S \in SegmentsOf(T) |->
                     IF S \in run THEN @[p[1]] - place(S) ELSE @[S]],
        !.srev = [S \in SegmentsOf(T) |-> (S \in run) # @[S]]]

\* The names under which segments are turned: t2's follows t1's, and the run of
\* segments named is the shorter one.
FromLeft(T, q) ==
  IF T.slink["suc"][T.parent[q[1]]] = T.parent[q[2]] THEN q
  ELSE <<q[2], q[1], q[4], q[3]>>
Shorter(T, q) ==
  LET groups == Cardinality(SegmentsOf(T))
      apart == (T.srank[T.parent[q[2]]] - T.srank[T.parent[q[3]]]) % groups
  IN IF 2 * apart > groups THEN Reverse(q) ELSE q

\* The move is pushed on the stack under the names it was carried out with.
Pushed(T, q) ==
  [T EXCEPT
     !.stack = Append(@, q),
     !.hash = SymDiff(@, {{q[1], q[2]}, {q[3], q[4]}, {q[2], q[3]}, {q[4], q[1]}})]
FlipSplit(T, q) ==
  IF Apart(T, q[1], q[2], q[3], q[4])
  THEN LET o == Shorter(T, FromLeft(T, q)) IN Pushed(FlipSegments(T, o), o)
  ELSE Pushed(FlipLocally(T, q[1], q[2], q[3], q[4]), q)

\* Swap1(t1,t2,t3): the edges t1-t2 and t3-t4 give way to t2-t3 and t4-t1.
Flip4(T, t1, t2, t3, t4) ==
  FlipSplit(SplitsFor(T, t1, t2, t3, t4), <<t1, t2, t3, t4>>)
Flip(T, t1, t2, t3) ==
  IF Adjacent(T, t2, t3) THEN T
  ELSE Flip4(T, t1, t2, t3, IF t2 = SUC(T, t1) THEN PRED(T, t3) ELSE SUC(T, t3))

\* Undoing the topmost move.  The inverse flip pushes a record of its own,
\* which is dropped as well.
Pop(T) == [T EXCEPT !.stack = Front(@)]
Undo(T) ==
  LET m == Last(T.stack) IN Pop(Flip(Pop(T), m[3], m[2], m[1]))

\* A slip for Between: the order of the segments read without the bit of the
\* tour.
BetweenUnturned(T, a, b, c) ==
  LET P(x) == T.parent[x]
      inside(x, f) == (T.reversed = T.srev[P(x)]) = f
      r == T.rank
      s(x) == T.srank[P(x)]
      cyclic(x, y, z) == IF x < z THEN y > x /\ y < z ELSE y > x \/ y < z
  IN CASE b = a \/ b = c -> TRUE
       [] a = c -> FALSE
       [] P(a) = P(c) /\ P(b) = P(a) -> inside(a, cyclic(r[a], r[b], r[c]))
       [] P(a) = P(c) /\ P(b) # P(a) -> inside(a, r[a] > r[c])
       [] P(b) = P(c) -> inside(b, r[b] < r[c])
       [] P(a) = P(b) -> inside(a, r[a] < r[b])
       [] OTHER -> cyclic(s(a), s(b), s(c))

\* Between_SL: b is met on the way from a to c.
Between(T, a, b, c) ==
  LET P(x) == T.parent[x]
      inside(x, f) == (T.reversed = T.srev[P(x)]) = f
      r == T.rank
      s(x) == T.srank[P(x)]
      cyclic(x, y, z) == IF x < z THEN y > x /\ y < z ELSE y > x \/ y < z
  IN CASE b = a \/ b = c -> TRUE
       [] a = c -> FALSE
       [] P(a) = P(c) /\ P(b) = P(a) -> inside(a, cyclic(r[a], r[b], r[c]))
       [] P(a) = P(c) /\ P(b) # P(a) -> inside(a, r[a] > r[c])
       [] P(b) = P(c) -> inside(b, r[b] < r[c])
       [] P(a) = P(b) -> inside(a, r[a] < r[b])
       [] OTHER -> T.reversed # cyclic(s(a), s(b), s(c))
=============================================================================
