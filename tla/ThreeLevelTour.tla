---------------------------- MODULE ThreeLevelTour ----------------------------
(***************************************************************************)
(* The three-level list, the other tree in which cbLKH can keep its tour    *)
(* (TREE_TYPE = THREE_LEVEL_TREE): nodes in segments, segments in super     *)
(* segments (Flip_SSL.c, Between_SSL.c).  The code of the two upper levels  *)
(* is the code of the two lower ones with Reversed bits in the place of     *)
(* costs, so that one definition stands for both: level k holds the items   *)
(* 1 (nodes), 2 (segments) and 3 (super segments), and parent[k], tip[k],   *)
(* size[k] and rev[k] say how items of level k lie in their group of level  *)
(* k + 1.  link[k]["pred"] and link[k]["suc"] are the two sides of an item. *)
(***************************************************************************)
EXTENDS Integers, FiniteSetsExt, SequencesExt

CONSTANTS Dimensions,   \* pairs of a Dimension and a number of flips
          Turned        \* values of Reversed when the search for a move starts

VARIABLES list,
          edges,        \* of the tour the list should hold
          flips         \* left to be made

vars == <<list, edges, flips>>

Sides == {"pred", "suc"}
Opp(side) == IF side = "pred" THEN "suc" ELSE "pred"
Distance(i, j) == IF i < j THEN j - i ELSE i - j
Items(T, k) == DOMAIN T.rank[k]
Nodes(T) == Items(T, 1)

-----------------------------------------------------------------------------
(* AllocateSegments, and the loop of LinKernighan that fills the list.      *)

\* The whole part of the i-th root of n.
Root(i, n) == CHOOSE r \in 1 .. n : r ^ i <= n /\ n < (r + 1) ^ i
GroupsOf(n, size) == (n + size - 1) \div size
Ring(n) == [side \in Sides |-> [i \in 1 .. n |->
              IF side = "suc" THEN (i % n) + 1 ELSE ((i - 2) % n) + 1]]
Parts(n, size) ==
  [tip |-> [side \in Sides |-> [g \in 1 .. GroupsOf(n, size) |->
              IF side = "pred" THEN (g - 1) * size + 1 ELSE Min({g * size, n})]],
   size |-> [g \in 1 .. GroupsOf(n, size) |-> Min({size, n - (g - 1) * size})]]

Built(n, group, sgroup, reversed) ==
  LET count == <<n, GroupsOf(n, group), GroupsOf(GroupsOf(n, group), sgroup)>>
      of == <<group, sgroup>>
  IN [link |-> [k \in 1 .. 3 |-> Ring(count[k])],
      rank |-> [k \in 1 .. 3 |-> [i \in 1 .. count[k] |-> i]],
      parent |-> [k \in 1 .. 2 |-> [i \in 1 .. count[k] |-> ((i - 1) \div of[k]) + 1]],
      tip |-> [k \in 1 .. 2 |-> Parts(count[k], of[k]).tip],
      size |-> [k \in 1 .. 2 |-> Parts(count[k], of[k]).size],
      rev |-> [k \in 1 .. 2 |-> [g \in 1 .. count[k + 1] |-> FALSE]],
      paid |-> [side \in Sides |-> [i \in 1 .. n |-> {i, Ring(n)[side][i]}]],
      group |-> of,
      reversed |-> reversed]
BuiltTour(n, reversed) == Built(n, Root(3, n), Root(2, GroupsOf(n, Root(3, n))), reversed)

-----------------------------------------------------------------------------
(* Segment.h: SUC and PRED under THREE_LEVEL_TREE.                          *)
Forward(T, n) ==
  T.reversed = (T.rev[1][T.parent[1][n]] # T.rev[2][T.parent[2][T.parent[1][n]]])
SUC(T, n) == T.link[1][IF Forward(T, n) THEN "suc" ELSE "pred"][n]
PRED(T, n) == T.link[1][IF Forward(T, n) THEN "pred" ELSE "suc"][n]

(* Between_SSL: b is met on the way from a to c.  P is the segment of a     *)
(* node, Q its super segment.                                               *)
Between(T, a, b, c) ==
  LET P(x) == T.parent[1][x]
      Q(x) == T.parent[2][P(x)]
      r(x) == T.rank[1][x]
      s(x) == T.rank[2][P(x)]
      q(x) == T.rank[3][Q(x)]
      low(x, f) == Forward(T, x) = f
      high(x, f) == (T.reversed = T.rev[2][Q(x)]) = f
      cyclic(x, y, z) == IF x < z THEN y > x /\ y < z ELSE y > x \/ y < z
  IN CASE b \in {a, c} -> TRUE
       [] a = c -> FALSE
       [] P(a) = P(c) -> low(a, IF P(b) = P(a) THEN cyclic(r(a), r(b), r(c)) ELSE r(a) > r(c))
       [] P(b) = P(c) -> low(b, r(b) < r(c))
       [] P(a) = P(b) -> low(a, r(a) < r(b))
       [] Q(a) = Q(c) -> high(a, IF Q(b) = Q(a) THEN cyclic(s(a), s(b), s(c)) ELSE s(a) > s(c))
       [] Q(b) = Q(c) -> high(b, s(b) < s(c))
       [] Q(a) = Q(b) -> high(a, s(a) < s(b))
       [] OTHER -> T.reversed # cyclic(q(a), q(b), q(c))

-----------------------------------------------------------------------------
Swapped(sided, moved) ==
  [side \in Sides |-> [x \in DOMAIN sided[side] |->
     sided[IF x \in moved THEN Opp(side) ELSE side][x]]]

\* The items moved of level k are turned: a node with its two costs, a segment
\* or super segment with its bit.
TurnItems(T, k, moved) ==
  IF moved = {} THEN T
  ELSE IF k = 1
  THEN [T EXCEPT !.link[1] = Swapped(@, moved), !.paid = Swapped(@, moved)]
  ELSE [T EXCEPT !.link[k] = Swapped(@, moved),
                 !.rev[k - 1] = [g \in DOMAIN @ |-> (g \in moved) # @[g]]]

\* The neighbour was of x, on the given side if it is there and else on the
\* other, gives way to now.
Relink(T, k, x, side, was, now) ==
  LET s == IF T.link[k][side][x] = was THEN side ELSE Opp(side)
  IN IF k = 1 THEN [T EXCEPT !.link[1][s][x] = now, !.paid[s][x] = {x, now}]
     ELSE [T EXCEPT !.link[k][s][x] = now]

\* SplitSegment and SplitSSegment: the items moved of the group P, those up to
\* leaves, join the group Q beside them.  Q may run the other way, so that the
\* items that join it are turned; the only item of a group is turned itself.
Joined(T, k, side, leaves, stays, number, P, Q, end, t, moved, aligned) ==
  LET up == (side = "pred") = aligned
      place(x) == Distance(T.rank[k][x], T.rank[k][end]) + 1
  IN [T EXCEPT
        !.parent[k] = [x \in DOMAIN @ |-> IF x \in moved THEN Q ELSE @[x]],
        !.rank[k] = [x \in DOMAIN @ |-> IF x \notin moved THEN @[x]
                                       ELSE @[t] + (IF up THEN place(x) ELSE - place(x))],
        !.tip[k] = [@ EXCEPT ![IF aligned THEN Opp(side) ELSE side][Q] = leaves,
                             ![side][P] = stays],
        !.size[k] = [@ EXCEPT ![P] = @ - number, ![Q] = @ + number]]

\* A slip for TurnLone: the only item of Q is turned without the bit of Q.
TurnLoneOnly(T, k, t, Q) == TurnItems(T, k, {t})
TurnLone(T, k, t, Q) == [TurnItems(T, k, {t}) EXCEPT !.rev[k][Q] = ~ @]

Join(T, k, side, leaves, stays, number) ==
  LET P == T.parent[k][leaves]
      Q == T.link[k + 1][IF T.rev[k][P] THEN Opp(side) ELSE side][P]
      end == T.tip[k][side][P]
      t == T.link[k][side][end]
      aligned == t = T.tip[k][Opp(side)][Q]
      moved == {x \in Items(T, k) : T.parent[k][x] = P
                  /\ IF side = "pred" THEN T.rank[k][x] <= T.rank[k][leaves]
                                      ELSE T.rank[k][x] >= T.rank[k][leaves]}
      lone == t = T.tip[k][side][Q] /\ T.link[k][Opp(side)][t] # end
  IN Joined(IF ~ aligned THEN TurnItems(T, k, moved)
            ELSE IF lone THEN TurnLone(T, k, t, Q) ELSE T,
            k, side, leaves, stays, number, P, Q, end, t, moved, aligned)

SplitSegment(T, k, lower, upper) ==
  LET P == T.parent[k][lower]
      count == T.rank[k][lower] - T.rank[k][T.tip[k]["pred"][P]] + 1
  IN IF 2 * count < T.size[k][P] THEN Join(T, k, "pred", lower, upper, count)
     ELSE Join(T, k, "suc", upper, lower, T.size[k][P] - count)
SplitBetween(T, k, a, b) ==
  IF T.parent[k][a] # T.parent[k][b] THEN T
  ELSE IF T.rank[k][b] < T.rank[k][a] THEN SplitSegment(T, k, b, a)
  ELSE SplitSegment(T, k, a, b)

\* SPLIT_CUTOFF * GroupSize.
TooFar(T, k, a, b) ==
  /\ T.parent[k][a] = T.parent[k][b]
  /\ 4 * Distance(T.rank[k][a], T.rank[k][b]) > 3 * T.group[k]
Apart(T, k, q) ==
  /\ T.parent[k][q[1]] # T.parent[k][q[3]]
  /\ T.parent[k][q[2]] # T.parent[k][q[4]]
SplitIfApart(T, k, q) == IF Apart(T, k, q) THEN SplitBetween(T, k, q[3], q[4]) ELSE T
SplitsFor(T, k, q) ==
  IF Apart(T, k, q) THEN SplitIfApart(SplitBetween(T, k, q[1], q[2]), k, q)
  ELSE IF TooFar(T, k, q[1], q[3]) \/ TooFar(T, k, q[2], q[4])
  THEN SplitBetween(SplitBetween(T, k, q[1], q[2]), k, q[3], q[4])
  ELSE T

\* FlipNodes, FlipSegments and FlipSSegments: the items run, from b to d, that
\* lie between a and c are turned.  place(x) is how far x is from b.
Flipped(T, k, a, b, c, d, run, place(_)) ==
  LET turned == [TurnItems(T, k, run) EXCEPT
                   !.rank[k] = [x \in DOMAIN @ |-> IF x \in run THEN @[d] - place(x) ELSE @[x]]]
      inner == Relink(Relink(turned, k, d, "pred", turned.link[k]["pred"][d], a),
                      k, b, "suc", turned.link[k]["suc"][b], c)
  IN Relink(Relink(inner, k, a, "suc", b, d), k, c, "pred", d, b)

\* Within a group, of which b or d may have been the first or last.
FlipPath(T, k, a, b, c, d) ==
  LET G == T.parent[k][b]
      place(x) == T.rank[k][x] - T.rank[k][b]
      path == {x \in Items(T, k) : T.parent[k][x] = G
                 /\ place(x) >= 0 /\ place(x) <= place(d)}
      other(x) == IF x = b THEN d ELSE IF x = d THEN b ELSE x
  IN [Flipped(T, k, a, b, c, d, path, place) EXCEPT
        !.tip[k] = [side \in Sides |-> [@[side] EXCEPT ![G] = other(@)]]]

\* The path t2 .. t4 or the path t3 .. t1 lies in one group, the one named
\* inner or the other.
LocalPath(q, inner, forward) ==
  CASE inner /\ forward -> q
    [] inner /\ ~ forward -> <<q[3], q[4], q[1], q[2]>>
    [] ~ inner /\ forward -> <<q[2], q[1], q[4], q[3]>>
    [] OTHER -> Reverse(q)
FlipLocally(T, k, q) ==
  LET p(i) == T.parent[k][q[i]]
      r(i) == T.rank[k][q[i]]
      forward == IF p(1) = p(3) THEN r(1) < r(3) ELSE r(2) <= r(4)
      inner == \/ p(1) # p(3)
               \/ /\ p(1) = p(2) /\ p(1) = p(4)
                  /\ IF forward THEN r(2) > r(1)
                     ELSE r(2) < r(1) /\ (k = 2 => r(1) - r(2) + 1 < Cardinality(Items(T, 2)))
      path == LocalPath(q, inner, forward)
  IN FlipPath(T, k, path[1], path[2], path[3], path[4])

\* The four items at the two cuts get their new neighbours.
Cut(T, k, q) ==
  Relink(Relink(Relink(Relink(T, k, q[3], "suc", q[4], q[2]),
                       k, q[2], "suc", q[1], q[3]),
                k, q[1], "pred", q[2], q[4]),
         k, q[4], "pred", q[3], q[1])

\* The super segments from that of t3 to that of t1 are turned.
FlipSSegments(T, q) ==
  LET P(i) == T.parent[2][q[i]]
      place(x) == (T.rank[3][x] - T.rank[3][P(3)]) % Cardinality(Items(T, 3))
      run == {x \in Items(T, 3) : place(x) <= place(P(1))}
  IN Flipped(T, 3, P(4), P(3), P(2), P(1), run, place)

\* The names under which they are turned: t2's super segment follows t1's, and
\* the run of super segments named is the shorter one.
FromLeft(T, q) ==
  IF T.link[3]["suc"][T.parent[2][q[1]]] = T.parent[2][q[2]] THEN q
  ELSE <<q[2], q[1], q[4], q[3]>>
Shorter(T, q) ==
  LET groups == Cardinality(Items(T, 3))
      i == (T.rank[3][T.parent[2][q[2]]] - T.rank[3][T.parent[2][q[3]]]) % groups
  IN IF 2 * (IF i = 0 THEN groups ELSE i) > groups THEN Reverse(q) ELSE q
FlipGroups(T, q) == Cut(FlipSSegments(T, q), 2, q)

\* A 2-opt move of segments, within a super segment where that is possible.
FlipSegmentsOf(T, q) ==
  IF Apart(T, 2, q) THEN FlipGroups(T, Shorter(T, FromLeft(T, q))) ELSE FlipLocally(T, 2, q)
Above(T, q) ==
  LET p == [i \in 1 .. 4 |-> T.parent[1][q[i]]]
  IN FlipSegmentsOf(SplitsFor(T, 2, p), p)
FlipSplit(T, q) ==
  IF Apart(T, 1, q) THEN Cut(Above(T, q), 1, q) ELSE FlipLocally(T, 1, q)

(* Flip_SSL(t1, t2, t3), with t4 as the orientation of (t1,t2) gives it.    *)
Fourth(T, t1, t2, t3) == IF t2 = SUC(T, t1) THEN PRED(T, t3) ELSE SUC(T, t3)
Flip_SSL(T, q) == FlipSplit(SplitsFor(T, 1, q), q)

-----------------------------------------------------------------------------
Init ==
  \E of \in Dimensions :
    /\ flips = of[2]
    /\ \E reversed \in Turned : list = BuiltTour(of[1], reversed)
    /\ edges = {{i, (i % of[1]) + 1} : i \in 1 .. of[1]}

\* Swap1 for an edge of the tour and a node that is neither end of it nor next
\* to t2, where Flip_SSL returns at once.
Swap1 ==
  /\ flips > 0
  /\ \E t1, t3 \in Nodes(list), side \in Sides :
       \E t2 \in {list.link[1][side][t1]} :
         \E t4 \in {Fourth(list, t1, t2, t3)} :
           /\ t3 \notin {t2, list.link[1]["pred"][t2], list.link[1]["suc"][t2]}
           /\ list' = Flip_SSL(list, <<t1, t2, t3, t4>>)
           /\ edges' = (edges \ {{t1, t2}, {t3, t4}}) \union {{t2, t3}, {t4, t1}}
  /\ flips' = flips - 1

Next == Swap1
Spec == Init /\ [][Next]_vars

-----------------------------------------------------------------------------
\* The nodes in the order in which SUC meets them.
Walk(T) ==
  LET n == Cardinality(Nodes(T))
      at[i \in 1 .. n] == IF i = 1 THEN 1 ELSE SUC(T, at[i - 1])
  IN [i \in 1 .. n |-> at[i]]

\* The list is the tour: SUC goes once round it, PRED goes back, and the cost a
\* node keeps for a side is that of the edge on that side.
HoldsTour(T, walk) ==
  /\ \A i \in DOMAIN walk :
       /\ {walk[i], SUC(T, walk[i])} \in edges
       /\ PRED(T, SUC(T, walk[i])) = walk[i]
  /\ Cardinality(ToSet(walk)) = Len(walk) /\ SUC(T, Last(walk)) = walk[1]
  /\ \A side \in Sides, n \in Nodes(T) : T.paid[side][n] = {n, T.link[1][side][n]}

\* Between_SSL answers as a walk round the tour does.
AnswersBetween(T, walk) ==
  \A i, j, k \in DOMAIN walk :
    Between(T, walk[i], walk[j], walk[k])
      <=> (j - i) % Len(walk) <= (k - i) % Len(walk)

\* Whatever is flipped, the three levels of the list hold the tour that 2-opt
\* moves make of it, and Between_SSL, which decides from ranks and bits of
\* three levels alone, agrees with it (Flip_SSL.c:32-310, Between_SSL.c:16-60).
ListIsTour ==
  LET walk == Walk(list) IN HoldsTour(list, walk) /\ AnswersBetween(list, walk)
=============================================================================
