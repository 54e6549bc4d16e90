------------------------------ MODULE KOptMoves ------------------------------
(***************************************************************************)
(* Moves of any number K of edges: BestKOptMove with its recursion, the     *)
(* tests of Sequence.c, PatchCycles, which joins the cycles of an exchange  *)
(* that is not a tour, and MakeKOptMove, which makes an exchange by sorting *)
(* reversals.  cbLKH uses them for MOVE_TYPE > 5 and with PATCHING_C > 0.   *)
(*                                                                          *)
(* BestKOptMoveRec is a depth-first search over t[3], ..., t[2K]; the       *)
(* candidates of a node are tried in the order of their numbers.  Its marks *)
(* (Added1/2, Deleted1/2) and the array incl are kept step by step as the   *)
(* code keeps them.  Whether closing the tour gains is any; the gains of    *)
(* full moves are taken to rise, so that the best is the last one.  Cycles  *)
(* are patched along one alternating path (PATCHING_A = 1, the default), or *)
(* by a sequential 3-opt move; the loops of that search are one step.       *)
(***************************************************************************)
EXTENDS TourMoves

CONSTANTS MoveTypes,              \* values of K
          NonsequentialMoveType,  \* edges of a patched move, at most
          PatchingC               \* cycles to patch, at most

VARIABLES pc,        \* "next", "sides", "back", "relink", "made", "none"
          type,      \* K
          k,         \* the level of the recursion
          t,         \* t[1..2k]; 0 where nothing has been chosen yet
          incl,
          marks,     \* .added[a], .deleted[a]: the nodes marked with a
          best,      \* T: the last feasible full move
          tour,
          swap       \* the edges the gain takes off and puts on

vars == <<pc, type, k, t, incl, marks, best, tour, swap>>

Width == 2 * (NonsequentialMoveType + 1)

Added2(a, b) == b \in marks.added[a]
Deleted2(a, b) == b \in marks.deleted[a]

\* A node has room for two marks of a kind.
Marked(of, a, b) ==
  [n \in Nodes |->
     IF n \in {a, b} /\ Cardinality(of[n]) < 2
     THEN of[n] \cup ({a, b} \ {n}) ELSE of[n]]
Unmarked(of, a, b) ==
  [n \in Nodes |-> IF n \in {a, b} THEN of[n] \ ({a, b} \ {n}) ELSE of[n]]

\* (t[i],t[j]) becomes an edge to include.
Linked(f, i, j) == [f EXCEPT ![i] = j, ![j] = i]

(* The other index of a pair 2j, 2j + 1 (i ^ 1 in the code).                *)
Mate(i) == IF i % 2 = 0 THEN i + 1 ELSE i - 1
Partner(i) == IF i % 2 = 0 THEN i - 1 ELSE i + 1

-----------------------------------------------------------------------------
(* The indices 1..2n in the order in which their nodes stand on the tour,   *)
(* from the first deleted edge on.                                          *)
FindPermutation(s, n) ==
  LET front == [j \in 1 .. n |-> IF Suc(s[2 * j - 1]) = s[2 * j]
                                 THEN 2 * j - 1 ELSE 2 * j]
      sorted == <<front[1]>> \o
                SortSeq(Tail(front), LAMBDA a, b :
                                       Between(s[front[1]], s[a], s[b]))
  IN [i \in 1 .. 2 * n |-> IF i % 2 = 1 THEN sorted[(i + 1) \div 2]
                           ELSE Partner(sorted[i \div 2])]

InverseOf(p) == [i \in DOMAIN p |-> CHOOSE j \in DOMAIN p : p[j] = i]

\* Mutant: any cycle will do.
FeasibleWalkAny(p, q, f, n) ==
  LET walk[c \in 0 .. n] ==
        IF c = 0 THEN 2 * n
        ELSE IF walk[c - 1] = 0 THEN 0 ELSE Mate(q[f[p[walk[c - 1]]]])
  IN walk[n] = 0

(* The exchange is one cycle: the walk over segments and added edges meets  *)
(* all of them before it is back.                                           *)
FeasibleWalk(p, q, f, n) ==
  LET walk[c \in 0 .. n] ==
        IF c = 0 THEN 2 * n
        ELSE IF walk[c - 1] = 0 THEN 0 ELSE Mate(q[f[p[walk[c - 1]]]])
  IN walk[n - 1] # 0 /\ walk[n] = 0
FeasibleKOptMove(s, f, n) ==
  LET p == FindPermutation(s, n) IN FeasibleWalk(p, InverseOf(p), f, n)

(* cycle[i]: which cycle t[i] would be in, numbered from 1.                 *)
Cycles(p, q, f, n) ==
  LET around(j) == LET m == Mate(q[f[p[j]]])
                   IN IF m > 2 * n THEN 1 ELSE IF m = 0 THEN 2 * n ELSE m
      orbit(j) == LET o[c \in 0 .. n] == IF c = 0 THEN j ELSE around(o[c - 1])
                  IN {o[c] : c \in 0 .. n}
      whole(j) == UNION {{i, q[f[p[i]]]} : i \in orbit(j)}
      leads == {j \in 1 .. 2 * n : \A i \in whole(j) : j <= i}
      number(j) == Cardinality({i \in leads : i <= j})
  IN [i \in 1 .. 2 * n |->
        number(CHOOSE j \in leads : q[i] \in whole(j))]

-----------------------------------------------------------------------------
ReversedPart(p, i, j) ==
  [m \in DOMAIN p |-> IF i <= m /\ m <= j THEN p[i + j - m] ELSE p[m]]

\* The places i whose partner j the oriented reversals bring next to it.
Oriented(p, q, f) ==
  {i \in 1 .. Len(p) - 2 : LET j == q[f[p[i]]]
                           IN j >= i + 2 /\ i % 2 = j % 2}
ReversalOf(i, j) == IF i % 2 = 1 THEN <<i + 1, j>> ELSE <<i, j - 1>>
Score(p, f, r) ==
  LET turned == ReversedPart(p, r[1], r[2])
  IN Cardinality(Oriented(turned, InverseOf(turned), f))

\* Where no reversal is oriented, the first simple hurdle is cut.
Hurdles(p, q, f) ==
  {i \in 1 .. Len(p) - 3 : i % 2 = 1 /\ q[f[p[i]]] >= i + 3}

(* The tour after MakeKOptMove: reversals until nothing is left to do.  The *)
(* loop has no bound in the code; here it is broken off after "left" rounds.*)
RECURSIVE Sorted(_, _, _, _, _, _)
Sorted(old, s, f, p, q, left) ==
  LET oriented == Oriented(p, q, f)
      score(i) == Score(p, f, ReversalOf(i, q[f[p[i]]]))
      i == CHOOSE m \in oriented :
             \A o \in oriented : \/ score(m) > score(o)
                                 \/ score(m) = score(o) /\ m <= o
      h == Min(Hurdles(p, q, f))
      after(new, r) == LET p2 == ReversedPart(p, r[1], r[2])
                       IN Sorted(new, s, f, p2, InverseOf(p2), left - 1)
  IN IF left = 0 THEN Broken
     ELSE IF oriented # {}
     THEN after(Swap1(old, s[p[Partner(i)]], s[p[i]], s[p[q[f[p[i]]]]]),
                ReversalOf(i, q[f[p[i]]]))
     ELSE IF Hurdles(p, q, f) # {}
     THEN after(Swap1(old, s[p[h]], s[p[h + 1]], s[p[q[f[p[h]]]]]),
                <<h + 1, q[f[p[h]]] - 1>>)
     ELSE old

MakeKOptMove(s, f, n) ==
  LET p == FindPermutation(s, n)
  IN Sorted(Start, s, f, p, InverseOf(p), n + 1)

-----------------------------------------------------------------------------
(* PatchCycles.  A patch is an alternating path s1, s2, ...: it deletes     *)
(* (s1,s2), adds (s2,s3), and so on, and is closed with an edge to s1.      *)
AddedOn(path) ==
  {{path[2 * i], path[2 * i + 1]} : i \in 1 .. (Len(path) - 1) \div 2}
IsAdded(a, b, path) == Added2(a, b) \/ {a, b} \in AddedOn(path)
IsDeleted(a, b, path) == Deleted2(a, b) \/ {a, b} \in Deleted(path)

(* The cycle of a node: the segment it lies in, by binary search.           *)
RECURSIVE Located(_, _, _, _, _)
Located(a, s, p, low, high) ==
  LET mid == (low + high) \div 2
  IN IF low >= high THEN low
     ELSE IF Between(s[p[2 * low]], a, s[p[2 * mid + 1]])
     THEN Located(a, s, p, low, mid)
     ELSE Located(a, s, p, mid + 1, high)
Cycle(a, s, p, cycle) == cycle[p[2 * Located(a, s, p, 1, Len(p) \div 2)]]

(* Every (a, successor) within the segments of a cycle.                     *)
Within(cyc, s, p, cycle) ==
  LET segment(i) == [from |-> s[p[IF i = 0 THEN Len(p) ELSE 2 * i]],
                     to |-> s[p[2 * i + 1]],
                     of |-> cycle[p[IF i = 0 THEN Len(p) ELSE 2 * i]]]
      inner(g) == {a \in Nodes : Between(g.from, a, g.to) /\ a # g.to}
  IN {<<a, Suc(a)>> : a \in UNION {inner(segment(i)) :
        i \in {j \in 0 .. Len(p) \div 2 - 1 : segment(j).of = cyc}}}

Steps(path, Allowed(_)) ==
  {path \o <<a, Neighbour(a, forward)>> :
     a \in {b \in Far(path[Len(path)]) :
              ~IsAdded(path[Len(path)], b, path) /\ Allowed(b)},
     forward \in BOOLEAN}
Usable(path, longer) ==
  LET a == longer[Len(longer) - 1]
      b == longer[Len(longer)]
  IN ~FixedOrCommon(a, b) /\ ~IsDeleted(a, b, path)

(* The paths on from one: into another cycle, which becomes part of the     *)
(* current one, until only two are left and the next step joins them.       *)
RECURSIVE Alternating(_, _, _, _, _, _)
Alternating(path, cyc, s, p, cycle, m) ==
  LET next == {u \in Steps(path, LAMBDA b : Cycle(b, s, p, cycle) # cyc) :
                 Usable(path, u)}
      joined(u) == LET new == Cycle(u[Len(u) - 1], s, p, cycle)
                   IN [i \in DOMAIN cycle |->
                         IF cycle[i] = new THEN cyc ELSE cycle[i]]
  IN IF m = 2 THEN next
     ELSE UNION {Alternating(u, cyc, s, p, joined(u), m - 1) : u \in next}

(* Where two cycles are left: (s3,s4), (s5,s6), not both in the current     *)
(* one, if the whole is one cycle.                                          *)
Sequential3(path, cyc, s, p, cycle) ==
  LET in(b) == Cycle(b, s, p, cycle) = cyc
      one == {u \in Steps(path, LAMBDA b : TRUE) : Usable(path, u)}
      two(u) == {v \in Steps(u, LAMBDA b : b # path[1]
                                 /\ ~(in(b) /\ in(u[Len(u) - 1]))) :
                   /\ Usable(path, v)
                   /\ v[Len(v)] # path[1]
                   /\ ~IsAdded(v[Len(v)], path[1], path)}
  IN UNION {two(u) : u \in one}

\* incl with a closed alternating path after the first n pairs.
InclWith(f, n, path) ==
  [i \in DOMAIN f |->
     IF i <= 2 * n \/ i > 2 * n + Len(path) THEN f[i]
     ELSE IF i = 2 * n + 1 THEN 2 * n + Len(path)
     ELSE IF i = 2 * n + Len(path) THEN 2 * n + 1
     ELSE Mate(i)]
WithPath(s, n, path) ==
  [i \in DOMAIN s |-> IF 2 * n < i /\ i <= 2 * n + Len(path)
                      THEN path[i - 2 * n] ELSE s[i]]

(* The patches of the exchange t[1..2k].  Which cycle is the shortest is    *)
(* any: the two-level list only estimates sizes.                            *)
PatchesOf(s, p, cycle, m) ==
  LET starts(cyc) == {e \in Within(cyc, s, p, cycle) :
                        ~FixedOrCommon(e[1], e[2])}
      triples(cyc, e) ==
        {v \in Sequential3(e, cyc, s, p, cycle) :
           /\ m = 2
           /\ FeasibleKOptMove(WithPath(s, k, v), InclWith(incl, k, v), k + 3)}
  IN IF m = 1 \/ m > PatchingC \/ k + m > NonsequentialMoveType THEN {}
     ELSE UNION {Alternating(e, cyc, s, p, cycle, m) \cup
                 triples(cyc, e) :
                   <<cyc, e>> \in UNION {{c} \X starts(c) : c \in 1 .. m}}

PatchCycles ==
  LET p == FindPermutation(t, k)
      cycle == Cycles(p, InverseOf(p), incl, k)
  IN PatchesOf(t, p, cycle, Max({cycle[i] : i \in 1 .. 2 * k}))

-----------------------------------------------------------------------------
(* BestKOptMove.                                                            *)
NoMarks == [added |-> [n \in Nodes |-> {}], deleted |-> [n \in Nodes |-> {}]]

Init ==
  /\ pc = "next"
  /\ type \in MoveTypes
  /\ k = 2
  /\ \E e \in {<<N, 1>>, <<1, N>>} :
       t = [i \in 1 .. Width |-> IF i <= 2 THEN e[i] ELSE 0]
  /\ marks = [NoMarks EXCEPT !.deleted = Marked(@, 1, N)]
  /\ incl = Linked(Linked([i \in 1 .. Width |-> 0], 2, 3), 1, 4)
  /\ best = << >>
  /\ tour = Start
  /\ swap = <<{}, {}>>

\* The marks a successful search takes back level by level.
RECURSIVE Unwound(_, _)
Unwound(m, l) ==
  IF l = 1 THEN [m EXCEPT !.deleted = Unmarked(@, t[1], t[2])]
  ELSE Unwound([added |-> Unmarked(m.added, t[2 * l - 2], t[2 * l - 1]),
                deleted |-> Unmarked(m.deleted, t[2 * l - 1], t[2 * l])],
               l - 1)

Make(s, f, n, deleted, added) ==
  /\ pc' = "made"
  /\ tour' = MakeKOptMove(s, f, n)
  /\ swap' = <<deleted, added>>
  /\ UNCHANGED <<type, k, best>>

Open == {b \in Far(t[2 * k - 2]) : b > t[2 * k - 1] /\ ~Added2(t[2 * k - 2], b)}

(* The next t3 of this level.                                               *)
TakeCandidate ==
  /\ pc = "next" /\ Open # {}
  /\ t' = [t EXCEPT ![2 * k - 1] = Min(Open), ![2 * k] = 0]
  /\ marks' = [marks EXCEPT !.added = Marked(@, t[2 * k - 2], Min(Open))]
  /\ pc' = "sides"
  /\ UNCHANGED <<type, k, incl, best, tour, swap>>

(* No t3 is left: back to the level below.                                  *)
LeaveLevel ==
  /\ pc = "next" /\ Open = {} /\ k > 2
  /\ k' = k - 1
  /\ t' = [t EXCEPT ![2 * k - 1] = 0, ![2 * k] = 0]
  /\ incl' = Linked(incl, 1, 2 * k - 2)
  /\ pc' = "back"
  /\ UNCHANGED <<type, marks, best, tour, swap>>

(* The search is over without gain: the best full move is made, if any.     *)
EndSearch ==
  /\ pc = "next" /\ Open = {} /\ k = 2
  /\ marks' = [marks EXCEPT !.deleted = Unmarked(@, t[1], t[2])]
  /\ t' = IF best = << >> THEN t ELSE best
  /\ incl' = IF best = << >> THEN incl
             ELSE [i \in DOMAIN incl |->
                     IF i > 2 * type THEN incl[i] ELSE IF i = 1 THEN 2 * type
                     ELSE IF i = 2 * type THEN 1 ELSE Mate(i)]
  /\ IF best = << >>
     THEN pc' = "none" /\ UNCHANGED <<type, k, best, tour, swap>>
     ELSE LET s == SubSeq(best, 1, 2 * type)
          IN Make(best, incl', type, Deleted(s), Added(s))

NextSide == IF t[2 * k] = 0 THEN Pred(t[2 * k - 1]) ELSE Suc(t[2 * k - 1])
SideLeft == t[2 * k] # Suc(t[2 * k - 1])
Chosen == [t EXCEPT ![2 * k] = NextSide]
Barred == \/ FixedOrCommon(t[2 * k - 1], NextSide)
          \/ Deleted2(t[2 * k - 1], NextSide)

SkipSide ==
  /\ pc = "sides" /\ SideLeft /\ Barred
  /\ t' = Chosen
  /\ UNCHANGED <<pc, type, k, incl, marks, best, tour, swap>>

(* Closing with (t4,t1) gains and gives a tour.                             *)
CloseTour ==
  /\ pc = "sides" /\ SideLeft /\ ~Barred
  /\ NextSide # t[1] /\ ~Added2(NextSide, t[1])
  /\ FeasibleKOptMove(Chosen, incl, k)
  /\ t' = Chosen
  /\ marks' = Unwound(marks, k)
  /\ LET s == SubSeq(Chosen, 1, 2 * k)
     IN Make(Chosen, incl, k, Deleted(s), Added(s))
  /\ UNCHANGED incl

(* It does not: on to the next level, or back if there is none.             *)
GoOn ==
  /\ pc = "sides" /\ SideLeft /\ ~Barred
  /\ t' = Chosen
  /\ marks' = [marks EXCEPT !.deleted = Marked(@, t[2 * k - 1], NextSide)]
  /\ IF k < type
     THEN /\ k' = k + 1
          /\ incl' = Linked(Linked(incl, 2 * k, 2 * k + 1), 1, 2 * k + 2)
          /\ pc' = "next"
     ELSE pc' = "back" /\ UNCHANGED <<k, incl>>
  /\ UNCHANGED <<type, best, tour, swap>>

(* The exchange t[1..2k] would gain but is not a tour: with a patch it is.  *)
(* If it were one (M = 1), CloseTour would have made it.                    *)
MakePatched ==
  /\ pc = "back"
  /\ t[2 * k] # t[1]
  /\ k + 1 < NonsequentialMoveType /\ PatchingC >= 2
  /\ \E path \in PatchCycles :
       /\ t' = WithPath(t, k, path)
       /\ incl' = InclWith(incl, k, path)
       /\ LET s == SubSeq(t, 1, 2 * k)
          IN Make(t', incl', k + Len(path) \div 2,
                  Deleted(s) \cup Deleted(path), Added(s) \cup Added(path))
  /\ marks' = Unwound(marks, k)

(* No gain here.  A feasible full move is remembered.                       *)
Backtrack ==
  /\ pc = "back"
  /\ marks' = [marks EXCEPT !.deleted = Unmarked(@, t[2 * k - 1], t[2 * k])]
  /\ best' = IF /\ k = type /\ t[2 * k] # t[1] /\ t[2 * k - 1] # t[1]
                /\ ~Added2(t[2 * k], t[1])
                /\ FeasibleKOptMove(t, incl, k)
             THEN t ELSE best
  /\ pc' = "sides"
  /\ UNCHANGED <<type, k, t, incl, tour, swap>>

\* Mutant: the added edge stays marked.
DropCandidateMarked ==
  /\ pc = "sides" /\ ~SideLeft
  /\ pc' = IF t[2 * k - 1] = t[1] THEN "next" ELSE "relink"
  /\ t' = [t EXCEPT ![2 * k] = 0]
  /\ UNCHANGED <<type, k, incl, marks, best, tour, swap>>

DropCandidate ==
  /\ pc = "sides" /\ ~SideLeft
  /\ marks' = [marks EXCEPT !.added =
                  Unmarked(@, t[2 * k - 2], t[2 * k - 1])]
  /\ pc' = IF t[2 * k - 1] = t[1] THEN "next" ELSE "relink"
  /\ t' = [t EXCEPT ![2 * k] = 0]
  /\ UNCHANGED <<type, k, incl, best, tour, swap>>

(* An added edge (t3,t4) is taken off again, and (t4,t1) closes the tour.   *)
Relinks ==
  {i \in 2 .. 2 * k - 4 : /\ t[i] = t[2 * k - 1]
                          /\ t[Mate(i)] # t[1]
                          /\ ~FixedOrCommon(t[i], t[Mate(i)])
                          /\ ~Added2(t[Mate(i)], t[1])}
Relinked(i) == Linked(Linked(incl, Mate(i), 1), i, 2 * k - 2)

MakeRelinked ==
  /\ pc = "relink"
  /\ \E i \in Relinks :
       /\ FeasibleKOptMove(t, Relinked(i), k - 1)
       /\ incl' = Relinked(i)
       /\ LET s == SubSeq(t, 1, 2 * k - 2)
          IN Make(t, incl', k - 1, Deleted(s),
                  (Added(s) \ {{s[1], s[2 * k - 2]}, {t[i], t[Mate(i)]}})
                    \cup {{s[2 * k - 2], t[i]}, {t[Mate(i)], s[1]}})
  /\ marks' = Unwound(marks, k - 1)
  /\ UNCHANGED t

(* It gains but is no tour.                                                 *)
UndoRelink ==
  /\ pc = "relink"
  /\ \E i \in Relinks :
       /\ ~FeasibleKOptMove(t, Relinked(i), k - 1)
       /\ incl' = Linked(Relinked(i), i, Mate(i))
  /\ UNCHANGED <<pc, type, k, t, marks, best, tour, swap>>

LeaveCandidate ==
  /\ pc = "relink"
  /\ incl' = [incl EXCEPT ![1] = 2 * k, ![2 * k - 2] = 2 * k - 1]
  /\ pc' = "next"
  /\ UNCHANGED <<type, k, t, marks, best, tour, swap>>

Next ==
  \/ TakeCandidate \/ LeaveLevel \/ EndSearch
  \/ SkipSide \/ CloseTour \/ GoOn
  \/ MakePatched \/ Backtrack
  \/ DropCandidate \/ MakeRelinked \/ UndoRelink \/ LeaveCandidate

Spec == Init /\ [][Next]_vars

-----------------------------------------------------------------------------
(* Whatever way a move is found, making it by reversals gives the tour with *)
(* exactly the edges of its gain exchanged.                                 *)
KOptMovesAreExchanges ==
  pc = "made" =>
    /\ Edges(tour) = (Edges(Start) \ swap[1]) \cup swap[2]
    /\ Cardinality(swap[1]) = Cardinality(swap[2])

(* The marks and incl say what t says.                                      *)
MarksFollow ==
  /\ pc \in {"made", "none"} => marks = NoMarks
  /\ pc \in {"next", "sides"} =>
       /\ incl[1] = 2 * k /\ incl[2 * k] = 1
       /\ \A i \in 2 .. 2 * k - 1 : incl[i] = Mate(i)
       /\ UNION {{{a, b} : b \in marks.deleted[a]} : a \in Nodes} =
            Deleted(SubSeq(t, 1, 2 * k - 2))
=============================================================================
