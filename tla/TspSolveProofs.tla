---------------------------- MODULE TspSolveProofs ----------------------------
(***************************************************************************)
(* Proofs about TspSolve, for every graph, every split of it into          *)
(* subgraphs, every pair of budgets and every cbLKH.  The invariant needs  *)
(* TourAssumption and SubgraphAssumption, which say what TSP::parse_input  *)
(* guarantees: finitely many subgraphs of finitely many vertices, costs    *)
(* that are not negative.                                                  *)
(***************************************************************************)
EXTENDS TspSolve, InductionFacts, FiniteSetTheorems, TLAPS

(***************************************************************************)
(* Sums over the subgraphs.                                                *)
(***************************************************************************)
Sums(f) ==
    CHOOSE sum : sum = [k \in 0 .. N |-> IF k = 0 THEN 0 ELSE sum[k - 1] + f[k - 1]]

\* The partial sums exist, are integers and satisfy the recursion: what SumOf
\* computes in N steps.
LEMMA SumsDefined ==
    ASSUME NEW f \in [Indices -> Int]
    PROVE  /\ SumOf(f) = Sums(f)[N]
           /\ Sums(f)[0] = 0
           /\ \A k \in 1 .. N : Sums(f)[k] = Sums(f)[k - 1] + f[k - 1]
           /\ \A k \in 0 .. N : Sums(f)[k] \in Int
<1> DEFINE step == [p \in Int \X (1 .. N) |-> p[1] + f[p[2] - 1]]
           s == Sums(f)
<1>1. N \in Nat
  BY SubgraphAssumption
<1>2. step \in [Int \X (1 .. N) -> Int]
  BY <1>1 DEF Indices
<1>3. PICK g : IsRun(g, N, Int, 0, step)
  <2>1. 0 \in Int
    OBVIOUS
  <2> HIDE DEF step
  <2> QED
    BY <1>1, <1>2, <2>1, Recursion
<1>4. g = [k \in 0 .. N |-> IF k = 0 THEN 0 ELSE g[k - 1] + f[k - 1]]
  <2>1. \A k \in 1 .. N : g[k] = g[k - 1] + f[k - 1]
    <3> TAKE k \in 1 .. N
    <3>1. g[k - 1] \in Int
      BY <1>1, <1>3 DEF IsRun
    <3>2. step[<<g[k - 1], k>>] = g[k - 1] + f[k - 1]
      BY <3>1
    <3> QED
      BY <1>3, <3>2 DEF IsRun
  <2> HIDE DEF step
  <2> QED
    BY <1>1, <1>3, <2>1 DEF IsRun
<1>5. s = [k \in 0 .. N |-> IF k = 0 THEN 0 ELSE s[k - 1] + f[k - 1]]
  BY <1>4 DEF Sums
<1>6. SumOf(f) = s[N]
  BY DEF SumOf, Sums
<1> HIDE DEF s
<1>7. \A k \in 0 .. N : s[k] \in Int
  <2> DEFINE S == {k \in 0 .. N : s[k] \in Int}
  <2>1. 0 \in S
    BY <1>1, <1>5
  <2>2. \A k \in 0 .. N - 1 : k \in S => k + 1 \in S
    BY <1>1, <1>5 DEF Indices
  <2> HIDE DEF S
  <2>3. \A k \in 0 .. N : k \in S
    BY <1>1, <2>1, <2>2, BoundedInduction
  <2> QED
    BY <2>3 DEF S
<1>8. s[0] = 0 /\ \A k \in 1 .. N : s[k] = s[k - 1] + f[k - 1]
  BY <1>1, <1>5
<1> QED
  BY <1>6, <1>7, <1>8 DEF s

\* A sum of integers is an integer.
LEMMA SumIsInt ==
    ASSUME NEW f \in [Indices -> Int]
    PROVE  SumOf(f) \in Int
BY SumsDefined, SubgraphAssumption

\* The sum of zeros is zero: tsp_cost before the first loop.
LEMMA SumZero == SumOf([k \in Indices |-> 0]) = 0
<1> DEFINE f == [k \in Indices |-> 0]
           S == {k \in 0 .. N : Sums(f)[k] = 0}
<1>1. f \in [Indices -> Int] /\ N \in Nat
  BY SubgraphAssumption
<1>2. 0 \in S
  BY <1>1, SumsDefined
<1>3. \A k \in 0 .. N - 1 : k \in S => k + 1 \in S
  <2> SUFFICES ASSUME NEW k \in 0 .. N - 1, Sums(f)[k] = 0 PROVE Sums(f)[k + 1] = 0
    BY <1>1
  <2>1. Sums(f)[k + 1] = Sums(f)[(k + 1) - 1] + f[(k + 1) - 1]
    BY <1>1, SumsDefined
  <2> QED
    BY <1>1, <2>1 DEF Indices
<1> HIDE DEF S
<1>4. \A k \in 0 .. N : k \in S
  BY <1>1, <1>2, <1>3, BoundedInduction
<1> QED
  BY <1>1, <1>4, SumsDefined DEF S

\* Changing one summand changes the sum by the difference: the bookkeeping of
\* tsp_cost when a subgraph's tour is replaced (src/tsp.cpp:381-397).
LEMMA SumExcept ==
    ASSUME NEW f \in [Indices -> Int], NEW n \in Indices, NEW c \in Int
    PROVE  SumOf([f EXCEPT ![n] = c]) = SumOf(f) - f[n] + c
<1> DEFINE g == [f EXCEPT ![n] = c]
           S == {k \in 0 .. N : Sums(g)[k] = IF k <= n THEN Sums(f)[k]
                                             ELSE Sums(f)[k] - f[n] + c}
<1>1. g \in [Indices -> Int] /\ N \in Nat /\ n \in Nat /\ n < N
  BY SubgraphAssumption DEF Indices
<1>2. 0 \in S
  <2>1. Sums(f)[0] = 0 /\ Sums(g)[0] = 0
    BY <1>1, SumsDefined
  <2> QED
    BY <1>1, <2>1
<1>3. \A k \in 0 .. N - 1 : k \in S => k + 1 \in S
  <2> SUFFICES ASSUME NEW k \in 0 .. N - 1, k \in S PROVE k + 1 \in S
    OBVIOUS
  <2>1. /\ Sums(g)[k + 1] = Sums(g)[k] + g[k]
        /\ Sums(f)[k + 1] = Sums(f)[k] + f[k]
        /\ k \in Indices
        /\ Sums(f)[k] \in Int
    <3>1. k + 1 \in 1 .. N /\ (k + 1) - 1 = k /\ k \in 0 .. N
      BY <1>1
    <3> QED
      BY <1>1, <3>1, SumsDefined DEF Indices
  <2>2. g[k] = IF k = n THEN c ELSE f[k]
    BY <2>1
  <2> QED
    BY <1>1, <2>1, <2>2
<1>4. N \in S
  <2> HIDE DEF S
  <2>1. \A k \in 0 .. N : k \in S
    BY <1>1, <1>2, <1>3, BoundedInduction
  <2> QED
    BY <1>1, <2>1
<1>5. Sums(g)[N] = Sums(f)[N] - f[n] + c
  BY <1>1, <1>4
<1> QED
  BY <1>1, <1>5, SumsDefined

\* Sums of smaller costs are smaller.
LEMMA SumMonotone ==
    ASSUME NEW f \in [Indices -> Int], NEW g \in [Indices -> Int],
           \A k \in Indices : f[k] <= g[k]
    PROVE  SumOf(f) <= SumOf(g)
<1> DEFINE S == {k \in 0 .. N : Sums(f)[k] <= Sums(g)[k]}
<1>1. N \in Nat
  BY SubgraphAssumption
<1>2. 0 \in S
  BY <1>1, SumsDefined
<1>3. \A k \in 0 .. N - 1 : k \in S => k + 1 \in S
  <2> SUFFICES ASSUME NEW k \in 0 .. N - 1, k \in S PROVE k + 1 \in S
    OBVIOUS
  <2>1. /\ Sums(g)[k + 1] = Sums(g)[k] + g[k]
        /\ Sums(f)[k + 1] = Sums(f)[k] + f[k]
        /\ k \in Indices
        /\ Sums(f)[k] \in Int
        /\ Sums(g)[k] \in Int
    <3>1. k + 1 \in 1 .. N /\ (k + 1) - 1 = k /\ k \in 0 .. N
      BY <1>1
    <3> QED
      BY <1>1, <3>1, SumsDefined DEF Indices
  <2> QED
    BY <1>1, <2>1
<1>4. N \in S
  <2> HIDE DEF S
  <2>1. \A k \in 0 .. N : k \in S
    BY <1>1, <1>2, <1>3, BoundedInduction
  <2> QED
    BY <1>1, <2>1
<1> QED
  BY <1>1, <1>4, SumsDefined

-----------------------------------------------------------------------------
(***************************************************************************)
(* The inductive invariant.                                                *)
(***************************************************************************)
Vids == UNION {Subgraph[k] : k \in Indices}
AllTours == {NoTour} \union UNION {Tours[s] : s \in UNION {SUBSET Subgraph[k] : k \in Indices}}

TypeOK ==
    /\ type \in Types /\ lkh \in Lkhs
    /\ pc \in {"first", "resolve", "search", "done"}
    /\ subgraph_vids \in [Indices -> SUBSET Vids]
    /\ \A k \in Indices : subgraph_vids[k] \subseteq Subgraph[k]
    /\ tsp_cost_budget \in Int /\ subgraph_cost_budget \in Int
    /\ i \in Indices /\ j \in Indices
    /\ subgraph_cost \in [Indices -> Int]
    /\ subgraph_tour \in [Indices -> AllTours]
    /\ tsp_cost \in Int
    /\ subgraph_minimized \in [Indices -> BOOLEAN]
    /\ test_min \in Int /\ test_cost \in Int /\ test_max \in Int
    /\ result \in BOOLEAN

\* The first loop has not come to subgraph k.
Ahead(k) == pc = "first" /\ i <= k

\* The tour of a subgraph is real, and its cost the one kept.
Real ==
    lkh # "dying" /\ (pc = "done" => result) =>
        \A k \in Indices : ~ Ahead(k) =>
            /\ subgraph_tour[k] \in Tours[subgraph_vids[k]]
            /\ subgraph_cost[k] = TourCost[subgraph_tour[k]]
            /\ Cardinality(subgraph_vids[k]) > 1 => subgraph_cost[k] <= subgraph_cost_budget

FirstLoop ==
    pc = "first" => /\ j = 0
                    /\ \A k \in Indices : /\ i <= k => subgraph_cost[k] = 0
                                          /\ ~ subgraph_minimized[k]

\* Up to three vertices the subgraph is marked minimal, so that it is not bisected.
FewMarked ==
    pc \in {"resolve", "search"} =>
        \A k \in Indices : Few(subgraph_vids[k]) => subgraph_minimized[k]

Window ==
    pc = "search" => /\ ~ subgraph_minimized[i]
                     /\ test_max = subgraph_cost[i] - 1
                     /\ test_cost <= test_max

NoCheaper(k) == \A t \in Tours[subgraph_vids[k]] : subgraph_cost[k] <= TourCost[t]

\* Marked subgraphs have no cheaper tour; nor do small ones in the first loop.
Minimal ==
    /\ lkh = "exact" => \A k \in Indices : subgraph_minimized[k] => NoCheaper(k)
    /\ lkh = "exact" /\ pc = "first" =>
         \A k \in Indices : k < i /\ Few(subgraph_vids[k]) => NoCheaper(k)

\* The subgraphs from the last one re-solved up to the one looked at.
Segment == {k \in Indices : IF j <= i THEN j <= k /\ k < i ELSE j <= k \/ k < i}

RoundMarked ==
    pc \in {"resolve", "search"} => \A k \in Segment : subgraph_minimized[k]

\* What the answers say.
WithinBudget ==
    pc = "done" /\ result =>
        /\ tsp_cost <= tsp_cost_budget
        /\ soln_cost = IF type = "MIN_MAX_TSP" THEN Max(Costs \union {0}) ELSE tsp_cost

Refused ==
    pc = "done" /\ ~ result /\ lkh = "exact" =>
        \/ \E k \in Indices :
             /\ Cardinality(subgraph_vids[k]) > 1
             /\ \A t \in Tours[subgraph_vids[k]] : TourCost[t] > subgraph_cost_budget
        \/ /\ tsp_cost > tsp_cost_budget
           /\ \A k \in Indices : NoCheaper(k)

SumKept == tsp_cost = SumOf(subgraph_cost)

IInv == /\ TypeOK /\ SumKept /\ Real /\ FirstLoop /\ FewMarked /\ Window /\ Minimal
        /\ RoundMarked /\ WithinBudget /\ Refused

\* What TourAssumption says of the vertices of a subgraph: they are finitely
\* many and have tours, whose costs are natural numbers.
LEMMA VidsHaveTours ==
    ASSUME TypeOK, NEW k \in Indices
    PROVE  /\ Cardinality(subgraph_vids[k]) \in Nat
           /\ Tours[subgraph_vids[k]] # {}
           /\ Tours[subgraph_vids[k]] \subseteq AllTours
           /\ \A t \in Tours[subgraph_vids[k]] : TourCost[t] \in Nat
           /\ Cardinality(subgraph_vids[k]) <= 1 =>
                \A t \in Tours[subgraph_vids[k]] : TourCost[t] = 0
<1> DEFINE s == subgraph_vids[k]
<1>1. s \in SUBSET Subgraph[k]
  BY DEF TypeOK
<1>2. Cardinality(s) \in Nat
  BY <1>1, SubgraphAssumption, FS_Subset, FS_CardinalityType
<1>3. Tours[s] \subseteq AllTours
  BY <1>1 DEF AllTours
<1> QED
  BY <1>1, <1>2, <1>3, TourAssumption

\* The vertices of a subgraph have a tour of least cost.
LEMMA CheapestExists ==
    ASSUME TypeOK, NEW k \in Indices
    PROVE  \E t \in Tours[subgraph_vids[k]] : t \in Cheapest(subgraph_vids[k])
<1> DEFINE ts == Tours[subgraph_vids[k]]
           costs == {TourCost[t] : t \in ts}
<1>1. ts # {} /\ \A t \in ts : TourCost[t] \in Nat
  BY VidsHaveTours
<1>2. costs \in SUBSET Nat /\ costs # {}
  BY <1>1
<1>3. PICK m \in costs : \A c \in costs : m <= c
  <2> HIDE DEF costs
  <2> QED
    BY <1>2, LeastElement
<1> QED
  BY <1>3 DEF Cheapest

\* What TSP::LKH returns is a tour of its vertices, within the budget when
\* there are two vertices or more, and the cheapest for three or fewer.
LEMMA FoundIsTour ==
    ASSUME TypeOK, NEW k \in Indices, NEW c \in Int, NEW t \in Found(subgraph_vids[k], c)
    PROVE  /\ t \in Tours[subgraph_vids[k]]
           /\ t \in AllTours
           /\ TourCost[t] \in Nat
           /\ Cardinality(subgraph_vids[k]) > 1 => TourCost[t] <= c
           /\ Few(subgraph_vids[k]) =>
                \A u \in Tours[subgraph_vids[k]] : TourCost[t] <= TourCost[u]
<1>1. t \in Tours[subgraph_vids[k]]
  BY DEF Found, Cheapest
<1>2. Cardinality(subgraph_vids[k]) > 1 => TourCost[t] <= c
  BY VidsHaveTours DEF Found
<1>3. Few(subgraph_vids[k]) => \A u \in Tours[subgraph_vids[k]] : TourCost[t] <= TourCost[u]
  <2>1. CASE Cardinality(subgraph_vids[k]) <= 1
    BY <1>1, <2>1, VidsHaveTours
  <2>2. CASE Cardinality(subgraph_vids[k]) > 1
    BY <2>2, VidsHaveTours DEF Found, Cheapest
  <2> QED
    BY <2>1, <2>2, VidsHaveTours
<1> QED
  BY <1>1, <1>2, <1>3, VidsHaveTours

\* With an exact cbLKH a refusal of TSP::LKH means that no tour is within the
\* budget.
LEMMA MissedMeansNone ==
    ASSUME TypeOK, NEW k \in Indices, NEW c \in Int, lkh = "exact",
           Missed(subgraph_vids[k], c)
    PROVE  /\ Cardinality(subgraph_vids[k]) > 1
           /\ \A t \in Tours[subgraph_vids[k]] : TourCost[t] > c
<1> DEFINE s == subgraph_vids[k]
<1>1. Found(s, c) = {}
  BY DEF Missed
<1>2. Cardinality(s) > 1
  BY <1>1, VidsHaveTours DEF Found
<1>3. CASE Few(s)
  <2>1. PICK u \in Tours[s] : u \in Cheapest(s)
    BY CheapestExists
  <2>2. ~ (TourCost[u] <= c)
    BY <1>1, <1>2, <1>3, <2>1, VidsHaveTours DEF Found
  <2> QED
    BY <1>2, <2>1, <2>2, VidsHaveTours DEF Cheapest
<1>4. CASE ~ Few(s)
  BY <1>1, <1>2, <1>4, VidsHaveTours DEF Found
<1> QED
  BY <1>2, <1>3, <1>4

\* The halved width of the window lies between zero and the width.
LEMMA HalfBounds ==
    ASSUME NEW a \in Int
    PROVE  Half(a) \in Int /\ (a >= 0 => 0 <= Half(a) /\ Half(a) <= a)
BY DEF Half

\* The index after the last subgraph is the first one.
LEMMA SuccessorIsIndex ==
    ASSUME NEW k \in Indices
    PROVE  Successor(k) \in Indices
BY SubgraphAssumption DEF Indices, Successor

-----------------------------------------------------------------------------
(***************************************************************************)
(* Types.                                                                  *)
(***************************************************************************)
LEMMA InitTypes == Init => TypeOK
<1> SUFFICES ASSUME Init PROVE TypeOK
  OBVIOUS
<1>0. PICK vids \in Requests : subgraph_vids \in Splits(vids)
  BY DEF Init
<1>1. PICK owner \in [vids -> Indices] :
        /\ \A v \in vids : v \in Subgraph[owner[v]]
        /\ subgraph_vids = [k \in Indices |-> {v \in vids : owner[v] = k}]
  BY <1>0 DEF Splits
<1>2. \A k \in Indices : subgraph_vids[k] \subseteq Subgraph[k]
  BY <1>1
<1>3. subgraph_vids \in [Indices -> SUBSET Vids]
  BY <1>1, <1>2 DEF Vids
<1>4. 0 \in Indices /\ NoTour \in AllTours
  BY SubgraphAssumption DEF Indices, AllTours
<1>5. i \in Indices /\ j \in Indices
  BY <1>4 DEF Init
<1>6. /\ subgraph_cost \in [Indices -> Int]
      /\ subgraph_tour \in [Indices -> AllTours]
      /\ subgraph_minimized \in [Indices -> BOOLEAN]
  BY <1>4 DEF Init
<1>7. tsp_cost_budget \in Int /\ subgraph_cost_budget \in Int
  BY BudgetAssumption DEF Init
<1> QED
  BY <1>2, <1>3, <1>5, <1>6, <1>7 DEF Init, TypeOK

\* Every step keeps the types.
LEMMA NextTypes == TypeOK /\ [Next]_vars => TypeOK'
<1> SUFFICES ASSUME TypeOK, [Next]_vars PROVE TypeOK'
  OBVIOUS
<1> USE DEF TypeOK
<1>1. i \in Int /\ (i # N - 1 => i + 1 \in Indices) /\ 0 \in Indices
  BY SubgraphAssumption DEF Indices
<1>2. ASSUME AfterFirst
      PROVE  /\ pc' \in {"first", "resolve", "search", "done"}
             /\ i' \in Indices
             /\ subgraph_minimized' \in [Indices -> BOOLEAN]
  <2>1. CASE i = N - 1
    <3>1. \A k \in Indices : Few(subgraph_vids[k]) \in BOOLEAN
      BY DEF Few
    <3>2. [k \in Indices |-> Few(subgraph_vids[k])] \in [Indices -> BOOLEAN]
      BY <3>1, Zenon
    <3> QED
      BY <1>1, <1>2, <2>1, <3>2 DEF AfterFirst
  <2>2. CASE i # N - 1
    BY <1>1, <1>2, <2>2 DEF AfterFirst
  <2> QED
    BY <2>1, <2>2
<1>3. ASSUME NEW t \in AllTours, NEW c \in Int, StoreTour(t, c)
      PROVE  /\ subgraph_cost' \in [Indices -> Int]
             /\ subgraph_tour' \in [Indices -> AllTours]
  BY <1>3 DEF StoreTour
<1>4. NoTour \in AllTours
  BY DEF AllTours
<1>5. subgraph_cost[i] \in Int
  OBVIOUS
<1>6. CASE FirstTour
  <2>1. PICK t \in Found(subgraph_vids[i], subgraph_cost_budget) :
          StoreTour(t, TourCost[t]) /\ tsp_cost' = tsp_cost + TourCost[t]
    BY <1>6 DEF FirstTour
  <2>2. t \in AllTours /\ TourCost[t] \in Int
    BY FoundIsTour
  <2> QED
    BY <1>2, <1>3, <1>6, <2>1, <2>2 DEF FirstTour, args, bisection, answer
<1>7. CASE FirstTourDies
  BY <1>2, <1>3, <1>4, <1>7 DEF FirstTourDies, args, bisection, answer
<1>8. CASE FirstTourMissed
  BY <1>8 DEF FirstTourMissed, GiveUp, args, tours, bisection
<1>9. CASE OpenWindow
  <2>1. test_max' \in Int /\ test_min' \in Int
    BY <1>5, <1>9 DEF OpenWindow
  <2>2. test_cost' \in Int
    BY <1>9, <2>1, HalfBounds DEF OpenWindow
  <2> QED
    BY <1>9, <2>1, <2>2 DEF OpenWindow, args, tours, answer
<1>10. CASE NextSubgraph
  BY <1>10, SuccessorIsIndex DEF NextSubgraph, GiveUp, args, tours, bisection, answer
<1>11. ASSUME NEW t \in AllTours, NEW c \in Int, Replace(t, c)
       PROVE  TypeOK'
  BY <1>3, <1>5, <1>11 DEF Replace, args, bisection, answer
<1>12. CASE CheaperTour
  <2>1. PICK t \in Found(subgraph_vids[i], test_cost) : Replace(t, TourCost[t])
    BY <1>12 DEF CheaperTour
  <2>2. t \in AllTours /\ TourCost[t] \in Int
    BY FoundIsTour
  <2> QED
    BY <1>11, <2>1, <2>2
<1>13. CASE CheaperTourDies
  BY <1>4, <1>11, <1>13 DEF CheaperTourDies
<1>14. CASE NoCheaperTour
  <2>1. test_min' \in Int
    BY <1>14 DEF NoCheaperTour
  <2>2. test_cost' \in Int
    BY <1>14, <2>1, HalfBounds DEF NoCheaperTour
  <2> QED
    BY <1>14, <2>1, <2>2 DEF NoCheaperTour, args, tours, answer
<1>15. CASE Concatenate
  BY <1>15 DEF Concatenate, args, tours, bisection
<1>16. CASE UNCHANGED vars
  BY <1>16 DEF vars
<1> QED
  BY <1>6, <1>7, <1>8, <1>9, <1>10, <1>12, <1>13, <1>14, <1>15, <1>16 DEF Next, Returned

-----------------------------------------------------------------------------
(***************************************************************************)
(* The sum of the costs is kept by every replacement.                      *)
(***************************************************************************)
LEMMA InitSum == Init => SumKept
BY SumZero DEF Init, SumKept

\* Every step keeps tsp_cost the sum of the subgraphs' costs.
LEMMA NextSum == TypeOK /\ FirstLoop /\ SumKept /\ [Next]_vars => SumKept'
<1> SUFFICES ASSUME TypeOK, FirstLoop, SumKept, [Next]_vars PROVE SumKept'
  OBVIOUS
<1> USE DEF SumKept
<1>1. subgraph_cost \in [Indices -> Int] /\ i \in Indices /\ subgraph_cost[i] \in Int
      /\ tsp_cost \in Int /\ i <= i
  BY SubgraphAssumption DEF TypeOK, Indices
<1>2. ASSUME NEW c \in Int, subgraph_cost' = [subgraph_cost EXCEPT ![i] = c]
      PROVE  SumOf(subgraph_cost') = tsp_cost - subgraph_cost[i] + c
  BY <1>1, <1>2, SumExcept
<1>3. CASE FirstTour
  <2>1. PICK t \in Found(subgraph_vids[i], subgraph_cost_budget) :
          StoreTour(t, TourCost[t]) /\ tsp_cost' = tsp_cost + TourCost[t]
    BY <1>3 DEF FirstTour
  <2>2. TourCost[t] \in Int
    BY <1>1, FoundIsTour DEF TypeOK
  <2>3. subgraph_cost[i] = 0
    BY <1>1, <1>3 DEF FirstTour, FirstLoop
  <2>4. SumOf(subgraph_cost') = tsp_cost - subgraph_cost[i] + TourCost[t]
    BY <1>2, <2>1, <2>2 DEF StoreTour
  <2> QED
    BY <1>1, <2>1, <2>2, <2>3, <2>4
<1>4. CASE FirstTourDies
  <2>1. subgraph_cost[i] = 0
    BY <1>1, <1>4 DEF FirstTourDies, FirstLoop
  <2> QED
    BY <1>1, <1>2, <1>4, <2>1 DEF StoreTour, FirstTourDies
<1>5. CASE CheaperTour
  <2>1. PICK t \in Found(subgraph_vids[i], test_cost) : Replace(t, TourCost[t])
    BY <1>5 DEF CheaperTour
  <2>2. TourCost[t] \in Int
    BY <1>1, FoundIsTour DEF TypeOK
  <2> QED
    BY <1>1, <1>2, <2>1, <2>2 DEF StoreTour, Replace
<1>6. CASE CheaperTourDies
  <2>1. PICK c \in Int : Replace(NoTour, c)
    BY <1>6 DEF CheaperTourDies, TypeOK
  <2> QED
    BY <1>1, <1>2, <2>1 DEF StoreTour, Replace
<1>7. CASE \/ FirstTourMissed \/ OpenWindow \/ NextSubgraph \/ NoCheaperTour \/ Concatenate
           \/ UNCHANGED vars
  BY <1>7 DEF FirstTourMissed, OpenWindow, NextSubgraph, NoCheaperTour, Concatenate, vars, tours
<1> QED
  BY <1>3, <1>4, <1>5, <1>6, <1>7 DEF Next, Returned

-----------------------------------------------------------------------------
(***************************************************************************)
(* The other parts of the invariant, an action at a time.                  *)
(***************************************************************************)
LEMMA InitParts == Init => /\ Real /\ FirstLoop /\ FewMarked /\ Window /\ Minimal
                           /\ RoundMarked /\ WithinBudget /\ Refused
BY SubgraphAssumption DEF Init, Real, Ahead, FirstLoop, FewMarked, Window, Minimal,
   RoundMarked, WithinBudget, Refused, Indices

\* The parts of the invariant that say nothing of the sum.
Parts == /\ Real /\ FirstLoop /\ FewMarked /\ Window /\ Minimal
         /\ RoundMarked /\ WithinBudget /\ Refused

\* After a tour was found, or thought found, in the first loop.
LEMMA AfterFirstParts ==
    ASSUME TypeOK, TypeOK', Parts, pc = "first", NEW t \in AllTours, NEW c \in Int,
           StoreTour(t, c), AfterFirst, UNCHANGED <<args, j, bisection, answer>>,
           lkh # "dying" => /\ t \in Tours[subgraph_vids[i]]
                            /\ c = TourCost[t]
                            /\ Cardinality(subgraph_vids[i]) > 1 => c <= subgraph_cost_budget
                            /\ Few(subgraph_vids[i]) =>
                                 \A u \in Tours[subgraph_vids[i]] : c <= TourCost[u]
    PROVE  Parts'
<1> USE DEF Parts
<1>1. /\ subgraph_cost' = [subgraph_cost EXCEPT ![i] = c]
      /\ subgraph_tour' = [subgraph_tour EXCEPT ![i] = t]
      /\ UNCHANGED <<type, lkh, subgraph_vids, tsp_cost_budget, subgraph_cost_budget, j>>
  BY DEF StoreTour, args
<1>2. /\ i \in Indices /\ subgraph_cost \in [Indices -> Int]
      /\ subgraph_tour \in [Indices -> AllTours]
  BY DEF TypeOK
<1>3. N \in Nat /\ \A k \in Indices : k \in 0 .. N - 1
  BY SubgraphAssumption DEF Indices
<1>4. \/ pc' = "resolve" /\ i = N - 1 /\ i' = 0
         /\ subgraph_minimized' = [k \in Indices |-> Few(subgraph_vids[k])]
      \/ pc' = "first" /\ i' = i + 1 /\ UNCHANGED subgraph_minimized
  BY DEF AfterFirst
<1>5. \A k \in Indices : ~ Ahead(k)' => k = i \/ ~ Ahead(k)
  BY <1>2, <1>3, <1>4 DEF Ahead
<1>6. Real'
  BY <1>1, <1>2, <1>4, <1>5 DEF Real
<1>7. FirstLoop'
  BY <1>1, <1>2, <1>3, <1>4 DEF FirstLoop
<1>8. FewMarked'
  BY <1>1, <1>4 DEF FewMarked
<1>9. Minimal'
  <2>1. ASSUME lkh = "exact", NEW k \in Indices, k <= i, Few(subgraph_vids[k])
        PROVE  NoCheaper(k)'
    <3>1. CASE k = i
      BY <1>1, <1>2, <2>1, <3>1 DEF NoCheaper
    <3>2. CASE k # i
      BY <1>1, <1>2, <1>3, <2>1, <3>2 DEF NoCheaper, Minimal
    <3> QED
      BY <3>1, <3>2
  <2> QED
    BY <1>1, <1>2, <1>4, <2>1 DEF Minimal, Indices, FirstLoop
<1>10. RoundMarked'
  <2>1. pc' = "resolve" => Segment' = {}
    BY <1>1, <1>3, <1>4 DEF Segment, FirstLoop
  <2> QED
    BY <1>4, <2>1 DEF RoundMarked
<1>11. Window' /\ WithinBudget' /\ Refused'
  BY <1>4 DEF Window, WithinBudget, Refused
<1> QED
  BY <1>6, <1>7, <1>8, <1>9, <1>10, <1>11

\* A first tour keeps the invariant.
LEMMA FirstTourParts == TypeOK /\ TypeOK' /\ Parts /\ FirstTour => Parts'
<1> SUFFICES ASSUME TypeOK, TypeOK', Parts, FirstTour PROVE Parts'
  OBVIOUS
<1>1. PICK t \in Found(subgraph_vids[i], subgraph_cost_budget) : StoreTour(t, TourCost[t])
  BY DEF FirstTour
<1>2. i \in Indices /\ subgraph_cost_budget \in Int
  BY DEF TypeOK
<1>3. /\ t \in Tours[subgraph_vids[i]]
      /\ t \in AllTours
      /\ TourCost[t] \in Int
      /\ Cardinality(subgraph_vids[i]) > 1 => TourCost[t] <= subgraph_cost_budget
      /\ Few(subgraph_vids[i]) =>
           \A u \in Tours[subgraph_vids[i]] : TourCost[t] <= TourCost[u]
  BY <1>2, FoundIsTour
<1>4. pc = "first" /\ AfterFirst /\ UNCHANGED <<args, j, bisection, answer>>
  BY DEF FirstTour
<1> QED
  BY <1>1, <1>3, <1>4, AfterFirstParts

\* A cbLKH that dies in the first loop, with the cost left as it was, keeps
\* the invariant.
LEMMA FirstTourDiesParts == TypeOK /\ TypeOK' /\ Parts /\ FirstTourDies => Parts'
<1> SUFFICES ASSUME TypeOK, TypeOK', Parts, FirstTourDies PROVE Parts'
  OBVIOUS
<1>1. NoTour \in AllTours /\ lkh = "dying" /\ StoreTour(NoTour, 0)
  BY DEF AllTours, FirstTourDies, Dies
<1>2. pc = "first" /\ AfterFirst /\ UNCHANGED <<args, j, bisection, answer>>
  BY DEF FirstTourDies
<1> QED
  BY <1>1, <1>2, AfterFirstParts

\* A refusal in the first loop ends the call with a reason.
LEMMA FirstTourMissedParts == TypeOK /\ Parts /\ FirstTourMissed => Parts'
<1> SUFFICES ASSUME TypeOK, Parts, FirstTourMissed PROVE Parts'
  OBVIOUS
<1> USE DEF Parts
<1>1. /\ pc = "first" /\ pc' = "done" /\ result' = FALSE
      /\ UNCHANGED <<lkh, subgraph_vids, tsp_cost_budget, subgraph_cost_budget, i, tsp_cost,
                     subgraph_cost, subgraph_minimized>>
  BY DEF FirstTourMissed, GiveUp, args, tours
<1>2. Refused'
  <2> SUFFICES ASSUME lkh = "exact" PROVE Refused'
    BY <1>1 DEF Refused
  <2>1. Missed(subgraph_vids[i], subgraph_cost_budget)
    BY DEF FirstTourMissed, Dies
  <2>2. i \in Indices /\ subgraph_cost_budget \in Int
    BY DEF TypeOK
  <2> QED
    BY <1>1, <2>1, <2>2, MissedMeansNone DEF Refused
<1>3. Minimal'
  BY <1>1 DEF Minimal, NoCheaper
<1> QED
  BY <1>1, <1>2, <1>3 DEF Real, FirstLoop, FewMarked, Window, RoundMarked, WithinBudget

\* Opening a window of costs below the current tour's keeps the invariant.
LEMMA OpenWindowParts == TypeOK /\ Parts /\ OpenWindow => Parts'
<1> SUFFICES ASSUME TypeOK, Parts, OpenWindow PROVE Parts'
  OBVIOUS
<1> USE DEF Parts
<1>1. /\ pc = "resolve" /\ pc' = "search"
      /\ tsp_cost > tsp_cost_budget
      /\ ~ subgraph_minimized[i]
      /\ UNCHANGED <<lkh, subgraph_vids, subgraph_cost_budget, i, j, tsp_cost,
                     subgraph_cost, subgraph_tour, subgraph_minimized>>
  BY DEF OpenWindow, args, tours
<1>2. Window'
  <2>1. /\ subgraph_cost[i] \in Int /\ tsp_cost \in Int /\ tsp_cost_budget \in Int
    BY DEF TypeOK
  <2>2. test_max' \in Int /\ test_min' \in Int /\ test_max' - test_min' >= 0
    BY <1>1, <2>1 DEF OpenWindow
  <2>3. test_cost' <= test_max'
    BY <2>2, HalfBounds DEF OpenWindow
  <2> QED
    BY <1>1, <2>3 DEF Window, OpenWindow
<1>3. Minimal'
  BY <1>1 DEF Minimal, NoCheaper
<1>4. Real' /\ RoundMarked'
  BY <1>1 DEF Real, Ahead, RoundMarked, Segment
<1> QED
  BY <1>1, <1>2, <1>3, <1>4 DEF FirstLoop, FewMarked, WithinBudget, Refused

\* Going on to the next subgraph keeps the invariant; once around, every
\* subgraph is marked and the sum is refused for a reason.
LEMMA NextSubgraphParts == TypeOK /\ Parts /\ NextSubgraph => Parts'
<1> SUFFICES ASSUME TypeOK, Parts, NextSubgraph PROVE Parts'
  OBVIOUS
<1> USE DEF Parts
<1>1. /\ pc = "resolve"
      /\ tsp_cost > tsp_cost_budget
      /\ subgraph_minimized[i]
      /\ i' = Successor(i)
      /\ UNCHANGED <<lkh, subgraph_vids, tsp_cost_budget, subgraph_cost_budget, j, tsp_cost,
                     subgraph_cost, subgraph_tour, subgraph_minimized>>
  BY DEF NextSubgraph, args, tours
<1>2. \/ i' = j /\ pc' = "done" /\ result' = FALSE
      \/ i' # j /\ pc' = "resolve" /\ UNCHANGED result
  BY <1>1 DEF NextSubgraph, GiveUp, answer
<1>3. N \in Nat \ {0} /\ i \in 0 .. N - 1 /\ j \in 0 .. N - 1 /\ i' \in 0 .. N - 1
      /\ \A k \in Indices : k \in 0 .. N - 1
  BY <1>1, SubgraphAssumption, SuccessorIsIndex DEF TypeOK, Indices
<1>4. \A k \in Segment : subgraph_minimized[k]
  BY <1>1 DEF RoundMarked
<1>5. i' # j => Segment' \subseteq Segment \union {i}
  BY <1>1, <1>3 DEF Segment, Successor
<1>6. i' = j => Indices \subseteq Segment \union {i}
  BY <1>1, <1>3 DEF Segment, Successor
<1>7. RoundMarked'
  BY <1>1, <1>2, <1>4, <1>5 DEF RoundMarked
<1>8. Refused'
  BY <1>1, <1>2, <1>4, <1>6 DEF Refused, Minimal, NoCheaper
<1>9. Minimal'
  BY <1>1, <1>2 DEF Minimal, NoCheaper
<1>10. Real'
  BY <1>1, <1>2 DEF Real, Ahead
<1>11. FewMarked'
  BY <1>1, <1>2 DEF FewMarked
<1> QED
  BY <1>1, <1>2, <1>7, <1>8, <1>9, <1>10, <1>11 DEF FirstLoop, Window, WithinBudget

\* The tour that a bisection found replaces the one of subgraph i.
LEMMA ReplaceParts ==
    ASSUME TypeOK, TypeOK', Parts, pc = "search", NEW t \in AllTours, NEW c \in Int,
           Replace(t, c), c <= test_cost,
           lkh # "dying" => /\ t \in Tours[subgraph_vids[i]]
                            /\ c = TourCost[t]
    PROVE  Parts'
<1> USE DEF Parts
<1>1. /\ subgraph_cost' = [subgraph_cost EXCEPT ![i] = c]
      /\ subgraph_tour' = [subgraph_tour EXCEPT ![i] = t]
      /\ j' = i /\ i' = i /\ pc' = "resolve"
      /\ UNCHANGED <<lkh, subgraph_vids, subgraph_cost_budget, subgraph_minimized>>
  BY DEF Replace, StoreTour, args
<1>2. /\ i \in Indices /\ subgraph_cost \in [Indices -> Int]
      /\ subgraph_tour \in [Indices -> AllTours]
      /\ test_max \in Int /\ test_cost \in Int /\ subgraph_cost_budget \in Int
      /\ subgraph_cost[i] \in Int
  BY DEF TypeOK
<1>3. /\ ~ subgraph_minimized[i]
      /\ c <= subgraph_cost[i]
  BY <1>2 DEF Window
<1>4. Real'
  <2> SUFFICES ASSUME lkh # "dying", NEW k \in Indices
               PROVE  /\ subgraph_tour'[k] \in Tours[subgraph_vids[k]]
                      /\ subgraph_cost'[k] = TourCost[subgraph_tour'[k]]
                      /\ Cardinality(subgraph_vids[k]) > 1
                            => subgraph_cost'[k] <= subgraph_cost_budget
    BY <1>1 DEF Real
  <2>1. /\ subgraph_tour[k] \in Tours[subgraph_vids[k]]
        /\ subgraph_cost[k] = TourCost[subgraph_tour[k]]
        /\ Cardinality(subgraph_vids[k]) > 1 => subgraph_cost[k] <= subgraph_cost_budget
    BY DEF Real, Ahead
  <2>2. CASE k = i
    BY <1>1, <1>2, <1>3, <2>1, <2>2
  <2>3. CASE k # i
    BY <1>1, <1>2, <2>1, <2>3
  <2> QED
    BY <2>2, <2>3
<1>5. Minimal'
  <2>1. \A k \in Indices : subgraph_minimized[k] => subgraph_cost'[k] = subgraph_cost[k]
    BY <1>1, <1>2, <1>3
  <2> QED
    BY <1>1, <2>1 DEF Minimal, NoCheaper
<1>6. RoundMarked'
  <2>1. \A k \in Indices : k \in Int
    BY SubgraphAssumption DEF Indices
  <2>2. Segment' = {}
    BY <1>1, <1>2, <2>1 DEF Segment
  <2> QED
    BY <2>2 DEF RoundMarked
<1>7. FewMarked'
  BY <1>1 DEF FewMarked
<1> QED
  BY <1>1, <1>4, <1>5, <1>6, <1>7 DEF FirstLoop, Window, WithinBudget, Refused

\* A cheaper tour found in a window replaces the one held.
LEMMA CheaperTourParts == TypeOK /\ TypeOK' /\ Parts /\ CheaperTour => Parts'
<1> SUFFICES ASSUME TypeOK, TypeOK', Parts, CheaperTour PROVE Parts'
  OBVIOUS
<1>1. PICK t \in Found(subgraph_vids[i], test_cost) : Replace(t, TourCost[t])
  BY DEF CheaperTour
<1>2. pc = "search" /\ i \in Indices /\ test_cost \in Int
  BY DEF TypeOK, CheaperTour
<1>3. ~ Few(subgraph_vids[i])
  BY <1>2 DEF Parts, FewMarked, Window
<1>4. Cardinality(subgraph_vids[i]) > 1
  BY <1>2, <1>3, VidsHaveTours DEF Few
<1>5. /\ t \in Tours[subgraph_vids[i]] /\ t \in AllTours
      /\ TourCost[t] \in Int /\ TourCost[t] <= test_cost
  BY <1>2, <1>4, FoundIsTour
<1> QED
  BY <1>1, <1>2, <1>5, ReplaceParts

\* A cbLKH that dies in a window leaves a cost without a tour.
LEMMA CheaperTourDiesParts == TypeOK /\ TypeOK' /\ Parts /\ CheaperTourDies => Parts'
<1> SUFFICES ASSUME TypeOK, TypeOK', Parts, CheaperTourDies PROVE Parts'
  OBVIOUS
<1>1. PICK c \in Int : c <= test_cost /\ Replace(NoTour, c)
  BY DEF CheaperTourDies, TypeOK
<1>2. pc = "search" /\ NoTour \in AllTours /\ lkh = "dying"
  BY DEF CheaperTourDies, AllTours, Dies
<1> QED
  BY <1>1, <1>2, ReplaceParts

\* A refusal raises the lower end of the window, and marks the subgraph
\* minimal when the window is empty.
LEMMA NoCheaperTourParts == TypeOK /\ Parts /\ NoCheaperTour => Parts'
<1> SUFFICES ASSUME TypeOK, Parts, NoCheaperTour PROVE Parts'
  OBVIOUS
<1> USE DEF Parts
<1>1. /\ pc = "search" /\ test_min' = test_cost + 1
      /\ test_cost' = test_min' + Half(test_max - test_min')
      /\ UNCHANGED <<lkh, subgraph_vids, tsp_cost_budget, subgraph_cost_budget, i, j, tsp_cost,
                     subgraph_cost, subgraph_tour, test_max, result>>
  BY DEF NoCheaperTour, args, tours, answer
<1>2. \/ /\ test_min' > test_max
         /\ subgraph_minimized' = [subgraph_minimized EXCEPT ![i] = TRUE]
         /\ pc' = "resolve"
      \/ /\ test_min' <= test_max
         /\ pc' = "search" /\ UNCHANGED subgraph_minimized
  BY <1>1 DEF NoCheaperTour, TypeOK
<1>3. /\ i \in Indices /\ test_cost \in Int /\ test_max \in Int
      /\ subgraph_minimized \in [Indices -> BOOLEAN]
      /\ subgraph_cost[i] \in Int
  BY DEF TypeOK
<1>4. /\ ~ subgraph_minimized[i]
      /\ test_max = subgraph_cost[i] - 1
  BY <1>1 DEF Window
<1>5. \A k \in Indices : subgraph_minimized[k] => subgraph_minimized'[k]
  BY <1>2, <1>3
<1>6. Minimal'
  <2>1. CASE test_min' > test_max
    <3> SUFFICES ASSUME lkh = "exact", NEW k \in Indices, subgraph_minimized'[k]
                 PROVE  NoCheaper(k)
      BY <1>1, <1>2, <1>3, <2>1 DEF Minimal, NoCheaper
    <3>1. CASE k = i
      <4>1. Missed(subgraph_vids[i], test_cost)
        BY DEF NoCheaperTour, Dies
      <4>2. \A t \in Tours[subgraph_vids[i]] : TourCost[t] > test_cost
        BY <1>3, <4>1, MissedMeansNone
      <4> QED
        BY <1>1, <1>3, <1>4, <2>1, <3>1, <4>2, VidsHaveTours DEF NoCheaper
    <3>2. CASE k # i
      BY <1>1, <1>2, <1>3, <2>1, <3>2 DEF Minimal
    <3> QED
      BY <3>1, <3>2
  <2>2. CASE ~ (test_min' > test_max)
    BY <1>1, <1>2, <1>3, <2>2 DEF Minimal, NoCheaper
  <2> QED
    BY <2>1, <2>2
<1>7. Window'
  <2> SUFFICES ASSUME test_min' <= test_max, pc' = "search", UNCHANGED subgraph_minimized
               PROVE  test_cost' <= test_max
    BY <1>1, <1>2, <1>4 DEF Window
  <2> QED
    BY <1>1, <1>3, HalfBounds
<1>8. FewMarked' /\ RoundMarked'
  BY <1>1, <1>2, <1>5 DEF FewMarked, RoundMarked, Segment
<1>9. Real'
  BY <1>1, <1>2 DEF Real, Ahead
<1> QED
  BY <1>1, <1>2, <1>6, <1>7, <1>8, <1>9 DEF FirstLoop, WithinBudget, Refused

\* The answer TRUE is given with the sum within the budget.
LEMMA ConcatenateParts == TypeOK /\ Parts /\ Concatenate => Parts'
<1> SUFFICES ASSUME TypeOK, Parts, Concatenate PROVE Parts'
  OBVIOUS
<1> USE DEF Parts
<1>1. /\ pc = "resolve" /\ pc' = "done" /\ result' = TRUE /\ tsp_cost <= tsp_cost_budget
      /\ soln_cost' = IF type = "MIN_MAX_TSP" THEN Max(Costs \union {0}) ELSE tsp_cost
      /\ UNCHANGED <<type, lkh, subgraph_vids, tsp_cost_budget, subgraph_cost_budget, i,
                     tsp_cost, subgraph_cost, subgraph_tour, subgraph_minimized>>
  BY DEF Concatenate, args, tours
<1>2. WithinBudget'
  BY <1>1 DEF WithinBudget, Costs
<1>3. Real' /\ Minimal'
  BY <1>1 DEF Real, Ahead, Minimal, NoCheaper
<1> QED
  BY <1>1, <1>2, <1>3 DEF FirstLoop, FewMarked, Window, RoundMarked, Refused

\* A step that changes nothing keeps the invariant.
LEMMA StutterParts == Parts /\ UNCHANGED vars => Parts'
BY DEF Parts, vars, Real, Ahead, FirstLoop, FewMarked, Window, Minimal, NoCheaper,
   RoundMarked, Segment, WithinBudget, Costs, Refused

\* The inductive invariant holds for every graph, every budget, every cbLKH
\* and every order of the subgraphs.
LEMMA IInvCorrect == Spec => []IInv
<1>1. Init => IInv
  BY InitTypes, InitSum, InitParts DEF IInv
<1>2. IInv /\ [Next]_vars => IInv'
  <2> SUFFICES ASSUME IInv, [Next]_vars PROVE IInv'
    OBVIOUS
  <2>1. TypeOK /\ SumKept /\ Parts
    BY DEF IInv, Parts
  <2>2. TypeOK'
    BY <2>1, NextTypes
  <2>3. SumKept'
    BY <2>1, NextSum DEF Parts
  <2>4. Parts'
    BY <2>1, <2>2, FirstTourParts, FirstTourDiesParts, FirstTourMissedParts, OpenWindowParts,
       NextSubgraphParts, CheaperTourParts, CheaperTourDiesParts, NoCheaperTourParts,
       ConcatenateParts, StutterParts DEF Next, Returned
  <2> QED
    BY <2>2, <2>3, <2>4 DEF IInv, Parts
<1> QED
  BY <1>1, <1>2, PTL DEF Spec

-----------------------------------------------------------------------------
(***************************************************************************)
(* The theorems.                                                           *)
(***************************************************************************)
\* Every variable of the call keeps its type.
THEOREM TypeCorrect == Spec => []TypeOK
BY IInvCorrect, PTL DEF IInv

\* Among the first k + 1 costs there is a greatest.
LEMMA GreatestExists ==
    ASSUME NEW f \in [Indices -> Int]
    PROVE  \E m \in Indices : \A k \in Indices : f[m] >= f[k]
<1> DEFINE S == {n \in 0 .. N - 1 : \E m \in Indices : \A k \in 0 .. n : f[m] >= f[k]}
<1>1. N - 1 \in Nat /\ N \in Nat /\ Indices = 0 .. N - 1
  BY SubgraphAssumption DEF Indices
<1>2. 0 \in S
  <2>1. 0 \in Indices /\ f[0] \in Int /\ \A k \in 0 .. 0 : k = 0
    BY <1>1
  <2>2. \A k \in 0 .. 0 : f[0] >= f[k]
    BY <2>1
  <2>3. 0 \in 0 .. N - 1
    BY <1>1
  <2> QED
    BY <2>1, <2>2, <2>3
<1>3. \A n \in 0 .. (N - 1) - 1 : n \in S => n + 1 \in S
  <2> SUFFICES ASSUME NEW n \in 0 .. (N - 1) - 1, n \in S
               PROVE  \E m \in Indices : \A k \in 0 .. n + 1 : f[m] >= f[k]
    <3>1. \A n \in 0 .. (N - 1) - 1 : n + 1 \in 0 .. N - 1
      BY <1>1
    <3> QED
      BY <3>1
  <2>1. PICK m \in Indices : \A k \in 0 .. n : f[m] >= f[k]
    BY <1>1
  <2>2. n + 1 \in Indices /\ \A k \in 0 .. n + 1 : k \in Indices /\ (k = n + 1 \/ k \in 0 .. n)
    BY <1>1
  <2>3. CASE f[m] >= f[n + 1]
    BY <2>1, <2>2, <2>3
  <2>4. CASE ~ (f[m] >= f[n + 1])
    <3>1. \A k \in 0 .. n + 1 : f[n + 1] >= f[k]
      BY <2>1, <2>2, <2>4
    <3> QED
      BY <2>2, <3>1
  <2> QED
    BY <2>3, <2>4
<1>4. N - 1 \in S
  <2> HIDE DEF S
  <2>1. \A n \in 0 .. N - 1 : n \in S
    BY <1>1, <1>2, <1>3, BoundedInduction
  <2> QED
    BY <1>1, <2>1
<1> QED
  BY <1>1, <1>4

\* The 0 that the code's maximum starts from makes no difference.
LEMMA MaxWithZero ==
    ASSUME NEW f \in [Indices -> Int], \A k \in Indices : f[k] >= 0
    PROVE  Max({f[k] : k \in Indices} \union {0}) = Max({f[k] : k \in Indices})
<1> DEFINE costs == {f[k] : k \in Indices}
<1>1. PICK m \in Indices : \A k \in Indices : f[m] >= f[k]
  BY GreatestExists
<1>2. /\ f[m] \in costs /\ \A c \in costs : f[m] >= c
      /\ f[m] >= 0 /\ f[m] \in Int /\ \A c \in costs : c \in Int
  BY <1>1
<1> HIDE DEF costs
<1>3. Max(costs) = f[m]
  <2>1. \A x \in costs : (\A y \in costs : x >= y) => x = f[m]
    BY <1>2
  <2> QED
    BY <1>2, <2>1 DEF Max
<1>4. Max(costs \union {0}) = f[m]
  <2>1. \A x \in costs \union {0} : (\A y \in costs \union {0} : x >= y) => x = f[m]
    BY <1>2
  <2> QED
    BY <1>2, <2>1 DEF Max
<1> QED
  BY <1>3, <1>4 DEF costs

\* For every graph and every pair of budgets TSP::solve answers TRUE only
\* with a tour of every subgraph, within the budgets and at the cost it
\* reports, unless cbLKH dies (src/tsp.cpp:418-447).
THEOREM TrueIsRight == Spec => []TrueMeansTours
<1>1. IInv => TrueMeansTours
  <2> SUFFICES ASSUME IInv PROVE TrueMeansTours
    OBVIOUS
  <2> DEFINE cost == [k \in Indices |-> TourCost[subgraph_tour[k]]]
  <2>1. tsp_cost = SumOf(subgraph_cost) /\ subgraph_cost \in [Indices -> Int]
    BY DEF IInv, SumKept, TypeOK
  <2>2. ASSUME lkh # "dying", pc = "done", result
        PROVE  /\ \A k \in Indices : subgraph_tour[k] \in Tours[subgraph_vids[k]]
               /\ cost = subgraph_cost
               /\ \A k \in Indices : subgraph_cost[k] >= 0
               /\ \A k \in Indices : Cardinality(subgraph_vids[k]) > 1
                                       => cost[k] <= subgraph_cost_budget
    <3>1. \A k \in Indices :
            /\ subgraph_tour[k] \in Tours[subgraph_vids[k]]
            /\ subgraph_cost[k] = TourCost[subgraph_tour[k]]
            /\ Cardinality(subgraph_vids[k]) > 1 => subgraph_cost[k] <= subgraph_cost_budget
      BY <2>2 DEF IInv, Real, Ahead
    <3>2. cost = subgraph_cost
      BY <2>1, <3>1
    <3>3. \A k \in Indices : subgraph_cost[k] >= 0
      BY <3>1, VidsHaveTours DEF IInv
    <3> QED
      BY <3>1, <3>2, <3>3
  <2>3. ASSUME lkh # "dying", pc = "done", result
        PROVE  /\ SumOf(cost) <= tsp_cost_budget
               /\ soln_cost = IF type = "MIN_MAX_TSP" THEN Max({cost[k] : k \in Indices})
                                 ELSE SumOf(cost)
    <3>1. /\ tsp_cost <= tsp_cost_budget
          /\ soln_cost = IF type = "MIN_MAX_TSP" THEN Max(Costs \union {0}) ELSE tsp_cost
      BY <2>3 DEF IInv, WithinBudget
    <3>2. Max(Costs \union {0}) = Max({cost[k] : k \in Indices})
      <4>1. Max({subgraph_cost[k] : k \in Indices} \union {0})
              = Max({subgraph_cost[k] : k \in Indices})
        BY <2>1, <2>2, <2>3, MaxWithZero
      <4>2. cost = subgraph_cost
        BY <2>2, <2>3
      <4> HIDE DEF cost
      <4> QED
        BY <4>1, <4>2 DEF Costs
    <3> HIDE DEF cost
    <3> QED
      BY <2>1, <2>2, <2>3, <3>1, <3>2
  <2>4. lkh # "dying" => ToursComplete
    BY <2>2 DEF ToursComplete
  <2> QED
    BY <2>1, <2>2, <2>3, <2>4 DEF TrueMeansTours
<1> QED
  BY <1>1, IInvCorrect, PTL

\* The least cost of the tours of a subgraph's vertices is an integer and the
\* cost of one of them.
LEMMA LeastCostIsLeast ==
    ASSUME TypeOK, NEW k \in Indices
    PROVE  /\ LeastCost(subgraph_vids[k]) \in Int
           /\ \E t \in Tours[subgraph_vids[k]] : LeastCost(subgraph_vids[k]) = TourCost[t]
<1> DEFINE ts == Tours[subgraph_vids[k]]
           costs == {TourCost[t] : t \in ts}
<1>1. ts # {} /\ \A t \in ts : TourCost[t] \in Nat
  BY VidsHaveTours
<1>2. costs \in SUBSET Nat /\ costs # {}
  BY <1>1
<1>3. \E m \in costs : \A c \in costs : m <= c
  <2> HIDE DEF costs
  <2> QED
    BY <1>2, LeastElement
<1>4. Min(costs) \in costs
  <2> HIDE DEF costs
  <2> QED
    BY <1>3 DEF Min
<1> QED
  BY <1>2, <1>4 DEF LeastCost

\* With an exact cbLKH TSP::solve answers FALSE only when no tours fit the
\* budgets, and marks a subgraph minimal only when its tour is the shortest,
\* for every graph, every pair of budgets and every number of subgraphs
\* (src/tsp.cpp:372-416).
THEOREM FalseIsRight == Spec => []FalseMeansNone
<1>1. IInv => FalseMeansNone
  <2> SUFFICES ASSUME IInv, lkh = "exact" PROVE FalseMeansNone
    BY DEF FalseMeansNone
  <2>0. TypeOK
    BY DEF IInv
  <2> DEFINE least == [k \in Indices |-> LeastCost(subgraph_vids[k])]
  <2>1. ASSUME NEW k \in Indices, NoCheaper(k)
        PROVE  subgraph_cost[k] <= LeastCost(subgraph_vids[k])
    BY <2>0, <2>1, LeastCostIsLeast DEF NoCheaper
  <2>2. \A k \in Indices : subgraph_minimized[k] =>
          subgraph_cost[k] <= LeastCost(subgraph_vids[k])
    BY <2>1 DEF IInv, Minimal
  <2>3. ASSUME NEW k \in Indices,
               \A t \in Tours[subgraph_vids[k]] : TourCost[t] > subgraph_cost_budget
        PROVE  LeastCost(subgraph_vids[k]) > subgraph_cost_budget
    BY <2>0, <2>3, LeastCostIsLeast
  <2>4. ASSUME tsp_cost > tsp_cost_budget, \A k \in Indices : NoCheaper(k)
        PROVE  SumOf(least) > tsp_cost_budget
    <3>1. least \in [Indices -> Int] /\ subgraph_cost \in [Indices -> Int]
      BY <2>0, LeastCostIsLeast DEF TypeOK
    <3>2. \A k \in Indices : subgraph_cost[k] <= least[k]
      BY <2>1, <2>4
    <3> HIDE DEF least
    <3>3. SumOf(subgraph_cost) <= SumOf(least)
      BY <3>1, <3>2, SumMonotone
    <3>4. SumOf(least) \in Int /\ SumOf(subgraph_cost) \in Int /\ tsp_cost_budget \in Int
      BY <2>0, <3>1, SumIsInt DEF TypeOK
    <3> QED
      BY <2>4, <3>3, <3>4 DEF IInv, SumKept
  <2> QED
    BY <2>2, <2>3, <2>4 DEF FalseMeansNone, IInv, Refused
<1> QED
  BY <1>1, IInvCorrect, PTL
===============================================================================
