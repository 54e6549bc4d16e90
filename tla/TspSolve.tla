------------------------------ MODULE TspSolve ------------------------------
(***************************************************************************)
(* One call of TSP::solve: find a tour through the given vertices of every *)
(* subgraph so that each costs at most subgraph_cost_budget and all of     *)
(* them together at most tsp_cost_budget.  TSP::LKH is called once for     *)
(* each subgraph with the subgraph budget, and then again, subgraph after  *)
(* subgraph, with limits found by bisection until the sum is small enough. *)
(*                                                                         *)
(* A call of LKH is a step: it returns any tour within its limit, exactly  *)
(* for up to three vertices and by a heuristic above.  cbLKH runs as a     *)
(* child process, so it may also answer nothing at all.                    *)
(***************************************************************************)
EXTENDS Integers, FiniteSets, FiniteSetsExt

CONSTANTS
    N,             \* number of subgraphs
    Subgraph,      \* their vertices: a function on 0 .. N - 1
    Tours,         \* the closed tours through each set of vertices
    TourCost,      \* the cost of each tour
    Requests,      \* the sets of vertices to solve for
    TspBudgets,    \* values of the argument tsp_cost_budget
    SubBudgets,    \* values of the argument subgraph_cost_budget
    Types,         \* values of type: "TSP", "MIN_MAX_TSP"
    Lkhs           \* how cbLKH may behave, see lkh

Indices == 0 .. N - 1

ASSUME SubgraphAssumption ==
    /\ N \in Nat \ {0}
    /\ Subgraph \in [Indices -> SUBSET UNION {Subgraph[k] : k \in Indices}]
    /\ \A k \in Indices : IsFiniteSet(Subgraph[k])
    /\ Requests \subseteq SUBSET UNION {Subgraph[k] : k \in Indices}

ASSUME BudgetAssumption ==
    /\ TspBudgets \subseteq Int /\ SubBudgets \subseteq Int
    /\ Types \subseteq {"TSP", "MIN_MAX_TSP"}
    /\ Lkhs \subseteq {"exact", "heuristic", "dying"}

\* Every set of vertices a subgraph can be asked for has a tour; that of one
\* vertex or none costs nothing.
ASSUME TourAssumption ==
    \A k \in Indices : \A s \in SUBSET Subgraph[k] :
        /\ Tours[s] # {}
        /\ \A t \in Tours[s] : TourCost[t] \in Nat
        /\ Cardinality(s) <= 1 => \A t \in Tours[s] : TourCost[t] = 0

VARIABLES
    type,              \* of the .tsp file
    lkh,               \* "exact": cbLKH finds a tour within its limit whenever
                       \* there is one; "heuristic": it may miss it; "dying": it
                       \* may also fail to run or be stopped without a result
    pc,                \* "first", "resolve", "search" or "done"
    subgraph_vids,     \* the vertices of each subgraph to visit
    tsp_cost_budget, subgraph_cost_budget,    \* the arguments
    i, j,              \* the subgraph looked at, and the last one re-solved
    subgraph_cost, subgraph_tour, tsp_cost,
    subgraph_minimized,
    test_min, test_cost, test_max,            \* the bisection
    result, soln_cost

vars == <<type, lkh, pc, subgraph_vids, tsp_cost_budget, subgraph_cost_budget, i, j,
          subgraph_cost, subgraph_tour, tsp_cost, subgraph_minimized,
          test_min, test_cost, test_max, result, soln_cost>>

args == <<type, lkh, subgraph_vids, tsp_cost_budget, subgraph_cost_budget>>
bisection == <<test_min, test_cost, test_max>>
tours == <<subgraph_cost, subgraph_tour, tsp_cost>>
answer == <<result, soln_cost>>

NoTour == <<>>

\* Each vertex goes to one subgraph that holds it: which one depends on the
\* order of the vertices when subgraphs overlap.
Splits(vids) ==
    {[k \in Indices |-> {v \in vids : owner[v] = k}] :
        owner \in {o \in [vids -> Indices] : \A v \in vids : v \in Subgraph[o[v]]}}

\* Up to three vertices the code compares the tours itself.
Few(s) == Cardinality(s) <= 3

Cheapest(s) == {t \in Tours[s] : \A u \in Tours[s] : TourCost[t] <= TourCost[u]}

\* A slip for Found: the tours of two and three vertices are not compared
\* with the limit.
FoundUnchecked(s, max_cost) ==
    IF Few(s) THEN Cheapest(s)
    ELSE {t \in Tours[s] : TourCost[t] <= max_cost}

\* The tours LKH may return for s under the limit max_cost.  One vertex or none
\* needs no tour cost, and no comparison is made.
Found(s, max_cost) ==
    IF Cardinality(s) <= 1 THEN Tours[s]
    ELSE {t \in IF Few(s) THEN Cheapest(s) ELSE Tours[s] : TourCost[t] <= max_cost}

\* LKH returns false.
Missed(s, max_cost) == Found(s, max_cost) = {} \/ ~(lkh = "exact" \/ Few(s))

\* cbLKH dies: no tour, and the cost is what the caller's variable held.
Dies(s) == lkh = "dying" /\ ~Few(s)

\* floor(a/2) of a C int, truncated towards zero by the division.
Half(a) == IF a >= 0 THEN a \div 2 ELSE -((-a) \div 2)

\* The next subgraph, cyclically.
Successor(k) == IF k = N - 1 THEN 0 ELSE k + 1

-----------------------------------------------------------------------------
Init ==
    /\ type \in Types /\ lkh \in Lkhs
    /\ pc = "first"
    /\ subgraph_vids \in UNION {Splits(vids) : vids \in Requests}
    /\ tsp_cost_budget \in TspBudgets
    /\ subgraph_cost_budget \in SubBudgets
    /\ i = 0 /\ j = 0
    /\ subgraph_cost = [k \in Indices |-> 0]
    /\ subgraph_tour = [k \in Indices |-> NoTour]
    /\ tsp_cost = 0
    /\ subgraph_minimized = [k \in Indices |-> FALSE]
    /\ test_min = 0 /\ test_cost = 0 /\ test_max = 0
    /\ result = FALSE /\ soln_cost = 0

\* A tour of cost c becomes the tour of subgraph i.
StoreTour(t, c) ==
    /\ subgraph_tour' = [subgraph_tour EXCEPT ![i] = t]
    /\ subgraph_cost' = [subgraph_cost EXCEPT ![i] = c]

\* After the last subgraph: the ones of up to three vertices are minimal.
AfterFirst ==
    IF i = N - 1
    THEN /\ pc' = "resolve"
         /\ i' = 0
         /\ subgraph_minimized' = [k \in Indices |-> Few(subgraph_vids[k])]
    ELSE /\ i' = i + 1
         /\ UNCHANGED <<pc, subgraph_minimized>>

FirstTour ==
    /\ pc = "first"
    /\ \E t \in Found(subgraph_vids[i], subgraph_cost_budget) :
         /\ StoreTour(t, TourCost[t])
         /\ tsp_cost' = tsp_cost + TourCost[t]
    /\ AfterFirst
    /\ UNCHANGED <<args, j, bisection, answer>>

\* No tour was read, but the cost of 0 the vector started with is accepted.
FirstTourDies ==
    /\ pc = "first"
    /\ Dies(subgraph_vids[i])
    /\ 0 <= subgraph_cost_budget
    /\ StoreTour(NoTour, 0)
    /\ UNCHANGED tsp_cost
    /\ AfterFirst
    /\ UNCHANGED <<args, j, bisection, answer>>

GiveUp ==
    /\ pc' = "done"
    /\ result' = FALSE
    /\ UNCHANGED soln_cost

FirstTourMissed ==
    /\ pc = "first"
    /\ \/ Missed(subgraph_vids[i], subgraph_cost_budget)
       \/ Dies(subgraph_vids[i]) /\ subgraph_cost_budget < 0
    /\ GiveUp
    /\ UNCHANGED <<args, i, j, tours, subgraph_minimized, bisection>>

\* Bisect for a cheaper tour of subgraph i.
OpenWindow ==
    /\ pc = "resolve"
    /\ tsp_cost > tsp_cost_budget
    /\ ~subgraph_minimized[i]
    /\ test_max' = subgraph_cost[i] - 1
    /\ test_min' = subgraph_cost[i] - (tsp_cost - tsp_cost_budget)
    /\ test_cost' = test_min' + Half(test_max' - test_min')
    /\ pc' = "search"
    /\ UNCHANGED <<args, i, j, tours, subgraph_minimized, answer>>

\* Slips for NextSubgraph: it never quits, and it quits one subgraph early.
NextSubgraphForever ==
    /\ pc = "resolve"
    /\ tsp_cost > tsp_cost_budget
    /\ subgraph_minimized[i]
    /\ i' = Successor(i)
    /\ UNCHANGED <<pc, args, j, tours, subgraph_minimized, bisection, answer>>
NextSubgraphEarly ==
    /\ pc = "resolve"
    /\ tsp_cost > tsp_cost_budget
    /\ subgraph_minimized[i]
    /\ i' = Successor(i)
    /\ IF Successor(Successor(i)) = j THEN GiveUp ELSE UNCHANGED <<pc, answer>>
    /\ UNCHANGED <<args, j, tours, subgraph_minimized, bisection>>

\* Go to the next subgraph; back at the last one that improved, give up.
NextSubgraph ==
    /\ pc = "resolve"
    /\ tsp_cost > tsp_cost_budget
    /\ subgraph_minimized[i]
    /\ i' = Successor(i)
    /\ IF Successor(i) = j THEN GiveUp ELSE UNCHANGED <<pc, answer>>
    /\ UNCHANGED <<args, j, tours, subgraph_minimized, bisection>>

\* Subgraph i gets the tour t of cost c.
Replace(t, c) ==
    /\ tsp_cost' = tsp_cost - subgraph_cost[i] + c
    /\ StoreTour(t, c)
    /\ j' = i
    /\ pc' = "resolve"
    /\ UNCHANGED <<args, i, subgraph_minimized, bisection, answer>>

CheaperTour ==
    /\ pc = "search"
    /\ \E t \in Found(subgraph_vids[i], test_cost) : Replace(t, TourCost[t])

\* The local cost was never written: any value can be compared, and the tour
\* is the empty local.
CheaperTourDies ==
    /\ pc = "search"
    /\ Dies(subgraph_vids[i])
    /\ \E c \in {0, test_cost} : c <= test_cost /\ Replace(NoTour, c)

\* LKH finds nothing within test_cost: look above it, and when the window is
\* empty the tour of subgraph i is minimal.
NoCheaperTour ==
    /\ pc = "search"
    /\ Missed(subgraph_vids[i], test_cost) \/ Dies(subgraph_vids[i])
    /\ test_min' = test_cost + 1
    /\ test_cost' = test_min' + Half(test_max - test_min')
    /\ IF test_min' > test_max
       THEN /\ subgraph_minimized' = [subgraph_minimized EXCEPT ![i] = TRUE]
            /\ pc' = "resolve"
       ELSE UNCHANGED <<pc, subgraph_minimized>>
    /\ UNCHANGED <<args, i, j, tours, test_max, answer>>

Costs == {subgraph_cost[k] : k \in Indices}

\* The tours are concatenated and the sum, or the dearest tour, reported.
Concatenate ==
    /\ pc = "resolve"
    /\ tsp_cost <= tsp_cost_budget
    /\ pc' = "done"
    /\ result' = TRUE
    /\ soln_cost' = IF type = "MIN_MAX_TSP" THEN Max(Costs \union {0}) ELSE tsp_cost
    /\ UNCHANGED <<args, i, j, tours, subgraph_minimized, bisection>>

Returned ==
    /\ pc = "done"
    /\ UNCHANGED vars

Next ==
    \/ FirstTour
    \/ FirstTourDies
    \/ FirstTourMissed
    \/ OpenWindow
    \/ NextSubgraph
    \/ CheaperTour
    \/ CheaperTourDies
    \/ NoCheaperTour
    \/ Concatenate
    \/ Returned

\* The function runs to its end: each call of cbLKH has a time limit.
Spec == Init /\ [][Next]_vars /\ WF_vars(Next)

-----------------------------------------------------------------------------
(* Properties.                                                             *)

SumOf(f) ==
    LET sum[k \in 0 .. N] == IF k = 0 THEN 0 ELSE sum[k - 1] + f[k - 1]
    IN sum[N]

\* The number of vertices get_solution's tour has and verify_soln expects:
\* TRUE is returned only with a tour through all vertices of every subgraph.
ToursComplete ==
    pc = "done" /\ result =>
        \A k \in Indices : subgraph_tour[k] \in Tours[subgraph_vids[k]]

(***************************************************************************)
(* The running sum tsp_cost, kept by differences over many replacements,   *)
(* is that of the subgraph costs whenever it is compared with the budget;  *)
(* and with a cbLKH that answers, TRUE is returned only with tours through *)
(* all vertices and within both budgets, whose cost is the one reported.   *)
(* A lone vertex is never compared with the subgraph budget.               *)
(***************************************************************************)
TrueMeansTours ==
    /\ tsp_cost = SumOf(subgraph_cost)
    /\ lkh # "dying" => ToursComplete
    /\ lkh # "dying" /\ pc = "done" /\ result =>
        LET cost == [k \in Indices |-> TourCost[subgraph_tour[k]]] IN
        /\ SumOf(cost) <= tsp_cost_budget
        /\ \A k \in Indices : Cardinality(subgraph_vids[k]) > 1
                                => cost[k] <= subgraph_cost_budget
        /\ soln_cost = IF type = "MIN_MAX_TSP" THEN Max({cost[k] : k \in Indices})
                                 ELSE SumOf(cost)

\* The least cost of a tour through s.
LeastCost(s) == Min({TourCost[t] : t \in Tours[s]})

(***************************************************************************)
(* With an exact LKH, a subgraph is marked minimal only when it has no     *)
(* cheaper tour, and FALSE means there are no tours within the budgets:    *)
(* the bisection and the round through the subgraphs that ends where it    *)
(* last improved have to be right.                                         *)
(***************************************************************************)
FalseMeansNone ==
    lkh = "exact" =>
    /\ \A k \in Indices : subgraph_minimized[k] =>
         subgraph_cost[k] <= LeastCost(subgraph_vids[k])
    /\ pc = "done" /\ ~result =>
        \/ \E k \in Indices :
             /\ Cardinality(subgraph_vids[k]) > 1
             /\ LeastCost(subgraph_vids[k]) > subgraph_cost_budget
        \/ SumOf([k \in Indices |-> LeastCost(subgraph_vids[k])])
             > tsp_cost_budget

\* The function returns, however often LKH misses a tour.
Terminates == <>(pc = "done")
=============================================================================
