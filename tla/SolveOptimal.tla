---------------------------- MODULE SolveOptimal ----------------------------
(***************************************************************************)
(* The search for the cheapest solution: SATTSP::solve_optimal, the budget *)
(* bookkeeping of SATTSP::solve, SATTSP::get_solution and the assertion    *)
(* verify_soln() that guards every solution, and the one-shot use of them  *)
(* by main (cbTSP.cpp).                                                    *)
(*                                                                         *)
(* The SAT solver and LKH are oracles here; module CbMinisat looks inside  *)
(* solve() and module TspSolve inside TSP::solve.  An assignment that      *)
(* satisfies the formula is an element of Models: what the search can tell *)
(* apart is how many vertices it makes true and what its tours cost.       *)
(***************************************************************************)
EXTENDS Integers

CONSTANTS
    Models,        \* the assignments that satisfy the input formula
    Count,         \* vertices an assignment makes true
    Total,         \* cost of its cheapest tours, summed over the subgraphs
    Bottleneck,    \* cost of the dearest of these tours
    ClosedDiff,    \* what verify_soln's sum adds to the cost solve reports
    NoTour,        \* the empty soln_tour
    MinMax,        \* graph->type == "MIN_MAX_TSP"
    Methods,       \* the values of --search_method to consider
    BDivs,         \* the values of --bdiv to consider
    Inf,           \* 999999, the initial soln_cost and budgets
    GraphTsp,      \* MAX_TSP_COST of the .tsp file, Inf if absent
    GraphSub,      \* MAX_SUBGRAPH_COST of the .tsp file, Inf if absent
    CbInterval,    \* a vertex set is checked when its size divides by this
    LkhExact,      \* LKH finds a tour within its limit whenever there is one
    StepLimits,    \* --conflicts, --propagations or --max_usat_time is given
    TimeLimit,     \* --max_time is given
    NDebug,        \* built with -DNDEBUG (make install)
    OneShot,       \* --max_tsp_cost is given: main calls solve once
    MaxTspArg,     \* value of --max_tsp_cost
    MaxSubArg      \* value of --max_subgraph_cost, -1 if absent

ASSUME InstanceAssumption ==
    /\ Count \in [Models -> Nat]
    /\ Total \in [Models -> Nat]
    /\ Bottleneck \in [Models -> Nat]
    /\ ClosedDiff \in [Models -> Int]
    /\ NoTour \notin Models

ASSUME OptionAssumption ==
    /\ MinMax \in BOOLEAN /\ LkhExact \in BOOLEAN /\ NDebug \in BOOLEAN
    /\ StepLimits \in BOOLEAN /\ TimeLimit \in BOOLEAN /\ OneShot \in BOOLEAN
    /\ Methods \subseteq {"linear", "binary", "adaptive"}
    /\ BDivs \subseteq Nat \ {0}
    /\ CbInterval \in Nat \ {0}
    /\ Inf \in Nat /\ GraphTsp \in Nat /\ GraphSub \in Nat
    /\ MaxTspArg \in Int /\ MaxSubArg \in Int

VARIABLES
    phase,                 \* where solve_optimal (or main) is
    search_method, bdiv_parameter,                \* set once by main
    test_min, test_cost, test_max, bin_div,       \* its locals
    soln, soln_cost,       \* soln_tour (by its assignment) and soln_cost
    tsp_cost_budget, subgraph_cost_budget,        \* members solve() updates
    model,                 \* formula->model after the last l_True
    spent                  \* solver_time has passed solver_time_budget

vars == <<phase, search_method, bdiv_parameter,
          test_min, test_cost, test_max, bin_div, soln, soln_cost,
          tsp_cost_budget, subgraph_cost_budget, model, spent>>

options == <<search_method, bdiv_parameter>>
window == <<test_min, test_cost, test_max, bin_div>>
budgets == <<tsp_cost_budget, subgraph_cost_budget>>
solution == <<soln, soln_cost>>

Lower(a, b) == IF a <= b THEN a ELSE b

\* floor(a/b) of two C ints: the division has already truncated towards zero.
TruncDiv(a, b) == IF a >= 0 THEN a \div b ELSE -((-a) \div b)

\* A slip for NextTestCost: the initial formula again, without test_min.
NextTestCostFromZero(lo, hi, div) ==
    IF search_method = "linear" THEN hi ELSE hi - TruncDiv(hi, div)

\* The budget the next round tries.
NextTestCost(lo, hi, div) ==
    IF search_method = "linear" THEN hi ELSE hi - TruncDiv(hi - lo, div)

-----------------------------------------------------------------------------
(* The oracles.                                                            *)

\* There are tours of a within both budgets.
Within(a, tspBudget, subBudget) ==
    Total[a] <= tspBudget /\ Bottleneck[a] <= subBudget

\* LKH is exact up to three vertices and a randomised heuristic above.
Certain(a) == LkhExact \/ Count[a] <= 3

\* What TSP::solve reports: a sum, or the dearest tour for MIN_MAX_TSP.
Objective(a) == IF MinMax THEN Bottleneck[a] ELSE Total[a]

\* The costs graph->solve may report for a: LKH stops at the first tour within
\* its limit, so only tours of at most three vertices are surely cheapest.
ReportedCosts(a, tspBudget, subBudget) ==
    IF Count[a] <= 3
    THEN {Objective(a)}
    ELSE Objective(a) .. (IF MinMax THEN subBudget ELSE tspBudget)

\* The theory calls graph->solve when the number of true vertices is a multiple
\* of cb_interval; an assignment it has not checked passes, because solve()
\* ignores the result of its own graph->solve and compares a cost of 0.
Accepted(a, tspBudget, subBudget) ==
    Count[a] % CbInterval = 0 => Within(a, tspBudget, subBudget)

\* l_False: whatever fits the budgets was lost to the heuristic.
Refuted(tspBudget, subBudget) ==
    \A a \in Models : Within(a, tspBudget, subBudget) => ~Certain(a)

-----------------------------------------------------------------------------
Init ==
    /\ phase = "solve"
    /\ search_method \in Methods
    /\ bdiv_parameter \in BDivs
    /\ test_min = 0
    /\ test_max = Inf
    /\ bin_div = IF search_method = "adaptive" THEN 2 ELSE bdiv_parameter
    /\ test_cost = Inf - TruncDiv(Inf, bin_div)
    /\ soln = NoTour
    /\ soln_cost = Inf
    /\ tsp_cost_budget = Inf
    /\ subgraph_cost_budget = Inf
    /\ model = NoTour
    /\ spent = FALSE

\* The arguments of the call of solve().
ArgTsp == IF OneShot THEN MaxTspArg
          ELSE IF MinMax THEN tsp_cost_budget ELSE test_cost
ArgSub == IF OneShot THEN MaxSubArg
          ELSE IF MinMax THEN test_cost ELSE subgraph_cost_budget

\* A slip for SetBudgets: the budgets of the .tsp file are forgotten.
SetBudgetsUnclipped ==
    /\ tsp_cost_budget' = ArgTsp
    /\ subgraph_cost_budget' = ArgSub

\* solve() clips both budgets to those of the graph and stores them.
SetBudgets ==
    /\ tsp_cost_budget' = Lower(ArgTsp, GraphTsp)
    /\ subgraph_cost_budget' = Lower(ArgSub, GraphSub)

\* Where a false result leads: main does nothing with it in one-shot use.
OnFalse == IF OneShot THEN "done" ELSE "reject"

\* solver_time grows by the time of this call.
AddTime == spent' \in (IF TimeLimit THEN {spent, TRUE} ELSE {spent})

\* The time budget was used up before the call: no budget is touched.
SolveExpired ==
    /\ phase = "solve"
    /\ spent
    /\ phase' = OnFalse
    /\ UNCHANGED <<options, window, solution, budgets, model, spent>>

SolveTrue(a) ==
    /\ phase = "solve"
    /\ ~spent
    /\ SetBudgets
    /\ Accepted(a, tsp_cost_budget', subgraph_cost_budget')
    /\ model' = a
    /\ AddTime
    /\ phase' = "accept"
    /\ UNCHANGED <<options, window, solution>>

SolveFalse ==
    /\ phase = "solve"
    /\ ~spent
    /\ SetBudgets
    /\ Refuted(tsp_cost_budget', subgraph_cost_budget')
    /\ AddTime
    /\ phase' = OnFalse
    /\ UNCHANGED <<options, window, solution, model>>

\* l_Undef: a conflict, propagation or time limit stopped solveLimited.
SolveUndef ==
    /\ phase = "solve"
    /\ ~spent
    /\ StepLimits \/ TimeLimit
    /\ SetBudgets
    /\ AddTime
    /\ phase' = OnFalse
    /\ UNCHANGED <<options, window, solution, model>>

\* verify_soln(): some vertex is true, each is in the tour, the costs agree.
Verified(a, tour) == Count[a] # 0 /\ tour = a /\ ClosedDiff[a] = 0

\* A slip for TakeSolution: the next solution need not be cheaper.
TakeSolutionAgain ==
    /\ phase' = IF ~NDebug /\ ~Verified(model, soln') THEN "aborted"
                ELSE IF OneShot THEN "done" ELSE "next"
    /\ test_max' = IF OneShot THEN test_max ELSE soln_cost'
    /\ UNCHANGED <<options, test_min, test_cost, bin_div, budgets, model, spent>>

\* The rest of the round after get_solution: assert, then test_max.
TakeSolution ==
    /\ phase' = IF ~NDebug /\ ~Verified(model, soln') THEN "aborted"
                ELSE IF OneShot THEN "done" ELSE "next"
    /\ test_max' = IF OneShot THEN test_max ELSE soln_cost' - 1
    /\ UNCHANGED <<options, test_min, test_cost, bin_div, budgets, model, spent>>

\* get_solution() solves the tours again, and this time LKH finds them.
GetSolution ==
    /\ phase = "accept"
    /\ Within(model, tsp_cost_budget, subgraph_cost_budget)
    /\ soln' = IF Count[model] = 0 THEN NoTour ELSE model
    /\ soln_cost' \in
         ReportedCosts(model, tsp_cost_budget, subgraph_cost_budget)
    /\ TakeSolution

\* graph->solve fails inside get_solution, which does not look at its result:
\* the tour has been cleared and the cost is 0.
GetSolutionFails ==
    /\ phase = "accept"
    /\ Within(model, tsp_cost_budget, subgraph_cost_budget) => ~Certain(model)
    /\ soln' = NoTour
    /\ soln_cost' = 0
    /\ TakeSolution

\* Slips for Reject: one cost too many is skipped, and none is skipped.
RejectSkipping ==
    /\ phase = "reject"
    /\ test_min' = test_cost + 2
    /\ phase' = "next"
    /\ UNCHANGED <<options, test_cost, test_max, bin_div, solution, budgets,
                   model, spent>>
RejectStaying ==
    /\ phase = "reject"
    /\ test_min' = test_cost
    /\ phase' = "next"
    /\ UNCHANGED <<options, test_cost, test_max, bin_div, solution, budgets,
                   model, spent>>
\* No solution within the budget: look above it.
Reject ==
    /\ phase = "reject"
    /\ bin_div' = IF search_method = "adaptive"
                  THEN Lower(bin_div + 1, bdiv_parameter) ELSE bin_div
    /\ test_min' = test_cost + 1
    /\ phase' = "next"
    /\ UNCHANGED <<options, test_cost, test_max, solution, budgets, model, spent>>

\* Slips for NextRound: the last cost is not tried, and the search stops at
\* its first solution.
NextRoundShort ==
    /\ phase = "next"
    /\ test_cost' = NextTestCost(test_min, test_max, bin_div)
    /\ phase' = IF test_min >= test_max THEN "done" ELSE "solve"
    /\ UNCHANGED <<options, test_min, test_max, bin_div, solution, budgets,
                   model, spent>>
NextRoundFirst ==
    /\ phase = "next"
    /\ test_cost' = NextTestCost(test_min, test_max, bin_div)
    /\ phase' = IF test_min > test_max \/ soln # NoTour THEN "done" ELSE "solve"
    /\ UNCHANGED <<options, test_min, test_max, bin_div, solution, budgets,
                   model, spent>>

NextRound ==
    /\ phase = "next"
    /\ test_cost' = NextTestCost(test_min, test_max, bin_div)
    /\ phase' = IF test_min > test_max THEN "done" ELSE "solve"
    /\ UNCHANGED <<options, test_min, test_max, bin_div, solution, budgets,
                   model, spent>>

\* main has returned, or an assertion has stopped it.
Stopped ==
    /\ phase \in {"done", "aborted"}
    /\ UNCHANGED vars

Next ==
    \/ SolveExpired
    \/ \E a \in Models : SolveTrue(a)
    \/ SolveFalse
    \/ SolveUndef
    \/ GetSolution
    \/ GetSolutionFails
    \/ Reject
    \/ NextRound
    \/ Stopped

\* One thread runs the search, and solveLimited always returns.
Spec == Init /\ [][Next]_vars /\ WF_vars(Next)
-----------------------------------------------------------------------------
(* Properties.                                                             *)

\* Every variable stays within its C type and meaning.
TypeOK ==
    /\ phase \in {"solve", "accept", "reject", "next", "done", "aborted"}
    /\ search_method \in Methods
    /\ bdiv_parameter \in BDivs
    /\ test_min \in Int
    /\ test_cost \in Int
    /\ test_max \in Int
    /\ bin_div \in Nat \ {0}
    /\ soln \in Models \union {NoTour}
    /\ soln_cost \in Nat
    /\ tsp_cost_budget \in Int
    /\ subgraph_cost_budget \in Int
    /\ model \in Models \union {NoTour}
    /\ phase = "accept" => model \in Models
    /\ spent \in BOOLEAN

(***************************************************************************)
(* The conditions under which the search is an exact algorithm: LKH never  *)
(* misses a tour, nothing cuts a call of solve() short, the theory checks  *)
(* every vertex set, and verify_soln sums what TSP::solve sums.            *)
(***************************************************************************)
Exact ==
    /\ LkhExact /\ ~StepLimits /\ ~TimeLimit /\ ~OneShot
    /\ CbInterval = 1
    /\ \A a \in Models : Count[a] > 0 /\ ClosedDiff[a] = 0

\* The assignments that respect the budget the search does not vary, and the
\* largest objective the search considers.
Eligible ==
    {a \in Models : IF MinMax THEN Total[a] <= Lower(Inf, GraphTsp)
                              ELSE Bottleneck[a] <= Lower(Inf, GraphSub)}
Ceiling == Lower(Inf, IF MinMax THEN GraphSub ELSE GraphTsp)

(***************************************************************************)
(* test_cost never leaves [test_min, test_max] while it is being tried, so *)
(* every round removes at least one cost from the window (the TODO on      *)
(* solve_optimal asks for the logic of the search to be confirmed).        *)
(***************************************************************************)
SearchWindow ==
    ~OneShot =>
        /\ 0 <= test_min
        /\ phase \in {"solve", "accept", "reject"} =>
             test_min <= test_cost /\ test_cost <= test_max

(***************************************************************************)
(* Raising test_min never discards a solution: no eligible assignment has  *)
(* a tour cheaper than test_min.  It has to hold across the integer        *)
(* division, the clipping of the budgets and rounds that found solutions.  *)
(***************************************************************************)
NothingSkipped ==
    \A a \in Eligible : Objective(a) <= Ceiling => test_min <= Objective(a)

\* When the exact search ends its solution is an optimum, and if it ends
\* without one there is no solution.
Optimal ==
    phase = "done" =>
        \A a \in Eligible : Objective(a) <= Ceiling =>
            soln # NoTour /\ soln_cost <= Objective(a)

\* What the search holds at the end is a real solution: its assignment
\* satisfies the formula and has tours of that cost within every budget.
SolutionReal ==
    ~OneShot /\ soln # NoTour =>
        /\ soln \in Eligible
        /\ Objective(soln) <= soln_cost /\ soln_cost <= Ceiling

\* The assertions on verify_soln() in solve_optimal and in main never fail.
VerifyHolds == phase # "aborted"

\* A solution is replaced only by a cheaper one and never lost: the final
\* answer is the best the run has seen.
IncumbentImproves ==
    [][soln # NoTour => soln' # NoTour /\ (UNCHANGED solution
                                           \/ soln_cost' < soln_cost)]_vars

\* Whatever solve() answers, and for whatever reason, each round makes the
\* window smaller: the argument for the termination of the search.
RoundsShrink ==
    [][~OneShot /\ phase # phase' /\ phase' = "next" =>
         test_max' - test_min' < test_max - test_min]_vars

\* The search ends, also when every call of solve() is cut short.
Terminates == <>(phase \in {"done", "aborted"})

\* Under --max_tsp_cost N main answers the question it was asked: no answer
\* means that no assignment has tours of cost at most N.
BoundAnswered ==
    phase = "done" /\ OneShot /\ soln = NoTour =>
        \A a \in Models :
            Total[a] <= Lower(MaxTspArg, GraphTsp) /\ Bottleneck[a] <= GraphSub
                => ~Certain(a)

(***************************************************************************)
(* The parts of the inductive invariant.  BudgetInv: how solve() leaves    *)
(* the budgets, of which it varies one and clips the other once.           *)
(***************************************************************************)
FixedBudget == IF MinMax THEN tsp_cost_budget ELSE subgraph_cost_budget
VariedBudget == IF MinMax THEN subgraph_cost_budget ELSE tsp_cost_budget
FixedLimit == Lower(Inf, IF MinMax THEN GraphTsp ELSE GraphSub)
GraphLimit == IF MinMax THEN GraphSub ELSE GraphTsp

BudgetInv ==
    ~OneShot =>
        /\ test_max <= Inf
        /\ FixedBudget \in {Inf, FixedLimit}
        /\ phase = "accept" =>
             /\ FixedBudget = FixedLimit
             /\ VariedBudget = Lower(test_cost, GraphLimit)

\* What ties the window to the solution when the search is exact: everything
\* below test_min is refuted and test_max is just below the solution.
ExactInv ==
    /\ VerifyHolds
    /\ NothingSkipped
    /\ test_max = IF soln = NoTour THEN Inf ELSE soln_cost - 1
    /\ phase = "accept" =>
         Within(model, tsp_cost_budget, subgraph_cost_budget)
    /\ phase = "reject" =>
         \A a \in Eligible : Objective(a) <= Ceiling => test_cost < Objective(a)
    /\ phase = "done" => test_max < test_min

\* The search seen from outside.
Search == INSTANCE OptimalSearch WITH
    Candidates <- Eligible,
    Cost <- [a \in Eligible |-> Objective(a)],
    NoSolution <- -1,
    best <- IF soln = NoTour THEN -1 ELSE soln_cost,
    finished <- phase = "done"

\* The exact search implements OptimalSearch.
Refines == Search!Spec
=============================================================================
