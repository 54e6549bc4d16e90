------------------------- MODULE SolveOptimalProofs -------------------------
(***************************************************************************)
(* Proofs about SolveOptimal, for every set of assignments, every cost,    *)
(* every divider and every limit.                                          *)
(***************************************************************************)
EXTENDS SolveOptimal, TLAPS

-----------------------------------------------------------------------------
(* The integer division of the search.                                     *)

(***************************************************************************)
(* The division of the window truncates to a number between 0 and the      *)
(* width of the window: what keeps test_cost inside it.                    *)
(***************************************************************************)
LEMMA TruncDivBounds ==
    ASSUME NEW a \in Nat, NEW b \in Nat \ {0}
    PROVE  TruncDiv(a, b) \in 0 .. a
<1>1. a \div b \in Nat /\ a \div b <= a
  BY SMT
<1>2. QED
  BY <1>1 DEF TruncDiv

\* The division gives an integer for a negative width too.
LEMMA TruncDivInt ==
    ASSUME NEW a \in Int, NEW b \in Nat \ {0}
    PROVE  TruncDiv(a, b) \in Int
<1>1. CASE a >= 0
  BY <1>1, TruncDivBounds
<1>2. CASE a < 0
  <2>1. -a \in Nat
    BY <1>2
  <2>2. (-a) \div b \in Nat
    BY <2>1, SMT
  <2>3. QED
    BY <1>2, <2>2 DEF TruncDiv
<1>3. QED
  BY <1>1, <1>2

\* The next budget to try lies in the window, when the window is not empty.
LEMMA NextTestCostInWindow ==
    ASSUME NEW lo \in Int, NEW hi \in Int, NEW div \in Nat \ {0}, lo <= hi
    PROVE  NextTestCost(lo, hi, div) \in lo .. hi
<1>1. hi - lo \in Nat
  OBVIOUS
<1>2. TruncDiv(hi - lo, div) \in 0 .. (hi - lo)
  BY <1>1, TruncDivBounds
<1>3. QED
  BY <1>2 DEF NextTestCost

\* Moving the upper end of a window below a cost in it makes it smaller.
LEMMA WindowBelow ==
    \A c \in Nat, t, hi, lo \in Int :
        c <= t /\ t <= hi => (c - 1) - lo < hi - lo
  OBVIOUS

-----------------------------------------------------------------------------
(* Type correctness.                                                       *)

\* The smaller of two integers is an integer.
LEMMA LowerInt ==
    ASSUME NEW a \in Int, NEW b \in Int
    PROVE  Lower(a, b) \in {a, b} /\ Lower(a, b) <= a /\ Lower(a, b) <= b
  BY DEF Lower

\* The budgets solve() stores are integers.
LEMMA SetBudgetsType ==
    ASSUME TypeOK, SetBudgets
    PROVE  tsp_cost_budget' \in Int /\ subgraph_cost_budget' \in Int
<1>1. ArgTsp \in Int /\ ArgSub \in Int
  BY OptionAssumption DEF ArgTsp, ArgSub, TypeOK
<1>2. QED
  BY <1>1, LowerInt, OptionAssumption DEF SetBudgets

\* Objective is a natural number.
LEMMA ObjectiveType ==
    ASSUME NEW a \in Models
    PROVE  Objective(a) \in Nat
  BY InstanceAssumption DEF Objective

(***************************************************************************)
(* A cost get_solution may report is between the cheapest tours of the     *)
(* assignment and the budget that bounds it.                               *)
(***************************************************************************)
LEMMA ReportedBounds ==
    ASSUME NEW a \in Models, NEW t \in Int, NEW m \in Int, Within(a, t, m),
           NEW c \in ReportedCosts(a, t, m)
    PROVE  /\ c \in Nat
           /\ Objective(a) <= c
           /\ c <= (IF MinMax THEN m ELSE t)
<1>1. Objective(a) \in Nat /\ Objective(a) <= (IF MinMax THEN m ELSE t)
  BY InstanceAssumption DEF Objective, Within
<1>2. QED
  BY <1>1 DEF ReportedCosts

\* TypeOK is preserved by every step.
LEMMA TypeStep ==
    ASSUME TypeOK, [Next]_vars
    PROVE  TypeOK'
<1> USE DEF TypeOK
<1>1. CASE SolveExpired
  BY <1>1 DEF SolveExpired, options, window, solution, budgets, OnFalse
<1>2. ASSUME NEW a \in Models, SolveTrue(a)
      PROVE  TypeOK'
  BY <1>2, SetBudgetsType
     DEF SolveTrue, options, window, solution, AddTime
<1>3. CASE SolveFalse
  BY <1>3, SetBudgetsType
     DEF SolveFalse, options, window, solution, AddTime, OnFalse
<1>4. CASE SolveUndef
  BY <1>4, SetBudgetsType
     DEF SolveUndef, options, window, solution, AddTime, OnFalse
<1>5. CASE GetSolution
  <2>1. soln_cost' \in Nat
    BY <1>5, ReportedBounds DEF GetSolution
  <2>2. QED
    BY <1>5, <2>1 DEF GetSolution, TakeSolution, options, budgets
<1>6. CASE GetSolutionFails
  BY <1>6 DEF GetSolutionFails, TakeSolution, options, budgets
<1>7. CASE Reject
  <2>1. bin_div' \in Nat \ {0}
    BY <1>7, OptionAssumption DEF Reject, options, Lower
  <2>2. QED
    BY <1>7, <2>1 DEF Reject, options, solution, budgets
<1>8. CASE NextRound
  <2>1. NextTestCost(test_min, test_max, bin_div) \in Int
    BY TruncDivInt DEF NextTestCost
  <2>2. QED
    BY <1>8, <2>1 DEF NextRound, options, solution, budgets
<1>9. CASE UNCHANGED vars
  BY <1>9 DEF vars
<1>10. QED
  BY <1>1, <1>2, <1>3, <1>4, <1>5, <1>6, <1>7, <1>8, <1>9 DEF Next, Stopped

(***************************************************************************)
(* Every variable keeps its type, whatever the solver, LKH and the limits  *)
(* do.                                                                     *)
(***************************************************************************)
THEOREM TypeCorrect == Spec => []TypeOK
<1>1. Init => TypeOK
  <2> SUFFICES ASSUME Init PROVE TypeOK
    OBVIOUS
  <2>1. bin_div \in Nat \ {0}
    BY OptionAssumption DEF Init
  <2>2. test_cost \in Int
    BY <2>1, TruncDivBounds, OptionAssumption DEF Init
  <2>3. spent \in BOOLEAN
    BY Zenon DEF Init
  <2>4. Inf \in Nat
    BY OptionAssumption
  <2>5. QED
    BY <2>1, <2>2, <2>3, <2>4 DEF Init, TypeOK
<1>2. TypeOK /\ [Next]_vars => TypeOK'
  BY TypeStep
<1>3. QED
  BY <1>1, <1>2, PTL DEF Spec

-----------------------------------------------------------------------------
(* The search window.                                                      *)

\* SearchWindow is preserved by every step.
LEMMA WindowStep ==
    ASSUME TypeOK, SearchWindow, [Next]_vars
    PROVE  SearchWindow'
<1> SUFFICES ASSUME ~OneShot PROVE SearchWindow'
  BY DEF SearchWindow
<1> USE DEF TypeOK, SearchWindow
<1>1. CASE SolveExpired
  BY <1>1 DEF SolveExpired, window, OnFalse
<1>2. ASSUME NEW a \in Models, SolveTrue(a)
      PROVE  SearchWindow'
  BY <1>2 DEF SolveTrue, window
<1>3. CASE SolveFalse
  BY <1>3 DEF SolveFalse, window, OnFalse
<1>4. CASE SolveUndef
  BY <1>4 DEF SolveUndef, window, OnFalse
<1>5. CASE GetSolution
  BY <1>5 DEF GetSolution, TakeSolution
<1>6. CASE GetSolutionFails
  BY <1>6 DEF GetSolutionFails, TakeSolution
<1>7. CASE Reject
  BY <1>7 DEF Reject
<1>8. CASE NextRound
  <2>1. CASE test_min <= test_max
    <3>1. NextTestCost(test_min, test_max, bin_div) \in test_min .. test_max
      BY <2>1, NextTestCostInWindow
    <3>2. QED
      BY <1>8, <3>1 DEF NextRound
  <2>2. CASE test_max < test_min
    BY <1>8, <2>2 DEF NextRound
  <2>3. QED
    BY <2>1, <2>2
<1>9. CASE UNCHANGED vars
  BY <1>9 DEF vars
<1>10. QED
  BY <1>1, <1>2, <1>3, <1>4, <1>5, <1>6, <1>7, <1>8, <1>9 DEF Next, Stopped

(***************************************************************************)
(* The budget being tried lies in the window, for every search method and  *)
(* every divider, also when LKH or a limit makes solve() fail.             *)
(***************************************************************************)
THEOREM WindowCorrect == Spec => []SearchWindow
<1>1. Init => SearchWindow
  <2> SUFFICES ASSUME Init PROVE SearchWindow
    OBVIOUS
  <2>1. bin_div \in Nat \ {0}
    BY OptionAssumption DEF Init
  <2>2. TruncDiv(Inf, bin_div) \in 0 .. Inf
    BY <2>1, TruncDivBounds, OptionAssumption
  <2>3. QED
    BY <2>2, OptionAssumption DEF Init, SearchWindow
<1>2. TypeOK /\ SearchWindow /\ [Next]_vars => SearchWindow'
  BY WindowStep
<1>3. QED
  BY <1>1, <1>2, TypeCorrect, PTL DEF Spec

-----------------------------------------------------------------------------
(* The budgets, and what get_solution may bring.                           *)

\* Outside one-shot use solve() leaves the fixed budget at its limit and sets
\* the varied one to test_cost, clipped by the graph's.
LEMMA SetBudgetsEffect ==
    ASSUME ~OneShot, TypeOK, BudgetInv, SetBudgets
    PROVE  /\ FixedBudget' = FixedLimit
           /\ VariedBudget' = Lower(test_cost, GraphLimit)
<1>1. CASE MinMax
  BY <1>1, OptionAssumption
     DEF SetBudgets, ArgTsp, ArgSub, BudgetInv, FixedBudget, VariedBudget,
         FixedLimit, GraphLimit, Lower, TypeOK
<1>2. CASE ~MinMax
  BY <1>2, OptionAssumption
     DEF SetBudgets, ArgTsp, ArgSub, BudgetInv, FixedBudget, VariedBudget,
         FixedLimit, GraphLimit, Lower, TypeOK
<1>3. QED
  BY <1>1, <1>2

(***************************************************************************)
(* The cost get_solution stores is that of real tours of the model and is  *)
(* within the budget that was tried.                                       *)
(***************************************************************************)
LEMMA GetSolutionCost ==
    ASSUME ~OneShot, TypeOK, BudgetInv, GetSolution
    PROVE  /\ model \in Eligible
           /\ soln_cost' \in Nat
           /\ Objective(model) <= soln_cost'
           /\ soln_cost' <= test_cost
           /\ soln_cost' <= GraphLimit
<1>1. /\ model \in Models
      /\ Within(model, tsp_cost_budget, subgraph_cost_budget)
      /\ tsp_cost_budget \in Int /\ subgraph_cost_budget \in Int
      /\ test_cost \in Int /\ GraphLimit \in Int
  BY OptionAssumption DEF GetSolution, TypeOK, GraphLimit
<1>2. /\ soln_cost' \in Nat
      /\ Objective(model) <= soln_cost'
      /\ soln_cost' <= VariedBudget
  BY <1>1, ReportedBounds DEF GetSolution, VariedBudget
<1>3. /\ FixedBudget = FixedLimit
      /\ VariedBudget = Lower(test_cost, GraphLimit)
  BY DEF BudgetInv, GetSolution
<1>4. model \in Eligible
  BY <1>1, <1>3 DEF Eligible, Within, FixedBudget, FixedLimit
<1>5. QED
  BY <1>1, <1>2, <1>3, <1>4, LowerInt

\* BudgetInv is preserved by every step.
LEMMA BudgetStep ==
    ASSUME TypeOK, SearchWindow, BudgetInv, [Next]_vars
    PROVE  BudgetInv'
<1> SUFFICES ASSUME ~OneShot PROVE BudgetInv'
  BY DEF BudgetInv
<1>0. ASSUME UNCHANGED <<test_max, tsp_cost_budget, subgraph_cost_budget>>,
             phase' # "accept"
      PROVE  BudgetInv'
  BY <1>0 DEF BudgetInv, FixedBudget
<1>1. CASE SolveExpired
  BY <1>0, <1>1 DEF SolveExpired, window, budgets, OnFalse
<1>2. ASSUME NEW a \in Models, SolveTrue(a)
      PROVE  BudgetInv'
  BY <1>2, SetBudgetsEffect DEF SolveTrue, window, BudgetInv
<1>3. CASE SolveFalse
  BY <1>3, SetBudgetsEffect DEF SolveFalse, window, BudgetInv, OnFalse
<1>4. CASE SolveUndef
  BY <1>4, SetBudgetsEffect DEF SolveUndef, window, BudgetInv, OnFalse
<1>5. CASE GetSolution
  <2>1. /\ soln_cost' \in Nat /\ soln_cost' <= test_cost
        /\ test_cost <= test_max /\ test_max <= Inf
    BY <1>5, GetSolutionCost DEF GetSolution, SearchWindow, BudgetInv
  <2>2. test_max' <= Inf
    BY <1>5, <2>1, OptionAssumption DEF GetSolution, TakeSolution, TypeOK
  <2>3. QED
    BY <1>5, <2>2
       DEF GetSolution, TakeSolution, budgets, BudgetInv, FixedBudget
<1>6. CASE GetSolutionFails
  BY <1>6, OptionAssumption
     DEF GetSolutionFails, TakeSolution, budgets, BudgetInv, FixedBudget
<1>7. CASE Reject
  BY <1>0, <1>7 DEF Reject, budgets
<1>8. CASE NextRound
  BY <1>0, <1>8 DEF NextRound, budgets
<1>9. CASE UNCHANGED vars
  BY <1>9 DEF vars, BudgetInv, FixedBudget, VariedBudget
<1>10. QED
  BY <1>1, <1>2, <1>3, <1>4, <1>5, <1>6, <1>7, <1>8, <1>9 DEF Next, Stopped

\* The budgets are what the search believes them to be.
THEOREM BudgetsCorrect == Spec => []BudgetInv
<1>1. Init => BudgetInv
  BY OptionAssumption DEF Init, BudgetInv, FixedBudget
<1>2. TypeOK /\ SearchWindow /\ BudgetInv /\ [Next]_vars => BudgetInv'
  BY BudgetStep
<1>3. QED
  BY <1>1, <1>2, TypeCorrect, WindowCorrect, PTL DEF Spec

(***************************************************************************)
(* Whatever LKH and the limits do, the solution the search holds satisfies *)
(* the formula, respects every budget and has tours of the reported cost.  *)
(***************************************************************************)
THEOREM SolutionsAreReal == Spec => []SolutionReal
<1>1. Init => SolutionReal
  BY DEF Init, SolutionReal
<1>2. ASSUME TypeOK, SearchWindow, BudgetInv, SolutionReal, [Next]_vars
      PROVE  SolutionReal'
  <2> SUFFICES ASSUME ~OneShot, soln' # NoTour
               PROVE  /\ soln' \in Eligible
                      /\ Objective(soln') <= soln_cost'
                      /\ soln_cost' <= Ceiling
    BY DEF SolutionReal, Objective, Eligible
  <2>1. CASE UNCHANGED solution
    BY <1>2, <2>1 DEF SolutionReal, solution
  <2>2. CASE GetSolution
    <3>1. soln' = model
      BY <2>2 DEF GetSolution
    <3>2. /\ soln_cost' \in Nat /\ soln_cost' <= test_cost
          /\ test_cost <= test_max /\ test_max <= Inf
          /\ soln_cost' <= GraphLimit
      BY <1>2, <2>2, GetSolutionCost DEF GetSolution, SearchWindow, BudgetInv
    <3>3. soln_cost' <= Ceiling
      BY <1>2, <3>2, OptionAssumption DEF Ceiling, GraphLimit, Lower, TypeOK
    <3>4. QED
      BY <1>2, <2>2, <3>1, <3>3, GetSolutionCost
  <2>3. CASE GetSolutionFails
    BY <2>3 DEF GetSolutionFails
  <2>4. QED
    BY <1>2, <2>1, <2>2, <2>3
       DEF Next, SolveExpired, SolveTrue, SolveFalse, SolveUndef, Reject,
           NextRound, Stopped, vars, solution
<1>3. QED
  BY <1>1, <1>2, TypeCorrect, WindowCorrect, BudgetsCorrect, PTL DEF Spec

(***************************************************************************)
(* Every round removes at least one cost from the window, so there are at  *)
(* most 1000000 rounds.  In one-shot use there is no second round.         *)
(***************************************************************************)
THEOREM EveryRoundShrinks == Spec => RoundsShrink
<1>1. ASSUME TypeOK, SearchWindow, BudgetInv, [Next]_vars,
             ~OneShot, phase # phase', phase' = "next"
      PROVE  test_max' - test_min' < test_max - test_min
  <2>1. CASE GetSolution
    <3>1. /\ soln_cost' \in Nat /\ soln_cost' <= test_cost
          /\ test_cost <= test_max
      BY <1>1, <2>1, GetSolutionCost DEF GetSolution, SearchWindow
    <3>2. test_max' = soln_cost' - 1 /\ test_min' = test_min
      BY <1>1, <2>1 DEF GetSolution, TakeSolution
    <3>3. test_max \in Int /\ test_min \in Int /\ test_cost \in Int
      BY <1>1 DEF TypeOK
    <3>4. QED
      BY <3>1, <3>2, <3>3, WindowBelow
  <2>2. CASE GetSolutionFails
    BY <1>1, <2>2 DEF GetSolutionFails, TakeSolution, TypeOK, SearchWindow
  <2>3. CASE Reject
    BY <1>1, <2>3 DEF Reject, TypeOK, SearchWindow
  <2>4. QED
    BY <1>1, <2>1, <2>2, <2>3
       DEF Next, SolveExpired, SolveTrue, SolveFalse, SolveUndef, OnFalse,
           NextRound, Stopped, vars
<1>2. TypeOK /\ SearchWindow /\ BudgetInv /\ [Next]_vars
        => [~OneShot /\ phase # phase' /\ phase' = "next" =>
              test_max' - test_min' < test_max - test_min]_vars
  BY <1>1
<1>3. QED
  BY <1>2, TypeCorrect, WindowCorrect, BudgetsCorrect, PTL
     DEF Spec, RoundsShrink

-----------------------------------------------------------------------------
(* The exact search.                                                       *)

\* With cb_interval = 1 the theory checks every vertex set.
LEMMA AllChecked ==
    ASSUME Exact, NEW a \in Models, NEW t \in Int, NEW m \in Int,
           Accepted(a, t, m)
    PROVE  Within(a, t, m)
<1>1. Count[a] % 1 = 0
  BY InstanceAssumption, SMT
<1>2. QED
  BY <1>1 DEF Exact, Accepted

(***************************************************************************)
(* A false answer of solve() refutes every eligible assignment whose       *)
(* objective is at most test_cost: the clipping of the budgets and the     *)
(* budget that does not vary hide none.                                    *)
(***************************************************************************)
LEMMA FalseRefutes ==
    ASSUME Exact, TypeOK, BudgetInv, SetBudgets,
           Refuted(tsp_cost_budget', subgraph_cost_budget'),
           NEW a \in Eligible, Objective(a) <= Ceiling
    PROVE  test_cost < Objective(a)
<1>1. /\ a \in Models /\ Total[a] \in Nat /\ Bottleneck[a] \in Nat
      /\ Inf \in Nat /\ GraphTsp \in Nat /\ GraphSub \in Nat
  BY InstanceAssumption, OptionAssumption DEF Eligible
<1>2. ~Within(a, tsp_cost_budget', subgraph_cost_budget')
  BY <1>1 DEF Exact, Refuted, Certain
<1>3. /\ FixedBudget' = FixedLimit
      /\ VariedBudget' = Lower(test_cost, GraphLimit)
  BY SetBudgetsEffect DEF Exact
<1>4. CASE MinMax
  BY <1>1, <1>2, <1>3, <1>4
     DEF Within, FixedBudget, VariedBudget, FixedLimit, GraphLimit, Lower,
         Eligible, Objective, Ceiling, TypeOK
<1>5. CASE ~MinMax
  BY <1>1, <1>2, <1>3, <1>5
     DEF Within, FixedBudget, VariedBudget, FixedLimit, GraphLimit, Lower,
         Eligible, Objective, Ceiling, TypeOK
<1>6. QED
  BY <1>4, <1>5

\* ExactInv is preserved by every step of an exact search.
LEMMA ExactStep ==
    ASSUME Exact, TypeOK, SearchWindow, BudgetInv, ExactInv, spent = FALSE,
           [Next]_vars
    PROVE  ExactInv' /\ spent' = FALSE
<1> DEFINE Unskipped(c) ==
      \A a \in Eligible : Objective(a) <= Ceiling => c <= Objective(a)
<1>0. Unskipped(test_min)
  BY DEF ExactInv, NothingSkipped
<1> USE DEF ExactInv, VerifyHolds, NothingSkipped
<1>1. CASE SolveExpired
  BY <1>1 DEF SolveExpired
<1>2. ASSUME NEW a \in Models, SolveTrue(a)
      PROVE  ExactInv' /\ spent' = FALSE
  <2>1. tsp_cost_budget' \in Int /\ subgraph_cost_budget' \in Int
    BY <1>2, SetBudgetsType DEF SolveTrue
  <2>2. Within(a, tsp_cost_budget', subgraph_cost_budget')
    BY <1>2, <2>1, AllChecked DEF SolveTrue
  <2>3. Within(model, tsp_cost_budget, subgraph_cost_budget)'
    BY <1>2, <2>2 DEF SolveTrue, Within
  <2>4. spent' = FALSE
    BY <1>2 DEF SolveTrue, AddTime, Exact
  <2>5. QED
    BY <1>2, <2>3, <2>4
       DEF SolveTrue, window, solution, Objective, Eligible, Ceiling
<1>3. CASE SolveFalse
  <2>1. \A a \in Eligible : Objective(a) <= Ceiling => test_cost < Objective(a)
    BY <1>3, FalseRefutes DEF SolveFalse
  <2>2. spent' = FALSE
    BY <1>3 DEF SolveFalse, AddTime, Exact
  <2>3. QED
    BY <1>3, <2>1, <2>2
       DEF SolveFalse, OnFalse, Exact, window, solution, Objective, Eligible,
           Ceiling
<1>4. CASE SolveUndef
  BY <1>4 DEF SolveUndef, Exact
<1>5. CASE GetSolution
  <2>1. Verified(model, soln') /\ soln' # NoTour
    BY <1>5, InstanceAssumption DEF GetSolution, Verified, Exact, TypeOK
  <2>2. phase' = "next" /\ test_max' = soln_cost' - 1
    BY <1>5, <2>1 DEF GetSolution, TakeSolution, Exact
  <2>3. QED
    BY <1>5, <2>1, <2>2
       DEF GetSolution, TakeSolution, Objective, Eligible, Ceiling
<1>6. CASE GetSolutionFails
  BY <1>6 DEF GetSolutionFails, Exact, Certain
<1>7. CASE Reject
  <2>1. \A a \in Eligible : Objective(a) \in Int
    BY ObjectiveType DEF Eligible
  <2>2. Unskipped(test_cost + 1)
    BY <1>7, <2>1 DEF Reject, TypeOK
  <2>3. QED
    BY <1>7, <2>2 DEF Reject, solution, Objective, Eligible, Ceiling
<1>8. CASE NextRound
  <2>1. phase' \in {"done", "solve"} /\ (phase' = "done" => test_max < test_min)
    BY <1>8 DEF NextRound, TypeOK
  <2>2. QED
    BY <1>8, <2>1 DEF NextRound, solution, Objective, Eligible, Ceiling
<1>9. CASE UNCHANGED vars
  BY <1>9 DEF vars, Objective, Eligible, Ceiling, Within
<1>10. QED
  BY <1>1, <1>2, <1>3, <1>4, <1>5, <1>6, <1>7, <1>8, <1>9 DEF Next, Stopped

(***************************************************************************)
(* In an exact search raising test_min never discards a solution, test_max *)
(* stays just below the solution held, and verify_soln never fails.        *)
(***************************************************************************)
THEOREM ExactInvCorrect ==
    ASSUME Exact
    PROVE  Spec => [](ExactInv /\ spent = FALSE)
<1>1. Init => ExactInv /\ spent = FALSE
  <2> SUFFICES ASSUME Init PROVE ExactInv /\ spent = FALSE
    OBVIOUS
  <2>1. \A a \in Eligible : Objective(a) \in Nat
    BY ObjectiveType DEF Eligible
  <2>2. NothingSkipped
    BY <2>1 DEF Init, NothingSkipped
  <2>3. QED
    BY <2>2 DEF Init, ExactInv, VerifyHolds
<1>2. TypeOK /\ SearchWindow /\ BudgetInv /\ (ExactInv /\ spent = FALSE)
        /\ [Next]_vars => (ExactInv /\ spent = FALSE)'
  BY ExactStep
<1>3. QED
  BY <1>1, <1>2, TypeCorrect, WindowCorrect, BudgetsCorrect, PTL DEF Spec

\* The assertion on verify_soln() holds in an exact search.
THEOREM VerifyNeverFails ==
    ASSUME Exact
    PROVE  Spec => []VerifyHolds
<1>1. ExactInv => VerifyHolds
  BY DEF ExactInv
<1>2. QED
  BY <1>1, ExactInvCorrect, PTL

(***************************************************************************)
(* An exact search that has ended holds an optimum, and if it holds        *)
(* nothing there is nothing to hold.                                       *)
(***************************************************************************)
THEOREM SearchIsOptimal ==
    ASSUME Exact
    PROVE  Spec => []Optimal
<1>1. TypeOK /\ ExactInv => Optimal
  <2> SUFFICES ASSUME TypeOK, ExactInv, phase = "done",
                      NEW a \in Eligible, Objective(a) <= Ceiling
               PROVE  soln # NoTour /\ soln_cost <= Objective(a)
    BY DEF Optimal
  <2>1. test_min <= Objective(a) /\ test_max < test_min
    BY DEF ExactInv, NothingSkipped
  <2>2. Objective(a) \in Nat /\ Ceiling \in Int /\ Ceiling <= Inf
    BY ObjectiveType, OptionAssumption DEF Eligible, Ceiling, Lower
  <2>3. soln # NoTour
    BY <2>1, <2>2, OptionAssumption DEF ExactInv, TypeOK
  <2>4. QED
    BY <2>1, <2>2, <2>3 DEF ExactInv, TypeOK
<1>2. QED
  BY <1>1, TypeCorrect, ExactInvCorrect, PTL

\* A solution once found is only ever replaced by a cheaper one.
THEOREM SolutionsImprove ==
    ASSUME Exact
    PROVE  Spec => IncumbentImproves
<1>1. ASSUME TypeOK, SearchWindow, BudgetInv, ExactInv, [Next]_vars,
             soln # NoTour
      PROVE  soln' # NoTour /\ (UNCHANGED solution \/ soln_cost' < soln_cost)
  <2>1. CASE UNCHANGED solution
    BY <1>1, <2>1 DEF solution
  <2>2. CASE GetSolution
    <3>1. /\ soln_cost' \in Nat /\ soln_cost' <= test_cost
          /\ test_cost <= test_max
      BY <1>1, <2>2, GetSolutionCost DEF GetSolution, SearchWindow, Exact
    <3>2. soln_cost' < soln_cost
      BY <1>1, <3>1 DEF ExactInv, TypeOK
    <3>3. soln' # NoTour
      BY <1>1, <2>2, InstanceAssumption DEF GetSolution, TypeOK, Exact
    <3>4. QED
      BY <3>2, <3>3
  <2>3. CASE GetSolutionFails
    BY <1>1, <2>3 DEF GetSolutionFails, ExactInv, Exact, Certain
  <2>4. QED
    BY <1>1, <2>1, <2>2, <2>3
       DEF Next, SolveExpired, SolveTrue, SolveFalse, SolveUndef, Reject,
           NextRound, Stopped, vars, solution
<1>2. TypeOK /\ SearchWindow /\ BudgetInv /\ ExactInv /\ [Next]_vars
        => [soln # NoTour => soln' # NoTour /\ (UNCHANGED solution
                                    \/ soln_cost' < soln_cost)]_vars
  BY <1>1
<1>3. QED
  BY <1>2, TypeCorrect, WindowCorrect, BudgetsCorrect, ExactInvCorrect, PTL
     DEF Spec, IncumbentImproves

-----------------------------------------------------------------------------
(* The exact search implements OptimalSearch.                              *)

\* The safety part of OptimalSearch!Spec.
SearchSafety == Search!Init /\ [][Search!Next]_(Search!vars)

(***************************************************************************)
(* Every behaviour of an exact search is one of OptimalSearch: each        *)
(* get_solution improves the best solution and the break out of the loop   *)
(* happens at an optimum; every other step is invisible.                   *)
(***************************************************************************)
THEOREM SearchImplements ==
    ASSUME Exact
    PROVE  Spec => SearchSafety
<1> DEFINE Best == IF soln = NoTour THEN -1 ELSE soln_cost
<1>1. Init => Search!Init
  BY DEF Init, Search!Init
<1>2. ASSUME TypeOK, SearchWindow, BudgetInv, ExactInv, SolutionReal,
             Optimal', ExactInv', [Next]_vars
      PROVE  [Search!Next]_(Search!vars)
  <2>1. CASE UNCHANGED solution /\ (phase' = "done" <=> phase = "done")
    BY <2>1 DEF Search!vars, solution
  <2>2. CASE GetSolution
    <3>1. /\ model \in Eligible
          /\ soln_cost' \in Nat
          /\ Objective(model) <= soln_cost'
          /\ soln_cost' <= test_cost
          /\ soln_cost' <= GraphLimit
      BY <1>2, <2>2, GetSolutionCost DEF Exact
    <3>2. test_cost <= test_max /\ test_max <= Inf /\ phase = "accept"
      BY <1>2, <2>2 DEF GetSolution, SearchWindow, BudgetInv, Exact
    <3>3. soln' # NoTour /\ soln' = model
      BY <1>2, <2>2, InstanceAssumption DEF GetSolution, TypeOK, Exact
    <3>4. phase' # "done"
      BY <2>2 DEF GetSolution, TakeSolution, Exact
    <3>5. soln_cost' \in Objective(model) ..
            (IF Best = -1 THEN Ceiling ELSE Best - 1)
      <4>1. soln_cost' <= Ceiling
        BY <1>2, <3>1, <3>2, OptionAssumption
           DEF Ceiling, GraphLimit, Lower, TypeOK
      <4>2. Objective(model) \in Nat /\ Ceiling \in Int
        BY <3>1, ObjectiveType, OptionAssumption DEF Eligible, Ceiling, Lower
      <4>3. CASE soln = NoTour
        BY <3>1, <4>1, <4>2, <4>3
      <4>4. CASE soln # NoTour
        BY <1>2, <3>1, <3>2, <4>2, <4>4 DEF ExactInv, TypeOK
      <4>5. QED
        BY <4>3, <4>4
    <3>6. Search!Improve
      BY <3>1, <3>2, <3>3, <3>4, <3>5 DEF Search!Improve
    <3>7. QED
      BY <3>6 DEF Search!Next
  <2>3. CASE GetSolutionFails
    BY <1>2, <2>3 DEF GetSolutionFails, ExactInv, Exact, Certain
  <2>4. CASE NextRound /\ phase' = "done"
    <3>1. UNCHANGED solution /\ phase = "next"
      BY <2>4 DEF NextRound
    <3>2. Search!IsOptimum
      <4> SUFFICES ASSUME NEW a \in Eligible, Objective(a) <= Ceiling
                   PROVE  Best # -1 /\ Best <= Objective(a)
        BY DEF Search!IsOptimum
      <4>1. soln' # NoTour /\ soln_cost' <= Objective(a)
        BY <1>2, <2>4 DEF Optimal, Eligible, Objective, Ceiling
      <4>2. QED
        BY <1>2, <3>1, <4>1 DEF solution, TypeOK
    <3>3. Search!Finish
      BY <2>4, <3>1, <3>2 DEF Search!Finish, solution
    <3>4. QED
      BY <3>3 DEF Search!Next
  <2>5. QED
    BY <1>2, <2>1, <2>2, <2>3, <2>4
       DEF Next, SolveExpired, SolveTrue, SolveFalse, SolveUndef, OnFalse,
           Reject, NextRound, Stopped, vars, solution, Exact
<1>3. QED
  BY <1>1, <1>2, TypeCorrect, WindowCorrect, BudgetsCorrect, SolutionsAreReal,
     SearchIsOptimal, ExactInvCorrect, PTL DEF Spec, SearchSafety
=============================================================================
