--------------------------- MODULE OptimalSearch ---------------------------
(***************************************************************************)
(* What SATTSP::solve_optimal promises to its caller, with no search       *)
(* window, no budgets and no solver: the best solution found so far only   *)
(* ever improves, and when the search ends it is an optimum.               *)
(***************************************************************************)
EXTENDS Integers

CONSTANTS
    Candidates,  \* the assignments that count as solutions
    Cost,        \* the cost of the cheapest tour of each candidate, in Nat
    Ceiling,     \* costs above it are not looked for
    NoSolution   \* the value of best before a solution is found, not in Nat

VARIABLES
    best,      \* the cost of the best solution so far
    finished   \* the search has returned

vars == <<best, finished>>

Init ==
    /\ best = NoSolution
    /\ finished = FALSE

(***************************************************************************)
(* A cheaper solution replaces the best one.  Its tour need not be the     *)
(* cheapest tour of its assignment.                                        *)
(***************************************************************************)
Improve ==
    /\ ~finished
    /\ \E a \in Candidates :
         \E c \in Cost[a] .. (IF best = NoSolution THEN Ceiling ELSE best - 1) :
            best' = c
    /\ UNCHANGED finished

\* No candidate is cheaper than the best solution.
IsOptimum ==
    \A a \in Candidates :
        Cost[a] <= Ceiling => best # NoSolution /\ best <= Cost[a]

Finish ==
    /\ ~finished
    /\ IsOptimum
    /\ finished' = TRUE
    /\ UNCHANGED best

Next == Improve \/ Finish

Spec == Init /\ [][Next]_vars /\ WF_vars(Next)
=============================================================================
