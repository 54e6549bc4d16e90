--------------------------- MODULE MCSolveOptimal ---------------------------
(***************************************************************************)
(* Instances of SolveOptimal for TLC.  Four satisfying assignments: one of *)
(* two vertices, whose tour LKH knows exactly, and larger ones; costs up   *)
(* to Inf = 30 stand for costs up to 999999.                               *)
(***************************************************************************)
EXTENDS SolveOptimal

CONSTANTS a1, a2, a3, a4

Instance == {a1, a2, a3, a4}

Of(x1, x2, x3, x4) ==
    [a \in Instance |->
        CASE a = a1 -> x1 [] a = a2 -> x2 [] a = a3 -> x3 [] a = a4 -> x4]

CountA == Of(2, 4, 5, 7)
TotalA == Of(8, 6, 5, 3)
BottleneckA == Of(6, 3, 5, 2)
Zero == Of(0, 0, 0, 0)

AllMethods == {"linear", "binary", "adaptive"}
MinusOne == -1
=============================================================================
