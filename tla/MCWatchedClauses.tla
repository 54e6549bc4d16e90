--------------------------- MODULE MCWatchedClauses ---------------------------
(***************************************************************************)
(* Instances of WatchedClauses: formulas of two to four literals a clause  *)
(* over four variables, the first three standing for vertices.             *)
(***************************************************************************)
EXTENDS WatchedClauses

Vids == {1, 2, 3}
AnyFit == SUBSET Vids
NotAllFit == AnyFit \ {Vids}
PairsFit == {fit \in AnyFit : ~ {1, 3} \subseteq fit}

Setup(formula, fitting) ==
  [formula |-> formula, numVars |-> 4, vids |-> Vids, fitting |-> fitting,
   interval |-> 1, heuristic |-> FALSE, restartAfter |-> 1,
   maxClauses |-> 7]

\* The theory never objects: watches move, blockers get stale, learnt clauses
\* are attached.
Plain == {Setup(f, AnyFit) : f \in {
  <<<<1, 2, -3>>, <<-1, 3, 4>>, <<-2, 3, -4>>>>,
  <<<<-1, 2, 3, 4>>, <<1, -2, -4>>, <<-3, 4>>>>}}

\* It objects to two vertices, or to all three of them.
Refusing ==
  {Setup(<<<<1, 2, 4>>, <<-2, 3>>, <<1, 3, -4>>>>, PairsFit),
   Setup(<<<<1, 4>>, <<2, -4>>, <<3, -4>>>>, NotAllFit)}

\* It objects while the list of vertex 2 is visited, whose first watcher has
\* moved away and whose last is still to be read.
Middle == {Setup(<<<<-2, -3, 4>>, <<-2, 3>>, <<1, -2, -4>>>>, NotAllFit)}

AllSetups == Plain \union Refusing \union Middle
=============================================================================
