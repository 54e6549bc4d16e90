----------------------------- MODULE MCCbMinisat -----------------------------
(***************************************************************************)
(* Instances of CbMinisat: formulas over four or five variables, the first *)
(* ones standing for vertices, and families of vertex sets that fit.       *)
(***************************************************************************)
EXTENDS CbMinisat

ThreeVids == {1, 2, 3}
FourVids == {1, 2, 3, 4}

\* No tour within the budgets visits 1 and 3, nor all of 1, 2 and 4.
PairsFit == {fit \in SUBSET ThreeVids : ~ {1, 3} \subseteq fit}
TriplesFit == {fit \in SUBSET FourVids :
                 ~ {1, 3} \subseteq fit /\ ~ {1, 2, 4} \subseteq fit}

Setup(formula, numVars, vids, fitting) ==
  [formula |-> formula, numVars |-> numVars, vids |-> vids, fitting |-> fitting,
   interval |-> 1, heuristic |-> FALSE,
   restartAfter |-> 2, maxLearnts |-> 9, limited |-> FALSE]

\* Short formulas: two clauses out of a pool that has units, contradictions
\* and a tautology, in either order, and a third.
Pool == {{1}, {-1, 2}, {1, 2, 3}, {-2, 3}, {-4, -2}, {4, -3}, {-3, 3}, {-3}}
Short ==
  {[Setup(<<c, d, e>>, 4, ThreeVids, PairsFit) EXCEPT !.limited = TRUE] :
     c \in Pool, d \in Pool, e \in {{1, 2, 3}, {2, 3, 4}, {4, -3}}}

\* Longer formulas: choices between vertices that need several decisions;
\* the last one is refuted with the clauses of the theory only.
CoverFormulas == {
  <<{1, 2}, {3, 4}, {1, 2, 4}, {-2, 3, -4}>>,
  <<{1, 2, 3}, {1, 2, 4}, {1, 3, 4}, {2, 3, 4}>>,
  <<{1, -2, 3}, {2, -3, 4}, {-1, 3, 4}, {1, 2, -4}>>,
  <<{1, 2}, {3, 4}, {2, 3, -4}, {3, -2, 1}, {-3, 4}>>}
Covers == {Setup(f, 4, FourVids, TriplesFit) : f \in CoverFormulas}

\* LKH may miss the tours of all four vertices; TSP::solve is asked at every
\* second vertex only; learnt clauses are forgotten early.
Heuristics == {[Setup(f, 4, FourVids, SUBSET FourVids)
                 EXCEPT !.heuristic = TRUE, !.limited = TRUE] : f \in CoverFormulas}
Intervals == {[s EXCEPT !.interval = 2] : s \in Covers}
Forgets == {[Setup(<<{1, 2}, {3, 4}, {1, 2, 4}, {-2, 3, -4}>>, 4, FourVids, TriplesFit)
              EXCEPT !.maxLearnts = 1]}

\* Implications that are learnt about.
Chains == {[Setup(<<{-1, 2}, {-1, -2, 3}, {-2, -3, 5, -4}, {-5, -3, -4}, {4, 1}>>,
                  5, ThreeVids, PairsFit) EXCEPT !.restartAfter = 3]}

\* Formulas refuted by parsing, by the replay, and by learning two units.
Refuted == {Setup(f, 4, FourVids, TriplesFit) :
              f \in {<<{-1, 2}, {-1, -2}, {1, 4}, {1}>>, <<{4, 2}, {1}, {3}>>,
                     <<{1, 2}, {1, -2}, {3, 4}, {3, -4}>>}}

AllSetups == Refuted \union Short \union Covers \union Heuristics \union Intervals
               \union Forgets \union Chains
=============================================================================
