# A TLA+ development of cbTSP

cbTSP looks for the cheapest solution of a *SAT-TSP* problem: a CNF formula
some of whose variables stand for vertices of a weighted graph, and a graph.
A solution is an assignment that satisfies the formula together with cheapest
tours through the vertices it makes true (one tour for each *subgraph* of the
graph).  The program joins a SAT solver, `cb_minisat` (MiniSat with callbacks),
and a tour solver, `cbLKH` (LKH 2 with a bound at which it may stop), under a
search over cost budgets.

This directory holds TLA+ modules that model the parts of the program, TLC
configurations that check them on small instances, and proofs for TLAPS.
`PROJECT.json` gives for every definition the lines of the source it stands
for, for every run its properties, for every property a slip in the code that
breaks it, and the hazards the properties are aimed at.

Checking a module: `tlc -workers 2 -config X.cfg M`, with the pairs of the table
under "The runs".  Proofs: `tlapm M.tla` for each M of `SolveOptimalProofs`, `InductionFacts`,
`TspSolveProofs`, `SolverTrailProofs`, `CbMinisatProofs`, `WatchedClausesProofs`, `VarOrderProofs`,
`TheoryCallbacksProofs`.

## 1. Inventory

### How the parts interact

    main (cbTSP.cpp)
      | options, files
      v
    SATTSP::solve_optimal  -- budgets -->  SATTSP::solve -- solveLimited --> Solver (cb_minisat)
      | get_solution, verify_soln             | reset_formula                   |  push / shrink / check
      |                                       v                                 v  callbacks
      |                                   theory.reset                  Metric_TSP_Theory
      |                                                                         |
      +------------------------- TSP::solve <-----------------------------------+
                                     | one child process per call of TSP::LKH
                                     v
                                  cbLKH: main > FindTour > LinKernighan > Best3OptMove
                                                              > Make3OptMove > Flip_SL, Between_SL

Everything runs in one thread; the asynchronous parts are the child process
(it may run out of time, crash or print nothing), the callbacks (the theory runs
*inside* the solver's propagation loop and hands over clauses there), and the limits
on time, conflicts and propagations, any of which can end a call early.

### Components

| component | state | operations | hard behaviour | what makes it correct |
|---|---|---|---|---|
| Optimal-cost search: `SATTSP::solve_optimal`, `solve`, `get_solution`, `verify_soln` (`src/sattsp.cpp`), `main` (`src/cbTSP.cpp`) | the window `test_min..test_max`, `test_cost`, `bin_div`, the best tour and its cost, the two budgets, time used | one round: solve, accept or reject, next budget; one-shot use with `--max_tsp_cost` | integer division and clipping; a budget kept as a member between calls; solving tours twice with a randomised heuristic; calls cut short | the answer is an optimum; nothing below `test_min`; a solution is never lost; it ends |
| Tours of a vertex set: `TSP::solve`, `split_vids`, `LKH` (`src/tsp.cpp`) | per subgraph: vertices, tour, cost, whether minimal; the sum; a bisection window | first tours; re-solving one subgraph by bisection; going round; concatenating | a sum kept by differences; a child that dies; where the round ends | TRUE only with tours within the budgets; FALSE only if there are none; it returns |
| Metric theory: `Metric_TSP_Theory` (`src/theories.cpp`) | `soln_vids`, `conflict`, `conflict_checked` | reset, push, shrink, check | must mirror a trail it sees only through callbacks; verdict goes stale | mirrors the trail; a clause it hands over is falsified and implied |
| Callbacks and `reset_formula` (`src/sattsp.cpp`) | the theory, the parsed formula | replay of what parsing assigned, wrappers, wall-clock check | parsing propagates before the callbacks are set | the theory knows every vertex assigned |
| `cb_minisat` search: `Solver` (`core/Solver.cc`) | clauses, learnt clauses, trail, reasons, levels, budgets | addClause, propagate, analyze, cancelUntil, search, simplify, reduceDB | clauses that appear during propagation, conflicts found by the theory at any level | learnt clauses follow; True is a model the theory accepts; False is a refutation |
| `cb_minisat` watch lists | two watched literals and a blocker per clause | attachClause, propagate | lists compacted in place while clauses are appended | no unit or falsified clause is missed |
| `cbLKH` two-level list (`Flip_SL.c`, `Between_SL.c`) | nodes with two links and a rank, segments with two links, a rank and a reversal bit, link costs, hash, move stack | Swap1 (with splits), undo, SUC/PRED, BETWEEN | three layers of reversal; ranks that wrap | one cycle; segments tile it; BETWEEN agrees with a walk |
| `cbLKH` local search (`LinKernighan.c`, `Best3OptMove.c`, `FindTour.c`, `LKHmain.c`) | queue of active nodes, old neighbours and exclusion flags, hash table, best tours of trial, run and program | choose t1, choose its neighbour, 3-opt moves, keep or take back, trials, runs | chains taken back; costs kept by gains; deciding when a node is done | a local optimum is one; costs are those of tours; it ends |
| Edge, MST and cardinality theories (`src/theories.cpp`), `MST` (`src/tsp.cpp`) | lists of vertices or edges, the sum, a spanning tree | the four callbacks, `propagate_list`, `MST::insert` | what is pushed before `reset`; a tree that still holds vertices taken back; literals propagated without a clause | the sum is that of the trail; what is reported is over the budget; the tree is a cheapest one |
| Problem reading and checks (`TSP::parse_input`, `metric`, `symmetric`) | cell counters, matrices, sets, points | one key, section or row at a time; rounding | sections in any order, counters kept across lines, tolerances | the graph is what the file says |
| Encoding of tours (`TSP::tsp2cnf`, `src/formula.cpp`) | numbering of variables, formulas, clauses | the `constraint_*` builders, `export_cnf` | several starts, vertices that are not visited, edges that do not exist | the clauses hold of tours and of nothing else |
| Order of decisions (`pickBranchLit`, `mtl/Heap.h`) | activities, a binary heap with an index table | bump, rescale, decide, backjump, rebuild | a variable in no place of the heap is never decided | no unassigned variable is lost, the most active is first |
| Clause memory (`removeSatisfied`, `reduceDB`, `garbageCollect`, `mtl/Alloc.h`) | a region of clauses named by where they lie, dirty watch lists, reasons | attach, detach, trim, free, move | names that outlive a clause; reasons that may dangle | no name in use is of a clause that is gone |
| Preprocessing (`simp/SimpSolver.cc`) | occurrence lists, queues, eliminated variables and their clauses | subsume, strengthen, asymmetric branching, eliminate, extend a model | loops over lists that change; the order in which clauses are put away | satisfiability is kept; an extended model is a model |
| `cbLKH` other moves (`Best2OptMove.c` ... `Best5OptMove.c`, `BestKOptMove.c`, `Gain23.c`, ...) | chosen nodes, case numbers, marks | choose nodes, close, make the move, patch cycles | tables by hand; marks through breaks and returns; sorting by reversals | a move is the exchange whose gain was computed; no feasible pair is missed |
| `cbLKH` three-level list (`Flip_SSL.c`, `Between_SSL.c`) | as the two-level list, and super-segments | the same | the same, one level more | the same |
| `cbLKH` ascent and candidate sets (`Ascent.c`, `MinimumSpanningTree.c`, `GenerateCandidates.c`, ...) | penalties, 1-trees, candidate lists with alpha | ascent steps, alpha-values, adding and dropping candidates | two tree algorithms, sparse and dense; fixed edges as INT_MIN | the bound is one; alpha is what it stands for; a run leaves the sets as it found them |
| `cbLKH` merging, genetic algorithm, I/O; options and reports | | | | oracles, or out of the path of `TSP::LKH`, or plain I/O |

What is *not modelled*, and why, is in `PROJECT.json` ("components") and in section 7.

## 2. Modules

| module | lines of code it models | what it is |
|---|---|---|
| `OptimalSearch` | abstract | what an optimal search promises: a best solution that only improves, and that is an optimum when the search finishes |
| `SolveOptimal` | `sattsp.cpp` solve_optimal, solve (budgets, results), get_solution, verify_soln; `cbTSP.cpp` main | the search; solver and LKH as oracles |
| `SolveOptimalProofs` | | theorems about `SolveOptimal`, and that it implements `OptimalSearch` |
| `TspSolve` | `tsp.cpp` TSP::solve, split_vids, and LKH as seen from it | one call of TSP::solve |
| `InductionFacts` | | induction and recursion over naturals, with sets for predicates; sequences cut and joined |
| `TspSolveProofs` | | theorems about `TspSolve` |
| `MetricTheory` | `theories.cpp` Metric_TSP_Theory | operators on the theory's state, used by both solver modules |
| `SolverTrail` | `Solver.cc` analyze, litRedundant, levels | operators on a trail with reasons, used by both solver modules |
| `CbMinisat` | `Solver.cc` search and addClause_, `sattsp.cpp` callbacks and reset_formula | the solver, clauses as sets; composes `SolverTrail` and `MetricTheory` |
| `SolverTrailProofs` | | lemmas: what a theory keeps of a trail; what analyze makes of a trail |
| `CbMinisatProofs` | | theorems about `CbMinisat` |
| `WatchedClauses` | `Solver.cc` propagate, attachClause | the solver, watcher by watcher; composes `SolverTrail` and `MetricTheory` |
| `WatchedClausesProofs` | | theorems about `WatchedClauses` |
| `TwoLevelTour` | `Flip_SL.c`, `Between_SL.c`, `Segment.h`, `RestoreTour.c` | the two-level list as operators on a record |
| `LinKernighan` | `LKHmain.c`, `FindTour.c`, `LinKernighan.c`, `Best3OptMove.c`, `Make3OptMove.c`, `StoreTour.c`, ... | the local search on that list |
| `OneTrees`, `CandidateSets` | `MinimumSpanningTree.c`, `Connect.c`, `Minimum1TreeCost.c`; `Ascent.c`, `CreateCandidateSet.c`, `GenerateCandidates.c`, `OrderCandidateSet.c`, `AdjustCandidateSet.c`, `ResetCandidateSet.c`, ... | 1-trees as operators; the ascent and the life of the candidate sets |
| `TourMoves` | `INCLUDE/Segment.h`, `Sequence.c` | tours as sequences, 2-opt moves, BETWEEN, exchanges |
| `OptMoves` | `Best2OptMove.c` to `Best5OptMove.c`, `Make2OptMove.c` to `Make5OptMove.c` | the searches by case tables |
| `KOptMoves` | `BestKOptMove.c`, `Sequence.c`, `PatchCycles.c`, `MakeKOptMove.c` | moves of any K, depth first, with marks, patching and sorting by reversals |
| `NonsequentialMoves` | `Gain23.c`, `BridgeGain.c` | two exchanges that join again |
| `ThreeLevelTour` | `Flip_SSL.c`, `Between_SSL.c`, `Segment.h` | the three-level list |
| `VarOrder` | `Heap.h`, `Solver.cc` pickBranchLit, varBumpActivity, rebuildOrderHeap, cancelUntil | the order of decisions |
| `VarOrderProofs` | | theorems about `VarOrder` |
| `ClauseMemory` | `Solver.cc` attachClause to garbageCollect, removeSatisfied, reduceDB, `SolverTypes.h`, `Alloc.h` | where clauses lie; on `SolverTrail` |
| `SimpSolver` | `SimpSolver.cc` | the preprocessing |
| `ProblemFile` | `tsp.cpp` parse_input, metric, symmetric; `sattsp.cpp` parse_input | reading a file line by line |
| `TourEncoding` | `tsp.cpp` tsp2cnf, `formula.cpp` | tours as clauses, assigned or exported |
| `SpanningTree`, `TheoryCallbacks` | `tsp.cpp` MST; `theories.cpp` Edge, MST and Cardinality | the theories other than the metric one under a solver that may do anything it can do |
| `TheoryCallbacksProofs` | | theorems about `TheoryCallbacks` |
| `MCSolveOptimal`, `MCTspSolve`, `MCCbMinisat`, `MCLinKernighan` | | instances of the module named |
| `MCWatchedClauses`, `MCSolverParts` | | instances of `WatchedClauses` (which ends in a violation on its own); with them those of `VarOrder`, `ClauseMemory`, `SimpSolver` |
| `MCCandidates`, `MCLkhParts` | | problems for `CandidateSets`; with them the moves and the three-level list |
| `MCFiles`, `MCGraph` | | problem files; with them the encoding and, on `TheoryCallbacks`, the callbacks |

`MCSolverParts`, `MCLkhParts` and `MCGraph` check modules that share no state: `which` says to
which of them a behaviour belongs, and the variables of the others are idle.

### State and actions against the code

**SolveOptimal.**  `phase` is where the `while (true)` of solve_optimal
(`sattsp.cpp:330-397`) is: "solve" (about to call `solve`), "accept" (it returned
true, get_solution follows), "reject" (anything else), "next" (the choice of the next
budget and the `break`), "done", "aborted" (an assertion failed).  An assignment
that satisfies the formula is an element of `Models`; the search can tell
apart how many vertices it has (`Count`), the cheapest sum and the cheapest
dearest tour (`Total`, `Bottleneck`).  `SolveTrue(a)`, `SolveFalse`, `SolveUndef` and
`SolveExpired` are the four ways out of `SATTSP::solve`, and each contains the
clipping and storing of both budgets.  `Accepted` keeps what the code does with assignments
the theory has not checked: `solve` ignores what its own `graph->solve`
returns.  `GetSolution` and `GetSolutionFails` are the two outcomes of
the *second* solving of the tours, in get_solution, and contain the assertion and the new
`test_max`.

**TspSolve.**  `pc` "first" is the loop over subgraphs with the subgraph
budget (`tsp.cpp:341-365`), "resolve" the head of the loop that lowers the sum, "search" the
bisection inside it.  A call of `TSP::LKH` is one step, with three sorts of
cbLKH: "exact", "heuristic" (misses tours of more than three vertices; smaller
ones are computed by TSP::LKH itself) and "dying" (prints no `Cost.min` line).

**CbMinisat.**  `pc` goes through parsing (`AddClause`, with unit propagation
as soon as a unit is met, before callbacks exist), the replay of what parsing assigned to the
theory (`Replay`), and the loop of `search`: `UnitPropagation`, `ClauseConflict`,
`PropagationEnds`, then `Learn` or `ConflictAtZero`, `Restart`, `OutOfBudget`, `Decide` (with
simplify at level 0 and reduceDB, which the code runs in the same pass) or
`ModelFound`.  Every enqueue pushes to the theory and the check that follows may
bring a clause (`CheckTheory`).  Clauses are sets; *which* unit clause is found first,
which variable is decided and with what sign is left open, so every
activity and phase-saving order is covered.  A clause from the formula or learnt is found whenever it is
unit or false; one the theory handed over is watched by literals that were false when it was attached, so it is found, if at all, when a
literal of it has become false at the current level (`Visited`).  The Luby sequence is one
number (`restartAfter`).

**WatchedClauses.**  The same loop one level lower: a clause is a sequence whose
first two literals are watched; `p, i, j, end` are the locals of
`propagate`; one step reads one watcher (`BlockerTrue`, `FirstTrue`,
`MoveWatch`, `UnitFound`, `ClauseFalse`, `AssertFails`).  `Handed` appends a theory's clause, in the
middle of a visit if it comes then; the append may or may not reallocate the list being
compacted, so both outcomes are allowed.  The model ends a behaviour at a failed
`assert(c[1] == false_lit)`.

**TwoLevelTour.**  The tour is a record; `link[side][node]`, `slink[side][segment]` and
`tip[side][segment]` hold Pred/Suc, Pred/Suc of segments and First/Last as two sides of one
function, so that the mirrored halves of `SplitSegment` and `Flip_SL` are one definition
each.  `paid` is the edge whose cost a node keeps (SucCost, PredCost), `hash` the set of edges
that the XOR stands for.

**LinKernighan.**  `StartTrial` is the head of `FindTour` and of `LinKernighan` up to its
loop; `NextAnchor`, `NextNeighbour`, `Improve`, `Extend`, `GiveUp`, `NeighboursDone` and `LocalOptimum` are its
loops; `EndTrial`, `EndTrials` and `EndRun` the rest of `FindTour` and `main`.  A call of
`Best3OptMove` is inside the step (`Improve` returns the first gaining move, `Extend` the
best tentative one).  `tried` is a history variable.

**OptMoves, KOptMoves, NonsequentialMoves.**  A search for a move starts on the tour 1, 2, ..., N:
the code names nodes by SUC, PRED and BETWEEN only, so the names do not matter.  One step chooses the next
pair of nodes (`ChooseT4`, `Choose5T6`, ...); which pair gains is open, so that every pair the tables allow is taken.  `kase`
is the case number of the code.  In `KOptMoves`, `k`, `t`, `incl` and the marks are the arrays of `BestKOptMoveRec`, and a step
is what lies between two of its loop heads, so that every `break`, `continue` and early return has its own
action.  `MakeMove`, `Make` and `MakeBridge` make the move as the code does, by a row of 2-opt moves.

**ThreeLevelTour.**  A record with links, tips, ranks, sizes and bits by level; one step is a call of Swap1.

**OneTrees, CandidateSets.**  `phase` follows `CreateCandidateSet` and `Ascent` (with its `goto Start`), then `FindTour`, which adjusts
the sets with every better tour and resets them at the end of a run.  A step of the ascent is one 1-tree.

**VarOrder.**  A step is a call that touches the heap; the percolation loops exchange a variable with its neighbour where the code
holds it back until its place is known; `seen` bounds the variables bumped by one conflict.

**ClauseMemory.**  `mem` is the region, a clause's place its number in it; `removeSatisfied`, `reduceDB` and `simplify` end in the
garbage collection, when a fifth is wasted, as in the code.  `meant` is a history variable: the clause a place was made for.

**SimpSolver.**  `LoopHead`, `SubsumeClause`, `SubsumeAssign`, `PickElim`, `AsymmVar` and `EliminateVar` are the loops of
`eliminate_`; gathering what touched variables subsume and the queue are kept in order.

**ProblemFile.**  A step reads a line; `reader` holds the section, the state of the parser and the two
counters.  `Convert` rounds the points, `Check` is what SATTSP asks of the graph.

**TourEncoding.**  `Tsp2cnf` makes the formula and adds its clauses; `Assign` is any assignment of the variables, so that the
property compares the clauses with the definition of a tour on every one.

**TheoryCallbacks.**  The solver decides, propagates what the theory asks, meets conflicts of its own, learns and restarts,
all at will; each enqueue pushes to the theory and each backjump shrinks it.  `EncodeUnit` is a literal fixed by
tsp2cnf before `ResetTheories`.

## 3. The runs

| run | module | what it shows |
|---|---|---|
| `optimal_exact` | MCSolveOptimal | exact LKH, no limits: under all three `--search_method`s and dividers 1, 2, 3, 10 no cost is skipped, the end is an optimum, solutions only improve, and the search implements `OptimalSearch`; the inductive invariant of the proofs |
| `optimal_limits` | MCSolveOptimal | a MIN_MAX_TSP graph, where the search varies the *subgraph* budget and the file's tour budget is the tighter one; heuristic LKH, time and step limits, `cb_interval` 2, assertions compiled out: both budgets are what the search believes, what is held is a real solution, each round shrinks the window, the search ends |
| `tspsolve` | MCTspSolve | TSP::solve, 55 pairs of budgets, both types: TRUE is right and the sum is kept, FALSE is right with an exact cbLKH and a subgraph marked minimal is, it returns |
| `minisat` | MCCbMinisat | about 200 formulas under the theory: the theory mirrors the trail, its verdicts are current, its clauses are falsified where they are analyzed, learnt clauses follow and assert, both answers are right |
| `solver_parts` | MCSolverParts | watch lists stay true to their clauses and nothing is missed *as long as* no clause lands in the list being visited; no variable is lost from the order heap; no name of a clause outlives it; preprocessing keeps models |
| `linkernighan` | MCLinKernighan | the two-level list stays sound and BETWEEN agrees with a walk, costs and hash follow, chains can be taken back, passive nodes have been tried, the answer is real, the search ends |
| `lkh_parts` | MCLkhParts | every move of every search is the exchange it was computed as, the case tables miss no completing pair, the marks of the K-opt search follow it; the three-level list; ascent and candidate sets |
| `graph` | MCGraph | files are read as they were meant, in all five weight formats (section 6 on two that the source does not trust); the clauses of tours are those of tours; the Edge theory's sum and flag are those of the trail, no two starts and no more literals than the constraint allows are true, the tree of the MST theory is a cheapest one |
| `verify_heuristic`, `oneshot_bound`, `tspsolve_dies`, `watched_stale` | | one property each that the repository states and the code breaks (section 6) |

### Bounds, and why they are enough

* *SolveOptimal*: `Inf = 30` stands for 999999; the window has 27 costs or more, so dividers 1, 2,
  3 and 10 give first budgets at the bottom, in the middle and near the top, rounds
  in which the division gives zero, and adaptive dividers that grow up to their limit.  Four assignments:
  one with a tour LKH knows exactly (two vertices), three larger; one whose dearest tour is over the file's
  budget, so that eligibility matters; in `optimal_limits` the budget that is not varied is the one that
  binds.  The proofs need none of these bounds.
* *TspSolve*: three subgraphs (two that share a vertex, one apart), eleven vertices, sets with 0,
  1, 2, 3 and 4 vertices (each a case of TSP::LKH), tours of up to three costs, budgets
  on either side of every sum.
* *CbMinisat*: formulas over four or five variables; units, tautologies and contradictions;
  covers that need decisions at several levels; theories that forbid pairs or triples;
  `cb_interval` 1 and 2; `maxLearnts` 1, so that reduceDB forgets.
* *WatchedClauses*: five formulas over four variables with clauses of two to four literals, so
  that watches move past a third and a fourth literal; followed to the first restart
  with seven clauses (`maxClauses`).
* *LinKernighan*: ATSP problems of four to seven vertices (eight to fourteen nodes in four or five
  segments, the last of which may be short) and a symmetric one of seven nodes.  All start tours for
  four vertices, and those with a given beginning for the larger ones (`given`).
  Two trials and two runs where the table and the best tours matter; `maxSwaps` 7 in the symmetric
  problem is reached.  In these runs both sides of a split occur, with the neighbour running
  either way and of one node, all four orders of the local flip, both renamings of the flip of segments, ranks below
  one, flips that change nothing because the nodes are adjacent, and Cases 1, 2, 5 and 6 of 3-opt, gaining and
  extending.  What does *not* happen on so few vertices is a merge that is better
  than both its tours; the step for it is in the model (`Merged`) but is then empty.

* *VarOrder*: four variables, made one by one, a heap of three levels; activities up to 2, with increments up to 2, so that
  rescaling happens after two bumps and ties are common (`Limit`, `Scale`, `MaxInc`); variable 3 may be implied;
  two decision levels; one variable bumped by a conflict (`MaxSeen`).  The doubles of the code tie less often.
* *ClauseMemory*: three formulas chosen so that a reason is a clause about to be removed, a clause loses its false
  literals at level 0 while it is watched, and units meet at level 0; a fifth of so small a region is wasted at once, so that
  every removal moves the clauses; two conflicts (`MaxConflicts`).
* *SimpSolver*: all 969 formulas of {1,2} and three other clauses of two or three literals over three variables, with
  variable 3 frozen or not, with and without asymmetric branching.
* *OptMoves, KOptMoves, NonsequentialMoves*: tours of 10, 8 and 12 nodes.  A 5-opt move has ten ends, so that 10
  nodes is the least on which all of its cases occur; 8 nodes for K up to 4, with one fixed edge; 12 for the six and six
  ends of Gain23 and BridgeGain.  On longer tours the segments between the ends are longer, which the case tables
  cannot see (they ask for SUC, PRED and BETWEEN of the ends only).
* *ThreeLevelTour*: 7 to 9 nodes in segments of two or three, the last shorter, and super-segments of two, under every
  row of two or three 2-opt moves (`Dimensions`): parts of one node and of one segment, segments that
  run opposite ways, and both ways to flip.
* *CandidateSets*: problems of five nodes and an asymmetric one of three vertices (six nodes), complete or with
  a Delaunay graph, with no, one or two fixed edges; ascent with a first period of 4 and precision 10, stars whose bound more than doubles so that it starts again; one better tour in a
  run (`MaxAdjust`).  Alpha-values are compared with those found by enumerating all 1-trees.
* *ProblemFile*: matrices of three and four vertices in every format, numbers broken into lines everywhere, both
  orders of TYPE and FORMAT, sets on one or several lines, points whose distances are rounded down, up and
  at a half.
* *TourEncoding*: a graph of two vertices with loops, of three and four with edges missing; every assignment
  of vertex, edge and start variables.
* *TheoryCallbacks*: three edges of a triangle with budgets below and above two of them, level-0 variables alone and
  several, four vertices for the MST theory, three literals for Cardinality; every order of decisions,
  backjumps, restarts and conflicts, unbounded.

No symmetry is used.  Deadlock is checked where a behaviour has a step of its own at its end
(`Stopped`, `Done`, `Returned`, `Finished`); `lkh_parts` and `graph` have parts in which a behaviour ends
where the modelled call returns, and switch the check off.

### Fairness

`SolveOptimal` and `TspSolve` assume weak fairness of `Next`: there is one thread, `solveLimited`
returns (the SAT search is finite, which is an assumption here, not a result), and
each call of cbLKH has a time limit.  `LinKernighan` assumes the same, spelled out:
every state but the last has a step that changes it, so weak fairness of `Next` says
that the program has stopped or that steps go on.  The other
modules check safety only.  Nothing assumes that one of several choices is eventually taken.

## 4. The properties

The state formulas are defined, each after a comment that says what it is about, at the end
of each module.  The ones that carry most:

* `ExactInv`, `Optimal`, `Refines` (search): they hold across integer division,
  clipping to the file's budgets, the budget that persists between calls, and any
  mixture of found and refuted rounds.
* `TrueMeansTours`, `FalseMeansNone` (tours): a sum kept by differences is that of the tours, and a FALSE is final for
  the caller: the theory turns it into a clause.
* `TheoryMirrorsTrail`, `VerdictFresh`, `ConflictIsCurrent` (theory and solver): the theory sees only
  pushes and the number of literals taken back.
* `LearntsFollow`, `LearntIsAsserting`, `TrueIsModel`, `FalseMeansNone` (solver).
* `ListsTrue`, `UnitsFound` (watch lists): a visit meets no clause that does not watch the literal, and when the
  queue is empty no clause is unit or falsified.
* `OrderComplete`, `ReferencesLive`, `ModelsExtend` (what the search stands on): nothing is lost from an index structure,
  and no name is used after what it named is gone.
* `ListSound`, `ChainRevocable`, `PassiveNodesTried`, `AnswerIsReal` (cbLKH).
* `MovesAreExchanges`, `NoMoveMissed` (moves): some 1500 lines of tables written by hand do what they compute the gain of,
  and leave no pair of nodes out that could close a tour.
* `BoundIsSound`, `CandidatesAreNearest` (candidates): what two tree algorithms and two ways to alpha compute, against
  definitions by enumeration.
* `EncodingIsTours` (encoding): for every assignment, the clauses hold exactly of tours.
* `TheoriesFollow`, `TreeIsMinimal` (other theories), with what they miss named in their parts: edges fixed before `reset`
  are not counted.

Each is broken by at least one plausible slip in the definition it depends on; the slips stand
beside their originals in the modules (`NextTestCostFromZero`,
`MoveWatchLosing`, `BetweenUnturned`, ...) and are used nowhere else.

## 5. What is proved

### The search over budgets

`SolveOptimalProofs` holds proofs, for every set of assignments, all costs, all search methods,
all dividers above zero and all budgets, from three assumptions on constants:
`InstanceAssumption` (types of the instance), `OptionAssumption` (types of the options; the divider is not zero,
see the hazards), and, where stated, `Exact` (LKH misses no tour, nothing limits a call, every
vertex set is checked, not one-shot, every assignment has a vertex, and verify_soln
sums what TSP::solve sums).

| theorem | needs `Exact` | statement |
|---|---|---|
| `TypeCorrect` | no | `Spec => []TypeOK` |
| `WindowCorrect` | no | `Spec => []SearchWindow`: the budget tried lies in the window |
| `BudgetsCorrect` | no | `Spec => []BudgetInv`: solve leaves the budgets as the search believes |
| `SolutionsAreReal` | no | `Spec => []SolutionReal` |
| `EveryRoundShrinks` | no | `Spec => RoundsShrink` |
| `ExactInvCorrect` | yes | `[]ExactInv`, with `NothingSkipped` and the place of `test_max` |
| `VerifyNeverFails` | yes | `[]VerifyHolds` |
| `SearchIsOptimal` | yes | `[]Optimal` |
| `SolutionsImprove` | yes | `IncumbentImproves` |
| `SearchImplements` | yes | `Spec => Search!Spec`: it implements `OptimalSearch` |

The argument: `NothingSkipped` is not inductive, because raising `test_min` to `test_cost + 1` is
sound only if the round that failed had refuted every eligible assignment up to
`test_cost`.  That is what `ExactInv` adds for the phase "reject".  To establish it one
has to know what the budgets *were*: `BudgetInv` says that the varied one was `test_cost` clipped
by the file's and that the fixed one is at its limit, although `solve` overwrites
both members and reads them back as arguments in the next round (lemma `FalseRefutes`).
`SearchWindow` rests on the bounds of a truncated division (`TruncDivBounds`,
`NextTestCostInWindow`), and gives `RoundsShrink`: every round removes a cost, so there are at
most 1000000 of them.  `ReportedBounds` bounds what get_solution may report, and so `test_max`.

### The tours of a vertex set

`TspSolveProofs`: for every number of subgraphs, every way they share vertices, all budgets (negative ones
too), both types and all three sorts of cbLKH, from `SubgraphAssumption` (subgraphs are finite),
`BudgetAssumption` (types) and `TourAssumption` (every set of vertices has a tour, costs are not negative, and one
vertex or none costs nothing, which TSP::LKH answers itself).

| theorem | statement |
|---|---|
| `TypeCorrect` | `Spec => []TypeOK` |
| `TrueIsRight` | `Spec => []TrueMeansTours`: TRUE comes with tours within both budgets, at the sum reported |
| `FalseIsRight` | `Spec => []FalseMeansNone`: with an exact cbLKH, FALSE means that no tours fit |

`TrueMeansTours` needs `SumKept`: the sum that the code keeps by differences is the sum of the costs.  The sum is a
recursive function, and that changing one summand changes it by the difference (`SumExcept`) is proved by induction.
`FalseMeansNone` needs to know why the round over the subgraphs ends: `RoundMarked` says that all subgraphs from the one
re-solved last up to the one looked at are marked minimal, `Minimal` that a marked one has no cheaper tour
(for which `Window` keeps `test_max` just below the cost held), so when the round closes the sum is the least there is
(`SumMonotone`).

### The solver under the theory

`CbMinisatProofs`: for every formula, every family of sets of vertices that fit, every `cb_interval`, every order
of decisions and signs, every restart interval and every choice of reduceDB, from `SetupsAssumption` alone (the
formula is over the variables 1 .. numVars, the fitting sets are closed under subsets and hold the
singletons).

| theorem | statement |
|---|---|
| `InvariantHolds`, `TypeCorrect` | `Spec => []IInv`, `Spec => []TypeOK` |
| `MirrorsTrail` | `Spec => []TheoryMirrorsTrail` |
| `VerdictIsFresh` | `Spec => []VerdictFresh` |
| `ConflictsAreCurrent` | `Spec => []ConflictIsCurrent` |
| `LearntsAreSound` | `Spec => []LearntsFollow` |
| `LearntsAssert` | `Spec => LearntIsAsserting` |
| `TrueIsRight` | `Spec => []TrueIsModel` |
| `FalseIsRight` | `Spec => []FalseMeansNone` |

`IInv` is a conjunction whose parts need one another:

* `TrailOK`: the trail assigns every variable once, levels rise along it, a reason was unit when its literal was enqueued,
  and above level 0 only the first literal of a level has none.  cancelUntil cuts off a suffix *because* levels rise
  (`TrailLimIs`).
* `Propagated`: when a level was left, no clause watched was unit or false.  This is what makes the clause
  learnt a new one (`LearntsAssert`), and it survives learning because at every level below the backjump two
  literals of the new clause are unassigned, and simplify because it only cuts literals false at level 0.
* `Mirror`: `soln_vids` is some order of the vertices of level 0 followed by those above in the order of the trail.  The first
  part is in the order of the *variables*, because reset_formula replays them so; only the second part is ever popped.
* `Verdict`: a verdict that is up is not yet reported, is about a vertex of the current level, and (with an exact LKH) is
  right; with `cb_interval` 1 the vertices below the current level fit.  `ConflictIsCurrent` for the theory's
  clause rests on it.
* `FormulaKept`: every clause of the file is satisfied at level 0 or some clause kept is part of it; with `Propagated` it
  gives `TrueIsModel`.
* `Sound`: every solution satisfies all clauses kept, the reasons and what is fixed at level 0.  At level 0 no such
  clause is false, which gives `FalseMeansNone`.

About analyze, `SolverTrailProofs` proves `LearntIs` for any trail: the first loop, walking down the trail, keeps a
clause that is false, implied by the conflict and the reasons, and whose literals of the current level lie in the part of the
trail still to be walked (`ResolveKeeps`), so that it ends with exactly one of them (`FirstUIPIs`); and dropping
the literals that litRedundant finds implied keeps what the clause says, by strong induction along the
trail (`RedundantIs`).  It also proves that the vertices of a trail are those of its parts in order
(`AmongConcat`), which is why popping as many as the literals taken off have takes off the right ones (`MirrorShrink`).

### The watch lists

`WatchedClausesProofs`: for every formula, every family of sets that fit and every order of decisions, over any
number of conflicts and restarts, from `SetupsAssumption` alone (what addClause attaches has two literals at least and
none twice).

| theorem | statement |
|---|---|
| `InvariantHolds`, `TypeCorrect` | `Spec => []IInv`, `Spec => []TypeOK` |
| `ListsAreTrue` | `Spec => []ListsTrue`: no visit meets a watcher of a clause that does not watch the literal; between visits every clause has its two watchers, once each |
| `UnitsAreFound` | `Spec => []UnitsFound`: when propagate is done, a clause of the formula or learnt is satisfied or has two literals unassigned |

The second is what `CbMinisat` takes for granted.  Both hold as long as no list was clobbered, which is what the
properties say; `watched_stale` shows what happens otherwise.  The parts of `IInv`:

* `Shapes`: types, `i`, `j` and `end` within the list, every watcher's clause and blocker exist, no clause loses or repeats a
  literal.
* `Lists`: while the list of `p` is visited, its places below `j` and from `i` on are together those of the clauses watched by
  `-p`, once each, and every other list is exact as a whole.  Nothing is appended to the list visited, because a literal
  moved to is not false and so is not `-p`.
* `Propagated`: a watched literal that is false is *pending* (not propagated yet, or its clause not met yet in this visit, or
  of the level about to be taken back) or its clause is *guarded*: a literal of the clause is true since a level no
  higher.  The levels matter: backjumping unassigns the guard only together with what it guards.  The literal that a unit
  clause enqueues is of the current level, and so is the watched literal just found false, because all that is still to
  propagate is of the current level (`Fresh`); a learnt clause is attached with a literal of the level gone back to in
  second place (`LearntLitsIs`), so that its first literal, enqueued at that level, guards it.
* `Conflicting` and `Verdict`: a conflict is false and has a literal of the current level, so that analyze learns what
  `LearntIs` promises; for the theory's clause this needs that its verdict is about a vertex of that level.

`Parsed`, the lists as parsing leaves them, is a recursion over the clauses (`ParsedIs`, `ParsedGood`).

### The order of decisions

`VarOrderProofs`: for any number of variables, any activities, limits and decay, whatever is implied, bumped and taken back, from
`ScaleAssumption` alone (the divisor of a rescaling is not zero).

| theorem | statement |
|---|---|
| `InvariantHolds` | `OrderSpec => []IInv` |
| `OrderIsComplete` | `OrderSpec => []OrderComplete`: an unassigned variable is in the heap, places and indices agree, and none stands below a less active one |

`IInv` is the property itself with the types, so that the work lies in the operations.  percolateUp starts from a heap that is in
order but for one key, which may be greater than its parent's (`UpKeys`: the children of that place may not be greater
than its parent); a pass moves the exception up (`UpPass`, `RaisedIs`) until there is none (`PercolateUpIs`).
percolateDown is the same the other way, from the place `low` on only (`DownKeys`), which is what build needs: sifting
place `low` makes what is in order from `low + 1` on in order from `low` on (`SiftedIs`).  A bump leaves just such an
exception (`Grown`), and a rescaling none, because division keeps the order, ties included (`Rescaled`).
removeMin gives up one variable (`RemovedMinIs`), which pickBranchLit either assigns or had found assigned (`TakenIs`), and
cancelUntil puts back what it unassigns (`CancelledIs`).

### The other theories

`TheoryCallbacksProofs`: for every graph and budget, every set of start variables, every cardinality constraint and whatever
the solver does, from `SetupsAssumption` alone (variables are 1 .. numVars, weights are natural numbers, a constraint does
not name a literal and its negation).

| theorem | statement |
|---|---|
| `TheoriesSound` | `Spec => []IInv` |
| `TheoriesAreRight` | `Spec => []TheoriesFollow`: `soln_vars`, the sum and the flag of the Edge theory are those of the trail since `reset`; what it reports is over the budget; no two literals that exclude each other are true |

That no two edges out of a vertex, or into it, and no two starts are true is not kept by every enqueue: the theory propagates what an
edge or a start excludes only when it sees no conflict (`theories.cpp:85`, `:111`).  While its edges are over the budget the
trail may hold rivals, and going back has to remove one of them.  The parts of `IInv` speak of prefixes of the trail for
that reason:

* `Follows`: what is kept is the edges among the literals since `reset`, in order, the sum is theirs, the flag says that it is over
  the budget.
* `Excludes`: an entry up to which the edges were within the budget has made false what it excludes, on its own level or
  below.  Going back takes both or neither; when nothing is over the budget, this is `NoRivals`.
* `LowerWithin`: the edges below the current level are within the budget, so that the flag, which `shrink` lowers without
  comparing anything, is lowered rightly.
* `Fixed`: what came before `reset` is of level 0 and never goes.

Costs along the trail only grow (`CostsGrow`); the sums over the list and over the set of edges are recursive functions, and that they agree
(`AmongCost`) is by induction.

### Induction

What a recursive function or a fold computes needs induction.  The library's induction theorems take a predicate as a
parameter, which the installed backends cannot instantiate; `InductionFacts` derives from the well-foundedness of
the naturals the same facts with a *set* in place of the predicate (`BoundedInduction`,
`StrongInduction`), and that a recursion over 1 .. n has a function that satisfies it (`Recursion`), so that the
recursive functions of `TspSolve`, `SolverTrail`, `TheoryCallbacks`, `WatchedClauses` and `VarOrder` are what their definitions
say.
A loop of `VarOrder` is a function of the number of its passes; that it has ended after the last of them is proved with its
invariant.

### Only model-checked

`Terminates` (liveness and ENABLED are outside the prover's reach); everything about
`ClauseMemory`, `SimpSolver`, `LinKernighan`, the moves, the candidate sets, the files and the encoding; the tree of
the MST theory (`TreeIsMinimal`).  `CbMinisat`
takes it for granted that a clause of the formula or learnt is found when it is unit or false; that this is so of
`WatchedClauses` is proved, but that the one implements the other is not stated as a refinement.

## 6. Where the code disagrees with itself

| run | where | what |
|---|---|---|
| `verify_heuristic` | `src/sattsp.cpp:721` | get_solution clears the tour and calls the randomised LKH again; if this call fails, the tour stays empty and the cost is 0 |
| `oneshot_bound` | `src/cbTSP.cpp:202` | `--max_tsp_cost N` alone passes the default -1 as the subgraph budget, so that every assignment of two or more vertices is refused |
| `tspsolve_dies` | `src/tsp.cpp:341` | a cbLKH that prints no cost in the first loop leaves cost 0, and TRUE is returned with a tour missing |
| `watched_stale` | `core/Solver.cc:661` | a theory's clause is attached to the list `propagate` is compacting; the cut at the end removes its watcher or leaves the list uncompacted, and a later visit fails `assert(c[1] == false_lit)`.  Compiled without assertions, the clause is taken for a unit with two literals unassigned |

`CbMinisat` takes it for granted that a clause of the formula or a learnt one is found when
it is unit; `watched_stale` shows when that fails.  `WatcherInPlace` (in `ListsTrue`) says exactly
that it fails in no other way: `clobbered` records that a list was appended to between `i` and `j`.

Met while modelling, and stated where the property concerned leaves them out:

* With `cb_interval` above 1, `solve` accepts an assignment whose size is no multiple of it although no tours
  fit: the result of `graph->solve` is ignored (`sattsp.cpp:493`) and the cost compared is 0.  `SolveOptimal` models it
  (`Accepted`); `Exact` excludes it.
* Edges that tsp2cnf fixes at level 0 are pushed before `theory.reset` and not again (`sattsp.cpp:193-219`): their
  cost is counted nowhere.  A start variable propagates its own negation (`theories.cpp:111-118`), against the
  assertion in `uncheckedEnqueue`.
* `MST_Theory` reports a conflict once only (`conflict_checked` is not cleared by a push), doubles the cost of the tree, and
  inserts into a tree that still holds vertices taken back.
* `EDGE_WEIGHT_FORMAT` before `EDGE_WEIGHT_TYPE` fails as an invalid state, which `SATTSP` does not look at
  (`sattsp.cpp:84`).  `GraphAsWritten` asks for files in order, and that others fail.
* The branch of `UPPER_DIAG_ROW` is marked "not working: 16.12.02" (`tsp.cpp:601`) and warns when it is used (`tsp.cpp:603`);
  that of `LOWER_ROW` is marked "not tested" (`tsp.cpp:561`) and warns as well (`tsp.cpp:562`).  Against these remarks
  `GraphAsWritten` finds no fault in either: files of three and four vertices in `UPPER_DIAG_ROW`, and of four in
  `LOWER_ROW`, broken into lines in every way, put every weight where it belongs.  The comment may be out of date, or
  speak of something that the model leaves out (the text of the lines).
* `metric()` accepts violations of one unit, so that a tour of more vertices may be cheaper.
* `MinimumSpanningTree` loses a fixed edge when the first node has two of them; `BetaValue` counts fixed edges only in a
  chain of only sons; `GenerateCandidates.c:100` subtracts INT_MIN where a fixed edge closes a path of fixed
  ones.  The problems cbTSP makes have one fixed edge at each node.
* `removeSatisfied` asserts that the first two literals of a clause it keeps are unassigned, which need not hold of a
  theory's clause (`Solver.cc:735`).  `CbMinisat` takes the assertion as compiled out: up to two false literals stay in
  such a clause (`SimplifiedLemmas`).
* `MST::_insert` skips an edge of its own tree that is not an edge of the graph (`tsp.cpp:1417`), while the constructor and
  the first insertion do not ask: what lies behind such an edge leaves the tree.  `enable_mst_theory` accepts metric graphs only, in
  which vertices joined by a path are adjacent (`INF` is then the weight between parts that nothing joins); the graphs of
  the runs are of one part, so complete, and `TreeIsMinimal` says nothing of others.
* verify_soln sums one closed tour over all subgraphs (`sattsp.cpp:617`); `ClosedDiff` is the difference, 0 in the runs.
* `--bdiv 0` divides by zero; a vertex in no subgraph makes the split of `tsp.cpp:319` loop; a time limit that passes before the first
  trial relinks a tour through null pointers (`FindTour.c:50`).

## 7. Abstractions, and what is left out

* In `SolveOptimal` the solver is an oracle that is right about `Accepted` assignments; in
  `CbMinisat` TSP::solve is a family of vertex sets with tours within the budgets, closed under
  subsets where completeness is claimed (monotony of the tour cost, which
  `TSP::metric` is meant to establish; its tolerance of 1 is a hazard listed).
* Reports, verbosity, timing statistics and text are left out.
* `litRedundant` gives up after 1000 steps (`Solver.cc:506`), far more than there
  are literals in the instances; the model minimises fully.
* `WatchedClauses` leaves out simplify, reduceDB and lazily deleted watchers; `ClauseMemory` has them, visits a list in one
  step, and decides variables in the order of their numbers.
* `SimpSolver`: `use_rcheck` and `implied`, the limits on occurrences and clause length, interrupts, garbage collection
  and `substitute` are left out.  The Makefile does not link it into cbTSP.
* `LinKernighan`: MOVE_TYPE = 3 where the default is 5; GAIN23 off; no penalties, so `C` is the
  distance; complete candidate sets in an open order; the time limit may end trials
  from the second on.  The other moves are modelled one call at a time, on a tour and not on a list, with any candidates and
  any gains: that the search which calls them ends is shown for 3-opt only.  Kicks, backbone trials, subproblems
  and the genetic algorithm are not reached or not modelled.
* `KOptMoves`: PATCHING_A of 2 and more (`PatchCycles.c:189-247`) and the backtracking variants are left out.
* `CandidateSets`: the geometry that finds a Delaunay or quadrant graph is a constant; candidate and penalty files are left out.
* `ProblemFile`: the text of a line is a record; GEO distances are a constant.
* The solver in `TheoryCallbacks` has no clauses: it may do whatever a solver with clauses can do to a theory.
* Not modelled: options and reports (I/O), the older main programs (not built), the genetic algorithm and subproblems (not
  reached with the parameters that TSP::LKH writes), cbLKH's reader and writer (I/O), the build files.

## 8. Plan

Done, in this order: the search (`SolveOptimal`, `OptimalSearch`, proofs), `TspSolve`,
`MetricTheory` with `CbMinisat` and `SolverTrail`, `WatchedClauses`, `TwoLevelTour` with `LinKernighan`; then the moves and the
three-level list, reading, encoding and the other theories, candidate sets, and what the search of the solver
stands on.

Proofs so far: `SolveOptimal` with its refinement, `TspSolve`, `MetricTheory`, `SolverTrail`, `CbMinisat`,
`WatchedClauses`, `VarOrder`, `TheoryCallbacks` with the Edge theory.

Next, most important first:

1. `ReferencesLive` of `ClauseMemory`: no watcher, reason or list names a clause that is gone or has moved.
2. Lemmas on `TwoLevelTour`: a local flip and `Undo` keep the links mutual; on `TourMoves`: a 2-opt move is an exchange
   of two edges.
3. `GainsAdd` and `AnswerIsReal` of `LinKernighan` on top of them.
4. `cb_child` in `CbMinisat`: the literals of `TheoryCallbacks` in the solver with clauses.
5. `MergeWithTour` in place of the oracle `Merged`.
