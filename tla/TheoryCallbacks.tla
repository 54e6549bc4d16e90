---------------------------- MODULE TheoryCallbacks ----------------------------
(***************************************************************************)
(* Edge_TSP_Theory, MST_Theory and Cardinality_EQ_Theory (theories.cpp) as *)
(* cb_minisat calls them: what they add to the trail when a literal is     *)
(* pushed (uncheckedEnqueue), what they add up, and the conflicts they     *)
(* report.  Which literal is enqueued and how far the search goes back is  *)
(* left open; a literal is a variable or its negative.                     *)
(***************************************************************************)
EXTENDS SpanningTree, SolverTrail

\* A setup is a record:
\*   theory   "edge", "mst" or "cardinality"
\*   numVars  the variables
\*   edge     var2eid and eid2edge: the edge of an edge variable
\*   level00  the variables of the start of the tour
\*   graph    [n, weight, adjacency]
\*   budget   tsp_cost_budget
\*   lit_set  the literals of a cardinality constraint
CONSTANT Setups

\* Costs and budgets are not negative; an edge and a start of the tour have
\* variables of their own (TSP::tsp2cnf); a theory knows its own variables only,
\* and no literal of a cardinality constraint comes with its opposite.
ASSUME SetupsAssumption ==
  \A s \in Setups :
    /\ s.numVars \in Nat /\ s.budget \in Nat
    /\ DOMAIN s.edge \subseteq 1 .. s.numVars
    /\ \A v \in DOMAIN s.edge : s.graph.weight[s.edge[v]] \in Nat
    /\ s.level00 \subseteq (1 .. s.numVars) \ DOMAIN s.edge
    /\ s.lit_set \subseteq ((- s.numVars) .. s.numVars) \ {0}
    /\ \A lit \in s.lit_set : - lit \notin s.lit_set
    /\ s.theory # "edge" => s.level00 = {} /\ DOMAIN s.edge = {}
    /\ s.theory # "cardinality" => s.lit_set = {}

VARIABLES
  setup,  \* a member of Setups
  turn,   \* "encode" (tsp2cnf), "propagate", "decide", "conflict", "done"
  trail,  \* records [lit, level]
  theory, \* soln_eids or soln_vids, edge_costs, the flags, the tree
  clause, \* the clause handed over with the conflict, {} for none
  fixed,  \* the entries of the trail that are older than reset
  fresh   \* nothing has been taken back since

vars == <<setup, turn, trail, theory, clause, fixed, fresh>>

Literals == {v : v \in 1 .. setup.numVars} \union {- v : v \in 1 .. setup.numVars}
EdgeVars == DOMAIN setup.edge
VertexVars == IF setup.theory = "mst" THEN 1 .. setup.graph.n ELSE {}
var2vid(var) == var - 1

Level == DecisionLevel(trail)
EntriesOf(lits, level) == [i \in DOMAIN lits |-> [lit |-> lits[i], level |-> level]]

\* What reset leaves: conflict_checked is not among it.
Reset(checked) == [soln |-> << >>, costs |-> 0, conflict |-> FALSE, checked |-> checked,
                   tree |-> NoTree]

-----------------------------------------------------------------------------
(* minisat_trail_push_cb.                                                   *)

lit_cost(lit) == setup.graph.weight[setup.edge[lit]]

\* The Edge theory adds up the cost of the edges.
PushEdge(th, lit) ==
  LET costs == th.costs + lit_cost(lit)
      over == costs > setup.budget
  IN [th EXCEPT !.soln = Append(@, lit), !.costs = costs,
                !.conflict = over, !.checked = ~ over]

\* The MST theory grows its tree: mst_valid is never FALSE after reset.
PushVertex(th, lit) ==
  LET tree == Insert(setup.graph, th.tree, var2vid(lit))
  IN [th EXCEPT !.soln = Append(@, lit), !.tree = tree,
                !.conflict = 2 * tree.cost > setup.budget]

Counted == EdgeVars \union VertexVars
Push(th, lit) ==
  CASE lit \in EdgeVars -> PushEdge(th, lit)
    [] lit \in VertexVars -> PushVertex(th, lit)
    [] OTHER -> th

\* The edges out of the same vertex and into the same one.
Rivals(lit) == {v \in EdgeVars \ {lit} : \/ setup.edge[v][1] = setup.edge[lit][1]
                                         \/ setup.edge[v][2] = setup.edge[lit][2]}

\* What a literal that is true excludes.  (A start is on its own list as well,
\* but assigned by then.)
Excluded(lit) ==
  CASE lit \in EdgeVars -> Rivals(lit)
    [] lit \in setup.level00 -> setup.level00 \ {lit}
    [] lit \in setup.lit_set -> setup.lit_set \ {lit}
    [] OTHER -> {}

\* propagate_list: the Edge theory leaves it empty in a conflict.
Propagated(th, lit) ==
  {- l : l \in {l \in Excluded(lit) : ~ (setup.theory = "edge" /\ th.conflict)}}

\* uncheckedEnqueue: literals of the list that are unassigned follow the
\* literal itself; the assertion that the others are true is compiled out.
Enqueue(tr, th, lit, level) ==
  LET pushed == Push(th, lit)
      own == Append(tr, [lit |-> lit, level |-> level])
      more == {l \in Propagated(pushed, lit) : ~ Assigned(own, l)}
  IN [trail |-> own \o EntriesOf(SetToSeq(more), level), theory |-> pushed]

\* Whether what push reads is there.
Pushable(th, lit) == lit \in VertexVars => Insertable(th.tree, var2vid(lit))

-----------------------------------------------------------------------------
(* minisat_check_conflict_cb and minisat_trail_shrink_cb.                   *)

HasConflict(th) == th.conflict /\ ~ th.checked
ConflictClause(th) == {- l : l \in ToSet(th.soln)}

SumOf(lits) ==
  LET sum[n \in 0 .. Len(lits)] ==
        IF n = 0 THEN 0 ELSE sum[n - 1] + lit_cost(lits[n])
  IN sum[Len(lits)]

Popped(th, gone) ==
  [th EXCEPT !.soln = SubSeq(@, 1, Len(@) - Len(gone)),
             !.costs = IF setup.theory = "edge" THEN @ - SumOf(gone) ELSE @]

\* A slip for Shrink: the flag stays up.
ShrinkKeepsConflict(th, lits) == Popped(th, Among(Counted, lits))

\* The tree is left as it is.
Shrink(th, lits) ==
  LET gone == Among(Counted, lits)
  IN [Popped(th, gone) EXCEPT !.conflict = @ /\ gone = << >>]

Check(tr, th, otherwise) ==
  /\ trail' = tr
  /\ theory' = [th EXCEPT !.checked = TRUE]
  /\ clause' = IF HasConflict(th) THEN ConflictClause(th) ELSE {}
  /\ turn' = IF HasConflict(th) THEN "conflict" ELSE otherwise

-----------------------------------------------------------------------------
(* The solver.                                                              *)

Init ==
  /\ setup \in Setups
  /\ turn = "encode" /\ trail = << >> /\ clause = {} /\ fixed = 0 /\ fresh = TRUE
  /\ \E conflict, checked \in BOOLEAN : theory = [Reset(checked) EXCEPT !.conflict = conflict]

Free(tr) == {lit \in Literals : ~ Assigned(tr, lit)}

\* addClause_ inside tsp2cnf: units are propagated, with the theory as the
\* round before left it.  (Those of the CNF file come before the callbacks are
\* set: reset undoes all that is different.)
EncodeUnit ==
  /\ turn = "encode"
  /\ \E lit \in Free(trail) :
       LET e == Enqueue(trail, theory, lit, 0)
       IN /\ Pushable(theory, lit)
          /\ trail' = e.trail
          /\ theory' = [e.theory EXCEPT !.checked = TRUE]
          /\ turn' = IF HasConflict(e.theory) THEN "done" ELSE "encode"
  /\ UNCHANGED <<setup, clause, fixed, fresh>>

Replayed(th, lits) ==
  LET after[n \in 0 .. Len(lits)] == IF n = 0 THEN th ELSE Push(after[n - 1], lits[n])
  IN after[Len(lits)]

\* reset_formula: reset, then the vertices that are true are replayed; the
\* edges are not.
ResetTheories ==
  /\ turn = "encode"
  /\ turn' = "propagate" /\ fixed' = Len(trail)
  /\ theory' = Replayed(Reset(theory.checked),
                        SetToSeq({lit \in VertexVars : IsTrue(trail, lit)}))
  /\ UNCHANGED <<setup, trail, clause, fresh>>

\* propagate: a unit is enqueued and the theory asked.
PropagateUnit ==
  /\ turn = "propagate"
  /\ \E lit \in Free(trail) :
       LET e == Enqueue(trail, theory, lit, Level)
       IN Pushable(theory, lit) /\ Check(e.trail, e.theory, "propagate")
  /\ UNCHANGED <<setup, fixed, fresh>>

PropagationEnds ==
  /\ turn = "propagate"
  /\ Check(trail, theory, "decide")
  /\ UNCHANGED <<setup, fixed, fresh>>

\* A conflict of the formula, with the theory's still to be asked for.
ClauseConflict ==
  /\ turn = "propagate"
  /\ turn' = "conflict" /\ clause' = {}
  /\ UNCHANGED <<setup, trail, theory, fixed, fresh>>

Decide ==
  /\ turn = "decide"
  /\ \E lit \in Free(trail) :
       LET e == Enqueue(trail, theory, lit, Level + 1)
       IN Pushable(theory, lit) /\ trail' = e.trail /\ theory' = e.theory
  /\ turn' = "propagate"
  /\ UNCHANGED <<setup, clause, fixed, fresh>>

CutBack(level) ==
  [trail |-> KeptUntil(trail, level), theory |-> Shrink(theory, LitsAbove(trail, level))]

\* cancelUntil and the literal learnt, which the theory is not asked about.
Learn ==
  /\ turn = "conflict" /\ Level > 0
  /\ \E level \in 0 .. Level - 1 :
       LET cut == CutBack(level)
       IN \E i \in DOMAIN trail :
            /\ trail[i].level = Level
            /\ Pushable(cut.theory, - trail[i].lit)
            /\ LET e == Enqueue(cut.trail, cut.theory, - trail[i].lit, level)
               IN trail' = e.trail /\ theory' = e.theory
  /\ turn' = "propagate" /\ clause' = {} /\ fresh' = FALSE
  /\ UNCHANGED <<setup, fixed>>

Refuted ==
  /\ turn = "conflict" /\ Level = 0
  /\ turn' = "done"
  /\ UNCHANGED <<setup, trail, theory, clause, fixed, fresh>>

Restart ==
  /\ turn = "decide" /\ Level > 0
  /\ trail' = CutBack(0).trail /\ theory' = CutBack(0).theory
  /\ turn' = "propagate" /\ fresh' = FALSE
  /\ UNCHANGED <<setup, clause, fixed>>

Next ==
  \/ EncodeUnit \/ ResetTheories \/ PropagateUnit \/ PropagationEnds
  \/ ClauseConflict \/ Decide \/ Learn \/ Refuted \/ Restart

Spec == Init /\ [][Next]_vars

-----------------------------------------------------------------------------
Searching == turn \in {"propagate", "decide", "conflict"}
SinceReset == SubSeq(Lits(trail), fixed + 1, Len(trail))

\* The Edge theory knows the edges on the trail, in order, and what they
\* cost, but for those that the encoding itself fixed; the flag is up exactly
\* while they cost more than the budget.
CostsFollow ==
  Searching /\ setup.theory = "edge" =>
    /\ theory.soln = Among(Counted, SinceReset)
    /\ theory.costs = SumOf(theory.soln)
    /\ theory.conflict <=> theory.costs > setup.budget

\* What the edges of a set of variables cost.
CostOfEdges(edges) ==
  LET sum[v \in 0 .. setup.numVars] ==
        IF v = 0 THEN 0 ELSE sum[v - 1] + (IF v \in edges THEN lit_cost(v) ELSE 0)
  IN sum[setup.numVars]

\* A conflict of the Edge theory is a clause that the trail falsifies, and
\* that no set of edges within the budget falsifies; it has the two literals
\* attachClause asks for unless one edge alone is over the budget.
ConflictsAreReal ==
  clause # {} /\ setup.theory = "edge" =>
    /\ \A lit \in clause : IsTrue(trail, - lit)
    /\ CostOfEdges({- lit : lit \in clause}) > setup.budget
    /\ Cardinality(clause) = 1 => \E lit \in clause : lit_cost(- lit) > setup.budget

\* Once it may decide, the solver holds no two edges out of a vertex or into
\* it, no two starts, no two literals of a cardinality constraint; what the
\* encoding fixed may be such a pair.
NoRivals ==
  turn = "decide" =>
    LET true == ToSet(SinceReset)
    IN /\ \A v, w \in true \intersect EdgeVars : \A i \in 1 .. 2 :
            setup.edge[v][i] = setup.edge[w][i] => v = w
       /\ Cardinality(true \intersect setup.level00) < 2
       /\ Cardinality(true \intersect setup.lit_set) < 2

\* The Edge theory knows what the edges on the trail cost, what it reports is
\* over the budget, and what excludes each other is not held together.
TheoriesFollow == CostsFollow /\ ConflictsAreReal /\ NoRivals

\* Until something is taken back, the tree of the MST theory is a cheapest
\* one of the vertices on the trail, and the one Prim's algorithm builds
\* costs as much.
TreeIsMinimal ==
  LET vertices == {var2vid(lit) : lit \in ToSet(theory.soln)}
  IN turn # "encode" /\ fresh /\ setup.theory = "mst" /\ vertices # {} =>
       /\ theory.tree.subset = vertices /\ theory.tree.size = Cardinality(vertices)
       /\ Connects(theory.tree.edges, vertices)
       /\ theory.tree.cost = CostOf(setup.graph, theory.tree.edges)
       /\ theory.tree.cost = MinimumCost(setup.graph, vertices)
       /\ Prim(setup.graph, vertices).cost = theory.tree.cost
=============================================================================
