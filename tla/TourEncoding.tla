----------------------------- MODULE TourEncoding -----------------------------
(***************************************************************************)
(* tsp2cnf (src/tsp.cpp): the clauses by which edges that are true form a  *)
(* tour of the vertices that are true, and the formulas of src/formula.cpp *)
(* they are built from.  The branch that VER100 selects is left out.       *)
(*                                                                         *)
(* A literal is a variable, numbered from 1, or its negative; a formula is *)
(* a record [con, lits, formuli] over literals and formulas; the solver is *)
(* the number of its variables and its clauses.                            *)
(***************************************************************************)
EXTENDS Integers, SequencesExt, FiniteSetsExt, TLC

CONSTANT Graphs  \* [n, adjacency, numVars]: a graph, the variables of the CNF file,
                 \* one of every vertex at least (numVars >= n)

NoTsp == [offset |-> 0, constraints |-> << >>, defined |-> << >>, level00 |-> << >>, calls |-> 0]

VARIABLES
  job,        \* a member of Graphs or Samples
  stage,      \* "new", "encoded", then "assigned" for a graph
  solver,     \* [nVars, clauses]
  tsp,        \* what tsp2cnf keeps in the TSP object
  assignment  \* the true variables

vars == <<job, stage, solver, tsp, assignment>>

-----------------------------------------------------------------------------
(* formula.cpp.                                                             *)

Formula(con, lits, formuli) == [con |-> con, lits |-> lits, formuli |-> formuli]
And(lits) == Formula("and", lits, << >>)
Or(lits) == Formula("or", lits, << >>)

RECURSIVE MaxVar(_), Negated(_), Value(_, _), Export(_, _)

Var(lit) == IF lit < 0 THEN - lit ELSE lit
MaxVar(f) == Max({1} \union {Var(f.lits[i]) : i \in DOMAIN f.lits}
                   \union {MaxVar(f.formuli[i]) : i \in DOMAIN f.formuli})

Negated(f) == Formula(IF f.con = "and" THEN "or" ELSE "and",
                      [i \in DOMAIN f.lits |-> - f.lits[i]],
                      [i \in DOMAIN f.formuli |-> Negated(f.formuli[i])])

Holds(true, lit) == IF lit > 0 THEN lit \in true ELSE - lit \notin true
Value(f, true) ==
  LET Literal(i) == Holds(true, f.lits[i])
      Nested(i) == Value(f.formuli[i], true)
  IN IF f.con = "and"
     THEN (\A i \in DOMAIN f.lits : Literal(i)) /\ \A i \in DOMAIN f.formuli : Nested(i)
     ELSE (\E i \in DOMAIN f.lits : Literal(i)) \/ \E i \in DOMAIN f.formuli : Nested(i)

constraint_implies(a, b) == Or(<< -a, b >>)
constraint_implies_formula(a, f) == Formula("or", << -a >>, <<f>>)
constraint_implied_by(f, b) == Formula("or", <<b>>, <<Negated(f)>>)
constraint_iff(a, b) == Formula("or", << >>, <<And(<<a, b>>), And(<< -a, -b >>)>>)
constraint_at_least_one_in_a_set(vars_) == Or(vars_)
OnlyOne(vars_, i) == And([j \in DOMAIN vars_ |-> IF j = i THEN vars_[j] ELSE - vars_[j]])
constraint_one_in_a_set(vars_) ==
  Formula("or", << >>, [i \in DOMAIN vars_ |-> OnlyOne(vars_, i)])
constraint_at_most_one_in_a_set(vars_) ==
  Formula("or", << >>, Append([i \in DOMAIN vars_ |-> OnlyOne(vars_, i)],
                              And([j \in DOMAIN vars_ |-> - vars_[j]])))

\* One formula of each kind over the variables 1 .. 3, to be exported on its own.
Samples ==
  {constraint_implies(1, 2), constraint_implies_formula(1, constraint_iff(2, 3)),
   constraint_implied_by(constraint_iff(-2, 3), 1), Negated(constraint_iff(1, 2)),
   constraint_one_in_a_set(<<1, 2, 3>>), constraint_at_most_one_in_a_set(<<1, 2, 3>>),
   constraint_at_least_one_in_a_set(<<1, 2, 3>>), Or(<< >>), And(<< >>)}

\* export_cnf: a new variable that is equivalent to the formula, the
\* literals and then the nested formulas, each with a variable of its own.
Export(f, st) ==
  LET s == IF f.con = "or" THEN 1 ELSE -1
      out == Max({st.nVars, MaxVar(f)}) + 1
      Nested(acc, g) ==
        LET inner == Export(g, acc)
        IN [outs |-> Append(acc.outs, inner.out), nVars |-> inner.nVars,
            clauses |-> inner.clauses \union {{-s * inner.out, s * out}}]
      all == FoldLeft(Nested,
                      [outs |-> << >>, nVars |-> out,
                       clauses |-> st.clauses \union {{-s * lit, s * out} : lit \in ToSet(f.lits)}],
                      f.formuli)
      big_clause == {s * lit : lit \in ToSet(f.lits) \union ToSet(all.outs)} \union {-s * out}
  IN [out |-> out, nVars |-> all.nVars, clauses |-> all.clauses \union {big_clause}]

-----------------------------------------------------------------------------
(* tsp2cnf.  Vertices are numbered from 0; vid2var, eid2var.                *)

Vertices(g) == 0 .. g.n - 1
vid2var(v) == v + 1
edge2eid(g, u, v) == g.n * u + v
eid2var(g, offset, eid) == offset + eid + 1
eid2edge(g, eid) == <<eid \div g.n, eid % g.n>>
EdgeVar(g, offset, u, v) == eid2var(g, offset, edge2eid(g, u, v))
Reachable(g, offset, level, v) == offset + g.n * g.n + g.n * level + v + 1

\* The numbers 0 .. n - 1 that satisfy a test, in order.
InOrder(n, Test(_)) == SelectSeq([i \in 1 .. n |-> i - 1], Test)
VarsInto(g, offset, v) ==
  LET From(u) == <<u, v>> \in g.adjacency
      sources == InOrder(g.n, From)
  IN [i \in DOMAIN sources |-> EdgeVar(g, offset, sources[i], v)]
VarsOutOf(g, offset, u) ==
  LET To(v) == <<u, v>> \in g.adjacency
      targets == InOrder(g.n, To)
  IN [i \in DOMAIN targets |-> EdgeVar(g, offset, u, targets[i])]

Concat(n, Part(_)) == FoldLeft(LAMBDA acc, i : acc \o Part(i - 1), << >>, [i \in 1 .. n |-> i])

EdgeConstraints(g, offset) ==
  LET Of(eid) == LET edge == eid2edge(g, eid)
                     lit == eid2var(g, offset, eid)
                 IN <<constraint_implies(lit, vid2var(edge[1])),
                      constraint_implies(lit, vid2var(edge[2]))>>
  IN Concat(g.n * g.n, Of)

DegreeConstraints(g, offset) ==
  LET In(v) == <<constraint_implies_formula(vid2var(v), Or(VarsInto(g, offset, v)))>>
      Out(v) == <<constraint_implies_formula(vid2var(v), Or(VarsOutOf(g, offset, v)))>>
  IN Concat(g.n, In) \o Concat(g.n, Out)

Level00(g, offset) == [i \in 1 .. g.n |-> Reachable(g, offset, 0, i - 1)]
StartConstraints(g, offset) ==
  [i \in 1 .. g.n |-> constraint_implies(Reachable(g, offset, 0, i - 1), vid2var(i - 1))]
    \o <<constraint_at_least_one_in_a_set(Level00(g, offset))>>

\* A slip for Arrival: it does not matter whether the source was reached.
ArrivalAnywhere(g, offset, level, v) ==
  LET Other(u) == u # v /\ <<u, v>> \in g.adjacency
      sources == InOrder(g.n, Other)
  IN Or([i \in DOMAIN sources |-> EdgeVar(g, offset, sources[i], v)])

\* v is reached on a level over an edge from a vertex of the level before.
Arrival(g, offset, level, v) ==
  LET Other(u) == u # v /\ <<u, v>> \in g.adjacency
      sources == InOrder(g.n, Other)
      Step(u) == And(<<Reachable(g, offset, level - 1, u), EdgeVar(g, offset, u, v)>>)
  IN Formula("or", << >>, [i \in DOMAIN sources |-> Step(sources[i])])

Reached(g, offset, v) == Or([level \in 1 .. g.n |-> Reachable(g, offset, level, v)])

\* A formula exported on its own, and the constraint on the literal it got.
Defined(acc, f, Constraint(_)) ==
  LET e == Export(f, acc.solver)
  IN [solver |-> [nVars |-> e.nVars, clauses |-> e.clauses],
      constraints |-> Append(acc.constraints, Constraint(e.out)),
      defined |-> Append(acc.defined, <<e.out, f>>)]

WithArrivals(g, offset, start) ==
  LET Arrive(acc, i) ==
        LET level == (i - 1) \div g.n + 1
            v == (i - 1) % g.n
        IN Defined(acc, Arrival(g, offset, level, v),
                   LAMBDA lit : constraint_iff(lit, Reachable(g, offset, level, v)))
      BeReached(acc, i) ==
        Defined(acc, Reached(g, offset, i - 1),
                LAMBDA lit : constraint_implies(vid2var(i - 1), lit))
  IN FoldLeft(BeReached, FoldLeft(Arrive, start, [i \in 1 .. g.n * g.n |-> i]),
              [i \in 1 .. g.n |-> i])

\* vid_incoming_vars and vid_outgoing_vars are never cleared: a second call
\* appends the same variables to the lists of the first.
Appended(lists, n, Vars(_)) == [v \in DOMAIN lists |-> lists[v] \o Vars(v)]

Tsp2cnf ==
  /\ job \in Graphs /\ stage = "new"
  /\ LET g == job
         offset == g.numVars
         start == [solver |-> [nVars |-> offset + g.n * g.n + (g.n + 1) * g.n, clauses |-> {}],
                   constraints |-> EdgeConstraints(g, offset) \o DegreeConstraints(g, offset)
                                     \o StartConstraints(g, offset),
                   defined |-> << >>]
         all == WithArrivals(g, offset, start)
         whole == Export(Formula("and", << >>, all.constraints), all.solver)
     IN /\ solver' = [nVars |-> whole.nVars, clauses |-> whole.clauses \union {{whole.out}}]
        /\ tsp' = [offset |-> offset, constraints |-> all.constraints, defined |-> all.defined,
                   incoming |-> Appended(tsp.incoming, g.n, LAMBDA v : VarsInto(g, offset, v)),
                   outgoing |-> Appended(tsp.outgoing, g.n, LAMBDA v : VarsOutOf(g, offset, v)),
                   level00 |-> Level00(g, offset),
                   calls |-> tsp.calls + 1]
  /\ stage' = "encoded"
  /\ UNCHANGED <<job, assignment>>

\* reset_formula: the next round starts from a new solver.
ResetFormula ==
  /\ job \in Graphs /\ stage = "encoded" /\ tsp.calls = 1
  /\ stage' = "new" /\ solver' = [nVars |-> job.numVars, clauses |-> {}]
  /\ UNCHANGED <<job, tsp, assignment>>

-----------------------------------------------------------------------------
(* What may become true, with Edge_TSP_Theory's propagations: at most one   *)
(* edge of the graph into and out of a vertex, at most one start.           *)

AtMostOne(s) == Cardinality(s) <= 1
TrueEdges(g, true) ==
  {e \in Vertices(g) \X Vertices(g) : EdgeVar(g, tsp.offset, e[1], e[2]) \in true}

Assignments(g) ==
  LET edges == {e \in SUBSET g.adjacency :
                  \A v \in Vertices(g) : /\ AtMostOne({f \in e : f[1] = v})
                                         /\ AtMostOne({f \in e : f[2] = v})}
      others == {o \in SUBSET ({<<v, v>> : v \in Vertices(g)} \ g.adjacency) : AtMostOne(o)}
  IN {<<v, e \union o, start>> : v \in SUBSET Vertices(g), e \in edges, o \in others,
                                start \in {s \in SUBSET Vertices(g) : AtMostOne(s)}}

\* The variables that follow from those: levels, then formulas exported.
Levels(g, edges, start) ==
  LET reached[level \in 0 .. g.n] ==
        IF level = 0 THEN start
        ELSE {v \in Vertices(g) : \E u \in reached[level - 1] \ {v} :
                <<u, v>> \in edges \intersect g.adjacency}
  IN {Reachable(g, tsp.offset, level, v) : <<level, v>> \in
        {c \in (0 .. g.n) \X Vertices(g) : c[2] \in reached[c[1]]}}

WithDefined(true) ==
  FoldLeft(LAMBDA acc, d : IF Value(d[2], acc) THEN acc \union {d[1]} ELSE acc,
           true, tsp.defined)

Assign ==
  /\ job \in Graphs /\ stage = "encoded"
  /\ \E a \in Assignments(job) :
       assignment' = WithDefined({vid2var(v) : v \in a[1]}
                                   \union {EdgeVar(job, tsp.offset, e[1], e[2]) : e \in a[2]}
                                   \union Levels(job, a[2], a[3]))
  /\ stage' = "assigned"
  /\ UNCHANGED <<job, solver, tsp>>

ExportSample ==
  /\ job \in Samples /\ stage = "new"
  /\ LET e == Export(job, solver)
     IN solver' = [nVars |-> e.nVars, clauses |-> e.clauses, out |-> e.out]
  /\ stage' = "encoded"
  /\ UNCHANGED <<job, tsp, assignment>>

Init ==
  /\ job \in Graphs \union Samples
  /\ stage = "new" /\ assignment = {}
  /\ \/ /\ job \in Graphs
        /\ solver = [nVars |-> job.numVars, clauses |-> {}]
        /\ tsp = NoTsp @@ [incoming |-> [v \in Vertices(job) |-> << >>],
                          outgoing |-> [v \in Vertices(job) |-> << >>]]
     \/ /\ job \in Samples
        /\ solver = [nVars |-> 3, clauses |-> {}]
        /\ tsp = NoTsp

Next == Tsp2cnf \/ ResetFormula \/ Assign \/ ExportSample
-----------------------------------------------------------------------------
\* One cycle through the vertices, two of them or more.
IsTour(vertices, edges, start) ==
  /\ Cardinality(vertices) > 1 /\ Cardinality(start) = 1 /\ start \subseteq vertices
  /\ \A v \in vertices : /\ Cardinality({e \in edges : e[1] = v}) = 1
                          /\ Cardinality({e \in edges : e[2] = v}) = 1
  /\ \A s \in SUBSET vertices \ {{}} :
       (\A e \in edges : e[1] \in s => e[2] \in s) => s = vertices

\* The constraints of tsp2cnf and the propagations of the theory leave
\* exactly the tours of the true vertices (of two vertices or more), whatever
\* edges between them that the graph does not have are true besides.
EncodingIsTours ==
  stage = "assigned" =>
    LET vertices == {v \in Vertices(job) : vid2var(v) \in assignment}
        edges == TrueEdges(job, assignment)
        start == {v \in Vertices(job) : Reachable(job, tsp.offset, 0, v) \in assignment}
    IN (\A i \in DOMAIN tsp.constraints : Value(tsp.constraints[i], assignment))
         <=> /\ IsTour(vertices, edges \intersect job.adjacency, start)
             /\ edges \subseteq vertices \X vertices

\* The lists the theory propagates along hold the edges at each vertex, once
\* for every call.
ListsAreTheEdges ==
  job \in Graphs => \A v \in Vertices(job) :
    /\ ToSet(tsp.incoming[v]) \subseteq {EdgeVar(job, job.numVars, u, v) : u \in Vertices(job)}
    /\ Len(tsp.incoming[v]) = tsp.calls * Cardinality({e \in job.adjacency : e[2] = v})

\* The clauses of export_cnf define the new variable: every assignment of
\* the formula's variables extends to one model of them, in which the new
\* variable has the value of the formula.
Satisfies(true, clauses) == \A c \in clauses : \E lit \in c : Holds(true, lit)
ExportDefines ==
  job \in Samples /\ stage = "encoded" =>
    \A true \in SUBSET (1 .. 3) :
      LET models == {more \in SUBSET (4 .. solver.nVars) : Satisfies(true \union more, solver.clauses)}
      IN /\ Cardinality(models) = 1
         /\ \A more \in models : solver.out \in more <=> Value(job, true)
=============================================================================
