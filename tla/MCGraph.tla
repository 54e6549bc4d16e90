-------------------------------- MODULE MCGraph --------------------------------
(***************************************************************************)
(* What a graph goes through before and beside the search for assignments: *)
(* it is read from a file, its tours are written as clauses, and theories  *)
(* follow the edges or vertices that become true.  A behaviour is that of  *)
(* one of the three.                                                       *)
(***************************************************************************)
EXTENDS MCFiles, TheoryCallbacks, TLC

VARIABLES which, job, stage, at, graph, reader, solver, tsp, assignment

partVars == <<which, vars, job, stage, at, graph, reader, solver, tsp, assignment>>

-----------------------------------------------------------------------------
\* Graphs of two vertices with loops, of three and four with edges missing.
EncodedGraphs ==
  {[n |-> 2, numVars |-> 2, adjacency |-> Cells(2)],
   [n |-> 3, numVars |-> 4, adjacency |-> {e \in Cells(3) : e[1] # e[2]} \ {<<0, 1>>}],
   [n |-> 4, numVars |-> 4, adjacency |-> {e \in Cells(4) : e[1] # e[2]} \ {<<0, 1>>, <<2, 0>>, <<3, 1>>}]}

File == INSTANCE ProblemFile WITH
          Files <- AllFiles, INF <- Big, Geo <- NoGeo, file <- job, step <- stage
Encoding == INSTANCE TourEncoding WITH
          Graphs <- EncodedGraphs

\* Weights of n vertices, all adjacent: in a graph that metric() accepts, as
\* enable_mst_theory asks, vertices with a path between them are.
Weights(n, f(_, _)) == [e \in {c \in Cells(n) : c[1] # c[2]} |-> f(Min({e[1], e[2]}), Max({e[1], e[2]}))]
Complete(n, weights) == [n |-> n, weight |-> weights, adjacency |-> DOMAIN weights]
Triangle == Complete(3, Weights(3, LAMBDA u, v : u + v))
Four == Complete(4, Weights(4, LAMBDA u, v : ((2 * (u + 1) * (v + 2)) % 7) + 3))

Setup(name, numVars, edge, level00, g, budget, lit_set) ==
  [theory |-> name, numVars |-> numVars, edge |-> edge, level00 |-> level00, graph |-> g,
   budget |-> budget, lit_set |-> lit_set]
Edges(vars_) == [v \in vars_ |-> CASE v = 1 -> <<0, 1>> [] v = 2 -> <<1, 2>> [] v = 3 -> <<0, 2>>]

\* Budgets of two edges and of all; two starts; four vertices; a constraint
\* over three literals.
TheorySetups ==
  {Setup("edge", 4, Edges(1 .. 3), {4}, Triangle, budget, {}) : budget \in {3, 6}}
    \union {Setup("edge", 4, Edges(1 .. 2), {3, 4}, Triangle, 3, {})}
    \union {Setup("mst", 4, Edges({}), {}, Four, 20, {})}
    \union {Setup("cardinality", 3, Edges({}), {}, Triangle, 3, {1, -2, 3})}

\* The variables of a part that is idle.
none == 0
NoFile == at = none /\ graph = none /\ reader = none
NoEncoding == solver = none /\ tsp = none /\ assignment = none
NoJob == job = none /\ stage = none
NoCallbacks ==
  /\ setup = none /\ turn = "idle" /\ trail = none /\ theory = none
  /\ clause = {} /\ fixed = none /\ fresh = FALSE

PartsInit ==
  \/ which = "file" /\ File!Init /\ NoEncoding /\ NoCallbacks
  \/ which = "encoding" /\ Encoding!Init /\ NoFile /\ NoCallbacks
  \/ which = "callbacks" /\ Init /\ NoJob /\ NoFile /\ NoEncoding

PartsNext ==
  \/ /\ which = "file" /\ File!Next
     /\ UNCHANGED <<which, vars, solver, tsp, assignment>>
  \/ /\ which = "encoding" /\ Encoding!Next
     /\ UNCHANGED <<which, vars, at, graph, reader>>
  \/ /\ which = "callbacks" /\ Next
     /\ UNCHANGED <<which, job, stage, at, graph, reader, solver, tsp, assignment>>

PartsSpec == PartsInit /\ [][PartsNext]_partVars

-----------------------------------------------------------------------------
(* A file whose FORMAT follows its TYPE is read as it was meant, and weights *)
(* it rounds from coordinates are accepted as metric and symmetric.         *)
GraphAsWritten == which = "file" => File!GraphAsWritten /\ File!RoundedIsMetric

(* The constraints of tsp2cnf hold of the tours of the true vertices only,  *)
(* the clauses they are exported to define what stands for them, and the    *)
(* lists the theory propagates along are those of the edges.                *)
EncodingIsTours ==
  which = "encoding" =>
    Encoding!EncodingIsTours /\ Encoding!ListsAreTheEdges /\ Encoding!ExportDefines
=============================================================================
