------------------------------ MODULE MCCandidates ------------------------------
(***************************************************************************)
(* Problems of five nodes, symmetric and complete, some with fixed edges or *)
(* a Delaunay graph, and an asymmetric one of three nodes made symmetric.   *)
(***************************************************************************)
EXTENDS OneTrees, TLC

Pairs(n) == {p \in (1 .. n) \X (1 .. n) : p[1] < p[2]}
Mirrored(n, w) == [p \in {q \in (1 .. n) \X (1 .. n) : q[1] # q[2]} |->
                     IF p[1] < p[2] THEN w[p] ELSE w[<<p[2], p[1]>>]]

\* Some costs with few ties; c is a little below the cost.
Costs(n, a) ==
  Mirrored(n, [p \in Pairs(n) |->
    10 * (((a * (3 * p[1] * p[1] + 7 * p[2] + a * p[1] * p[2] + 5)) % 13) + ((a + p[1] * p[2]) % 7) + 1)])
Graph(n, cost, fixed, forbidden) ==
  [n |-> n, cost |-> cost, low |-> [p \in DOMAIN cost |-> cost[p] - (1 + ((p[1] + p[2]) % 2))],
   fixed |-> fixed, forbidden |-> forbidden]

Settings(max, symmetric, ascent, subgradient, excess, optimum) ==
  [max |-> max, symmetric |-> symmetric, ascent |-> ascent, subgradient |-> subgradient,
   precision |-> 10, period |-> 4, step |-> 1, excess |-> excess, optimum |-> optimum]
Problem(graph_, delaunay, settings) == [graph |-> graph_, delaunay |-> delaunay, settings |-> settings]

Ring5 == {<<1, 2>>, <<2, 3>>, <<3, 4>>, <<4, 5>>, <<1, 5>>}

\* The cities 1 to 3 and their copies 4 to 6.
Copies == {{1, 4}, {2, 5}, {3, 6}}
SameSide == {{1, 2}, {1, 3}, {2, 3}, {4, 5}, {4, 6}, {5, 6}}
Asymmetric(a) ==
  LET cost == [p \in DOMAIN Costs(6, a) |-> CASE {p[1], p[2]} \in Copies -> 0
                                             [] {p[1], p[2]} \in SameSide -> 5000
                                             [] OTHER -> Costs(6, a)[p]]
  IN Graph(6, cost, Copies, SameSide)

Complete ==
  {Problem(Graph(5, Costs(5, a), fixed, {}), {}, Settings(max, symmetric, 4, TRUE, excess, MinInt)) :
     a \in 1 .. 2, fixed \in {{}, {{1, 3}, {2, 4}}}, max \in {2, 3}, symmetric \in BOOLEAN,
     excess \in {1, 5}}
Unclimbed ==
  {Problem(Graph(5, Costs(5, a), fixed, {}), {}, Settings(3, symmetric, 4, FALSE, 1, 40)) :
     a \in 1 .. 4, fixed \in {{}, {{2, 3}, {3, 4}}}, symmetric \in BOOLEAN}
Delaunays ==
  {Problem(Graph(5, Costs(5, a), fixed, {}), Ring5 \union more, Settings(max, symmetric, 2, TRUE, 1, MinInt)) :
     a \in 1 .. 3, more \in {{<<1, 3>>, <<3, 5>>}, {<<2, 4>>, <<2, 5>>}}, max \in {2, 3},
     fixed \in {{}, {{1, 2}, {3, 4}}}, symmetric \in BOOLEAN}
Copied ==
  {Problem(Asymmetric(a), {}, Settings(max, TRUE, 3, TRUE, 5, optimum)) :
     a \in 1 .. 2, max \in {2, 3}, optimum \in {MinInt, 30}}

\* A hub next to all others: the bound more than doubles, and the ascent
\* starts again with more candidates.
Star(hub, y) ==
  Mirrored(5, [p \in Pairs(5) |-> IF hub \in {p[1], p[2]} THEN p[2] ELSE 10 * y * (1 + ((p[1] * p[2]) % 3))])
Stars ==
  {Problem(Graph(5, Star(hub, y), {}, {}), {},
           [Settings(2, FALSE, candidates, TRUE, 5, MinInt) EXCEPT !.step = 4]) :
     hub \in 2 .. 3, y \in {5, 20}, candidates \in 1 .. 2}

AllProblems == Complete \union Unclimbed \union Delaunays \union Copied \union Stars
=============================================================================
