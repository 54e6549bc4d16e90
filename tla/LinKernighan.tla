---------------------------- MODULE LinKernighan ----------------------------
(***************************************************************************)
(* The local search of cbLKH (cbLKH/SRC/LKHmain.c, FindTour.c,              *)
(* LinKernighan.c) with MOVE_TYPE = 3 (Best3OptMove.c), the program cbTSP   *)
(* starts for a tour of four or more vertices.  A run is a number of        *)
(* trials; a trial takes some tour, improves it as long as it can, and      *)
(* merges it with the best tour of the run.  A search works on the nodes of *)
(* a queue: with the node t1 and one of its neighbours it makes a chain of  *)
(* 3-opt moves on the two-level list until one gains, and then keeps the    *)
(* tour (StoreTour), or none is left, and then takes the whole chain back   *)
(* (RestoreTour).                                                           *)
(*                                                                          *)
(* The parameters are the defaults of ReadParameters.c but for MOVE_TYPE,   *)
(* and GAIN23, which is off; STOP_AT_MAX_COST is on, as TSP::LKH asks       *)
(* (tsp.cpp:226).  Penalties Pi are zero (no subgradient optimisation) and  *)
(* Precision is 1, so that C is the distance, and every node is a candidate *)
(* of every other (MAX_CANDIDATES is large).  The order of the candidates,  *)
(* which changes as tours are found, is left open, and with it which of     *)
(* several moves is met first.                                              *)
(***************************************************************************)
EXTENDS TwoLevelTour

CONSTANT Instances
  \* the problems: [asymmetric: whether TYPE is ATSP,
  \*                weights: the matrix of the problem file,
  \*                tree: the edges of the minimum spanning tree (Dad),
  \*                maxSwaps, maxTrials, runs, maxCost: the parameters,
  \*                given: how many vertices of a start tour are (a bound)]

NoCost == 1000000   \* above the cost of a tour: PLUS_INFINITY, INT_MAX

VARIABLES
  inst,     \* the problem and its parameters
  pc,       \* where the program is
  T,        \* the tour, a two-level list (TwoLevelTour)
  cost,     \* Cost: of the tour last kept
  move,     \* the locals t1, t2, SUCt1, X2, G0; and from, the first t2
  queue,    \* the active nodes, from FirstActive to LastActive
  old,      \* OldPred and OldSuc of a node
  excl,     \* OldPredExcluded and OldSucExcluded of a node
  table,    \* HTable: the pairs <<Hash, Cost>> inserted in this run
  trial, run,
  better,   \* BetterCost and BetterTour (with BestSuc): the best of this run
  best,     \* BestCost and BestTour, and CostMin of the statistics
  tried     \* history: the neighbours a node was tried with, in vain, since
            \* it last left the queue

searchVars == <<T, cost, move, queue, old, excl, tried>>
roundVars == <<trial, run, better, best>>
vars == <<inst, pc, table, searchVars, roundVars>>

\* Of an asymmetric problem ReadProblem makes two nodes for each vertex v: v for
\* leaving it and n + v for entering it, fixed to each other.
n == Len(inst.weights)
Dimension == IF inst.asymmetric THEN 2 * n ELSE n
Nodes == 1 .. Dimension
Fixed(a, b) == inst.asymmetric /\ a - b \in {n, -n}
Forbidden(a, b) == inst.asymmetric /\ (a <= n) = (b <= n)

\* The tours over given orders of the vertices: with two nodes for each, from
\* either node of the first vertex, in either direction.
Orders == {p \in Permutations(1 .. n) : inst.asymmetric \/ p[1] = 1}
ToursOver(orders) ==
  LET doubled == {[i \in Nodes |-> IF i % 2 = 1 THEN n + p[(i + 1) \div 2]
                                   ELSE p[i \div 2]] : p \in orders}
      forward == doubled \cup {Append(Tail(p), Head(p)) : p \in doubled}
  IN IF inst.asymmetric THEN forward \cup {Reverse(p) : p \in forward} ELSE orders
Tours == ToursOver(Orders)
\* Those a trial may start with: the first vertices of some are given.
StartTours == ToursOver({p \in Orders : \A i \in 1 .. inst.given : p[i] = i})

Tour(edges, c) == [edges |-> edges, cost |-> c]
NoTour == Tour({}, NoCost)

\* The distance of two nodes.  Two nodes of one kind are too far apart (M) for
\* a tour (Distance_ATSP).
TooFarApart == 1000
Dist(e) ==
  LET a == Min(e)
      b == Max(e)
  IN IF Forbidden(a, b) THEN TooFarApart
     ELSE IF Fixed(a, b) THEN 0
     ELSE inst.weights[a][IF inst.asymmetric THEN b - n ELSE b]
CostOf(edges) == MapThenSumSet(Dist, edges)

\* C_FUNCTION: the cost of a tour edge is the one kept with it.
C(a, b) ==
  Dist(CASE T.link["suc"][a] = b -> T.paid["suc"][a]
         [] T.link["pred"][a] = b -> T.paid["pred"][a]
         [] OTHER -> {a, b})

Candidates(a) == {b \in Nodes : b # a /\ ~Forbidden(a, b)}
\* The Cost of a node: of its cheapest candidate edge off the tour last kept.
OffTourCost(a) ==
  Min({NoCost} \cup {Dist({a, b}) :
        b \in {c \in Candidates(a) : c # old[a].pred /\ c # old[a].suc}})

NotExcluded == [pred |-> FALSE, suc |-> FALSE]
Neighbours(S, a) == [pred |-> S.link["pred"][a], suc |-> S.link["suc"][a]]

\* A slip for Exclude: only one end is told.
ExcludeOneEnd(S, flags, a, b) ==
  LET told(x, y) == [pred |-> flags[x].pred \/ y = old[x].pred,
                     suc |-> flags[x].suc \/ (y = old[x].suc /\ y # old[x].pred)]
  IN IF Adjacent(S, a, b) THEN flags
     ELSE [flags EXCEPT ![a] = told(a, b)]

\* Exclude(a, b), on the tour S: it tells each end that the edge to the other
\* has left the tour last kept.
Exclude(S, flags, a, b) ==
  LET told(x, y) == [pred |-> flags[x].pred \/ y = old[x].pred,
                     suc |-> flags[x].suc \/ (y = old[x].suc /\ y # old[x].pred)]
  IN IF Adjacent(S, a, b) THEN flags
     ELSE [flags EXCEPT ![a] = told(a, b), ![b] = told(b, a)]

\* Excludable(a, b): the edge was in the tour last kept, and has not left it
\* in this chain and come back.
Excludable(a, b) ==
  IF a = old[b].pred THEN ~excl[b].pred
  ELSE a = old[b].suc /\ ~excl[b].suc

Activate(q, a) == IF Contains(q, a) THEN q ELSE Append(q, a)

\* A slip for StackNodes: the last node of each move is passed over.
StackNodesButLast(S) ==
  FlattenSeq(Reverse([i \in DOMAIN S.stack |-> SubSeq(S.stack[i], 1, 3)]))

\* The nodes of the stack as StoreTour and RestoreTour meet them.
StackNodes(S) == FlattenSeq(Reverse(S.stack))

-----------------------------------------------------------------------------
\* The oracle MergeWithTour: the first tour, or one made of edges of both
\* that is shorter than both.
Merged(edges, other) ==
  {edges} \cup {e \in {SeqEdges(t) : t \in Tours} :
     e \subseteq edges \cup other
       /\ CostOf(e) < CostOf(edges) /\ CostOf(e) < CostOf(other)}

\* The tours a trial may end with: the one found is merged with the best of the
\* run, if there is one, and if the problem is symmetric, and neither is better
\* than the tour 1, 2, ... (Ordinal), with that.
Ordinal == SeqEdges([i \in Nodes |-> i])
Outcomes ==
  LET first == IF better = NoTour THEN {T.hash} ELSE Merged(T.hash, better.edges)
  IN UNION {IF /\ ~inst.asymmetric
               /\ CostOf(e) >= CostOf(Ordinal) /\ better.cost > CostOf(Ordinal)
            THEN Merged(e, Ordinal) ELSE {e} : e \in first}

\* ChooseInitialTour, and the head of LinKernighan.  The time limit is read
\* before the trial and may have passed from the second on.
StartTrial ==
  /\ pc = "trial" /\ trial <= inst.maxTrials
  /\ \E t \in StartTours :
       LET S == BuiltTour(t)
       IN /\ T' = S
          /\ cost' = CostOf(S.hash)
          /\ queue' = t
          /\ old' = [a \in Nodes |-> Neighbours(S, a)]
  /\ excl' = [a \in Nodes |-> NotExcluded]
  /\ tried' = [a \in Nodes |-> {}]
  /\ pc' = "anchor"
  /\ UNCHANGED <<inst, move, table, roundVars>>

Idle == [t1 |-> 0, t2 |-> 0, from |-> 0, suc1 |-> 0, x2 |-> 0, g0 |-> 0]

\* RemoveFirstActive, and SUCt1 put aside: the moves may turn the tour round.
NextAnchor ==
  /\ pc = "anchor" /\ queue # << >>
  /\ move' = [Idle EXCEPT !.t1 = Head(queue), !.suc1 = SUC(T, Head(queue)),
                          !.x2 = 1]
  /\ queue' = Tail(queue)
  /\ tried' = [tried EXCEPT ![Head(queue)] = {}]
  /\ pc' = "neighbour"
  /\ UNCHANGED <<inst, T, cost, old, excl, table, roundVars>>

\* No node is active: the tour is entered in the table, if it is not there.
LocalOptimum ==
  /\ pc = "anchor" /\ queue = << >>
  /\ table' = table \cup {<<T.hash, cost>>}
  /\ pc' = "merge"
  /\ UNCHANGED <<inst, searchVars, roundVars>>

\* Near: on the best tour of the run, or before there is one in the tree.
Near(a, b) == {a, b} \in IF better = NoTour THEN inst.tree ELSE better.edges

\* Fixed edges are not tried, and the search is restricted to those not near.
NextNeighbour ==
  LET t2 == IF move.x2 = 1 THEN PRED(T, move.t1) ELSE move.suc1
      skip == Fixed(move.t1, t2) \/ Near(move.t1, t2)
  IN /\ pc = "neighbour" /\ move.x2 <= 2
     /\ move' = [move EXCEPT !.t2 = t2, !.from = t2, !.x2 = @ + 1,
                             !.g0 = IF skip THEN @ ELSE C(move.t1, t2)]
     /\ tried' = IF skip THEN [tried EXCEPT ![move.t1] = @ \cup {t2}] ELSE tried
     /\ pc' = IF skip THEN "neighbour" ELSE "chain"
     /\ UNCHANGED <<inst, T, cost, queue, old, excl, table, roundVars>>

NeighboursDone ==
  /\ pc = "neighbour" /\ move.x2 = 3
  /\ move' = Idle
  /\ pc' = "anchor"
  /\ UNCHANGED <<inst, T, cost, queue, old, excl, tried, table, roundVars>>

-----------------------------------------------------------------------------
\* Best3OptMove.  Facing is the tour turned so that t2 follows t1.  Of a choice
\* q = <<t3, t4>> or <<t3, t4, t5, t6>> the edges t1-t2, t3-t4, t5-t6 would go,
\* t2-t3, t4-t5 come, and t4 or t6 be joined to t1.
Facing == [T EXCEPT !.reversed = IF SUC(T, move.t1) = move.t2 THEN @ ELSE ~@]

Gain1(q) == move.g0 - Dist({move.t2, q[1]})
Gain2(q) == Gain1(q) + C(q[1], q[2])
Gain3(q) == Gain2(q) - Dist({q[2], q[3]})
Gain4(q) == Gain3(q) + C(q[3], q[4])

\* X4 = 1: t4 is before t3, so that joining it to t1 closes a tour.
Before(q) == q[2] = PRED(Facing, q[1])

Pairs ==
  {q \in Nodes \X Nodes :
     /\ q[1] \in Candidates(move.t2) /\ ~Adjacent(T, move.t2, q[1])
     /\ Gain1(q) > 0
     /\ Adjacent(T, q[1], q[2]) /\ ~Fixed(q[1], q[2])}

GainingPairs ==
  {q \in Pairs : /\ Before(q) /\ ~Forbidden(q[2], move.t1)
                 /\ Gain2(q) - C(q[2], move.t1) > 0}

\* Case6, which says how the three paths are put together again.
Case(q) ==
  IF Before(q) THEN IF Between(Facing, move.t2, q[3], q[2]) THEN 1 ELSE 2
  ELSE IF q[4] = SUC(Facing, q[3]) THEN 5 ELSE 6

ThirdPairs(q) ==
  {r \in Nodes \X Nodes :
     LET s == q \o r
     IN /\ r[1] \in Candidates(q[2]) /\ ~Adjacent(T, q[2], r[1])
        /\ Gain3(s) > 0
        /\ Adjacent(T, r[1], r[2]) /\ ~Fixed(r[1], r[2])
        /\ CASE ~Before(q) -> /\ Between(Facing, move.t2, r[1], q[1])
                              /\ r[2] # move.t1
             [] Before(q) /\ Case(s) = 1 -> r[2] = SUC(Facing, r[1])
             [] Before(q) /\ Case(s) = 2 -> r[2] = PRED(Facing, r[1])}

Triples == UNION {{q \o r : r \in ThirdPairs(q)} : q \in Pairs}

\* A slip for GainingTriples: a move that gains nothing is taken.
GainingTriplesOrEven ==
  {q \in Triples : /\ ~Forbidden(q[4], move.t1)
                   /\ Gain4(q) - C(q[4], move.t1) >= 0}

GainingTriples ==
  {q \in Triples : /\ ~Forbidden(q[4], move.t1)
                   /\ Gain4(q) - C(q[4], move.t1) > 0}

\* The moves that may be made without a gain: the last edge to go was in the
\* tour last kept and has not left it before in this chain, and the gain does
\* vary.  The best of them is made.
Tentative ==
  {q \in Triples :
     /\ Gain4(q) - 1 >= OffTourCost(q[4])
     /\ Len(T.stack) < inst.maxSwaps
     /\ Excludable(q[3], q[4])
     /\ ~(Gain2(q) = Gain4(q) /\ Gain3(q) = Gain1(q))}
Promising == {q \in Tentative : \A r \in Tentative : Gain4(r) <= Gain4(q)}

Swapped(S, swaps) == FoldLeft(LAMBDA R, m : Flip(R, m[1], m[2], m[3]), S, swaps)

\* A slip for Made: the last swap of Case 5 is left out.
MadeShort(q) ==
  LET t1 == move.t1
      t2 == move.t2
  IN Swapped(Facing,
       IF Len(q) = 2 THEN <<<<t1, t2, q[1]>>>>
       ELSE CASE Case(q) \in {1, 2} -> <<<<t1, t2, q[1]>>, <<q[4], q[3], q[2]>>>>
              [] Case(q) = 5 -> <<<<t1, t2, q[2]>>, <<q[4], q[3], q[2]>>>>
              [] Case(q) = 6 -> <<<<q[1], q[2], q[3]>>, <<t1, t2, q[1]>>>>)

\* Make3OptMove, or a single Swap1 for a pair.
Made(q) ==
  LET t1 == move.t1
      t2 == move.t2
  IN Swapped(Facing,
       IF Len(q) = 2 THEN <<<<t1, t2, q[1]>>>>
       ELSE CASE Case(q) \in {1, 2} -> <<<<t1, t2, q[1]>>, <<q[4], q[3], q[2]>>>>
              [] Case(q) = 5 -> <<<<t1, t2, q[2]>>, <<q[4], q[3], q[2]>>,
                                  <<q[4], t2, q[1]>>>>
              [] Case(q) = 6 -> <<<<q[1], q[2], q[3]>>, <<t1, t2, q[1]>>>>)

\* A move that gains is made and the tour kept: StoreTour activates the nodes
\* of all moves of the chain, notes their neighbours and empties the stack.
\* A tour already in the table ends the search; else t1 is active again.
Keep(S, gain) ==
  LET nodes == StackNodes(S)
      known == <<S.hash, cost - gain>> \in table
      activated == FoldLeft(Activate, queue, nodes)
  IN /\ T' = [S EXCEPT !.stack = << >>]
     /\ cost' = cost - gain
     /\ old' = [a \in Nodes |-> IF Contains(nodes, a) THEN Neighbours(S, a)
                                ELSE old[a]]
     /\ excl' = [a \in Nodes |-> IF Contains(nodes, a) THEN NotExcluded
                                 ELSE excl[a]]
     /\ queue' = IF known THEN activated ELSE Activate(activated, move.t1)
     /\ pc' = IF known THEN "merge" ELSE "anchor"
     /\ move' = Idle
     /\ UNCHANGED <<inst, tried, table, roundVars>>

\* Which gaining move is met first depends on the order of the candidates.
Improve ==
  /\ pc = "chain"
  /\ \/ \E q \in GainingPairs : Keep(Made(q), Gain2(q) - C(q[2], move.t1))
     \/ \E q \in GainingTriples : Keep(Made(q), Gain4(q) - C(q[4], move.t1))

NoGain == GainingPairs = {} /\ GainingTriples = {}

Extend ==
  /\ pc = "chain" /\ NoGain
  /\ \E q \in Promising :
       LET S == Made(q)
           flags == Exclude(S, Exclude(S, excl, move.t1, move.t2), q[1], q[2])
       IN /\ T' = S
          /\ excl' = Exclude(S, flags, q[3], q[4])
          /\ move' = [move EXCEPT !.t2 = q[4], !.g0 = Gain4(q)]
  /\ UNCHANGED <<inst, pc, cost, queue, old, tried, table, roundVars>>

\* RestoreTour: the moves of the stack are taken back, the last one first.
Restored(S) == FoldLeft(LAMBDA R, m : Undo(R), S, S.stack)

GiveUp ==
  /\ pc = "chain" /\ NoGain /\ Promising = {}
  /\ T' = Restored(Facing)
  /\ excl' = [a \in Nodes |-> IF Contains(StackNodes(T), a) THEN NotExcluded
                              ELSE excl[a]]
  /\ tried' = [tried EXCEPT ![move.t1] = @ \cup {move.from}]
  /\ pc' = "neighbour"
  /\ UNCHANGED <<inst, cost, move, queue, old, table, roundVars>>

-----------------------------------------------------------------------------
\* A slip for EndTrial: every tour is recorded, better or not.
EndTrialRecords ==
  /\ pc = "merge"
  /\ \E e \in Outcomes :
       LET c == IF e = T.hash THEN cost ELSE CostOf(e)
           record == c < better.cost
           stop == record /\ c <= inst.maxCost
       IN /\ better' = Tour(e, c)
          /\ table' = IF record /\ ~stop THEN {<<e, c>>} ELSE table
          /\ pc' = IF stop THEN "run" ELSE "trial"
          /\ trial' = IF stop THEN trial ELSE trial + 1
  /\ UNCHANGED <<inst, searchVars, run, best>>

\* The rest of the trial in FindTour: the tour is recorded if it is better than
\* the best of the run.  The table then
\* starts again from it, under the hash MergeWithTour leaves.
EndTrial ==
  /\ pc = "merge"
  /\ \E e \in Outcomes :
       LET c == IF e = T.hash THEN cost ELSE CostOf(e)
           record == c < better.cost
           stop == record /\ c <= inst.maxCost
       IN /\ better' = IF record THEN Tour(e, c) ELSE better
          /\ table' = IF record /\ ~stop THEN {<<e, c>>} ELSE table
          /\ pc' = IF stop THEN "run" ELSE "trial"
          /\ trial' = IF stop THEN trial ELSE trial + 1
  /\ UNCHANGED <<inst, searchVars, run, best>>

EndTrials ==
  /\ pc = "trial" /\ trial > 1
  /\ pc' = "run"
  /\ UNCHANGED <<inst, table, searchVars, roundVars>>

\* The rest of the run in main: from the second on its tour is merged with
\* the best one, which it replaces if it is better.
EndRun ==
  /\ pc = "run"
  /\ \E e \in IF run = 1 THEN {better.edges} ELSE Merged(better.edges, best.edges) :
       LET c == IF e = better.edges THEN better.cost ELSE CostOf(e)
           stop == c <= inst.maxCost \/ run = inst.runs
       IN /\ best' = [edges |-> IF c < best.cost THEN e ELSE best.edges,
                      cost |-> Min({c, best.cost}), min |-> Min({c, best.min})]
          /\ pc' = IF stop THEN "stop" ELSE "trial"
          /\ run' = IF stop THEN run ELSE run + 1
          /\ trial' = IF stop THEN trial ELSE 1
          /\ better' = IF stop THEN better ELSE NoTour
          /\ table' = IF stop THEN table ELSE {}
  /\ UNCHANGED <<inst, searchVars>>

Stopped == pc = "stop" /\ UNCHANGED vars

Init ==
  /\ inst \in Instances
  /\ pc = "trial" /\ trial = 1 /\ run = 1
  /\ T = BuiltTour([i \in Nodes |-> i])
  /\ cost = NoCost /\ move = Idle /\ queue = << >>
  /\ old = [a \in NodesOf(T) |-> Neighbours(T, a)]
  /\ excl = [a \in NodesOf(T) |-> NotExcluded]
  /\ tried = [a \in NodesOf(T) |-> {}]
  /\ table = {} /\ better = NoTour
  /\ best = [edges |-> {}, cost |-> NoCost, min |-> NoCost]

Next ==
  \/ StartTrial \/ NextAnchor \/ LocalOptimum \/ NextNeighbour \/ NeighboursDone
  \/ Improve \/ Extend \/ GiveUp
  \/ EndTrial \/ EndTrials \/ EndRun \/ Stopped

\* WF_vars(Next) spelled out: Next is enabled in every state and changes it,
\* but for the last one.  There is one thread and nothing in it waits.
Fairness == []<>(pc = "stop") \/ []<><<TRUE>>_vars
Spec == Init /\ [][Next]_vars /\ Fairness
-----------------------------------------------------------------------------
(* What the list and the search promise.                                    *)

Searching == pc \in {"anchor", "neighbour", "chain", "merge"}

\* The nodes as a walk round the tour meets them.
Walk(S) ==
  FoldLeft(LAMBDA w, i : Append(w, SUC(S, Last(w))), <<1>>,
           [i \in 1 .. Cardinality(NodesOf(S)) - 1 |-> i])
OneCycle(S) == Range(Walk(S)) = NodesOf(S)
LinksMutual(S) == \A x \in NodesOf(S) : PRED(S, SUC(S, x)) = x
CostsCurrent(S) ==
  \A x \in NodesOf(S), side \in Sides : S.paid[side][x] = {x, S.link[side][x]}

\* A segment is a stretch of nodes with rising ranks from First to Last.
Stretch(S, seg) ==
  LET members == {x \in NodesOf(S) : S.parent[x] = seg}
      first == S.tip["pred"][seg]
      last == S.tip["suc"][seg]
  IN /\ {first, last} \subseteq members /\ S.size[seg] = Cardinality(members)
     /\ S.rank[last] - S.rank[first] + 1 = S.size[seg]
     /\ \A x \in members \ {last} :
          LET m == S.link["suc"][x]
          IN m \in members /\ S.rank[m] = S.rank[x] + 1 /\ S.link["pred"][m] = x

\* The segments follow each other in a ring, in the order of their ranks, and
\* the nodes at their ends meet as the bits say.
Ring(S) ==
  LET ranks == Range(S.srank)
  IN /\ Cardinality(ranks) = Cardinality(SegmentsOf(S))
     /\ Max(ranks) - Min(ranks) + 1 = Cardinality(ranks)
     /\ \A seg \in SegmentsOf(S) :
          LET next == S.slink["suc"][seg]
              out == IF S.srev[seg] THEN "pred" ELSE "suc"
              in == IF S.srev[next] THEN "suc" ELSE "pred"
          IN /\ S.slink["pred"][next] = seg
             /\ S.srank[next] = IF S.srank[seg] = Max(ranks) THEN Min(ranks)
                                ELSE S.srank[seg] + 1
             /\ S.link[out][S.tip[out][seg]] = S.tip[in][next]
             /\ S.link[in][S.tip[in][next]] = S.tip[out][seg]

\* Whenever a chain is about to ask Between_SL, its answers agree with a walk
\* round the tour, for any three nodes: it decides from ranks and bits alone,
\* whatever order these have got into (Between_SL.c:17-44).
BetweenAgrees ==
  pc = "chain" =>
    LET w == Walk(Facing)
        steps(i, j) == (j - i) % Len(w)
    IN \A i, j, k \in DOMAIN w :
         Between(Facing, w[i], w[j], w[k]) <=> steps(i, j) <= steps(i, k)

\* After any chain of moves, splits and undone moves the two-level list is one
\* cycle over all nodes, its segments tile it, the costs kept with its links are
\* those of the links, and Between_SL is right (Flip_SL.c:44-269).
ListSound ==
  Searching =>
    /\ OneCycle(T) /\ LinksMutual(T) /\ CostsCurrent(T)
    /\ \A seg \in SegmentsOf(T) : Stretch(T, seg)
    /\ Ring(T)
    /\ BetweenAgrees

\* The cost the search keeps by subtracting gains is that of the tour, in the
\* middle of a chain but for what the chain still owes; and the hash it keeps
\* by differences is that of the tour (LinKernighan.c:127,
\* Flip_SL.c:266-268).
GainsAdd ==
  Searching =>
    /\ T.hash = EdgesOf(T)
    /\ CostOf(EdgesOf(T)) =
         IF pc = "chain" THEN cost - move.g0 + Dist({move.t1, move.t2})
         ELSE cost

\* A chain can be taken back at any point: undoing its moves gives a tour with
\* the fixed edges and no forbidden one, of the cost last kept, in which every
\* node has its old neighbours; an edge of it that is now gone is flagged at
\* both ends, so that the chain ends; between chains nothing is flagged; and
\* the stack has room for MaxSwaps and the last move (AllocateStructures.c:63,
\* RestoreTour.c:11-31, StoreTour.c:21-43, Exclude.c:10-22).
ChainRevocable ==
  Searching =>
    LET kept == EdgesOf(Restored(T))
        now == EdgesOf(T)
    IN /\ \A a, b \in Nodes : Fixed(a, b) => {a, b} \in kept
       /\ \A e \in kept : ~Forbidden(Min(e), Max(e))
       /\ CostOf(kept) = cost
       /\ Len(T.stack) <= inst.maxSwaps + 2
       /\ \A x \in Nodes : /\ {{x, old[x].pred}, {x, old[x].suc}} \subseteq kept
                           /\ old[x].pred # old[x].suc
                           /\ {x, old[x].pred} \notin now => excl[x].pred
                           /\ {x, old[x].suc} \notin now => excl[x].suc
       /\ pc # "chain" => now = kept /\ \A x \in Nodes : excl[x] = NotExcluded

\* A node that has left the queue has been tried, in vain, with both the
\* neighbours it has on the tour last kept: nobody changed them without
\* activating it, and turning the tour round between the two attempts did not
\* try one neighbour twice (LinKernighan.c:103-147, StoreTour.c:21-43).
PassiveNodesTried ==
  Searching => \A x \in Nodes :
    Contains(queue, x) \/ x = move.t1 \/ tried[x] = {old[x].pred, old[x].suc}

\* What is written is a tour with the fixed edges and none that is forbidden,
\* of the cost that is printed as Cost.min, and no run has ended with a better
\* one; so is the best tour of the run, and no local optimum in the table is better
\* (LKHmain.c:55-120, FindTour.c:63-100).
AnswerIsReal ==
  LET real(t) == t.cost < NoCost =>
                   /\ t.edges \in {SeqEdges(s) : s \in Tours}
                   /\ t.cost = CostOf(t.edges)
  IN ~Searching =>
     /\ real(better) /\ real(best)
     /\ best.min = best.cost
     /\ pc = "stop" => best.cost <= better.cost /\ best.cost < NoCost
     /\ pc \in {"trial", "run"} => \A entry \in table : better.cost <= entry[2]

\* A search ends: gains are positive and a chain cannot leave an edge twice.
Terminates == <>(pc = "stop")
=============================================================================
