----------------------------- MODULE CandidateSets -----------------------------
(***************************************************************************)
(* The candidate edges of cbLKH's nodes (CreateCandidateSet): the ascent   *)
(* that looks for good penalties Pi, the alpha-values of the edges, the    *)
(* sets that GenerateCandidates or OrderCandidateSet makes of them, and    *)
(* what AdjustCandidateSet and ResetCandidateSet do to the sets while      *)
(* tours are found.                                                        *)
(***************************************************************************)
EXTENDS OneTrees

\* A problem is a record [graph, delaunay, settings]: a graph of OneTrees, the
\* edges of its Delaunay graph, {} if CandidateSetType is ALPHA, and
\*   max        MaxCandidates                  symmetric  CandidateSetSymmetric
\*   ascent     AscentCandidates               subgradient, precision
\*   period     InitialPeriod                  step       InitialStepSize
\*   excess     1 / Excess                     optimum    MinInt if unknown
CONSTANTS Problems,
          MaxAdjust  \* bound: how many better tours a run finds

VARIABLES
  problem,  \* a member of Problems
  phase,    \* "start", "candidates", "ascent", "bounded", "ready", "adjusted", "stopped"
  pi,       \* the penalty of a node
  one,      \* what Minimum1TreeCost returned last
  cand,     \* the candidates of a node
  climb,    \* the variables of Ascent
  made,     \* the candidates as CreateCandidateSet left them
  best,     \* BestSuc: the best tour, as a set of edges
  adjusted  \* how many tours were better

vars == <<problem, phase, pi, one, cand, climb, made, best, adjusted>>

graph == problem.graph
set == problem.settings
Delaunay == problem.delaunay # {}
Nodes == 1 .. graph.n

Candidate(to, cost, alpha) == [to |-> to, cost |-> cost, alpha |-> alpha]
Knows(list, to) == \E i \in DOMAIN list : list[i].to = to
AlphaOf(list, to) == (CHOOSE k \in ToSet(list) : k.to = to).alpha
Larger(a, b) == IF a > b THEN a ELSE b
Abs(a) == IF a < 0 THEN - a ELSE a
Quotient(a, b) == IF a < 0 THEN - (- a \div b) ELSE a \div b

\* An int, of 2 * MaxInt values.
AsInt(x) == ((x + MaxInt) % (2 * MaxInt)) - MaxInt

-----------------------------------------------------------------------------
(* The sets.                                                                *)

IsPossibleCandidate(g, from, to) ==
  FixedOrCommon(g, from, to) \/ (~ FixedTo2(g, from) /\ ~ FixedTo2(g, to))

AddCandidate(g, cs, from, to, cost, alpha) ==
  IF from = to \/ ~ IsPossibleCandidate(g, from, to) THEN cs
  ELSE IF Knows(cs[from], to)
  THEN [cs EXCEPT ![from] = [i \in DOMAIN @ |->
          IF @[i].to = to /\ @[i].alpha = MaxInt THEN Candidate(to, @[i].cost, alpha) ELSE @[i]]]
  ELSE [cs EXCEPT ![from] = Append(@, Candidate(to, cost, alpha))]

AddBoth(g, cs, from, to, cost, alpha) ==
  AddCandidate(g, AddCandidate(g, cs, from, to, cost, alpha), to, from, cost, alpha)

\* No tour files: the fixed edges.
AddTourCandidates(g, p, cs, order) ==
  FoldLeft(LAMBDA acc, from :
             FoldLeft(LAMBDA a, to : AddCandidate(g, a, from, to, D(g, p, from, to), 0),
                      acc, SetToSeq({to \in DOMAIN cs : {from, to} \in g.fixed})),
           cs, order)

Better(k, than) == k.alpha < than.alpha \/ (k.alpha = than.alpha /\ k.cost < than.cost)
Placed(list, k) == InsertAt(list, Cardinality({i \in DOMAIN list : ~ Better(k, list[i])}) + 1, k)
Cut(list, size) == SubSeq(list, 1, Min({size, Len(list)}))

\* A slip for ResetList: the edges added are left where they are.
ResetListOpen(list) == FoldLeft(Placed, << >>, list)

\* The order is that of the alpha-values again; what was added goes, but two
\* candidates stay whatever they are.
ResetList(list) ==
  LET sorted == FoldLeft(Placed, << >>, list)
  IN Cut(sorted, Max({2} \union {i \in DOMAIN sorted : sorted[i].alpha # MaxInt}))
ResetCandidateSet(cs) == [v \in DOMAIN cs |-> ResetList(cs[v])]

TrimCandidateSet(cs, max) == [v \in DOMAIN cs |-> Cut(cs[v], max)]

SymmetrizeCandidateSet(g, cs, order) ==
  ResetCandidateSet(
    FoldLeft(LAMBDA acc, from :
               FoldLeft(LAMBDA a, k : AddCandidate(g, a, k.to, from, k.cost, k.alpha), acc, acc[from]),
             cs, order))

Completed(g, p, cs, order, symmetric) ==
  LET toured == AddTourCandidates(g, p, cs, order)
  IN IF symmetric THEN SymmetrizeCandidateSet(g, toured, order) ELSE toured

-----------------------------------------------------------------------------
(* GenerateCandidates: the alpha-values of all edges of a node.             *)

CostIfFree(g, tree, v) == IF FixedOrCommon(g, v, tree.dad[v]) THEN MinInt ELSE tree.cost[v]

\* A slip for Beta: the path is followed from the other node only.
RECURSIVE BetaUp(_, _, _, _)
BetaUp(g, tree, from, to) ==
  IF tree.dad[to] = 0 THEN MinInt
  ELSE Larger(BetaUp(g, tree, from, tree.dad[to]), CostIfFree(g, tree, to))

\* The dearest edge that is not fixed on the way between two nodes: up from
\* one to the first node that has the other below it, and down.
RECURSIVE Beta(_, _, _, _)
Beta(g, tree, from, to) ==
  LET path == Path(tree.dad, from)
      here == SelectInSeq(path, LAMBDA v : v = to)
  IN IF here # 0
     THEN Max({MinInt} \union {CostIfFree(g, tree, path[i]) : i \in 1 .. here - 1})
     ELSE Larger(Beta(g, tree, from, tree.dad[to]), CostIfFree(g, tree, to))

\* The first node is a leaf outside the tree, with one edge too many.
AlphaFrom(g, o, from, to, d) ==
  LET first == o.tree.order[1]
      Leaf(other) == IF other = o.tree.dad[first] THEN 0 ELSE d - o.nextCost
  IN CASE from = first -> Leaf(to)
       [] to = first -> Leaf(from)
       [] OTHER -> AsInt(d - Beta(g, o.tree, from, to))

\* The candidate to, as far as it is worked out: with the lower bound of the
\* cost first.
Estimate(g, p, o, from, to) ==
  LET d == c(g, p, from, to) IN Candidate(to, d, AlphaFrom(g, o, from, to, d))
Exact(g, p, o, from, to) ==
  LET e == Estimate(g, p, o, from, to)
      d == D(g, p, from, to)
  IN CASE FixedOrCommon(g, from, to) -> Candidate(to, d, MinInt)
       [] ~ FixedOrCommon(g, from, to) /\ to = o.tree.dad[from] -> Candidate(to, o.tree.cost[from], 0)
       [] ~ FixedOrCommon(g, from, to) /\ from = o.tree.dad[to] -> Candidate(to, o.tree.cost[to], 0)
       [] OTHER -> Candidate(to, d, e.alpha - e.cost + d)

Skipped(g, p, o, from, to, list, max, maxAlpha) ==
  LET e == Estimate(g, p, o, from, to)
  IN /\ ~ FixedOrCommon(g, from, to)
     /\ \/ FixedTo2(g, from) \/ FixedTo2(g, to) \/ Forbidden(g, from, to)
        \/ e.alpha > maxAlpha
        \/ Len(list) = max /\ ~ Better(e, Last(list))

CandidatesOf(g, p, o, from, max, maxAlpha) ==
  LET Visit(list, to) ==
        LET k == Exact(g, p, o, from, to)
        IN IF to = from \/ Skipped(g, p, o, from, to, list, max, maxAlpha) THEN list
           ELSE IF k.alpha > maxAlpha \/ ~ IsPossibleCandidate(g, from, to) THEN list
           ELSE Cut(Placed(list, k), max)
  IN FoldLeft(Visit, << >>, o.tree.order)

GenerateCandidates(g, p, o, max, maxAlpha, symmetric) ==
  Completed(g, p, [from \in 1 .. g.n |-> CandidatesOf(g, p, o, from, max, maxAlpha)],
            o.tree.order, symmetric)

-----------------------------------------------------------------------------
(* OrderCandidateSet: the alpha-values of the candidates there are, and of  *)
(* their candidates.                                                        *)

TreeEdgesAdded(g, cs, o) ==
  LET first == o.tree.order[1]
      dads == SelectSeq(o.tree.order, LAMBDA v : o.tree.dad[v] # 0)
      tree == FoldLeft(LAMBDA acc, v : AddBoth(g, acc, v, o.tree.dad[v], o.tree.cost[v], 0), cs, dads)
  IN AddBoth(g, tree, first, o.next, o.nextCost, 0)

Sons(tree, v) == Cardinality({w \in ToSet(Tail(tree.order)) : tree.dad[w] = v})
Depth(tree, v) == Len(Path(tree.dad, v))

\* Ancestor, AncestorSon and Beta: chains of only sons are jumped over.
Ancestors(g, tree) ==
  LET root == tree.order[2]
      own == [anc |-> [v \in 1 .. g.n |-> IF v = root THEN root ELSE tree.dad[v]],
              son |-> [v \in 1 .. g.n |-> v],
              beta |-> [v \in 1 .. g.n |-> IF v = root THEN MinInt ELSE CostIfFree(g, tree, v)]]
      Jump(a, v) ==
        LET to == tree.dad[v]
        IN IF Sons(tree, to) # 1 THEN a
           ELSE [anc |-> [a.anc EXCEPT ![v] = a.anc[to]], son |-> [a.son EXCEPT ![v] = a.son[to]],
                 beta |-> [a.beta EXCEPT ![v] = Larger(a.beta[to], @)]]
  IN FoldLeft(Jump, own, SubSeq(tree.order, 3, g.n))

\* Up to the ancestor in common.
RECURSIVE Meet(_, _, _, _, _)
Meet(tree, a, n1, n2, beta) ==
  CASE a.anc[n1] = a.anc[n2] -> <<n1, n2, beta>>
    [] a.anc[n1] # a.anc[n2] /\ Depth(tree, n1) > Depth(tree, n2) ->
         Meet(tree, a, a.anc[n1], n2, Larger(beta, a.beta[n1]))
    [] OTHER -> Meet(tree, a, n1, a.anc[n2], Larger(beta, a.beta[n2]))

CostsUp(tree, low, high) ==
  LET path == Path(tree.dad, low)
  IN {tree.cost[path[i]] : i \in 1 .. SelectInSeq(path, LAMBDA v : v = high) - 1}

\* Both are on one chain of only sons, or on two.
OnChains(tree, a, n1, n2, beta) ==
  LET low == IF Depth(tree, n1) < Depth(tree, n2) THEN n2 ELSE n1
      high == IF low = n1 THEN n2 ELSE n1
  IN CASE n1 = n2 -> beta
       [] n1 # n2 /\ a.son[n1] # a.son[n2] -> Max({beta, a.beta[n1], a.beta[n2]})
       [] n1 # n2 /\ a.son[n1] = a.son[n2] ->
            IF a.beta[low] > a.beta[high] THEN Larger(beta, a.beta[low])
            ELSE Max({beta} \union CostsUp(tree, low, high))

BetaValue(g, o, a, from, to) ==
  LET tree == o.tree
      first == tree.order[1]
      met == Meet(tree, a, from, to, MinInt)
  IN IF to = tree.dad[from] THEN tree.cost[from]
     ELSE IF from = tree.dad[to] THEN tree.cost[to]
     ELSE IF first \in {from, to} THEN o.nextCost
     ELSE OnChains(tree, a, met[1], met[2], met[3])

\* An alpha that is not fixed or forbidden.
FreeAlpha(g, o, a, from, to, cost, maxAlpha) ==
  LET beta == BetaValue(g, o, a, from, to)
      alpha == IF beta = MinInt THEN MaxInt ELSE Larger(cost - beta, 0)
  IN IF alpha > maxAlpha THEN MaxInt ELSE alpha

AlphasSet(g, o, cs, maxAlpha) ==
  LET a == Ancestors(g, o.tree)
      order == o.tree.order
      Known(acc, i, to) == to \in ToSet(SubSeq(order, 1, i - 1)) /\ Knows(acc[to], order[i])
      AlphaSet(acc, i, k) ==
        CASE FixedOrCommon(g, order[i], k.to) -> MinInt
          [] /\ ~ FixedOrCommon(g, order[i], k.to)
             /\ FixedTo2(g, order[i]) \/ FixedTo2(g, k.to) \/ Forbidden(g, order[i], k.to) -> MaxInt
          [] OTHER -> IF Known(acc, i, k.to) THEN AlphaOf(acc[k.to], order[i])
                      ELSE FreeAlpha(g, o, a, order[i], k.to, k.cost, maxAlpha)
      From(acc, i) == [acc EXCEPT ![order[i]] =
                         [j \in DOMAIN @ |-> [@[j] EXCEPT !.alpha = AlphaSet(acc, i, acc[order[i]][j])]]]
  IN FoldLeft(From, cs, [i \in 1 .. g.n |-> i])

\* The candidates of the candidates become candidates too.
Augmented(g, p, o, cs, maxAlpha) ==
  LET a == Ancestors(g, o.tree)
      order == o.tree.order
      Through(via) == <<[to |-> via, own |-> TRUE]>>
                        \o [j \in DOMAIN cs[via] |-> [to |-> cs[via][j].to, own |-> FALSE]]
      none == MaxInt + 1
      Alpha(acc, i, to) ==
        LET from == order[i]
            free == FreeAlpha(g, o, a, from, to, D(g, p, from, to), maxAlpha)
        IN CASE FixedOrCommon(g, from, to) -> MinInt
             [] /\ ~ FixedOrCommon(g, from, to)
                /\ FixedTo2(g, from) \/ FixedTo2(g, to) \/ Forbidden(g, from, to) -> none
             [] OTHER -> IF Knows(acc[to], from) THEN AlphaOf(acc[to], from)
                         ELSE IF to \in ToSet(SubSeq(order, 1, i - 1)) \/ free = MaxInt THEN none
                         ELSE free
      Step(i, s, e) ==
        LET from == order[i]
            alpha == Alpha(s.cs, i, e.to)
            marked == [s EXCEPT !.marks = @ \union {e.to}]
        IN IF e.own \/ e.to \in s.marks \/ Knows(s.cs[from], e.to) \/ alpha > maxAlpha
           THEN marked
           ELSE [marked EXCEPT !.cs = AddCandidate(g, @, from, e.to, D(g, p, from, e.to), alpha)]
      From(acc, i) ==
        FoldLeft(LAMBDA s, e : Step(i, s, e), [cs |-> acc, marks |-> {order[i]}],
                 FlattenSeq([j \in DOMAIN cs[order[i]] |-> Through(cs[order[i]][j].to)])).cs
  IN FoldLeft(From, cs, [i \in 1 .. g.n |-> i])

OrderCandidateSet(g, p, o, cs, max, maxAlpha, symmetric) ==
  LET known == AlphasSet(g, o, TreeEdgesAdded(g, cs, o), maxAlpha)
      ordered == TrimCandidateSet(ResetCandidateSet(Augmented(g, p, o, known, maxAlpha)), max)
  IN Completed(g, p, ordered, o.tree.order, symmetric)

-----------------------------------------------------------------------------
(* Ascent.                                                                  *)

Zero == [v \in Nodes |-> 0]
Empty == [v \in Nodes |-> << >>]

\* CreateDelaunayCandidateSet.
DelaunaySets(p, old) ==
  FoldLeft(LAMBDA cs, e : AddBoth(graph, cs, e[1], e[2], D(graph, p, e[1], e[2]), 1),
           old, SetToSeq(problem.delaunay))
FirstSets == IF Delaunay THEN DelaunaySets(Zero, cand)
             ELSE AddTourCandidates(graph, Zero, cand, [v \in Nodes |-> v])

OneTree(p, cs, order, sparse) == Minimum1Tree(graph, p, cs, order, sparse)
Order == one.tree.order
Sets(p, o, cs, max, maxAlpha, symmetric) ==
  IF Delaunay THEN OrderCandidateSet(graph, p, o, cs, max, maxAlpha, symmetric)
  ELSE GenerateCandidates(graph, p, o, max, maxAlpha, symmetric)

\* The difference from a known optimum, if there is any.
Gap(sum, else) ==
  LET gap == set.optimum * set.precision - sum
  IN IF set.optimum # MinInt /\ gap > 0 /\ gap < else THEN gap ELSE else

NoClimb == [T |-> 0, period |-> 0, P |-> 0, initial |-> FALSE, bestPi |-> Zero, bestW |-> 0,
            w0 |-> 0, bestNorm |-> 0, lastV |-> Zero, candidates |-> 0]

Init ==
  /\ problem \in Problems
  /\ phase = "start"
  /\ pi = Zero /\ cand = Empty /\ made = Empty /\ best = {} /\ adjusted = 0
  /\ climb = [NoClimb EXCEPT !.candidates = set.ascent]
  /\ one = [tree |-> [order |-> [v \in Nodes |-> v], dad |-> Zero, cost |-> Zero],
            next |-> 0, nextCost |-> 0, V |-> Zero, norm |-> 9999, sum |-> 0]

\* Start: and the first 1-tree, without penalties.
FirstTree ==
  /\ phase = "start"
  /\ pi' = Zero /\ cand' = FirstSets
  /\ one' = OneTree(pi', cand', Order, Delaunay)
  /\ phase' = IF set.subgradient /\ one'.norm # 0 THEN "candidates" ELSE "bounded"
  /\ UNCHANGED <<problem, climb, made, best, adjusted>>

\* The candidates the ascent uses; those of a Delaunay graph make a new tree.
AscentCandidates ==
  /\ phase = "candidates"
  /\ cand' = Sets(pi, one, cand, climb.candidates, Gap(one.sum, MaxInt), TRUE)
  /\ one' = IF Delaunay THEN OneTree(pi, cand', Order, TRUE) ELSE one
  /\ phase' = IF Delaunay /\ (one'.norm = 0 \/ Quotient(one'.sum, set.precision) = set.optimum)
              THEN "bounded" ELSE "ascent"
  /\ climb' = [climb EXCEPT !.lastV = one'.V, !.bestW = one'.sum, !.w0 = one'.sum,
                 !.bestNorm = one'.norm, !.bestPi = Zero, !.initial = TRUE,
                 !.period = set.period, !.T = set.step * set.precision, !.P = 1]
  /\ UNCHANGED <<problem, pi, made, best, adjusted>>

Clamped(x) == Max({- (MaxInt \div 4), Min({MaxInt \div 4, x})})
NewPi(a) ==
  [v \in Nodes |-> IF one.V[v] = 0 THEN pi[v]
                   ELSE Clamped(pi[v] + Quotient(a.T * (7 * one.V[v] + 3 * a.lastV[v]), 10))]

\* The bookkeeping of a better 1-tree o with the penalties p.
Improved(a, p, o) ==
  [a EXCEPT !.bestW = o.sum, !.bestNorm = o.norm, !.bestPi = p,
            !.T = IF a.initial /\ o.norm > 0 THEN 2 * @ ELSE @,
            !.period = IF ~ Delaunay /\ a.P = @ THEN Min({2 * @, set.period}) ELSE @]
NotImproved(a) ==
  IF a.initial /\ a.P > a.period \div 2
  THEN [a EXCEPT !.initial = FALSE, !.P = 0, !.T = (3 * @) \div 4]
  ELSE a

Better1(a, o) == o.sum > a.bestW \/ (o.sum = a.bestW /\ o.norm < a.bestNorm)

\* The bound has more than doubled: the candidates may be too few.
Suspect(a, o) == o.sum - a.w0 > Abs(a.w0) /\ a.candidates > 0 /\ a.candidates < graph.n

InPeriod == climb.T # 0 /\ climb.P <= climb.period /\ one.norm # 0

AscentStep ==
  /\ phase = "ascent" /\ InPeriod
  /\ pi' = NewPi(climb)
  /\ \E o \in {OneTree(pi', cand, Order, TRUE)} :
       LET a == [climb EXCEPT !.lastV = one.V]
           suspect == Better1(a, o) /\ Suspect(a, o)
           again == suspect /\ one'.sum < a.w0
           a2 == CASE suspect -> Improved([a EXCEPT !.w0 = one'.sum], pi', one')
                   [] Better1(a, o) /\ ~ suspect -> Improved(a, pi', o)
                   [] OTHER -> NotImproved(a)
       IN /\ one' = IF suspect THEN OneTree(pi', cand, o.tree.order, Delaunay) ELSE o
          /\ phase' = IF again THEN "start" ELSE "ascent"
          /\ climb' = IF again THEN [a EXCEPT !.candidates = Min({2 * @, graph.n})]
                      ELSE [a2 EXCEPT !.P = @ + 1]
  /\ UNCHANGED <<problem, cand, made, best, adjusted>>

\* Period and step size are halved.
HalveStep ==
  /\ phase = "ascent" /\ ~ InPeriod
  /\ climb.period \div 2 > 0 /\ climb.T \div 2 > 0 /\ one.norm # 0
  /\ climb' = [climb EXCEPT !.period = @ \div 2, !.T = @ \div 2, !.P = 1]
  /\ UNCHANGED <<problem, phase, pi, one, cand, made, best, adjusted>>

AscentEnds ==
  /\ phase = "ascent" /\ ~ InPeriod
  /\ climb.period \div 2 = 0 \/ climb.T \div 2 = 0 \/ one.norm = 0
  /\ pi' = climb.bestPi
  /\ one' = OneTree(climb.bestPi, cand, Order, Delaunay)
  /\ cand' = IF Delaunay THEN DelaunaySets(climb.bestPi, Empty) ELSE Empty
  /\ phase' = "bounded"
  /\ UNCHANGED <<problem, climb, made, best, adjusted>>

-----------------------------------------------------------------------------
(* The rest of CreateCandidateSet, and FindTour.                            *)

MaxAlpha == Gap(one.sum, Abs(one.sum) \div set.excess)

CreateCandidates ==
  /\ phase = "bounded"
  /\ cand' = ResetCandidateSet(Sets(pi, one, cand, set.max, MaxAlpha, set.symmetric))
  /\ made' = cand'
  /\ phase' = IF \E v \in Nodes : cand'[v] = << >> THEN "stopped" ELSE "ready"
  /\ UNCHANGED <<problem, pi, one, climb, best, adjusted>>

Ring(tour) == {{tour[i], tour[(i % graph.n) + 1]} : i \in Nodes}
Tours == {Ring(tour) : tour \in Permutations(Nodes)}

\* AdjustCandidateSet for a node: the tour is added, and what both tours have
\* moves to the front, the last of it first.
Adjusted(list, from, tour, next) ==
  LET added == FoldLeft(LAMBDA l, to : IF Knows(l, to) THEN l
                                       ELSE Append(l, Candidate(to, D(graph, pi, from, to), MaxInt)),
                        list, SetToSeq({to \in Nodes : {from, to} \in tour}))
      Common(k) == {from, k.to} \in tour \intersect next
      moved == SelectSeq(Tail(added), Common)
  IN Reverse(moved) \o <<added[1]>> \o SelectSeq(Tail(added), LAMBDA k : ~ Common(k))

AdjustCandidateSet ==
  /\ phase \in {"ready", "adjusted"} /\ adjusted < MaxAdjust
  /\ \E tour \in Tours :
       /\ best' = tour
       /\ cand' = [from \in Nodes |-> Adjusted(cand[from], from, tour, best)]
  /\ adjusted' = adjusted + 1 /\ phase' = "adjusted"
  /\ UNCHANGED <<problem, pi, one, climb, made>>

EndOfRun ==
  /\ phase = "adjusted"
  /\ cand' = ResetCandidateSet(cand)
  /\ phase' = "ready" /\ best' = {}
  /\ UNCHANGED <<problem, pi, one, climb, made, adjusted>>

Next ==
  \/ FirstTree \/ AscentCandidates \/ AscentStep \/ HalveStep \/ AscentEnds
  \/ CreateCandidates \/ AdjustCandidateSet \/ EndOfRun

Spec == Init /\ [][Next]_vars

-----------------------------------------------------------------------------
Cost(e) == D(graph, pi, Min(e), Max(e))
Sum(edges) == MapThenSumSet(Cost, edges)
AllEdges == {e \in SUBSET Nodes : Cardinality(e) = 2}
MayUse(e) == /\ e \notin graph.forbidden
             /\ e \in graph.fixed \/ \A v \in e : ~ FixedTo2(graph, v)
CandidateEdges == {e \in AllEdges : \E a, b \in e : a # b /\ Knows(cand[a], b)}

First == Order[1]
TreeEdges == {{v, one.tree.dad[v]} : v \in {u \in Nodes : one.tree.dad[u] # 0}}
Below(v) == {w \in Nodes \ {First} : v \in ToSet(Path(one.tree.dad, w))}

FirstEdges == {{First, one.tree.dad[First]}, {First, one.next}}

\* The tree edges that the edge e can replace: those between its ends, or the
\* two edges of the first node.
Replaceable(e) ==
  (IF First \in e THEN IF e \in FirstEdges THEN {e} ELSE FirstEdges
   ELSE {{v, one.tree.dad[v]} : v \in {u \in Nodes \ {First} : Cardinality(Below(u) \intersect e) = 1}})
  \ graph.fixed

\* Whenever the ascent has a 1-tree of the graph or of the candidates that is
\* not a tour, no edge there is cheaper than one it could replace, and every
\* fixed edge is in it.
OneTreeIsMinimal ==
  (phase = "ascent" \/ (phase = "bounded" /\ ~ Delaunay)) /\ one.norm # 0 =>
    /\ \A e \in {f \in (IF phase = "ascent" THEN CandidateEdges ELSE AllEdges) : MayUse(f)} :
         \A f \in Replaceable(e) : Cost(f) <= Cost(e)
    /\ graph.fixed \subseteq TreeEdges \union {{First, one.next}}

\* The bound of the ascent is no more than any tour costs, and a 1-tree that
\* is a tour costs just that.
LegalTours == {t \in Tours : graph.fixed \subseteq t /\ \A e \in t : MayUse(e)}
TourCost(t) == MapThenSumSet(LAMBDA e : graph.cost[<<Min(e), Max(e)>>], t)
BoundHolds ==
  phase = "bounded" /\ ~ Delaunay =>
    /\ \A t \in LegalTours : one.sum <= TourCost(t)
    /\ one.norm = 0 => Ring(Order) \in LegalTours /\ one.sum = TourCost(Ring(Order))

\* The alpha of an edge, from all 1-trees: how much the cheapest that has it
\* costs more than the cheapest.
Spanning(edges, nodes) ==
  \A part \in SUBSET nodes \ {{}, nodes} : \E e \in edges : Cardinality(e \intersect part) = 1
OneTrees ==
  LET rest == Nodes \ {First}
      usable == {e \in AllEdges : MayUse(e)}
      trees == {t \in kSubset(graph.n - 2, {e \in usable : First \notin e}) : Spanning(t, rest)}
  IN {[edges |-> t, sum |-> Sum(t)] :
        t \in {u \union f : u \in trees, f \in kSubset(2, {e \in usable : First \in e})}}
CheapestWith(trees, e) == Min({t.sum : t \in {u \in trees : e \in u.edges}})

\* The edges of legal 1-trees as their alpha-values order them.
Ranked ==
  LET trees == {t \in OneTrees : graph.fixed \subseteq t.edges}
      cheapest == Min({t.sum : t \in trees})
  IN {[edge |-> e, cost |-> Cost(e),
       alpha |-> IF e \in graph.fixed THEN MinInt ELSE CheapestWith(trees, e) - cheapest] :
        e \in UNION {t.edges : t \in trees}}

FixedMeet == \E v \in Nodes : FixedTo2(graph, v)

\* The candidates of a node are the nearest ones, up to MaxCandidates and
\* MaxAlpha, with their alpha; those of the other end are added if the sets
\* are made symmetric.  No two fixed edges meet: the edge that closes a path
\* of them has a Beta of INT_MIN, and d - Beta wraps around to next to it.
AlphaIsNearness ==
  phase = "ready" /\ adjusted = 0 /\ ~ Delaunay /\ one.norm # 0 /\ ~ FixedMeet =>
    LET ranked == {r \in Ranked : r.alpha <= MaxAlpha}
        Of(v) == {r \in ranked : v \in r.edge}
        Nearest(v) == {r \in Of(v) : Cardinality({q \in Of(v) : Better(q, r)}) < set.max}
        nearest == UNION {Nearest(v) : v \in Nodes}
        Kept(v) == {[edge |-> {v, k.to}, cost |-> k.cost, alpha |-> k.alpha] : k \in ToSet(cand[v])}
    IN \A v \in Nodes :
         /\ Kept(v) \subseteq Nearest(v) \union (IF set.symmetric THEN nearest ELSE {})
         /\ \A r \in Nearest(v) :
              \E k \in Kept(v) : k = r \/ (k.alpha = r.alpha /\ k.cost = r.cost)

\* The alpha of a candidate that OrderCandidateSet keeps is what it costs more
\* than the dearest edge it can replace.  No edge is fixed: BetaValue counts
\* the fixed edges of a chain of only sons and no others.
AlphaOfPath ==
  phase = "ready" /\ adjusted = 0 /\ Delaunay /\ one.norm # 0 /\ graph.fixed = {} =>
    \A v \in Nodes : \A k \in ToSet(cand[v]) :
      LET e == {v, k.to}
          dearest == Max({Cost(f) : f \in Replaceable(e)})
      IN k.alpha \in {MaxInt, Larger(Cost(e) - dearest, 0)}

InAlphaOrder(list) == \A i, j \in DOMAIN list : i < j => ~ Better(list[j], list[i])

\* After a run of better tours every node with two candidates has those that
\* CreateCandidateSet gave it, nearest first.
CandidatesRestored ==
  phase = "ready" =>
    \A v \in Nodes : Len(made[v]) >= 2 => ToSet(cand[v]) = ToSet(made[v]) /\ InAlphaOrder(cand[v])
=============================================================================
