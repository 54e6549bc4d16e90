------------------------ MODULE TheoryCallbacksProofs ------------------------
(***************************************************************************)
(* What the Edge theory knows of the trail, what it reports, and that what *)
(* excludes each other is not held together, proved of every graph, budget *)
(* and constraint (TheoriesFollow).                                        *)
(*                                                                         *)
(* The invariant is about prefixes of the trail.  A literal that came while*)
(* the edges up to it were within the budget has made false what it        *)
(* excludes (Excludes), on its own level or below, so that going back takes*)
(* both or neither; the edges below the current level are within the budget*)
(* (LowerWithin), so that going back lowers the flag for good.             *)
(***************************************************************************)
EXTENDS TheoryCallbacks, SolverTrailProofs

Marks == [lit : Literals, level : Nat]

\* A trail of literals and levels.
Stack(tr) ==
  /\ tr \in Seq(Marks)
  /\ Consistent(tr) /\ Sorted(tr)

\* The literals after the first old entries, up to the m-th.
Since(tr, old, m) == SubSeq(Lits(tr), old + 1, m)
CostTo(tr, old, m) == SumOf(Among(Counted, Since(tr, old, m)))
WithinTo(tr, old, m) == setup.theory = "edge" => CostTo(tr, old, m) <= setup.budget

IsTheory(th) ==
  /\ DOMAIN th = {"soln", "costs", "conflict", "checked", "tree"}
  /\ th.conflict \in BOOLEAN /\ th.checked \in BOOLEAN

\* CostsFollow, of a theory and a trail.
Follows(th, tr, old) ==
  setup.theory = "edge" =>
    /\ th.soln = Among(Counted, Since(tr, old, Len(tr)))
    /\ th.costs = SumOf(th.soln)
    /\ th.conflict <=> th.costs > setup.budget

\* l is false, or was true before the theories were reset, at the level of the
\* i-th entry or below.
Settled(tr, old, i, l) ==
  \E j \in DOMAIN tr :
    /\ tr[j].level <= tr[i].level
    /\ tr[j].lit = - l \/ (tr[j].lit = l /\ j <= old)

\* What an entry excludes is settled, if the edges up to it are within the
\* budget.
Excludes(tr, old) ==
  \A i \in old + 1 .. Len(tr) :
    WithinTo(tr, old, i) => \A l \in Excluded(tr[i].lit) : Settled(tr, old, i, l)

\* The edges below a level are within the budget.
LowerWithin(tr, old, level) ==
  \A m \in old + 1 .. Len(tr) : tr[m].level < level => WithinTo(tr, old, m)

\* The first old entries are of level 0.
Fixed(tr, old) == old \in 0 .. Len(tr) /\ \A i \in 1 .. old : tr[i].level = 0

\* What uncheckedEnqueue makes of a trail: the literal, and then literals that
\* it makes false.
Extended(tr, longer, lit, level) ==
  /\ Stack(longer) /\ Len(tr) + 1 <= Len(longer)
  /\ \A i \in 1 .. Len(tr) : longer[i] = tr[i]
  /\ longer[Len(tr) + 1].lit = lit
  /\ \A i \in Len(tr) + 1 .. Len(longer) : longer[i].level = level
  /\ \A i \in Len(tr) + 2 .. Len(longer) : \E l \in Excluded(lit) : longer[i].lit = - l

\* A theory and the trail it belongs to.
Sound(th, tr, old, level) ==
  /\ Stack(tr) /\ Fixed(tr, old)
  /\ setup.theory = "edge" => IsTheory(th)
  /\ Follows(th, tr, old)
  /\ Excludes(tr, old)
  /\ LowerWithin(tr, old, level)

\* A conflict in which the edges of the trail cost too much.
Real(tr, lits) ==
  /\ \A lit \in lits : IsTrue(tr, - lit)
  /\ CostOfEdges({- lit : lit \in lits}) > setup.budget
  /\ Cardinality(lits) = 1 => \E lit \in lits : lit_cost(- lit) > setup.budget

IInv ==
  /\ setup \in Setups
  /\ turn \in {"encode", "propagate", "decide", "conflict", "done"}
  /\ turn = "encode" =>
       /\ Stack(trail) /\ Fixed(trail, fixed) /\ \A i \in DOMAIN trail : trail[i].level = 0
       /\ setup.theory = "edge" => IsTheory(theory)
  /\ turn \in {"encode", "propagate", "decide"} => clause = {}
  /\ Searching => Sound(theory, trail, fixed, Level)
  /\ setup.theory = "edge" =>
       /\ turn = "propagate" => (theory.conflict => ~ theory.checked)
       /\ turn = "decide" => ~ theory.conflict
       /\ clause # {} => Real(trail, clause)

-----------------------------------------------------------------------------
\* The parts of a setup.
LEMMA SetupIs ==
  ASSUME setup \in Setups
  PROVE  /\ setup.numVars \in Nat /\ setup.budget \in Nat
         /\ EdgeVars \subseteq 1 .. setup.numVars
         /\ \A v \in EdgeVars : lit_cost(v) \in Nat
         /\ setup.level00 \subseteq (1 .. setup.numVars) \ EdgeVars
         /\ setup.lit_set \subseteq Literals
         /\ \A lit \in setup.lit_set : - lit \notin setup.lit_set
         /\ setup.theory # "edge" => setup.level00 = {} /\ EdgeVars = {}
         /\ setup.theory # "cardinality" => setup.lit_set = {}
<1> DEFINE n == setup.numVars
<1>1. /\ n \in Nat /\ setup.budget \in Nat
      /\ EdgeVars \subseteq 1 .. n
      /\ \A v \in EdgeVars : lit_cost(v) \in Nat
      /\ setup.level00 \subseteq (1 .. n) \ EdgeVars
      /\ setup.lit_set \subseteq ((- n) .. n) \ {0}
      /\ \A lit \in setup.lit_set : - lit \notin setup.lit_set
      /\ setup.theory # "edge" => setup.level00 = {} /\ EdgeVars = {}
      /\ setup.theory # "cardinality" => setup.lit_set = {}
  BY SetupsAssumption DEF EdgeVars, lit_cost
<1>2. ((- n) .. n) \ {0} \subseteq Literals
  <2> SUFFICES ASSUME NEW x \in ((- n) .. n) \ {0} PROVE x \in Literals
    OBVIOUS
  <2>1. x \in 1 .. n \/ (- x \in 1 .. n /\ x = - (- x))
    BY <1>1
  <2> QED
    BY <2>1 DEF Literals
<1> QED
  BY <1>1, <1>2

\* Literals are numbers and come with their opposites.
LEMMA LiteralsAre ==
  ASSUME setup \in Setups
  PROVE  /\ Literals \subseteq Int /\ 0 \notin Literals
         /\ \A x \in Literals : - x \in Literals /\ - (- x) = x
         /\ EdgeVars \subseteq Literals /\ EdgeVars \subseteq Int
         /\ setup.level00 \subseteq Literals
         /\ IsFiniteSet(Literals)
<1> DEFINE V == 1 .. setup.numVars
           W == {- v : v \in V}
<1>1. setup.numVars \in Nat /\ EdgeVars \subseteq V /\ setup.level00 \subseteq V
  BY SetupIs
<1>2. V \subseteq Int /\ W \subseteq Int /\ 0 \notin V /\ 0 \notin W
  BY <1>1
<1>3. \A x \in V : - x \in W
  OBVIOUS
<1>4. \A x \in W : - x \in V /\ - (- x) = x
  BY <1>1
<1>5. IsFiniteSet(V)
  BY <1>1, FS_Interval
<1>6. IsFiniteSet(W)
  <2>1. W = (- setup.numVars) .. (- 1)
    <3>1. \A x \in (- setup.numVars) .. (- 1) : - x \in V /\ x = - (- x)
      BY <1>1
    <3>2. \A x \in V : - x \in (- setup.numVars) .. (- 1)
      BY <1>1
    <3> QED
      BY <3>1, <3>2
  <2>2. - setup.numVars \in Int /\ - 1 \in Int
    BY <1>1
  <2> HIDE DEF W
  <2> QED
    BY <2>1, <2>2, FS_Interval
<1>7. Literals = V \union W
  BY DEF Literals
<1>8. IsFiniteSet(V \union W)
  BY <1>5, <1>6, FS_Union
<1> QED
  BY <1>1, <1>2, <1>3, <1>4, <1>7, <1>8

\* A sum of the first n numbers of a list, for n up to its length: the
\* recursion exists.
LEMMA SumExists ==
  ASSUME NEW n \in Nat, NEW w \in [1 .. n -> Nat]
  PROVE  \E g : /\ g \in [0 .. n -> Nat]
                /\ g = [k \in 0 .. n |-> IF k = 0 THEN 0 ELSE g[k - 1] + w[k]]
<1> DEFINE step == [p \in Nat \X (1 .. n) |-> p[1] + w[p[2]]]
<1>1. step \in [Nat \X (1 .. n) -> Nat]
  OBVIOUS
<1>2. PICK g : IsRun(g, n, Nat, 0, step)
  <2> HIDE DEF step
  <2> QED
    BY <1>1, Recursion
<1>3. g \in [0 .. n -> Nat] /\ g[0] = 0
  BY <1>2 DEF IsRun
<1>4. \A k \in 1 .. n : g[k] = g[k - 1] + w[k]
  <2> TAKE k \in 1 .. n
  <2>1. k - 1 \in 0 .. n
    OBVIOUS
  <2>2. g[k - 1] \in Nat
    BY <1>3, <2>1
  <2>3. g[k] = step[<<g[k - 1], k>>]
    <3> HIDE DEF step
    <3> QED
      BY <1>2 DEF IsRun
  <2> QED
    BY <2>2, <2>3
<1>5. g = [k \in 0 .. n |-> IF k = 0 THEN 0 ELSE g[k - 1] + w[k]]
  <2>1. \A k \in 0 .. n : g[k] = IF k = 0 THEN 0 ELSE g[k - 1] + w[k]
    BY <1>3, <1>4
  <2> HIDE DEF step
  <2> QED
    BY <1>3, <2>1
<1> QED
  BY <1>3, <1>5

\* The sums of a list of edges.
Sums(lits) ==
  CHOOSE sum : sum = [n \in 0 .. Len(lits) |->
                        IF n = 0 THEN 0 ELSE sum[n - 1] + lit_cost(lits[n])]

LEMMA SumsAre ==
  ASSUME setup \in Setups, NEW lits \in Seq(EdgeVars)
  PROVE  /\ SumOf(lits) = Sums(lits)[Len(lits)]
         /\ Sums(lits)[0] = 0
         /\ \A k \in 1 .. Len(lits) : Sums(lits)[k] = Sums(lits)[k - 1] + lit_cost(lits[k])
         /\ \A k \in 0 .. Len(lits) : Sums(lits)[k] \in Nat
<1> DEFINE n == Len(lits)
           w == [k \in 1 .. n |-> lit_cost(lits[k])]
           s == Sums(lits)
<1>1. n \in Nat /\ \A k \in 1 .. n : lits[k] \in EdgeVars
  OBVIOUS
<1>2. w \in [1 .. n -> Nat]
  BY <1>1, SetupIs
<1>3. PICK g : /\ g \in [0 .. n -> Nat]
               /\ g = [k \in 0 .. n |-> IF k = 0 THEN 0 ELSE g[k - 1] + w[k]]
  <2> HIDE DEF n, w
  <2> QED
    BY <1>1, <1>2, SumExists
<1>4. g = [k \in 0 .. n |-> IF k = 0 THEN 0 ELSE g[k - 1] + lit_cost(lits[k])]
  <2>1. \A k \in 0 .. n : k # 0 => w[k] = lit_cost(lits[k])
    BY <1>1
  <2> HIDE DEF n, w
  <2> QED
    BY <1>3, <2>1
<1>5. s = [k \in 0 .. n |-> IF k = 0 THEN 0 ELSE s[k - 1] + lit_cost(lits[k])]
  BY <1>4 DEF Sums
<1>6. SumOf(lits) = s[n]
  BY DEF SumOf, Sums
<1> HIDE DEF s, n
<1>7. s[0] = 0 /\ \A k \in 1 .. n : s[k] = s[k - 1] + lit_cost(lits[k])
  BY <1>1, <1>5
<1> DEFINE T == {k \in 0 .. n : s[k] \in Nat}
<1>8. 0 \in T
  BY <1>1, <1>7
<1>9. \A k \in 0 .. n - 1 : k \in T => k + 1 \in T
  <2> SUFFICES ASSUME NEW k \in 0 .. n - 1, s[k] \in Nat PROVE s[k + 1] \in Nat
    BY <1>1
  <2>1. k + 1 \in 1 .. n /\ (k + 1) - 1 = k
    BY <1>1
  <2>2. lit_cost(lits[k + 1]) \in Nat
    BY <1>1, <2>1, SetupIs
  <2>3. s[k + 1] = s[k] + lit_cost(lits[k + 1])
    BY <1>7, <2>1
  <2> QED
    BY <2>2, <2>3
<1> HIDE DEF T
<1>10. \A k \in 0 .. n : k \in T
  BY <1>1, <1>8, <1>9, BoundedInduction
<1> QED
  BY <1>6, <1>7, <1>10 DEF T, s, n

\* Sums over lists that begin alike agree as far as they do.
LEMMA SumsAgree ==
  ASSUME setup \in Setups, NEW s \in Seq(EdgeVars), NEW t \in Seq(EdgeVars), NEW n \in Nat,
         n <= Len(s), n <= Len(t), \A i \in 1 .. n : s[i] = t[i]
  PROVE  Sums(s)[n] = Sums(t)[n]
<1> DEFINE T == {k \in 0 .. n : Sums(s)[k] = Sums(t)[k]}
<1>1. 0 \in T
  BY SumsAre
<1>2. \A k \in 0 .. n - 1 : k \in T => k + 1 \in T
  <2> SUFFICES ASSUME NEW k \in 0 .. n - 1, Sums(s)[k] = Sums(t)[k]
               PROVE  Sums(s)[k + 1] = Sums(t)[k + 1]
    OBVIOUS
  <2>1. /\ k + 1 \in 1 .. Len(s) /\ k + 1 \in 1 .. Len(t)
        /\ (k + 1) - 1 = k /\ s[k + 1] = t[k + 1]
    OBVIOUS
  <2>2. Sums(s)[k + 1] = Sums(s)[k] + lit_cost(s[k + 1])
    BY <2>1, SumsAre
  <2>3. Sums(t)[k + 1] = Sums(t)[k] + lit_cost(t[k + 1])
    BY <2>1, SumsAre
  <2> QED
    BY <2>1, <2>2, <2>3
<1> HIDE DEF T
<1>3. \A k \in 0 .. n : k \in T
  BY <1>1, <1>2, BoundedInduction
<1> QED
  BY <1>3 DEF T

\* What edges cost together is a natural number, none costs nothing, and one
\* more adds its cost.
LEMMA SumOfAppend ==
  ASSUME setup \in Setups, NEW s \in Seq(EdgeVars)
  PROVE  /\ SumOf(s) \in Nat
         /\ s = << >> => SumOf(s) = 0
         /\ \A x \in EdgeVars : SumOf(Append(s, x)) = SumOf(s) + lit_cost(x)
<1>1. Len(s) \in Nat /\ Len(s) \in 0 .. Len(s)
  OBVIOUS
<1>2. SumOf(s) = Sums(s)[Len(s)] /\ SumOf(s) \in Nat
  BY <1>1, SumsAre
<1>3. s = << >> => SumOf(s) = 0
  <2>1. s = << >> => Len(s) = 0
    OBVIOUS
  <2> QED
    BY <2>1, SumsAre
<1>4. ASSUME NEW x \in EdgeVars PROVE SumOf(Append(s, x)) = SumOf(s) + lit_cost(x)
  <2> DEFINE t == Append(s, x)
  <2>1. /\ t \in Seq(EdgeVars) /\ Len(t) = Len(s) + 1 /\ t[Len(t)] = x
        /\ \A i \in 1 .. Len(s) : s[i] = t[i]
        /\ Len(t) \in 1 .. Len(t) /\ Len(t) - 1 = Len(s)
        /\ Len(s) <= Len(t) /\ Len(s) <= Len(s)
    BY <1>1
  <2> HIDE DEF t
  <2>2. Sums(s)[Len(s)] = Sums(t)[Len(s)]
    BY <1>1, <2>1, SumsAgree
  <2>3. Sums(t)[Len(t)] = Sums(t)[Len(s)] + lit_cost(x)
    BY <2>1, SumsAre
  <2>4. SumOf(t) = Sums(t)[Len(t)]
    BY <2>1, SumsAre
  <2> QED
    BY <1>2, <2>2, <2>3, <2>4 DEF t
<1> QED
  BY <1>2, <1>3, <1>4

\* Lists of edges, one after the other, cost what they cost apart.
LEMMA SumOfConcat ==
  ASSUME setup \in Setups, NEW s \in Seq(EdgeVars), NEW t \in Seq(EdgeVars)
  PROVE  SumOf(s \o t) = SumOf(s) + SumOf(t)
<1> DEFINE n == Len(t)
           all == s \o t
           T == {k \in 0 .. n : Sums(all)[Len(s) + k] = SumOf(s) + Sums(t)[k]}
<1>1. /\ n \in Nat /\ Len(s) \in Nat /\ all \in Seq(EdgeVars) /\ Len(all) = Len(s) + n
      /\ \A i \in 1 .. Len(s) : s[i] = all[i]
      /\ \A i \in 1 .. n : all[Len(s) + i] = t[i]
      /\ Len(s) <= Len(all) /\ Len(s) <= Len(s)
  OBVIOUS
<1> HIDE DEF all
<1>2. 0 \in T
  <2>1. Sums(s)[Len(s)] = Sums(all)[Len(s)]
    BY <1>1, SumsAgree
  <2>2. SumOf(s) = Sums(s)[Len(s)] /\ SumOf(s) \in Nat /\ Sums(t)[0] = 0
    BY SumsAre, SumOfAppend
  <2> QED
    BY <1>1, <2>1, <2>2
<1>3. \A k \in 0 .. n - 1 : k \in T => k + 1 \in T
  <2> SUFFICES ASSUME NEW k \in 0 .. n - 1, k \in T PROVE k + 1 \in T
    BY Zenon
  <2>1. /\ k + 1 \in 1 .. n /\ (k + 1) - 1 = k /\ k \in 0 .. n
        /\ Len(s) + (k + 1) \in 1 .. Len(all) /\ (Len(s) + (k + 1)) - 1 = Len(s) + k
        /\ all[Len(s) + (k + 1)] = t[k + 1]
    BY <1>1
  <2>2. Sums(t)[k + 1] = Sums(t)[k] + lit_cost(t[k + 1])
    BY <2>1, SumsAre
  <2>3. Sums(all)[Len(s) + (k + 1)] = Sums(all)[Len(s) + k] + lit_cost(all[Len(s) + (k + 1)])
    BY <1>1, <2>1, SumsAre
  <2>4. SumOf(s) \in Nat /\ Sums(t)[k] \in Nat
    BY <2>1, SumsAre, SumOfAppend
  <2>5. lit_cost(t[k + 1]) \in Nat
    <3>1. t[k + 1] \in EdgeVars
      BY <2>1
    <3> QED
      BY <3>1, SetupIs
  <2>6. Sums(all)[Len(s) + (k + 1)] = SumOf(s) + Sums(t)[k + 1]
    BY <2>1, <2>2, <2>3, <2>4, <2>5
  <2> QED
    BY <1>1, <2>1, <2>6
<1> HIDE DEF T
<1>4. n \in T
  <2>1. \A k \in 0 .. n : k \in T
    BY <1>1, <1>2, <1>3, BoundedInduction
  <2> QED
    BY <1>1, <2>1
<1>5. SumOf(all) = Sums(all)[Len(all)] /\ SumOf(t) = Sums(t)[n]
  BY <1>1, SumsAre
<1> QED
  BY <1>1, <1>4, <1>5 DEF T, all

\* The sums over the variables, and what a set of edges costs.
Costs(edges) ==
  CHOOSE sum : sum = [v \in 0 .. setup.numVars |->
                        IF v = 0 THEN 0
                        ELSE sum[v - 1] + (IF v \in edges THEN lit_cost(v) ELSE 0)]

LEMMA CostsAre ==
  ASSUME setup \in Setups, NEW edges \in SUBSET EdgeVars
  PROVE  /\ CostOfEdges(edges) = Costs(edges)[setup.numVars]
         /\ Costs(edges)[0] = 0
         /\ \A v \in 1 .. setup.numVars :
              Costs(edges)[v] = Costs(edges)[v - 1] + (IF v \in edges THEN lit_cost(v) ELSE 0)
<1> DEFINE n == setup.numVars
           w == [v \in 1 .. n |-> IF v \in edges THEN lit_cost(v) ELSE 0]
           s == Costs(edges)
<1>1. n \in Nat
  BY SetupIs
<1>2. w \in [1 .. n -> Nat]
  BY SetupIs
<1>3. PICK g : /\ g \in [0 .. n -> Nat]
               /\ g = [k \in 0 .. n |-> IF k = 0 THEN 0 ELSE g[k - 1] + w[k]]
  <2> HIDE DEF n, w
  <2> QED
    BY <1>1, <1>2, SumExists
<1>4. g = [k \in 0 .. n |-> IF k = 0 THEN 0
                            ELSE g[k - 1] + (IF k \in edges THEN lit_cost(k) ELSE 0)]
  <2>1. \A k \in 0 .. n : k # 0 => w[k] = IF k \in edges THEN lit_cost(k) ELSE 0
    BY <1>1
  <2> HIDE DEF n, w
  <2> QED
    BY <1>3, <2>1
<1>5. s = [k \in 0 .. n |-> IF k = 0 THEN 0
                            ELSE s[k - 1] + (IF k \in edges THEN lit_cost(k) ELSE 0)]
  BY <1>4 DEF Costs
<1>6. CostOfEdges(edges) = s[n]
  BY DEF CostOfEdges, Costs
<1> HIDE DEF s, n
<1> QED
  <2>1. s[0] = 0 /\ \A k \in 1 .. n : s[k] = s[k - 1] + (IF k \in edges THEN lit_cost(k) ELSE 0)
    BY <1>1, <1>5
  <2> QED
    BY <1>6, <2>1 DEF s, n

\* No edges cost nothing.
LEMMA CostOfNone ==
  ASSUME setup \in Setups
  PROVE  CostOfEdges({}) = 0
<1> DEFINE n == setup.numVars
           T == {k \in 0 .. n : Costs({})[k] = 0}
<1>1. n \in Nat /\ {} \in SUBSET EdgeVars
  BY SetupIs
<1>2. 0 \in T
  BY <1>1, CostsAre
<1>3. \A k \in 0 .. n - 1 : k \in T => k + 1 \in T
  <2> SUFFICES ASSUME NEW k \in 0 .. n - 1, Costs({})[k] = 0 PROVE Costs({})[k + 1] = 0
    BY <1>1
  <2>1. k + 1 \in 1 .. n /\ (k + 1) - 1 = k
    BY <1>1
  <2> QED
    BY <1>1, <2>1, CostsAre
<1> HIDE DEF T
<1>4. \A k \in 0 .. n : k \in T
  BY <1>1, <1>2, <1>3, BoundedInduction
<1> QED
  BY <1>1, <1>4, CostsAre DEF T

\* One edge more adds its cost.
LEMMA CostOfOneMore ==
  ASSUME setup \in Setups, NEW edges \in SUBSET EdgeVars, NEW x \in EdgeVars, x \notin edges
  PROVE  /\ CostOfEdges(edges) \in Nat
         /\ CostOfEdges(edges \union {x}) = CostOfEdges(edges) + lit_cost(x)
<1> DEFINE n == setup.numVars
           more == edges \union {x}
           cost == lit_cost(x)
           R(k) == /\ Costs(edges)[k] \in Nat
                   /\ Costs(more)[k] = Costs(edges)[k] + (IF x <= k THEN cost ELSE 0)
           T == {k \in 0 .. n : R(k)}
<1>1. /\ n \in Nat /\ edges \in SUBSET EdgeVars /\ more \in SUBSET EdgeVars
      /\ x \in 1 .. n /\ cost \in Nat /\ \A v \in EdgeVars : lit_cost(v) \in Nat
  BY SetupIs
<1>2. 0 \in T
  <2>1. Costs(edges)[0] = 0 /\ Costs(more)[0] = 0
    <3> HIDE DEF more
    <3> QED
      BY <1>1, CostsAre
  <2> QED
    BY <1>1, <2>1
<1>3. \A k \in 0 .. n - 1 : k \in T => k + 1 \in T
  <2> SUFFICES ASSUME NEW k \in 0 .. n - 1, k \in T PROVE k + 1 \in T
    BY Zenon
  <2>1. k + 1 \in 1 .. n /\ (k + 1) - 1 = k /\ k + 1 \in 0 .. n
    BY <1>1
  <2>2. Costs(edges)[k + 1] = Costs(edges)[k] + (IF k + 1 \in edges THEN lit_cost(k + 1) ELSE 0)
    BY <1>1, <2>1, CostsAre
  <2>3. Costs(more)[k + 1] = Costs(more)[k] + (IF k + 1 \in more THEN lit_cost(k + 1) ELSE 0)
    <3> HIDE DEF more
    <3> QED
      BY <1>1, <2>1, CostsAre
  <2>4. R(k)
    BY Zenon
  <2>5. CASE k + 1 = x
    <3>1. /\ Costs(edges)[k + 1] = Costs(edges)[k] + 0
          /\ Costs(more)[k + 1] = Costs(more)[k] + cost
          /\ x <= k + 1 /\ ~ (x <= k)
      BY <1>1, <2>2, <2>3, <2>5
    <3> HIDE DEF more, cost
    <3>2. R(k + 1)
      BY <1>1, <2>4, <3>1
    <3> QED
      BY <2>1, <3>2
  <2>6. CASE k + 1 # x
    <3>1. (k + 1 \in more <=> k + 1 \in edges) /\ (x <= k + 1 <=> x <= k)
      BY <1>1, <2>1, <2>6
    <3>2. (IF k + 1 \in edges THEN lit_cost(k + 1) ELSE 0) \in Nat
      BY <1>1
    <3> HIDE DEF more, cost
    <3>3. R(k + 1)
      BY <1>1, <2>2, <2>3, <2>4, <3>1, <3>2
    <3> QED
      BY <2>1, <3>3
  <2> QED
    BY <2>5, <2>6
<1> HIDE DEF T, R
<1>4. n \in T
  <2>1. \A k \in 0 .. n : k \in T
    BY <1>1, <1>2, <1>3, BoundedInduction
  <2> QED
    BY <1>1, <2>1
<1>5. R(n)
  BY <1>4 DEF T
<1>6. CostOfEdges(edges) = Costs(edges)[n] /\ CostOfEdges(more) = Costs(more)[n]
  <2> HIDE DEF more
  <2> QED
    BY <1>1, CostsAre
<1> QED
  BY <1>1, <1>5, <1>6 DEF R

\* A list of some of the literals is one of members of the set.
LEMMA AmongIn ==
  ASSUME NEW set, NEW lits \in Seq(Int)
  PROVE  Among(set, lits) \in Seq(set)
<1>1. Among(set, lits) \in Seq(Int)
  BY AmongType, Zenon
<1>2. ToSet(Among(set, lits)) = {x \in set : x \in ToSet(lits)}
  BY AmongSet, Zenon
<1> DEFINE s == Among(set, lits)
<1>3. s \in Seq(Int) /\ ToSet(s) \subseteq set
  BY <1>1, <1>2
<1> HIDE DEF s
<1>4. s \in Seq(set)
  BY <1>3, SeqOfSet
<1> QED
  BY <1>4 DEF s

\* What the edges of a list of literals cost, if none comes twice: what the set
\* of these edges costs.
LEMMA AmongCost ==
  ASSUME setup \in Setups, NEW lits \in Seq(Int),
         \A i, j \in 1 .. Len(lits) : lits[i] = lits[j] => i = j
  PROVE  SumOf(Among(EdgeVars, lits)) = CostOfEdges({x \in EdgeVars : x \in ToSet(lits)})
<1> DEFINE n == Len(lits)
           Upto(k) == SubSeq(lits, 1, k)
           Those(k) == {x \in EdgeVars : \E i \in 1 .. k : lits[i] = x}
           P(k) == SumOf(Among(EdgeVars, Upto(k))) = CostOfEdges(Those(k))
           T == {k \in 0 .. n : P(k)}
<1>1. n \in Nat /\ \A i \in 1 .. n : lits[i] \in Int
  OBVIOUS
<1>2. \A k \in 0 .. n : Upto(k) \in Seq(Int)
  BY PrefixIs
<1>3. 0 \in T
  <2>1. Upto(0) = << >> /\ Those(0) = {}
    BY <1>1
  <2>2. Among(EdgeVars, << >>) = << >>
    BY AmongEmpty, Zenon
  <2>3. SumOf(<< >>) = 0
    <3>1. << >> \in Seq(EdgeVars)
      OBVIOUS
    <3> QED
      BY <3>1, SumOfAppend
  <2>4. P(0)
    BY <2>1, <2>2, <2>3, CostOfNone
  <2>5. 0 \in 0 .. n
    BY <1>1
  <2> HIDE DEF P
  <2> QED
    BY <2>4, <2>5
<1>4. \A k \in 0 .. n - 1 : k \in T => k + 1 \in T
  <2> SUFFICES ASSUME NEW k \in 0 .. n - 1, k \in T PROVE k + 1 \in T
    BY Zenon
  <2> DEFINE x == lits[k + 1]
             before == Among(EdgeVars, Upto(k))
  <2>1. k \in 0 .. n /\ k + 1 \in 0 .. n /\ k + 1 \in 1 .. n /\ x \in Int
    BY <1>1
  <2>2. Upto(k + 1) = Append(Upto(k), x)
    BY <1>1, <2>1
  <2>3. P(k)
    BY Zenon
  <2>4. Upto(k) \in Seq(Int)
    BY <1>2, <2>1, Zenon
  <2>5. Among(EdgeVars, Append(Upto(k), x)) = IF x \in EdgeVars THEN Append(before, x) ELSE before
    <3> HIDE DEF Upto, x
    <3> QED
      BY <2>1, <2>4, AmongAppend, Zenon
  <2>6. before \in Seq(EdgeVars)
    <3> HIDE DEF Upto
    <3> QED
      BY <2>4, AmongIn
  <2>7. CASE x \in EdgeVars
    <3>1. Those(k + 1) = Those(k) \union {x} /\ x \notin Those(k) /\ Those(k) \in SUBSET EdgeVars
      BY <1>1, <2>1, <2>7
    <3>2. Among(EdgeVars, Upto(k + 1)) = Append(before, x)
      BY <2>2, <2>5, <2>7, Zenon
    <3> HIDE DEF Upto, x, before, Those
    <3>3. SumOf(Append(before, x)) = SumOf(before) + lit_cost(x)
      BY <2>6, <2>7, SumOfAppend
    <3>4. CostOfEdges(Those(k) \union {x}) = CostOfEdges(Those(k)) + lit_cost(x)
      BY <2>7, <3>1, CostOfOneMore
    <3>5. P(k + 1)
      BY <2>3, <3>1, <3>2, <3>3, <3>4 DEF before
    <3> QED
      BY <2>1, <3>5
  <2>8. CASE x \notin EdgeVars
    <3>1. Those(k + 1) = Those(k)
      <4>1. \A i \in 1 .. k + 1 : i \in 1 .. k \/ i = k + 1
        BY <2>1
      <4>2. \A i \in 1 .. k : i \in 1 .. k + 1
        BY <2>1
      <4> QED
        BY <2>8, <4>1, <4>2
    <3>2. Among(EdgeVars, Upto(k + 1)) = before
      BY <2>2, <2>5, <2>8, Zenon
    <3>3. P(k + 1)
      BY <2>3, <3>1, <3>2
    <3> QED
      BY <2>1, <3>3
  <2> QED
    BY <2>7, <2>8
<1> HIDE DEF T, P
<1>5. P(n)
  <2>1. \A k \in 0 .. n : k \in T
    BY <1>1, <1>3, <1>4, BoundedInduction
  <2> QED
    BY <1>1, <2>1 DEF T
<1>6. Upto(n) = lits
  BY PrefixIs
<1>7. Those(n) = {x \in EdgeVars : x \in ToSet(lits)}
  BY <1>1 DEF ToSet
<1> QED
  BY <1>5, <1>6, <1>7 DEF P

-----------------------------------------------------------------------------
\* The parts of a trail.
LEMMA StackIs ==
  ASSUME setup \in Setups, NEW tr, Stack(tr)
  PROVE  /\ Len(tr) \in Nat /\ DOMAIN tr = 1 .. Len(tr)
         /\ \A i \in 1 .. Len(tr) : /\ tr[i] \in Marks
                                    /\ tr[i].lit \in Literals /\ tr[i].lit \in Int
                                    /\ tr[i].level \in Nat
         /\ Lits(tr) \in Seq(Int) /\ Len(Lits(tr)) = Len(tr)
         /\ \A i \in 1 .. Len(tr) : Lits(tr)[i] = tr[i].lit
         /\ \A i, j \in 1 .. Len(tr) : tr[i].lit = tr[j].lit \/ tr[i].lit = - tr[j].lit => i = j
         /\ \A i, j \in 1 .. Len(tr) : i <= j => tr[i].level <= tr[j].level
<1>1. Literals \subseteq Int
  BY LiteralsAre
<1>2. tr \in Seq(Marks)
  BY DEF Stack
<1>3. /\ Len(tr) \in Nat /\ DOMAIN tr = 1 .. Len(tr)
      /\ \A i \in 1 .. Len(tr) : tr[i] \in Marks
  BY <1>2
<1>4. \A i \in 1 .. Len(tr) : /\ tr[i].lit \in Literals /\ tr[i].lit \in Int
                              /\ tr[i].level \in Nat
  BY <1>1, <1>3 DEF Marks
<1>5. /\ Lits(tr) \in Seq(Int) /\ Len(Lits(tr)) = Len(tr)
      /\ \A i \in 1 .. Len(tr) : Lits(tr)[i] = tr[i].lit
  BY <1>3, <1>4 DEF Lits
<1>6. \A i, j \in 1 .. Len(tr) : tr[i].lit = tr[j].lit \/ tr[i].lit = - tr[j].lit => i = j
  BY <1>3, <1>4, SameVar DEF Stack, Consistent
<1>7. \A i, j \in 1 .. Len(tr) : i <= j => tr[i].level <= tr[j].level
  BY <1>3 DEF Stack, Sorted
<1> QED
  BY <1>3, <1>4, <1>5, <1>6, <1>7

\* The decision level is the highest level of a trail.
LEMMA LevelIs ==
  ASSUME setup \in Setups, NEW tr, Stack(tr)
  PROVE  /\ DecisionLevel(tr) \in Nat
         /\ \A i \in 1 .. Len(tr) : tr[i].level <= DecisionLevel(tr)
         /\ Len(tr) > 0 => DecisionLevel(tr) = tr[Len(tr)].level
         /\ \A k \in Nat : (\A i \in 1 .. Len(tr) : tr[i].level <= k) => DecisionLevel(tr) <= k
<1>1. CASE tr = << >>
  BY <1>1 DEF DecisionLevel
<1>2. CASE tr # << >>
  <2>1. /\ Len(tr) \in Nat
        /\ \A i \in 1 .. Len(tr) : tr[i].level \in Nat
        /\ \A i, j \in 1 .. Len(tr) : i <= j => tr[i].level <= tr[j].level
    BY StackIs
  <2>2. tr \in Seq(Marks)
    BY DEF Stack
  <2>3. Len(tr) \in 1 .. Len(tr) /\ \A i \in 1 .. Len(tr) : i <= Len(tr)
    BY <1>2, <2>1, <2>2
  <2>4. DecisionLevel(tr) = tr[Len(tr)].level
    BY <1>2 DEF DecisionLevel, Last
  <2> QED
    BY <2>1, <2>3, <2>4
<1> QED
  BY <1>1, <1>2

\* The literals since the first old entries.
LEMMA SinceIs ==
  ASSUME setup \in Setups, NEW tr, Stack(tr), NEW old \in 0 .. Len(tr), NEW m \in old .. Len(tr)
  PROVE  /\ Since(tr, old, m) \in Seq(Int)
         /\ Len(Since(tr, old, m)) = m - old
         /\ \A i \in 1 .. m - old : Since(tr, old, m)[i] = tr[old + i].lit
         /\ \A i, j \in 1 .. m - old : Since(tr, old, m)[i] = Since(tr, old, m)[j] => i = j
         /\ ToSet(Since(tr, old, m)) = {tr[i].lit : i \in old + 1 .. m}
<1> DEFINE lits == Lits(tr)
           s == SubSeq(lits, old + 1, m)
<1>1. /\ Len(tr) \in Nat /\ old \in Nat /\ m \in Nat /\ m <= Len(tr) /\ old <= m
      /\ lits \in Seq(Int) /\ Len(lits) = Len(tr)
      /\ \A i \in 1 .. Len(tr) : lits[i] = tr[i].lit /\ tr[i].lit \in Int
      /\ \A i, j \in 1 .. Len(tr) : tr[i].lit = tr[j].lit => i = j
  BY StackIs
<1> HIDE DEF lits
<1>2. /\ s \in Seq(Int) /\ Len(s) = m - old
      /\ \A i \in 1 .. m - old : s[i] = lits[old + i]
  BY <1>1
<1>3. \A i \in 1 .. m - old : old + i \in 1 .. Len(tr) /\ old + i \in old + 1 .. m
  BY <1>1
<1> HIDE DEF s
<1>4. \A i \in 1 .. m - old : s[i] = tr[old + i].lit
  BY <1>1, <1>2, <1>3
<1>5. \A i, j \in 1 .. m - old : s[i] = s[j] => i = j
  <2> SUFFICES ASSUME NEW i \in 1 .. m - old, NEW j \in 1 .. m - old, s[i] = s[j] PROVE i = j
    OBVIOUS
  <2>1. tr[old + i].lit = tr[old + j].lit
    BY <1>4
  <2>2. old + i = old + j
    BY <1>1, <1>3, <2>1
  <2> QED
    BY <1>1, <2>2
<1>6. ToSet(s) = {tr[i].lit : i \in old + 1 .. m}
  <2>1. DOMAIN s = 1 .. m - old
    BY <1>2
  <2>2. \A i \in old + 1 .. m : i - old \in 1 .. m - old /\ old + (i - old) = i
    BY <1>1
  <2>3. \A i \in old + 1 .. m : tr[i].lit = s[i - old]
    BY <1>4, <2>2
  <2> QED
    BY <1>3, <1>4, <2>1, <2>2, <2>3 DEF ToSet
<1> QED
  BY <1>2, <1>4, <1>5, <1>6 DEF Since, s, lits

\* Going back keeps the entries of a level and below.
LEMMA CutIs ==
  ASSUME setup \in Setups, NEW tr, Stack(tr), NEW k \in Nat
  PROVE  /\ TrailLim(tr, k) \in 0 .. Len(tr)
         /\ \A i \in 1 .. Len(tr) : tr[i].level <= k <=> i <= TrailLim(tr, k)
         /\ Stack(KeptUntil(tr, k)) /\ Len(KeptUntil(tr, k)) = TrailLim(tr, k)
         /\ \A i \in 1 .. TrailLim(tr, k) : KeptUntil(tr, k)[i] = tr[i]
         /\ LitsAbove(tr, k) = Since(tr, TrailLim(tr, k), Len(tr))
         /\ DecisionLevel(KeptUntil(tr, k)) <= k
<1> DEFINE n == TrailLim(tr, k)
           kept == KeptUntil(tr, k)
<1>1. /\ tr \in Seq(Marks) /\ Sorted(tr) /\ Len(tr) \in Nat /\ DOMAIN tr = 1 .. Len(tr)
      /\ \A i \in 1 .. Len(tr) : tr[i].level \in Int /\ tr[i] \in Marks
  BY StackIs DEF Stack
<1>2. n \in 0 .. Len(tr) /\ \A i \in 1 .. Len(tr) : tr[i].level <= k <=> i <= n
  <2>1. k \in Int /\ \A i \in DOMAIN tr : tr[i].level \in Int
    BY <1>1
  <2>2. n \in 0 .. Len(tr) /\ \A i \in DOMAIN tr : tr[i].level <= k <=> i <= n
    <3> HIDE DEF n
    <3> QED
      BY <1>1, <2>1, LimIs DEF n
  <2> QED
    BY <1>1, <2>2
<1> HIDE DEF n
<1>3. kept = SubSeq(tr, 1, n)
  BY DEF KeptUntil, n
<1> HIDE DEF kept
<1>4. /\ kept \in Seq(Marks) /\ Len(kept) = n /\ DOMAIN kept = 1 .. n
      /\ \A i \in 1 .. n : kept[i] = tr[i]
      /\ 1 .. n \subseteq DOMAIN tr
  BY <1>1, <1>2, <1>3
<1>5. Stack(kept)
  <2>1. Consistent(kept)
    BY <1>4 DEF Stack, Consistent
  <2>2. Sorted(kept)
    BY <1>4 DEF Stack, Sorted
  <2> QED
    BY <1>4, <2>1, <2>2 DEF Stack
<1>6. LitsAbove(tr, k) = Since(tr, n, Len(tr))
  BY DEF LitsAbove, Since, n
<1>7. DecisionLevel(kept) <= k
  <2>1. \A i \in 1 .. Len(kept) : kept[i].level <= k
    BY <1>1, <1>2, <1>4
  <2> QED
    BY <1>5, <2>1, LevelIs
<1> QED
  BY <1>2, <1>4, <1>5, <1>6, <1>7 DEF n, kept

-----------------------------------------------------------------------------
\* What a literal excludes excludes it, is another variable's, and is not
\* counted once it is false.
LEMMA ExcludedIs ==
  ASSUME setup \in Setups, NEW x \in Literals
  PROVE  /\ Excluded(x) \subseteq Literals
         /\ \A l \in Excluded(x) : /\ l # x /\ l # - x /\ x \in Excluded(l)
                                   /\ Excluded(- l) = {} /\ - l \notin Counted
                                   /\ \A m \in Excluded(x) : l # - m
<1> DEFINE n == setup.numVars
<1>1. /\ n \in Nat /\ EdgeVars \subseteq 1 .. n /\ setup.level00 \subseteq (1 .. n) \ EdgeVars
      /\ setup.lit_set \subseteq Literals /\ \A l \in setup.lit_set : - l \notin setup.lit_set
      /\ setup.theory # "edge" => setup.level00 = {} /\ EdgeVars = {}
      /\ setup.theory # "cardinality" => setup.lit_set = {}
  BY SetupIs
<1>2. Literals \subseteq Int /\ 1 .. n \subseteq Literals /\ \A l \in Literals : l # - l /\ - (- l) = l
  BY <1>1, LiteralsAre DEF Literals
<1>3. setup.theory # "mst" => VertexVars = {}
  BY DEF VertexVars
<1>4. \A l \in 1 .. n : \A m \in 1 .. n : l # - m
  BY <1>1
<1>5. CASE x \in EdgeVars
  <2>1. setup.theory = "edge" /\ setup.lit_set = {} /\ x \notin setup.level00
    BY <1>1, <1>5
  <2>2. Counted = EdgeVars /\ \A l \in 1 .. n : - l \notin Counted
    BY <1>1, <1>3, <1>4, <2>1 DEF Counted
  <2>3. Excluded(x) = Rivals(x)
    BY <1>5, <2>1 DEF Excluded
  <2>4. ASSUME NEW l \in Rivals(x)
        PROVE  /\ l \in EdgeVars /\ l \in Literals /\ l # x /\ l # - x /\ x \in Excluded(l)
               /\ Excluded(- l) = {} /\ - l \notin Counted
    <3>1. l \in EdgeVars /\ l \in 1 .. n /\ x \in 1 .. n /\ l # x /\ l \notin setup.level00
      BY <1>1, <1>5 DEF Rivals
    <3>2. l # - x /\ l \in Literals
      BY <1>2, <1>4, <3>1
    <3>3. x \in Rivals(l)
      BY <1>5, <3>1 DEF Rivals
    <3>4. Excluded(l) = Rivals(l)
      BY <2>1, <3>1 DEF Excluded
    <3>5. - l \notin EdgeVars /\ - l \notin setup.level00 /\ - l \notin setup.lit_set
      BY <1>1, <1>4, <2>1, <3>1
    <3>6. Excluded(- l) = {}
      BY <3>5 DEF Excluded
    <3> QED
      BY <2>2, <3>1, <3>2, <3>3, <3>4, <3>6
  <2> QED
    BY <1>1, <1>4, <2>3, <2>4
<1>6. CASE x \in setup.level00
  <2>1. setup.theory = "edge" /\ setup.lit_set = {} /\ x \notin EdgeVars
    BY <1>1, <1>6
  <2>2. Counted = EdgeVars /\ \A l \in 1 .. n : - l \notin Counted
    BY <1>1, <1>3, <1>4, <2>1 DEF Counted
  <2>3. Excluded(x) = setup.level00 \ {x}
    BY <1>6, <2>1 DEF Excluded
  <2>4. ASSUME NEW l \in setup.level00 \ {x}
        PROVE  /\ l \in Literals /\ l # x /\ l # - x /\ x \in Excluded(l)
               /\ Excluded(- l) = {} /\ - l \notin Counted
    <3>1. l \in 1 .. n /\ x \in 1 .. n /\ l # x /\ l \notin EdgeVars /\ l \in setup.level00
      BY <1>1, <1>6
    <3>2. l # - x /\ l \in Literals
      BY <1>2, <1>4, <3>1
    <3>3. Excluded(l) = setup.level00 \ {l}
      BY <2>1, <3>1 DEF Excluded
    <3>4. - l \notin EdgeVars /\ - l \notin setup.level00 /\ - l \notin setup.lit_set
      BY <1>1, <1>4, <2>1, <3>1
    <3>5. Excluded(- l) = {}
      BY <3>4 DEF Excluded
    <3> QED
      BY <1>6, <2>2, <3>1, <3>2, <3>3, <3>5
  <2> QED
    BY <1>1, <1>4, <2>3, <2>4
<1>7. CASE x \in setup.lit_set
  <2>1. setup.theory = "cardinality" /\ EdgeVars = {} /\ setup.level00 = {}
    BY <1>1, <1>7
  <2>2. Counted = {}
    BY <1>3, <2>1 DEF Counted
  <2>3. \A l \in setup.lit_set : Excluded(l) = setup.lit_set \ {l}
    BY <2>1 DEF Excluded
  <2>4. \A l \in setup.lit_set : Excluded(- l) = {}
    BY <1>1, <2>1 DEF Excluded
  <2>5. \A l, m \in setup.lit_set : l # - m
    BY <1>1
  <2> QED
    BY <1>1, <1>7, <2>2, <2>3, <2>4, <2>5
<1>8. CASE x \notin EdgeVars /\ x \notin setup.level00 /\ x \notin setup.lit_set
  <2>1. Excluded(x) = {}
    BY <1>8 DEF Excluded
  <2> QED
    BY <2>1
<1> QED
  BY <1>5, <1>6, <1>7, <1>8

\* A trail with more literals of its highest level or a higher one, of other
\* variables.
LEMMA ExtendStack ==
  ASSUME setup \in Setups, NEW tr, Stack(tr), NEW longer \in Seq(Marks), Len(tr) <= Len(longer),
         \A i \in 1 .. Len(tr) : longer[i] = tr[i],
         NEW level \in Nat, \A i \in 1 .. Len(tr) : tr[i].level <= level,
         \A i \in Len(tr) + 1 .. Len(longer) :
           /\ longer[i].level = level /\ ~ Assigned(tr, longer[i].lit)
           /\ \A j \in Len(tr) + 1 .. Len(longer) :
                longer[i].lit = longer[j].lit \/ longer[i].lit = - longer[j].lit => i = j
  PROVE  Stack(longer)
<1> DEFINE n == Len(longer)
<1>1. /\ Len(tr) \in Nat /\ DOMAIN tr = 1 .. Len(tr) /\ n \in Nat /\ DOMAIN longer = 1 .. n
      /\ \A i, j \in 1 .. Len(tr) : tr[i].lit = tr[j].lit \/ tr[i].lit = - tr[j].lit => i = j
      /\ \A i, j \in 1 .. Len(tr) : i <= j => tr[i].level <= tr[j].level
      /\ \A i \in 1 .. n : longer[i] \in Marks
  BY StackIs
<1>2. \A i \in 1 .. n : longer[i].lit \in Int /\ longer[i].level \in Nat
  BY <1>1, LiteralsAre DEF Marks
<1>3. \A i \in 1 .. n : i \in 1 .. Len(tr) \/ i \in Len(tr) + 1 .. n
  BY <1>1
<1>4. ASSUME NEW i \in 1 .. n, NEW j \in 1 .. n,
             longer[i].lit = longer[j].lit \/ longer[i].lit = - longer[j].lit
      PROVE  i = j
  <2>1. longer[j].lit = longer[i].lit \/ longer[j].lit = - longer[i].lit
    BY <1>2, <1>4
  <2>2. CASE i \in 1 .. Len(tr) /\ j \in 1 .. Len(tr)
    BY <1>1, <1>4, <2>2
  <2>3. CASE i \in Len(tr) + 1 .. n /\ j \in Len(tr) + 1 .. n
    BY <1>4, <2>3
  <2>4. CASE i \in 1 .. Len(tr) /\ j \in Len(tr) + 1 .. n
    <3>1. tr[i].lit = longer[j].lit \/ tr[i].lit = - longer[j].lit
      BY <1>4, <2>4
    <3> QED
      BY <1>1, <2>4, <3>1 DEF Assigned, IsTrue, IsFalse
  <2>5. CASE j \in 1 .. Len(tr) /\ i \in Len(tr) + 1 .. n
    <3>1. tr[j].lit = longer[i].lit \/ tr[j].lit = - longer[i].lit
      BY <2>1, <2>5
    <3> QED
      BY <1>1, <2>5, <3>1 DEF Assigned, IsTrue, IsFalse
  <2> QED
    BY <1>3, <2>2, <2>3, <2>4, <2>5
<1>5. Consistent(longer)
  <2> SUFFICES ASSUME NEW i \in 1 .. n, NEW j \in 1 .. n, Var(longer[i].lit) = Var(longer[j].lit)
               PROVE  i = j
    BY <1>1 DEF Consistent
  <2>1. longer[i].lit = longer[j].lit \/ longer[i].lit = - longer[j].lit
    BY <1>2, SameVar
  <2> QED
    BY <1>4, <2>1
<1>6. Sorted(longer)
  <2> SUFFICES ASSUME NEW i \in 1 .. n, NEW j \in 1 .. n, i <= j
               PROVE  longer[i].level <= longer[j].level
    BY <1>1 DEF Sorted
  <2>1. CASE j \in 1 .. Len(tr)
    <3>1. i \in 1 .. Len(tr)
      BY <1>1, <2>1
    <3> QED
      BY <1>1, <2>1, <3>1
  <2>2. CASE j \in Len(tr) + 1 .. n
    BY <1>2, <1>3, <2>2
  <2> QED
    BY <1>3, <2>1, <2>2
<1> QED
  BY <1>5, <1>6 DEF Stack

\* Enqueueing a literal: it comes first, then what it excludes, made false.
LEMMA EnqueueIs ==
  ASSUME setup \in Setups, NEW tr, Stack(tr), NEW th, NEW lit \in Literals, ~ Assigned(tr, lit),
         NEW level \in Nat, \A i \in 1 .. Len(tr) : tr[i].level <= level
  PROVE  /\ Enqueue(tr, th, lit, level).theory = Push(th, lit)
         /\ Extended(tr, Enqueue(tr, th, lit, level).trail, lit, level)
         /\ ~ (setup.theory = "edge" /\ Push(th, lit).conflict) =>
              \A l \in Excluded(lit) : IsTrue(Enqueue(tr, th, lit, level).trail, - l) \/ IsTrue(tr, l)
<1> DEFINE e == Enqueue(tr, th, lit, level)
           n == Len(tr)
           pushed == Push(th, lit)
           head == [lit |-> lit, level |-> level]
           own == Append(tr, head)
           more == {l \in Propagated(pushed, lit) : ~ Assigned(own, l)}
           list == SetToSeq(more)
           tail == EntriesOf(list, level)
           longer == own \o tail
<1>1. e.trail = longer /\ e.theory = pushed
  BY DEF Enqueue
<1>2. /\ n \in Nat /\ DOMAIN tr = 1 .. n /\ \A i \in 1 .. n : tr[i].lit \in Int /\ tr[i] \in Marks
      /\ tr \in Seq(Marks) /\ head \in Marks /\ head.lit = lit /\ head.level = level
  BY StackIs DEF Stack, Marks
<1>3. /\ Literals \subseteq Int /\ IsFiniteSet(Literals)
      /\ \A x \in Literals : - x \in Literals /\ - (- x) = x
  BY LiteralsAre
<1>4. /\ Excluded(lit) \subseteq Literals
      /\ \A l \in Excluded(lit) : /\ l # lit /\ l # - lit
                                  /\ \A m \in Excluded(lit) : l # - m
  BY ExcludedIs
<1>5. /\ \A m \in Propagated(pushed, lit) : \E l \in Excluded(lit) : m = - l
      /\ ~ (setup.theory = "edge" /\ pushed.conflict) =>
           \A l \in Excluded(lit) : - l \in Propagated(pushed, lit)
  BY DEF Propagated
<1> HIDE DEF pushed, head
<1>6. /\ own \in Seq(Marks) /\ Len(own) = n + 1 /\ own[n + 1] = head
      /\ DOMAIN own = 1 .. n + 1 /\ \A i \in 1 .. n : own[i] = tr[i]
  BY <1>2
<1>7. \A y : IsTrue(own, y) <=> IsTrue(tr, y) \/ lit = y
  <2>1. \A i \in 1 .. n + 1 : i \in 1 .. n \/ i = n + 1
    BY <1>2
  <2>2. n + 1 \in DOMAIN own /\ \A i \in 1 .. n : i \in DOMAIN own
    BY <1>2, <1>6
  <2> HIDE DEF own
  <2> QED
    BY <1>2, <1>6, <2>1, <2>2 DEF IsTrue
<1> HIDE DEF own
<1>8. more \subseteq Literals
  <2> SUFFICES ASSUME NEW m \in Propagated(pushed, lit) PROVE m \in Literals
    OBVIOUS
  <2>1. PICK l \in Excluded(lit) : m = - l
    BY <1>5
  <2> QED
    BY <1>3, <1>4, <2>1
<1>9. IsFiniteSet(more)
  <2> HIDE DEF more
  <2> QED
    BY <1>3, <1>8, FS_Subset
<1> HIDE DEF more
<1>10. /\ Len(list) \in Nat /\ DOMAIN list = 1 .. Len(list)
       /\ \A i \in 1 .. Len(list) : list[i] \in more
       /\ \A i, j \in 1 .. Len(list) : list[i] = list[j] => i = j
       /\ ToSet(list) = more
  <2>1. /\ Cardinality(more) \in Nat /\ list \in [1 .. Cardinality(more) -> more]
        /\ Len(list) = Cardinality(more) /\ IsInjective(list) /\ ToSet(list) = more
    BY <1>9, SetToSeqIs
  <2> HIDE DEF list
  <2> QED
    BY <2>1 DEF IsInjective
<1> HIDE DEF list
<1>11. /\ tail \in Seq(Marks) /\ Len(tail) = Len(list)
       /\ \A i \in 1 .. Len(list) : tail[i].lit = list[i] /\ tail[i].level = level
  <2>1. tail = [i \in 1 .. Len(list) |-> [lit |-> list[i], level |-> level]]
    BY <1>10 DEF EntriesOf
  <2>2. \A i \in 1 .. Len(list) : [lit |-> list[i], level |-> level] \in Marks
    BY <1>8, <1>10 DEF Marks
  <2> QED
    BY <1>10, <2>1, <2>2
<1> HIDE DEF tail
<1>12. /\ longer \in Seq(Marks) /\ Len(longer) = n + 1 + Len(list)
       /\ \A i \in 1 .. n : longer[i] = tr[i]
       /\ longer[n + 1] = head
       /\ \A i \in n + 2 .. Len(longer) : longer[i] = tail[i - (n + 1)]
  <2>1. /\ longer \in Seq(Marks) /\ Len(longer) = Len(own) + Len(tail)
        /\ \A i \in 1 .. Len(own) : longer[i] = own[i]
        /\ \A i \in Len(own) + 1 .. Len(own) + Len(tail) : longer[i] = tail[i - Len(own)]
    <3>1. own \in Seq(Marks) /\ tail \in Seq(Marks)
      BY <1>6, <1>11
    <3> QED
      BY <3>1
  <2> HIDE DEF longer
  <2>2. Len(longer) = n + 1 + Len(list) /\ n \in Nat /\ n + 1 \in 1 .. Len(own)
    BY <1>2, <1>6, <1>10, <1>11, <2>1
  <2>3. \A i \in 1 .. n : longer[i] = tr[i]
    <3>1. \A i \in 1 .. n : i \in 1 .. Len(own)
      BY <1>2, <1>6
    <3> QED
      BY <1>6, <2>1, <3>1
  <2>4. longer[n + 1] = head
    BY <1>6, <2>1, <2>2
  <2>5. \A i \in n + 2 .. Len(longer) : longer[i] = tail[i - (n + 1)]
    <3>1. \A i \in n + 2 .. Len(longer) : i \in Len(own) + 1 .. Len(own) + Len(tail)
      BY <1>2, <1>6, <1>10, <2>1
    <3> QED
      BY <1>6, <2>1, <3>1
  <2> QED
    BY <2>1, <2>2, <2>3, <2>4, <2>5
<1>13. \A i \in n + 2 .. Len(longer) :
         /\ i - (n + 1) \in 1 .. Len(list)
         /\ longer[i].lit = list[i - (n + 1)] /\ longer[i].level = level
         /\ longer[i].lit \in more
  <2> SUFFICES ASSUME NEW i \in n + 2 .. Len(longer)
               PROVE  /\ i - (n + 1) \in 1 .. Len(list)
                      /\ longer[i].lit = list[i - (n + 1)] /\ longer[i].level = level
                      /\ longer[i].lit \in more
    OBVIOUS
  <2>1. i - (n + 1) \in 1 .. Len(list)
    BY <1>2, <1>10, <1>12
  <2> QED
    BY <1>10, <1>11, <1>12, <2>1
<1> HIDE DEF longer
<1>14. \A m \in more : /\ ~ Assigned(tr, m) /\ m # lit /\ m # - lit /\ m \in Int
                       /\ \E l \in Excluded(lit) : m = - l
  <2> SUFFICES ASSUME NEW m \in more
               PROVE  /\ ~ Assigned(tr, m) /\ m # lit /\ m # - lit /\ m \in Int
                      /\ \E l \in Excluded(lit) : m = - l
    OBVIOUS
  <2>1. m \in Propagated(pushed, lit) /\ ~ Assigned(own, m)
    BY DEF more
  <2>2. PICK l \in Excluded(lit) : m = - l
    BY <1>5, <2>1
  <2>3. m \in Int /\ lit \in Int /\ l \in Int
    BY <1>3, <1>4, <1>8
  <2>4. ~ Assigned(tr, m) /\ m # lit
    BY <1>7, <2>1 DEF Assigned, IsFalse
  <2>5. m # - lit
    BY <1>4, <2>2, <2>3
  <2> QED
    BY <2>2, <2>3, <2>4, <2>5
<1>15. \A m, q \in more : m # - q
  <2> SUFFICES ASSUME NEW m \in more, NEW q \in more, m = - q PROVE FALSE
    OBVIOUS
  <2>1. PICK l \in Excluded(lit) : m = - l
    BY <1>14
  <2>2. PICK k \in Excluded(lit) : q = - k
    BY <1>14
  <2>3. l \in Int /\ k \in Int /\ l = - k
    BY <1>3, <1>4, <2>1, <2>2
  <2> QED
    BY <1>4, <2>3
<1>16. \A i \in n + 1 .. Len(longer) : i = n + 1 \/ i \in n + 2 .. Len(longer)
  BY <1>2
<1>17. \A i \in n + 1 .. Len(longer) :
         /\ longer[i].level = level /\ ~ Assigned(tr, longer[i].lit)
         /\ \A j \in n + 1 .. Len(longer) :
              longer[i].lit = longer[j].lit \/ longer[i].lit = - longer[j].lit => i = j
  <2>1. ASSUME NEW i \in n + 1 .. Len(longer)
        PROVE  longer[i].level = level /\ ~ Assigned(tr, longer[i].lit)
    BY <1>2, <1>12, <1>13, <1>14, <1>16
  <2>2. ASSUME NEW i \in n + 1 .. Len(longer), NEW j \in n + 1 .. Len(longer),
               longer[i].lit = longer[j].lit \/ longer[i].lit = - longer[j].lit
        PROVE  i = j
    <3>1. lit \in Int
      BY <1>3
    <3>2. CASE i \in n + 2 .. Len(longer) /\ j \in n + 2 .. Len(longer)
      <4>1. longer[i].lit \in more /\ longer[j].lit \in more
        BY <1>13, <3>2
      <4>2. longer[i].lit = longer[j].lit
        BY <1>15, <2>2, <4>1
      <4>3. i - (n + 1) = j - (n + 1)
        BY <1>10, <1>13, <3>2, <4>2
      <4> QED
        BY <1>2, <4>3
    <3>3. CASE i = n + 1 /\ j \in n + 2 .. Len(longer)
      <4>1. longer[i].lit = lit /\ longer[j].lit \in more
        BY <1>2, <1>12, <1>13, <3>3
      <4> QED
        BY <1>14, <2>2, <3>1, <4>1
    <3>4. CASE j = n + 1 /\ i \in n + 2 .. Len(longer)
      <4>1. longer[j].lit = lit /\ longer[i].lit \in more
        BY <1>2, <1>12, <1>13, <3>4
      <4> QED
        BY <1>14, <2>2, <3>1, <4>1
    <3> QED
      BY <1>16, <3>2, <3>3, <3>4
  <2> QED
    BY <2>1, <2>2
<1>18. n <= Len(longer) /\ n + 1 <= Len(longer) /\ Len(longer) \in Nat
  BY <1>2, <1>10, <1>12
<1>19. Stack(longer)
  BY <1>12, <1>17, <1>18, ExtendStack
<1>20. ASSUME ~ (setup.theory = "edge" /\ pushed.conflict), NEW l \in Excluded(lit)
       PROVE  IsTrue(longer, - l) \/ IsTrue(tr, l)
  <2>1. DOMAIN longer = 1 .. Len(longer)
    BY <1>12
  <2>2. - l \in Propagated(pushed, lit) /\ - (- l) = l /\ l \in Int
    BY <1>3, <1>4, <1>5, <1>20
  <2>3. CASE - l \in more
    <3>1. PICK k \in 1 .. Len(list) : list[k] = - l
      BY <1>10, <2>3 DEF ToSet
    <3>2. n + 1 + k \in n + 2 .. Len(longer) /\ (n + 1 + k) - (n + 1) = k /\ n + 1 + k \in 1 .. Len(longer)
      BY <1>2, <1>10, <1>12
    <3>3. longer[n + 1 + k].lit = - l
      BY <1>13, <3>1, <3>2
    <3> QED
      BY <2>1, <3>2, <3>3 DEF IsTrue
  <2>4. CASE - l \notin more
    <3>1. IsTrue(own, - l) \/ IsTrue(own, l)
      BY <2>2, <2>4 DEF more, Assigned, IsFalse
    <3>2. IsTrue(tr, - l) \/ IsTrue(tr, l)
      <4>1. lit # - l /\ lit # l
        BY <1>3, <1>4
      <4> QED
        BY <1>7, <3>1, <4>1
    <3>3. IsTrue(tr, - l) => IsTrue(longer, - l)
      <4>1. \A i \in 1 .. n : i \in 1 .. Len(longer)
        BY <1>2, <1>18
      <4> QED
        BY <1>2, <1>12, <2>1, <4>1 DEF IsTrue
    <3> QED
      BY <3>2, <3>3
  <2> QED
    BY <2>3, <2>4
<1> QED
  BY <1>1, <1>2, <1>12, <1>13, <1>14, <1>17, <1>18, <1>19, <1>20 DEF Extended, pushed

-----------------------------------------------------------------------------
\* The Edge theory counts the variables of edges.
LEMMA CountedIs ==
  ASSUME setup \in Setups, setup.theory = "edge"
  PROVE  Counted = EdgeVars /\ VertexVars = {}
BY DEF Counted, VertexVars

\* What push leaves: an edge is added up and the flag follows.
LEMMA PushIs ==
  ASSUME setup \in Setups, setup.theory = "edge", NEW th, IsTheory(th), NEW lit
  PROVE  /\ IsTheory(Push(th, lit))
         /\ lit \notin EdgeVars => Push(th, lit) = th
         /\ lit \in EdgeVars =>
              /\ Push(th, lit).soln = Append(th.soln, lit)
              /\ Push(th, lit).costs = th.costs + lit_cost(lit)
              /\ Push(th, lit).conflict <=> th.costs + lit_cost(lit) > setup.budget
              /\ Push(th, lit).conflict => ~ Push(th, lit).checked
<1>1. VertexVars = {}
  BY CountedIs
<1>2. CASE lit \notin EdgeVars
  BY <1>1, <1>2 DEF Push
<1>3. CASE lit \in EdgeVars
  <2> DEFINE costs == th.costs + lit_cost(lit)
             over == costs > setup.budget
  <2>1. Push(th, lit) = PushEdge(th, lit)
    BY <1>1, <1>3 DEF Push
  <2> DEFINE after == PushEdge(th, lit)
  <2>2. /\ DOMAIN after = DOMAIN th
        /\ after.soln = Append(th.soln, lit) /\ after.costs = costs
        /\ after.conflict = over /\ after.checked = ~ over
    BY DEF PushEdge, IsTheory
  <2>3. over \in BOOLEAN /\ (~ over) \in BOOLEAN
    OBVIOUS
  <2> HIDE DEF after, over
  <2> QED
    BY <1>3, <2>1, <2>2, <2>3 DEF IsTheory, after, over
<1> QED
  BY <1>2, <1>3

\* None of a list is counted.
LEMMA AmongNone ==
  ASSUME NEW set, NEW lits \in Seq(Int), \A i \in 1 .. Len(lits) : lits[i] \notin set
  PROVE  Among(set, lits) = << >>
<1> DEFINE s == Among(set, lits)
<1>1. s \in Seq(Int) /\ ToSet(s) = {x \in set : x \in ToSet(lits)}
  BY AmongType, AmongSet, Zenon
<1>2. {x \in set : x \in ToSet(lits)} = {}
  BY DEF ToSet
<1> HIDE DEF s
<1>3. \A i \in 1 .. Len(s) : s[i] \in ToSet(s)
  BY <1>1 DEF ToSet
<1>4. Len(s) = 0
  BY <1>1, <1>2, <1>3
<1>5. s = << >>
  BY <1>1, <1>4
<1> QED
  BY <1>5 DEF s

\* Lists that agree everywhere are the same.
LEMMA SameList ==
  ASSUME NEW a \in Seq(Int), NEW b \in Seq(Int), Len(a) = Len(b),
         \A i \in 1 .. Len(a) : a[i] = b[i]
  PROVE  a = b
OBVIOUS

\* The literals since an entry, up to another and beyond it.
LEMMA SinceSplit ==
  ASSUME setup \in Setups, NEW tr, Stack(tr), NEW old \in 0 .. Len(tr),
         NEW m \in old .. Len(tr), NEW k \in m .. Len(tr)
  PROVE  /\ Since(tr, old, k) = Since(tr, old, m) \o Since(tr, m, k)
         /\ \A set : Among(set, Since(tr, old, k)) =
                       Among(set, Since(tr, old, m)) \o Among(set, Since(tr, m, k))
<1> DEFINE a == Since(tr, old, m)
           b == Since(tr, m, k)
           c == Since(tr, old, k)
<1>1. /\ Len(tr) \in Nat /\ old \in Nat /\ m \in Nat /\ k \in Nat /\ old <= m /\ m <= k /\ k <= Len(tr)
      /\ m \in 0 .. Len(tr) /\ k \in old .. Len(tr)
  BY StackIs
<1>2. /\ a \in Seq(Int) /\ Len(a) = m - old /\ \A i \in 1 .. m - old : a[i] = tr[old + i].lit
      /\ b \in Seq(Int) /\ Len(b) = k - m /\ \A i \in 1 .. k - m : b[i] = tr[m + i].lit
      /\ c \in Seq(Int) /\ Len(c) = k - old /\ \A i \in 1 .. k - old : c[i] = tr[old + i].lit
  BY <1>1, SinceIs
<1> HIDE DEF a, b, c
<1>3. /\ a \o b \in Seq(Int) /\ Len(a \o b) = Len(a) + Len(b)
      /\ \A i \in 1 .. Len(a) : (a \o b)[i] = a[i]
      /\ \A i \in 1 .. Len(b) : (a \o b)[Len(a) + i] = b[i]
  BY <1>2, ConcatIs
<1>4. \A i \in 1 .. Len(c) : (a \o b)[i] = c[i]
  <2> SUFFICES ASSUME NEW i \in 1 .. Len(c) PROVE (a \o b)[i] = c[i]
    OBVIOUS
  <2>1. CASE i <= m - old
    <3>1. i \in 1 .. m - old
      BY <1>1, <1>2, <2>1
    <3> QED
      BY <1>2, <1>3, <3>1
  <2>2. CASE i > m - old
    <3>1. i - (m - old) \in 1 .. k - m /\ i = (m - old) + (i - (m - old))
          /\ m + (i - (m - old)) = old + i
      BY <1>1, <1>2, <2>2
    <3>2. (a \o b)[i] = b[i - (m - old)]
      BY <1>2, <1>3, <3>1
    <3> QED
      BY <1>2, <3>1, <3>2
  <2> QED
    BY <1>1, <1>2, <2>1, <2>2
<1>5. c = a \o b
  <2> DEFINE d == a \o b
  <2>1. Len(c) = Len(d) /\ Len(c) \in Nat
    BY <1>1, <1>2, <1>3
  <2>2. d \in Seq(Int) /\ \A i \in 1 .. Len(c) : d[i] = c[i]
    BY <1>3, <1>4
  <2> HIDE DEF d
  <2>3. c = d
    BY <1>2, <2>1, <2>2, SameList
  <2> QED
    BY <2>3 DEF d
<1>6. ASSUME NEW set PROVE Among(set, c) = Among(set, a) \o Among(set, b)
  <2>1. Among(set, a \o b) = Among(set, a) \o Among(set, b)
    BY <1>2, AmongConcat, Zenon
  <2> QED
    BY <1>5, <2>1, Zenon
<1> QED
  BY <1>5, <1>6, Zenon DEF a, b, c

\* Nothing came after the last entry.
LEMMA SinceNone ==
  ASSUME setup \in Setups, NEW tr, Stack(tr), NEW old \in 0 .. Len(tr), NEW set
  PROVE  Among(set, Since(tr, old, old)) = << >>
<1> DEFINE z == Since(tr, old, old)
<1>1. Len(tr) \in Nat /\ old \in Nat
  BY StackIs
<1>2. old \in old .. Len(tr)
  BY <1>1
<1>3. \A m \in old .. Len(tr) : Since(tr, old, m) \in Seq(Int) /\ Len(Since(tr, old, m)) = m - old
  BY SinceIs
<1>4. z \in Seq(Int) /\ Len(z) = 0
  BY <1>1, <1>2, <1>3
<1> HIDE DEF z
<1>5. z = << >>
  BY <1>4
<1> QED
  BY <1>5, AmongEmpty, Zenon DEF z

\* What the edges cost is a natural number and grows along the trail.
LEMMA CostsGrow ==
  ASSUME setup \in Setups, setup.theory = "edge", NEW tr, Stack(tr), NEW old \in 0 .. Len(tr),
         NEW m \in old .. Len(tr), NEW k \in m .. Len(tr)
  PROVE  /\ CostTo(tr, old, m) \in Nat /\ CostTo(tr, old, m) <= CostTo(tr, old, k)
         /\ CostTo(tr, old, old) = 0
<1>1. /\ Len(tr) \in Nat /\ old \in Nat /\ m \in Nat /\ k \in Nat
      /\ m \in 0 .. Len(tr) /\ k \in old .. Len(tr) /\ k \in m .. Len(tr) /\ old \in old .. Len(tr)
  BY StackIs
<1> DEFINE a == Among(Counted, Since(tr, old, m))
           b == Among(Counted, Since(tr, m, k))
<1>2. Since(tr, old, m) \in Seq(Int) /\ Since(tr, m, k) \in Seq(Int)
  BY <1>1, SinceIs
<1>3. a \in Seq(EdgeVars) /\ b \in Seq(EdgeVars)
  BY <1>2, CountedIs, AmongIn
<1>4. Among(Counted, Since(tr, old, k)) = a \o b
  BY SinceSplit
<1>5. CostTo(tr, old, m) = SumOf(a) /\ CostTo(tr, old, k) = SumOf(a \o b)
  BY <1>4 DEF CostTo
<1> HIDE DEF a, b
<1>6. SumOf(a) \in Nat /\ SumOf(b) \in Nat /\ SumOf(a \o b) = SumOf(a) + SumOf(b)
  BY <1>3, SumOfAppend, SumOfConcat
<1>7. CostTo(tr, old, old) = 0
  <2>1. Among(Counted, Since(tr, old, old)) = << >>
    BY SinceNone
  <2>2. SumOf(<< >>) = 0
    <3>1. << >> \in Seq(EdgeVars)
      OBVIOUS
    <3> QED
      BY <3>1, SumOfAppend
  <2> QED
    BY <2>1, <2>2 DEF CostTo
<1> QED
  BY <1>5, <1>6, <1>7

\* Trails that begin alike have the same literals there.
LEMMA SinceAgree ==
  ASSUME setup \in Setups, NEW tr, Stack(tr), NEW longer, Stack(longer),
         NEW old \in 0 .. Len(tr), NEW m \in old .. Len(tr), m <= Len(longer),
         \A i \in 1 .. m : longer[i] = tr[i]
  PROVE  /\ Since(longer, old, m) = Since(tr, old, m)
         /\ CostTo(longer, old, m) = CostTo(tr, old, m)
         /\ WithinTo(longer, old, m) <=> WithinTo(tr, old, m)
<1> DEFINE a == Since(tr, old, m)
           b == Since(longer, old, m)
<1>1. /\ old \in Nat /\ m \in Nat /\ Len(tr) \in Nat /\ Len(longer) \in Nat
      /\ old \in 0 .. Len(longer) /\ m \in old .. Len(longer)
      /\ \A i \in 1 .. m - old : old + i \in 1 .. m
  BY StackIs
<1>2. /\ a \in Seq(Int) /\ Len(a) = m - old /\ \A i \in 1 .. m - old : a[i] = tr[old + i].lit
      /\ b \in Seq(Int) /\ Len(b) = m - old /\ \A i \in 1 .. m - old : b[i] = longer[old + i].lit
  <2>1. a \in Seq(Int) /\ Len(a) = m - old /\ \A i \in 1 .. m - old : a[i] = tr[old + i].lit
    BY SinceIs
  <2>2. b \in Seq(Int) /\ Len(b) = m - old /\ \A i \in 1 .. m - old : b[i] = longer[old + i].lit
    BY <1>1, SinceIs
  <2> QED
    BY <2>1, <2>2
<1> HIDE DEF a, b
<1>3. \A i \in 1 .. m - old : a[i] = b[i]
  BY <1>1, <1>2
<1>4. a = b
  BY <1>1, <1>2, <1>3
<1> QED
  BY <1>4 DEF CostTo, WithinTo, a, b

-----------------------------------------------------------------------------
\* What the Edge theory counts after a literal is enqueued: the literal, if it
\* is an edge, and nothing of what follows it.
LEMMA ExtendedCounted ==
  ASSUME setup \in Setups, setup.theory = "edge", NEW tr, Stack(tr), NEW lit \in Literals,
         NEW level, NEW new, Extended(tr, new, lit, level),
         NEW old \in 0 .. Len(tr), NEW k \in Len(tr) + 1 .. Len(new)
  PROVE  Among(Counted, Since(new, old, k)) =
           IF lit \in EdgeVars THEN Append(Among(Counted, Since(tr, old, Len(tr))), lit)
           ELSE Among(Counted, Since(tr, old, Len(tr)))
<1> DEFINE n == Len(tr)
           before == Since(tr, old, Len(tr))
           here == Since(new, old, Len(tr) + 1)
           rest == Since(new, Len(tr) + 1, k)
<1>1. /\ Stack(new) /\ n + 1 <= Len(new) /\ \A i \in 1 .. n : new[i] = tr[i]
      /\ new[n + 1].lit = lit
      /\ \A i \in n + 2 .. Len(new) : \E l \in Excluded(lit) : new[i].lit = - l
  BY DEF Extended
<1>2. /\ n \in Nat /\ Len(new) \in Nat /\ old \in 0 .. Len(new) /\ n + 1 \in old .. Len(new)
      /\ n + 1 \in 0 .. Len(new) /\ k \in n + 1 .. Len(new) /\ old \in Nat /\ k \in Nat /\ old <= n
      /\ Len(tr) \in old .. Len(tr)
  BY <1>1, StackIs
<1>3. Among(Counted, Since(new, old, k)) = Among(Counted, here) \o Among(Counted, rest)
  BY <1>1, <1>2, SinceSplit
<1>4. /\ before \in Seq(Int) /\ Len(before) = n - old
      /\ \A i \in 1 .. n - old : before[i] = tr[old + i].lit
  <2>1. \A m \in old .. Len(tr) :
          /\ Since(tr, old, m) \in Seq(Int) /\ Len(Since(tr, old, m)) = m - old
          /\ \A i \in 1 .. m - old : Since(tr, old, m)[i] = tr[old + i].lit
    BY SinceIs
  <2> QED
    BY <1>2, <2>1
<1>5. /\ here \in Seq(Int) /\ Len(here) = n + 1 - old
      /\ \A i \in 1 .. n + 1 - old : here[i] = new[old + i].lit
  BY <1>1, <1>2, SinceIs
<1>6. /\ rest \in Seq(Int) /\ Len(rest) = k - (n + 1)
      /\ \A i \in 1 .. k - (n + 1) : rest[i] = new[n + 1 + i].lit
  BY <1>1, <1>2, SinceIs
<1> HIDE DEF before, here, rest
<1>7. here = Append(before, lit)
  <2> DEFINE longer == Append(before, lit)
  <2>1. lit \in Int
    BY LiteralsAre
  <2>2. /\ longer \in Seq(Int) /\ Len(longer) = n + 1 - old
        /\ \A i \in 1 .. n - old : longer[i] = before[i]
        /\ longer[n + 1 - old] = lit
    BY <1>2, <1>4, <2>1
  <2> HIDE DEF longer
  <2>3. \A i \in 1 .. n + 1 - old : longer[i] = here[i]
    <3> SUFFICES ASSUME NEW i \in 1 .. n + 1 - old PROVE longer[i] = here[i]
      OBVIOUS
    <3>1. CASE i = n + 1 - old
      <4>1. old + i = n + 1
        BY <1>2, <3>1
      <4> QED
        BY <1>1, <1>5, <2>2, <3>1, <4>1
    <3>2. CASE i # n + 1 - old
      <4>1. i \in 1 .. n - old /\ old + i \in 1 .. n
        BY <1>2, <3>2
      <4> QED
        BY <1>1, <1>4, <1>5, <2>2, <4>1
    <3> QED
      BY <3>1, <3>2
  <2>4. longer = here
    BY <1>2, <1>5, <2>2, <2>3, SameList
  <2> QED
    BY <2>4 DEF longer
<1>8. Among(Counted, rest) = << >>
  <2>1. \A i \in 1 .. Len(rest) : rest[i] \notin Counted
    <3> SUFFICES ASSUME NEW i \in 1 .. Len(rest) PROVE rest[i] \notin Counted
      OBVIOUS
    <3>1. n + 1 + i \in n + 2 .. Len(new) /\ rest[i] = new[n + 1 + i].lit
      BY <1>2, <1>6
    <3>2. PICK l \in Excluded(lit) : rest[i] = - l
      BY <1>1, <3>1
    <3> QED
      BY <3>2, ExcludedIs
  <2> QED
    BY <1>6, <2>1, AmongNone
<1>9. Among(Counted, Append(before, lit)) =
        IF lit \in Counted THEN Append(Among(Counted, before), lit) ELSE Among(Counted, before)
  <2>1. lit \in Int
    BY LiteralsAre
  <2> QED
    BY <1>4, <2>1, AmongAppend, Zenon
<1>10. Among(Counted, here) \in Seq(Int)
  BY <1>5, AmongType, Zenon
<1>11. Among(Counted, here) \o << >> = Among(Counted, here)
  BY <1>10
<1>12. Counted = EdgeVars
  BY CountedIs
<1> QED
  BY <1>3, <1>7, <1>8, <1>9, <1>11, <1>12, Zenon DEF before

\* The theory follows the trail when a literal is enqueued.
LEMMA EnqueueFollows ==
  ASSUME setup \in Setups, NEW tr, Stack(tr), NEW th, NEW lit \in Literals,
         NEW level, NEW new, Extended(tr, new, lit, level), NEW old \in 0 .. Len(tr),
         setup.theory = "edge" => IsTheory(th), Follows(th, tr, old)
  PROVE  Follows(Push(th, lit), new, old)
<1> DEFINE after == Push(th, lit)
<1> SUFFICES ASSUME setup.theory = "edge"
             PROVE  /\ after.soln = Among(Counted, Since(new, old, Len(new)))
                    /\ after.costs = SumOf(after.soln)
                    /\ after.conflict <=> after.costs > setup.budget
  BY DEF Follows
<1> DEFINE before == Among(Counted, Since(tr, old, Len(tr)))
           more == Among(Counted, Since(new, old, Len(new)))
<1>1. /\ th.soln = before /\ th.costs = SumOf(before)
      /\ th.conflict <=> th.costs > setup.budget
  BY DEF Follows
<1>2. Len(tr) \in Nat /\ Stack(new) /\ Len(new) \in Nat /\ Len(tr) + 1 <= Len(new)
  BY StackIs DEF Extended
<1>3. Len(new) \in Len(tr) + 1 .. Len(new) /\ Len(tr) \in old .. Len(tr)
  BY <1>2
<1>4. more = IF lit \in EdgeVars THEN Append(before, lit) ELSE before
  BY <1>3, ExtendedCounted
<1>5. before \in Seq(EdgeVars)
  BY <1>3, SinceIs, AmongIn, CountedIs
<1> HIDE DEF before, more, after
<1>6. CASE lit \in EdgeVars
  <2>1. /\ after.soln = Append(before, lit)
        /\ after.costs = SumOf(before) + lit_cost(lit)
        /\ after.conflict <=> SumOf(before) + lit_cost(lit) > setup.budget
    BY <1>1, <1>6, PushIs DEF after
  <2>2. SumOf(Append(before, lit)) = SumOf(before) + lit_cost(lit)
    BY <1>5, <1>6, SumOfAppend
  <2> QED
    BY <1>4, <1>6, <2>1, <2>2 DEF more
<1>7. CASE lit \notin EdgeVars
  <2>1. after = th
    BY <1>7, PushIs DEF after
  <2> QED
    BY <1>1, <1>4, <1>7, <2>1 DEF more
<1> QED
  BY <1>6, <1>7

\* Within the budget up to an entry is within the budget up to those before it.
LEMMA WithinBefore ==
  ASSUME setup \in Setups, NEW tr, Stack(tr), NEW old \in 0 .. Len(tr),
         NEW m \in old .. Len(tr), NEW k \in m .. Len(tr), WithinTo(tr, old, k)
  PROVE  WithinTo(tr, old, m)
<1> SUFFICES ASSUME setup.theory = "edge" PROVE CostTo(tr, old, m) <= setup.budget
  BY DEF WithinTo
<1>1. CostTo(tr, old, k) <= setup.budget
  BY DEF WithinTo
<1>2. k \in old .. Len(tr) /\ k \in k .. Len(tr)
  BY StackIs
<1>3. CostTo(tr, old, k) \in Nat
  BY <1>2, CostsGrow
<1>4. CostTo(tr, old, m) \in Nat /\ CostTo(tr, old, m) <= CostTo(tr, old, k)
  BY CostsGrow
<1>5. setup.budget \in Nat
  BY SetupIs
<1> QED
  BY <1>1, <1>3, <1>4, <1>5

\* The edges up to the literal enqueued are within the budget only if the
\* theory says so.
LEMMA WithinSaid ==
  ASSUME setup \in Setups, setup.theory = "edge", NEW tr, Stack(tr), NEW lit \in Literals,
         NEW level, NEW new, Extended(tr, new, lit, level), NEW old \in 0 .. Len(tr),
         NEW th, Follows(th, new, old), WithinTo(new, old, Len(tr) + 1)
  PROVE  ~ th.conflict
<1>1. Len(tr) \in Nat /\ Stack(new) /\ Len(new) \in Nat /\ Len(tr) + 1 <= Len(new)
  BY StackIs DEF Extended
<1>2. Len(new) \in Len(tr) + 1 .. Len(new) /\ Len(tr) + 1 \in Len(tr) + 1 .. Len(new)
  BY <1>1
<1>3. Among(Counted, Since(new, old, Len(new))) = Among(Counted, Since(new, old, Len(tr) + 1))
  <2>1. \A k \in Len(tr) + 1 .. Len(new) :
          Among(Counted, Since(new, old, k)) =
            IF lit \in EdgeVars THEN Append(Among(Counted, Since(tr, old, Len(tr))), lit)
            ELSE Among(Counted, Since(tr, old, Len(tr)))
    BY ExtendedCounted
  <2> QED
    BY <1>2, <2>1
<1>4. th.costs = CostTo(new, old, Len(tr) + 1)
  BY <1>3 DEF Follows, CostTo
<1>5. CostTo(new, old, Len(tr) + 1) <= setup.budget
  BY DEF WithinTo
<1>6. setup.budget \in Nat /\ CostTo(new, old, Len(tr) + 1) \in Nat
  <2>1. old \in 0 .. Len(new) /\ Len(tr) + 1 \in old .. Len(new)
        /\ Len(new) \in Len(tr) + 1 .. Len(new)
    BY <1>1
  <2> QED
    BY <1>1, <2>1, CostsGrow, SetupIs
<1>7. th.conflict <=> th.costs > setup.budget
  BY DEF Follows
<1> QED
  BY <1>4, <1>5, <1>6, <1>7

\* A literal that comes while the edges are within the budget settles what it
\* excludes; nothing of that is true already.
LEMMA ExtendedExcludes ==
  ASSUME setup \in Setups, NEW tr, Stack(tr), NEW lit \in Literals, ~ Assigned(tr, lit),
         NEW level, NEW new, Extended(tr, new, lit, level), NEW old \in 0 .. Len(tr),
         Excludes(tr, old),
         WithinTo(new, old, Len(tr) + 1) =>
           \A l \in Excluded(lit) : IsTrue(new, - l) \/ IsTrue(tr, l)
  PROVE  Excludes(new, old)
<1> DEFINE n == Len(tr)
<1>1. /\ Stack(new) /\ n + 1 <= Len(new) /\ \A i \in 1 .. n : new[i] = tr[i]
      /\ new[n + 1].lit = lit
      /\ \A i \in n + 2 .. Len(new) : \E l \in Excluded(lit) : new[i].lit = - l
  BY DEF Extended
<1>2. n \in Nat /\ Len(new) \in Nat /\ DOMAIN tr = 1 .. n /\ DOMAIN new = 1 .. Len(new)
      /\ \A i, j \in 1 .. Len(new) : i <= j => new[i].level <= new[j].level
  BY <1>1, StackIs
<1>3. \A i \in n + 1 .. Len(new) : new[i].level = level
  BY DEF Extended
<1>4. \A m \in old .. n : WithinTo(new, old, m) <=> WithinTo(tr, old, m)
  <2> SUFFICES ASSUME NEW m \in old .. n PROVE WithinTo(new, old, m) <=> WithinTo(tr, old, m)
    OBVIOUS
  <2>1. m <= Len(new) /\ \A i \in 1 .. m : new[i] = tr[i]
    BY <1>1, <1>2
  <2> QED
    BY <1>1, <2>1, SinceAgree
<1> SUFFICES ASSUME NEW i \in old + 1 .. Len(new), WithinTo(new, old, i),
                    NEW l \in Excluded(new[i].lit)
             PROVE  Settled(new, old, i, l)
  BY DEF Excludes
<1>5. CASE i \in old + 1 .. n
  <2>1. new[i] = tr[i] /\ WithinTo(tr, old, i) /\ i \in old .. n
    BY <1>1, <1>2, <1>4, <1>5
  <2>2. Settled(tr, old, i, l)
    BY <1>5, <2>1 DEF Excludes
  <2>3. PICK j \in 1 .. n : /\ tr[j].level <= tr[i].level
                            /\ tr[j].lit = - l \/ (tr[j].lit = l /\ j <= old)
    BY <1>2, <2>2 DEF Settled
  <2>4. j \in DOMAIN new /\ new[j] = tr[j]
    BY <1>1, <1>2, <2>3
  <2> QED
    BY <2>1, <2>3, <2>4 DEF Settled
<1>6. CASE i = n + 1
  <2>1. l \in Excluded(lit) /\ new[i].level = level
    BY <1>1, <1>2, <1>3, <1>6
  <2>2. IsTrue(new, - l) \/ IsTrue(tr, l)
    BY <1>6, <2>1
  <2>3. \A j \in 1 .. Len(new) : new[j].level <= new[i].level
    <3> SUFFICES ASSUME NEW j \in 1 .. Len(new) PROVE new[j].level <= new[i].level
      OBVIOUS
    <3>1. i \in 1 .. Len(new)
      BY <1>1, <1>2, <1>6
    <3>2. CASE j <= i
      BY <1>2, <3>1, <3>2
    <3>3. CASE j > i
      <4>1. new[j].level = new[i].level
        BY <1>2, <1>3, <1>6, <2>1, <3>3
      <4>2. i <= i
        BY <1>2, <1>6
      <4>3. new[i].level <= new[i].level
        BY <1>2, <3>1, <4>2
      <4> QED
        BY <4>1, <4>3
    <3> QED
      BY <1>2, <1>6, <3>2, <3>3
  <2>4. CASE IsTrue(new, - l)
    BY <1>2, <2>3, <2>4 DEF IsTrue, Settled
  <2>5. CASE IsTrue(tr, l)
    <3>1. PICK j \in 1 .. n : tr[j].lit = l
      BY <1>2, <2>5 DEF IsTrue
    <3>2. j \in 1 .. Len(new) /\ new[j].lit = l
      BY <1>1, <1>2, <3>1
    <3>3. CASE j <= old
      BY <1>2, <2>3, <3>2, <3>3 DEF Settled
    <3>4. CASE j > old
      <4>1. j \in old + 1 .. n /\ j \in old .. n /\ j \in old .. Len(new) /\ i \in j .. Len(new)
            /\ old \in 0 .. Len(new)
        BY <1>1, <1>2, <1>6, <3>1, <3>4
      <4>2. WithinTo(tr, old, j)
        BY <1>1, <1>4, <4>1, WithinBefore
      <4>3. lit \in Excluded(l)
        BY <2>1, ExcludedIs
      <4>4. Settled(tr, old, j, lit)
        BY <3>1, <4>1, <4>2, <4>3 DEF Excludes
      <4>5. Assigned(tr, lit)
        BY <4>4 DEF Settled, Assigned, IsTrue, IsFalse
      <4> QED
        BY <4>5
    <3> QED
      BY <3>1, <3>3, <3>4
  <2> QED
    BY <2>2, <2>4, <2>5
<1>7. CASE i \in n + 2 .. Len(new)
  <2>1. PICK x \in Excluded(lit) : new[i].lit = - x
    BY <1>1, <1>7
  <2>2. Excluded(- x) = {}
    BY <2>1, ExcludedIs
  <2> QED
    BY <2>1, <2>2
<1> QED
  BY <1>1, <1>2, <1>5, <1>6, <1>7

\* The entries below the level of the literal enqueued are the old ones.
LEMMA ExtendedLower ==
  ASSUME setup \in Setups, NEW tr, Stack(tr), NEW lit \in Literals,
         NEW level \in Nat, NEW new, Extended(tr, new, lit, level), Fixed(tr, fixed),
         LowerWithin(tr, fixed, level)
  PROVE  DecisionLevel(new) = level /\ Fixed(new, fixed) /\ LowerWithin(new, fixed, level)
<1> DEFINE n == Len(tr)
<1>1. /\ Stack(new) /\ n + 1 <= Len(new) /\ \A i \in 1 .. n : new[i] = tr[i]
      /\ \A i \in n + 1 .. Len(new) : new[i].level = level
  BY DEF Extended
<1>2. n \in Nat /\ Len(new) \in Nat
  BY <1>1, StackIs
<1>3. fixed \in 0 .. n /\ \A i \in 1 .. fixed : tr[i].level = 0
  BY DEF Fixed
<1>4. DecisionLevel(new) = level
  <2>1. Len(new) > 0 /\ new[Len(new)].level = level
    BY <1>1, <1>2
  <2> QED
    BY <1>1, <2>1, LevelIs
<1>5. Fixed(new, fixed)
  <2>1. fixed \in 0 .. Len(new)
    BY <1>1, <1>2, <1>3
  <2>2. \A i \in 1 .. fixed : new[i].level = 0
    BY <1>1, <1>2, <1>3
  <2> QED
    BY <2>1, <2>2 DEF Fixed
<1>6. ASSUME NEW m \in fixed + 1 .. Len(new), new[m].level < level PROVE WithinTo(new, fixed, m)
  <2>1. m \in fixed + 1 .. n
    <3>1. m \notin n + 1 .. Len(new)
      BY <1>1, <1>6
    <3> QED
      BY <1>2, <1>3, <3>1
  <2>2. WithinTo(tr, fixed, m)
    <3>1. tr[m].level < level
      BY <1>1, <1>2, <1>3, <1>6, <2>1
    <3> QED
      BY <2>1, <3>1 DEF LowerWithin
  <2>3. /\ m \in fixed .. n /\ m <= Len(new) /\ \A i \in 1 .. m : new[i] = tr[i]
    BY <1>1, <1>2, <1>3, <2>1
  <2>4. WithinTo(new, fixed, m) <=> WithinTo(tr, fixed, m)
    BY <1>1, <1>3, <2>3, SinceAgree
  <2> QED
    BY <2>2, <2>4
<1> QED
  BY <1>4, <1>5, <1>6 DEF LowerWithin

-----------------------------------------------------------------------------
\* Going back below the current level: the theory forgets what goes, the flag
\* is lowered, and the edges that stay are within the budget.
LEMMA CutKeeps ==
  ASSUME setup \in Setups, NEW tr, Stack(tr), Fixed(tr, fixed), NEW k \in Nat,
         k < DecisionLevel(tr), LowerWithin(tr, fixed, DecisionLevel(tr)), Excludes(tr, fixed)
  PROVE  /\ Stack(KeptUntil(tr, k)) /\ Fixed(KeptUntil(tr, k), fixed)
         /\ Excludes(KeptUntil(tr, k), fixed)
         /\ \A i \in 1 .. Len(KeptUntil(tr, k)) : KeptUntil(tr, k)[i].level <= k
         /\ \A m \in fixed .. Len(KeptUntil(tr, k)) : WithinTo(KeptUntil(tr, k), fixed, m)
         /\ TrailLim(tr, k) \in fixed .. Len(tr) /\ WithinTo(tr, fixed, TrailLim(tr, k))
<1> DEFINE n == TrailLim(tr, k)
           kept == KeptUntil(tr, k)
<1>1. /\ n \in 0 .. Len(tr) /\ \A i \in 1 .. Len(tr) : tr[i].level <= k <=> i <= n
      /\ Stack(kept) /\ Len(kept) = n /\ \A i \in 1 .. n : kept[i] = tr[i]
  BY CutIs
<1> HIDE DEF n, kept
<1>2. /\ Len(tr) \in Nat /\ DOMAIN tr = 1 .. Len(tr) /\ DOMAIN kept = 1 .. n
      /\ \A i \in 1 .. Len(tr) : tr[i].level \in Nat
      /\ DecisionLevel(tr) \in Nat
      /\ fixed \in 0 .. Len(tr) /\ \A i \in 1 .. fixed : tr[i].level = 0
  BY <1>1, StackIs, LevelIs DEF Fixed
<1>3. fixed <= n
  <2>1. CASE fixed = 0
    BY <1>1, <2>1
  <2>2. CASE fixed > 0
    <3>1. fixed \in 1 .. Len(tr) /\ fixed \in 1 .. fixed
      BY <1>2, <2>2
    <3>2. tr[fixed].level <= k
      BY <1>2, <3>1
    <3> QED
      BY <1>1, <3>1, <3>2
  <2> QED
    BY <1>2, <2>1, <2>2
<1>4. fixed \in 0 .. n /\ n \in Nat /\ fixed \in Nat /\ n \in fixed .. Len(tr)
  BY <1>1, <1>2, <1>3
<1>5. WithinTo(tr, fixed, n)
  <2>1. CASE n = fixed
    <3>1. setup.theory = "edge" => CostTo(tr, fixed, fixed) = 0
      BY <1>2, <1>4, <2>1, CostsGrow
    <3> QED
      BY <2>1, <3>1, SetupIs DEF WithinTo
  <2>2. CASE n > fixed
    <3>1. n \in fixed + 1 .. Len(tr) /\ n \in 1 .. Len(tr)
      BY <1>1, <1>4, <2>2
    <3>2. tr[n].level <= k
      BY <1>1, <1>4, <3>1
    <3>3. tr[n].level < DecisionLevel(tr)
      BY <1>2, <3>1, <3>2
    <3> QED
      BY <3>1, <3>3 DEF LowerWithin
  <2> QED
    BY <1>3, <1>4, <2>1, <2>2
<1>6. ASSUME NEW m \in fixed .. n PROVE WithinTo(tr, fixed, m) /\ WithinTo(kept, fixed, m)
  <2>1. m \in fixed .. Len(tr) /\ n \in m .. Len(tr)
    BY <1>1, <1>4
  <2>2. WithinTo(tr, fixed, m)
    BY <1>2, <1>5, <2>1, WithinBefore
  <2>3. m <= Len(kept) /\ \A i \in 1 .. m : kept[i] = tr[i]
    BY <1>1, <1>4
  <2>4. WithinTo(kept, fixed, m) <=> WithinTo(tr, fixed, m)
    BY <1>1, <1>2, <2>1, <2>3, SinceAgree
  <2> QED
    BY <2>2, <2>4
<1>7. \A i \in 1 .. Len(kept) : kept[i].level <= k
  BY <1>1
<1>8. Fixed(kept, fixed)
  <2>1. \A i \in 1 .. fixed : kept[i].level = 0
    BY <1>1, <1>2, <1>4
  <2> QED
    BY <1>1, <1>4, <2>1 DEF Fixed
<1>9. Excludes(kept, fixed)
  <2> SUFFICES ASSUME NEW i \in fixed + 1 .. n, NEW l \in Excluded(kept[i].lit)
               PROVE  Settled(kept, fixed, i, l)
    BY <1>1 DEF Excludes
  <2>1. /\ i \in fixed .. n /\ i \in 1 .. n /\ i \in fixed + 1 .. Len(tr) /\ i \in 1 .. Len(tr)
        /\ kept[i] = tr[i]
    BY <1>1, <1>4
  <2>2. Settled(tr, fixed, i, l)
    BY <1>6, <2>1 DEF Excludes
  <2>3. PICK j \in 1 .. Len(tr) : /\ tr[j].level <= tr[i].level
                                  /\ tr[j].lit = - l \/ (tr[j].lit = l /\ j <= fixed)
    BY <1>2, <2>2 DEF Settled
  <2>4. j \in 1 .. n
    <3>1. tr[i].level <= k
      BY <1>1, <2>1
    <3>2. tr[j].level <= k
      BY <1>2, <2>1, <2>3, <3>1
    <3> QED
      BY <1>1, <1>4, <2>3, <3>2
  <2>5. j \in DOMAIN kept /\ kept[j] = tr[j]
    BY <1>1, <1>2, <2>4
  <2> QED
    BY <2>1, <2>3, <2>5 DEF Settled
<1> QED
  BY <1>1, <1>4, <1>5, <1>6, <1>7, <1>8, <1>9 DEF n, kept

\* What the theory makes of it.
LEMMA CutFollows ==
  ASSUME setup \in Setups, setup.theory = "edge", NEW tr, Stack(tr), Fixed(tr, fixed), NEW k \in Nat,
         k < DecisionLevel(tr), LowerWithin(tr, fixed, DecisionLevel(tr)), Excludes(tr, fixed),
         NEW th, IsTheory(th), Follows(th, tr, fixed)
  PROVE  /\ IsTheory(Shrink(th, LitsAbove(tr, k))) /\ ~ Shrink(th, LitsAbove(tr, k)).conflict
         /\ Follows(Shrink(th, LitsAbove(tr, k)), KeptUntil(tr, k), fixed)
<1> DEFINE n == TrailLim(tr, k)
           kept == KeptUntil(tr, k)
           a == Among(Counted, Since(tr, fixed, n))
           gone == Among(Counted, LitsAbove(tr, k))
           cut == Shrink(th, LitsAbove(tr, k))
<1>1. /\ Stack(kept) /\ n \in fixed .. Len(tr) /\ WithinTo(tr, fixed, n)
  BY CutKeeps
<1>2. /\ Len(kept) = n /\ \A i \in 1 .. n : kept[i] = tr[i]
      /\ LitsAbove(tr, k) = Since(tr, n, Len(tr))
  BY CutIs
<1>3. Len(tr) \in Nat /\ fixed \in 0 .. Len(tr)
  BY StackIs DEF Fixed
<1>4. /\ n \in 0 .. Len(tr) /\ Len(tr) \in n .. Len(tr) /\ n \in Nat /\ n <= n /\ n \in fixed .. n
  BY <1>1, <1>3
<1> HIDE DEF n, kept
<1>5. a \in Seq(EdgeVars) /\ gone \in Seq(EdgeVars)
  <2>1. Since(tr, fixed, n) \in Seq(Int) /\ Since(tr, n, Len(tr)) \in Seq(Int)
    BY <1>1, <1>3, <1>4, SinceIs
  <2> QED
    BY <1>2, <2>1, AmongIn, CountedIs
<1>6. Among(Counted, Since(tr, fixed, Len(tr))) = a \o gone
  BY <1>1, <1>2, <1>3, <1>4, SinceSplit
<1>7. Since(kept, fixed, n) = Since(tr, fixed, n)
  BY <1>1, <1>2, <1>3, <1>4, SinceAgree
<1>8. th.soln = a \o gone /\ th.costs = SumOf(a \o gone) /\ (th.conflict <=> th.costs > setup.budget)
  BY <1>6 DEF Follows
<1>9. SumOf(a) <= setup.budget
  BY <1>1 DEF WithinTo, CostTo
<1> HIDE DEF a
<1>10. /\ cut.soln = SubSeq(th.soln, 1, Len(th.soln) - Len(gone))
       /\ cut.costs = th.costs - SumOf(gone)
       /\ cut.conflict = (th.conflict /\ gone = << >>)
       /\ cut.checked = th.checked /\ DOMAIN cut = DOMAIN th
  <2> HIDE DEF gone
  <2>1. Shrink(th, LitsAbove(tr, k)) = [Popped(th, gone) EXCEPT !.conflict = @ /\ gone = << >>]
    BY DEF Shrink, gone
  <2>2. DOMAIN th = {"soln", "costs", "conflict", "checked", "tree"}
    BY DEF IsTheory
  <2> QED
    BY <2>1, <2>2 DEF Popped
<1> HIDE DEF gone, cut
<1>11. cut.soln = a
  BY <1>5, <1>8, <1>10
<1>12. /\ SumOf(a) \in Nat /\ SumOf(gone) \in Nat /\ SumOf(a \o gone) = SumOf(a) + SumOf(gone)
       /\ setup.budget \in Nat
  BY <1>5, SumOfAppend, SumOfConcat, SetupIs
<1>13. cut.costs = SumOf(a)
  BY <1>8, <1>10, <1>12
<1>14. ~ cut.conflict
  <2> SUFFICES ASSUME th.conflict, gone = << >> PROVE FALSE
    BY <1>10
  <2>1. a \o gone = a
    BY <1>5
  <2> QED
    BY <1>8, <1>9, <1>12, <2>1
<1>15. IsTheory(cut)
  BY <1>10, <1>14 DEF IsTheory
<1>16. Follows(cut, kept, fixed)
  <2>1. Among(Counted, Since(kept, fixed, Len(kept))) = a
    BY <1>2, <1>7 DEF a
  <2> QED
    BY <1>9, <1>11, <1>12, <1>13, <1>14, <2>1 DEF Follows
<1> QED
  BY <1>14, <1>15, <1>16 DEF cut, kept

-----------------------------------------------------------------------------
\* What enqueueing a literal makes of a theory and its trail.
LEMMA EnqueueSound ==
  ASSUME setup \in Setups, NEW th, NEW tr, NEW level \in Nat, Sound(th, tr, fixed, level),
         \A i \in 1 .. Len(tr) : tr[i].level <= level,
         NEW lit \in Literals, ~ Assigned(tr, lit), NEW e, e = Enqueue(tr, th, lit, level)
  PROVE  /\ Sound(e.theory, e.trail, fixed, level) /\ DecisionLevel(e.trail) = level
         /\ setup.theory = "edge" /\ (th.conflict => ~ th.checked) =>
              (e.theory.conflict => ~ e.theory.checked)
<1> DEFINE after == Push(th, lit)
           new == Enqueue(tr, th, lit, level).trail
<1>1. /\ Stack(tr) /\ Fixed(tr, fixed) /\ (setup.theory = "edge" => IsTheory(th))
      /\ Follows(th, tr, fixed) /\ Excludes(tr, fixed) /\ LowerWithin(tr, fixed, level)
      /\ fixed \in 0 .. Len(tr)
  BY DEF Sound, Fixed
<1>2. /\ Enqueue(tr, th, lit, level).theory = after /\ Extended(tr, new, lit, level)
      /\ ~ (setup.theory = "edge" /\ after.conflict) =>
           \A l \in Excluded(lit) : IsTrue(new, - l) \/ IsTrue(tr, l)
  BY <1>1, EnqueueIs
<1> HIDE DEF after, new
<1>3. Follows(after, new, fixed)
  BY <1>1, <1>2, EnqueueFollows DEF after
<1>4. WithinTo(new, fixed, Len(tr) + 1) => ~ (setup.theory = "edge" /\ after.conflict)
  BY <1>1, <1>2, <1>3, WithinSaid
<1>5. Excludes(new, fixed)
  BY <1>1, <1>2, <1>4, ExtendedExcludes
<1>6. DecisionLevel(new) = level /\ Fixed(new, fixed) /\ LowerWithin(new, fixed, level)
  BY <1>1, <1>2, ExtendedLower
<1>7. setup.theory = "edge" =>
        IsTheory(after) /\ ((th.conflict => ~ th.checked) => (after.conflict => ~ after.checked))
  BY <1>1, PushIs DEF after
<1>8. Stack(new)
  BY <1>2 DEF Extended
<1> QED
  BY <1>2, <1>3, <1>5, <1>6, <1>7, <1>8 DEF Sound, new

\* What going back makes of them.
LEMMA CutSound ==
  ASSUME setup \in Setups, NEW th, NEW tr, Sound(th, tr, fixed, DecisionLevel(tr)),
         NEW k \in Nat, k < DecisionLevel(tr), NEW level
  PROVE  /\ Sound(Shrink(th, LitsAbove(tr, k)), KeptUntil(tr, k), fixed, level)
         /\ \A i \in 1 .. Len(KeptUntil(tr, k)) : KeptUntil(tr, k)[i].level <= k
         /\ setup.theory = "edge" => ~ Shrink(th, LitsAbove(tr, k)).conflict
<1> DEFINE kept == KeptUntil(tr, k)
           cut == Shrink(th, LitsAbove(tr, k))
<1>1. /\ Stack(tr) /\ Fixed(tr, fixed) /\ (setup.theory = "edge" => IsTheory(th))
      /\ Follows(th, tr, fixed) /\ Excludes(tr, fixed)
      /\ LowerWithin(tr, fixed, DecisionLevel(tr))
  BY DEF Sound
<1>2. /\ Stack(kept) /\ Fixed(kept, fixed) /\ Excludes(kept, fixed)
      /\ \A i \in 1 .. Len(kept) : kept[i].level <= k
      /\ \A m \in fixed .. Len(kept) : WithinTo(kept, fixed, m)
  BY <1>1, CutKeeps
<1>3. setup.theory = "edge" => IsTheory(cut) /\ ~ cut.conflict /\ Follows(cut, kept, fixed)
  BY <1>1, CutFollows
<1> HIDE DEF kept, cut
<1>4. Follows(cut, kept, fixed)
  BY <1>3 DEF Follows
<1>5. LowerWithin(kept, fixed, level)
  <2>1. fixed \in Nat /\ Len(kept) \in Nat
    BY <1>2, StackIs DEF Fixed
  <2> QED
    BY <1>2, <2>1 DEF LowerWithin
<1> QED
  BY <1>2, <1>3, <1>4, <1>5 DEF Sound, kept, cut

\* Asking a theory raises one flag only.
LEMMA CheckedSound ==
  ASSUME NEW th, NEW tr, NEW level, Sound(th, tr, fixed, level)
  PROVE  Sound([th EXCEPT !.checked = TRUE], tr, fixed, level)
<1> DEFINE asked == [th EXCEPT !.checked = TRUE]
<1>1. setup.theory = "edge" => /\ DOMAIN asked = DOMAIN th /\ asked.soln = th.soln
                               /\ asked.costs = th.costs /\ asked.conflict = th.conflict
                               /\ asked.checked = TRUE
  BY DEF Sound, IsTheory
<1> HIDE DEF asked
<1>2. setup.theory = "edge" => IsTheory(asked)
  BY <1>1 DEF Sound, IsTheory
<1>3. Follows(asked, tr, fixed)
  BY <1>1 DEF Sound, Follows
<1> QED
  BY <1>2, <1>3 DEF Sound, asked

\* What the theory reports is real.
LEMMA ConflictIsReal ==
  ASSUME setup \in Setups, setup.theory = "edge", NEW th, NEW tr, NEW level,
         Sound(th, tr, fixed, level), th.conflict
  PROVE  Real(tr, ConflictClause(th))
<1> DEFINE since == Since(tr, fixed, Len(tr))
           edges == {x \in EdgeVars : x \in ToSet(since)}
           lits == ConflictClause(th)
<1>0. Stack(tr) /\ fixed \in 0 .. Len(tr)
  BY DEF Sound, Fixed
<1>1. /\ Stack(tr) /\ fixed \in 0 .. Len(tr)
      /\ th.soln = Among(Counted, since) /\ th.costs = SumOf(th.soln)
      /\ th.costs > setup.budget
  BY DEF Sound, Fixed, Follows
<1>2. Len(tr) \in Nat /\ Len(tr) \in fixed .. Len(tr) /\ DOMAIN tr = 1 .. Len(tr)
  BY <1>1, StackIs
<1>3. /\ since \in Seq(Int) /\ Len(since) = Len(tr) - fixed
      /\ \A i \in 1 .. Len(tr) - fixed : since[i] = tr[fixed + i].lit
      /\ \A i, j \in 1 .. Len(tr) - fixed : since[i] = since[j] => i = j
  <2>1. \A m \in fixed .. Len(tr) :
          /\ Since(tr, fixed, m) \in Seq(Int) /\ Len(Since(tr, fixed, m)) = m - fixed
          /\ \A i \in 1 .. m - fixed : Since(tr, fixed, m)[i] = tr[fixed + i].lit
          /\ \A i, j \in 1 .. m - fixed :
               Since(tr, fixed, m)[i] = Since(tr, fixed, m)[j] => i = j
    BY <1>0, SinceIs
  <2> QED
    BY <1>2, <2>1
<1> HIDE DEF since
<1>4. SumOf(Among(EdgeVars, since)) = CostOfEdges(edges)
  BY <1>3, AmongCost
<1>5. ToSet(Among(EdgeVars, since)) = edges
  BY <1>3, AmongSet, Zenon
<1>6. CostOfEdges(edges) > setup.budget /\ ToSet(th.soln) = edges
  BY <1>1, <1>4, <1>5, CountedIs
<1>7. lits = {- l : l \in edges} /\ edges \subseteq Int
  BY <1>6, LiteralsAre DEF ConflictClause
<1>8. \A x \in edges : IsTrue(tr, x)
  <2> SUFFICES ASSUME NEW x \in edges PROVE IsTrue(tr, x)
    OBVIOUS
  <2>1. PICK i \in 1 .. Len(since) : since[i] = x
    BY <1>3 DEF ToSet
  <2>2. fixed + i \in 1 .. Len(tr) /\ tr[fixed + i].lit = x
    BY <1>1, <1>2, <1>3, <2>1
  <2> QED
    BY <1>2, <2>2 DEF IsTrue
<1> HIDE DEF lits
<1>9. \A lit \in lits : - lit \in edges
  BY <1>7
<1>10. {- lit : lit \in lits} = edges
  <2>1. \A x \in edges : - x \in lits /\ - (- x) = x
    BY <1>7
  <2> QED
    BY <1>9, <2>1
<1>11. ASSUME Cardinality(lits) = 1 PROVE \E lit \in lits : lit_cost(- lit) > setup.budget
  <2>1. lits \subseteq Literals
    BY <1>7, LiteralsAre
  <2>2. IsFiniteSet(lits)
    BY <2>1, LiteralsAre, FS_Subset
  <2>3. PICK c : lits = {c}
    BY <1>11, <2>2, FS_Singleton
  <2>4. edges = {- c} /\ - c \in EdgeVars
    BY <1>9, <1>10, <2>3
  <2>5. {} \in SUBSET EdgeVars /\ {} \union {- c} = {- c}
    OBVIOUS
  <2>6. CostOfEdges({} \union {- c}) = CostOfEdges({}) + lit_cost(- c)
    BY <2>4, <2>5, CostOfOneMore
  <2>7. CostOfEdges({}) = 0 /\ lit_cost(- c) \in Nat
    BY <2>4, CostOfNone, SetupIs
  <2>8. CostOfEdges({- c}) = lit_cost(- c)
    BY <2>5, <2>6, <2>7
  <2> HIDE DEF edges
  <2>9. lit_cost(- c) > setup.budget
    BY <1>6, <2>4, <2>8
  <2> QED
    BY <2>3, <2>9
<1> HIDE DEF edges
<1>12. \A lit \in lits : IsTrue(tr, - lit)
  BY <1>8, <1>9
<1> QED
  BY <1>6, <1>10, <1>11, <1>12 DEF Real, lits

\* While the flag is down the edges are within the budget, all along the trail.
LEMMA AllWithin ==
  ASSUME setup \in Setups, NEW th, NEW tr, NEW level, Sound(th, tr, fixed, level),
         setup.theory = "edge" => ~ th.conflict, NEW m \in fixed .. Len(tr)
  PROVE  WithinTo(tr, fixed, m)
<1>1. Stack(tr) /\ fixed \in 0 .. Len(tr)
  BY DEF Sound, Fixed
<1>2. Len(tr) \in Nat /\ Len(tr) \in m .. Len(tr) /\ Len(tr) \in fixed .. Len(tr)
      /\ Len(tr) \in Len(tr) .. Len(tr)
  BY <1>1, StackIs
<1>3. WithinTo(tr, fixed, Len(tr))
  <2> SUFFICES ASSUME setup.theory = "edge" PROVE CostTo(tr, fixed, Len(tr)) <= setup.budget
    BY DEF WithinTo
  <2>1. CostTo(tr, fixed, Len(tr)) = th.costs
    BY DEF Sound, Follows, CostTo
  <2>2. ~ (th.costs > setup.budget)
    BY DEF Sound, Follows
  <2>3. CostTo(tr, fixed, Len(tr)) \in Nat /\ setup.budget \in Nat
    BY <1>1, <1>2, CostsGrow, SetupIs
  <2> QED
    BY <2>1, <2>2, <2>3
<1> QED
  BY <1>1, <1>2, <1>3, WithinBefore

-----------------------------------------------------------------------------
\* What two literals exclude is said of the edges, the starts and the literals
\* of the constraint.
LEMMA ExcludedOf ==
  ASSUME setup \in Setups
  PROVE  /\ \A x \in EdgeVars : Excluded(x) = Rivals(x)
         /\ \A x \in setup.level00 : Excluded(x) = setup.level00 \ {x}
         /\ \A x \in setup.lit_set : Excluded(x) = setup.lit_set \ {x}
<1>1. /\ setup.level00 \subseteq (1 .. setup.numVars) \ EdgeVars
      /\ setup.theory # "edge" => setup.level00 = {} /\ EdgeVars = {}
      /\ setup.theory # "cardinality" => setup.lit_set = {}
  BY SetupIs
<1>2. ASSUME NEW x \in EdgeVars PROVE Excluded(x) = Rivals(x)
  <2>1. x \notin setup.level00 /\ x \notin setup.lit_set
    BY <1>1, <1>2
  <2> HIDE DEF EdgeVars, Rivals
  <2> QED
    BY <1>2, <2>1 DEF Excluded
<1>3. ASSUME NEW x \in setup.level00 PROVE Excluded(x) = setup.level00 \ {x}
  <2>1. x \notin EdgeVars /\ x \notin setup.lit_set
    BY <1>1, <1>3
  <2> QED
    BY <1>3, <2>1 DEF Excluded
<1>4. ASSUME NEW x \in setup.lit_set PROVE Excluded(x) = setup.lit_set \ {x}
  <2>1. x \notin EdgeVars /\ x \notin setup.level00
    BY <1>1, <1>4
  <2> QED
    BY <1>4, <2>1 DEF Excluded
<1> QED
  BY <1>2, <1>3, <1>4

\* While the flag is down no two literals exclude each other.
LEMMA Apart ==
  ASSUME setup \in Setups, NEW th, NEW tr, NEW level, Sound(th, tr, fixed, level),
         setup.theory = "edge" => ~ th.conflict,
         NEW x \in ToSet(Since(tr, fixed, Len(tr))), NEW y \in ToSet(Since(tr, fixed, Len(tr)))
  PROVE  x \in Literals /\ y \notin Excluded(x)
<1> DEFINE since == Since(tr, fixed, Len(tr))
<1>0. Stack(tr) /\ fixed \in 0 .. Len(tr)
  BY DEF Sound, Fixed
<1>1. /\ Len(tr) \in Nat /\ Len(tr) \in fixed .. Len(tr) /\ DOMAIN tr = 1 .. Len(tr)
      /\ \A i \in 1 .. Len(tr) : tr[i].lit \in Literals
      /\ \A i, j \in 1 .. Len(tr) : tr[i].lit = tr[j].lit \/ tr[i].lit = - tr[j].lit => i = j
  BY <1>0, StackIs
<1>2. /\ since \in Seq(Int) /\ Len(since) = Len(tr) - fixed
      /\ \A i \in 1 .. Len(tr) - fixed : since[i] = tr[fixed + i].lit
  <2>1. \A m \in fixed .. Len(tr) :
          /\ Since(tr, fixed, m) \in Seq(Int) /\ Len(Since(tr, fixed, m)) = m - fixed
          /\ \A i \in 1 .. m - fixed : Since(tr, fixed, m)[i] = tr[fixed + i].lit
    BY <1>0, SinceIs
  <2> QED
    BY <1>1, <2>1
<1> HIDE DEF since
<1>3. \A z \in ToSet(since) : \E i \in fixed + 1 .. Len(tr) : tr[i].lit = z
  <2> SUFFICES ASSUME NEW z \in ToSet(since) PROVE \E i \in fixed + 1 .. Len(tr) : tr[i].lit = z
    OBVIOUS
  <2>1. PICK i \in 1 .. Len(since) : since[i] = z
    BY <1>2 DEF ToSet
  <2>2. fixed + i \in fixed + 1 .. Len(tr) /\ tr[fixed + i].lit = z
    BY <1>0, <1>1, <1>2, <2>1
  <2> QED
    BY <2>2
<1>4. PICK i \in fixed + 1 .. Len(tr) : tr[i].lit = x
  BY <1>3 DEF since
<1>5. PICK j \in fixed + 1 .. Len(tr) : tr[j].lit = y
  BY <1>3 DEF since
<1>6. i \in 1 .. Len(tr) /\ j \in 1 .. Len(tr) /\ i \in fixed .. Len(tr)
  BY <1>0, <1>1
<1>7. x \in Literals /\ y \in Literals
  BY <1>1, <1>4, <1>5, <1>6
<1>8. ASSUME y \in Excluded(x) PROVE FALSE
  <2>1. WithinTo(tr, fixed, i)
    BY <1>6, AllWithin
  <2>2. Settled(tr, fixed, i, y)
    BY <1>4, <1>8, <2>1 DEF Sound, Excludes
  <2>3. PICK p \in 1 .. Len(tr) : tr[p].lit = - y \/ (tr[p].lit = y /\ p <= fixed)
    BY <1>1, <2>2 DEF Settled
  <2>4. p = j
    BY <1>1, <1>5, <1>6, <2>3
  <2>5. ~ (p <= fixed)
    BY <1>0, <1>1, <1>5, <2>4
  <2>6. y = - y
    BY <1>5, <2>3, <2>4, <2>5
  <2> QED
    BY <1>7, <2>6, LiteralsAre
<1> QED
  BY <1>7, <1>8

\* A set all of whose members are the same has at most one.
LEMMA AtMostOne ==
  ASSUME NEW S, \A x, y \in S : x = y
  PROVE  Cardinality(S) < 2
<1>1. CASE S = {}
  BY <1>1, FS_EmptySet
<1>2. CASE S # {}
  <2>1. PICK x : S = {x}
    BY <1>2
  <2>2. Cardinality({x}) = 1
    BY FS_Singleton
  <2> QED
    BY <2>1, <2>2
<1> QED
  BY <1>1, <1>2

-----------------------------------------------------------------------------
\* The invariant says what the properties say.
LEMMA InvCosts ==
  ASSUME IInv
  PROVE  CostsFollow
<1> SUFFICES ASSUME Searching, setup.theory = "edge"
             PROVE  /\ theory.soln = Among(Counted, SinceReset)
                    /\ theory.costs = SumOf(theory.soln)
                    /\ theory.conflict <=> theory.costs > setup.budget
  BY DEF CostsFollow
<1>1. Follows(theory, trail, fixed)
  BY DEF IInv, Sound
<1>2. SinceReset = Since(trail, fixed, Len(trail))
  BY DEF SinceReset, Since
<1> QED
  BY <1>1, <1>2 DEF Follows

LEMMA InvConflicts ==
  ASSUME IInv
  PROVE  ConflictsAreReal
BY DEF IInv, ConflictsAreReal, Real

LEMMA InvRivals ==
  ASSUME IInv
  PROVE  NoRivals
<1> DEFINE true == ToSet(SinceReset)
<1> SUFFICES ASSUME turn = "decide"
             PROVE  /\ \A v, w \in true \intersect EdgeVars : \A i \in 1 .. 2 :
                         setup.edge[v][i] = setup.edge[w][i] => v = w
                    /\ Cardinality(true \intersect setup.level00) < 2
                    /\ Cardinality(true \intersect setup.lit_set) < 2
  BY DEF NoRivals
<1>1. SinceReset = Since(trail, fixed, Len(trail))
  BY DEF SinceReset, Since
<1>2. /\ setup \in Setups /\ Sound(theory, trail, fixed, Level)
      /\ setup.theory = "edge" => ~ theory.conflict
  BY DEF IInv, Searching
<1>3. \A x, y \in true : y \notin Excluded(x)
  BY <1>1, <1>2, Apart
<1> HIDE DEF true
<1>4. ASSUME NEW v \in true \intersect EdgeVars, NEW w \in true \intersect EdgeVars,
             NEW i \in 1 .. 2, setup.edge[v][i] = setup.edge[w][i]
      PROVE  v = w
  <2> SUFFICES ASSUME v # w PROVE FALSE
    OBVIOUS
  <2>1. i = 1 \/ i = 2
    OBVIOUS
  <2>2. w \in Rivals(v)
    BY <1>4, <2>1 DEF Rivals
  <2>3. Excluded(v) = Rivals(v)
    BY <1>2, ExcludedOf
  <2> QED
    BY <1>3, <2>2, <2>3
<1>5. Cardinality(true \intersect setup.level00) < 2
  <2>1. \A x, y \in true \intersect setup.level00 : x = y
    BY <1>2, <1>3, ExcludedOf
  <2> QED
    BY <2>1, AtMostOne
<1>6. Cardinality(true \intersect setup.lit_set) < 2
  <2>1. \A x, y \in true \intersect setup.lit_set : x = y
    BY <1>2, <1>3, ExcludedOf
  <2> QED
    BY <2>1, AtMostOne
<1> QED
  BY <1>4, <1>5, <1>6

-----------------------------------------------------------------------------
\* A setup stays what it is, and what is said of a theory and a trail with it.
LEMMA Unmoved ==
  ASSUME setup' = setup
  PROVE  /\ Literals' = Literals /\ Counted' = Counted /\ Marks' = Marks
         /\ \A s : SumOf(s)' = SumOf(s)
         /\ \A x : Excluded(x)' = Excluded(x)
         /\ \A edges : CostOfEdges(edges)' = CostOfEdges(edges)
         /\ \A x : lit_cost(x)' = lit_cost(x)
<1>1. Literals' = Literals /\ Counted' = Counted /\ Marks' = Marks
  BY DEF Literals, Counted, VertexVars, EdgeVars, Marks
<1>2. \A s : SumOf(s)' = SumOf(s)
  BY DEF SumOf, lit_cost
<1>3. \A x : Excluded(x)' = Excluded(x)
  BY DEF Excluded, Rivals, EdgeVars
<1>4. \A edges : CostOfEdges(edges)' = CostOfEdges(edges)
  BY DEF CostOfEdges, lit_cost
<1>5. \A x : lit_cost(x)' = lit_cost(x)
  BY DEF lit_cost
<1> QED
  BY <1>1, <1>2, <1>3, <1>4, <1>5

LEMMA StackUnmoved ==
  ASSUME setup' = setup, NEW tr
  PROVE  Stack(tr)' <=> Stack(tr)
BY Unmoved DEF Stack

LEMMA SoundUnmoved ==
  ASSUME setup' = setup, NEW th, NEW tr, NEW old, NEW level
  PROVE  Sound(th, tr, old, level)' <=> Sound(th, tr, old, level)
<1>1. Stack(tr)' <=> Stack(tr)
  BY StackUnmoved
<1>2. Follows(th, tr, old)' <=> Follows(th, tr, old)
  BY Unmoved DEF Follows
<1>3. \A m : WithinTo(tr, old, m)' <=> WithinTo(tr, old, m)
  BY Unmoved DEF WithinTo, CostTo
<1>4. Excludes(tr, old)' <=> Excludes(tr, old)
  BY <1>3, Unmoved DEF Excludes
<1>5. LowerWithin(tr, old, level)' <=> LowerWithin(tr, old, level)
  BY <1>3 DEF LowerWithin
<1> QED
  BY <1>1, <1>2, <1>4, <1>5 DEF Sound

LEMMA RealUnmoved ==
  ASSUME setup' = setup, NEW tr, NEW lits
  PROVE  Real(tr, lits)' <=> Real(tr, lits)
BY Unmoved DEF Real

-----------------------------------------------------------------------------
LEMMA InitHolds ==
  ASSUME Init
  PROVE  IInv
<1>1. /\ setup \in Setups /\ turn = "encode" /\ trail = << >> /\ clause = {} /\ fixed = 0
      /\ \E conflict, checked \in BOOLEAN : theory = [Reset(checked) EXCEPT !.conflict = conflict]
  BY DEF Init
<1>2. Stack(trail)
  <2>1. trail \in Seq(Marks) /\ DOMAIN trail = {}
    BY <1>1
  <2> QED
    BY <2>1 DEF Stack, Consistent, Sorted
<1>3. Fixed(trail, fixed) /\ \A i \in DOMAIN trail : trail[i].level = 0
  BY <1>1 DEF Fixed
<1>4. IsTheory(theory)
  BY <1>1 DEF Reset, IsTheory
<1> QED
  BY <1>1, <1>2, <1>3, <1>4 DEF IInv, Searching

\* A theory that has been asked, its trail, and what it says of it.
LEMMA CheckKeeps ==
  ASSUME setup \in Setups, setup' = setup, fixed' = fixed,
         NEW th, NEW tr, NEW otherwise \in {"propagate", "decide"},
         Sound(th, tr, fixed, DecisionLevel(tr)),
         setup.theory = "edge" => (th.conflict => ~ th.checked),
         Check(tr, th, otherwise)
  PROVE  IInv'
<1> DEFINE asked == [th EXCEPT !.checked = TRUE]
<1>1. /\ trail' = tr /\ theory' = asked
      /\ clause' = IF HasConflict(th) THEN ConflictClause(th) ELSE {}
      /\ turn' = IF HasConflict(th) THEN "conflict" ELSE otherwise
  BY DEF Check
<1>2. Sound(asked, tr, fixed, DecisionLevel(tr))
  BY CheckedSound
<1>3. setup.theory = "edge" => asked.conflict = th.conflict /\ asked.checked = TRUE
  BY DEF Sound, IsTheory
<1> HIDE DEF asked
<1>4. Sound(theory, trail, fixed, Level)'
  BY <1>1, <1>2, SoundUnmoved DEF Level
<1>5. CASE HasConflict(th)
  <2>1. turn' = "conflict" /\ clause' = ConflictClause(th)
    BY <1>1, <1>5
  <2>2. setup.theory = "edge" => Real(tr, ConflictClause(th))
    BY <1>5, ConflictIsReal DEF HasConflict
  <2>3. setup.theory = "edge" => Real(trail, clause)'
    BY <1>1, <2>1, <2>2, RealUnmoved
  <2> QED
    BY <1>4, <2>1, <2>3 DEF IInv
<1>6. CASE ~ HasConflict(th)
  <2>1. turn' = otherwise /\ clause' = {}
    BY <1>1, <1>6
  <2>2. setup.theory = "edge" => ~ theory'.conflict
    BY <1>1, <1>3, <1>6 DEF HasConflict
  <2> QED
    BY <1>4, <2>1, <2>2 DEF IInv
<1> QED
  BY <1>5, <1>6

\* A literal of the alphabet that is free.
LEMMA FreeIs ==
  ASSUME NEW tr, NEW lit \in Free(tr)
  PROVE  lit \in Literals /\ ~ Assigned(tr, lit)
BY DEF Free

-----------------------------------------------------------------------------
LEMMA EncodeUnitKeeps ==
  ASSUME IInv, EncodeUnit
  PROVE  IInv'
<1>1. PICK lit \in Free(trail) :
        LET e == Enqueue(trail, theory, lit, 0)
        IN /\ trail' = e.trail
           /\ theory' = [e.theory EXCEPT !.checked = TRUE]
           /\ turn' = IF HasConflict(e.theory) THEN "done" ELSE "encode"
  BY DEF EncodeUnit
<1> DEFINE e == Enqueue(trail, theory, lit, 0)
<1>2. /\ turn = "encode" /\ setup \in Setups /\ clause = {}
      /\ Stack(trail) /\ Fixed(trail, fixed) /\ \A i \in DOMAIN trail : trail[i].level = 0
      /\ setup.theory = "edge" => IsTheory(theory)
      /\ setup' = setup /\ clause' = clause /\ fixed' = fixed
      /\ lit \in Literals /\ ~ Assigned(trail, lit)
  BY FreeIs DEF IInv, EncodeUnit
<1>3. /\ Len(trail) \in Nat /\ DOMAIN trail = 1 .. Len(trail)
      /\ \A i \in 1 .. Len(trail) : trail[i].level <= 0 /\ trail[i].level \in Nat
  BY <1>2, StackIs
<1>4. e.theory = Push(theory, lit) /\ Extended(trail, e.trail, lit, 0)
  BY <1>2, <1>3, EnqueueIs
<1>5. LowerWithin(trail, fixed, 0)
  <2>1. \A m \in fixed + 1 .. Len(trail) : ~ (trail[m].level < 0)
    BY <1>2, <1>3 DEF Fixed
  <2> QED
    BY <2>1 DEF LowerWithin
<1>6. Fixed(e.trail, fixed)
  BY <1>2, <1>4, <1>5, ExtendedLower
<1> DEFINE new == e.trail
<1>7. Stack(new) /\ \A i \in DOMAIN new : new[i].level = 0
  <2>1. /\ Stack(new) /\ Len(trail) + 1 <= Len(new)
        /\ \A i \in 1 .. Len(trail) : new[i] = trail[i]
        /\ \A i \in Len(trail) + 1 .. Len(new) : new[i].level = 0
    BY <1>4 DEF Extended
  <2> HIDE DEF new
  <2>2. DOMAIN new = 1 .. Len(new) /\ Len(new) \in Nat
    BY <1>2, <2>1, StackIs
  <2>3. \A i \in 1 .. Len(trail) : new[i].level = 0
    BY <1>2, <1>3, <2>1
  <2>4. 1 .. Len(new) = (1 .. Len(trail)) \union (Len(trail) + 1 .. Len(new))
    BY <1>3, <2>1, <2>2
  <2> QED
    BY <2>1, <2>2, <2>3, <2>4
<1>8. setup.theory = "edge" => IsTheory([e.theory EXCEPT !.checked = TRUE])
  <2>1. setup.theory = "edge" => IsTheory(e.theory)
    BY <1>2, <1>4, PushIs
  <2> HIDE DEF e
  <2> QED
    BY <2>1 DEF IsTheory
<1> HIDE DEF e
<1>9. Stack(trail)' /\ Fixed(trail, fixed)' /\ (\A i \in DOMAIN trail : trail[i].level = 0)'
  BY <1>1, <1>2, <1>6, <1>7, StackUnmoved DEF e
<1>10. (setup.theory = "edge" => IsTheory(theory))'
  BY <1>1, <1>2, <1>8 DEF e
<1>11. turn' \in {"done", "encode"}
  BY <1>1
<1> QED
  BY <1>2, <1>9, <1>10, <1>11 DEF IInv, Searching

LEMMA ReplayedNone ==
  ASSUME NEW th
  PROVE  Replayed(th, << >>) = th
<1> DEFINE g == [n \in 0 .. 0 |-> th]
           after == CHOOSE f : f = [n \in 0 .. Len(<< >>) |->
                                     IF n = 0 THEN th ELSE Push(f[n - 1], << >>[n])]
<1>1. g = [n \in 0 .. Len(<< >>) |-> IF n = 0 THEN th ELSE Push(g[n - 1], << >>[n])]
  OBVIOUS
<1>2. after = [n \in 0 .. Len(<< >>) |-> IF n = 0 THEN th ELSE Push(after[n - 1], << >>[n])]
  BY <1>1
<1>3. Replayed(th, << >>) = after[Len(<< >>)]
  BY DEF Replayed
<1> HIDE DEF after
<1>4. Len(<< >>) = 0
  OBVIOUS
<1>5. after[0] = th
  BY <1>2, <1>4
<1> QED
  BY <1>3, <1>4, <1>5

LEMMA ResetTheoriesKeeps ==
  ASSUME IInv, ResetTheories
  PROVE  IInv'
<1> DEFINE n == Len(trail)
           lits == {lit \in VertexVars : IsTrue(trail, lit)}
<1>1. /\ turn = "encode" /\ setup \in Setups /\ clause = {}
      /\ Stack(trail) /\ Fixed(trail, fixed) /\ \A i \in DOMAIN trail : trail[i].level = 0
      /\ setup.theory = "edge" => IsTheory(theory)
      /\ setup' = setup /\ clause' = clause /\ trail' = trail
      /\ turn' = "propagate" /\ fixed' = n
      /\ theory' = Replayed(Reset(theory.checked), SetToSeq(lits))
  BY DEF IInv, ResetTheories
<1>2. n \in Nat /\ DOMAIN trail = 1 .. n
  BY <1>1, StackIs
<1>3. setup.theory = "edge" => theory' = Reset(theory.checked)
  <2> SUFFICES ASSUME setup.theory = "edge" PROVE theory' = Reset(theory.checked)
    OBVIOUS
  <2>1. lits = {}
    BY <1>1, CountedIs
  <2>2. SetToSeq(lits) = << >>
    <3> HIDE DEF lits
    <3>1. IsFiniteSet(lits) /\ Cardinality(lits) = 0
      BY <2>1, FS_EmptySet
    <3>2. Len(SetToSeq(lits)) = 0 /\ SetToSeq(lits) \in Seq(lits)
      BY <3>1, SetToSeqIs
    <3> QED
      BY <3>2
  <2> QED
    BY <1>1, <2>2, ReplayedNone
<1>4. setup.theory = "edge" =>
        /\ IsTheory(theory') /\ theory'.soln = << >> /\ theory'.costs = 0 /\ ~ theory'.conflict
  <2>1. setup.theory = "edge" => theory.checked \in BOOLEAN
    BY <1>1 DEF IsTheory
  <2>2. \A c \in BOOLEAN : /\ IsTheory(Reset(c)) /\ Reset(c).soln = << >>
                           /\ Reset(c).costs = 0 /\ ~ Reset(c).conflict
    BY DEF Reset, IsTheory
  <2> QED
    BY <1>3, <2>1, <2>2
<1>5. Fixed(trail, n)
  BY <1>1, <1>2 DEF Fixed
<1>6. Follows(theory', trail, n)
  <2> SUFFICES ASSUME setup.theory = "edge"
               PROVE  /\ theory'.soln = Among(Counted, Since(trail, n, n))
                      /\ theory'.costs = SumOf(theory'.soln)
                      /\ theory'.conflict <=> theory'.costs > setup.budget
    BY DEF Follows
  <2>1. n \in 0 .. Len(trail)
    BY <1>2
  <2>2. Among(Counted, Since(trail, n, n)) = << >>
    BY <1>1, <2>1, SinceNone
  <2>3. SumOf(<< >>) = 0
    <3>1. << >> \in Seq(EdgeVars)
      OBVIOUS
    <3> QED
      BY <1>1, <3>1, SumOfAppend
  <2>4. setup.budget \in Nat
    BY <1>1, SetupIs
  <2> QED
    BY <1>4, <2>2, <2>3, <2>4
<1>7. Excludes(trail, n) /\ \A level : LowerWithin(trail, n, level)
  BY <1>2 DEF Excludes, LowerWithin
<1>8. \A level : Sound(theory', trail, n, level)
  BY <1>1, <1>4, <1>5, <1>6, <1>7 DEF Sound
<1> HIDE DEF n
<1>9. Sound(theory, trail, fixed, Level)'
  <2>1. Sound(theory', trail, n, DecisionLevel(trail))
    BY <1>8
  <2> QED
    BY <1>1, <2>1, SoundUnmoved DEF Level
<1> QED
  BY <1>1, <1>4, <1>9 DEF IInv

\* What the invariant says while the solver searches.
LEMMA SearchingHas ==
  ASSUME IInv, turn \in {"propagate", "decide", "conflict"}
  PROVE  /\ setup \in Setups /\ Sound(theory, trail, fixed, Level) /\ Stack(trail)
         /\ Level = DecisionLevel(trail) /\ Level \in Nat
         /\ \A i \in 1 .. Len(trail) : trail[i].level <= Level
         /\ DOMAIN trail = 1 .. Len(trail)
<1>1. setup \in Setups /\ Sound(theory, trail, fixed, Level)
  BY DEF IInv, Searching
<1>2. Stack(trail)
  BY <1>1 DEF Sound
<1> QED
  BY <1>1, <1>2, LevelIs, StackIs DEF Level

LEMMA PropagateUnitKeeps ==
  ASSUME IInv, PropagateUnit
  PROVE  IInv'
<1>1. PICK lit \in Free(trail) :
        Check(Enqueue(trail, theory, lit, Level).trail,
              Enqueue(trail, theory, lit, Level).theory, "propagate")
  BY DEF PropagateUnit
<1>2. turn = "propagate" /\ setup' = setup /\ fixed' = fixed
  BY DEF PropagateUnit
<1>3. /\ setup \in Setups /\ Sound(theory, trail, fixed, Level) /\ Level \in Nat
      /\ \A i \in 1 .. Len(trail) : trail[i].level <= Level
  BY <1>2, SearchingHas
<1>4. setup.theory = "edge" => (theory.conflict => ~ theory.checked)
  BY <1>2 DEF IInv
<1>5. lit \in Literals /\ ~ Assigned(trail, lit)
  BY FreeIs
<1> DEFINE e == Enqueue(trail, theory, lit, Level)
<1>6. e = Enqueue(trail, theory, lit, Level)
  OBVIOUS
<1> HIDE DEF e
<1>7. /\ Sound(e.theory, e.trail, fixed, Level) /\ DecisionLevel(e.trail) = Level
      /\ setup.theory = "edge" => (e.theory.conflict => ~ e.theory.checked)
  BY <1>3, <1>4, <1>5, <1>6, EnqueueSound
<1>8. Sound(e.theory, e.trail, fixed, DecisionLevel(e.trail))
  BY <1>7
<1>9. Check(e.trail, e.theory, "propagate")
  BY <1>1, <1>6
<1> QED
  BY <1>2, <1>3, <1>7, <1>8, <1>9, CheckKeeps

LEMMA PropagationEndsKeeps ==
  ASSUME IInv, PropagationEnds
  PROVE  IInv'
<1>1. turn = "propagate" /\ setup' = setup /\ fixed' = fixed /\ Check(trail, theory, "decide")
  BY DEF PropagationEnds
<1>2. setup \in Setups /\ Sound(theory, trail, fixed, DecisionLevel(trail))
  BY <1>1, SearchingHas
<1>3. setup.theory = "edge" => (theory.conflict => ~ theory.checked)
  BY <1>1 DEF IInv
<1> QED
  BY <1>1, <1>2, <1>3, CheckKeeps

LEMMA ClauseConflictKeeps ==
  ASSUME IInv, ClauseConflict
  PROVE  IInv'
<1>1. /\ turn = "propagate" /\ turn' = "conflict" /\ clause' = {}
      /\ setup' = setup /\ trail' = trail /\ theory' = theory /\ fixed' = fixed
  BY DEF ClauseConflict
<1>2. setup \in Setups /\ Sound(theory, trail, fixed, Level)
  BY <1>1, SearchingHas
<1>3. Sound(theory, trail, fixed, Level)'
  BY <1>1, <1>2, SoundUnmoved DEF Level
<1> QED
  BY <1>1, <1>2, <1>3 DEF IInv

\* Deciding: the edges up to now are those below the new level.
LEMMA DecideKeeps ==
  ASSUME IInv, Decide
  PROVE  IInv'
<1>1. PICK lit \in Free(trail) :
        /\ trail' = Enqueue(trail, theory, lit, Level + 1).trail
        /\ theory' = Enqueue(trail, theory, lit, Level + 1).theory
  BY DEF Decide
<1>2. turn = "decide" /\ turn' = "propagate" /\ setup' = setup /\ fixed' = fixed /\ clause' = clause
  BY DEF Decide
<1>3. /\ setup \in Setups /\ Sound(theory, trail, fixed, Level) /\ Level \in Nat
      /\ \A i \in 1 .. Len(trail) : trail[i].level <= Level /\ trail[i].level \in Nat
  BY <1>2, SearchingHas, StackIs
<1>4. clause = {} /\ (setup.theory = "edge" => ~ theory.conflict)
  BY <1>2 DEF IInv
<1>5. lit \in Literals /\ ~ Assigned(trail, lit)
  BY FreeIs
<1>6. Sound(theory, trail, fixed, Level + 1)
  <2>1. LowerWithin(trail, fixed, Level + 1)
    <3>1. \A m \in fixed .. Len(trail) : WithinTo(trail, fixed, m)
      BY <1>3, <1>4, AllWithin
    <3>2. fixed \in Nat
      BY <1>3 DEF Sound, Fixed
    <3> QED
      BY <3>1, <3>2 DEF LowerWithin
  <2> QED
    BY <1>3, <2>1 DEF Sound
<1>7. Level + 1 \in Nat /\ \A i \in 1 .. Len(trail) : trail[i].level <= Level + 1
  BY <1>3
<1> DEFINE e == Enqueue(trail, theory, lit, Level + 1)
<1>8. e = Enqueue(trail, theory, lit, Level + 1)
  OBVIOUS
<1> HIDE DEF e
<1>9. /\ Sound(e.theory, e.trail, fixed, Level + 1) /\ DecisionLevel(e.trail) = Level + 1
      /\ setup.theory = "edge" => (e.theory.conflict => ~ e.theory.checked)
  BY <1>3, <1>4, <1>5, <1>6, <1>7, <1>8, EnqueueSound
<1>10. trail' = e.trail /\ theory' = e.theory
  BY <1>1, <1>8
<1>11. Sound(theory, trail, fixed, Level)'
  BY <1>2, <1>9, <1>10, SoundUnmoved DEF Level
<1> QED
  BY <1>2, <1>3, <1>4, <1>9, <1>10, <1>11 DEF IInv

\* Going back and enqueueing the opposite of a literal of the level left.
LEMMA LearnKeeps ==
  ASSUME IInv, Learn
  PROVE  IInv'
<1>1. PICK level \in 0 .. Level - 1, i \in DOMAIN trail :
        LET cut == CutBack(level)
        IN /\ trail[i].level = Level
           /\ trail' = Enqueue(cut.trail, cut.theory, - trail[i].lit, level).trail
           /\ theory' = Enqueue(cut.trail, cut.theory, - trail[i].lit, level).theory
  BY DEF Learn
<1>2. turn = "conflict" /\ turn' = "propagate" /\ clause' = {} /\ setup' = setup /\ fixed' = fixed
  BY DEF Learn
<1>3. /\ setup \in Setups /\ Sound(theory, trail, fixed, DecisionLevel(trail)) /\ Level \in Nat
      /\ Level = DecisionLevel(trail) /\ Stack(trail) /\ DOMAIN trail = 1 .. Len(trail)
  BY <1>2, SearchingHas
<1>4. level \in Nat /\ level < Level
  BY <1>3
<1> DEFINE kept == KeptUntil(trail, level)
           cut == Shrink(theory, LitsAbove(trail, level))
           lit == - trail[i].lit
<1>5. CutBack(level).trail = kept /\ CutBack(level).theory = cut
  BY DEF CutBack
<1>6. /\ Sound(cut, kept, fixed, level)
      /\ \A k \in 1 .. Len(kept) : kept[k].level <= level
      /\ setup.theory = "edge" => ~ cut.conflict
  BY <1>3, <1>4, CutSound
<1>7. /\ Len(trail) \in Nat /\ \A k \in 1 .. Len(trail) : trail[k].lit \in Literals
      /\ \A k, m \in 1 .. Len(trail) :
           trail[k].lit = trail[m].lit \/ trail[k].lit = - trail[m].lit => k = m
  BY <1>3, StackIs
<1>8. lit \in Literals /\ - lit = trail[i].lit
  BY <1>3, <1>7, LiteralsAre
<1>9. ~ Assigned(kept, lit)
  <2> SUFFICES ASSUME Assigned(kept, lit) PROVE FALSE
    OBVIOUS
  <2>1. /\ TrailLim(trail, level) \in 0 .. Len(trail) /\ Len(kept) = TrailLim(trail, level)
        /\ \A k \in 1 .. TrailLim(trail, level) : kept[k] = trail[k]
        /\ Stack(kept)
    BY <1>3, <1>4, CutIs
  <2>2. DOMAIN kept = 1 .. Len(kept)
    BY <1>3, <2>1, StackIs
  <2> HIDE DEF kept
  <2>3. PICK k \in 1 .. Len(kept) : kept[k].lit = lit \/ kept[k].lit = - lit
    BY <2>2 DEF Assigned, IsTrue, IsFalse
  <2>4. k \in 1 .. Len(trail) /\ kept[k] = trail[k] /\ i \in 1 .. Len(trail)
    BY <1>3, <1>7, <2>1, <2>3
  <2>5. k = i
    BY <1>7, <1>8, <2>3, <2>4
  <2> QED
    <3>1. kept[k].level <= level
      BY <1>6, <2>3
    <3>2. trail[i].level = Level
      BY <1>1
    <3>3. kept[k].level = Level
      BY <2>4, <2>5, <3>2
    <3> QED
      BY <1>3, <1>4, <3>1, <3>3
<1> DEFINE e == Enqueue(kept, cut, lit, level)
<1>10. e = Enqueue(kept, cut, lit, level) /\ trail' = e.trail /\ theory' = e.theory
  BY <1>1, <1>5
<1> HIDE DEF e, kept, cut, lit
<1>11. /\ Sound(e.theory, e.trail, fixed, level) /\ DecisionLevel(e.trail) = level
       /\ setup.theory = "edge" => (e.theory.conflict => ~ e.theory.checked)
  BY <1>3, <1>4, <1>6, <1>8, <1>9, <1>10, EnqueueSound
<1>12. Sound(theory, trail, fixed, Level)'
  BY <1>2, <1>10, <1>11, SoundUnmoved DEF Level
<1> QED
  BY <1>2, <1>3, <1>10, <1>11, <1>12 DEF IInv

LEMMA RestartKeeps ==
  ASSUME IInv, Restart
  PROVE  IInv'
<1>1. /\ turn = "decide" /\ turn' = "propagate" /\ Level > 0
      /\ trail' = KeptUntil(trail, 0) /\ theory' = Shrink(theory, LitsAbove(trail, 0))
      /\ setup' = setup /\ clause' = clause /\ fixed' = fixed
  BY DEF Restart, CutBack
<1>2. /\ setup \in Setups /\ Sound(theory, trail, fixed, DecisionLevel(trail)) /\ Level \in Nat
      /\ Level = DecisionLevel(trail) /\ clause = {}
  BY <1>1, SearchingHas DEF IInv
<1>3. 0 \in Nat /\ 0 < DecisionLevel(trail)
  BY <1>1, <1>2
<1>4. /\ \A level : Sound(theory', trail', fixed, level)
      /\ setup.theory = "edge" => ~ theory'.conflict
  BY <1>1, <1>2, <1>3, CutSound
<1>5. Sound(theory, trail, fixed, Level)'
  BY <1>1, <1>4, SoundUnmoved DEF Level
<1> QED
  BY <1>1, <1>2, <1>4, <1>5 DEF IInv

LEMMA RefutedKeeps ==
  ASSUME IInv, Refuted
  PROVE  IInv'
<1>1. /\ turn = "conflict" /\ turn' = "done"
      /\ setup' = setup /\ trail' = trail /\ theory' = theory /\ clause' = clause
  BY DEF Refuted
<1>2. /\ setup \in Setups /\ (setup.theory = "edge" => (clause # {} => Real(trail, clause)))
  BY DEF IInv
<1>3. (setup.theory = "edge" => (clause # {} => Real(trail, clause)))'
  BY <1>1, <1>2, RealUnmoved
<1> QED
  BY <1>1, <1>2, <1>3 DEF IInv, Searching

LEMMA StutterKeeps ==
  ASSUME IInv, UNCHANGED vars
  PROVE  IInv'
<1>1. /\ setup' = setup /\ turn' = turn /\ trail' = trail /\ theory' = theory
      /\ clause' = clause /\ fixed' = fixed
  BY DEF vars
<1>2. Stack(trail)' <=> Stack(trail)
  BY <1>1, StackUnmoved
<1>3. Sound(theory, trail, fixed, Level)' <=> Sound(theory, trail, fixed, Level)
  BY <1>1, SoundUnmoved DEF Level
<1>4. Real(trail, clause)' <=> Real(trail, clause)
  BY <1>1, RealUnmoved
<1> QED
  BY <1>1, <1>2, <1>3, <1>4 DEF IInv, Searching, Fixed, IsTheory

-----------------------------------------------------------------------------
LEMMA StepKeeps ==
  ASSUME IInv, [Next]_vars
  PROVE  IInv'
BY EncodeUnitKeeps, ResetTheoriesKeeps, PropagateUnitKeeps, PropagationEndsKeeps,
   ClauseConflictKeeps, DecideKeeps, LearnKeeps, RefutedKeeps, RestartKeeps, StutterKeeps
   DEF Next

THEOREM TheoriesSound == Spec => []IInv
<1>1. Init => IInv
  BY InitHolds
<1>2. IInv /\ [Next]_vars => IInv'
  BY StepKeeps
<1> QED
  BY <1>1, <1>2, PTL DEF Spec

\* Of every graph, budget and constraint: what the Edge theory adds up, flags
\* and reports is what the trail holds, and no two literals that exclude each
\* other are held when the solver decides (Edge_TSP_Theory and
\* Cardinality_EQ_Theory, theories.cpp).
THEOREM TheoriesAreRight == Spec => []TheoriesFollow
<1>1. IInv => TheoriesFollow
  BY InvCosts, InvConflicts, InvRivals DEF TheoriesFollow
<1> QED
  BY <1>1, TheoriesSound, PTL
=============================================================================
