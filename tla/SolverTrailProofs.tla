-------------------------- MODULE SolverTrailProofs --------------------------
(***************************************************************************)
(* The trail of the solver and what analyze makes of it, proved: a trail is*)
(* what uncheckedEnqueue and cancelUntil keep (IsTrail), and on every trail*)
(* whose conflict has a literal of the current level the clause learnt is  *)
(* false, asserting and implied (LearntIs).  The last part is about what a *)
(* theory keeps of a trail, the literals of some set (Among).              *)
(***************************************************************************)
EXTENDS SolverTrail, InductionFacts

\* Literals and entries, whatever the formula.
Lit == Int \ {0}
Entries == [lit : Lit, level : Nat, reason : SUBSET Lit]

\* Every variable is assigned once.
Consistent(trail) ==
  \A i, j \in DOMAIN trail : Var(trail[i].lit) = Var(trail[j].lit) => i = j

\* Levels rise along the trail.
Sorted(trail) == \A i, j \in DOMAIN trail : i <= j => trail[i].level <= trail[j].level

\* A reason was unit when its literal was enqueued.
Reasoned(trail) ==
  \A i \in DOMAIN trail : trail[i].reason # {} =>
    /\ trail[i].lit \in trail[i].reason
    /\ \A x \in trail[i].reason \ {trail[i].lit} : \E j \in 1 .. i - 1 : trail[j].lit = - x

\* Above level 0 only the first literal of a level has no reason.
Decided(trail) ==
  \A i, j \in DOMAIN trail :
    i < j /\ trail[i].level = trail[j].level /\ trail[j].level > 0 => trail[j].reason # {}

\* What every trail of the solver is.
IsTrail(trail) ==
  /\ trail \in Seq(Entries)
  /\ Consistent(trail) /\ Sorted(trail) /\ Reasoned(trail) /\ Decided(trail)

\* What a trail holds, as facts about its entries.
LEMMA TrailTypes ==
  ASSUME NEW trail, IsTrail(trail)
  PROVE  /\ Len(trail) \in Nat /\ DOMAIN trail = 1 .. Len(trail)
         /\ \A i \in DOMAIN trail : /\ trail[i] \in Entries
                                    /\ trail[i].lit \in Lit /\ trail[i].lit \in Int
                                    /\ trail[i].level \in Nat
                                    /\ trail[i].reason \subseteq Lit
<1>1. trail \in Seq(Entries)
  BY DEF IsTrail
<1>2. /\ Len(trail) \in Nat /\ DOMAIN trail = 1 .. Len(trail)
      /\ \A i \in DOMAIN trail : trail[i] \in Entries
  BY <1>1
<1> QED
  BY <1>2 DEF Entries, Lit

\* Two literals have one variable when they are equal or opposite.
LEMMA SameVar ==
  ASSUME NEW a \in Int, NEW b \in Int
  PROVE  Var(a) = Var(b) <=> a = b \/ a = - b
BY DEF Var

\* The entry of a variable is unique, so EntryOf and LevelOf find it (vardata
\* is indexed by variables).
LEMMA EntryIs ==
  ASSUME NEW trail, IsTrail(trail), NEW i \in DOMAIN trail, NEW x \in Int,
         Var(x) = Var(trail[i].lit)
  PROVE  EntryOf(trail, x) = i /\ LevelOf(trail, x) = trail[i].level
<1>1. \A j \in DOMAIN trail : Var(trail[j].lit) = Var(x) => j = i
  BY DEF IsTrail, Consistent
<1>2. EntryOf(trail, x) = i
  BY <1>1 DEF EntryOf
<1> QED
  BY <1>2 DEF LevelOf

\* The entry of an assigned literal.
LEMMA FalseEntry ==
  ASSUME NEW trail, IsTrail(trail), NEW x \in Lit, IsFalse(trail, x)
  PROVE  /\ EntryOf(trail, x) \in DOMAIN trail
         /\ trail[EntryOf(trail, x)].lit = - x
         /\ LevelOf(trail, x) = trail[EntryOf(trail, x)].level
         /\ LevelOf(trail, x) \in Nat
<1>1. PICK i \in DOMAIN trail : trail[i].lit = - x
  BY DEF IsFalse, IsTrue
<1>2. x \in Int /\ - x \in Int
  BY DEF Lit
<1>3. Var(x) = Var(trail[i].lit)
  BY <1>1, <1>2, SameVar
<1>4. EntryOf(trail, x) = i /\ LevelOf(trail, x) = trail[i].level
  BY <1>2, <1>3, EntryIs
<1> QED
  BY <1>1, <1>4, TrailTypes

\* A literal is not both true and false.
LEMMA NotBoth ==
  ASSUME NEW trail, IsTrail(trail), NEW x \in Lit
  PROVE  ~ (IsTrue(trail, x) /\ IsFalse(trail, x))
<1> SUFFICES ASSUME NEW i \in DOMAIN trail, trail[i].lit = x,
                    NEW j \in DOMAIN trail, trail[j].lit = - x
             PROVE  FALSE
  BY DEF IsTrue, IsFalse
<1>1. Var(trail[i].lit) = Var(trail[j].lit)
  BY SameVar DEF Lit
<1>2. i = j
  BY <1>1 DEF IsTrail, Consistent
<1> QED
  BY <1>2 DEF Lit

-----------------------------------------------------------------------------
\* trail_lim exists: levels rise along a trail, so those up to k are a prefix
\* of it.
LEMMA LimIs ==
  ASSUME NEW S, NEW trail \in Seq(S), Sorted(trail),
         \A i \in DOMAIN trail : trail[i].level \in Int,
         NEW k \in Int
  PROVE  /\ TrailLim(trail, k) \in 0 .. Len(trail)
         /\ \A i \in DOMAIN trail : trail[i].level <= k <=> i <= TrailLim(trail, k)
<1> DEFINE n == Len(trail)
           T == {m \in Nat : \A i \in m + 1 .. n : trail[i].level > k}
<1>1. n \in Nat /\ DOMAIN trail = 1 .. n /\ \A i \in DOMAIN trail : trail[i].level \in Int
  OBVIOUS
<1>2. n \in T
  BY <1>1
<1>3. PICK m \in T : \A l \in T : m <= l
  <2> HIDE DEF T, n
  <2>1. T \in SUBSET Nat /\ T # {}
    BY <1>2 DEF T
  <2> QED
    BY <2>1, LeastElement
<1>4. m \in 0 .. n
  BY <1>1, <1>2, <1>3
<1>5. \A i \in DOMAIN trail : trail[i].level <= k <=> i <= m
  <2> SUFFICES ASSUME NEW i \in DOMAIN trail, i <= m PROVE trail[i].level <= k
    BY <1>1, <1>3, <1>4
  <2>1. m \in DOMAIN trail /\ m - 1 \in Nat /\ m - 1 \notin T
    <3>1. m \in 1 .. n /\ m - 1 \in Nat /\ ~ (m <= m - 1)
      BY <1>1, <1>4
    <3> HIDE DEF T
    <3> QED
      BY <1>1, <1>3, <3>1
  <2>2. PICK j \in (m - 1) + 1 .. n : ~ (trail[j].level > k)
    BY <2>1
  <2>3. j = m
    BY <1>1, <1>3, <1>4, <2>1, <2>2
  <2>4. trail[i].level <= trail[m].level
    BY <2>1 DEF Sorted
  <2> QED
    BY <1>1, <2>1, <2>2, <2>3, <2>4
<1>6. \E l \in 0 .. Len(trail) : \A i \in DOMAIN trail : trail[i].level <= k <=> i <= l
  BY <1>4, <1>5
<1> QED
  BY <1>6 DEF TrailLim

LEMMA TrailLimIs ==
  ASSUME NEW trail, IsTrail(trail), NEW k \in Int
  PROVE  /\ TrailLim(trail, k) \in 0 .. Len(trail)
         /\ \A i \in DOMAIN trail : trail[i].level <= k <=> i <= TrailLim(trail, k)
<1>1. trail \in Seq(Entries) /\ Sorted(trail) /\ \A i \in DOMAIN trail : trail[i].level \in Int
  BY TrailTypes DEF IsTrail
<1> QED
  BY <1>1, LimIs

\* cancelUntil keeps a trail, the entries up to the level given
\* (Solver.cc:269-283).
LEMMA KeptIs ==
  ASSUME NEW trail, IsTrail(trail), NEW k \in Int
  PROVE  /\ IsTrail(KeptUntil(trail, k))
         /\ Len(KeptUntil(trail, k)) = TrailLim(trail, k)
         /\ DOMAIN KeptUntil(trail, k) = {i \in DOMAIN trail : trail[i].level <= k}
         /\ \A i \in DOMAIN KeptUntil(trail, k) : KeptUntil(trail, k)[i] = trail[i]
<1> DEFINE kept == KeptUntil(trail, k)
           n == TrailLim(trail, k)
<1>1. /\ n \in 0 .. Len(trail)
      /\ \A i \in DOMAIN trail : trail[i].level <= k <=> i <= n
      /\ Len(trail) \in Nat /\ DOMAIN trail = 1 .. Len(trail)
      /\ trail \in Seq(Entries)
  BY TrailLimIs, TrailTypes DEF IsTrail
<1>2. /\ Len(kept) = n /\ kept \in Seq(Entries) /\ DOMAIN kept = 1 .. n
      /\ \A i \in 1 .. n : kept[i] = trail[i]
  <2>1. kept = [i \in 1 .. n |-> trail[i]]
    <3>1. kept = SubSeq(trail, 1, n)
      BY DEF KeptUntil
    <3> HIDE DEF n, kept
    <3> QED
      BY <1>1, <3>1
  <2>2. \A i \in 1 .. n : trail[i] \in Entries
    BY <1>1
  <2> HIDE DEF n, kept
  <2>3. Len(kept) = n /\ DOMAIN kept = 1 .. n /\ \A i \in 1 .. n : kept[i] = trail[i]
    BY <1>1, <2>1
  <2>4. kept \in Seq(Entries)
    BY <1>1, <2>1, <2>2
  <2> QED
    BY <2>3, <2>4
<1>3. DOMAIN kept = {i \in DOMAIN trail : trail[i].level <= k}
  BY <1>1, <1>2
<1>4. \A i \in DOMAIN kept : i \in DOMAIN trail /\ kept[i] = trail[i]
  BY <1>1, <1>2
<1> HIDE DEF kept, n
<1>5. Consistent(kept) /\ Sorted(kept) /\ Decided(kept)
  BY <1>4 DEF IsTrail, Consistent, Sorted, Decided
<1>6. Reasoned(kept)
  <2> SUFFICES ASSUME NEW i \in DOMAIN kept, kept[i].reason # {}
               PROVE  /\ kept[i].lit \in kept[i].reason
                      /\ \A x \in kept[i].reason \ {kept[i].lit} :
                           \E j \in 1 .. i - 1 : kept[j].lit = - x
    BY DEF Reasoned
  <2>1. i \in DOMAIN trail /\ kept[i] = trail[i] /\ 1 .. i - 1 \subseteq DOMAIN kept
    BY <1>1, <1>2, <1>4
  <2>2. /\ trail[i].lit \in trail[i].reason
        /\ \A x \in trail[i].reason \ {trail[i].lit} :
             \E j \in 1 .. i - 1 : trail[j].lit = - x
    BY <2>1 DEF IsTrail, Reasoned
  <2> QED
    BY <1>4, <2>1, <2>2
<1> QED
  BY <1>2, <1>3, <1>4, <1>5, <1>6 DEF IsTrail, kept, n

\* The decision level is the highest level of the trail.
LEMMA DecisionLevelIs ==
  ASSUME NEW trail, IsTrail(trail)
  PROVE  /\ DecisionLevel(trail) \in Nat
         /\ \A i \in DOMAIN trail : trail[i].level <= DecisionLevel(trail)
<1>1. /\ trail \in Seq(Entries) /\ Len(trail) \in Nat /\ DOMAIN trail = 1 .. Len(trail)
      /\ \A i \in DOMAIN trail : trail[i].level \in Nat
  BY TrailTypes DEF IsTrail
<1>2. CASE trail = << >>
  BY <1>1, <1>2 DEF DecisionLevel
<1>3. CASE trail # << >>
  <2>1. Len(trail) \in DOMAIN trail /\ \A i \in DOMAIN trail : i <= Len(trail)
    BY <1>1, <1>3
  <2>2. DecisionLevel(trail) = trail[Len(trail)].level
    BY <1>3 DEF DecisionLevel, Last
  <2> QED
    BY <1>1, <2>1, <2>2 DEF IsTrail, Sorted
<1> QED
  BY <1>2, <1>3

\* What stays true: what was enqueued at the level kept or below.
LEMMA KeptValues ==
  ASSUME NEW trail, IsTrail(trail), NEW k \in Int, NEW x \in Lit
  PROVE  /\ IsTrue(KeptUntil(trail, k), x) => IsTrue(trail, x)
         /\ IsFalse(KeptUntil(trail, k), x) => IsFalse(trail, x)
         /\ IsFalse(trail, x) => (IsFalse(KeptUntil(trail, k), x) <=> LevelOf(trail, x) <= k)
<1> DEFINE kept == KeptUntil(trail, k)
<1>1. /\ DOMAIN kept = {i \in DOMAIN trail : trail[i].level <= k}
      /\ \A i \in DOMAIN kept : kept[i] = trail[i]
  BY KeptIs
<1> HIDE DEF kept
<1>2. ASSUME IsFalse(trail, x) PROVE IsFalse(kept, x) <=> LevelOf(trail, x) <= k
  <2> DEFINE e == EntryOf(trail, x)
  <2>1. e \in DOMAIN trail /\ trail[e].lit = - x /\ LevelOf(trail, x) = trail[e].level
    BY <1>2, FalseEntry
  <2>2. ASSUME NEW i \in DOMAIN kept, kept[i].lit = - x PROVE i = e
    <3>1. i \in DOMAIN trail /\ trail[i].lit = - x
      BY <1>1, <2>2
    <3> QED
      BY <2>1, <3>1 DEF IsTrail, Consistent
  <2> HIDE DEF e
  <2> QED
    BY <1>1, <2>1, <2>2 DEF IsFalse, IsTrue
<1> QED
  BY <1>1, <1>2 DEF IsTrue, IsFalse, kept

\* Cutting twice is cutting to the lower level.
LEMMA KeptOfKept ==
  ASSUME NEW trail, IsTrail(trail), NEW j \in Int, NEW k \in Int, j <= k
  PROVE  KeptUntil(KeptUntil(trail, k), j) = KeptUntil(trail, j)
<1> DEFINE kept == KeptUntil(trail, k)
           low == KeptUntil(trail, j)
           twice == KeptUntil(kept, j)
<1>1. IsTrail(kept) /\ IsTrail(low) /\ IsTrail(twice)
  BY KeptIs
<1>2. /\ DOMAIN kept = {i \in DOMAIN trail : trail[i].level <= k}
      /\ \A i \in DOMAIN kept : kept[i] = trail[i]
      /\ DOMAIN low = {i \in DOMAIN trail : trail[i].level <= j}
      /\ \A i \in DOMAIN low : low[i] = trail[i]
  BY KeptIs
<1>3. /\ DOMAIN twice = {i \in DOMAIN kept : kept[i].level <= j}
      /\ \A i \in DOMAIN twice : twice[i] = kept[i]
  BY <1>1, KeptIs
<1> HIDE DEF kept, low, twice
<1>4. \A i \in DOMAIN trail : trail[i].level \in Nat
  BY TrailTypes
<1>5. DOMAIN low = DOMAIN twice /\ \A i \in DOMAIN low : low[i] = twice[i]
  BY <1>2, <1>3, <1>4
<1>6. low \in Seq(Entries) /\ twice \in Seq(Entries)
  BY <1>1 DEF IsTrail
<1>7. low = twice
  BY <1>5, <1>6
<1> QED
  BY <1>7 DEF kept, low, twice

\* Enqueueing a literal.
LEMMA AppendIs ==
  ASSUME NEW trail, IsTrail(trail), NEW e \in Entries
  PROVE  /\ Append(trail, e) \in Seq(Entries)
         /\ DOMAIN Append(trail, e) = DOMAIN trail \union {Len(trail) + 1}
         /\ Len(trail) + 1 \notin DOMAIN trail
         /\ Append(trail, e)[Len(trail) + 1] = e
         /\ \A i \in DOMAIN trail : Append(trail, e)[i] = trail[i] /\ i <= Len(trail)
         /\ DecisionLevel(Append(trail, e)) = e.level
<1>1. trail \in Seq(Entries) /\ Len(trail) \in Nat /\ DOMAIN trail = 1 .. Len(trail)
  BY TrailTypes DEF IsTrail
<1> DEFINE longer == Append(trail, e)
<1>2. /\ longer \in Seq(Entries) /\ Len(longer) = Len(trail) + 1
      /\ longer[Len(trail) + 1] = e
      /\ \A i \in 1 .. Len(trail) : longer[i] = trail[i]
      /\ DOMAIN longer = 1 .. Len(trail) + 1
  BY <1>1
<1> HIDE DEF longer
<1>3. longer # << >>
  BY <1>1, <1>2
<1>4. DecisionLevel(longer) = e.level
  BY <1>2, <1>3 DEF DecisionLevel, Last
<1> QED
  BY <1>1, <1>2, <1>4 DEF longer

\* The fields of an entry.
LEMMA EntryFields ==
  ASSUME NEW x \in Lit, NEW l \in Nat, NEW r \in SUBSET Lit
  PROVE  /\ Entry(x, l, r) \in Entries
         /\ Entry(x, l, r).lit = x /\ Entry(x, l, r).level = l /\ Entry(x, l, r).reason = r
BY DEF Entry, Entries

\* uncheckedEnqueue keeps a trail: the literal is unassigned, its level is
\* the highest, its reason is unit, and it has one unless it opens its level.
LEMMA AppendIsTrail ==
  ASSUME NEW trail, IsTrail(trail),
         NEW x \in Lit, ~ Assigned(trail, x),
         NEW l \in Nat, \A i \in DOMAIN trail : trail[i].level <= l,
         NEW r \in SUBSET Lit,
         r # {} => x \in r /\ Falsified(trail, r \ {x}),
         l > 0 /\ (\E i \in DOMAIN trail : trail[i].level = l) => r # {}
  PROVE  IsTrail(Append(trail, Entry(x, l, r)))
<1> DEFINE e == Entry(x, l, r)
           longer == Append(trail, e)
           n == Len(trail) + 1
<1>1. e \in Entries /\ e.lit = x /\ e.level = l /\ e.reason = r
  BY EntryFields
<1> HIDE DEF e
<1>2. /\ longer \in Seq(Entries)
      /\ DOMAIN longer = DOMAIN trail \union {n} /\ n \notin DOMAIN trail
      /\ longer[n] = e
      /\ \A i \in DOMAIN trail : longer[i] = trail[i] /\ i <= Len(trail)
  BY <1>1, AppendIs
<1>3. /\ Len(trail) \in Nat /\ n = Len(trail) + 1 /\ DOMAIN trail = 1 .. Len(trail)
      /\ \A i \in DOMAIN trail : trail[i].lit \in Lit /\ trail[i].lit \in Int
                                 /\ trail[i].level \in Nat /\ i \in Int
  BY TrailTypes
<1> HIDE DEF longer, n
<1>4. \A i \in DOMAIN trail : Var(trail[i].lit) # Var(x)
  BY <1>3, SameVar DEF Assigned, IsTrue, IsFalse, Lit
<1>5. Consistent(longer)
  BY <1>1, <1>2, <1>4 DEF IsTrail, Consistent
<1>6. Sorted(longer)
  <2>1. \A i \in DOMAIN trail : ~ (n <= i)
    BY <1>2, <1>3
  <2> QED
    BY <1>1, <1>2, <2>1 DEF IsTrail, Sorted
<1>7. Decided(longer)
  <2>1. \A i \in DOMAIN trail : ~ (n < i)
    BY <1>2, <1>3
  <2>2. ~ (n < n)
    BY <1>3
  <2> QED
    BY <1>1, <1>2, <2>1, <2>2 DEF IsTrail, Decided
<1>8. Reasoned(longer)
  <2> SUFFICES ASSUME NEW i \in DOMAIN longer, longer[i].reason # {}
               PROVE  /\ longer[i].lit \in longer[i].reason
                      /\ \A y \in longer[i].reason \ {longer[i].lit} :
                           \E j \in 1 .. i - 1 : longer[j].lit = - y
    BY DEF Reasoned
  <2>1. CASE i = n
    <3>1. r # {} /\ longer[i].reason = r /\ longer[i].lit = x
      BY <1>1, <1>2, <2>1
    <3>2. \A y \in r \ {x} : \E j \in DOMAIN trail : trail[j].lit = - y
      BY <3>1 DEF Falsified, IsFalse, IsTrue
    <3>3. 1 .. i - 1 = DOMAIN trail
      BY <1>3, <2>1
    <3> QED
      BY <1>2, <3>1, <3>2, <3>3
  <2>2. CASE i \in DOMAIN trail
    <3>1. longer[i] = trail[i]
      BY <1>2, <2>2
    <3>2. /\ trail[i].lit \in trail[i].reason
          /\ \A y \in trail[i].reason \ {trail[i].lit} :
               \E j \in 1 .. i - 1 : trail[j].lit = - y
      BY <2>2, <3>1 DEF IsTrail, Reasoned
    <3>3. \A j \in 1 .. i - 1 : longer[j] = trail[j]
      BY <1>2, <1>3, <2>2
    <3> QED
      BY <3>1, <3>2, <3>3
  <2> QED
    BY <1>2, <2>1, <2>2
<1>9. IsTrail(longer)
  BY <1>2, <1>5, <1>6, <1>7, <1>8 DEF IsTrail
<1> QED
  BY <1>9 DEF longer, e

\* Enqueueing a literal makes it true and its opposite false, and changes
\* nothing else.
LEMMA AppendValues ==
  ASSUME NEW trail, IsTrail(trail), NEW e \in Entries, NEW y
  PROVE  /\ IsTrue(Append(trail, e), y) <=> IsTrue(trail, y) \/ e.lit = y
         /\ IsFalse(Append(trail, e), y) <=> IsFalse(trail, y) \/ e.lit = - y
BY AppendIs DEF IsTrue, IsFalse

\* Enqueueing keeps the levels of what was assigned.
LEMMA AppendLevels ==
  ASSUME NEW trail, IsTrail(trail), NEW e \in Entries, IsTrail(Append(trail, e)),
         NEW x \in Lit
  PROVE  /\ IsFalse(trail, x) => LevelOf(Append(trail, e), x) = LevelOf(trail, x)
         /\ e.lit = - x => LevelOf(Append(trail, e), x) = e.level
<1> DEFINE longer == Append(trail, e)
<1>1. /\ DOMAIN longer = DOMAIN trail \union {Len(trail) + 1}
      /\ longer[Len(trail) + 1] = e
      /\ \A i \in DOMAIN trail : longer[i] = trail[i]
  BY AppendIs
<1>2. IsTrail(longer)
  OBVIOUS
<1> HIDE DEF longer
<1>3. x \in Int /\ - x \in Int /\ Var(x) = Var(- x)
  BY SameVar DEF Lit
<1>4. ASSUME IsFalse(trail, x) PROVE LevelOf(longer, x) = LevelOf(trail, x)
  <2>1. /\ EntryOf(trail, x) \in DOMAIN trail
        /\ trail[EntryOf(trail, x)].lit = - x
        /\ LevelOf(trail, x) = trail[EntryOf(trail, x)].level
    BY <1>4, FalseEntry
  <2> QED
    BY <1>1, <1>2, <1>3, <2>1, EntryIs
<1>5. ASSUME e.lit = - x PROVE LevelOf(longer, x) = e.level
  BY <1>1, <1>2, <1>3, <1>5, EntryIs
<1> QED
  BY <1>4, <1>5 DEF longer

\* Cutting below a literal takes it off; cutting at its level or above keeps
\* it.
LEMMA KeptOfAppend ==
  ASSUME NEW trail, IsTrail(trail), NEW e \in Entries, IsTrail(Append(trail, e)),
         NEW k \in Int
  PROVE  /\ k < e.level => KeptUntil(Append(trail, e), k) = KeptUntil(trail, k)
         /\ k >= e.level => KeptUntil(Append(trail, e), k) = Append(trail, e)
<1> DEFINE longer == Append(trail, e)
           kept == KeptUntil(longer, k)
           low == KeptUntil(trail, k)
           n == Len(trail) + 1
<1>1. /\ DOMAIN longer = DOMAIN trail \union {n}
      /\ longer[n] = e /\ e.level \in Nat
      /\ \A i \in DOMAIN trail : longer[i] = trail[i] /\ i <= n /\ trail[i].level \in Nat
      /\ longer \in Seq(Entries)
  <2>1. \A i \in DOMAIN trail : trail[i].level \in Nat /\ i \in Int /\ Len(trail) \in Int
    BY TrailTypes
  <2>2. /\ DOMAIN longer = DOMAIN trail \union {n}
        /\ longer[n] = e
        /\ \A i \in DOMAIN trail : longer[i] = trail[i] /\ i <= Len(trail)
        /\ longer \in Seq(Entries)
    BY AppendIs
  <2>3. \A i \in DOMAIN trail : i <= n
    BY <2>1, <2>2
  <2>4. e.level \in Nat
    BY DEF Entries
  <2> QED
    BY <2>1, <2>2, <2>3, <2>4
<1>2. IsTrail(longer)
  OBVIOUS
<1>3. /\ DOMAIN low = {i \in DOMAIN trail : trail[i].level <= k}
      /\ \A i \in DOMAIN low : low[i] = trail[i]
      /\ low \in Seq(Entries)
  BY KeptIs DEF IsTrail
<1> HIDE DEF longer
<1>4. /\ DOMAIN kept = {i \in DOMAIN longer : longer[i].level <= k}
      /\ \A i \in DOMAIN kept : kept[i] = longer[i]
      /\ kept \in Seq(Entries)
  BY <1>2, KeptIs DEF IsTrail
<1> HIDE DEF kept, low, n
<1>5. ASSUME k < e.level PROVE kept = low
  <2>1. DOMAIN kept = DOMAIN low /\ \A i \in DOMAIN kept : kept[i] = low[i]
    BY <1>1, <1>3, <1>4, <1>5
  <2> QED
    BY <1>3, <1>4, <2>1
<1>6. ASSUME k >= e.level PROVE kept = longer
  <2>1. \A i \in DOMAIN longer : longer[i].level <= longer[n].level
    BY <1>1, <1>2 DEF IsTrail, Sorted
  <2>2. DOMAIN kept = DOMAIN longer
    BY <1>1, <1>4, <1>6, <2>1
  <2> QED
    BY <1>1, <1>4, <2>2
<1> QED
  BY <1>5, <1>6 DEF kept, low, longer

-----------------------------------------------------------------------------
(* The first unique implication point.                                      *)

\* The clauses that analyze goes through.
Resolved(trail, conflict) ==
  CHOOSE resolved :
    resolved = [n \in 0 .. Len(trail) |->
                  IF n = 0 THEN AboveZero(trail, conflict)
                  ELSE Resolve(trail, trail[Len(trail) - n + 1], resolved[n - 1])]

\* FirstUIP is the last of the clauses that analyze resolves one by one
\* (Solver.cc:345-394).
LEMMA ResolvedIs ==
  ASSUME NEW trail, IsTrail(trail), NEW conflict \in SUBSET Lit
  PROVE  /\ FirstUIP(trail, conflict) = Resolved(trail, conflict)[Len(trail)]
         /\ Resolved(trail, conflict)[0] = AboveZero(trail, conflict)
         /\ \A k \in 1 .. Len(trail) :
              Resolved(trail, conflict)[k] =
                Resolve(trail, trail[Len(trail) - k + 1], Resolved(trail, conflict)[k - 1])
<1> DEFINE n == Len(trail)
           S == SUBSET Lit
           base == AboveZero(trail, conflict)
           step == [p \in S \X (1 .. n) |-> Resolve(trail, trail[n - p[2] + 1], p[1])]
           s == Resolved(trail, conflict)
<1>1. /\ n \in Nat /\ \A i \in DOMAIN trail : trail[i].reason \subseteq Lit
      /\ DOMAIN trail = 1 .. n
  BY TrailTypes
<1>2. base \in S
  BY DEF AboveZero
<1>3. step \in [S \X (1 .. n) -> S]
  <2> SUFFICES ASSUME NEW c \in S, NEW k \in 1 .. n
               PROVE  Resolve(trail, trail[n - k + 1], c) \in S
    OBVIOUS
  <2>1. n - k + 1 \in DOMAIN trail
    BY <1>1
  <2>2. trail[n - k + 1].reason \subseteq Lit
    BY <1>1, <2>1
  <2> QED
    BY <2>2 DEF Resolve, AboveZero
<1>4. PICK g : IsRun(g, n, S, base, step)
  <2> HIDE DEF n, S, base, step
  <2> QED
    BY <1>1, <1>2, <1>3, Recursion
<1>5. g = [k \in 0 .. n |-> IF k = 0 THEN base ELSE Resolve(trail, trail[n - k + 1], g[k - 1])]
  <2>1. \A k \in 1 .. n : g[k] = Resolve(trail, trail[n - k + 1], g[k - 1])
    <3> TAKE k \in 1 .. n
    <3>1. g[k - 1] \in S
      BY <1>1, <1>4 DEF IsRun
    <3>2. step[<<g[k - 1], k>>] = Resolve(trail, trail[n - k + 1], g[k - 1])
      BY <3>1
    <3> HIDE DEF n, S, base, step
    <3> QED
      BY <1>4, <3>2 DEF IsRun
  <2>2. g \in [0 .. n -> S] /\ g[0] = base
    <3> HIDE DEF n, S, base, step
    <3> QED
      BY <1>4 DEF IsRun
  <2> HIDE DEF n, S, base, step
  <2> QED
    BY <1>1, <2>1, <2>2
<1>6. s = [k \in 0 .. n |-> IF k = 0 THEN base ELSE Resolve(trail, trail[n - k + 1], s[k - 1])]
  BY <1>5 DEF Resolved
<1>7. FirstUIP(trail, conflict) = s[n]
  BY DEF FirstUIP, Resolved
<1> HIDE DEF s
<1>8. s[0] = base /\ \A k \in 1 .. n : s[k] = Resolve(trail, trail[n - k + 1], s[k - 1])
  <2> HIDE DEF base
  <2> QED
    BY <1>1, <1>6
<1> QED
  BY <1>7, <1>8 DEF s

\* An assignment, as the set of its true variables, makes a literal true.
Holds(true, lit) == IF lit > 0 THEN lit \in true ELSE - lit \notin true

\* What an assignment must satisfy for analyze to be right about it: the
\* reasons, and what is fixed at level 0.
Respects(true, trail) ==
  \A i \in DOMAIN trail :
    /\ trail[i].reason # {} => \E x \in trail[i].reason : Holds(true, x)
    /\ trail[i].level = 0 => Holds(true, trail[i].lit)

\* A literal holds in an assignment when its opposite does not.
LEMMA HoldsNot ==
  ASSUME NEW true, NEW x \in Lit
  PROVE  Holds(true, - x) <=> ~ Holds(true, x)
BY DEF Holds, Lit

\* The literals of the current level in the clause lie in the first m
\* entries of the trail.
Below(trail, clause, m) ==
  \A x \in AtLevel(trail, clause, DecisionLevel(trail)) : EntryOf(trail, x) <= m

\* What the first loop of analyze keeps of its clause.
UIPInv(trail, conflict, clause, m) ==
  /\ clause \subseteq Lit
  /\ Falsified(trail, clause)
  /\ \A x \in clause : LevelOf(trail, x) > 0
  /\ AtLevel(trail, clause, DecisionLevel(trail)) # {}
  /\ Several(AtLevel(trail, clause, DecisionLevel(trail))) => Below(trail, clause, m)
  /\ \A true : Respects(true, trail) /\ (\E x \in conflict : Holds(true, x))
                 => \E x \in clause : Holds(true, x)

\* One round of analyze keeps the clause false, above level 0, with a literal
\* of the current level, no later than the entry resolved, and implied by the
\* conflict and the reasons.
LEMMA ResolveKeeps ==
  ASSUME NEW trail, IsTrail(trail), DecisionLevel(trail) > 0,
         NEW conflict \in SUBSET Lit, NEW clause, NEW m \in DOMAIN trail,
         UIPInv(trail, conflict, clause, m)
  PROVE  UIPInv(trail, conflict, Resolve(trail, trail[m], clause), m - 1)
<1> DEFINE level == DecisionLevel(trail)
           e == trail[m]
           others == AboveZero(trail, e.reason \ {e.lit})
           new == (clause \ {- e.lit}) \union others
<1>1. /\ clause \subseteq Lit /\ Falsified(trail, clause)
      /\ \A x \in clause : LevelOf(trail, x) > 0
      /\ AtLevel(trail, clause, level) # {}
      /\ Several(AtLevel(trail, clause, level)) => Below(trail, clause, m)
      /\ \A true : Respects(true, trail) /\ (\E x \in conflict : Holds(true, x))
                     => \E x \in clause : Holds(true, x)
  BY DEF UIPInv
<1>2. /\ e.lit \in Lit /\ e.lit \in Int /\ e.level \in Nat /\ e.reason \subseteq Lit
      /\ m \in Nat /\ level \in Nat
      /\ DOMAIN trail = 1 .. Len(trail) /\ Len(trail) \in Nat
  BY TrailTypes, DecisionLevelIs
<1>3. \A x \in clause : /\ x \in Int
                        /\ EntryOf(trail, x) \in DOMAIN trail
                        /\ trail[EntryOf(trail, x)].lit = - x
                        /\ LevelOf(trail, x) = trail[EntryOf(trail, x)].level
  BY <1>1, FalseEntry DEF Falsified, Lit
<1>4. CASE ~ Several(AtLevel(trail, clause, level))
  BY <1>1, <1>4 DEF UIPInv, Resolve
<1>5. CASE Several(AtLevel(trail, clause, level)) /\ - e.lit \notin clause
  <2>1. ASSUME NEW x \in AtLevel(trail, clause, level) PROVE EntryOf(trail, x) <= m - 1
    <3>1. x \in clause
      BY DEF AtLevel
    <3>2. EntryOf(trail, x) <= m
      BY <1>1, <1>5 DEF Below
    <3>3. EntryOf(trail, x) # m
      BY <1>2, <1>3, <1>5, <3>1
    <3> QED
      BY <1>2, <1>3, <3>1, <3>2, <3>3
  <2>2. Resolve(trail, e, clause) = clause
    BY <1>5 DEF Resolve
  <2> QED
    BY <1>1, <2>1, <2>2 DEF UIPInv, Below
<1>6. CASE Several(AtLevel(trail, clause, level)) /\ - e.lit \in clause
  <2>1. Resolve(trail, e, clause) = new
    BY <1>6 DEF Resolve
  <2>2. - e.lit \in Int /\ Var(- e.lit) = Var(e.lit)
    BY <1>2, SameVar
  <2>3. EntryOf(trail, - e.lit) = m /\ LevelOf(trail, - e.lit) = e.level
    BY <2>2, EntryIs
  <2>4. Below(trail, clause, m)
    BY <1>1, <1>6
  <2>5. PICK y \in AtLevel(trail, clause, level) : y # - e.lit
    BY <1>6 DEF Several
  <2>6. /\ y \in clause /\ LevelOf(trail, y) = level
        /\ EntryOf(trail, y) <= m /\ EntryOf(trail, y) \in DOMAIN trail
        /\ trail[EntryOf(trail, y)].lit = - y
        /\ trail[EntryOf(trail, y)].level = level
    BY <1>3, <2>4 DEF Below, AtLevel
  <2>7. EntryOf(trail, y) < m
    <3>1. EntryOf(trail, y) # m
      BY <1>1, <1>2, <2>5, <2>6 DEF Lit
    <3> QED
      BY <1>2, <2>6, <3>1
  <2>8. e.level = level
    <3>1. trail[EntryOf(trail, y)].level <= e.level
      BY <2>6 DEF IsTrail, Sorted
    <3>2. e.level <= level
      BY DecisionLevelIs
    <3> QED
      BY <1>2, <2>6, <3>1, <3>2
  <2>9. e.reason # {}
    BY <2>6, <2>7, <2>8 DEF IsTrail, Decided
  <2>10. /\ e.lit \in e.reason
         /\ \A x \in e.reason \ {e.lit} : \E j \in 1 .. m - 1 : trail[j].lit = - x
    BY <2>9 DEF IsTrail, Reasoned
  <2>11. ASSUME NEW x \in e.reason \ {e.lit}
         PROVE  /\ x \in Lit /\ IsFalse(trail, x)
                /\ EntryOf(trail, x) <= m - 1
    <3>1. PICK j \in 1 .. m - 1 : trail[j].lit = - x
      BY <2>10
    <3>2. j \in DOMAIN trail /\ x \in Lit /\ x \in Int /\ - x \in Int
      BY <1>2 DEF Lit
    <3>3. EntryOf(trail, x) = j
      BY <3>1, <3>2, SameVar, EntryIs
    <3> QED
      BY <3>1, <3>2, <3>3 DEF IsFalse, IsTrue
  <2>12. new \subseteq Lit /\ Falsified(trail, new) /\ \A x \in new : LevelOf(trail, x) > 0
    BY <1>1, <2>11 DEF AboveZero, Falsified
  <2>13. y \in AtLevel(trail, new, level)
    BY <2>5, <2>6 DEF AtLevel
  <2>14. ASSUME NEW x \in AtLevel(trail, new, level) PROVE EntryOf(trail, x) <= m - 1
    <3>1. CASE x \in others
      BY <2>11, <3>1 DEF AboveZero
    <3>2. CASE x \in clause \ {- e.lit}
      <4>1. EntryOf(trail, x) <= m
        BY <2>4, <2>14, <3>2 DEF Below, AtLevel
      <4>2. EntryOf(trail, x) # m
        BY <1>2, <1>3, <3>2
      <4> QED
        BY <1>2, <1>3, <3>2, <4>1, <4>2
    <3> QED
      BY <2>14, <3>1, <3>2 DEF AtLevel
  <2>15. ASSUME NEW true, Respects(true, trail), \E x \in conflict : Holds(true, x)
         PROVE  \E x \in new : Holds(true, x)
    <3>1. PICK x \in clause : Holds(true, x)
      BY <1>1, <2>15
    <3>2. CASE x # - e.lit
      BY <3>1, <3>2
    <3>3. CASE x = - e.lit
      <4>1. ~ Holds(true, e.lit)
        BY <1>2, <3>1, <3>3, HoldsNot
      <4>2. PICK z \in e.reason : Holds(true, z)
        BY <2>9, <2>15 DEF Respects
      <4>3. z \in e.reason \ {e.lit}
        BY <4>1, <4>2
      <4>4. z \in Lit /\ IsFalse(trail, z)
        BY <2>11, <4>3
      <4>5. LevelOf(trail, z) # 0
        <5> SUFFICES ASSUME LevelOf(trail, z) = 0 PROVE FALSE
          OBVIOUS
        <5>1. /\ EntryOf(trail, z) \in DOMAIN trail
              /\ trail[EntryOf(trail, z)].lit = - z
              /\ trail[EntryOf(trail, z)].level = 0
          BY <4>4, FalseEntry
        <5>2. Holds(true, - z)
          BY <2>15, <5>1 DEF Respects
        <5> QED
          BY <4>2, <4>4, <5>2, HoldsNot
      <4>6. LevelOf(trail, z) \in Nat
        BY <4>4, FalseEntry
      <4>7. z \in others
        BY <4>3, <4>5, <4>6 DEF AboveZero
      <4> QED
        BY <4>2, <4>7
    <3> QED
      BY <3>2, <3>3
  <2> QED
    <3> HIDE DEF new
    <3>1. UIPInv(trail, conflict, new, m - 1)
      <4> HIDE DEF e
      <4> QED
        BY <2>12, <2>13, <2>14, <2>15 DEF UIPInv, Below
    <3> QED
      BY <2>1, <3>1
<1> QED
  BY <1>4, <1>5, <1>6

\* analyze's first loop ends with exactly one literal of the current level,
\* in a clause that is false and that the conflict and the reasons imply.
LEMMA FirstUIPIs ==
  ASSUME NEW trail, IsTrail(trail), DecisionLevel(trail) > 0,
         NEW conflict \in SUBSET Lit, Falsified(trail, conflict),
         \E x \in conflict : LevelOf(trail, x) = DecisionLevel(trail)
  PROVE  /\ UIPInv(trail, conflict, FirstUIP(trail, conflict), 0)
         /\ \E lit \in Lit :
              AtLevel(trail, FirstUIP(trail, conflict), DecisionLevel(trail)) = {lit}
<1> DEFINE n == Len(trail)
           c(k) == Resolved(trail, conflict)[k]
           S == {k \in 0 .. n : UIPInv(trail, conflict, c(k), n - k)}
<1>1. n \in Nat /\ DOMAIN trail = 1 .. n /\ DecisionLevel(trail) \in Nat
  BY TrailTypes, DecisionLevelIs
<1>2. \A x \in conflict : /\ x \in Lit /\ IsFalse(trail, x)
                          /\ EntryOf(trail, x) \in DOMAIN trail
                          /\ LevelOf(trail, x) \in Nat
                          /\ trail[EntryOf(trail, x)].lit = - x
                          /\ LevelOf(trail, x) = trail[EntryOf(trail, x)].level
  BY FalseEntry DEF Falsified
<1>3. 0 \in S
  <2>1. c(0) = AboveZero(trail, conflict)
    BY ResolvedIs
  <2> DEFINE base == AboveZero(trail, conflict)
  <2>2. /\ base \subseteq Lit /\ Falsified(trail, base)
        /\ \A x \in base : LevelOf(trail, x) > 0
        /\ AtLevel(trail, base, DecisionLevel(trail)) # {}
    BY <1>2 DEF AboveZero, AtLevel, Falsified
  <2>3. Below(trail, base, n)
    BY <1>1, <1>2 DEF Below, AtLevel, AboveZero
  <2>4. ASSUME NEW true, Respects(true, trail), NEW x \in conflict, Holds(true, x)
        PROVE  x \in base
    <3>1. LevelOf(trail, x) # 0
      <4> SUFFICES ASSUME LevelOf(trail, x) = 0 PROVE FALSE
        OBVIOUS
      <4>1. Holds(true, - x)
        BY <1>2, <2>4 DEF Respects
      <4> QED
        BY <1>2, <2>4, <4>1, HoldsNot
    <3> QED
      BY <1>2, <3>1 DEF AboveZero
  <2>5. UIPInv(trail, conflict, base, n)
    <3> HIDE DEF base, n
    <3> QED
      BY <2>2, <2>3, <2>4 DEF UIPInv
  <2> HIDE DEF base, c
  <2> QED
    BY <1>1, <2>1, <2>5 DEF base
<1>4. \A k \in 0 .. n - 1 : k \in S => k + 1 \in S
  <2> SUFFICES ASSUME NEW k \in 0 .. n - 1, UIPInv(trail, conflict, c(k), n - k)
               PROVE  UIPInv(trail, conflict, c(k + 1), n - (k + 1))
    BY <1>1
  <2>1. /\ k + 1 \in 1 .. n /\ n - (k + 1) + 1 = n - k /\ (k + 1) - 1 = k
        /\ n - k \in DOMAIN trail /\ n - (k + 1) = (n - k) - 1
    BY <1>1
  <2>2. c(k + 1) = Resolve(trail, trail[n - (k + 1) + 1], c((k + 1) - 1))
    BY <2>1, ResolvedIs
  <2>3. c(k + 1) = Resolve(trail, trail[n - k], c(k))
    BY <2>1, <2>2
  <2> HIDE DEF c, n
  <2>4. UIPInv(trail, conflict, Resolve(trail, trail[n - k], c(k)), (n - k) - 1)
    BY <2>1, ResolveKeeps
  <2> QED
    BY <2>1, <2>3, <2>4
<1>5. n \in S
  <2> HIDE DEF S, n
  <2>1. \A k \in 0 .. n : k \in S
    BY <1>1, <1>3, <1>4, BoundedInduction
  <2> QED
    BY <1>1, <2>1
<1> DEFINE uip == FirstUIP(trail, conflict)
           current == AtLevel(trail, uip, DecisionLevel(trail))
<1>6. UIPInv(trail, conflict, uip, 0)
  <2>1. c(n) = uip /\ n - n = 0
    BY <1>1, ResolvedIs
  <2>2. UIPInv(trail, conflict, c(n), n - n)
    BY <1>5
  <2> HIDE DEF c, uip, n
  <2> QED
    BY <2>1, <2>2
<1>7. ~ Several(current) /\ current # {} /\ current \subseteq Lit
  <2>1. \A x \in current : x \in Lit /\ EntryOf(trail, x) \in DOMAIN trail
    BY <1>6, FalseEntry DEF UIPInv, AtLevel, Falsified
  <2>2. \A x \in current : ~ (EntryOf(trail, x) <= 0)
    BY <1>1, <2>1
  <2>3. current # {}
    BY <1>6 DEF UIPInv
  <2>4. Several(current) => Below(trail, uip, 0)
    BY <1>6 DEF UIPInv
  <2> QED
    BY <2>1, <2>2, <2>3, <2>4 DEF Below
<1>8. \E lit \in Lit : current = {lit}
  BY <1>7 DEF Several
<1> QED
  BY <1>6, <1>8

-----------------------------------------------------------------------------
(* Minimisation.                                                            *)

\* The literals that litRedundant finds implied, entry by entry.
Implied(trail, clause) ==
  CHOOSE implied :
    implied = [n \in 0 .. Len(trail) |->
                 IF n = 0 THEN {} ELSE AddImplied(trail, clause, implied[n - 1], trail[n])]

\* Redundant is computed by a run along the trail (litRedundant,
\* Solver.cc:464-533).
LEMMA ImpliedIs ==
  ASSUME NEW trail, IsTrail(trail), NEW clause
  PROVE  /\ Redundant(trail, clause) =
              {lit \in clause : - lit \in Implied(trail, clause)[Len(trail)]}
         /\ Implied(trail, clause)[0] = {}
         /\ \A k \in 1 .. Len(trail) :
              Implied(trail, clause)[k] =
                AddImplied(trail, clause, Implied(trail, clause)[k - 1], trail[k])
<1> DEFINE n == Len(trail)
           S == SUBSET Lit
           step == [p \in S \X (1 .. n) |-> AddImplied(trail, clause, p[1], trail[p[2]])]
           s == Implied(trail, clause)
<1>1. n \in Nat /\ \A i \in 1 .. n : trail[i].lit \in Lit
  BY TrailTypes
<1>2. {} \in S
  OBVIOUS
<1>3. step \in [S \X (1 .. n) -> S]
  BY <1>1 DEF AddImplied
<1>4. PICK g : IsRun(g, n, S, {}, step)
  <2> HIDE DEF n, S, step
  <2> QED
    BY <1>1, <1>2, <1>3, Recursion
<1>5. g = [k \in 0 .. n |-> IF k = 0 THEN {} ELSE AddImplied(trail, clause, g[k - 1], trail[k])]
  <2>1. \A k \in 1 .. n : g[k] = AddImplied(trail, clause, g[k - 1], trail[k])
    <3> TAKE k \in 1 .. n
    <3>1. g[k - 1] \in S
      BY <1>1, <1>4 DEF IsRun
    <3>2. step[<<g[k - 1], k>>] = AddImplied(trail, clause, g[k - 1], trail[k])
      BY <3>1
    <3> HIDE DEF n, S, step
    <3> QED
      BY <1>4, <3>2 DEF IsRun
  <2>2. g \in [0 .. n -> S] /\ g[0] = {}
    <3> HIDE DEF n, S, step
    <3> QED
      BY <1>4 DEF IsRun
  <2> HIDE DEF n, S, step
  <2> QED
    BY <1>1, <2>1, <2>2
<1>6. s = [k \in 0 .. n |-> IF k = 0 THEN {} ELSE AddImplied(trail, clause, s[k - 1], trail[k])]
  BY <1>5 DEF Implied
<1>7. Redundant(trail, clause) = {lit \in clause : - lit \in s[n]}
  BY DEF Redundant, Implied
<1> HIDE DEF s
<1>8. s[0] = {} /\ \A k \in 1 .. n : s[k] = AddImplied(trail, clause, s[k - 1], trail[k])
  <2> HIDE DEF n
  <2>1. s[0] = {}
    BY <1>1, <1>6
  <2>2. ASSUME NEW k \in 1 .. n PROVE s[k] = AddImplied(trail, clause, s[k - 1], trail[k])
    <3>1. k \in 0 .. n /\ k # 0
      BY <1>1
    <3> QED
      BY <1>6, <3>1
  <2> QED
    BY <2>1, <2>2
<1> QED
  BY <1>7, <1>8 DEF s

\* The sets grow by literals of the trail.
LEMMA ImpliedGrows ==
  ASSUME NEW trail, IsTrail(trail), NEW clause, NEW i \in DOMAIN trail,
         trail[i].lit \in Implied(trail, clause)[Len(trail)]
  PROVE  /\ Implies(trail, clause, Implied(trail, clause)[i - 1], trail[i])
         /\ Implied(trail, clause)[i - 1] \subseteq Implied(trail, clause)[Len(trail)]
<1> DEFINE n == Len(trail)
           s(k) == Implied(trail, clause)[k]
<1>1. /\ n \in Nat /\ DOMAIN trail = 1 .. n /\ i \in 1 .. n
      /\ \A k \in 1 .. n : trail[k].lit \in Int
  BY TrailTypes
<1>2. /\ s(0) = {}
      /\ \A k \in 1 .. n : s(k) = AddImplied(trail, clause, s(k - 1), trail[k])
  BY ImpliedIs
<1> HIDE DEF s
<1>3. \A k \in 0 .. n : s(k) \subseteq {trail[j].lit : j \in 1 .. k}
  <2> DEFINE S == {k \in 0 .. n : s(k) \subseteq {trail[j].lit : j \in 1 .. k}}
  <2>1. 0 \in S
    BY <1>1, <1>2
  <2>2. \A k \in 0 .. n - 1 : k \in S => k + 1 \in S
    <3> SUFFICES ASSUME NEW k \in 0 .. n - 1, s(k) \subseteq {trail[j].lit : j \in 1 .. k}
                 PROVE  s(k + 1) \subseteq {trail[j].lit : j \in 1 .. k + 1}
      BY <1>1
    <3>1. k + 1 \in 1 .. n /\ (k + 1) - 1 = k /\ 1 .. k \subseteq 1 .. k + 1 /\ k + 1 \in 1 .. k + 1
      BY <1>1
    <3>2. s(k + 1) \subseteq s(k) \union {trail[k + 1].lit}
      BY <1>2, <3>1 DEF AddImplied
    <3> QED
      BY <3>1, <3>2
  <2> HIDE DEF S, n
  <2>3. \A k \in 0 .. n : k \in S
    BY <1>1, <2>1, <2>2, BoundedInduction
  <2> QED
    BY <2>3 DEF S
<1>4. \A m \in 0 .. n - i : /\ s(i - 1) \subseteq s(i + m)
                            /\ trail[i].lit \in s(i + m) => trail[i].lit \in s(i)
  <2> DEFINE S == {m \in 0 .. n - i : /\ s(i - 1) \subseteq s(i + m)
                                      /\ trail[i].lit \in s(i + m) => trail[i].lit \in s(i)}
  <2>0. n - i \in Nat /\ i + 0 = i
    BY <1>1
  <2>1. 0 \in S
    <3>1. s(i - 1) \subseteq s(i)
      BY <1>1, <1>2 DEF AddImplied
    <3> QED
      BY <2>0, <3>1
  <2>2. \A m \in 0 .. (n - i) - 1 : m \in S => m + 1 \in S
    <3> SUFFICES ASSUME NEW m \in 0 .. (n - i) - 1, m \in S
                 PROVE  /\ s(i - 1) \subseteq s(i + (m + 1))
                        /\ trail[i].lit \in s(i + (m + 1)) => trail[i].lit \in s(i)
      BY <1>1
    <3> DEFINE j == i + (m + 1)
    <3>1. j \in 1 .. n /\ j - 1 = i + m /\ j # i
      BY <1>1
    <3>2. s(j) = s(i + m) \/ s(j) = s(i + m) \union {trail[j].lit}
      BY <1>2, <3>1 DEF AddImplied
    <3>3. trail[j].lit # trail[i].lit
      BY <1>1, <3>1 DEF IsTrail, Consistent
    <3> QED
      BY <3>2, <3>3
  <2> HIDE DEF S, n
  <2>3. \A m \in 0 .. n - i : m \in S
    BY <2>0, <2>1, <2>2, BoundedInduction
  <2> QED
    BY <2>3 DEF S
<1>5. n - i \in 0 .. n - i /\ i + (n - i) = n
  BY <1>1
<1>6. s(i - 1) \subseteq s(n) /\ (trail[i].lit \in s(n) => trail[i].lit \in s(i))
  BY <1>4, <1>5
<1>7. trail[i].lit \in s(i)
  BY <1>6 DEF s
<1>8. trail[i].lit \notin s(i - 1)
  <2> SUFFICES ASSUME trail[i].lit \in s(i - 1) PROVE FALSE
    OBVIOUS
  <2>1. i - 1 \in 0 .. n
    BY <1>1
  <2>2. PICK j \in 1 .. i - 1 : trail[j].lit = trail[i].lit
    BY <1>3, <2>1
  <2>3. j \in DOMAIN trail /\ j # i
    BY <1>1
  <2> QED
    BY <2>2, <2>3 DEF IsTrail, Consistent
<1>9. Implies(trail, clause, s(i - 1), trail[i])
  BY <1>1, <1>2, <1>7, <1>8 DEF AddImplied
<1> QED
  BY <1>6, <1>9 DEF s

\* Dropping redundant literals leaves a clause that says as much.
LEMMA RedundantIs ==
  ASSUME NEW trail, IsTrail(trail), NEW clause \in SUBSET Lit, Falsified(trail, clause),
         NEW true, Respects(true, trail),
         NEW kept \in SUBSET clause, clause \ Redundant(trail, clause) \subseteq kept,
         \A x \in kept : ~ Holds(true, x)
  PROVE  \A x \in clause : ~ Holds(true, x)
<1> DEFINE n == Len(trail)
           implied == Implied(trail, clause)
           S == {k \in 1 .. n : - trail[k].lit \in clause \/ trail[k].lit \in implied[n]
                                  => Holds(true, trail[k].lit)}
<1>1. /\ n \in Nat /\ DOMAIN trail = 1 .. n
      /\ \A k \in 1 .. n : /\ trail[k].lit \in Lit /\ trail[k].lit \in Int
                           /\ trail[k].reason \subseteq Lit /\ trail[k].level \in Nat
  BY TrailTypes
<1>2. Redundant(trail, clause) = {x \in clause : - x \in implied[n]}
  BY ImpliedIs
<1>3. \A k \in 1 .. n : (\A m \in 1 .. k - 1 : m \in S) => k \in S
  <2> SUFFICES ASSUME NEW k \in 1 .. n, \A m \in 1 .. k - 1 : m \in S,
                      - trail[k].lit \in clause \/ trail[k].lit \in implied[n]
               PROVE  Holds(true, trail[k].lit)
    OBVIOUS
  <2>1. CASE trail[k].lit \in implied[n]
    <3>1. /\ Implies(trail, clause, implied[k - 1], trail[k])
          /\ implied[k - 1] \subseteq implied[n]
      BY <1>1, <2>1, ImpliedGrows
    <3>2. /\ trail[k].reason # {}
          /\ \A x \in AboveZero(trail, trail[k].reason \ {trail[k].lit}) :
               x \in clause \/ - x \in implied[n]
      BY <3>1 DEF Implies
    <3>3. PICK z \in trail[k].reason : Holds(true, z)
      BY <1>1, <3>2 DEF Respects
    <3>4. CASE z = trail[k].lit
      BY <3>3, <3>4
    <3>5. CASE z # trail[k].lit
      <4>1. PICK j \in 1 .. k - 1 : trail[j].lit = - z
        BY <1>1, <3>2, <3>5 DEF IsTrail, Reasoned
      <4>2. j \in 1 .. n /\ j \in S /\ z \in Lit /\ z \in Int /\ - z \in Int
        BY <1>1 DEF Lit
      <4>3. ~ Holds(true, - z)
        BY <3>3, <4>2, HoldsNot
      <4>4. trail[j].level # 0
        BY <1>1, <4>1, <4>2, <4>3 DEF Respects
      <4>5. LevelOf(trail, z) = trail[j].level
        <5>1. j \in DOMAIN trail /\ IsTrail(trail)
          BY <1>1, <4>2
        <5>2. Var(z) = Var(trail[j].lit)
          BY <4>1, <4>2, SameVar
        <5> QED
          BY <4>2, <5>1, <5>2, EntryIs
      <4>6. z \in AboveZero(trail, trail[k].reason \ {trail[k].lit})
        BY <1>1, <3>5, <4>2, <4>4, <4>5 DEF AboveZero
      <4>7. z \in clause \/ - z \in implied[n]
        BY <3>2, <4>6
      <4>8. - trail[j].lit = z
        BY <4>1, <4>2
      <4> QED
        BY <4>1, <4>2, <4>3, <4>7, <4>8
    <3> QED
      BY <3>4, <3>5
  <2>2. CASE trail[k].lit \notin implied[n]
    <3> DEFINE x == - trail[k].lit
    <3>1. x \in clause /\ - x = trail[k].lit
      BY <1>1, <2>2
    <3>2. x \in kept
      BY <1>2, <2>2, <3>1
    <3>3. ~ Holds(true, x)
      BY <3>2
    <3> QED
      BY <1>1, <3>3, HoldsNot
  <2> QED
    BY <2>1, <2>2
<1>4. \A k \in 1 .. n : k \in S
  <2> HIDE DEF S, n
  <2> QED
    BY <1>1, <1>3, StrongInduction
<1> SUFFICES ASSUME NEW x \in clause PROVE ~ Holds(true, x)
  OBVIOUS
<1>5. PICK k \in 1 .. n : trail[k].lit = - x
  BY <1>1 DEF Falsified, IsFalse, IsTrue
<1>6. - trail[k].lit = x /\ x \in Lit
  BY <1>5 DEF Lit
<1>7. Holds(true, - x)
  BY <1>4, <1>5, <1>6
<1> QED
  BY <1>6, <1>7, HoldsNot

\* Max of a nonempty set of levels is one of them and bounds the others.
LEMMA MaxIs ==
  ASSUME NEW n \in Nat, NEW T \in SUBSET (0 .. n), T # {}
  PROVE  Max(T) \in T /\ \A x \in T : x <= Max(T)
<1> DEFINE M == {m \in Nat : \A x \in T : x <= m}
<1>1. n \in M
  OBVIOUS
<1>2. PICK m \in M : \A l \in M : m <= l
  <2>1. M \in SUBSET Nat /\ M # {}
    BY <1>1
  <2> HIDE DEF M
  <2> QED
    BY <2>1, LeastElement
<1>3. m \in T
  <2> SUFFICES ASSUME m \notin T PROVE FALSE
    OBVIOUS
  <2>1. PICK x \in T : TRUE
    OBVIOUS
  <2>2. m - 1 \in Nat /\ \A y \in T : y <= m - 1
    BY <1>2, <2>1
  <2>3. m - 1 \in M
    BY <2>2
  <2> QED
    BY <1>2, <2>3
<1>4. \E y \in T : \A x \in T : y >= x
  BY <1>2, <1>3
<1> QED
  BY <1>4 DEF Max

\* What analyze promises of the clause it learns (Solver.cc:328-331).
Learns(trail, conflict, learnt, lit, level) ==
  /\ learnt \subseteq Lit /\ lit \in learnt
  /\ Falsified(trail, learnt)
  /\ LevelOf(trail, lit) = DecisionLevel(trail)
  /\ level \in 0 .. DecisionLevel(trail) - 1
  /\ \A x \in learnt \ {lit} : LevelOf(trail, x) \in 1 .. level
  /\ level > 0 => \E x \in learnt \ {lit} : LevelOf(trail, x) = level
  /\ \A true : Respects(true, trail) /\ (\E x \in conflict : Holds(true, x))
                 => \E x \in learnt : Holds(true, x)

\* What analyze promises (Solver.cc:328-331): the clause learnt is false, its
\* first literal is the only one of the current level, the level to go back
\* to is the highest of the others, and the conflict and the reasons imply
\* it.
THEOREM LearntIs ==
  ASSUME NEW trail, IsTrail(trail), DecisionLevel(trail) > 0,
         NEW conflict \in SUBSET Lit, Falsified(trail, conflict),
         \E x \in conflict : LevelOf(trail, x) = DecisionLevel(trail)
  PROVE  Learns(trail, conflict, Learnt(trail, conflict),
                Asserting(trail, Learnt(trail, conflict)),
                BacktrackLevel(trail, Learnt(trail, conflict)))
<1> DEFINE uip == FirstUIP(trail, conflict)
           learnt == Learnt(trail, conflict)
           current == DecisionLevel(trail)
<1>1. /\ UIPInv(trail, conflict, uip, 0)
      /\ \E x \in Lit : AtLevel(trail, uip, current) = {x}
  BY FirstUIPIs
<1>2. PICK lit \in Lit : AtLevel(trail, uip, current) = {lit}
  BY <1>1
<1>3. learnt = {lit} \union ((uip \ {lit}) \ Redundant(trail, uip))
  BY <1>2 DEF Learnt
<1>4. /\ uip \subseteq Lit /\ Falsified(trail, uip)
      /\ \A x \in uip : LevelOf(trail, x) > 0
      /\ lit \in uip /\ LevelOf(trail, lit) = current
      /\ \A x \in uip \ {lit} : LevelOf(trail, x) # current
  BY <1>1, <1>2 DEF UIPInv, AtLevel
<1>5. learnt \subseteq uip /\ lit \in learnt
  BY <1>3, <1>4
<1>6. current \in Nat
  BY DecisionLevelIs
<1>7. \A x \in uip \ {lit} : LevelOf(trail, x) \in 1 .. current - 1
  <2> SUFFICES ASSUME NEW x \in uip \ {lit} PROVE LevelOf(trail, x) \in 1 .. current - 1
    OBVIOUS
  <2>1. x \in Lit /\ IsFalse(trail, x)
    BY <1>4 DEF Falsified
  <2>2. LevelOf(trail, x) \in Nat /\ LevelOf(trail, x) <= current
    BY <2>1, FalseEntry, DecisionLevelIs
  <2> QED
    BY <1>4, <1>6, <2>2
<1> HIDE DEF learnt, uip, current
<1>8. Asserting(trail, learnt) = lit
  <2>1. \A x \in learnt : LevelOf(trail, x) = current <=> x = lit
    BY <1>4, <1>5
  <2> QED
    BY <1>5, <2>1 DEF Asserting, current
<1> DEFINE levels == {0} \union {LevelOf(trail, x) : x \in learnt \ {lit}}
           level == BacktrackLevel(trail, learnt)
<1>9. level \in levels /\ \A l \in levels : l <= level
  <2>1. levels \in SUBSET (0 .. current) /\ levels # {}
    BY <1>5, <1>6, <1>7
  <2>2. level = Max(levels)
    BY <1>8 DEF BacktrackLevel
  <2> HIDE DEF levels, level
  <2> QED
    BY <1>6, <2>1, <2>2, MaxIs
<1> HIDE DEF level
<1>10. /\ level \in 0 .. current - 1
       /\ \A x \in learnt \ {lit} : LevelOf(trail, x) \in 1 .. level
       /\ level > 0 => \E x \in learnt \ {lit} : LevelOf(trail, x) = level
  <2>1. current > 0
    BY DEF current
  <2>2. \A x \in learnt \ {lit} : LevelOf(trail, x) \in 1 .. current - 1 /\ LevelOf(trail, x) \in levels
    BY <1>5, <1>7
  <2> QED
    BY <1>6, <1>9, <2>1, <2>2
<1>11. ASSUME NEW true, Respects(true, trail), \E x \in conflict : Holds(true, x)
       PROVE  \E x \in learnt : Holds(true, x)
  <2> SUFFICES ASSUME \A x \in learnt : ~ Holds(true, x) PROVE FALSE
    OBVIOUS
  <2>1. uip \ Redundant(trail, uip) \subseteq learnt
    BY <1>3
  <2>2. \A x \in uip : ~ Holds(true, x)
    BY <1>4, <1>5, <1>11, <2>1, RedundantIs
  <2>3. \E x \in uip : Holds(true, x)
    BY <1>1, <1>11 DEF UIPInv
  <2> QED
    BY <2>2, <2>3
<1>12. Learns(trail, conflict, learnt, lit, level)
  BY <1>4, <1>5, <1>10, <1>11 DEF Learns, Falsified, current
<1> QED
  BY <1>8, <1>12 DEF learnt, level

-----------------------------------------------------------------------------
(* The literals of a trail, as the shrink callback is given them.           *)

\* The literals of a trail as a sequence.
LEMMA LitsAre ==
  ASSUME NEW t, IsTrail(t)
  PROVE  /\ Lits(t) \in Seq(Int) /\ Len(Lits(t)) = Len(t)
         /\ \A i \in 1 .. Len(t) : Lits(t)[i] = t[i].lit
BY TrailTypes DEF Lits

\* The literals that cancelUntil takes off, as a sequence.
LEMMA LitsAboveAre ==
  ASSUME NEW t, IsTrail(t), NEW k \in Int
  PROVE  /\ TrailLim(t, k) \in 0 .. Len(t) /\ Len(t) \in Nat
         /\ LitsAbove(t, k) \in Seq(Int)
         /\ Len(LitsAbove(t, k)) = Len(t) - TrailLim(t, k)
         /\ \A i \in 1 .. Len(t) - TrailLim(t, k) : LitsAbove(t, k)[i] = t[TrailLim(t, k) + i].lit
<1> DEFINE l == Lits(t)
           m == TrailLim(t, k)
           n == Len(t)
           above == LitsAbove(t, k)
<1>1. m \in 0 .. n /\ n \in Nat
  BY TrailLimIs, TrailTypes
<1>2. l \in Seq(Int) /\ Len(l) = n /\ \A i \in 1 .. n : l[i] = t[i].lit
  BY LitsAre
<1>3. above = SubSeq(l, m + 1, n)
  BY DEF LitsAbove
<1> HIDE DEF l, m, n, above
<1>4. /\ above \in Seq(Int) /\ Len(above) = n - m
      /\ \A i \in 1 .. n - m : above[i] = l[m + i]
  BY <1>1, <1>2, <1>3
<1>5. \A i \in 1 .. n - m : above[i] = t[m + i].lit
  <2> SUFFICES ASSUME NEW i \in 1 .. n - m PROVE above[i] = t[m + i].lit
    OBVIOUS
  <2>1. m + i \in 1 .. n
    BY <1>1
  <2> QED
    BY <1>2, <1>4, <2>1
<1> QED
  BY <1>1, <1>4, <1>5 DEF m, n, above

\* The literals kept and those taken off make up the trail.
LEMMA LitsSplit ==
  ASSUME NEW t, IsTrail(t), NEW j \in Int, NEW k \in Int, j <= k
  PROVE  /\ Lits(t) = Lits(KeptUntil(t, k)) \o LitsAbove(t, k)
         /\ LitsAbove(t, j) = LitsAbove(KeptUntil(t, k), j) \o LitsAbove(t, k)
<1> DEFINE kept == KeptUntil(t, k)
           m == TrailLim(t, k)
           l == TrailLim(t, j)
           n == Len(t)
           high == LitsAbove(t, k)
           low == LitsAbove(kept, j)
           all == LitsAbove(t, j)
           fixed == Lits(kept)
           lits == Lits(t)
<1>1. /\ IsTrail(kept) /\ Len(kept) = m /\ DOMAIN kept = 1 .. m
      /\ \A i \in 1 .. m : kept[i] = t[i]
  <2>1. IsTrail(kept) /\ Len(kept) = m /\ \A i \in DOMAIN kept : kept[i] = t[i]
    BY KeptIs
  <2>2. DOMAIN kept = 1 .. Len(kept)
    BY <2>1, TrailTypes
  <2> QED
    BY <2>1, <2>2
<1>2. /\ m \in 0 .. n /\ l \in 0 .. n /\ n \in Nat
      /\ high \in Seq(Int) /\ Len(high) = n - m /\ \A i \in 1 .. n - m : high[i] = t[m + i].lit
      /\ all \in Seq(Int) /\ Len(all) = n - l /\ \A i \in 1 .. n - l : all[i] = t[l + i].lit
  BY LitsAboveAre
<1>3. l <= m /\ TrailLim(kept, j) = l
  <2>1. \A i \in 1 .. n : (t[i].level <= k <=> i <= m) /\ (t[i].level <= j <=> i <= l)
    BY <1>2, TrailLimIs, TrailTypes
  <2>2. \A i \in 1 .. n : t[i].level \in Int
    BY <1>2, TrailTypes
  <2>3. l <= m
    <3> SUFFICES ASSUME ~ (l <= m) PROVE FALSE
      OBVIOUS
    <3>1. l \in 1 .. n /\ l <= l
      BY <1>2
    <3>2. t[l].level <= j /\ t[l].level \in Int
      BY <2>1, <2>2, <3>1
    <3>3. t[l].level <= k
      BY <3>2
    <3> QED
      BY <2>1, <3>1, <3>3
  <2>4. KeptUntil(kept, j) = KeptUntil(t, j)
    BY KeptOfKept
  <2>5. Len(KeptUntil(kept, j)) = TrailLim(kept, j) /\ Len(KeptUntil(t, j)) = l
    BY <1>1, KeptIs
  <2> QED
    BY <2>3, <2>4, <2>5
<1>4. /\ low \in Seq(Int) /\ Len(low) = m - l /\ \A i \in 1 .. m - l : low[i] = kept[l + i].lit
  <2> HIDE DEF kept, l, m
  <2> QED
    BY <1>1, <1>3, LitsAboveAre
<1>5. /\ fixed \in Seq(Int) /\ Len(fixed) = m /\ \A i \in 1 .. m : fixed[i] = kept[i].lit
      /\ lits \in Seq(Int) /\ Len(lits) = n /\ \A i \in 1 .. n : lits[i] = t[i].lit
  <2>1. Len(kept) = m
    BY <1>1
  <2> HIDE DEF kept
  <2> QED
    BY <1>1, <2>1, LitsAre
<1> HIDE DEF kept, m, l, n, high, low, all, fixed, lits
<1>6. all = low \o high
  <2> DEFINE joined == low \o high
  <2>1. /\ joined \in Seq(Int) /\ Len(joined) = n - l
        /\ \A i \in 1 .. m - l : joined[i] = low[i]
        /\ \A i \in 1 .. n - m : joined[(m - l) + i] = high[i]
    <3>1. (m - l) + (n - m) = n - l
      BY <1>2
    <3> QED
      BY <1>2, <1>4, <3>1, ConcatIs
  <2>2. ASSUME NEW i \in 1 .. n - l PROVE joined[i] = all[i]
    <3>1. CASE i <= m - l
      <4>1. i \in 1 .. m - l /\ l + i \in 1 .. m
        BY <1>2, <1>3, <3>1
      <4>2. joined[i] = low[i] /\ low[i] = kept[l + i].lit
        BY <1>4, <2>1, <4>1
      <4> QED
        BY <1>1, <1>2, <4>1, <4>2
    <3>2. CASE ~ (i <= m - l)
      <4>1. i - (m - l) \in 1 .. n - m /\ (m - l) + (i - (m - l)) = i /\ m + (i - (m - l)) = l + i
        BY <1>2, <1>3, <3>2
      <4>2. joined[i] = high[i - (m - l)]
        BY <2>1, <4>1
      <4>3. high[i - (m - l)] = t[l + i].lit
        BY <1>2, <4>1
      <4> QED
        BY <1>2, <4>2, <4>3
    <3> QED
      BY <3>1, <3>2
  <2> HIDE DEF joined
  <2>3. joined = all
    BY <1>2, <2>1, <2>2
  <2> QED
    BY <2>3 DEF joined
<1>7. lits = fixed \o high
  <2> DEFINE joined == fixed \o high
  <2>1. /\ joined \in Seq(Int) /\ Len(joined) = n
        /\ \A i \in 1 .. m : joined[i] = fixed[i]
        /\ \A i \in 1 .. n - m : joined[m + i] = high[i]
    <3>1. m + (n - m) = n
      BY <1>2
    <3>2. /\ fixed \in Seq(Int) /\ high \in Seq(Int) /\ Len(fixed) = m /\ Len(high) = n - m
      BY <1>2, <1>5
    <3>3. /\ joined \in Seq(Int) /\ Len(joined) = Len(fixed) + Len(high)
          /\ \A i \in 1 .. Len(fixed) : joined[i] = fixed[i]
          /\ \A i \in 1 .. Len(high) : joined[Len(fixed) + i] = high[i]
      BY <3>2, ConcatIs
    <3> HIDE DEF joined
    <3> QED
      BY <3>1, <3>2, <3>3
  <2>2. ASSUME NEW i \in 1 .. n PROVE joined[i] = lits[i]
    <3>1. CASE i <= m
      <4>1. i \in 1 .. m
        BY <1>2, <3>1
      <4> QED
        BY <1>1, <1>5, <2>1, <4>1
    <3>2. CASE ~ (i <= m)
      <4>1. i - m \in 1 .. n - m /\ m + (i - m) = i
        BY <1>2, <3>2
      <4>2. joined[i] = high[i - m] /\ high[i - m] = t[i].lit
        BY <1>2, <2>1, <4>1
      <4> QED
        BY <1>5, <4>2
    <3> QED
      BY <3>1, <3>2
  <2> HIDE DEF joined
  <2>3. joined = lits
    BY <1>5, <2>1, <2>2
  <2> QED
    BY <2>3 DEF joined
<1> QED
  BY <1>6, <1>7 DEF kept, m, l, n, high, low, all, fixed, lits

\* Enqueueing adds a literal to the list, and to those above every lower
\* level.
LEMMA LitsOfAppend ==
  ASSUME NEW t, IsTrail(t), NEW e \in Entries, IsTrail(Append(t, e)), NEW k \in Int
  PROVE  /\ Lits(Append(t, e)) = Append(Lits(t), e.lit)
         /\ k < e.level => LitsAbove(Append(t, e), k) = Append(LitsAbove(t, k), e.lit)
         /\ k >= e.level => LitsAbove(Append(t, e), k) = << >>
<1> DEFINE longer == Append(t, e)
           lits == Lits(t)
           n == Len(t)
           m == TrailLim(t, k)
           above == LitsAbove(t, k)
<1>1. /\ IsTrail(longer) /\ Len(longer) = n + 1 /\ longer[n + 1] = e
      /\ n \in Nat /\ \A i \in 1 .. n : longer[i] = t[i]
      /\ e.lit \in Int
  <2>1. t \in Seq(Entries)
    BY DEF IsTrail
  <2>2. e.lit \in Int
    BY DEF Entries, Lit
  <2> QED
    BY <2>1, <2>2
<1> HIDE DEF longer
<1>2. /\ Lits(longer) \in Seq(Int) /\ Len(Lits(longer)) = n + 1
      /\ \A i \in 1 .. n + 1 : Lits(longer)[i] = longer[i].lit
      /\ lits \in Seq(Int) /\ Len(lits) = n /\ \A i \in 1 .. n : lits[i] = t[i].lit
  BY <1>1, LitsAre
<1>3. Lits(longer) = Append(lits, e.lit)
  <2> DEFINE a == Lits(longer)
             b == Append(lits, e.lit)
  <2>1. /\ b \in Seq(Int) /\ Len(b) = n + 1 /\ b[n + 1] = e.lit
        /\ \A i \in 1 .. n : b[i] = lits[i]
    BY <1>1, <1>2
  <2>2. \A i \in 1 .. n + 1 : a[i] = b[i]
    <3>1. \A i \in 1 .. n + 1 : i = n + 1 \/ i \in 1 .. n
      BY <1>1
    <3> QED
      BY <1>1, <1>2, <2>1, <3>1
  <2>3. a \in Seq(Int) /\ Len(a) = n + 1
    BY <1>2
  <2> HIDE DEF a, b
  <2>4. a = b
    BY <2>1, <2>2, <2>3
  <2> QED
    BY <2>4 DEF a, b
<1>4. /\ m \in 0 .. n
      /\ above \in Seq(Int) /\ Len(above) = n - m
      /\ TrailLim(longer, k) \in 0 .. n + 1
  BY <1>1, LitsAboveAre
<1>5. ASSUME k < e.level PROVE LitsAbove(longer, k) = Append(above, e.lit)
  <2>1. TrailLim(longer, k) = m
    <3>1. KeptUntil(longer, k) = KeptUntil(t, k)
      BY <1>5, KeptOfAppend DEF longer
    <3> QED
      BY <1>1, <3>1, KeptIs
  <2> DEFINE a == LitsAbove(longer, k)
             b == Append(above, e.lit)
  <2>2. /\ a \in Seq(Int) /\ Len(a) = (n - m) + 1
        /\ \A i \in 1 .. (n - m) + 1 : a[i] = longer[m + i].lit
    <3>1. (n + 1) - m = (n - m) + 1
      BY <1>1, <1>4
    <3> DEFINE lim == TrailLim(longer, k)
               len == Len(longer)
    <3>2. /\ a \in Seq(Int) /\ Len(a) = len - lim
          /\ \A i \in 1 .. len - lim : a[i] = longer[lim + i].lit
      BY <1>1, LitsAboveAre
    <3>3. lim = m /\ len = n + 1
      BY <1>1, <2>1
    <3> HIDE DEF a, lim, len, m, n
    <3> QED
      BY <3>1, <3>2, <3>3
  <2>3. /\ b \in Seq(Int) /\ Len(b) = (n - m) + 1 /\ b[(n - m) + 1] = e.lit
        /\ \A i \in 1 .. n - m : b[i] = above[i]
    BY <1>1, <1>4
  <2>4. \A i \in 1 .. n - m : above[i] = t[m + i].lit
    BY LitsAboveAre
  <2> HIDE DEF a, b, above, m, n
  <2>5. ASSUME NEW i \in 1 .. (n - m) + 1 PROVE a[i] = b[i]
    <3>1. CASE i = (n - m) + 1
      <4>1. m + i = n + 1
        BY <1>1, <1>4, <3>1
      <4> QED
        BY <1>1, <2>2, <2>3, <3>1, <4>1
    <3>2. CASE i # (n - m) + 1
      <4>1. i \in 1 .. n - m /\ m + i \in 1 .. n
        BY <1>1, <1>4, <3>2
      <4> QED
        BY <1>1, <2>2, <2>3, <2>4, <4>1
    <3> QED
      BY <3>1, <3>2
  <2>6. a = b
    BY <2>2, <2>3, <2>5
  <2> QED
    BY <2>6 DEF a, b
<1>6. ASSUME k >= e.level PROVE LitsAbove(longer, k) = << >>
  <2>1. TrailLim(longer, k) = n + 1
    <3>1. KeptUntil(longer, k) = longer
      BY <1>6, KeptOfAppend DEF longer
    <3> QED
      BY <1>1, <3>1, KeptIs
  <2>2. Len(LitsAbove(longer, k)) = 0 /\ LitsAbove(longer, k) \in Seq(Int)
    BY <1>1, <2>1, LitsAboveAre
  <2> QED
    BY <2>2
<1> QED
  BY <1>3, <1>5, <1>6 DEF longer

\* A cut above every level takes nothing.
LEMMA AllKept ==
  ASSUME NEW t, IsTrail(t), NEW k \in Int, \A i \in DOMAIN t : t[i].level <= k
  PROVE  KeptUntil(t, k) = t /\ LitsAbove(t, k) = << >>
<1> DEFINE kept == KeptUntil(t, k)
           high == LitsAbove(t, k)
<1>1. /\ \A i \in DOMAIN kept : kept[i] = t[i]
      /\ DOMAIN kept = {i \in DOMAIN t : t[i].level <= k}
      /\ Len(kept) = TrailLim(t, k) /\ IsTrail(kept)
  BY KeptIs
<1>2. Len(high) = Len(t) - TrailLim(t, k) /\ Len(t) \in Nat /\ high \in Seq(Int)
  BY LitsAboveAre
<1> HIDE DEF kept, high
<1>3. DOMAIN kept = DOMAIN t
  BY <1>1
<1>4. kept = t
  BY <1>1, <1>3 DEF IsTrail
<1>5. high = << >>
  BY <1>1, <1>2, <1>4
<1> QED
  BY <1>4, <1>5 DEF kept, high

\* The two parts of a trail as lists of literals.
LEMMA LitsTyped ==
  ASSUME NEW t, IsTrail(t), NEW k \in Int
  PROVE  /\ IsTrail(KeptUntil(t, k))
         /\ Lits(t) \in Seq(Int) /\ Lits(KeptUntil(t, k)) \in Seq(Int)
         /\ LitsAbove(t, k) \in Seq(Int)
         /\ Lits(t) = Lits(KeptUntil(t, k)) \o LitsAbove(t, k)
<1>1. IsTrail(KeptUntil(t, k))
  BY KeptIs
<1>2. Lits(t) \in Seq(Int) /\ Lits(KeptUntil(t, k)) \in Seq(Int)
  BY <1>1, LitsAre
<1>3. LitsAbove(t, k) \in Seq(Int)
  BY LitsAboveAre
<1>4. k <= k
  OBVIOUS
<1>5. Lits(t) = Lits(KeptUntil(t, k)) \o LitsAbove(t, k)
  BY <1>4, LitsSplit
<1> QED
  BY <1>1, <1>2, <1>3, <1>5

-----------------------------------------------------------------------------
\* One step of Among, and its run over a list.
NextKept(set, kept, lit) == IF lit \in set THEN Append(kept, lit) ELSE kept

Kept(set, lits) ==
  CHOOSE kept :
    kept = [n \in 0 .. Len(lits) |->
              IF n = 0 THEN << >>
              ELSE IF lits[n] \in set THEN Append(kept[n - 1], lits[n]) ELSE kept[n - 1]]

\* Among is the run of a recursion over the literals: the recursion exists,
\* by InductionFacts, so CHOOSE picks it.
LEMMA KeptDefined ==
  ASSUME NEW set, NEW lits \in Seq(Int)
  PROVE  /\ Among(set, lits) = Kept(set, lits)[Len(lits)]
         /\ Kept(set, lits)[0] = << >>
         /\ \A k \in 1 .. Len(lits) :
              Kept(set, lits)[k] = NextKept(set, Kept(set, lits)[k - 1], lits[k])
         /\ \A k \in 0 .. Len(lits) : Kept(set, lits)[k] \in Seq(Int)
<1> DEFINE n == Len(lits)
           S == Seq(Int)
           step == [p \in S \X (1 .. n) |-> NextKept(set, p[1], lits[p[2]])]
           s == Kept(set, lits)
<1>1. n \in Nat /\ \A i \in 1 .. n : lits[i] \in Int
  OBVIOUS
<1>2. << >> \in S
  OBVIOUS
<1>3. step \in [S \X (1 .. n) -> S]
  BY <1>1 DEF NextKept
<1>4. PICK g : IsRun(g, n, S, << >>, step)
  <2> HIDE DEF n, S, step
  <2> QED
    BY <1>1, <1>2, <1>3, Recursion
<1>5. /\ g \in [0 .. n -> S] /\ g[0] = << >>
      /\ \A k \in 1 .. n : g[k] = NextKept(set, g[k - 1], lits[k])
  <2>1. \A k \in 1 .. n : g[k] = NextKept(set, g[k - 1], lits[k])
    <3> TAKE k \in 1 .. n
    <3>1. g[k - 1] \in S
      BY <1>1, <1>4 DEF IsRun
    <3>2. step[<<g[k - 1], k>>] = NextKept(set, g[k - 1], lits[k])
      BY <3>1
    <3> HIDE DEF n, S, step
    <3> QED
      BY <1>4, <3>2 DEF IsRun
  <2> HIDE DEF n, S, step
  <2> QED
    BY <1>4, <2>1 DEF IsRun
<1>6. g = [k \in 0 .. n |->
             IF k = 0 THEN << >>
             ELSE IF lits[k] \in set THEN Append(g[k - 1], lits[k]) ELSE g[k - 1]]
  <2> HIDE DEF n, S, step
  <2>1. \A k \in 0 .. n : k # 0 => k \in 1 .. n
    BY <1>1
  <2> QED
    BY <1>5, <2>1 DEF NextKept
<1>7. s = [k \in 0 .. n |->
             IF k = 0 THEN << >>
             ELSE IF lits[k] \in set THEN Append(s[k - 1], lits[k]) ELSE s[k - 1]]
  BY <1>6 DEF Kept
<1>8. Among(set, lits) = s[n]
  BY DEF Among, Kept
<1> HIDE DEF s, n
<1>9. s[0] = << >>
  BY <1>1, <1>7
<1>10. ASSUME NEW k \in 1 .. n PROVE s[k] = NextKept(set, s[k - 1], lits[k])
  <2>1. k \in 0 .. n /\ k # 0
    BY <1>1
  <2> QED
    BY <1>7, <2>1 DEF NextKept
<1>11. \A k \in 0 .. n : s[k] \in Seq(Int)
  <2> DEFINE T == {k \in 0 .. n : s[k] \in Seq(Int)}
  <2>1. 0 \in T
    <3>1. s[0] \in Seq(Int) /\ 0 \in 0 .. n
      BY <1>1, <1>2, <1>9
    <3> QED
      BY <3>1
  <2>2. \A k \in 0 .. n - 1 : k \in T => k + 1 \in T
    <3> SUFFICES ASSUME NEW k \in 0 .. n - 1, s[k] \in Seq(Int) PROVE s[k + 1] \in Seq(Int)
      BY <1>1
    <3>1. k + 1 \in 1 .. n /\ (k + 1) - 1 = k
      BY <1>1
    <3>2. s[k + 1] = NextKept(set, s[k], lits[k + 1])
      BY <1>10, <3>1
    <3> QED
      BY <1>1, <3>1, <3>2 DEF NextKept
  <2> HIDE DEF T
  <2>3. \A k \in 0 .. n : k \in T
    BY <1>1, <2>1, <2>2, BoundedInduction
  <2> QED
    BY <2>3 DEF T
<1> QED
  BY <1>8, <1>9, <1>10, <1>11 DEF s, n

\* Among returns a sequence of literals.
LEMMA AmongType ==
  ASSUME NEW set, NEW lits \in Seq(Int)
  PROVE  Among(set, lits) \in Seq(Int)
BY KeptDefined

\* Runs over lists that begin alike agree as far as they do.
LEMMA KeptAgree ==
  ASSUME NEW set, NEW s \in Seq(Int), NEW t \in Seq(Int), NEW n \in Nat,
         n <= Len(s), n <= Len(t), \A i \in 1 .. n : s[i] = t[i]
  PROVE  Kept(set, s)[n] = Kept(set, t)[n]
<1> DEFINE T == {k \in 0 .. n : Kept(set, s)[k] = Kept(set, t)[k]}
<1>1. 0 \in T
  BY KeptDefined
<1>2. \A k \in 0 .. n - 1 : k \in T => k + 1 \in T
  <2> SUFFICES ASSUME NEW k \in 0 .. n - 1, Kept(set, s)[k] = Kept(set, t)[k]
               PROVE  Kept(set, s)[k + 1] = Kept(set, t)[k + 1]
    OBVIOUS
  <2>1. /\ k + 1 \in 1 .. n /\ (k + 1) - 1 = k
        /\ k + 1 \in 1 .. Len(s) /\ k + 1 \in 1 .. Len(t)
    OBVIOUS
  <2>2. Kept(set, s)[k + 1] = NextKept(set, Kept(set, s)[k], s[k + 1])
    BY <2>1, KeptDefined
  <2>3. Kept(set, t)[k + 1] = NextKept(set, Kept(set, t)[k], t[k + 1])
    BY <2>1, KeptDefined
  <2> QED
    BY <2>1, <2>2, <2>3
<1> HIDE DEF T
<1>3. \A k \in 0 .. n : k \in T
  BY <1>1, <1>2, BoundedInduction
<1> QED
  BY <1>3 DEF T

\* A literal pushed is added at the end, or not at all when it is not of the
\* set (minisat_trail_push_cb).
LEMMA AmongAppend ==
  ASSUME NEW set, NEW s \in Seq(Int), NEW x \in Int
  PROVE  Among(set, Append(s, x)) =
           IF x \in set THEN Append(Among(set, s), x) ELSE Among(set, s)
<1> DEFINE t == Append(s, x)
<1>1. /\ t \in Seq(Int) /\ Len(s) \in Nat /\ Len(t) = Len(s) + 1 /\ t[Len(t)] = x
      /\ \A i \in 1 .. Len(s) : s[i] = t[i]
      /\ Len(s) <= Len(s) /\ Len(s) <= Len(t) /\ Len(t) \in 1 .. Len(t) /\ Len(t) - 1 = Len(s)
  OBVIOUS
<1> HIDE DEF t
<1>2. Kept(set, s)[Len(s)] = Kept(set, t)[Len(s)]
  BY <1>1, KeptAgree
<1>3. Kept(set, t)[Len(t)] = NextKept(set, Kept(set, t)[Len(s)], x)
  BY <1>1, KeptDefined
<1>4. Among(set, s) = Kept(set, s)[Len(s)] /\ Among(set, t) = Kept(set, t)[Len(t)]
  BY <1>1, KeptDefined
<1> QED
  BY <1>2, <1>3, <1>4 DEF NextKept, t

\* What a theory keeps of a trail cut in two is what it keeps of the parts, in
\* order.
LEMMA AmongConcat ==
  ASSUME NEW set, NEW s \in Seq(Int), NEW t \in Seq(Int)
  PROVE  Among(set, s \o t) = Among(set, s) \o Among(set, t)
<1> DEFINE n == Len(t)
           P(k) == Among(set, s \o SubSeq(t, 1, k))
                     = Among(set, s) \o Among(set, SubSeq(t, 1, k))
           T == {k \in 0 .. n : P(k)}
<1>1. n \in Nat
  OBVIOUS
<1>2. 0 \in T
  <2>1. SubSeq(t, 1, 0) = << >> /\ s \o << >> = s /\ << >> \in Seq(Int)
    OBVIOUS
  <2>2. Among(set, << >>) = << >>
    BY <2>1, KeptDefined
  <2>3. Among(set, s) \o << >> = Among(set, s)
    BY AmongType
  <2>4. P(0)
    BY <2>1, <2>2, <2>3
  <2> HIDE DEF P
  <2> QED
    BY <1>1, <2>4
<1>3. \A k \in 0 .. n - 1 : k \in T => k + 1 \in T
  <2> HIDE DEF P
  <2> SUFFICES ASSUME NEW k \in 0 .. n - 1, P(k) PROVE P(k + 1)
    BY <1>1
  <2> USE DEF P
  <2> DEFINE u == SubSeq(t, 1, k)
             x == t[k + 1]
             p == Among(set, s)
             q == Among(set, u)
  <2>1. /\ SubSeq(t, 1, k + 1) = Append(u, x) /\ u \in Seq(Int) /\ x \in Int
        /\ s \o u \in Seq(Int)
    BY <1>1
  <2>2. s \o Append(u, x) = Append(s \o u, x)
    BY <2>1
  <2>3. p \in Seq(Int) /\ q \in Seq(Int)
    BY <2>1, AmongType
  <2> HIDE DEF u, x, p, q, P
  <2>4. p \o Append(q, x) = Append(p \o q, x)
    BY <2>1, <2>3, AppendConcat
  <2>5. Among(set, Append(u, x)) = IF x \in set THEN Append(q, x) ELSE q
    BY <2>1, AmongAppend DEF q
  <2>6. Among(set, Append(s \o u, x))
          = IF x \in set THEN Append(p \o q, x) ELSE p \o q
    <3>1. Among(set, s \o u) = p \o q
      BY DEF p, q, u, P
    <3> QED
      BY <2>1, <3>1, AmongAppend
  <2>7. Among(set, s \o Append(u, x)) = p \o Among(set, Append(u, x))
    BY <2>2, <2>4, <2>5, <2>6
  <2> QED
    BY <2>1, <2>7 DEF p, P
<1>4. n \in T
  <2> HIDE DEF T, n
  <2>1. \A k \in 0 .. n : k \in T
    BY <1>1, <1>2, <1>3, BoundedInduction
  <2> QED
    BY <1>1, <2>1
<1>5. SubSeq(t, 1, n) = t
  OBVIOUS
<1> QED
  BY <1>4, <1>5

\* What Among keeps: the literals of the set.
LEMMA AmongSet ==
  ASSUME NEW set, NEW s \in Seq(Int)
  PROVE  ToSet(Among(set, s)) = {x \in set : x \in ToSet(s)}
<1> DEFINE n == Len(s)
           kept == Kept(set, s)
           P(k) == ToSet(kept[k]) = {x \in set : \E i \in 1 .. k : s[i] = x}
           T == {k \in 0 .. n : P(k)}
<1>1. n \in Nat /\ \A i \in 1 .. n : s[i] \in Int
  OBVIOUS
<1>2. /\ kept[0] = << >>
      /\ \A k \in 1 .. n : kept[k] = NextKept(set, kept[k - 1], s[k])
      /\ \A k \in 0 .. n : kept[k] \in Seq(Int)
      /\ Among(set, s) = kept[n]
  BY KeptDefined
<1> HIDE DEF kept, n
<1>3. 0 \in T
  <2>1. ToSet(<< >>) = {}
    BY DEF ToSet
  <2> QED
    BY <1>1, <1>2, <2>1
<1>4. \A k \in 0 .. n - 1 : k \in T => k + 1 \in T
  <2> HIDE DEF P
  <2> SUFFICES ASSUME NEW k \in 0 .. n - 1, P(k) PROVE P(k + 1)
    BY <1>1
  <2> USE DEF P
  <2>1. /\ k + 1 \in 1 .. n /\ (k + 1) - 1 = k /\ k \in 0 .. n
        /\ \A i \in 1 .. k + 1 : i = k + 1 \/ i \in 1 .. k
        /\ \A i \in 1 .. k : i \in 1 .. k + 1
        /\ k + 1 \in 1 .. k + 1
    BY <1>1
  <2>2. kept[k + 1] = NextKept(set, kept[k], s[k + 1])
    BY <1>2, <2>1
  <2>3. ToSet(Append(kept[k], s[k + 1])) = ToSet(kept[k]) \union {s[k + 1]}
    BY <1>1, <1>2, <2>1, SetOfAppend
  <2>4. CASE s[k + 1] \in set
    BY <2>1, <2>2, <2>3, <2>4 DEF NextKept
  <2>5. CASE s[k + 1] \notin set
    BY <2>1, <2>2, <2>5 DEF NextKept
  <2> QED
    BY <2>4, <2>5
<1>5. n \in T
  <2> HIDE DEF T
  <2>1. \A k \in 0 .. n : k \in T
    BY <1>1, <1>3, <1>4, BoundedInduction
  <2> QED
    BY <1>1, <2>1
<1>6. ToSet(s) = {s[i] : i \in 1 .. n}
  BY DEF ToSet, n
<1> QED
  BY <1>2, <1>5, <1>6

\* Of a trail that assigns every variable once, no literal is kept twice.
LEMMA AmongDistinct ==
  ASSUME NEW set, NEW s \in Seq(Int), \A i, j \in 1 .. Len(s) : s[i] = s[j] => i = j
  PROVE  Distinct(Among(set, s))
<1> DEFINE n == Len(s)
           kept == Kept(set, s)
           P(k) == Distinct(kept[k]) /\ ToSet(kept[k]) \subseteq {s[i] : i \in 1 .. k}
           T == {k \in 0 .. n : P(k)}
<1>1. n \in Nat /\ \A i \in 1 .. n : s[i] \in Int
  OBVIOUS
<1>2. /\ kept[0] = << >>
      /\ \A k \in 1 .. n : kept[k] = NextKept(set, kept[k - 1], s[k])
      /\ \A k \in 0 .. n : kept[k] \in Seq(Int)
      /\ Among(set, s) = kept[n]
  BY KeptDefined
<1>3. \A i, j \in 1 .. n : s[i] = s[j] => i = j
  OBVIOUS
<1> HIDE DEF kept, n
<1>4. 0 \in T
  <2>1. ToSet(<< >>) = {} /\ Len(<< >>) = 0
    BY DEF ToSet
  <2>2. IsFiniteSet({}) /\ Cardinality({}) = 0
    BY FS_EmptySet
  <2>3. Distinct(kept[0])
    BY <1>2, <2>1, <2>2 DEF Distinct
  <2> QED
    BY <1>1, <1>2, <2>1, <2>3
<1>5. \A k \in 0 .. n - 1 : k \in T => k + 1 \in T
  <2> HIDE DEF P
  <2> SUFFICES ASSUME NEW k \in 0 .. n - 1, P(k) PROVE P(k + 1)
    BY <1>1
  <2> USE DEF P
  <2>1. /\ k + 1 \in 1 .. n /\ (k + 1) - 1 = k /\ k \in 0 .. n
        /\ \A i \in 1 .. k : i \in 1 .. k + 1 /\ i \in 1 .. n /\ i # k + 1
        /\ k + 1 \in 1 .. k + 1
    BY <1>1
  <2>2. kept[k + 1] = NextKept(set, kept[k], s[k + 1])
    BY <1>2, <2>1
  <2>3. ToSet(Append(kept[k], s[k + 1])) = ToSet(kept[k]) \union {s[k + 1]}
    BY <1>1, <1>2, <2>1, SetOfAppend
  <2>4. s[k + 1] \notin ToSet(kept[k])
    BY <1>3, <2>1
  <2>5. Distinct(Append(kept[k], s[k + 1]))
    BY <1>1, <1>2, <2>1, <2>4, DistinctAppend
  <2> QED
    BY <2>1, <2>2, <2>3, <2>5 DEF NextKept
<1>6. n \in T
  <2> HIDE DEF T
  <2>1. \A k \in 0 .. n : k \in T
    BY <1>1, <1>4, <1>5, BoundedInduction
  <2> QED
    BY <1>1, <2>1
<1> QED
  BY <1>2, <1>6

\* Of no literals, none are kept.
LEMMA AmongEmpty ==
  ASSUME NEW set
  PROVE  Among(set, << >>) = << >>
<1> DEFINE none == << >>
<1>1. none \in Seq(Int) /\ Len(none) = 0
  OBVIOUS
<1> HIDE DEF none
<1>2. Among(set, none) = Kept(set, none)[Len(none)] /\ Kept(set, none)[0] = << >>
  BY <1>1, KeptDefined
<1> QED
  BY <1>1, <1>2 DEF none
=============================================================================
