--------------------------- MODULE CbMinisatProofs ---------------------------
(***************************************************************************)
(* One run of cb_minisat under SATTSP, proved: the inductive invariant of  *)
(* CbMinisat, and the properties that its runs check on small formulas, for*)
(* every formula, every family of sets of vertices that fit (closed under  *)
(* subsets), every interval of the checks and every order of decisions.    *)
(*                                                                         *)
(* The clause that analyze learns and the vertices of a trail are the      *)
(* subjects of SolverTrailProofs.  Here they meet:                         *)
(* IInv relates the trail, the theory and the clauses, and there is one    *)
(* lemma for each of its parts (TheoryStep, VerdictStep, SoundStep...) with*)
(* a case for each action.                                                 *)
(***************************************************************************)
EXTENDS CbMinisat, SolverTrailProofs

-----------------------------------------------------------------------------
(***************************************************************************)
(* The inductive invariant.                                                *)
(***************************************************************************)
\* What the code may be doing.
Phases == {"parse", "parsed unit", "replay", "propagate", "conflict", "decide", "returned"}

\* The types of the variables.
TypeOK ==
  /\ setup \in Setups
  /\ pc \in Phases
  /\ next \in Nat \ {0} /\ ok \in BOOLEAN
  /\ clauses \subseteq SUBSET Literals
  /\ lemmas \subseteq SUBSET Literals
  /\ learnts \subseteq SUBSET Literals
  /\ trail \in Seq([lit : Literals, level : Nat, reason : SUBSET Literals])
  /\ theory \in [vids : Seq(setup.vids), conflict : BOOLEAN, checked : BOOLEAN]
  /\ confl \subseteq Literals
  /\ conflicts \in Nat
  /\ result \in {"none", "True", "False", "Undef"}
  /\ model \subseteq Variables

\* The phases before the replay, and before the search.
Parsing == pc \in {"parse", "parsed unit"}
Early == Parsing \/ pc = "replay"

\* The trail is one, and before the search it has level 0 only.
TrailOK ==
  /\ IsTrail(trail)
  /\ Early => \A i \in DOMAIN trail : trail[i].level = 0

\* A clause that is neither unit nor falsified.
Settles(t, c) == Satisfied(t, c) \/ Several({lit \in c : ~ Assigned(t, lit)})

\* No clause watched was unit or falsified when a level was left.
Settled(t) == \A c \in Watched : Settles(t, c)

Propagated ==
  /\ \A c \in Watched : Several(c)
  /\ pc # "returned" => \A k \in 0 .. Level - 1 : Settled(KeptUntil(trail, k))
  /\ pc = "decide" => Exhausted

\* soln_vids: the vertices of level 0 in any order, the others in the order
\* of the trail.
Mirrors(t, vids) ==
  LET fixed == Among(setup.vids, Lits(KeptUntil(t, 0)))
  IN \E first \in Seq(setup.vids) :
       /\ vids = first \o Among(setup.vids, LitsAbove(t, 0))
       /\ Len(first) = Len(fixed)
       /\ ToSet(first) = ToSet(fixed)

Mirror ==
  /\ Parsing => theory.vids = << >>
  /\ pc = "replay" => /\ Distinct(theory.vids)
                      /\ ToSet(theory.vids) = {v \in setup.vids : v < next /\ IsTrue(trail, v)}
  /\ Searching => Mirrors(trail, theory.vids)

\* The vertices among the true literals.
VidsOf(t) == {v \in setup.vids : IsTrue(t, v)}

\* A verdict is reported before the search goes on, and is about a vertex of
\* the current level.
Verdict ==
  /\ Parsing \/ pc = "decide" => ~ theory.conflict
  /\ pc \in {"replay", "propagate"} /\ theory.conflict => ~ theory.checked
  /\ theory.conflict => theory.vids # << >>
  /\ Searching /\ theory.conflict /\ Level > 0 =>
       \E i \in DOMAIN trail : trail[i].level = Level /\ trail[i].lit \in setup.vids
  /\ ~ setup.heuristic /\ theory.conflict => ToSet(theory.vids) \notin setup.fitting
  /\ setup.interval = 1 =>
       /\ pc # "returned" /\ ~ theory.conflict => ToSet(theory.vids) \in setup.fitting
       /\ Searching /\ Level > 0 => VidsOf(KeptUntil(trail, Level - 1)) \in setup.fitting

\* What the formula says is kept.
FormulaKept ==
  /\ Searching => ok
  /\ ok /\ pc # "returned" =>
       \A i \in DOMAIN setup.formula :
         \/ Parsing /\ i >= next
         \/ Tautology(setup.formula[i])
         \/ Satisfied(KeptUntil(trail, 0), setup.formula[i])
         \/ \E d \in clauses : d \subseteq setup.formula[i]

\* Everything kept follows from the formula and the budgets.
Sound ==
  ~ setup.heuristic =>
    \A true \in Solutions :
      /\ Respects(true, trail)
      /\ IsModel(true, clauses \union lemmas \union learnts)
      /\ pc = "conflict" => IsModel(true, {confl})
      /\ ok /\ result # "False"

\* The inductive invariant.
IInv == /\ TypeOK /\ TrailOK /\ Propagated /\ Mirror /\ Verdict /\ FormulaKept /\ Sound
        /\ ConflictIsCurrent /\ TrueIsModel

-----------------------------------------------------------------------------
(* What the assumption on setups says of the current one.                   *)

\* What SetupsAssumption says of the run at hand.
LEMMA SetupIs ==
  ASSUME TypeOK
  PROVE  /\ setup.numVars \in Nat
         /\ setup.interval \in Nat \ {0} /\ setup.heuristic \in BOOLEAN
         /\ Literals \subseteq Lit /\ Variables \subseteq Literals
         /\ \A x \in Literals : - x \in Literals
         /\ setup.vids \subseteq Variables /\ setup.vids \subseteq Nat \ {0}
         /\ setup.vids \subseteq Literals
         /\ {} \in setup.fitting
         /\ \A v \in setup.vids : {v} \in setup.fitting
         /\ \A fit \in setup.fitting : fit \subseteq setup.vids /\ SUBSET fit \subseteq setup.fitting
         /\ setup.formula \in Seq(SUBSET Literals)
<1>1. /\ IsQuery(setup) /\ setup.numVars \in Nat /\ setup.vids \subseteq 1 .. setup.numVars
      /\ setup.formula \in Seq(SUBSET LiteralsOf(setup))
  BY SetupsAssumption DEF TypeOK
<1>2. Literals = 1 .. setup.numVars \union {- v : v \in 1 .. setup.numVars}
  BY DEF Literals, LiteralsOf
<1>3. /\ Literals \subseteq Lit /\ \A x \in Literals : - x \in Literals
      /\ Variables \subseteq Literals
  BY <1>1, <1>2 DEF Lit, Variables
<1> QED
  BY <1>1, <1>3 DEF IsQuery, Literals, Variables

\* The states of the theory in this run.
Theories == [vids : Seq(setup.vids), conflict : BOOLEAN, checked : BOOLEAN]

\* What the push callback does: nothing for a literal that is no vertex, else
\* the vertex joins soln_vids and, where TSP::solve is asked, the verdict is
\* new and about these vertices.
LEMMA PushIs ==
  ASSUME TypeOK, NEW th \in Theories, NEW lit \in Literals,
         NEW pushed \in Push(setup, th, lit)
  PROVE  /\ pushed \in Theories
         /\ lit \notin setup.vids => pushed = th
         /\ lit \in setup.vids =>
              /\ pushed.vids = Append(th.vids, lit)
              /\ pushed.vids \in Seq(setup.vids)
              /\ \/ /\ setup.interval # 1
                    /\ pushed.conflict = th.conflict /\ pushed.checked = th.checked
                 \/ /\ pushed.checked = FALSE
                    /\ ~ pushed.conflict => ToSet(pushed.vids) \in setup.fitting
                    /\ pushed.conflict /\ ~ setup.heuristic =>
                         ToSet(pushed.vids) \notin setup.fitting
<1>1. CASE lit \notin setup.vids
  BY <1>1 DEF Push, IsVid
<1>2. CASE lit \in setup.vids
  <2> DEFINE grown == Append(th.vids, lit)
  <2>1. grown \in Seq(setup.vids)
    BY <1>2 DEF Theories
  <2> HIDE DEF grown
  <2>2. CASE Len(grown) % setup.interval # 0
    <3>1. pushed = [th EXCEPT !.vids = grown]
      BY <1>2, <2>2 DEF Push, IsVid, grown
    <3>2. setup.interval # 1
      BY <2>1, <2>2
    <3> QED
      BY <1>2, <2>1, <3>1, <3>2 DEF Theories, grown
  <2>3. CASE ~ (Len(grown) % setup.interval # 0)
    <3>1. PICK answer \in Answers(setup, grown) :
            pushed = [vids |-> grown, conflict |-> ~ answer, checked |-> FALSE]
      BY <1>2, <2>3 DEF Push, IsVid, grown
    <3>2. /\ answer \in BOOLEAN
          /\ answer => ToSet(grown) \in setup.fitting
          /\ ~ answer /\ ~ setup.heuristic => ToSet(grown) \notin setup.fitting
      BY SetupIs DEF Answers
    <3> QED
      BY <1>2, <2>1, <3>1, <3>2 DEF Theories, grown
  <2> QED
    BY <2>2, <2>3
<1> QED
  BY <1>1, <1>2

\* Cutting a trail keeps the types of its entries.
LEMMA KeptTypes ==
  ASSUME NEW S, NEW t \in Seq(S), IsTrail(t), NEW k \in Int
  PROVE  KeptUntil(t, k) \in Seq(S) /\ LitsAbove(t, k) \in Seq(Int) /\ Lits(t) \in Seq(Int)
<1>1. TrailLim(t, k) \in 0 .. Len(t) /\ Len(t) \in Nat
  BY TrailLimIs
<1>2. KeptUntil(t, k) \in Seq(S)
  BY <1>1 DEF KeptUntil
<1>3. Lits(t) \in Seq(Int) /\ Len(Lits(t)) = Len(t)
  BY TrailTypes DEF Lits
<1>4. LitsAbove(t, k) \in Seq(Int)
  <2> DEFINE l == Lits(t)
  <2>1. l \in Seq(Int) /\ Len(l) = Len(t)
    BY <1>3
  <2> HIDE DEF l
  <2>2. SubSeq(l, TrailLim(t, k) + 1, Len(t)) \in Seq(Int)
    BY <1>1, <2>1
  <2> QED
    BY <2>2 DEF LitsAbove, l
<1> QED
  BY <1>2, <1>3, <1>4

\* What the shrink callback does when soln_vids is long enough: as many
\* vertices go as the literals taken off have, and a verdict survives only if
\* none goes.
LEMMA ShrinkIs ==
  ASSUME TypeOK, NEW lits \in Seq(Int),
         Len(Among(setup.vids, lits)) <= Len(theory.vids)
  PROVE  LET th == Shrink(setup, theory, lits)
             popped == Len(Among(setup.vids, lits))
         IN /\ th \in Theories
            /\ th.vids = SubSeq(theory.vids, 1, Len(theory.vids) - popped)
            /\ th.checked = theory.checked
            /\ th.conflict <=> theory.conflict /\ popped = 0
            /\ popped = 0 => th.vids = theory.vids
<1> DEFINE popped == Len(Among(setup.vids, lits))
           vids == theory.vids
           cut == SubSeq(vids, 1, Len(vids) - popped)
<1>1. theory \in Theories /\ vids \in Seq(setup.vids) /\ Len(vids) \in Nat
  BY DEF TypeOK, Theories
<1>2. popped \in Nat /\ popped <= Len(vids)
  BY AmongType
<1> HIDE DEF popped, vids
<1>3. cut \in Seq(setup.vids) /\ (popped = 0 => cut = vids)
  <2>1. Len(vids) - popped \in 0 .. Len(vids)
    BY <1>1, <1>2
  <2>2. /\ SubSeq(vids, 1, Len(vids) - popped) \in Seq(setup.vids)
        /\ SubSeq(vids, 1, Len(vids)) = vids
    BY <1>1, <2>1, PrefixIs
  <2>4. popped = 0 => Len(vids) - popped = Len(vids)
    BY <1>1
  <2> QED
    BY <2>2, <2>4
<1>4. Shrink(setup, theory, lits)
        = [theory EXCEPT !.vids = cut, !.conflict = theory.conflict /\ popped = 0]
  BY DEF Shrink, popped, vids
<1> HIDE DEF cut
<1>5. theory.conflict \in BOOLEAN /\ (theory.conflict /\ popped = 0) \in BOOLEAN
  BY <1>1 DEF Theories
<1> QED
  BY <1>1, <1>3, <1>4, <1>5 DEF Theories, cut, popped, vids

-----------------------------------------------------------------------------
(* How the trail grows and shrinks.                                         *)

\* The entries and the trails of this run.
EntriesOf == [lit : Literals, level : Nat, reason : SUBSET Literals]
TypedTrail(t) == IsTrail(t) /\ t \in Seq(EntriesOf)

\* What uncheckedEnqueue is given.
Enqueues(t, lit, level, reason) ==
  /\ lit \in Literals /\ ~ Assigned(t, lit)
  /\ level \in Nat /\ \A i \in DOMAIN t : t[i].level <= level
  /\ reason \in SUBSET Literals
  /\ reason # {} => lit \in reason /\ Falsified(t, reason \ {lit})
  /\ level > 0 /\ (\E i \in DOMAIN t : t[i].level = level) => reason # {}

\* A trail cut back is a trail with the types of this run.
LEMMA KeptTyped ==
  ASSUME NEW t, TypedTrail(t), NEW k \in Int
  PROVE  TypedTrail(KeptUntil(t, k))
BY KeptIs, KeptTypes DEF TypedTrail

\* What enqueueing a literal does to a trail: its level, its values, and what
\* cutting it gives.
LEMMA EnqueueIs ==
  ASSUME TypeOK, NEW t, TypedTrail(t), NEW lit, NEW level, NEW reason,
         Enqueues(t, lit, level, reason)
  PROVE  LET longer == Append(t, Entry(lit, level, reason))
         IN /\ TypedTrail(longer)
            /\ Entry(lit, level, reason) \in Entries
            /\ Entry(lit, level, reason).lit = lit
            /\ Entry(lit, level, reason).level = level
            /\ DecisionLevel(longer) = level
            /\ \A k \in Int : /\ k < level => KeptUntil(longer, k) = KeptUntil(t, k)
                              /\ k >= level => KeptUntil(longer, k) = longer
            /\ \A y \in Int : /\ IsTrue(longer, y) <=> IsTrue(t, y) \/ y = lit
                              /\ IsFalse(longer, y) <=> IsFalse(t, y) \/ y = - lit
<1> DEFINE e == Entry(lit, level, reason)
           longer == Append(t, e)
<1>1. lit \in Lit /\ reason \in SUBSET Lit /\ level \in Nat /\ lit \in Int
  BY SetupIs DEF Enqueues, Lit
<1>2. /\ e \in Entries /\ e.lit = lit /\ e.level = level /\ e \in EntriesOf
  BY <1>1, EntryFields DEF Enqueues, EntriesOf, Entry
<1>3. IsTrail(longer)
  BY <1>1, AppendIsTrail DEF Enqueues, TypedTrail
<1> HIDE DEF e
<1>4. TypedTrail(longer)
  BY <1>2, <1>3 DEF TypedTrail
<1>5. DecisionLevel(longer) = level
  BY <1>2, AppendIs DEF TypedTrail
<1>6. \A k \in Int : /\ k < level => KeptUntil(longer, k) = KeptUntil(t, k)
                     /\ k >= level => KeptUntil(longer, k) = longer
  BY <1>2, <1>3, KeptOfAppend DEF TypedTrail
<1>7. \A y \in Int : /\ IsTrue(longer, y) <=> IsTrue(t, y) \/ y = lit
                     /\ IsFalse(longer, y) <=> IsFalse(t, y) \/ y = - lit
  <2> SUFFICES ASSUME NEW y \in Int
               PROVE  /\ IsTrue(longer, y) <=> IsTrue(t, y) \/ y = lit
                      /\ IsFalse(longer, y) <=> IsFalse(t, y) \/ y = - lit
    OBVIOUS
  <2>1. lit = - y <=> y = - lit
    BY <1>1
  <2> QED
    BY <1>2, <2>1, AppendValues DEF TypedTrail
<1> QED
  BY <1>2, <1>4, <1>5, <1>6, <1>7 DEF e

\* The types of the trail in a state of the invariant; before the search its
\* level is 0.
LEMMA TrailIsTyped ==
  ASSUME TypeOK, TrailOK
  PROVE  /\ TypedTrail(trail) /\ Level \in Nat
         /\ \A i \in DOMAIN trail : /\ trail[i] \in EntriesOf
                                    /\ trail[i].lit \in Literals
                                    /\ trail[i].level \in Nat /\ trail[i].level <= Level
         /\ Early => Level = 0
<1>1. TypedTrail(trail)
  BY DEF TypeOK, TrailOK, TypedTrail, EntriesOf
<1>2. Level \in Nat /\ \A i \in DOMAIN trail : trail[i].level <= Level
  BY <1>1, DecisionLevelIs DEF TypedTrail, Level
<1>3. /\ \A i \in DOMAIN trail : trail[i] \in EntriesOf
      /\ DOMAIN trail = 1 .. Len(trail) /\ Len(trail) \in Nat
  BY <1>1 DEF TypedTrail
<1>4. ASSUME Early PROVE Level = 0
  <2>1. CASE trail = << >>
    BY <2>1 DEF Level, DecisionLevel
  <2>2. CASE trail # << >>
    <3>1. Len(trail) \in DOMAIN trail
      BY <1>1, <1>3, <2>2 DEF TypedTrail
    <3> QED
      BY <1>4, <2>2, <3>1 DEF Level, DecisionLevel, Last, TrailOK
  <2> QED
    BY <2>1, <2>2
<1> QED
  BY <1>1, <1>2, <1>3, <1>4 DEF EntriesOf

\* A literal of a falsified clause is the opposite of one on the trail.
LEMMA FalseIsLiteral ==
  ASSUME TypeOK, TrailOK, NEW x \in Int, IsFalse(trail, x)
  PROVE  x \in Literals
<1>1. PICK i \in DOMAIN trail : trail[i].lit = - x
  BY DEF IsFalse, IsTrue
<1> DEFINE y == - x
<1>2. y \in Literals /\ - y = x
  BY <1>1, TrailIsTyped
<1> HIDE DEF y
<1>3. - y \in Literals
  BY <1>2, SetupIs
<1> QED
  BY <1>2, <1>3

-----------------------------------------------------------------------------
(* The theory's vertices and the trail.                                     *)

\* A mirror of the trail has the vertices of its true literals.
LEMMA MirrorSet ==
  ASSUME TypeOK, NEW t, TypedTrail(t), NEW vids, Mirrors(t, vids)
  PROVE  ToSet(vids) = VidsOf(t) /\ vids \in Seq(setup.vids)
<1> DEFINE low == Lits(KeptUntil(t, 0))
           high == LitsAbove(t, 0)
           fixed == Among(setup.vids, low)
           rest == Among(setup.vids, high)
<1>1. PICK first \in Seq(setup.vids) : vids = first \o rest /\ ToSet(first) = ToSet(fixed)
  BY DEF Mirrors
<1>2. /\ low \in Seq(Int) /\ high \in Seq(Int) /\ Lits(t) \in Seq(Int)
      /\ Lits(t) = low \o high
  <2>1. 0 \in Int /\ IsTrail(t)
    BY DEF TypedTrail
  <2> QED
    BY <2>1, LitsTyped
<1>3. first \in Seq(Int) /\ setup.vids \subseteq Int
  <2>1. setup.vids \subseteq Int
    BY SetupIs
  <2> QED
    BY <1>1, <2>1
<1> HIDE DEF low, high
<1>4. /\ fixed \in Seq(Int) /\ rest \in Seq(Int)
      /\ ToSet(fixed) = {x \in setup.vids : x \in ToSet(low)}
      /\ ToSet(rest) = {x \in setup.vids : x \in ToSet(high)}
  BY <1>2, AmongType, AmongSet
<1> HIDE DEF fixed, rest
<1>5. ToSet(vids) = ToSet(first) \union ToSet(rest)
  BY <1>1, <1>3, <1>4, SetOfConcat
<1>6. ToSet(Lits(t)) = ToSet(low) \union ToSet(high)
  BY <1>2, SetOfConcat
<1>7. \A x : x \in ToSet(Lits(t)) <=> IsTrue(t, x)
  BY DEF Lits, ToSet, IsTrue
<1>8. ToSet(vids) = VidsOf(t)
  BY <1>1, <1>4, <1>5, <1>6, <1>7 DEF VidsOf
<1>9. rest \in Seq(setup.vids)
  <2>1. ToSet(rest) \subseteq setup.vids
    BY <1>4
  <2> QED
    BY <1>4, <2>1, SeqOfSet
<1> QED
  BY <1>1, <1>8, <1>9

\* Enqueueing a literal and pushing it to the theory keeps the mirror.
LEMMA MirrorPush ==
  ASSUME TypeOK, NEW t, TypedTrail(t), NEW th \in Theories, Mirrors(t, th.vids),
         NEW lit, NEW level, NEW reason, Enqueues(t, lit, level, reason),
         NEW pushed \in Push(setup, th, lit)
  PROVE  Mirrors(Append(t, Entry(lit, level, reason)), pushed.vids)
<1> DEFINE e == Entry(lit, level, reason)
           longer == Append(t, e)
           low == Lits(KeptUntil(t, 0))
           high == LitsAbove(t, 0)
           fixed == Among(setup.vids, low)
           rest == Among(setup.vids, high)
<1>1. PICK first \in Seq(setup.vids) :
        th.vids = first \o rest /\ Len(first) = Len(fixed) /\ ToSet(first) = ToSet(fixed)
  BY DEF Mirrors
<1>2. low \in Seq(Int) /\ high \in Seq(Int) /\ IsTrail(KeptUntil(t, 0)) /\ IsTrail(t)
  <2>1. 0 \in Int /\ IsTrail(t)
    BY DEF TypedTrail
  <2> QED
    BY <2>1, LitsTyped
<1>3. /\ e \in Entries /\ e.lit = lit /\ e.level = level /\ IsTrail(longer)
      /\ lit \in Literals /\ lit \in Int /\ level \in Nat
      /\ 0 < level => KeptUntil(longer, 0) = KeptUntil(t, 0)
      /\ 0 >= level => KeptUntil(longer, 0) = longer
  <2>1. lit \in Literals /\ level \in Nat
    BY DEF Enqueues
  <2>2. lit \in Int
    BY <2>1, SetupIs DEF Lit
  <2> HIDE DEF low, high, fixed, rest
  <2>3. /\ TypedTrail(longer) /\ e \in Entries /\ e.lit = lit /\ e.level = level
        /\ \A k \in Int : /\ k < level => KeptUntil(longer, k) = KeptUntil(t, k)
                          /\ k >= level => KeptUntil(longer, k) = longer
    BY EnqueueIs
  <2>4. 0 \in Int
    OBVIOUS
  <2> HIDE DEF e, longer
  <2> QED
    BY <2>1, <2>2, <2>3, <2>4 DEF TypedTrail
<1>4. first \in Seq(Int) /\ setup.vids \subseteq Int
  <2>1. setup.vids \subseteq Int
    BY SetupIs
  <2> QED
    BY <1>1, <2>1
<1> HIDE DEF e
<1>5. /\ lit \notin setup.vids => pushed.vids = th.vids
      /\ lit \in setup.vids => pushed.vids = Append(th.vids, lit)
  <2> HIDE DEF longer, low, high, fixed, rest
  <2>1. lit \in Literals
    BY DEF Enqueues
  <2>2. lit \notin setup.vids => pushed = th
    BY <2>1, PushIs
  <2>3. lit \in setup.vids => pushed.vids = Append(th.vids, lit)
    BY <2>1, PushIs
  <2> QED
    BY <2>2, <2>3
<1>6. fixed \in Seq(Int) /\ rest \in Seq(Int)
  BY <1>2, AmongType
<1>7. CASE 0 < level
  <2>1. Lits(KeptUntil(longer, 0)) = low /\ LitsAbove(longer, 0) = Append(high, lit)
    BY <1>2, <1>3, <1>7, LitsOfAppend
  <2> HIDE DEF longer, low, high
  <2>2. Among(setup.vids, LitsAbove(longer, 0))
          = IF lit \in setup.vids THEN Append(rest, lit) ELSE rest
    <3>1. Among(setup.vids, Append(high, lit))
            = IF lit \in setup.vids THEN Append(rest, lit) ELSE rest
      BY <1>2, <1>3, AmongAppend, Zenon
    <3> QED
      BY <2>1, <3>1
  <2> HIDE DEF fixed, rest
  <2>3. first \o Append(rest, lit) = Append(first \o rest, lit)
    BY <1>3, <1>4, <1>6, AppendConcat
  <2>4. pushed.vids = first \o Among(setup.vids, LitsAbove(longer, 0))
    BY <1>1, <1>5, <2>2, <2>3
  <2> QED
    BY <1>1, <2>1, <2>4 DEF Mirrors, fixed, e, longer
<1>8. CASE ~ (0 < level)
  <2>1. KeptUntil(t, 0) = t /\ high = << >>
    <3>1. 0 \in Int /\ \A i \in DOMAIN t : t[i].level <= 0
      BY <1>3, <1>8 DEF Enqueues
    <3> QED
      BY <1>2, <3>1, AllKept
  <2>2. /\ Lits(KeptUntil(longer, 0)) = Append(low, lit)
        /\ LitsAbove(longer, 0) = << >>
    <3>1. 0 >= e.level /\ 0 \in Int /\ 0 >= level
      BY <1>3, <1>8
    <3>2. LitsAbove(longer, 0) = << >> /\ Lits(longer) = Append(Lits(t), e.lit)
      BY <1>2, <1>3, <3>1, LitsOfAppend
    <3>3. KeptUntil(longer, 0) = longer
      BY <1>3, <3>1
    <3>4. Lits(KeptUntil(longer, 0)) = Append(Lits(t), lit)
      BY <1>3, <3>2, <3>3
    <3>5. Lits(t) = low
      BY <2>1
    <3> QED
      BY <3>2, <3>4, <3>5
  <2>3. Among(setup.vids, << >>) = << >>
    BY AmongEmpty
  <2> HIDE DEF low, high, longer
  <2>4. Among(setup.vids, Append(low, lit)) = IF lit \in setup.vids THEN Append(fixed, lit) ELSE fixed
    BY <1>2, <1>3, AmongAppend DEF IsVid
  <2>5. th.vids = first
    BY <1>1, <1>4, <2>1, <2>3
  <2> HIDE DEF fixed, rest
  <2> DEFINE first2 == IF lit \in setup.vids THEN Append(first, lit) ELSE first
             fixed2 == IF lit \in setup.vids THEN Append(fixed, lit) ELSE fixed
  <2>6. /\ first2 \in Seq(setup.vids) /\ Len(first2) = Len(fixed2)
        /\ ToSet(first2) = ToSet(fixed2) /\ pushed.vids = first2
    <3>1. CASE lit \in setup.vids
      <4>1. first2 = Append(first, lit) /\ fixed2 = Append(fixed, lit)
        BY <3>1
      <4>2. Append(first, lit) \in Seq(setup.vids)
        BY <1>1, <3>1
      <4>3. Len(Append(first, lit)) = Len(Append(fixed, lit))
        BY <1>1, <1>4, <1>6
      <4>4. ToSet(Append(first, lit)) = ToSet(Append(fixed, lit))
        <5>1. lit \in Int /\ first \in Seq(Int) /\ fixed \in Seq(Int)
          BY <1>3, <1>4, <1>6
        <5>2. /\ ToSet(Append(first, lit)) = ToSet(first) \union {lit}
              /\ ToSet(Append(fixed, lit)) = ToSet(fixed) \union {lit}
          BY <5>1, SetOfAppend
        <5> QED
          BY <1>1, <5>2
      <4> QED
        BY <1>5, <2>5, <3>1, <4>1, <4>2, <4>3, <4>4
    <3>2. CASE lit \notin setup.vids
      BY <1>1, <1>5, <2>5, <3>2
    <3> QED
      BY <3>1, <3>2
  <2> HIDE DEF first2, fixed2
  <2>7. first2 \o << >> = first2
    BY <2>6
  <2>8. Among(setup.vids, Append(low, lit)) = fixed2
    BY <2>4 DEF fixed2
  <2> QED
    BY <2>2, <2>3, <2>6, <2>7, <2>8 DEF Mirrors, longer, e
<1> QED
  BY <1>7, <1>8

\* Cutting the trail and shrinking the theory keeps the mirror; a verdict
\* that survives is about the same vertices, and none of those taken off was
\* one.
LEMMA MirrorShrink ==
  ASSUME TypeOK, TypedTrail(trail), Mirrors(trail, theory.vids), NEW k \in Nat
  PROVE  LET th == Shrink(setup, theory, LitsAbove(trail, k))
         IN /\ th \in Theories /\ th.checked = theory.checked
            /\ Mirrors(KeptUntil(trail, k), th.vids)
            /\ th.conflict => theory.conflict /\ th.vids = theory.vids
            /\ th.conflict => ~ \E i \in DOMAIN trail : /\ trail[i].level > k
                                                     /\ trail[i].lit \in setup.vids
            /\ theory.conflict /\ ~ th.conflict =>
                 \E i \in DOMAIN trail : trail[i].level > k /\ trail[i].lit \in setup.vids
<1> DEFINE th == Shrink(setup, theory, LitsAbove(trail, k))
           kept == KeptUntil(trail, k)
           low == Lits(KeptUntil(trail, 0))
           mid == LitsAbove(kept, 0)
           high == LitsAbove(trail, k)
           a == Among(setup.vids, mid)
           b == Among(setup.vids, high)
           fixed == Among(setup.vids, low)
<1>1. 0 \in Int /\ k \in Int /\ 0 <= k /\ IsTrail(trail)
  BY DEF TypedTrail
<1>2. IsTrail(kept)
  BY <1>1, LitsTyped
<1>3. /\ mid \in Seq(Int) /\ high \in Seq(Int) /\ low \in Seq(Int)
      /\ LitsAbove(trail, 0) = mid \o high
      /\ KeptUntil(kept, 0) = KeptUntil(trail, 0)
  <2>1. high \in Seq(Int) /\ low \in Seq(Int)
    BY <1>1, LitsTyped
  <2> HIDE DEF high, low
  <2>2. mid \in Seq(Int)
    <3> HIDE DEF kept
    <3> QED
      BY <1>1, <1>2, LitsTyped
  <2>3. LitsAbove(trail, 0) = mid \o high
    BY <1>1, LitsSplit DEF high
  <2>4. KeptUntil(kept, 0) = KeptUntil(trail, 0)
    BY <1>1, KeptOfKept
  <2> QED
    BY <2>1, <2>2, <2>3, <2>4
<1>4. \A i \in DOMAIN trail : /\ trail[i].level > k => trail[i].lit \in ToSet(high)
                             /\ trail[i].lit \in Int
  <2> SUFFICES ASSUME NEW i \in DOMAIN trail
               PROVE  /\ trail[i].level > k => trail[i].lit \in ToSet(high)
                      /\ trail[i].lit \in Int
    OBVIOUS
  <2> DEFINE m == TrailLim(trail, k)
  <2>1. /\ trail[i].level \in Nat /\ trail[i].level <= k <=> i <= m
        /\ trail[i].lit \in Int
        /\ i \in 1 .. Len(trail) /\ m \in 0 .. Len(trail) /\ Len(trail) \in Nat
    BY <1>1, TrailLimIs, TrailTypes
  <2>2. /\ Len(high) = Len(trail) - m
        /\ \A j \in 1 .. Len(trail) - m : high[j] = trail[m + j].lit
    BY <1>1, LitsAboveAre
  <2> HIDE DEF m, high
  <2>3. ASSUME trail[i].level > k PROVE trail[i].lit \in ToSet(high)
    <3>1. i - m \in 1 .. Len(trail) - m /\ m + (i - m) = i
      BY <2>1, <2>3
    <3>2. i - m \in DOMAIN high /\ high[i - m] = trail[i].lit
      BY <1>3, <2>2, <3>1
    <3> QED
      BY <3>2 DEF ToSet
  <2> QED
    BY <2>1, <2>3
<1>5. ASSUME NEW x \in ToSet(high)
      PROVE  \E i \in DOMAIN trail : trail[i].level > k /\ trail[i].lit = x
  <2> DEFINE m == TrailLim(trail, k)
  <2>1. /\ Len(high) = Len(trail) - m /\ m \in 0 .. Len(trail) /\ Len(trail) \in Nat
        /\ \A j \in 1 .. Len(trail) - m : high[j] = trail[m + j].lit
    BY <1>1, LitsAboveAre
  <2>2. /\ DOMAIN trail = 1 .. Len(trail)
        /\ \A i \in DOMAIN trail : trail[i].level \in Nat /\ (trail[i].level <= k <=> i <= m)
    BY <1>1, TrailLimIs, TrailTypes
  <2> HIDE DEF m, high
  <2>3. PICK j \in DOMAIN high : high[j] = x
    BY DEF ToSet
  <2>4. j \in 1 .. Len(trail) - m
    BY <1>3, <2>1, <2>3
  <2>5. m + j \in DOMAIN trail /\ ~ (m + j <= m)
    BY <2>1, <2>2, <2>4
  <2>6. trail[m + j].level > k
    BY <2>2, <2>5
  <2> QED
    BY <2>1, <2>3, <2>4, <2>5, <2>6
<1>6. PICK first \in Seq(setup.vids) :
        /\ theory.vids = first \o Among(setup.vids, LitsAbove(trail, 0))
        /\ Len(first) = Len(fixed) /\ ToSet(first) = ToSet(fixed)
  BY DEF Mirrors
<1> HIDE DEF kept, low, mid, high
<1>7. /\ a \in Seq(Int) /\ b \in Seq(Int)
      /\ Among(setup.vids, LitsAbove(trail, 0)) = a \o b
      /\ ToSet(b) = {x \in setup.vids : x \in ToSet(high)}
  BY <1>3, AmongType, AmongConcat, AmongSet
<1>8. first \in Seq(Int)
  <2>1. setup.vids \subseteq Int
    BY SetupIs
  <2> QED
    BY <1>6, <2>1
<1> DEFINE popped == Len(b)
<1>9. popped = Len(Among(setup.vids, high))
  OBVIOUS
<1> HIDE DEF a, b, fixed
<1>10. /\ theory.vids = first \o (a \o b)
       /\ popped <= Len(theory.vids)
       /\ SubSeq(theory.vids, 1, Len(theory.vids) - popped) = first \o a
  <2>1. theory.vids = first \o (a \o b)
    BY <1>6, <1>7
  <2> QED
    BY <1>7, <1>8, <2>1, ConcatCut
<1>11. popped = 0 <=> ~ \E x \in setup.vids : x \in ToSet(high)
  <2>1. popped \in Nat /\ DOMAIN b = 1 .. popped
    BY <1>7
  <2>2. popped = 0 <=> ToSet(b) = {}
    <3>1. CASE popped = 0
      BY <2>1, <3>1 DEF ToSet
    <3>2. CASE popped # 0
      <4>1. 1 \in DOMAIN b
        BY <2>1, <3>2
      <4>2. b[1] \in ToSet(b)
        BY <4>1 DEF ToSet
      <4> QED
        BY <3>2, <4>2
    <3> QED
      BY <3>1, <3>2
  <2> QED
    BY <1>7, <2>2
<1> HIDE DEF popped
<1>12. /\ th \in Theories /\ th.checked = theory.checked
       /\ th.vids = first \o a
       /\ th.conflict <=> theory.conflict /\ popped = 0
       /\ popped = 0 => th.vids = theory.vids
  <2>1. th = Shrink(setup, theory, high)
    BY DEF high
  <2> HIDE DEF th
  <2> QED
    BY <1>3, <1>9, <1>10, <2>1, ShrinkIs
<1> HIDE DEF th
<1>13. Mirrors(kept, th.vids)
  <2>1. Lits(KeptUntil(kept, 0)) = low
    BY <1>3 DEF low
  <2>2. th.vids = first \o Among(setup.vids, LitsAbove(kept, 0))
    BY <1>12 DEF a, mid
  <2>3. /\ Len(first) = Len(Among(setup.vids, Lits(KeptUntil(kept, 0))))
        /\ ToSet(first) = ToSet(Among(setup.vids, Lits(KeptUntil(kept, 0))))
    BY <1>6, <2>1 DEF fixed
  <2> QED
    BY <2>2, <2>3 DEF Mirrors
<1>14. popped = 0 <=> ~ \E i \in DOMAIN trail : trail[i].level > k /\ trail[i].lit \in setup.vids
  BY <1>4, <1>5, <1>11
<1> QED
  BY <1>12, <1>13, <1>14 DEF th, kept

-----------------------------------------------------------------------------
(* What analyze hands to search.                                            *)

\* The clause learnt and the literal enqueued after the backjump.
Learnable(learnt, lit, level) ==
  /\ Learns(trail, confl, learnt, lit, level)
  /\ learnt \in SUBSET Literals /\ level \in Nat /\ level < Level
  /\ UnitUnder(KeptUntil(trail, level), learnt, lit)
  /\ Enqueues(KeptUntil(trail, level), lit, level, IF learnt = {lit} THEN {} ELSE learnt)
  /\ \A k \in 0 .. level - 1 : Several(learnt) /\ Several({x \in learnt : ~ Assigned(KeptUntil(trail, k), x)})

\* LearntIs for the conflict at hand: the clause is unit on the trail cut
\* back, its literal can be enqueued with it as reason, and at every lower
\* level two of its literals are unassigned.
LEMMA LearnIs ==
  ASSUME TypeOK, TrailOK, ConflictIsCurrent, pc = "conflict", Level > 0
  PROVE  Learnable(Learnt(trail, confl), Asserting(trail, Learnt(trail, confl)),
                   BacktrackLevel(trail, Learnt(trail, confl)))
<1> DEFINE learnt == Learnt(trail, confl)
           lit == Asserting(trail, learnt)
           level == BacktrackLevel(trail, learnt)
           kept == KeptUntil(trail, level)
<1>1. IsTrail(trail) /\ confl \in SUBSET Lit /\ Level \in Nat
  BY SetupIs, TrailIsTyped DEF TypeOK, TypedTrail
<1>2. Learns(trail, confl, learnt, lit, level)
  BY <1>1, LearntIs DEF ConflictIsCurrent, Level
<1> HIDE DEF learnt, lit, level
<1>3. /\ learnt \subseteq Lit /\ lit \in learnt /\ Falsified(trail, learnt)
      /\ LevelOf(trail, lit) = Level
      /\ level \in 0 .. Level - 1
      /\ \A x \in learnt \ {lit} : LevelOf(trail, x) \in 1 .. level
      /\ level > 0 => \E x \in learnt \ {lit} : LevelOf(trail, x) = level
  BY <1>2 DEF Learns, Level
<1>4. level \in Nat /\ level < Level /\ level \in Int
  BY <1>1, <1>3
<1>5. learnt \in SUBSET Literals
  <2>1. \A x \in learnt : x \in Int /\ IsFalse(trail, x)
    BY <1>3 DEF Lit, Falsified
  <2> QED
    BY <2>1, FalseIsLiteral
<1>6. \A x \in learnt, k \in Int :
        /\ ~ IsTrue(KeptUntil(trail, k), x)
        /\ IsFalse(KeptUntil(trail, k), x) <=> LevelOf(trail, x) <= k
  <2> SUFFICES ASSUME NEW x \in learnt, NEW k \in Int
               PROVE  /\ ~ IsTrue(KeptUntil(trail, k), x)
                      /\ IsFalse(KeptUntil(trail, k), x) <=> LevelOf(trail, x) <= k
    OBVIOUS
  <2>1. x \in Lit /\ IsFalse(trail, x)
    BY <1>3 DEF Falsified
  <2>2. ~ IsTrue(trail, x)
    BY <1>1, <2>1, NotBoth
  <2> QED
    BY <1>1, <2>1, <2>2, KeptValues
<1>7. UnitUnder(kept, learnt, lit)
  <2>1. ~ (LevelOf(trail, lit) <= level)
    BY <1>1, <1>3, <1>4
  <2>2. \A x \in learnt \ {lit} : LevelOf(trail, x) <= level
    BY <1>3
  <2> QED
    BY <1>3, <1>4, <1>6, <2>1, <2>2 DEF UnitUnder, Assigned, Falsified
<1>8. Enqueues(kept, lit, level, IF learnt = {lit} THEN {} ELSE learnt)
  <2>1. /\ DOMAIN kept = {i \in DOMAIN trail : trail[i].level <= level}
        /\ \A i \in DOMAIN kept : kept[i] = trail[i]
    BY <1>1, <1>4, KeptIs
  <2>2. \A i \in DOMAIN kept : kept[i].level <= level
    BY <2>1
  <2>3. level > 0 => learnt # {lit}
    BY <1>3
  <2> HIDE DEF kept
  <2> QED
    BY <1>4, <1>5, <1>7, <2>2, <2>3 DEF Enqueues, UnitUnder
<1>9. ASSUME NEW k \in 0 .. level - 1
      PROVE  Several(learnt) /\ Several({x \in learnt : ~ Assigned(KeptUntil(trail, k), x)})
  <2>1. level > 0 /\ k \in Int /\ k < level
    BY <1>4
  <2>2. PICK x \in learnt \ {lit} : LevelOf(trail, x) = level
    BY <1>3, <2>1
  <2>3. ~ (LevelOf(trail, x) <= k) /\ ~ (LevelOf(trail, lit) <= k)
    BY <1>1, <1>3, <1>4, <2>1, <2>2
  <2>4. ~ Assigned(KeptUntil(trail, k), x) /\ ~ Assigned(KeptUntil(trail, k), lit)
    BY <1>3, <1>6, <2>1, <2>2, <2>3 DEF Assigned
  <2>5. x # lit /\ x \in learnt /\ lit \in learnt
    BY <1>3, <2>2
  <2> QED
    BY <2>4, <2>5 DEF Several
<1>10. Learnable(learnt, lit, level)
  BY <1>2, <1>4, <1>5, <1>7, <1>8, <1>9 DEF Learnable
<1> QED
  BY <1>10 DEF learnt, lit, level

-----------------------------------------------------------------------------
(* Steps: the trail.                                                        *)

\* At level 0 there is nothing to cut.
LEMMA FlatTrail ==
  ASSUME NEW t, TypedTrail(t), DecisionLevel(t) = 0
  PROVE  /\ \A i \in DOMAIN t : t[i].level = 0
         /\ KeptUntil(t, 0) = t /\ LitsAbove(t, 0) = << >>
<1>1. IsTrail(t) /\ 0 \in Int
  BY DEF TypedTrail
<1>2. \A i \in DOMAIN t : t[i].level \in Nat /\ t[i].level <= 0
  BY <1>1, DecisionLevelIs, TrailTypes
<1>3. \A i \in DOMAIN t : t[i].level = 0
  BY <1>2
<1> QED
  BY <1>1, <1>2, <1>3, AllKept

\* The literal that addClause_ enqueues is unassigned (Solver.cc:165-194).
LEMMA AddsUnit ==
  ASSUME TypeOK, TrailOK, Early, NEW clause \in SUBSET Literals, NEW lit \in Simplified(clause),
         ~ Satisfied(trail, clause)
  PROVE  Enqueues(trail, lit, 0, {})
<1>1. lit \in Literals /\ ~ Assigned(trail, lit)
  BY DEF Simplified, Satisfied, Assigned
<1>2. \A i \in DOMAIN trail : trail[i].level <= 0
  BY DEF TrailOK
<1> QED
  BY <1>1, <1>2 DEF Enqueues

\* The literal of a unit clause can be enqueued with that clause as its
\* reason.
LEMMA UnitEnqueues ==
  ASSUME TypeOK, TrailOK, NEW c \in SUBSET Literals, NEW lit \in c, UnitUnder(trail, c, lit)
  PROVE  Enqueues(trail, lit, Level, c)
<1>1. lit \in Literals /\ ~ Assigned(trail, lit) /\ Falsified(trail, c \ {lit})
  BY DEF UnitUnder
<1> QED
  BY <1>1, TrailIsTyped DEF Enqueues

\* An unassigned literal can be decided on.
LEMMA DecisionEnqueues ==
  ASSUME TypeOK, TrailOK, NEW lit \in Literals, ~ Assigned(trail, lit)
  PROVE  Enqueues(trail, lit, Level + 1, {})
<1>1. /\ Level \in Nat
      /\ \A i \in DOMAIN trail : trail[i].level \in Nat /\ trail[i].level <= Level
  BY TrailIsTyped
<1>2. /\ Level + 1 \in Nat
      /\ \A i \in DOMAIN trail : trail[i].level <= Level + 1 /\ trail[i].level # Level + 1
  BY <1>1
<1> QED
  BY <1>2 DEF Enqueues

\* How a step may change the trail.
Grows(t, lit, level, reason) ==
  /\ Enqueues(t, lit, level, reason)
  /\ trail' = Append(t, Entry(lit, level, reason))

\* What a step does to the trail: nothing, a cut to level 0, a literal more,
\* or a literal more on a cut trail; parsing only adds literals at level 0.
LEMMA TrailSteps ==
  ASSUME IInv, Next
  PROVE  \/ trail' = trail /\ (Early' => Early)
         \/ pc = "decide" /\ trail' = KeptUntil(trail, 0) /\ ~ Early'
         \/ Early /\ \E lit, reason : Grows(trail, lit, 0, reason)
         \/ ~ Early' /\ \E lit, level, reason : Grows(trail, lit, level, reason)
         \/ ~ Early' /\ \E lit, level, reason :
              level \in Nat /\ Grows(KeptUntil(trail, level), lit, level, reason)
<1> USE DEF IInv
<1>1. CASE AddClause
  <2>1. setup.formula[next] \in SUBSET Literals
    <3>1. next \in Nat \ {0} /\ next <= Len(setup.formula)
      BY <1>1 DEF AddClause, TypeOK
    <3>2. setup.formula \in Seq(SUBSET Literals)
      BY SetupIs
    <3> QED
      BY <3>1, <3>2
  <2>2. Early
    BY <1>1 DEF AddClause, Early, Parsing
  <2>3. CASE trail' = trail
    BY <2>2, <2>3
  <2>4. CASE trail' # trail
    <3>1. PICK lit \in Simplified(setup.formula[next]) :
            /\ ~ Satisfied(trail, setup.formula[next])
            /\ trail' = Append(trail, Entry(lit, 0, {}))
      BY <1>1, <2>4 DEF AddClause
    <3>2. Enqueues(trail, lit, 0, {})
      BY <2>1, <2>2, <3>1, AddsUnit
    <3> QED
      BY <2>2, <3>1, <3>2 DEF Grows
  <2> QED
    BY <2>3, <2>4
<1>2. CASE ParsedUnit
  <2>0. PICK c \in clauses : \E lit \in c :
          UnitUnder(trail, c, lit) /\ trail' = Append(trail, Entry(lit, 0, c))
    BY <1>2 DEF ParsedUnit
  <2>1. PICK lit \in c :
          UnitUnder(trail, c, lit) /\ trail' = Append(trail, Entry(lit, 0, c))
    BY <2>0
  <2>2. Early /\ Level = 0
    BY <1>2, TrailIsTyped DEF ParsedUnit, Early, Parsing
  <2>3. Enqueues(trail, lit, 0, c)
    BY <2>1, <2>2, UnitEnqueues DEF TypeOK
  <2> QED
    BY <2>1, <2>2, <2>3 DEF Grows
<1>3. CASE ParsedConflict
  BY <1>3 DEF ParsedConflict, Early, Parsing
<1>4. CASE ParsedFixpoint
  BY <1>4 DEF ParsedFixpoint, Early, Parsing
<1>5. CASE Parsed
  BY <1>5 DEF Parsed, Early, Parsing
<1>6. CASE Replay
  BY <1>6 DEF Replay, Early, Parsing
<1>7. CASE StartSearch
  BY <1>7 DEF StartSearch, Early, Parsing
<1>8. CASE UnitPropagation
  <2>0. PICK c \in Visited : \E lit \in c :
          UnitUnder(trail, c, lit) /\ trail' = Append(trail, Entry(lit, Level, c))
    BY <1>8 DEF UnitPropagation
  <2>1. PICK lit \in c :
          UnitUnder(trail, c, lit) /\ trail' = Append(trail, Entry(lit, Level, c))
    BY <2>0
  <2>2. c \in SUBSET Literals
    BY DEF Visited, Watched, TypeOK
  <2>3. Enqueues(trail, lit, Level, c)
    BY <2>1, <2>2, UnitEnqueues
  <2>4. ~ Early'
    BY <1>8 DEF UnitPropagation, CheckTheory, Early, Parsing
  <2> QED
    BY <2>1, <2>3, <2>4 DEF Grows
<1>9. CASE ClauseConflict
  BY <1>9 DEF ClauseConflict, Early, Parsing
<1>10. CASE PropagationEnds
  BY <1>10 DEF PropagationEnds, CheckTheory, Early, Parsing
<1>11. CASE ConflictAtZero
  BY <1>11 DEF ConflictAtZero, Return, Early, Parsing
<1>12. CASE Learn
  <2> DEFINE learnt == Learnt(trail, confl)
             lit == Asserting(trail, learnt)
             level == BacktrackLevel(trail, learnt)
             reason == IF learnt = {lit} THEN {} ELSE learnt
  <2>1. Learnable(learnt, lit, level)
    BY <1>12, LearnIs DEF Learn
  <2>2. trail' = Append(KeptUntil(trail, level), Entry(lit, level, reason))
    BY <1>12 DEF Learn
  <2>3. ~ Early'
    BY <1>12 DEF Learn, Early, Parsing
  <2> HIDE DEF learnt, lit, level
  <2>4. level \in Nat /\ Grows(KeptUntil(trail, level), lit, level, reason)
    BY <2>1, <2>2 DEF Learnable, Grows
  <2> QED
    BY <2>3, <2>4
<1>13. CASE OutOfBudget
  BY <1>13 DEF OutOfBudget, Return, BackToZero, Early, Parsing
<1>14. CASE Restart
  BY <1>14 DEF Restart, BackToZero, Early, Parsing
<1>15. CASE Decide
  <2>1. PICK lit \in Literals :
          ~ Assigned(trail, lit) /\ trail' = Append(trail, Entry(lit, Level + 1, {}))
    BY <1>15 DEF Decide
  <2>2. Enqueues(trail, lit, Level + 1, {})
    BY <2>1, DecisionEnqueues
  <2>3. ~ Early'
    BY <1>15 DEF Decide, Early, Parsing
  <2> QED
    BY <2>1, <2>2, <2>3 DEF Grows
<1>16. CASE ModelFound
  BY <1>16 DEF ModelFound, Return, BackToZero, Early, Parsing
<1>17. CASE Done
  BY <1>17 DEF Done, vars, Early, Parsing
<1> QED
  BY <1>1, <1>2, <1>3, <1>4, <1>5, <1>6, <1>7, <1>8, <1>9, <1>10, <1>11, <1>12, <1>13, <1>14,
     <1>15, <1>16, <1>17 DEF Next

\* Every step keeps a trail, at level 0 before the search.
LEMMA TrailStep ==
  ASSUME IInv, Next
  PROVE  /\ TypedTrail(trail') /\ TrailOK'
         /\ Level' = DecisionLevel(trail') /\ Level' \in Nat /\ (Early' => Level' = 0)
<1>1. TypeOK /\ TrailOK /\ TypedTrail(trail) /\ 0 \in Int
  BY TrailIsTyped DEF IInv
<1>2. Early => DecisionLevel(trail) = 0
  BY <1>1, TrailIsTyped DEF Level
<1>3. TypedTrail(trail') /\ (Early' => DecisionLevel(trail') = 0)
  <2>1. CASE trail' = trail /\ (Early' => Early)
    BY <1>1, <1>2, <2>1
  <2>2. CASE trail' = KeptUntil(trail, 0) /\ ~ Early'
    BY <1>1, <2>2, KeptTyped
  <2>3. CASE \E lit, reason : Grows(trail, lit, 0, reason)
    BY <1>1, <2>3, EnqueueIs DEF Grows
  <2>4. CASE ~ Early' /\ \E lit, level, reason : Grows(trail, lit, level, reason)
    BY <1>1, <2>4, EnqueueIs DEF Grows
  <2>5. CASE ~ Early' /\ \E lit, level, reason :
               level \in Nat /\ Grows(KeptUntil(trail, level), lit, level, reason)
    <3>1. PICK lit, level, reason :
            level \in Nat /\ Grows(KeptUntil(trail, level), lit, level, reason)
      BY <2>5
    <3>2. level \in Int
      BY <3>1
    <3>3. TypedTrail(KeptUntil(trail, level))
      BY <1>1, <3>2, KeptTyped
    <3> QED
      BY <1>1, <2>5, <3>1, <3>3, EnqueueIs DEF Grows
  <2> QED
    BY <2>1, <2>2, <2>3, <2>4, <2>5, TrailSteps
<1>4. ASSUME Early' PROVE \A i \in DOMAIN trail' : trail'[i].level = 0
  BY <1>3, <1>4, FlatTrail
<1>5. Level' = DecisionLevel(trail') /\ DecisionLevel(trail') \in Nat
  BY <1>3, DecisionLevelIs DEF Level, TypedTrail
<1> QED
  BY <1>3, <1>4, <1>5 DEF TrailOK, TypedTrail

-----------------------------------------------------------------------------
(* Steps: the theory.                                                       *)

\* No step changes what the run was given.
LEMMA SetupKept ==
  ASSUME Next
  PROVE  setup' = setup /\ Literals' = Literals /\ Variables' = Variables
<1>1. setup' = setup
  BY DEF Next, AddClause, ParsedUnit, ParsedConflict, ParsedFixpoint, Parsed, Replay, StartSearch,
         UnitPropagation, ClauseConflict, PropagationEnds, ConflictAtZero, Learn, OutOfBudget,
         Restart, Decide, ModelFound, Done, vars
<1> QED
  BY <1>1 DEF Literals, Variables

\* check_conflict only raises conflict_checked.
LEMMA CheckedIs ==
  ASSUME NEW th \in Theories
  PROVE  /\ Checked(th) \in Theories /\ Checked(th).vids = th.vids
         /\ Checked(th).conflict = th.conflict /\ Checked(th).checked = TRUE
BY DEF Checked, Theories

\* The mirror of the next state, from the trail and the vertices of that
\* state.
LEMMA MirrorsNext ==
  ASSUME setup' = setup, Mirrors(trail', theory'.vids)
  PROVE  Mirrors(trail, theory.vids)'
BY DEF Mirrors

\* The empty list has no repetitions and no elements.
LEMMA NoneDistinct == Distinct(<< >>) /\ ToSet(<< >>) = {}
<1>1. ToSet(<< >>) = {}
  BY DEF ToSet
<1> QED
  BY <1>1, FS_EmptySet DEF Distinct

\* What replaying a variable does to soln_vids.
LEMMA ReplayIs ==
  ASSUME IInv, Replay
  PROVE  /\ theory' \in Theories
         /\ \/ theory' = theory /\ ~ (next \in setup.vids /\ IsTrue(trail, next))
            \/ /\ next \in setup.vids /\ IsTrue(trail, next)
               /\ theory' \in Push(setup, theory, next)
               /\ theory'.vids = Append(theory.vids, next)
<1>1. /\ TypeOK /\ TrailOK /\ theory \in Theories /\ next \in Nat \ {0}
      /\ setup.vids \subseteq Nat \ {0}
  BY SetupIs DEF IInv, TypeOK, Theories
<1>2. next <= setup.numVars /\ setup.numVars \in Nat /\ Variables = 1 .. setup.numVars
  BY <1>1, SetupIs DEF Replay, Variables
<1>3. next \in Literals /\ - next \in Literals
  <2>1. next \in Variables
    BY <1>1, <1>2
  <2>2. next \in Literals
    BY <1>1, <2>1, SetupIs
  <2> QED
    BY <1>1, <2>2, SetupIs
<1>4. CASE IsTrue(trail, next)
  <2>1. Assigns(next) = next /\ next # 0
    BY <1>1, <1>4 DEF Assigns
  <2>2. theory' \in Push(setup, theory, next)
    BY <2>1 DEF Replay
  <2>3. /\ theory' \in Theories
        /\ next \notin setup.vids => theory' = theory
        /\ next \in setup.vids => theory'.vids = Append(theory.vids, next)
    <3>1. TypeOK /\ theory \in Theories /\ next \in Literals
      BY <1>1, <1>3
    <3> QED
      BY <2>2, <3>1, PushIs
  <2> QED
    BY <1>4, <2>2, <2>3
<1>5. CASE ~ IsTrue(trail, next)
  <2>1. CASE IsFalse(trail, next)
    <3>1. Assigns(next) = - next /\ - next # 0 /\ - next \notin setup.vids
      BY <1>1, <1>5, <2>1 DEF Assigns
    <3>2. theory' \in Push(setup, theory, - next)
      BY <3>1 DEF Replay
    <3>3. theory' = theory
      BY <1>1, <1>3, <3>1, <3>2, PushIs
    <3> QED
      BY <1>1, <1>5, <3>3
  <2>2. CASE ~ IsFalse(trail, next)
    <3>1. Assigns(next) = 0
      BY <1>5, <2>2 DEF Assigns
    <3>2. theory' = theory
      BY <3>1 DEF Replay
    <3> QED
      BY <1>1, <1>5, <3>2
  <2> QED
    BY <2>1, <2>2
<1> QED
  BY <1>4, <1>5

\* Replaying a variable keeps soln_vids a list without repetitions of the
\* true vertices up to it.
LEMMA ReplayMirror ==
  ASSUME IInv, Replay
  PROVE  Mirror'
<1>1. /\ pc = "replay" /\ pc' = "replay" /\ next' = next + 1 /\ trail' = trail /\ setup' = setup
      /\ next \in Nat \ {0} /\ theory \in Theories
      /\ setup.vids \subseteq Nat \ {0}
  BY SetupIs DEF IInv, TypeOK, Replay, Theories
<1>2. /\ Distinct(theory.vids)
      /\ ToSet(theory.vids) = {v \in setup.vids : v < next /\ IsTrue(trail, v)}
  BY <1>1 DEF IInv, Mirror
<1>3. /\ Distinct(theory'.vids)
      /\ ToSet(theory'.vids) = {v \in setup.vids : v < next + 1 /\ IsTrue(trail, v)}
  <2>1. CASE theory' = theory /\ ~ (next \in setup.vids /\ IsTrue(trail, next))
    <3>1. \A v \in setup.vids : IsTrue(trail, v) => (v < next + 1 <=> v < next)
      BY <1>1, <2>1
    <3> QED
      BY <1>2, <2>1, <3>1
  <2>2. CASE /\ next \in setup.vids /\ IsTrue(trail, next)
             /\ theory'.vids = Append(theory.vids, next)
    <3>1. /\ theory.vids \in Seq(Int) /\ next \in Int /\ next \notin ToSet(theory.vids)
      <4>1. setup.vids \subseteq Int
        BY <1>1
      <4> QED
        BY <1>1, <1>2, <4>1 DEF Theories
    <3>2. /\ Distinct(Append(theory.vids, next))
          /\ ToSet(Append(theory.vids, next)) = ToSet(theory.vids) \union {next}
      BY <1>2, <3>1, DistinctAppend, SetOfAppend
    <3>3. \A v \in setup.vids : v < next + 1 <=> v < next \/ v = next
      BY <1>1
    <3> QED
      BY <1>2, <2>2, <3>2, <3>3
  <2> QED
    BY <2>1, <2>2, ReplayIs
<1> QED
  BY <1>1, <1>3 DEF Mirror, Parsing, Searching

\* When the replay is over, soln_vids holds the true vertices of level 0, as
\* many and the same as the trail's, in the order of the variables: the
\* mirror the search starts from.
LEMMA StartMirror ==
  ASSUME IInv, StartSearch
  PROVE  Mirrors(trail, theory.vids)
<1>1. /\ pc = "replay" /\ next \in Nat /\ next > setup.numVars
      /\ theory.vids \in Seq(setup.vids)
      /\ setup.numVars \in Nat /\ setup.vids \subseteq 1 .. setup.numVars
      /\ TypedTrail(trail) /\ Level = 0 /\ 0 \in Int
  BY SetupIs, TrailIsTyped DEF IInv, TypeOK, StartSearch, Early, Variables
<1>2. KeptUntil(trail, 0) = trail /\ LitsAbove(trail, 0) = << >>
  BY <1>1, FlatTrail DEF Level
<1> DEFINE lits == Lits(trail)
           fixed == Among(setup.vids, lits)
<1>3. /\ lits \in Seq(Int) /\ Len(lits) = Len(trail) /\ DOMAIN trail = 1 .. Len(trail)
      /\ \A i \in 1 .. Len(trail) : lits[i] = trail[i].lit
  BY <1>1, LitsAre, TrailTypes DEF TypedTrail
<1>4. \A x : x \in ToSet(lits) <=> IsTrue(trail, x)
  BY DEF Lits, ToSet, IsTrue
<1>5. \A i, j \in 1 .. Len(lits) : lits[i] = lits[j] => i = j
  BY <1>1, <1>3 DEF TypedTrail, IsTrail, Consistent
<1> HIDE DEF lits
<1>6. /\ fixed \in Seq(Int) /\ Distinct(fixed)
      /\ ToSet(fixed) = {v \in setup.vids : IsTrue(trail, v)}
  BY <1>3, <1>4, <1>5, AmongType, AmongDistinct, AmongSet
<1> HIDE DEF fixed
<1>7. \A v \in setup.vids : v < next
  BY <1>1
<1>8. Distinct(theory.vids) /\ ToSet(theory.vids) = {v \in setup.vids : IsTrue(trail, v)}
  BY <1>1, <1>7 DEF IInv, Mirror
<1>9. ToSet(theory.vids) = ToSet(fixed) /\ Len(theory.vids) = Len(fixed)
  BY <1>6, <1>8 DEF Distinct
<1>10. theory.vids = theory.vids \o Among(setup.vids, LitsAbove(trail, 0))
  <2>1. Among(setup.vids, << >>) = << >>
    BY AmongEmpty, Zenon
  <2>2. theory.vids = theory.vids \o << >>
    BY <1>1
  <2> QED
    BY <1>2, <2>1, <2>2
<1>11. Among(setup.vids, Lits(KeptUntil(trail, 0))) = fixed
  BY <1>2 DEF fixed, lits
<1> QED
  BY <1>1, <1>9, <1>10, <1>11 DEF Mirrors

\* Every step keeps the types of the theory and its mirror of the trail: each
\* action pushes and shrinks the same literals on both sides.
LEMMA TheoryStep ==
  ASSUME IInv, Next
  PROVE  theory' \in Theories /\ Mirror'
<1>1. /\ TypeOK /\ TrailOK /\ theory \in Theories /\ TypedTrail(trail) /\ Level \in Nat
      /\ setup' = setup
  BY TrailIsTyped, SetupKept DEF IInv, TypeOK, Theories
<1>2. Searching => Mirrors(trail, theory.vids)
  BY DEF IInv, Mirror
<1>3. Parsing => theory.vids = << >>
  BY DEF IInv, Mirror
<1>4. ASSUME theory' \in Theories, pc' \in {"propagate", "conflict", "decide"},
             Mirrors(trail', theory'.vids)
      PROVE  theory' \in Theories /\ Mirror'
  BY <1>1, <1>4, MirrorsNext DEF Mirror, Searching, Parsing
<1>5. ASSUME theory' \in Theories, pc' = "returned"
      PROVE  theory' \in Theories /\ Mirror'
  BY <1>5 DEF Mirror, Searching, Parsing
<1>6. ASSUME theory' = theory, Parsing, pc' \in {"parse", "parsed unit"}
      PROVE  theory' \in Theories /\ Mirror'
  BY <1>1, <1>3, <1>6 DEF Mirror, Searching, Parsing
<1>7. CASE AddClause
  BY <1>6, <1>7 DEF AddClause, Parsing
<1>8. CASE ParsedUnit \/ ParsedConflict \/ ParsedFixpoint
  BY <1>6, <1>8 DEF ParsedUnit, ParsedConflict, ParsedFixpoint, Parsing
<1>9. CASE Parsed
  <2>1. theory' = theory /\ theory.vids = << >> /\ pc' = "replay" /\ next' = 1
    BY <1>3, <1>9 DEF Parsed, Parsing
  <2>2. {v \in setup.vids : v < 1 /\ IsTrue(trail', v)} = {}
    BY <1>1, SetupIs
  <2> QED
    BY <1>1, <2>1, <2>2, NoneDistinct DEF Mirror, Searching, Parsing
<1>10. CASE Replay
  BY <1>10, ReplayIs, ReplayMirror
<1>11. CASE StartSearch
  <2>1. trail' = trail /\ theory' = theory /\ pc' \in {"propagate", "returned"}
    BY <1>11 DEF StartSearch
  <2>2. Mirrors(trail', theory'.vids)
    BY <1>11, <2>1, StartMirror
  <2> QED
    BY <1>1, <1>4, <1>5, <2>1, <2>2
<1>12. CASE UnitPropagation
  <2>0. PICK c \in Visited : \E lit \in c :
          /\ UnitUnder(trail, c, lit) /\ trail' = Append(trail, Entry(lit, Level, c))
          /\ \E pushed \in Push(setup, theory, lit) : CheckTheory(pushed, "propagate")
    BY <1>12 DEF UnitPropagation
  <2>1. PICK lit \in c :
          /\ UnitUnder(trail, c, lit) /\ trail' = Append(trail, Entry(lit, Level, c))
          /\ \E pushed \in Push(setup, theory, lit) : CheckTheory(pushed, "propagate")
    BY <2>0
  <2>2. PICK pushed \in Push(setup, theory, lit) : CheckTheory(pushed, "propagate")
    BY <2>1
  <2>3. c \in SUBSET Literals /\ lit \in Literals
    BY <1>1 DEF Visited, Watched, TypeOK
  <2>4. Enqueues(trail, lit, Level, c)
    BY <1>1, <2>1, <2>3, UnitEnqueues
  <2>5. pushed \in Theories
    BY <1>1, <2>3, PushIs
  <2>6. theory' = Checked(pushed) /\ pc' \in {"propagate", "conflict"}
    BY <2>2 DEF CheckTheory
  <2>7. Mirrors(trail, theory.vids)
    BY <1>2, <1>12 DEF UnitPropagation, Searching
  <2>8. Mirrors(trail', pushed.vids)
    BY <1>1, <2>1, <2>4, <2>7, MirrorPush
  <2> QED
    BY <1>4, <2>5, <2>6, <2>8, CheckedIs
<1>13. CASE ClauseConflict
  <2>1. trail' = trail /\ theory' = theory /\ pc' = "conflict" /\ Searching
    BY <1>13 DEF ClauseConflict, Searching
  <2> QED
    BY <1>1, <1>2, <1>4, <2>1
<1>14. CASE PropagationEnds
  <2>1. trail' = trail /\ theory' = Checked(theory) /\ pc' \in {"decide", "conflict"} /\ Searching
    BY <1>14 DEF PropagationEnds, CheckTheory, Searching
  <2> QED
    BY <1>1, <1>2, <1>4, <2>1, CheckedIs
<1>15. CASE ConflictAtZero
  BY <1>1, <1>5, <1>15 DEF ConflictAtZero, Return
<1>16. CASE Learn
  <2> DEFINE learnt == Learnt(trail, confl)
             lit == Asserting(trail, learnt)
             level == BacktrackLevel(trail, learnt)
             reason == IF learnt = {lit} THEN {} ELSE learnt
             shrunk == Shrink(setup, theory, LitsAbove(trail, level))
  <2>1. Learnable(learnt, lit, level)
    BY <1>16, LearnIs DEF Learn, IInv
  <2>2. /\ trail' = Append(KeptUntil(trail, level), Entry(lit, level, reason))
        /\ theory' \in Push(setup, shrunk, lit) /\ pc' = "propagate"
    BY <1>16 DEF Learn
  <2> HIDE DEF learnt, lit, level
  <2>3. level \in Nat /\ lit \in Literals /\ Enqueues(KeptUntil(trail, level), lit, level, reason)
    BY <2>1 DEF Learnable, Enqueues
  <2>4. Mirrors(trail, theory.vids)
    BY <1>2, <1>16 DEF Learn, Searching
  <2>5. shrunk \in Theories /\ Mirrors(KeptUntil(trail, level), shrunk.vids)
    BY <1>1, <2>3, <2>4, MirrorShrink
  <2>6. TypedTrail(KeptUntil(trail, level))
    BY <1>1, <2>3, KeptTyped
  <2> HIDE DEF shrunk, reason
  <2>7. theory' \in Theories
    BY <1>1, <2>2, <2>3, <2>5, PushIs
  <2>8. Mirrors(trail', theory'.vids)
    BY <1>1, <2>2, <2>3, <2>5, <2>6, MirrorPush
  <2> QED
    BY <1>4, <2>2, <2>7, <2>8
<1>17. CASE OutOfBudget \/ Restart \/ ModelFound
  <2>1. /\ theory' = Shrink(setup, theory, LitsAbove(trail, 0)) /\ trail' = KeptUntil(trail, 0)
        /\ pc' \in {"returned", "propagate"} /\ Searching
    BY <1>17 DEF OutOfBudget, Restart, ModelFound, BackToZero, Return, Searching
  <2>2. theory' \in Theories /\ Mirrors(trail', theory'.vids)
    <3>1. 0 \in Nat /\ Mirrors(trail, theory.vids)
      BY <1>2, <2>1
    <3> QED
      BY <1>1, <2>1, <3>1, MirrorShrink
  <2> QED
    BY <1>4, <1>5, <2>1, <2>2
<1>18. CASE Decide
  <2>1. PICK lit \in Literals :
          /\ ~ Assigned(trail, lit) /\ trail' = Append(trail, Entry(lit, Level + 1, {}))
          /\ theory' \in Push(setup, theory, lit)
    BY <1>18 DEF Decide
  <2>2. Enqueues(trail, lit, Level + 1, {})
    BY <1>1, <2>1, DecisionEnqueues
  <2>3. theory' \in Theories
    BY <1>1, <2>1, PushIs
  <2>4. Mirrors(trail, theory.vids) /\ pc' = "propagate"
    BY <1>2, <1>18 DEF Decide, Searching
  <2>5. Mirrors(trail', theory'.vids)
    BY <1>1, <2>1, <2>2, <2>4, MirrorPush
  <2> QED
    BY <1>4, <2>3, <2>4, <2>5
<1>19. CASE Done
  <2>1. theory' = theory /\ pc' = "returned"
    BY <1>19 DEF Done, vars
  <2> QED
    BY <1>1, <1>5, <2>1
<1> QED
  BY <1>7, <1>8, <1>9, <1>10, <1>11, <1>12, <1>13, <1>14, <1>15, <1>16, <1>17, <1>18, <1>19
     DEF Next

-----------------------------------------------------------------------------
(* Steps: types.                                                            *)

\* simplify drops the clauses that are satisfied and cuts the false literals
\* of the others (Solver.cc:766-800).
LEMMA SimplifiedIs ==
  ASSUME NEW db \in SUBSET SUBSET Literals
  PROVE  /\ SimplifiedDB(db) \in SUBSET SUBSET Literals
         /\ \A d \in SimplifiedDB(db) : \E c \in db : d = Simplified(c) /\ ~ Satisfied(trail, c)
         /\ \A c \in db : Satisfied(trail, c) \/ Simplified(c) \in SimplifiedDB(db)
BY DEF SimplifiedDB, Unsatisfied, Simplified

\* The clauses of the theory lose false literals only.
LEMMA SimplifiedLemmasAre ==
  ASSUME lemmas \in SUBSET SUBSET Literals, NEW less \in SimplifiedLemmas
  PROVE  /\ less \in SUBSET SUBSET Literals
         /\ \A d \in less : \E c \in lemmas :
              Simplified(c) \subseteq d /\ d \subseteq c /\ ~ Satisfied(trail, c)
<1> DEFINE kept == Unsatisfied(lemmas)
<1>1. PICK f \in [kept -> UNION {InFront(c) : c \in kept}] :
        /\ \A c \in kept : f[c] \in InFront(c)
        /\ less = {Simplified(c) \union f[c] : c \in kept}
  BY DEF SimplifiedLemmas
<1>2. \A c \in kept : f[c] \subseteq c
  BY <1>1 DEF InFront
<1>3. \A c \in kept : c \in lemmas /\ ~ Satisfied(trail, c) /\ Simplified(c) \subseteq c
  BY DEF Unsatisfied, Simplified
<1> HIDE DEF kept
<1>4. \A d \in less : \E c \in lemmas :
        Simplified(c) \subseteq d /\ d \subseteq c /\ ~ Satisfied(trail, c)
  <2> SUFFICES ASSUME NEW d \in less
               PROVE  \E c \in lemmas :
                        Simplified(c) \subseteq d /\ d \subseteq c /\ ~ Satisfied(trail, c)
    OBVIOUS
  <2>1. PICK c \in kept : d = Simplified(c) \union f[c]
    BY <1>1
  <2> QED
    BY <1>2, <1>3, <2>1
<1> QED
  BY <1>4

\* reduceDB only drops clauses (Solver.cc:706-725).
LEMMA ReducedIs ==
  ASSUME NEW db, NEW less \in Reduced(db)
  PROVE  less \subseteq db
BY DEF Reduced

\* Vertices are variables of the solver.
LEMMA VidsAreVariables ==
  ASSUME TypeOK
  PROVE  \A v \in setup.vids : v \in Variables /\ - v \in Literals
BY SetupIs

\* The clause of the theory is one of this run's literals.
LEMMA ClauseOfTheory ==
  ASSUME TypeOK, NEW th \in Theories
  PROVE  ConflictClause(th) \in SUBSET Literals
<1>1. \A v \in ToSet(th.vids) : v \in setup.vids
  BY DEF Theories, ToSet
<1> QED
  BY <1>1, VidsAreVariables DEF ConflictClause

\* Every step keeps the types.
LEMMA TypeStep ==
  ASSUME IInv, Next
  PROVE  TypeOK'
<1>1. /\ TypeOK /\ TrailOK /\ setup' = setup /\ Literals' = Literals /\ Variables' = Variables
      /\ theory \in Theories /\ theory' \in Theories
      /\ TypedTrail(trail')
  BY SetupKept, TheoryStep, TrailStep DEF IInv, TypeOK, Theories
<1>2. /\ theory' \in [vids : Seq(setup'.vids), conflict : BOOLEAN, checked : BOOLEAN]
      /\ trail' \in Seq([lit : Literals', level : Nat, reason : SUBSET Literals'])
      /\ setup' \in Setups
  BY <1>1 DEF Theories, TypedTrail, EntriesOf, TypeOK
<1> DEFINE Rest == /\ pc' \in Phases
                   /\ next' \in Nat \ {0} /\ ok' \in BOOLEAN
                   /\ clauses' \subseteq SUBSET Literals
                   /\ lemmas' \subseteq SUBSET Literals
                   /\ learnts' \subseteq SUBSET Literals
                   /\ confl' \subseteq Literals
                   /\ conflicts' \in Nat
                   /\ result' \in {"none", "True", "False", "Undef"}
                   /\ model' \subseteq Variables
<1>3. /\ pc \in Phases
      /\ next \in Nat \ {0} /\ ok \in BOOLEAN
      /\ clauses \subseteq SUBSET Literals
      /\ lemmas \subseteq SUBSET Literals
      /\ learnts \subseteq SUBSET Literals
      /\ confl \subseteq Literals
      /\ conflicts \in Nat
      /\ result \in {"none", "True", "False", "Undef"}
      /\ model \subseteq Variables
  BY <1>1 DEF TypeOK
<1>4. CASE AddClause
  <2>1. Simplified(setup.formula[next]) \subseteq Literals
    <3>1. next \in Nat \ {0} /\ next <= Len(setup.formula)
      BY <1>3, <1>4 DEF AddClause
    <3>2. setup.formula \in Seq(SUBSET Literals)
      BY <1>1, SetupIs
    <3>3. setup.formula[next] \subseteq Literals
      BY <3>1, <3>2
    <3> QED
      BY <3>3 DEF Simplified
  <2>2. /\ pc' \in Phases /\ next' = next + 1 /\ ok' \in BOOLEAN
        /\ clauses' \subseteq clauses \union {Simplified(setup.formula[next])}
        /\ UNCHANGED <<setup, lemmas, learnts, theory, confl, conflicts, result, model>>
    BY <1>3, <1>4 DEF AddClause, Phases
  <2>3. Rest
    BY <1>3, <2>1, <2>2
  <2> QED
    BY <1>1, <1>2, <2>3 DEF TypeOK
<1>5. CASE ParsedUnit \/ ParsedConflict \/ ParsedFixpoint \/ Parsed \/ Replay \/ StartSearch
  <2>1. Rest
    <3>1. CASE ParsedUnit
      BY <1>3, <3>1 DEF ParsedUnit
    <3>2. CASE ParsedConflict \/ ParsedFixpoint
      BY <1>3, <3>2 DEF ParsedConflict, ParsedFixpoint, Phases
    <3>3. CASE Parsed
      BY <1>3, <3>3 DEF Parsed, Phases
    <3>4. CASE Replay
      BY <1>3, <3>4 DEF Replay
    <3>5. CASE StartSearch
      BY <1>3, <3>5 DEF StartSearch, Phases
    <3> QED
      BY <1>5, <3>1, <3>2, <3>3, <3>4, <3>5
  <2> QED
    BY <1>1, <1>2, <2>1 DEF TypeOK
<1>6. ASSUME NEW th \in Theories, NEW otherwise \in Phases, CheckTheory(th, otherwise),
             UNCHANGED <<next, ok, clauses, learnts, conflicts, result, model>>
      PROVE  Rest
  <2>1. ConflictClause(th) \subseteq Literals
    BY <1>1, ClauseOfTheory
  <2>2. /\ pc' \in {otherwise, "conflict"}
        /\ lemmas' \subseteq lemmas \union {ConflictClause(th)}
        /\ confl' = confl \/ confl' = ConflictClause(th)
    BY <1>6 DEF CheckTheory
  <2> QED
    BY <1>3, <1>6, <2>1, <2>2 DEF Phases
<1>7. CASE UnitPropagation
  <2>0. PICK c \in Visited : \E lit \in c :
          \E pushed \in Push(setup, theory, lit) : CheckTheory(pushed, "propagate")
    BY <1>7 DEF UnitPropagation
  <2>1. PICK lit \in c : \E pushed \in Push(setup, theory, lit) : CheckTheory(pushed, "propagate")
    BY <2>0
  <2>2. PICK pushed \in Push(setup, theory, lit) : CheckTheory(pushed, "propagate")
    BY <2>1
  <2>3. lit \in Literals
    BY <1>3 DEF Visited, Watched
  <2>4. pushed \in Theories
    BY <1>1, <2>3, PushIs
  <2>5. Rest
    BY <1>6, <1>7, <2>2, <2>4 DEF UnitPropagation, Phases
  <2> QED
    BY <1>1, <1>2, <2>5 DEF TypeOK
<1>8. CASE ClauseConflict
  <2>1. \A c \in Visited : c \subseteq Literals
    BY <1>3 DEF Visited, Watched
  <2>2. Rest
    BY <1>3, <1>8, <2>1 DEF ClauseConflict, Phases
  <2> QED
    BY <1>1, <1>2, <2>2 DEF TypeOK
<1>9. CASE PropagationEnds
  <2>1. Rest
    BY <1>1, <1>6, <1>9 DEF PropagationEnds, Phases
  <2> QED
    BY <1>1, <1>2, <2>1 DEF TypeOK
<1>10. CASE ConflictAtZero \/ OutOfBudget \/ Restart
  <2>1. Rest
    <3>1. CASE ConflictAtZero
      BY <1>3, <3>1 DEF ConflictAtZero, Return, Phases
    <3>2. CASE OutOfBudget
      BY <1>3, <3>2 DEF OutOfBudget, Return, Phases
    <3>3. CASE Restart
      BY <1>3, <3>3 DEF Restart, Phases
    <3> QED
      BY <1>10, <3>1, <3>2, <3>3
  <2> QED
    BY <1>1, <1>2, <2>1 DEF TypeOK
<1>11. CASE Learn
  <2> DEFINE learnt == Learnt(trail, confl)
             lit == Asserting(trail, learnt)
             level == BacktrackLevel(trail, learnt)
  <2>1. Learnable(learnt, lit, level)
    BY <1>11, LearnIs DEF Learn, IInv
  <2>2. learnts' = learnts \union ({learnt} \ {{lit}})
    BY <1>11 DEF Learn
  <2> HIDE DEF learnt, lit, level
  <2>3. learnts' \subseteq SUBSET Literals /\ confl' \subseteq Literals
    BY <1>3, <1>11, <2>1, <2>2 DEF Learn, Learnable
  <2>4. /\ pc' = "propagate" /\ conflicts' = conflicts + 1 /\ next' = next /\ ok' = ok
        /\ clauses' = clauses /\ lemmas' = lemmas /\ result' = result /\ model' = model
    BY <1>11 DEF Learn
  <2>5. conflicts' \in Nat
    BY <1>3, <2>4
  <2>6. pc' \in Phases
    BY <2>4 DEF Phases
  <2>7. Rest
    BY <1>3, <2>3, <2>4, <2>5, <2>6
  <2> QED
    BY <1>1, <1>2, <2>7 DEF TypeOK
<1>12. CASE Decide
  <2>1. PICK simplify \in BOOLEAN :
          /\ clauses' = IF simplify THEN SimplifiedDB(clauses) ELSE clauses
          /\ lemmas' \in IF simplify THEN SimplifiedLemmas ELSE {lemmas}
          /\ learnts' \in Reduced(IF simplify THEN SimplifiedDB(learnts) ELSE learnts)
    BY <1>12 DEF Decide
  <2>2. /\ clauses' \subseteq SUBSET Literals /\ lemmas' \subseteq SUBSET Literals
        /\ learnts' \subseteq SUBSET Literals
    <3>1. lemmas' \subseteq SUBSET Literals
      BY <1>3, <2>1, SimplifiedLemmasAre
    <3> QED
      BY <1>3, <2>1, <3>1, SimplifiedIs, ReducedIs
  <2>3. Rest
    BY <1>3, <1>12, <2>2 DEF Decide, Phases
  <2> QED
    BY <1>1, <1>2, <2>3 DEF TypeOK
<1>13. CASE ModelFound
  <2>1. Rest
    BY <1>3, <1>13 DEF ModelFound, Return, Phases
  <2> QED
    BY <1>1, <1>2, <2>1 DEF TypeOK
<1>14. CASE Done
  <2>1. Rest
    BY <1>3, <1>14 DEF Done, vars, Phases
  <2> QED
    BY <1>1, <1>2, <2>1 DEF TypeOK
<1> QED
  BY <1>4, <1>5, <1>7, <1>8, <1>9, <1>10, <1>11, <1>12, <1>13, <1>14 DEF Next

-----------------------------------------------------------------------------
(* Steps: the clauses watched.                                              *)

\* A trail cut to level 0 has level 0.
LEMMA ZeroLevel ==
  ASSUME NEW t, TypedTrail(t)
  PROVE  DecisionLevel(KeptUntil(t, 0)) = 0
<1> DEFINE kept == KeptUntil(t, 0)
<1>1. IsTrail(t) /\ 0 \in Int
  BY DEF TypedTrail
<1>2. /\ IsTrail(kept) /\ DOMAIN kept = {i \in DOMAIN t : t[i].level <= 0}
      /\ \A i \in DOMAIN kept : kept[i] = t[i]
  BY <1>1, KeptIs
<1> HIDE DEF kept
<1>3. \A i \in DOMAIN kept : kept[i].level <= 0 /\ kept[i].level \in Nat
  BY <1>2, TrailTypes
<1>4. CASE kept = << >>
  BY <1>4 DEF DecisionLevel, kept
<1>5. CASE kept # << >>
  <2>1. Len(kept) \in DOMAIN kept
    <3>1. kept \in Seq(Entries)
      BY <1>2 DEF IsTrail
    <3> QED
      BY <1>5, <3>1
  <2>2. DecisionLevel(kept) = kept[Len(kept)].level
    BY <1>5 DEF DecisionLevel, Last
  <2>3. DecisionLevel(kept) = 0
    BY <1>3, <2>1, <2>2
  <2> QED
    BY <2>3 DEF kept
<1> QED
  BY <1>4, <1>5

\* What simplify and reduceDB leave of the clauses.
LEMMA DecideIs ==
  ASSUME TypeOK, TrailOK, Decide
  PROVE  /\ \A d \in clauses' \union lemmas' \union learnts' :
              \/ d \in clauses \union lemmas \union learnts
              \/ /\ Level = 0
                 /\ \E c \in clauses \union lemmas \union learnts :
                      Simplified(c) \subseteq d /\ d \subseteq c /\ ~ Satisfied(trail, c)
         /\ \A d \in Watched' :
              \/ d \in Watched
              \/ /\ Level = 0
                 /\ \E c \in Watched : d = Simplified(c) /\ ~ Satisfied(trail, c)
         /\ \A c \in clauses : \/ c \in clauses'
                               \/ Level = 0 /\ (Satisfied(trail, c) \/ Simplified(c) \in clauses')
<1>1. PICK simplify \in {FALSE, Level = 0} :
        /\ clauses' = IF simplify THEN SimplifiedDB(clauses) ELSE clauses
        /\ lemmas' \in IF simplify THEN SimplifiedLemmas ELSE {lemmas}
        /\ learnts' \in Reduced(IF simplify THEN SimplifiedDB(learnts) ELSE learnts)
  BY DEF Decide
<1>2. CASE simplify = FALSE
  <2>1. clauses' = clauses /\ lemmas' = lemmas /\ learnts' \subseteq learnts
    BY <1>1, <1>2, ReducedIs
  <2> QED
    BY <2>1 DEF Watched
<1>3. CASE simplify /\ Level = 0
  <2>1. /\ clauses' = SimplifiedDB(clauses) /\ lemmas' \in SimplifiedLemmas
        /\ learnts' \subseteq SimplifiedDB(learnts)
    BY <1>1, <1>3, ReducedIs
  <2>2. /\ \A d \in clauses' : \E c \in clauses : d = Simplified(c) /\ ~ Satisfied(trail, c)
        /\ \A d \in learnts' : \E c \in learnts : d = Simplified(c) /\ ~ Satisfied(trail, c)
        /\ \A c \in clauses : Satisfied(trail, c) \/ Simplified(c) \in clauses'
    BY <2>1, SimplifiedIs DEF TypeOK
  <2>3. \A d \in lemmas' : \E c \in lemmas :
          Simplified(c) \subseteq d /\ d \subseteq c /\ ~ Satisfied(trail, c)
    BY <2>1, SimplifiedLemmasAre DEF TypeOK
  <2>4. \A c : Simplified(c) \subseteq c
    BY DEF Simplified
  <2> QED
    BY <1>3, <2>2, <2>3, <2>4 DEF Watched
<1> QED
  BY <1>1, <1>2, <1>3

\* Propagated of the next state, with the clauses watched spelled out.
LEMMA PropagatedNext ==
  ASSUME \A c \in Watched' : Several(c),
         pc' # "returned" =>
           \A k \in 0 .. Level' - 1 : \A c \in Watched' : Settles(KeptUntil(trail', k), c),
         pc' = "decide" => \A c \in Watched' : Settles(trail', c)
  PROVE  Propagated'
<1>1. pc' = "decide" => Exhausted'
  BY DEF Exhausted, Settles, Unassigned, Watched
<1> QED
  BY <1>1 DEF Propagated, Settled, Watched, Settles

\* When propagate has nothing left, no clause watched is unit or falsified.
LEMMA ExhaustedIs ==
  ASSUME Exhausted
  PROVE  \A c \in Watched : Settles(trail, c)
BY DEF Exhausted, Settles, Unassigned

\* Every step keeps it: a level is left only when propagate is done, a clause
\* learnt has two unassigned literals at every lower level, and simplify only
\* cuts literals that are false at level 0.
LEMMA PropagatedStep ==
  ASSUME IInv, Next
  PROVE  Propagated'
<1>1. /\ TypeOK /\ TrailOK /\ TypedTrail(trail) /\ Level \in Nat
      /\ \A c \in Watched : Several(c)
      /\ Early => Level = 0
  BY TrailIsTyped DEF IInv, Propagated
<1>2. Level' = DecisionLevel(trail') /\ Level' \in Nat /\ (Early' => Level' = 0)
  BY TrailStep
<1>3. pc # "returned" =>
        \A k \in 0 .. Level - 1 : \A c \in Watched : Settles(KeptUntil(trail, k), c)
  BY DEF IInv, Propagated, Settled
<1>4. ASSUME Level' = 0, \A c \in Watched' : Several(c), pc' # "decide" PROVE Propagated'
  BY <1>4, PropagatedNext
<1>5. ASSUME Watched' = Watched, pc' = "returned" PROVE Propagated'
  BY <1>1, <1>5, PropagatedNext
<1>6. CASE AddClause
  <2>1. /\ pc' \in {"parse", "parsed unit"} /\ learnts' = learnts
        /\ clauses' = clauses \/ \E rest : Several(rest) /\ clauses' = clauses \union {rest}
    BY <1>6 DEF AddClause
  <2>2. Early' /\ pc' # "decide" /\ \A c \in Watched' : Several(c)
    BY <1>1, <2>1 DEF Early, Parsing, Watched
  <2> QED
    BY <1>2, <1>4, <2>2
<1>7. CASE ParsedUnit \/ ParsedConflict \/ ParsedFixpoint \/ Parsed \/ Replay
  <2>1. Early' /\ pc' # "decide" /\ clauses' = clauses /\ learnts' = learnts
    BY <1>7 DEF ParsedUnit, ParsedConflict, ParsedFixpoint, Parsed, Replay, Early, Parsing
  <2>2. Watched' = Watched
    BY <2>1 DEF Watched
  <2> QED
    BY <1>1, <1>2, <1>4, <2>1, <2>2
<1>8. CASE StartSearch
  <2>1. /\ Early /\ trail' = trail /\ clauses' = clauses /\ learnts' = learnts
        /\ pc' # "decide"
    BY <1>8 DEF StartSearch, Early
  <2>2. Watched' = Watched /\ Level' = Level
    BY <2>1 DEF Watched, Level
  <2> QED
    BY <1>1, <1>4, <2>1, <2>2
<1>9. CASE UnitPropagation
  <2>0. PICK c \in Visited : \E lit \in c :
          UnitUnder(trail, c, lit) /\ trail' = Append(trail, Entry(lit, Level, c))
    BY <1>9 DEF UnitPropagation
  <2>1. PICK lit \in c :
          UnitUnder(trail, c, lit) /\ trail' = Append(trail, Entry(lit, Level, c))
    BY <2>0
  <2>2. c \in SUBSET Literals
    BY <1>1 DEF Visited, Watched, TypeOK
  <2>3. Enqueues(trail, lit, Level, c)
    BY <1>1, <2>1, <2>2, UnitEnqueues
  <2>4. Level' = Level /\ \A k \in Int : k < Level => KeptUntil(trail', k) = KeptUntil(trail, k)
    BY <1>1, <1>2, <2>1, <2>3, EnqueueIs
  <2>5. pc = "propagate" /\ pc' \in {"propagate", "conflict"} /\ Watched' = Watched
    BY <1>9 DEF UnitPropagation, CheckTheory, Watched
  <2>6. \A k \in 0 .. Level' - 1 : \A d \in Watched' : Settles(KeptUntil(trail', k), d)
    <3> SUFFICES ASSUME NEW k \in 0 .. Level - 1, NEW d \in Watched
                 PROVE  Settles(KeptUntil(trail', k), d)
      BY <2>4, <2>5
    <3>1. k \in Int /\ k < Level
      BY <1>1
    <3> QED
      BY <1>3, <2>4, <2>5, <3>1
  <2> QED
    BY <1>1, <2>5, <2>6, PropagatedNext
<1>10. CASE ClauseConflict \/ PropagationEnds
  <2>1. /\ trail' = trail /\ Watched' = Watched /\ pc = "propagate"
        /\ pc' = "decide" => Exhausted
    BY <1>10 DEF ClauseConflict, PropagationEnds, CheckTheory, Watched
  <2>2. Level' = Level
    BY <2>1 DEF Level
  <2> QED
    BY <1>1, <1>3, <2>1, <2>2, PropagatedNext, ExhaustedIs
<1>11. CASE ConflictAtZero \/ OutOfBudget \/ ModelFound
  <2>1. Watched' = Watched /\ pc' = "returned"
    BY <1>11 DEF ConflictAtZero, OutOfBudget, ModelFound, Return, Watched
  <2> QED
    BY <1>5, <2>1
<1>12. CASE Learn
  <2> DEFINE learnt == Learnt(trail, confl)
             lit == Asserting(trail, learnt)
             level == BacktrackLevel(trail, learnt)
             reason == IF learnt = {lit} THEN {} ELSE learnt
             kept == KeptUntil(trail, level)
  <2>1. Learnable(learnt, lit, level)
    BY <1>12, LearnIs DEF Learn, IInv
  <2>2. /\ trail' = Append(kept, Entry(lit, level, reason))
        /\ learnts' = learnts \union ({learnt} \ {{lit}}) /\ clauses' = clauses
        /\ pc = "conflict" /\ pc' = "propagate"
    BY <1>12 DEF Learn
  <2> HIDE DEF learnt, lit, level
  <2>3. /\ level \in Nat /\ level \in Int /\ level < Level /\ lit \in learnt
        /\ Enqueues(kept, lit, level, reason)
        /\ \A k \in 0 .. level - 1 :
             Several(learnt) /\ Several({x \in learnt : ~ Assigned(KeptUntil(trail, k), x)})
    BY <2>1 DEF Learnable, UnitUnder
  <2>4. TypedTrail(kept)
    BY <1>1, <2>3, KeptTyped
  <2> HIDE DEF kept, reason
  <2>5. Level' = level /\ \A k \in Int : k < level => KeptUntil(trail', k) = KeptUntil(kept, k)
    BY <1>1, <1>2, <2>2, <2>3, <2>4, EnqueueIs
  <2>6. \A d \in Watched' : d \in Watched \/ (d = learnt /\ learnt # {lit})
    <3> SUFFICES ASSUME NEW d \in Watched', d \notin Watched PROVE d = learnt /\ learnt # {lit}
      OBVIOUS
    <3>1. Watched' = Watched \union ({learnt} \ {{lit}})
      BY <2>2 DEF Watched
    <3>2. d \in {learnt} \ {{lit}}
      BY <3>1
    <3>3. d = learnt /\ d # {lit}
      BY <3>2
    <3> QED
      BY <3>3
  <2>7. \A d \in Watched' : Several(d)
    <3>1. learnt # {lit} => Several(learnt)
      BY <2>3 DEF Several
    <3> QED
      BY <1>1, <2>6, <3>1
  <2>8. \A k \in 0 .. Level' - 1 : \A d \in Watched' : Settles(KeptUntil(trail', k), d)
    <3> SUFFICES ASSUME NEW k \in 0 .. level - 1, NEW d \in Watched'
                 PROVE  Settles(KeptUntil(trail', k), d)
      BY <2>5
    <3>1. k \in Int /\ k < level /\ k <= level /\ k \in 0 .. Level - 1
      BY <1>1, <2>3
    <3>2. KeptUntil(trail', k) = KeptUntil(trail, k)
      <4>1. KeptUntil(kept, k) = KeptUntil(trail, k)
        BY <1>1, <2>3, <3>1, KeptOfKept DEF kept, TypedTrail
      <4> QED
        BY <2>5, <3>1, <4>1
    <3>3. CASE d \in Watched
      BY <1>3, <2>2, <3>1, <3>2, <3>3
    <3>4. CASE d = learnt
      BY <2>3, <3>2, <3>4 DEF Settles
    <3> QED
      BY <2>6, <3>3, <3>4
  <2> QED
    BY <2>2, <2>7, <2>8, PropagatedNext
<1>13. CASE Restart
  <2>1. trail' = KeptUntil(trail, 0) /\ pc' = "propagate" /\ Watched' = Watched
    BY <1>13 DEF Restart, BackToZero, Watched
  <2>2. Level' = 0
    BY <1>1, <1>2, <2>1, ZeroLevel
  <2> QED
    BY <1>1, <1>4, <2>1, <2>2
<1>14. CASE Decide
  <2>1. PICK lit \in Literals :
          ~ Assigned(trail, lit) /\ trail' = Append(trail, Entry(lit, Level + 1, {}))
    BY <1>14 DEF Decide
  <2>2. Enqueues(trail, lit, Level + 1, {})
    BY <1>1, <2>1, DecisionEnqueues
  <2>3. /\ Level' = Level + 1
        /\ \A k \in Int : k < Level + 1 => KeptUntil(trail', k) = KeptUntil(trail, k)
    BY <1>1, <1>2, <2>1, <2>2, EnqueueIs
  <2>4. pc = "decide" /\ pc' = "propagate"
    BY <1>14 DEF Decide
  <2>5. \A c \in Watched : Settles(trail, c)
    BY <2>4, ExhaustedIs DEF IInv, Propagated
  <2>6. \A d \in Watched' :
          \/ d \in Watched
          \/ /\ Level = 0
             /\ \E c \in Watched : d = Simplified(c) /\ ~ Satisfied(trail, c)
    BY <1>1, <1>14, DecideIs
  <2>7. KeptUntil(trail, Level) = trail
    <3>1. Level \in Int /\ \A i \in DOMAIN trail : trail[i].level <= Level
      BY <1>1, TrailIsTyped
    <3> QED
      BY <1>1, <3>1, AllKept DEF TypedTrail
  <2>8. ASSUME NEW d, NEW c \in Watched, d = Simplified(c), ~ Satisfied(trail, c)
        PROVE  Several(d) /\ Settles(trail, d)
    <3>1. Several({x \in c : ~ Assigned(trail, x)})
      BY <2>5, <2>8 DEF Settles
    <3>2. {x \in c : ~ Assigned(trail, x)} = {x \in d : ~ Assigned(trail, x)}
      BY <2>8 DEF Simplified, Assigned
    <3> QED
      BY <3>1, <3>2 DEF Several, Settles
  <2>9. \A d \in Watched' : Several(d)
    BY <1>1, <2>6, <2>8
  <2>10. \A k \in 0 .. Level' - 1 : \A d \in Watched' : Settles(KeptUntil(trail', k), d)
    <3> SUFFICES ASSUME NEW k \in 0 .. Level, NEW d \in Watched'
                 PROVE  Settles(KeptUntil(trail', k), d)
      BY <1>1, <2>3
    <3>1. KeptUntil(trail', k) = KeptUntil(trail, k)
      BY <1>1, <2>3
    <3>2. CASE k = Level
      BY <2>5, <2>6, <2>7, <2>8, <3>1, <3>2
    <3>3. CASE k # Level
      <4>1. k \in 0 .. Level - 1 /\ Level # 0
        BY <1>1, <3>3
      <4> QED
        BY <1>3, <2>4, <2>6, <3>1, <4>1
    <3> QED
      BY <3>2, <3>3
  <2> QED
    BY <2>4, <2>9, <2>10, PropagatedNext
<1>15. CASE Done
  <2>1. Watched' = Watched /\ pc' = "returned"
    BY <1>15 DEF Done, vars, Watched
  <2> QED
    BY <1>5, <2>1
<1> QED
  BY <1>6, <1>7, <1>8, <1>9, <1>10, <1>11, <1>12, <1>13, <1>14, <1>15 DEF Next

-----------------------------------------------------------------------------
(* Steps: the verdict.                                                      *)

\* A trail cut back has fewer of the vertices.
LEMMA VidsOfGrows ==
  ASSUME TypeOK, NEW t, TypedTrail(t), NEW j \in Int, NEW k \in Int, j <= k
  PROVE  /\ VidsOf(KeptUntil(t, j)) \subseteq VidsOf(KeptUntil(t, k))
         /\ VidsOf(KeptUntil(t, j)) \subseteq VidsOf(t)
<1>1. IsTrail(t)
  BY DEF TypedTrail
<1>2. /\ DOMAIN KeptUntil(t, j) = {i \in DOMAIN t : t[i].level <= j}
      /\ \A i \in DOMAIN KeptUntil(t, j) : KeptUntil(t, j)[i] = t[i]
  BY <1>1, KeptIs
<1>3. /\ DOMAIN KeptUntil(t, k) = {i \in DOMAIN t : t[i].level <= k}
      /\ \A i \in DOMAIN KeptUntil(t, k) : KeptUntil(t, k)[i] = t[i]
  BY <1>1, KeptIs
<1>4. \A i \in DOMAIN t : t[i].level \in Nat
  BY <1>1, TrailTypes
<1>5. \A i \in DOMAIN KeptUntil(t, j) :
        /\ i \in DOMAIN t /\ i \in DOMAIN KeptUntil(t, k)
        /\ KeptUntil(t, j)[i] = t[i] /\ KeptUntil(t, k)[i] = t[i]
  BY <1>2, <1>3, <1>4
<1>6. \A v : IsTrue(KeptUntil(t, j), v) => IsTrue(KeptUntil(t, k), v) /\ IsTrue(t, v)
  BY <1>5 DEF IsTrue
<1> QED
  BY <1>6 DEF VidsOf

\* Sets of vertices that fit are closed under subsets (monotone costs).
LEMMA FittingClosed ==
  ASSUME TypeOK, NEW big \in setup.fitting, NEW small \in SUBSET big
  PROVE  small \in setup.fitting
BY SetupIs

\* A theory that may be handed to the search: what Verdict says of it.
Reported(t, th) ==
  /\ th.conflict => th.vids # << >>
  /\ th.conflict /\ DecisionLevel(t) > 0 =>
       \E i \in DOMAIN t : t[i].level = DecisionLevel(t) /\ t[i].lit \in setup.vids
  /\ ~ setup.heuristic /\ th.conflict => ToSet(th.vids) \notin setup.fitting
  /\ setup.interval = 1 /\ ~ th.conflict => ToSet(th.vids) \in setup.fitting

\* A push keeps what is known of a verdict: an old one stays about the
\* current level, a new one is not yet reported.
LEMMA PushReported ==
  ASSUME TypeOK, NEW t, TypedTrail(t), NEW th \in Theories, Reported(t, th),
         th.conflict /\ th.vids # << >> => th.checked = FALSE,
         NEW lit, NEW level, NEW reason, Enqueues(t, lit, level, reason),
         th.conflict => level = DecisionLevel(t),
         NEW pushed \in Push(setup, th, lit)
  PROVE  /\ Reported(Append(t, Entry(lit, level, reason)), pushed)
         /\ pushed.conflict => pushed.checked = FALSE
<1> DEFINE e == Entry(lit, level, reason)
           longer == Append(t, e)
<1>1. /\ IsTrail(t) /\ e \in Entries /\ e.lit = lit /\ e.level = level
      /\ DecisionLevel(longer) = level /\ lit \in Literals
  <2>1. lit \in Literals
    BY DEF Enqueues
  <2> QED
    BY <2>1, EnqueueIs DEF TypedTrail
<1> HIDE DEF e
<1>2. /\ DOMAIN longer = DOMAIN t \union {Len(t) + 1} /\ longer[Len(t) + 1] = e
      /\ \A i \in DOMAIN t : longer[i] = t[i]
  BY <1>1, AppendIs
<1> HIDE DEF longer
<1>3. CASE lit \notin setup.vids
  <2>1. pushed = th
    BY <1>1, <1>3, PushIs
  <2>2. ASSUME th.conflict, level > 0
        PROVE  \E i \in DOMAIN longer : longer[i].level = level /\ longer[i].lit \in setup.vids
    <3>1. PICK i \in DOMAIN t : t[i].level = DecisionLevel(t) /\ t[i].lit \in setup.vids
      BY <2>2 DEF Reported
    <3> QED
      BY <1>2, <2>2, <3>1
  <2> QED
    BY <1>1, <2>1, <2>2 DEF Reported, longer, e
<1>4. CASE lit \in setup.vids
  <2>1. /\ pushed.vids = Append(th.vids, lit)
        /\ \/ /\ setup.interval # 1
              /\ pushed.conflict = th.conflict /\ pushed.checked = th.checked
           \/ /\ pushed.checked = FALSE
              /\ ~ pushed.conflict => ToSet(pushed.vids) \in setup.fitting
              /\ pushed.conflict /\ ~ setup.heuristic => ToSet(pushed.vids) \notin setup.fitting
    <3>1. lit \in Literals
      BY <1>1
    <3>2. pushed.vids = Append(th.vids, lit)
      BY <1>4, <3>1, PushIs
    <3>3. \/ /\ setup.interval # 1
             /\ pushed.conflict = th.conflict /\ pushed.checked = th.checked
          \/ /\ pushed.checked = FALSE
             /\ ~ pushed.conflict => ToSet(pushed.vids) \in setup.fitting
             /\ pushed.conflict /\ ~ setup.heuristic => ToSet(pushed.vids) \notin setup.fitting
      BY <1>4, <3>1, PushIs
    <3> QED
      BY <3>2, <3>3
  <2>2. th.vids \in Seq(setup.vids) /\ th.vids \in Seq(Int) /\ lit \in Int
    <3>1. setup.vids \subseteq Int
      BY SetupIs
    <3> QED
      BY <1>4, <3>1 DEF Theories
  <2>3. ToSet(pushed.vids) = ToSet(th.vids) \union {lit}
    BY <2>1, <2>2, SetOfAppend
  <2>4. pushed.vids # << >>
    BY <2>1, <2>2
  <2>5. \E i \in DOMAIN longer : longer[i].level = level /\ longer[i].lit \in setup.vids
    BY <1>1, <1>2, <1>4
  <2>6. ~ setup.heuristic /\ pushed.conflict => ToSet(pushed.vids) \notin setup.fitting
    <3> SUFFICES ASSUME ~ setup.heuristic, pushed.conflict, ToSet(pushed.vids) \in setup.fitting
                 PROVE  FALSE
      OBVIOUS
    <3>1. th.conflict
      BY <2>1
    <3>2. ToSet(th.vids) \notin setup.fitting
      BY <3>1 DEF Reported
    <3>3. ToSet(th.vids) \in SUBSET ToSet(pushed.vids)
      BY <2>3
    <3> QED
      BY <3>2, <3>3, FittingClosed
  <2>7. setup.interval = 1 /\ ~ pushed.conflict => ToSet(pushed.vids) \in setup.fitting
    BY <2>1
  <2>8. pushed.conflict => pushed.checked = FALSE
    BY <2>1 DEF Reported
  <2>9. Reported(longer, pushed)
    BY <1>1, <2>4, <2>5, <2>6, <2>7 DEF Reported
  <2> QED
    BY <2>8, <2>9 DEF longer, e
<1> QED
  BY <1>3, <1>4

\* Reporting a verdict changes nothing else of it.
LEMMA CheckedReported ==
  ASSUME NEW t, NEW th \in Theories, Reported(t, th)
  PROVE  Reported(t, Checked(th))
BY CheckedIs DEF Reported

\* The next state of Verdict, from what is known of the theory and the trail.
LEMMA VerdictNext ==
  ASSUME setup' = setup, Reported(trail', theory'),
         pc' = "decide" => ~ theory'.conflict, pc' \in {"replay", "propagate"} /\ theory'.conflict => ~ theory'.checked,
         pc' \notin {"parse", "parsed unit"},
         setup.interval = 1 /\ Searching' /\ Level' > 0
           => VidsOf(KeptUntil(trail', Level' - 1)) \in setup.fitting
  PROVE  Verdict'
BY DEF Verdict, Reported, Level, VidsOf, Parsing, Searching

\* Every step keeps it: the theory is checked after every push of propagate
\* and again before a decision, so that a verdict is reported before the
\* search goes on.
LEMMA VerdictStep ==
  ASSUME IInv, Next
  PROVE  Verdict'
<1>1. /\ TypeOK /\ TrailOK /\ TypedTrail(trail) /\ Level \in Nat /\ theory \in Theories
      /\ setup' = setup /\ Level = DecisionLevel(trail) /\ pc \in Phases
      /\ Early => Level = 0
  BY TrailIsTyped, SetupKept DEF IInv, TypeOK, Theories, Level
<1>2. Level' = DecisionLevel(trail') /\ Level' \in Nat /\ (Early' => Level' = 0)
  BY TrailStep
<1>3. /\ Parsing \/ pc = "decide" => ~ theory.conflict
      /\ pc \in {"replay", "propagate"} /\ theory.conflict => ~ theory.checked
      /\ pc # "returned" => Reported(trail, theory)
      /\ setup.interval = 1 /\ Searching /\ Level > 0 =>
           VidsOf(KeptUntil(trail, Level - 1)) \in setup.fitting
  <2>1. pc # "returned" => Searching \/ Level = 0
    BY <1>1 DEF Searching, Phases, Early, Parsing
  <2> QED
    BY <1>1, <2>1 DEF IInv, Verdict, Reported
<1>4. Searching => Mirrors(trail, theory.vids) /\ ToSet(theory.vids) = VidsOf(trail)
  BY <1>1, MirrorSet DEF IInv, Mirror
<1>5. ASSUME Parsing, theory' = theory, pc' \in {"parse", "parsed unit", "replay"}
      PROVE  Verdict'
  BY <1>1, <1>3, <1>5 DEF IInv, Verdict, Parsing, Searching
<1>6. CASE AddClause
  BY <1>5, <1>6 DEF AddClause, Parsing
<1>7. CASE ParsedUnit \/ ParsedConflict \/ ParsedFixpoint \/ Parsed
  BY <1>5, <1>7 DEF ParsedUnit, ParsedConflict, ParsedFixpoint, Parsed, Parsing
<1>8. CASE Replay
  <2>1. /\ pc = "replay" /\ pc' = "replay" /\ trail' = trail /\ theory' \in Theories
        /\ Level = 0
    BY <1>1, <1>8, ReplayIs DEF Replay, Early
  <2>2. Reported(trail, theory)
    BY <1>3, <2>1
  <2>3. CASE theory' = theory
    BY <1>1, <1>3, <2>1, <2>2, <2>3, VerdictNext DEF Searching
  <2>4. CASE /\ next \in setup.vids /\ IsTrue(trail, next)
             /\ theory' \in Push(setup, theory, next)
             /\ theory'.vids = Append(theory.vids, next)
    <3>1. next \in Literals /\ setup.vids \subseteq Int
      BY <1>1, <2>4, SetupIs
    <3>2. \/ /\ setup.interval # 1
             /\ theory'.conflict = theory.conflict /\ theory'.checked = theory.checked
          \/ /\ theory'.checked = FALSE
             /\ ~ theory'.conflict => ToSet(theory'.vids) \in setup.fitting
             /\ theory'.conflict /\ ~ setup.heuristic => ToSet(theory'.vids) \notin setup.fitting
      BY <1>1, <2>4, <3>1, PushIs
    <3>3. /\ ToSet(theory'.vids) = ToSet(theory.vids) \union {next} /\ theory'.vids # << >>
      <4>1. theory.vids \in Seq(Int) /\ next \in Int
        BY <1>1, <2>4, <3>1 DEF Theories
      <4> QED
        BY <2>4, <4>1, SetOfAppend
    <3>4. ~ setup.heuristic /\ theory'.conflict => ToSet(theory'.vids) \notin setup.fitting
      <4> SUFFICES ASSUME ~ setup.heuristic, theory'.conflict,
                          ToSet(theory'.vids) \in setup.fitting
                   PROVE  FALSE
        OBVIOUS
      <4>1. theory.conflict
        BY <3>2
      <4>2. ToSet(theory.vids) \notin setup.fitting
        BY <2>2, <4>1 DEF Reported
      <4>3. ToSet(theory.vids) \in SUBSET ToSet(theory'.vids)
        BY <3>3
      <4> QED
        BY <1>1, <4>2, <4>3, FittingClosed
    <3>5. Reported(trail', theory')
      BY <1>1, <2>1, <3>2, <3>3, <3>4 DEF Reported
    <3>6. theory'.conflict => ~ theory'.checked
      BY <1>3, <2>1, <3>2
    <3> QED
      BY <1>1, <2>1, <3>5, <3>6, VerdictNext DEF Searching
  <2> QED
    BY <1>8, <2>3, <2>4, ReplayIs DEF IInv
<1>9. CASE StartSearch
  <2>1. /\ pc = "replay" /\ trail' = trail /\ theory' = theory
        /\ pc' \in {"propagate", "returned"} /\ Level' = 0
    BY <1>1, <1>9 DEF StartSearch, Early, Level
  <2>2. Reported(trail', theory') /\ (theory'.conflict => ~ theory'.checked)
    BY <1>3, <2>1
  <2>3. ~ (Level' > 0)
    BY <2>1
  <2>4. pc' # "decide" /\ pc' \notin {"parse", "parsed unit"}
    BY <2>1
  <2> QED
    BY <1>1, <2>2, <2>3, <2>4, VerdictNext
<1>10. CASE UnitPropagation
  <2>0. PICK c \in Visited : \E lit \in c :
          /\ UnitUnder(trail, c, lit) /\ trail' = Append(trail, Entry(lit, Level, c))
          /\ \E pushed \in Push(setup, theory, lit) : CheckTheory(pushed, "propagate")
    BY <1>10 DEF UnitPropagation
  <2>1. PICK lit \in c :
          /\ UnitUnder(trail, c, lit) /\ trail' = Append(trail, Entry(lit, Level, c))
          /\ \E pushed \in Push(setup, theory, lit) : CheckTheory(pushed, "propagate")
    BY <2>0
  <2>2. PICK pushed \in Push(setup, theory, lit) : CheckTheory(pushed, "propagate")
    BY <2>1
  <2>3. c \in SUBSET Literals /\ lit \in Literals
    BY <1>1 DEF Visited, Watched, TypeOK
  <2>4. Enqueues(trail, lit, Level, c)
    BY <1>1, <2>1, <2>3, UnitEnqueues
  <2>5. pushed \in Theories /\ pc = "propagate"
    BY <1>1, <1>10, <2>3, PushIs DEF UnitPropagation
  <2>6. Reported(trail', pushed) /\ (pushed.conflict => pushed.checked = FALSE)
    <3>1. Reported(trail, theory) /\ (theory.conflict => theory.checked = FALSE)
      <4>1. theory.checked \in BOOLEAN
        BY <1>1 DEF Theories
      <4> QED
        BY <1>3, <2>5, <4>1
    <3> QED
      BY <1>1, <2>1, <2>4, <3>1, PushReported
  <2>7. /\ theory' = Checked(pushed) /\ pc' \in {"propagate", "conflict"}
        /\ pc' = "propagate" => ~ HasConflict(pushed)
    BY <2>2 DEF CheckTheory
  <2>8. Reported(trail', theory') /\ (pc' = "propagate" => ~ theory'.conflict)
    BY <2>5, <2>6, <2>7, CheckedReported, CheckedIs DEF HasConflict
  <2>9. Level' = Level /\ (Level > 0 => KeptUntil(trail', Level - 1) = KeptUntil(trail, Level - 1))
    <3>1. Level - 1 \in Int /\ Level - 1 < Level
      BY <1>1
    <3> QED
      BY <1>1, <1>2, <2>1, <2>4, <3>1, EnqueueIs
  <2>10. setup.interval = 1 /\ Searching' /\ Level' > 0
           => VidsOf(KeptUntil(trail', Level' - 1)) \in setup.fitting
    BY <1>3, <2>5, <2>9 DEF Searching
  <2> QED
    BY <1>1, <2>7, <2>8, <2>10, VerdictNext
<1>11. CASE ClauseConflict
  <2>1. trail' = trail /\ theory' = theory /\ pc = "propagate" /\ pc' = "conflict" /\ Level' = Level
    BY <1>11 DEF ClauseConflict, Level
  <2> QED
    BY <1>1, <1>3, <2>1, VerdictNext DEF Searching
<1>12. CASE PropagationEnds
  <2>1. /\ trail' = trail /\ theory' = Checked(theory) /\ pc = "propagate"
        /\ pc' \in {"conflict", "decide"} /\ Level' = Level
        /\ pc' = "decide" => ~ HasConflict(theory)
    BY <1>12 DEF PropagationEnds, CheckTheory, Level
  <2>2. Reported(trail', theory') /\ theory'.conflict = theory.conflict
    BY <1>1, <1>3, <2>1, CheckedReported, CheckedIs
  <2>3. pc' = "decide" => ~ theory'.conflict
    BY <1>3, <2>1, <2>2 DEF HasConflict
  <2> QED
    BY <1>1, <1>3, <2>1, <2>2, <2>3, VerdictNext DEF Searching
<1>13. CASE ConflictAtZero
  <2>1. trail' = trail /\ theory' = theory /\ pc = "conflict" /\ pc' = "returned"
    BY <1>13 DEF ConflictAtZero, Return
  <2> QED
    BY <1>1, <1>3, <2>1, VerdictNext DEF Searching
<1>14. CASE Learn
  <2> DEFINE learnt == Learnt(trail, confl)
             lit == Asserting(trail, learnt)
             level == BacktrackLevel(trail, learnt)
             reason == IF learnt = {lit} THEN {} ELSE learnt
             shrunk == Shrink(setup, theory, LitsAbove(trail, level))
             kept == KeptUntil(trail, level)
  <2>1. Learnable(learnt, lit, level)
    BY <1>14, LearnIs DEF Learn, IInv
  <2>2. /\ trail' = Append(kept, Entry(lit, level, reason))
        /\ theory' \in Push(setup, shrunk, lit) /\ pc = "conflict" /\ pc' = "propagate"
        /\ Level > 0
    BY <1>14 DEF Learn
  <2> HIDE DEF learnt, lit, level
  <2>3. /\ level \in Nat /\ level \in Int /\ level < Level /\ lit \in Literals
        /\ level <= Level - 1 /\ Level - 1 \in Int
        /\ Enqueues(kept, lit, level, reason)
    BY <1>1, <2>1 DEF Learnable, Enqueues
  <2>4. Mirrors(trail, theory.vids) /\ Reported(trail, theory) /\ Searching
    BY <1>3, <1>4, <2>2 DEF Searching
  <2>5. /\ shrunk \in Theories /\ Mirrors(kept, shrunk.vids)
        /\ shrunk.conflict => /\ theory.conflict
                              /\ ~ \E i \in DOMAIN trail : /\ trail[i].level > level
                                                           /\ trail[i].lit \in setup.vids
    BY <1>1, <2>3, <2>4, MirrorShrink
  <2>6. TypedTrail(kept)
    BY <1>1, <2>3, KeptTyped
  <2>7. ~ shrunk.conflict
    <3> SUFFICES ASSUME shrunk.conflict PROVE FALSE
      OBVIOUS
    <3>1. PICK i \in DOMAIN trail : trail[i].level = Level /\ trail[i].lit \in setup.vids
      BY <1>1, <2>2, <2>4, <2>5 DEF Reported
    <3> QED
      BY <2>3, <2>5, <3>1
  <2>8. VidsOf(kept) \subseteq VidsOf(KeptUntil(trail, Level - 1))
    BY <1>1, <2>3, VidsOfGrows
  <2>9. ToSet(shrunk.vids) = VidsOf(kept)
    BY <1>1, <2>5, <2>6, MirrorSet
  <2> HIDE DEF shrunk, reason
  <2>10. setup.interval = 1 => VidsOf(KeptUntil(trail, Level - 1)) \in setup.fitting
    BY <1>3, <2>2, <2>4
  <2>11. Reported(kept, shrunk)
    <3>1. setup.interval = 1 => ToSet(shrunk.vids) \in setup.fitting
      BY <1>1, <2>8, <2>9, <2>10, FittingClosed
    <3> QED
      BY <2>7, <3>1 DEF Reported
  <2>12. Reported(trail', theory') /\ (theory'.conflict => theory'.checked = FALSE)
    BY <1>1, <2>2, <2>3, <2>5, <2>6, <2>7, <2>11, PushReported
  <2>13. setup.interval = 1 /\ Level' > 0 => VidsOf(KeptUntil(trail', Level' - 1)) \in setup.fitting
    <3> SUFFICES ASSUME setup.interval = 1, Level' > 0
                 PROVE  VidsOf(KeptUntil(trail', Level' - 1)) \in setup.fitting
      OBVIOUS
    <3>0. Level' = level
      BY <1>1, <1>2, <2>2, <2>3, <2>6, EnqueueIs
    <3>1. level - 1 \in Int /\ level - 1 < level /\ level - 1 <= level /\ level - 1 <= Level - 1
      BY <2>3
    <3>2. KeptUntil(trail', level - 1) = KeptUntil(kept, level - 1)
      BY <1>1, <2>2, <2>3, <2>6, <3>1, EnqueueIs
    <3>3. KeptUntil(kept, level - 1) = KeptUntil(trail, level - 1)
      BY <1>1, <2>3, <3>1, KeptOfKept DEF TypedTrail
    <3>4. VidsOf(KeptUntil(trail, level - 1)) \subseteq VidsOf(KeptUntil(trail, Level - 1))
      BY <1>1, <2>3, <3>1, VidsOfGrows
    <3> QED
      BY <1>1, <2>10, <3>0, <3>2, <3>3, <3>4, FittingClosed
  <2> QED
    BY <1>1, <2>2, <2>12, <2>13, VerdictNext
<1>15. CASE OutOfBudget \/ Restart \/ ModelFound
  <2> DEFINE shrunk == Shrink(setup, theory, LitsAbove(trail, 0))
  <2>1. /\ theory' = shrunk /\ trail' = KeptUntil(trail, 0)
        /\ pc = "decide" /\ pc' \in {"returned", "propagate"}
    BY <1>15 DEF OutOfBudget, Restart, ModelFound, BackToZero, Return
  <2>2. 0 \in Nat /\ Searching /\ Mirrors(trail, theory.vids) /\ ~ theory.conflict
    BY <1>3, <1>4, <2>1 DEF Searching
  <2>3. /\ shrunk \in Theories /\ Mirrors(KeptUntil(trail, 0), shrunk.vids)
        /\ ~ shrunk.conflict
    BY <1>1, <2>2, MirrorShrink
  <2>4. Level' = 0
    BY <1>1, <1>2, <2>1, ZeroLevel
  <2>5. VidsOf(KeptUntil(trail, 0)) \subseteq VidsOf(trail)
    <3>1. 0 \in Int /\ 0 <= 0
      OBVIOUS
    <3> QED
      BY <1>1, <3>1, VidsOfGrows
  <2>6. ToSet(shrunk.vids) = VidsOf(KeptUntil(trail, 0))
    <3>1. TypedTrail(KeptUntil(trail, 0))
      BY <1>1, KeptTyped
    <3> QED
      BY <1>1, <2>3, <3>1, MirrorSet
  <2> HIDE DEF shrunk
  <2>7. setup.interval = 1 => ToSet(shrunk.vids) \in setup.fitting
    <3>1. setup.interval = 1 => VidsOf(trail) \in setup.fitting
      BY <1>3, <1>4, <2>1, <2>2 DEF Reported
    <3> QED
      BY <1>1, <2>5, <2>6, <3>1, FittingClosed
  <2>8. Reported(trail', theory')
    BY <2>1, <2>3, <2>7 DEF Reported
  <2>9. ~ (Level' > 0)
    BY <2>4
  <2>10. ~ theory'.conflict
    BY <2>1, <2>3
  <2>11. pc' # "decide" /\ pc' \notin {"parse", "parsed unit"}
    BY <2>1
  <2> QED
    BY <1>1, <2>8, <2>9, <2>10, <2>11, VerdictNext
<1>16. CASE Decide
  <2>1. PICK lit \in Literals :
          /\ ~ Assigned(trail, lit) /\ trail' = Append(trail, Entry(lit, Level + 1, {}))
          /\ theory' \in Push(setup, theory, lit)
    BY <1>16 DEF Decide
  <2>2. Enqueues(trail, lit, Level + 1, {})
    BY <1>1, <2>1, DecisionEnqueues
  <2>3. pc = "decide" /\ pc' = "propagate" /\ Searching
    BY <1>16 DEF Decide, Searching
  <2>4. Reported(trail, theory) /\ ~ theory.conflict
    BY <1>3, <2>3
  <2>5. Reported(trail', theory') /\ (theory'.conflict => theory'.checked = FALSE)
    BY <1>1, <2>1, <2>2, <2>4, PushReported
  <2>6. Level' = Level + 1 /\ KeptUntil(trail', Level) = trail /\ Level' - 1 = Level
    <3>1. Level \in Int /\ Level < Level + 1 /\ \A i \in DOMAIN trail : trail[i].level <= Level
      BY <1>1, TrailIsTyped
    <3>2. KeptUntil(trail, Level) = trail
      BY <1>1, <3>1, AllKept DEF TypedTrail
    <3> QED
      BY <1>1, <1>2, <2>1, <2>2, <3>1, <3>2, EnqueueIs
  <2>7. setup.interval = 1 => VidsOf(trail) \in setup.fitting
    BY <1>4, <2>3, <2>4 DEF Reported
  <2> QED
    BY <1>1, <2>3, <2>5, <2>6, <2>7, VerdictNext
<1>17. CASE Done
  <2>1. vars' = vars /\ pc' = "returned"
    BY <1>17 DEF Done, vars
  <2>2. pc = "returned" /\ theory' = theory
    BY <1>17, <2>1 DEF vars, Done
  <2> QED
    BY <1>1, <2>1, <2>2 DEF IInv, Verdict, Parsing, Searching
<1> QED
  BY <1>6, <1>7, <1>8, <1>9, <1>10, <1>11, <1>12, <1>13, <1>14, <1>15, <1>16, <1>17 DEF Next

-----------------------------------------------------------------------------
(* Steps: the formula.                                                      *)

\* What is fixed at level 0 stays.
LEMMA ZeroGrows ==
  ASSUME IInv, Next, NEW c, Satisfied(KeptUntil(trail, 0), c), c \subseteq Int
  PROVE  Satisfied(KeptUntil(trail', 0), c)
<1>1. TypeOK /\ TypedTrail(trail) /\ IsTrail(trail) /\ 0 \in Int /\ 0 <= 0
  BY TrailIsTyped DEF IInv, TypedTrail
<1>2. PICK x \in c : IsTrue(KeptUntil(trail, 0), x)
  BY DEF Satisfied
<1>3. IsTrue(trail, x) /\ x \in Int
  <2>1. /\ DOMAIN KeptUntil(trail, 0) = {i \in DOMAIN trail : trail[i].level <= 0}
        /\ \A i \in DOMAIN KeptUntil(trail, 0) : KeptUntil(trail, 0)[i] = trail[i]
    BY <1>1, KeptIs
  <2> QED
    BY <1>2, <2>1 DEF IsTrue
<1>4. ASSUME NEW t, TypedTrail(t), IsTrue(KeptUntil(t, 0), x), IsTrue(t, x),
             NEW lit, NEW level, NEW reason, Grows(t, lit, level, reason)
      PROVE  IsTrue(KeptUntil(trail', 0), x)
  <2>1. level \in Nat
    BY <1>4 DEF Grows, Enqueues
  <2>2. /\ 0 < level => KeptUntil(trail', 0) = KeptUntil(t, 0)
        /\ 0 >= level => KeptUntil(trail', 0) = trail'
        /\ IsTrue(trail', x) <=> IsTrue(t, x) \/ x = lit
    BY <1>1, <1>3, <1>4, EnqueueIs DEF Grows
  <2> QED
    BY <1>4, <2>1, <2>2
<1>5. CASE trail' = trail
  BY <1>2, <1>5 DEF Satisfied
<1>6. CASE trail' = KeptUntil(trail, 0)
  <2>1. KeptUntil(trail', 0) = KeptUntil(trail, 0)
    BY <1>1, <1>6, KeptOfKept
  <2> QED
    BY <1>2, <2>1 DEF Satisfied
<1>7. CASE \E lit, level, reason : Grows(trail, lit, level, reason)
  <2>1. IsTrue(KeptUntil(trail', 0), x)
    BY <1>1, <1>2, <1>3, <1>4, <1>7
  <2> QED
    BY <2>1 DEF Satisfied
<1>8. CASE \E lit, level, reason : level \in Nat /\ Grows(KeptUntil(trail, level), lit, level, reason)
  <2>1. PICK lit, level, reason :
          level \in Nat /\ Grows(KeptUntil(trail, level), lit, level, reason)
    BY <1>8
  <2> DEFINE t == KeptUntil(trail, level)
  <2>2. level \in Int /\ 0 <= level
    BY <2>1
  <2>3. TypedTrail(t) /\ KeptUntil(t, 0) = KeptUntil(trail, 0)
    BY <1>1, <2>2, KeptTyped, KeptOfKept
  <2>4. IsTrue(t, x)
    <3>1. /\ DOMAIN t = {i \in DOMAIN trail : trail[i].level <= level}
          /\ \A i \in DOMAIN t : t[i] = trail[i]
      BY <1>1, <2>2, KeptIs
    <3>2. /\ DOMAIN KeptUntil(trail, 0) = {i \in DOMAIN trail : trail[i].level <= 0}
          /\ \A i \in DOMAIN KeptUntil(trail, 0) : KeptUntil(trail, 0)[i] = trail[i]
      BY <1>1, KeptIs
    <3>3. \A i \in DOMAIN trail : trail[i].level \in Nat
      BY <1>1, TrailTypes
    <3> HIDE DEF t
    <3>4. PICK i \in DOMAIN KeptUntil(trail, 0) : KeptUntil(trail, 0)[i].lit = x
      BY <1>2 DEF IsTrue
    <3>5. i \in DOMAIN trail /\ trail[i].level <= level /\ trail[i].lit = x
      BY <2>1, <2>2, <3>2, <3>3, <3>4
    <3> QED
      BY <3>1, <3>5 DEF IsTrue
  <2> HIDE DEF t
  <2>5. IsTrue(KeptUntil(trail', 0), x)
    BY <1>2, <1>4, <2>1, <2>3, <2>4 DEF t
  <2> QED
    BY <2>5 DEF Satisfied
<1> QED
  BY <1>5, <1>6, <1>7, <1>8, TrailSteps

\* A clause of the formula is still said.
Said(i, n, phase, fixed, db) ==
  \/ phase /\ i >= n
  \/ Tautology(setup.formula[i])
  \/ Satisfied(fixed, setup.formula[i])
  \/ \E d \in db : d \subseteq setup.formula[i]

\* Every step keeps what the formula says: a clause of the file is satisfied
\* at level 0 or some clause kept is a part of it.
LEMMA FormulaStep ==
  ASSUME IInv, Next
  PROVE  FormulaKept'
<1>1. /\ TypeOK /\ TrailOK /\ TypedTrail(trail) /\ setup' = setup /\ Level \in Nat
      /\ next \in Nat \ {0} /\ pc \in Phases
      /\ Early => Level = 0
  BY TrailIsTyped, SetupKept DEF IInv, TypeOK
<1>2. /\ Searching => ok
      /\ ok /\ pc # "returned" =>
           \A i \in DOMAIN setup.formula : Said(i, next, Parsing, KeptUntil(trail, 0), clauses)
  BY DEF IInv, FormulaKept, Said
<1>3. /\ DOMAIN setup.formula = 1 .. Len(setup.formula) /\ Len(setup.formula) \in Nat
      /\ \A i \in DOMAIN setup.formula : /\ setup.formula[i] \subseteq Literals
                                         /\ setup.formula[i] \subseteq Int
  <2>1. setup.formula \in Seq(SUBSET Literals) /\ Literals \subseteq Int
    BY <1>1, SetupIs DEF Lit
  <2>2. /\ DOMAIN setup.formula = 1 .. Len(setup.formula) /\ Len(setup.formula) \in Nat
        /\ \A i \in DOMAIN setup.formula : setup.formula[i] \in SUBSET Literals
    BY <2>1
  <2>3. \A i \in DOMAIN setup.formula : /\ setup.formula[i] \subseteq Literals
                                        /\ setup.formula[i] \subseteq Int
    BY <2>1, <2>2
  <2> QED
    BY <2>2, <2>3
<1>18. DOMAIN setup.formula = 1 .. Len(setup.formula) /\ Len(setup.formula) \in Nat
  BY <1>3
<1>19. next \in Nat /\ next >= 1
  BY <1>1
<1>4. \A i \in DOMAIN setup.formula : Satisfied(KeptUntil(trail, 0), setup.formula[i])
                                    => Satisfied(KeptUntil(trail', 0), setup.formula[i])
  BY <1>3, ZeroGrows
<1>5. ASSUME Searching' => ok',
             ok' /\ pc' # "returned" =>
               \A i \in DOMAIN setup.formula : Said(i, next', Parsing', KeptUntil(trail', 0), clauses')
      PROVE  FormulaKept'
  BY <1>1, <1>5 DEF FormulaKept, Said, Searching, Parsing
<1>6. ASSUME pc' = "returned" PROVE FormulaKept'
  BY <1>5, <1>6 DEF Searching
<1>7. ASSUME ok' = ok, pc # "returned", clauses' = clauses, Searching' => ok,
             \A i \in DOMAIN setup.formula : Parsing /\ i >= next => Parsing' /\ i >= next'
      PROVE  FormulaKept'
  <2>1. ASSUME ok', NEW i \in DOMAIN setup.formula
        PROVE  Said(i, next', Parsing', KeptUntil(trail', 0), clauses')
    <3>1. Said(i, next, Parsing, KeptUntil(trail, 0), clauses)
      BY <1>2, <1>7, <2>1
    <3> QED
      BY <1>4, <1>7, <3>1 DEF Said
  <2> QED
    BY <1>5, <1>7, <2>1
<1>8. CASE AddClause
  <2> DEFINE clause == setup.formula[next]
             rest == Simplified(clause)
  <2>1. /\ pc = "parse" /\ Parsing /\ next \in DOMAIN setup.formula /\ next' = next + 1
        /\ pc' \in {"parse", "parsed unit"} /\ Parsing' /\ ~ Searching' /\ Early
    <3>1. /\ pc = "parse" /\ next <= Len(setup.formula) /\ next' = next + 1
          /\ pc' \in {"parse", "parsed unit"}
      BY <1>8 DEF AddClause
    <3>2. next \in DOMAIN setup.formula
      <4>1. next <= Len(setup.formula)
        BY <3>1
      <4> QED
        BY <1>18, <1>19, <4>1
    <3> QED
      BY <3>1, <3>2 DEF Parsing, Searching, Early
  <2>2. KeptUntil(trail, 0) = trail
    BY <1>1, <2>1, FlatTrail DEF Level
  <2>3. clauses \subseteq clauses'
    BY <1>8 DEF AddClause
  <2>4. ASSUME ok' PROVE ok /\ Said(next, next', Parsing', KeptUntil(trail', 0), clauses')
    <3>1. CASE ~ ok \/ Tautology(clause) \/ Satisfied(trail, clause)
      <4>1. ok' = ok
        BY <1>8, <3>1 DEF AddClause
      <4> QED
        BY <1>4, <2>1, <2>2, <2>4, <3>1, <4>1 DEF Said
    <3>2. CASE ~ (~ ok \/ Tautology(clause) \/ Satisfied(trail, clause))
      <4>1. \/ ok' = FALSE
            \/ \E lit \in rest : trail' = Append(trail, Entry(lit, 0, {}))
            \/ clauses' = clauses \union {rest}
        BY <1>8, <3>2 DEF AddClause
      <4>2. CASE clauses' = clauses \union {rest}
        <5>1. rest \in clauses' /\ rest \subseteq clause
          BY <4>2 DEF Simplified
        <5> QED
          BY <3>2, <5>1 DEF Said
      <4>3. CASE \E lit \in rest : trail' = Append(trail, Entry(lit, 0, {}))
        <5>1. PICK lit \in rest : trail' = Append(trail, Entry(lit, 0, {}))
          BY <4>3
        <5>2. Enqueues(trail, lit, 0, {}) /\ lit \in clause /\ lit \in Int
          <6>1. clause \in SUBSET Literals /\ clause \subseteq Int /\ lit \in clause
            BY <1>3, <2>1 DEF Simplified
          <6> QED
            BY <1>1, <2>1, <3>2, <6>1, AddsUnit
        <5>3. 0 \in Int /\ 0 >= 0
          OBVIOUS
        <5>4. KeptUntil(trail', 0) = trail' /\ IsTrue(trail', lit)
          BY <1>1, <5>1, <5>2, <5>3, EnqueueIs
        <5>5. Satisfied(KeptUntil(trail', 0), clause)
          BY <5>2, <5>4 DEF Satisfied
        <5> QED
          BY <3>2, <5>5 DEF Said
      <4> QED
        BY <2>4, <4>1, <4>2, <4>3
    <3> QED
      BY <3>1, <3>2
  <2> HIDE DEF clause, rest
  <2>5. ASSUME ok', NEW i \in DOMAIN setup.formula
        PROVE  Said(i, next', Parsing', KeptUntil(trail', 0), clauses')
    <3>1. CASE i = next
      BY <2>4, <2>5, <3>1
    <3>2. CASE i # next
      <4>1. Said(i, next, Parsing, KeptUntil(trail, 0), clauses)
        BY <1>2, <2>1, <2>4, <2>5
      <4>2. i >= next => i >= next'
        <5>1. i \in 1 .. Len(setup.formula)
          BY <1>18
        <5>2. i \in Nat
          BY <5>1
        <5>3. next' = next + 1
          BY <2>1
        <5> QED
          BY <1>19, <3>2, <5>2, <5>3
      <4> QED
        BY <1>4, <2>1, <2>3, <4>1, <4>2 DEF Said
    <3> QED
      BY <3>1, <3>2
  <2> QED
    BY <1>5, <2>1, <2>5
<1>9. CASE ParsedUnit \/ ParsedFixpoint
  <2>1. /\ ok' = ok /\ pc # "returned" /\ clauses' = clauses /\ ~ Searching' /\ Parsing'
        /\ next' = next
    BY <1>9 DEF ParsedUnit, ParsedFixpoint, Parsing, Searching
  <2> QED
    BY <1>7, <2>1
<1>10. CASE ParsedConflict
  BY <1>5, <1>10 DEF ParsedConflict, Searching
<1>11. CASE Parsed
  <2>1. /\ ok' = ok /\ pc # "returned" /\ clauses' = clauses /\ ~ Searching'
        /\ next > Len(setup.formula)
    BY <1>11 DEF Parsed, Searching
  <2>2. \A i \in DOMAIN setup.formula : ~ (i >= next)
    BY <1>1, <1>3, <2>1
  <2> QED
    BY <1>7, <2>1, <2>2
<1>12. CASE Replay
  <2>1. /\ ok' = ok /\ pc # "returned" /\ clauses' = clauses /\ ~ Searching' /\ ~ Parsing
    BY <1>12 DEF Replay, Searching, Parsing
  <2> QED
    BY <1>7, <2>1
<1>13. CASE StartSearch
  <2>1. /\ ok' = ok /\ pc # "returned" /\ clauses' = clauses /\ ~ Parsing
        /\ pc' = IF ok THEN "propagate" ELSE "returned"
    BY <1>13 DEF StartSearch, Parsing
  <2>2. Searching' => ok
    BY <2>1 DEF Searching
  <2> QED
    BY <1>7, <2>1, <2>2
<1>14. CASE UnitPropagation \/ ClauseConflict \/ PropagationEnds \/ Learn \/ Restart
  <2>1. /\ ok' = ok /\ pc # "returned" /\ clauses' = clauses /\ ~ Parsing /\ Searching
    <3>1. CASE UnitPropagation
      BY <3>1 DEF UnitPropagation, Searching, Parsing
    <3>2. CASE ClauseConflict
      BY <3>2 DEF ClauseConflict, Searching, Parsing
    <3>3. CASE PropagationEnds
      BY <3>3 DEF PropagationEnds, Searching, Parsing
    <3>4. CASE Learn
      BY <3>4 DEF Learn, Searching, Parsing
    <3>5. CASE Restart
      BY <3>5 DEF Restart, Searching, Parsing
    <3> QED
      BY <1>14, <3>1, <3>2, <3>3, <3>4, <3>5
  <2> QED
    BY <1>2, <1>7, <2>1
<1>15. CASE ConflictAtZero \/ OutOfBudget \/ ModelFound
  <2>1. pc' = "returned"
    BY <1>15 DEF ConflictAtZero, OutOfBudget, ModelFound, Return
  <2> QED
    BY <1>6, <2>1
<1>16. CASE Decide
  <2>1. ok' = ok /\ pc = "decide" /\ pc' = "propagate" /\ ~ Parsing /\ Searching
    BY <1>16 DEF Decide, Parsing, Searching
  <2>2. \A c \in clauses : \/ c \in clauses'
                           \/ Level = 0 /\ (Satisfied(trail, c) \/ Simplified(c) \in clauses')
    BY <1>1, <1>16, DecideIs
  <2>3. Level = 0 => KeptUntil(trail, 0) = trail
    BY <1>1, FlatTrail DEF Level
  <2>4. ASSUME ok', NEW i \in DOMAIN setup.formula
        PROVE  Said(i, next', Parsing', KeptUntil(trail', 0), clauses')
    <3>1. Said(i, next, Parsing, KeptUntil(trail, 0), clauses)
      BY <1>2, <2>1, <2>4
    <3>2. CASE \E d \in clauses : d \subseteq setup.formula[i]
      <4>1. PICK d \in clauses : d \subseteq setup.formula[i]
        BY <3>2
      <4>2. CASE d \in clauses'
        BY <4>1, <4>2 DEF Said
      <4>3. CASE Level = 0 /\ Satisfied(trail, d)
        <5>1. Satisfied(KeptUntil(trail, 0), setup.formula[i])
          BY <2>3, <4>1, <4>3 DEF Satisfied
        <5> QED
          BY <1>4, <5>1 DEF Said
      <4>4. CASE Simplified(d) \in clauses'
        <5>1. Simplified(d) \subseteq setup.formula[i]
          BY <4>1 DEF Simplified
        <5> QED
          BY <4>4, <5>1 DEF Said
      <4> QED
        BY <2>2, <4>1, <4>2, <4>3, <4>4
    <3> QED
      BY <1>4, <2>1, <3>1, <3>2 DEF Said
  <2> QED
    BY <1>2, <1>5, <2>1, <2>4
<1>17. CASE Done
  <2>1. pc' = "returned"
    BY <1>17 DEF Done, vars
  <2> QED
    BY <1>6, <2>1
<1> QED
  BY <1>8, <1>9, <1>10, <1>11, <1>12, <1>13, <1>14, <1>15, <1>16, <1>17 DEF Next

-----------------------------------------------------------------------------
(* Steps: the conflict.                                                     *)

\* A conflict that analyze can work on.
Current(t, c) ==
  /\ Falsified(t, c)
  /\ c # {}
  /\ DecisionLevel(t) > 0 => \E lit \in c : LevelOf(t, lit) = DecisionLevel(t)

\* ConflictIsCurrent of the next state, with the trail and the conflict
\* spelled out.
LEMMA ConflictNext ==
  ASSUME pc' = "conflict" => Current(trail', confl')
  PROVE  ConflictIsCurrent'
BY DEF ConflictIsCurrent, Current, Level

\* The vertices on the trail, negated.
LEMMA TheoryConflictIsCurrent ==
  ASSUME TypeOK, NEW t, TypedTrail(t), NEW th \in Theories, Mirrors(t, th.vids),
         Reported(t, th), th.conflict
  PROVE  Current(t, ConflictClause(th))
<1> DEFINE c == ConflictClause(th)
<1>1. ToSet(th.vids) = VidsOf(t) /\ th.vids \in Seq(setup.vids) /\ IsTrail(t)
  BY MirrorSet DEF TypedTrail
<1>2. setup.vids \subseteq Nat \ {0}
  BY SetupIs
<1>3. c = {- v : v \in VidsOf(t)}
  BY <1>1 DEF ConflictClause
<1>4. Falsified(t, c)
  <2> SUFFICES ASSUME NEW v \in VidsOf(t) PROVE IsFalse(t, - v)
    BY <1>3 DEF Falsified
  <2>1. v \in Nat /\ IsTrue(t, v) /\ - (- v) = v
    BY <1>2 DEF VidsOf
  <2> QED
    BY <2>1 DEF IsFalse
<1>5. c # {}
  <2>1. th.vids # << >>
    BY DEF Reported
  <2>2. 1 \in DOMAIN th.vids
    BY <1>1, <2>1
  <2>3. th.vids[1] \in ToSet(th.vids)
    BY <2>2 DEF ToSet
  <2> QED
    BY <1>1, <1>3, <2>3
<1>6. ASSUME DecisionLevel(t) > 0
      PROVE  \E lit \in c : LevelOf(t, lit) = DecisionLevel(t)
  <2>1. PICK i \in DOMAIN t : t[i].level = DecisionLevel(t) /\ t[i].lit \in setup.vids
    BY <1>6 DEF Reported
  <2> DEFINE v == t[i].lit
  <2>2. v \in VidsOf(t) /\ v \in Int /\ - v \in Int
    BY <1>2, <2>1 DEF VidsOf, IsTrue
  <2>3. Var(- v) = Var(v)
    BY <2>2, SameVar
  <2>4. LevelOf(t, - v) = t[i].level
    BY <1>1, <2>2, <2>3, EntryIs
  <2> HIDE DEF v
  <2>5. - v \in c
    BY <1>3, <2>2
  <2> QED
    BY <2>1, <2>4, <2>5
<1> QED
  BY <1>4, <1>5, <1>6 DEF Current

\* A clause that propagate comes to.
LEMMA FoundIsCurrent ==
  ASSUME IInv, pc = "propagate", NEW c \in Visited, Falsified(trail, c)
  PROVE  Current(trail, c)
<1>1. /\ TypeOK /\ TrailOK /\ TypedTrail(trail) /\ IsTrail(trail) /\ Level \in Nat
      /\ Level = DecisionLevel(trail)
      /\ \A d \in Watched : Several(d)
      /\ \A k \in 0 .. Level - 1 : \A d \in Watched : Settles(KeptUntil(trail, k), d)
  BY TrailIsTyped DEF IInv, Propagated, Settled, TypedTrail, Level
<1>2. \A x \in c : x \in Lit /\ x \in Int /\ IsFalse(trail, x)
  <2>1. c \subseteq Literals
    BY <1>1 DEF Visited, Watched, TypeOK
  <2> QED
    BY <1>1, <2>1, SetupIs DEF Lit, Falsified
<1>3. CASE c \in Watched
  <2>1. c # {}
    BY <1>1, <1>3 DEF Several
  <2>2. ASSUME Level > 0 PROVE \E lit \in c : LevelOf(trail, lit) = Level
    <3> DEFINE k == Level - 1
               kept == KeptUntil(trail, k)
    <3>1. k \in Int /\ k \in 0 .. Level - 1
      BY <1>1, <2>2
    <3>2. Settles(kept, c)
      BY <1>1, <1>3, <3>1
    <3>3. ~ Satisfied(kept, c)
      <4> SUFFICES ASSUME NEW x \in c, IsTrue(kept, x) PROVE FALSE
        BY DEF Satisfied
      <4>1. IsTrue(trail, x)
        BY <1>1, <1>2, <3>1, KeptValues
      <4> QED
        BY <1>1, <1>2, <4>1, NotBoth
    <3>4. PICK x \in c : ~ Assigned(kept, x)
      BY <3>2, <3>3 DEF Settles, Several
    <3>5. ~ (LevelOf(trail, x) <= k)
      <4>1. ~ IsFalse(kept, x)
        BY <3>4 DEF Assigned
      <4> QED
        BY <1>1, <1>2, <3>1, <4>1, KeptValues
    <3>6. LevelOf(trail, x) \in Nat /\ LevelOf(trail, x) <= Level
      <4>1. /\ EntryOf(trail, x) \in DOMAIN trail
            /\ LevelOf(trail, x) = trail[EntryOf(trail, x)].level
            /\ LevelOf(trail, x) \in Nat
        BY <1>1, <1>2, FalseEntry
      <4> QED
        BY <1>1, <4>1, DecisionLevelIs
    <3> QED
      BY <1>1, <3>1, <3>5, <3>6
  <2> QED
    BY <1>1, <2>1, <2>2 DEF Current
<1>4. CASE HasCurrent(c)
  <2>1. PICK x \in c : LevelOf(trail, x) = Level
    BY <1>4 DEF HasCurrent
  <2> QED
    BY <1>1, <2>1 DEF Current
<1> QED
  BY <1>3, <1>4 DEF Visited

\* Every step keeps it: a conflict is a clause found from a literal of the
\* current level, or the vertices of a verdict, one of them of that level.
LEMMA ConflictStep ==
  ASSUME IInv, Next
  PROVE  ConflictIsCurrent'
<1>1. /\ TypeOK /\ TrailOK /\ TypedTrail(trail) /\ theory \in Theories /\ TypedTrail(trail')
  BY TrailIsTyped, TrailStep DEF IInv, TypeOK, Theories
<1>2. /\ setup' = setup /\ theory' \in Theories
      /\ Searching' => Mirrors(trail', theory'.vids)
      /\ Searching' => Reported(trail', theory')
  <2>1. setup' = setup /\ theory' \in Theories /\ Mirror' /\ Verdict'
    BY SetupKept, TheoryStep, VerdictStep
  <2>2. Searching' => Mirrors(trail', theory'.vids)
    BY <2>1 DEF Mirror, Mirrors
  <2>3. Searching' => Reported(trail', theory')
    BY <2>1 DEF Verdict, Reported, Level, Searching
  <2> QED
    BY <2>1, <2>2, <2>3
<1>3. ASSUME pc' # "conflict" PROVE ConflictIsCurrent'
  BY <1>3, ConflictNext
<1>4. ASSUME NEW th \in Theories, NEW otherwise, otherwise # "conflict", CheckTheory(th, otherwise)
      PROVE  ConflictIsCurrent'
  <2>1. CASE HasConflict(th)
    <3>1. /\ theory' = Checked(th) /\ confl' = ConflictClause(th) /\ pc' = "conflict"
          /\ th.conflict
      BY <1>4, <2>1 DEF CheckTheory, HasConflict
    <3>2. theory'.conflict /\ ConflictClause(theory') = ConflictClause(th) /\ Searching'
      BY <3>1, CheckedIs DEF ConflictClause, Searching
    <3>3. Current(trail', ConflictClause(theory'))
      BY <1>1, <1>2, <3>2, TheoryConflictIsCurrent
    <3> QED
      BY <3>1, <3>2, <3>3, ConflictNext
  <2>2. CASE ~ HasConflict(th)
    BY <1>3, <1>4, <2>2 DEF CheckTheory
  <2> QED
    BY <2>1, <2>2
<1>5. CASE UnitPropagation
  <2>0. PICK c \in Visited : \E lit \in c :
          \E pushed \in Push(setup, theory, lit) : CheckTheory(pushed, "propagate")
    BY <1>5 DEF UnitPropagation
  <2>1. PICK lit \in c : \E pushed \in Push(setup, theory, lit) : CheckTheory(pushed, "propagate")
    BY <2>0
  <2>2. PICK pushed \in Push(setup, theory, lit) : CheckTheory(pushed, "propagate")
    BY <2>1
  <2>3. lit \in Literals
    BY <1>1 DEF Visited, Watched, TypeOK
  <2>4. pushed \in Theories
    BY <1>1, <2>3, PushIs
  <2>5. "propagate" # "conflict"
    OBVIOUS
  <2> QED
    BY <1>4, <2>2, <2>4, <2>5
<1>6. CASE ClauseConflict
  <2>1. PICK c \in Visited : Falsified(trail, c) /\ confl' = c
    BY <1>6 DEF ClauseConflict
  <2>2. pc = "propagate" /\ trail' = trail
    BY <1>6 DEF ClauseConflict
  <2>3. Current(trail, c)
    BY <2>1, <2>2, FoundIsCurrent
  <2> QED
    BY <2>1, <2>2, <2>3, ConflictNext
<1>7. CASE PropagationEnds
  <2>1. CheckTheory(theory, "decide") /\ "decide" # "conflict"
    BY <1>7 DEF PropagationEnds
  <2> QED
    BY <1>1, <1>4, <2>1
<1>8. CASE AddClause \/ ParsedUnit \/ ParsedConflict \/ ParsedFixpoint \/ Parsed
  <2>1. pc' # "conflict"
    BY <1>8 DEF AddClause, ParsedUnit, ParsedConflict, ParsedFixpoint, Parsed
  <2> QED
    BY <1>3, <2>1
<1>9. CASE Replay \/ StartSearch \/ ConflictAtZero \/ Learn \/ OutOfBudget
  <2>1. pc' # "conflict"
    BY <1>9 DEF Replay, StartSearch, ConflictAtZero, Learn, OutOfBudget, Return
  <2> QED
    BY <1>3, <2>1
<1>10. CASE Restart \/ Decide \/ ModelFound \/ Done
  <2>1. pc' # "conflict"
    BY <1>10 DEF Restart, Decide, ModelFound, Done, Return, vars
  <2> QED
    BY <1>3, <2>1
<1> QED
  BY <1>5, <1>6, <1>7, <1>8, <1>9, <1>10 DEF Next

-----------------------------------------------------------------------------
(* Steps: the model.                                                        *)

\* When every variable is assigned and propagate is done, the true variables
\* are a model of the file, and their vertices fit when cb_interval is 1.
LEMMA ModelIs ==
  ASSUME IInv, ModelFound
  PROVE  LET true == {v \in Variables : IsTrue(trail, v)}
         IN /\ IsModel(true, ToSet(setup.formula))
            /\ setup.interval = 1 => true \in Solutions
<1> DEFINE true == {v \in Variables : IsTrue(trail, v)}
<1>1. /\ TypeOK /\ TrailOK /\ TypedTrail(trail) /\ IsTrail(trail) /\ 0 \in Int
      /\ pc = "decide" /\ \A v \in Variables : Assigned(trail, v)
      /\ Searching
  BY TrailIsTyped DEF IInv, ModelFound, TypedTrail, Searching
<1>2. /\ Literals \subseteq Lit /\ Literals \subseteq Int
      /\ Literals = Variables \union {- v : v \in Variables}
      /\ \A v \in Variables : v \in Nat \ {0}
      /\ setup.vids \subseteq Variables
  <2>1. setup.numVars \in Nat /\ setup.vids \subseteq Variables /\ Literals \subseteq Lit
    BY <1>1, SetupIs
  <2>2. Literals = Variables \union {- v : v \in Variables}
    BY DEF Literals, LiteralsOf, Variables
  <2>3. \A v \in Variables : v \in Nat \ {0}
    BY <2>1 DEF Variables
  <2> QED
    BY <2>1, <2>2, <2>3 DEF Lit
<1>3. ASSUME NEW x \in Literals PROVE Holds(true, x) <=> IsTrue(trail, x)
  <2>1. CASE x > 0
    <3>1. x \in Variables
      <4>1. \A v \in Variables : ~ (- v > 0)
        BY <1>2
      <4> QED
        BY <1>2, <2>1, <4>1
    <3> QED
      BY <2>1, <3>1 DEF Holds
  <2>2. CASE ~ (x > 0)
    <3>1. PICK v \in Variables : x = - v
      BY <1>2, <2>2
    <3>2. - x = v /\ x \in Int /\ v \in Lit
      BY <1>2, <3>1 DEF Lit
    <3>3. Assigned(trail, v) /\ ~ (IsTrue(trail, v) /\ IsFalse(trail, v))
      BY <1>1, <3>1, <3>2, NotBoth
    <3>4. IsFalse(trail, v) <=> IsTrue(trail, x)
      BY <3>1 DEF IsFalse
    <3> QED
      BY <2>2, <3>1, <3>2, <3>3, <3>4 DEF Holds, Assigned
  <2> QED
    BY <2>1, <2>2
<1>4. ASSUME NEW x \in Literals PROVE Assigned(trail, x)
  <2>1. CASE x \in Variables
    BY <1>1, <2>1
  <2>2. CASE x \notin Variables
    <3>1. PICK v \in Variables : x = - v
      BY <1>2, <2>2
    <3>2. - x = v /\ Assigned(trail, v)
      BY <1>1, <1>2, <3>1
    <3> QED
      BY <3>1, <3>2 DEF Assigned, IsFalse
  <2> QED
    BY <2>1, <2>2
<1> HIDE DEF true
<1>5. /\ DOMAIN setup.formula = 1 .. Len(setup.formula)
      /\ \A i \in DOMAIN setup.formula : setup.formula[i] \in SUBSET Literals
  <2>1. setup.formula \in Seq(SUBSET Literals)
    BY <1>1, SetupIs
  <2> QED
    BY <2>1
<1>6. ASSUME NEW i \in DOMAIN setup.formula
      PROVE  \E x \in setup.formula[i] : Holds(true, x)
  <2> DEFINE f == setup.formula[i]
  <2>1. f \subseteq Literals
    BY <1>5
  <2>2. \/ Tautology(f) \/ Satisfied(KeptUntil(trail, 0), f)
        \/ \E d \in clauses : d \subseteq f
    <3>1. ok /\ pc # "returned" /\ ~ Parsing
      BY <1>1 DEF IInv, FormulaKept, Parsing
    <3> QED
      BY <3>1 DEF IInv, FormulaKept
  <2> HIDE DEF f
  <2>3. CASE Tautology(f)
    <3>1. PICK x \in f : - x \in f
      BY <2>3 DEF Tautology
    <3>2. x \in Literals /\ - x \in Literals /\ Assigned(trail, x)
      BY <1>4, <2>1, <3>1
    <3>3. IsTrue(trail, x) \/ IsTrue(trail, - x)
      BY <3>2 DEF Assigned, IsFalse
    <3> QED
      BY <1>3, <3>1, <3>2, <3>3 DEF f
  <2>4. CASE Satisfied(KeptUntil(trail, 0), f)
    <3>1. PICK x \in f : IsTrue(KeptUntil(trail, 0), x)
      BY <2>4 DEF Satisfied
    <3>2. x \in Literals /\ x \in Lit
      BY <1>2, <2>1
    <3>3. IsTrue(trail, x)
      BY <1>1, <3>1, <3>2, KeptValues
    <3> QED
      BY <1>3, <3>1, <3>2, <3>3 DEF f
  <2>5. CASE \E d \in clauses : d \subseteq f
    <3>1. PICK d \in clauses : d \subseteq f
      BY <2>5
    <3>2. Settles(trail, d)
      <4>1. Exhausted /\ d \in Watched
        BY <1>1, <3>1 DEF IInv, Propagated, Watched
      <4> QED
        BY <4>1, ExhaustedIs
    <3>3. \A x \in d : Assigned(trail, x)
      BY <1>4, <2>1, <3>1
    <3>4. PICK x \in d : IsTrue(trail, x)
      BY <3>2, <3>3 DEF Settles, Several, Satisfied
    <3>5. x \in f /\ x \in Literals
      BY <2>1, <3>1
    <3> QED
      BY <1>3, <3>4, <3>5 DEF f
  <2> QED
    BY <2>2, <2>3, <2>4, <2>5
<1>7. IsModel(true, ToSet(setup.formula))
  <2> SUFFICES ASSUME NEW c \in ToSet(setup.formula)
               PROVE  \E lit \in c : IF lit > 0 THEN lit \in true ELSE - lit \notin true
    BY DEF IsModel
  <2>1. PICK i \in DOMAIN setup.formula : setup.formula[i] = c
    BY DEF ToSet
  <2>2. PICK x \in c : Holds(true, x)
    BY <1>6, <2>1
  <2> QED
    BY <2>2 DEF Holds
<1>8. ASSUME setup.interval = 1 PROVE true \in Solutions
  <2>1. ~ theory.conflict /\ pc # "returned"
    BY <1>1 DEF IInv, Verdict
  <2>2. ToSet(theory.vids) \in setup.fitting
    BY <1>8, <2>1 DEF IInv, Verdict
  <2>3. ToSet(theory.vids) = VidsOf(trail)
    BY <1>1, MirrorSet DEF IInv, Mirror
  <2>4. true \intersect setup.vids = VidsOf(trail) /\ true \in SUBSET Variables
    BY <1>2 DEF true, VidsOf
  <2> QED
    BY <1>7, <2>2, <2>3, <2>4 DEF Solutions
<1> QED
  BY <1>7, <1>8 DEF true

\* The solutions do not change.
LEMMA SolutionsKept ==
  ASSUME setup' = setup
  PROVE  Solutions' = Solutions
BY DEF Solutions, Variables, IsModel

\* Every step keeps it: only ModelFound returns l_True.
LEMMA ModelStep ==
  ASSUME IInv, Next
  PROVE  TrueIsModel'
<1>1. setup' = setup /\ Solutions' = Solutions
  BY SetupKept, SolutionsKept
<1>2. ASSUME result' # "True" PROVE TrueIsModel'
  BY <1>2 DEF TrueIsModel
<1>3. ASSUME result' = result, model' = model PROVE TrueIsModel'
  BY <1>1, <1>3 DEF IInv, TrueIsModel, IsModel
<1>4. CASE ModelFound
  <2>1. model' = {v \in Variables : IsTrue(trail, v)}
    BY <1>4 DEF ModelFound
  <2>2. IsModel(model', ToSet(setup.formula)) /\ (setup.interval = 1 => model' \in Solutions)
    BY <1>4, <2>1, ModelIs
  <2> QED
    BY <1>1, <2>2 DEF TrueIsModel, IsModel
<1>5. CASE AddClause \/ ParsedUnit \/ ParsedConflict \/ ParsedFixpoint \/ Parsed \/ Replay
  BY <1>3, <1>5 DEF AddClause, ParsedUnit, ParsedConflict, ParsedFixpoint, Parsed, Replay
<1>6. CASE UnitPropagation \/ ClauseConflict \/ PropagationEnds \/ Learn \/ Restart \/ Decide
  BY <1>3, <1>6 DEF UnitPropagation, ClauseConflict, PropagationEnds, Learn, Restart, Decide
<1>7. CASE StartSearch \/ ConflictAtZero \/ OutOfBudget
  BY <1>2, <1>7 DEF StartSearch, ConflictAtZero, OutOfBudget, Return
<1>8. CASE Done
  BY <1>3, <1>8 DEF Done, vars
<1> QED
  BY <1>4, <1>5, <1>6, <1>7, <1>8 DEF Next

-----------------------------------------------------------------------------
(* Steps: what follows from the formula.                                    *)

Says(true, c) == \E x \in c : Holds(true, x)

\* IsModel as a statement about every clause.
LEMMA IsModelSays ==
  ASSUME NEW true, NEW cs
  PROVE  IsModel(true, cs) <=> \A c \in cs : Says(true, c)
BY DEF IsModel, Says, Holds

\* A trail cut back respects as much.
LEMMA RespectsKept ==
  ASSUME NEW true, NEW t, IsTrail(t), Respects(true, t), NEW k \in Int
  PROVE  Respects(true, KeptUntil(t, k))
<1>1. /\ DOMAIN KeptUntil(t, k) = {i \in DOMAIN t : t[i].level <= k}
      /\ \A i \in DOMAIN KeptUntil(t, k) : KeptUntil(t, k)[i] = t[i]
  BY KeptIs
<1> QED
  BY <1>1 DEF Respects

\* Enqueueing a literal whose reason holds, and which holds itself at level
\* 0, keeps the trail respected.
LEMMA RespectsAppend ==
  ASSUME TypeOK, NEW true, NEW t, TypedTrail(t), Respects(true, t),
         NEW lit, NEW level, NEW reason, Enqueues(t, lit, level, reason),
         reason # {} => Says(true, reason),
         level = 0 => Holds(true, lit)
  PROVE  Respects(true, Append(t, Entry(lit, level, reason)))
<1> DEFINE e == Entry(lit, level, reason)
           longer == Append(t, e)
<1>1. IsTrail(t) /\ e \in Entries
  BY EnqueueIs DEF TypedTrail
<1>2. e.lit = lit /\ e.level = level /\ e.reason = reason
  BY DEF Entry
<1> HIDE DEF e
<1>3. /\ DOMAIN longer = DOMAIN t \union {Len(t) + 1} /\ longer[Len(t) + 1] = e
      /\ \A i \in DOMAIN t : longer[i] = t[i]
  <2>1. DOMAIN longer = DOMAIN t \union {Len(t) + 1}
    BY <1>1, AppendIs
  <2>2. longer[Len(t) + 1] = e
    BY <1>1, AppendIs
  <2>3. ASSUME NEW i \in DOMAIN t PROVE longer[i] = t[i]
    <3>1. \A j \in DOMAIN t : Append(t, e)[j] = t[j] /\ j <= Len(t)
      BY <1>1, AppendIs
    <3> QED
      BY <3>1
  <2> QED
    BY <2>1, <2>2, <2>3
<1> HIDE DEF longer
<1>4. \A i \in DOMAIN longer : longer[i] = e \/ (i \in DOMAIN t /\ longer[i] = t[i])
  BY <1>3
<1>5. Respects(true, longer)
  <2> SUFFICES ASSUME NEW i \in DOMAIN longer
               PROVE  /\ longer[i].reason # {} => Says(true, longer[i].reason)
                      /\ longer[i].level = 0 => Holds(true, longer[i].lit)
    BY DEF Respects, Says
  <2>1. CASE longer[i] = e
    BY <1>2, <2>1
  <2>2. CASE i \in DOMAIN t /\ longer[i] = t[i]
    BY <2>2 DEF Respects, Says
  <2> QED
    BY <1>4, <2>1, <2>2
<1> QED
  BY <1>5 DEF longer, e

\* At level 0 what is false does not hold.
LEMMA FalseAtZero ==
  ASSUME TypeOK, TrailOK, Level = 0, NEW true, Respects(true, trail),
         NEW x \in Lit, IsFalse(trail, x)
  PROVE  ~ Holds(true, x)
<1>1. IsTrail(trail) /\ TypedTrail(trail)
  BY TrailIsTyped DEF TypedTrail
<1>2. PICK i \in DOMAIN trail : trail[i].lit = - x
  BY DEF IsFalse, IsTrue
<1>3. trail[i].level = 0
  BY <1>1, FlatTrail DEF Level
<1>4. Holds(true, - x)
  BY <1>2, <1>3 DEF Respects
<1> QED
  BY <1>4, HoldsNot

\* At level 0 the last literal of a clause that holds does so.
LEMMA UnitHolds ==
  ASSUME TypeOK, TrailOK, Level = 0, NEW true, Respects(true, trail),
         NEW c \in SUBSET Literals, Says(true, c), NEW lit, Falsified(trail, c \ {lit})
  PROVE  Holds(true, lit) /\ lit \in c
<1>1. PICK x \in c : Holds(true, x)
  BY DEF Says
<1>2. x \in Lit
  BY SetupIs
<1>3. ~ IsFalse(trail, x)
  BY <1>1, <1>2, FalseAtZero
<1> QED
  BY <1>1, <1>3 DEF Falsified

\* At level 0 a clause that holds does so without its false literals.
LEMMA SimplifiedSays ==
  ASSUME TypeOK, TrailOK, Level = 0, NEW true, Respects(true, trail),
         NEW c \in SUBSET Literals, Says(true, c)
  PROVE  Says(true, Simplified(c))
<1>1. PICK x \in c : Holds(true, x)
  BY DEF Says
<1>2. x \in Lit
  BY SetupIs
<1>3. ~ IsFalse(trail, x)
  BY <1>1, <1>2, FalseAtZero
<1> QED
  BY <1>1, <1>3 DEF Says, Simplified

\* The vertices of a refusal are not all true.
LEMMA RefusalSays ==
  ASSUME TypeOK, NEW true \in Solutions, NEW th \in Theories, ToSet(th.vids) \notin setup.fitting
  PROVE  Says(true, ConflictClause(th))
<1>1. /\ ToSet(th.vids) \subseteq setup.vids
      /\ true \intersect setup.vids \in setup.fitting
      /\ setup.vids \subseteq Nat \ {0}
  BY SetupIs DEF Theories, ToSet, Solutions
<1>2. ToSet(th.vids) \notin SUBSET (true \intersect setup.vids)
  BY <1>1, FittingClosed
<1>3. PICK v \in ToSet(th.vids) : v \notin true
  BY <1>1, <1>2
<1>4. v \in Nat \ {0} /\ ~ (- v > 0) /\ - (- v) = v
  BY <1>1
<1>5. Holds(true, - v)
  BY <1>3, <1>4 DEF Holds
<1> QED
  BY <1>3, <1>5 DEF Says, ConflictClause

\* What Sound asks of one solution.
SoundFor(true) ==
  /\ Respects(true, trail)
  /\ \A c \in clauses \union lemmas \union learnts : Says(true, c)
  /\ pc = "conflict" => Says(true, confl)
  /\ ok /\ result # "False"

\* Sound as a statement about every solution.
LEMMA SoundIs ==
  Sound <=> (~ setup.heuristic => \A true \in Solutions : SoundFor(true))
<1>1. ASSUME NEW true
      PROVE  /\ IsModel(true, clauses \union lemmas \union learnts)
                  <=> \A c \in clauses \union lemmas \union learnts : Says(true, c)
             /\ IsModel(true, {confl}) <=> Says(true, confl)
  BY IsModelSays
<1> QED
  BY <1>1 DEF Sound, SoundFor

\* Sound of the next state, from SoundAfter of every solution.
LEMMA SoundNext ==
  ASSUME setup' = setup,
         ~ setup.heuristic =>
           \A true \in Solutions :
             /\ Respects(true, trail')
             /\ \A c \in clauses' \union lemmas' \union learnts' : Says(true, c)
             /\ pc' = "conflict" => Says(true, confl')
             /\ ok' /\ result' # "False"
  PROVE  Sound'
<1>1. Solutions' = Solutions
  BY SolutionsKept
<1>2. ASSUME NEW true
      PROVE  /\ IsModel(true, clauses' \union lemmas' \union learnts')
                  <=> \A c \in clauses' \union lemmas' \union learnts' : Says(true, c)
             /\ IsModel(true, {confl'}) <=> Says(true, confl')
  BY IsModelSays
<1>3. \A true \in Solutions : ~ setup.heuristic =>
        /\ Respects(true, trail')
        /\ IsModel(true, clauses' \union lemmas' \union learnts')
        /\ pc' = "conflict" => IsModel(true, {confl'})
        /\ ok' /\ result' # "False"
  BY <1>2
<1> QED
  BY <1>1, <1>3 DEF Sound, IsModel

\* What Sound asks of the next state.
SoundAfter(true) ==
  /\ Respects(true, trail')
  /\ \A c \in clauses' \union lemmas' \union learnts' : Says(true, c)
  /\ pc' = "conflict" => Says(true, confl')
  /\ ok' /\ result' # "False"

\* What a state that satisfies IInv offers for a step.
LEMMA SoundNow ==
  ASSUME IInv, ~ setup.heuristic, NEW true \in Solutions
  PROVE  /\ TypeOK /\ TrailOK /\ TypedTrail(trail) /\ IsTrail(trail) /\ 0 \in Int
         /\ Level \in Nat /\ (Early => Level = 0)
         /\ Respects(true, trail)
         /\ \A c \in clauses \union lemmas \union learnts : c \in SUBSET Literals /\ Says(true, c)
         /\ pc = "conflict" => Says(true, confl)
         /\ ok /\ result # "False"
<1>1. SoundFor(true)
  BY SoundIs DEF IInv
<1>2. TypeOK /\ TrailOK
  BY DEF IInv
<1>3. TypedTrail(trail) /\ IsTrail(trail) /\ Level \in Nat /\ (Early => Level = 0)
  BY <1>2, TrailIsTyped DEF TypedTrail
<1>4. \A c \in clauses \union lemmas \union learnts : c \in SUBSET Literals
  BY <1>2 DEF TypeOK
<1> QED
  BY <1>1, <1>2, <1>3, <1>4 DEF SoundFor

\* A clause that holds is not falsified at level 0.
LEMMA NotFalsifiedAtZero ==
  ASSUME TypeOK, TrailOK, Level = 0, NEW true, Respects(true, trail),
         NEW c \in SUBSET Literals, Says(true, c)
  PROVE  ~ Falsified(trail, c)
<1>1. PICK x \in c : Holds(true, x)
  BY DEF Says
<1>2. x \in Lit
  BY SetupIs
<1> QED
  BY <1>1, <1>2, FalseAtZero DEF Falsified

\* A clause of the file holds in every solution.
LEMMA FormulaSays ==
  ASSUME TypeOK, NEW true \in Solutions, NEW i \in DOMAIN setup.formula
  PROVE  setup.formula[i] \in SUBSET Literals /\ Says(true, setup.formula[i])
<1>1. setup.formula \in Seq(SUBSET Literals)
  BY SetupIs
<1>2. setup.formula[i] \in SUBSET Literals /\ setup.formula[i] \in ToSet(setup.formula)
  BY <1>1 DEF ToSet
<1>3. IsModel(true, ToSet(setup.formula))
  BY DEF Solutions
<1> QED
  BY <1>2, <1>3, IsModelSays

\* Adding a clause of the file keeps Sound: its false literals do not hold,
\* so what is left does.
LEMMA SoundAddClause ==
  ASSUME IInv, AddClause, ~ setup.heuristic, NEW true \in Solutions
  PROVE  SoundAfter(true)
<1>1. /\ TypeOK /\ TrailOK /\ TypedTrail(trail) /\ Respects(true, trail) /\ Level = 0
      /\ \A c \in clauses \union lemmas \union learnts : Says(true, c)
      /\ ok /\ result # "False"
  <2>1. Early
    BY DEF AddClause, Early, Parsing
  <2> QED
    BY <2>1, SoundNow
<1>2. /\ lemmas' = lemmas /\ learnts' = learnts /\ result' = result
      /\ pc' # "conflict"
  BY DEF AddClause
<1> DEFINE clause == setup.formula[next]
           rest == Simplified(clause)
<1>3. clause \in SUBSET Literals /\ Says(true, clause)
  <2>1. setup.formula \in Seq(SUBSET Literals) /\ next \in Nat \ {0} /\ next <= Len(setup.formula)
    BY <1>1, SetupIs DEF AddClause, TypeOK
  <2>2. next \in DOMAIN setup.formula
    BY <2>1
  <2> QED
    BY <1>1, <2>2, FormulaSays
<1>4. Says(true, rest)
  BY <1>1, <1>3, SimplifiedSays
<1>5. CASE clauses' = clauses /\ trail' = trail /\ ok' = ok
  BY <1>1, <1>2, <1>5 DEF SoundAfter
<1>6. CASE rest = {}
  BY <1>4, <1>6 DEF Says
<1>7. CASE /\ clauses' = clauses /\ ok' = ok /\ ~ Satisfied(trail, clause)
           /\ \E lit \in rest : rest = {lit} /\ trail' = Append(trail, Entry(lit, 0, {}))
  <2>1. PICK lit \in rest : rest = {lit} /\ trail' = Append(trail, Entry(lit, 0, {}))
    BY <1>7
  <2>2. Enqueues(trail, lit, 0, {})
    <3>1. Early /\ lit \in Simplified(clause) /\ ~ Satisfied(trail, clause)
      BY <1>7 DEF AddClause, Early, Parsing
    <3> QED
      BY <1>1, <1>3, <3>1, AddsUnit
  <2>3. Holds(true, lit)
    BY <1>4, <2>1 DEF Says
  <2>4. Respects(true, trail')
    BY <1>1, <2>1, <2>2, <2>3, RespectsAppend
  <2> QED
    BY <1>1, <1>2, <1>7, <2>4 DEF SoundAfter
<1>8. CASE clauses' = clauses \union {rest} /\ trail' = trail /\ ok' = ok
  BY <1>1, <1>2, <1>4, <1>8 DEF SoundAfter
<1> QED
  BY <1>5, <1>6, <1>7, <1>8 DEF AddClause

\* Propagating while parsing keeps Sound, and meets no conflict when there is
\* a solution.
LEMMA SoundParsing ==
  ASSUME IInv, ParsedUnit \/ ParsedConflict \/ ParsedFixpoint \/ Parsed,
         ~ setup.heuristic, NEW true \in Solutions
  PROVE  SoundAfter(true)
<1>1. /\ TypeOK /\ TrailOK /\ TypedTrail(trail) /\ Respects(true, trail)
      /\ \A c \in clauses \union lemmas \union learnts : c \in SUBSET Literals /\ Says(true, c)
      /\ ok /\ result # "False"
      /\ Level = 0
  <2>1. Early
    BY DEF ParsedUnit, ParsedConflict, ParsedFixpoint, Parsed, Early, Parsing
  <2> QED
    BY <2>1, SoundNow
<1>2. CASE ParsedUnit
  <2>1. PICK c \in clauses : \E lit \in c :
          UnitUnder(trail, c, lit) /\ trail' = Append(trail, Entry(lit, 0, c))
    BY <1>2 DEF ParsedUnit
  <2>2. PICK lit \in c : UnitUnder(trail, c, lit) /\ trail' = Append(trail, Entry(lit, 0, c))
    BY <2>1
  <2>3. c \in SUBSET Literals /\ Says(true, c)
    BY <1>1
  <2>4. Enqueues(trail, lit, 0, c)
    BY <1>1, <2>2, <2>3, UnitEnqueues
  <2>5. Holds(true, lit)
    BY <1>1, <2>2, <2>3, UnitHolds DEF UnitUnder
  <2>6. Respects(true, trail')
    BY <1>1, <2>2, <2>3, <2>4, <2>5, RespectsAppend
  <2> QED
    BY <1>1, <1>2, <2>6 DEF ParsedUnit, SoundAfter
<1>3. CASE ParsedConflict
  <2>1. PICK c \in clauses : Falsified(trail, c)
    BY <1>3 DEF ParsedConflict
  <2>2. c \in SUBSET Literals /\ Says(true, c)
    BY <1>1
  <2> QED
    BY <1>1, <2>1, <2>2, NotFalsifiedAtZero
<1>4. CASE ParsedFixpoint \/ Parsed
  BY <1>1, <1>4 DEF ParsedFixpoint, Parsed, SoundAfter
<1> QED
  BY <1>2, <1>3, <1>4

\* The replay, the start and a conflict with a clause kept change nothing
\* that Sound needs.
LEMMA SoundQuiet ==
  ASSUME IInv, Replay \/ StartSearch \/ ClauseConflict \/ Done, ~ setup.heuristic, NEW true \in Solutions
  PROVE  SoundAfter(true)
<1>1. /\ Respects(true, trail)
      /\ \A c \in clauses \union lemmas \union learnts : Says(true, c)
      /\ pc = "conflict" => Says(true, confl)
      /\ ok /\ result # "False"
  BY SoundNow
<1>2. CASE Replay
  BY <1>1, <1>2 DEF Replay, SoundAfter
<1>3. CASE StartSearch
  BY <1>1, <1>3 DEF StartSearch, SoundAfter
<1>4. CASE ClauseConflict
  <2>1. PICK c \in Visited : confl' = c
    BY <1>4 DEF ClauseConflict
  <2>2. Says(true, c)
    BY <1>1 DEF Visited, Watched
  <2> QED
    BY <1>1, <1>4, <2>1, <2>2 DEF ClauseConflict, SoundAfter
<1>5. CASE Done
  BY <1>1, <1>5 DEF Done, vars, SoundAfter
<1> QED
  BY <1>2, <1>3, <1>4, <1>5

\* A refusal reported is one of the vertices on the trail.
LEMMA SoundChecked ==
  ASSUME IInv, ~ setup.heuristic, NEW true \in Solutions, Next,
         NEW th \in Theories, NEW otherwise, otherwise # "conflict", CheckTheory(th, otherwise)
  PROVE  /\ \A c \in lemmas' : Says(true, c)
         /\ pc' = "conflict" => Says(true, confl')
<1>1. /\ TypeOK /\ \A c \in lemmas : Says(true, c)
  BY SoundNow
<1>2. CASE HasConflict(th)
  <2>1. /\ theory' = Checked(th) /\ confl' = ConflictClause(th)
        /\ lemmas' = lemmas \union {ConflictClause(th)} /\ th.conflict
    BY <1>2 DEF CheckTheory, HasConflict
  <2>2. theory'.conflict /\ theory'.vids = th.vids
    BY <2>1, CheckedIs
  <2>3. ToSet(theory'.vids) \notin setup.fitting
    <3>1. Verdict' /\ setup' = setup
      BY VerdictStep, SetupKept
    <3>2. ~ setup'.heuristic /\ theory'.conflict => ToSet(theory'.vids) \notin setup'.fitting
      BY <3>1 DEF Verdict
    <3> QED
      BY <2>2, <3>1, <3>2
  <2>4. Says(true, ConflictClause(th))
    BY <1>1, <2>2, <2>3, RefusalSays
  <2> QED
    BY <1>1, <2>1, <2>4
<1>3. CASE ~ HasConflict(th)
  BY <1>1, <1>3 DEF CheckTheory
<1> QED
  BY <1>2, <1>3

\* Propagating in the search keeps Sound: the reasons are clauses that hold.
LEMMA SoundPropagation ==
  ASSUME IInv, UnitPropagation \/ PropagationEnds, ~ setup.heuristic, NEW true \in Solutions
  PROVE  SoundAfter(true)
<1>1. /\ TypeOK /\ TrailOK /\ TypedTrail(trail) /\ Respects(true, trail)
      /\ \A c \in clauses \union lemmas \union learnts : c \in SUBSET Literals /\ Says(true, c)
      /\ ok /\ result # "False" /\ theory \in Theories
  BY SoundNow DEF TypeOK, Theories
<1>2. Next
  BY DEF Next
<1>3. CASE UnitPropagation
  <2>1. PICK c \in Visited : \E lit \in c :
          /\ UnitUnder(trail, c, lit) /\ trail' = Append(trail, Entry(lit, Level, c))
          /\ \E pushed \in Push(setup, theory, lit) : CheckTheory(pushed, "propagate")
    BY <1>3 DEF UnitPropagation
  <2>2. PICK lit \in c :
          /\ UnitUnder(trail, c, lit) /\ trail' = Append(trail, Entry(lit, Level, c))
          /\ \E pushed \in Push(setup, theory, lit) : CheckTheory(pushed, "propagate")
    BY <2>1
  <2>3. PICK pushed \in Push(setup, theory, lit) : CheckTheory(pushed, "propagate")
    BY <2>2
  <2>4. c \in SUBSET Literals /\ Says(true, c)
    BY <1>1 DEF Visited, Watched
  <2>5. Enqueues(trail, lit, Level, c)
    BY <1>1, <2>2, <2>4, UnitEnqueues
  <2>6. Level = 0 => Holds(true, lit)
    BY <1>1, <2>2, <2>4, UnitHolds DEF UnitUnder
  <2>7. Respects(true, trail')
    BY <1>1, <2>2, <2>4, <2>5, <2>6, RespectsAppend
  <2>8. pushed \in Theories
    BY <1>1, <2>4, PushIs
  <2>9. "propagate" # "conflict"
    OBVIOUS
  <2>10. /\ \A d \in lemmas' : Says(true, d)
         /\ pc' = "conflict" => Says(true, confl')
    BY <1>2, <2>3, <2>8, <2>9, SoundChecked
  <2>11. clauses' = clauses /\ learnts' = learnts /\ ok' = ok /\ result' = result
    BY <1>3 DEF UnitPropagation
  <2> QED
    BY <1>1, <2>7, <2>10, <2>11 DEF SoundAfter
<1>4. CASE PropagationEnds
  <2>1. /\ CheckTheory(theory, "decide") /\ "decide" # "conflict"
        /\ clauses' = clauses /\ learnts' = learnts /\ ok' = ok /\ result' = result
        /\ trail' = trail
    BY <1>4 DEF PropagationEnds
  <2>2. /\ \A d \in lemmas' : Says(true, d)
        /\ pc' = "conflict" => Says(true, confl')
    BY <1>1, <1>2, <2>1, SoundChecked
  <2> QED
    BY <1>1, <2>1, <2>2 DEF SoundAfter
<1> QED
  BY <1>3, <1>4

\* Learning keeps Sound: what the conflict and the reasons imply holds.
LEMMA SoundLearn ==
  ASSUME IInv, Learn, ~ setup.heuristic, NEW true \in Solutions
  PROVE  SoundAfter(true)
<1> DEFINE learnt == Learnt(trail, confl)
           lit == Asserting(trail, learnt)
           level == BacktrackLevel(trail, learnt)
           reason == IF learnt = {lit} THEN {} ELSE learnt
           kept == KeptUntil(trail, level)
<1>1. /\ TypeOK /\ TrailOK /\ TypedTrail(trail) /\ IsTrail(trail) /\ Respects(true, trail)
      /\ \A c \in clauses \union lemmas \union learnts : Says(true, c)
      /\ Says(true, confl) /\ ok /\ result # "False"
  BY SoundNow DEF Learn
<1>2. Learnable(learnt, lit, level)
  BY <1>1, LearnIs DEF Learn, IInv
<1>3. /\ trail' = Append(kept, Entry(lit, level, reason))
      /\ learnts' = learnts \union ({learnt} \ {{lit}})
      /\ clauses' = clauses /\ lemmas' = lemmas /\ ok' = ok /\ result' = result
      /\ pc' = "propagate"
  BY DEF Learn
<1> HIDE DEF learnt, lit, level
<1>4. Says(true, learnt)
  BY <1>1, <1>2 DEF Learnable, Learns, Says
<1>5. /\ level \in Int /\ Enqueues(kept, lit, level, reason)
      /\ level = 0 => learnt = {lit}
  <2>1. /\ level \in Nat /\ lit \in learnt /\ Enqueues(kept, lit, level, reason)
        /\ \A x \in learnt \ {lit} : LevelOf(trail, x) \in 1 .. level
    BY <1>2 DEF Learnable, Learns
  <2> QED
    BY <2>1
<1>6. TypedTrail(kept) /\ Respects(true, kept)
  BY <1>1, <1>5, KeptTyped, RespectsKept
<1>7. level = 0 => Holds(true, lit)
  BY <1>4, <1>5 DEF Says
<1>8. reason # {} => Says(true, reason)
  BY <1>4
<1> HIDE DEF reason, kept
<1>9. Respects(true, trail')
  BY <1>1, <1>3, <1>5, <1>6, <1>7, <1>8, RespectsAppend
<1> QED
  BY <1>1, <1>3, <1>4, <1>9 DEF SoundAfter

\* No conflict is met at level 0 when there is a solution, and cutting back
\* keeps Sound.
LEMMA SoundEnds ==
  ASSUME IInv, ConflictAtZero \/ OutOfBudget \/ Restart \/ ModelFound,
         ~ setup.heuristic, NEW true \in Solutions
  PROVE  SoundAfter(true)
<1>1. /\ TypeOK /\ TrailOK /\ IsTrail(trail) /\ Respects(true, trail) /\ 0 \in Int
      /\ \A c \in clauses \union lemmas \union learnts : Says(true, c)
      /\ pc = "conflict" => Says(true, confl)
      /\ ok /\ result # "False"
  BY SoundNow
<1>2. CASE ConflictAtZero
  <2>1. Falsified(trail, confl) /\ confl \in SUBSET Literals /\ Level = 0 /\ Says(true, confl)
    BY <1>1, <1>2 DEF ConflictAtZero, IInv, ConflictIsCurrent, TypeOK
  <2> QED
    BY <1>1, <2>1, NotFalsifiedAtZero
<1>3. CASE OutOfBudget \/ Restart \/ ModelFound
  <2>1. trail' = KeptUntil(trail, 0) /\ clauses' = clauses /\ lemmas' = lemmas
        /\ learnts' = learnts /\ ok' = ok
    BY <1>3 DEF OutOfBudget, Restart, ModelFound, BackToZero
  <2>2. pc' # "conflict" /\ result' # "False"
    BY <1>1, <1>3 DEF OutOfBudget, Restart, ModelFound, Return
  <2>3. Respects(true, trail')
    BY <1>1, <2>1, RespectsKept
  <2> QED
    BY <1>1, <2>1, <2>2, <2>3 DEF SoundAfter
<1> QED
  BY <1>2, <1>3

\* A decision has no reason and is above level 0, and simplify and reduceDB
\* keep clauses that hold.
LEMMA SoundDecide ==
  ASSUME IInv, Decide, ~ setup.heuristic, NEW true \in Solutions
  PROVE  SoundAfter(true)
<1>1. /\ TypeOK /\ TrailOK /\ TypedTrail(trail) /\ Respects(true, trail) /\ Level \in Nat
      /\ \A c \in clauses \union lemmas \union learnts : c \in SUBSET Literals /\ Says(true, c)
      /\ ok /\ result # "False"
  BY SoundNow
<1>2. ok' = ok /\ result' = result /\ pc' = "propagate"
  BY DEF Decide
<1>3. ASSUME NEW d \in clauses' \union lemmas' \union learnts'
      PROVE  Says(true, d)
  <2>1. \/ d \in clauses \union lemmas \union learnts
        \/ /\ Level = 0
           /\ \E c \in clauses \union lemmas \union learnts :
                Simplified(c) \subseteq d /\ d \subseteq c
    BY <1>1, DecideIs
  <2>2. CASE d \in clauses \union lemmas \union learnts
    BY <1>1, <2>2
  <2>3. CASE /\ Level = 0
             /\ \E c \in clauses \union lemmas \union learnts :
                  Simplified(c) \subseteq d /\ d \subseteq c
    <3>1. PICK c \in clauses \union lemmas \union learnts :
            Simplified(c) \subseteq d /\ d \subseteq c
      BY <2>3
    <3>2. c \in SUBSET Literals /\ Says(true, c)
      BY <1>1
    <3>3. Says(true, Simplified(c))
      BY <1>1, <2>3, <3>2, SimplifiedSays
    <3> QED
      BY <3>1, <3>3 DEF Says
  <2> QED
    BY <2>1, <2>2, <2>3
<1>4. Respects(true, trail')
  <2>1. PICK lit \in Literals :
          ~ Assigned(trail, lit) /\ trail' = Append(trail, Entry(lit, Level + 1, {}))
    BY DEF Decide
  <2>2. Enqueues(trail, lit, Level + 1, {}) /\ Level + 1 # 0
    BY <1>1, <2>1, DecisionEnqueues
  <2> QED
    BY <1>1, <2>1, <2>2, RespectsAppend
<1> QED
  BY <1>1, <1>2, <1>3, <1>4 DEF SoundAfter

\* Every step keeps it.
LEMMA SoundStep ==
  ASSUME IInv, Next
  PROVE  Sound'
<1>1. ASSUME NEW true \in Solutions, ~ setup.heuristic PROVE SoundAfter(true)
  BY <1>1, SoundAddClause, SoundParsing, SoundQuiet, SoundPropagation, SoundLearn, SoundEnds,
     SoundDecide DEF Next
<1> QED
  BY <1>1, SetupKept, SoundNext DEF SoundAfter

-----------------------------------------------------------------------------
(* The invariant.                                                           *)

\* The invariant holds of the fresh solver.
LEMMA StartIs ==
  ASSUME Init
  PROVE  IInv
<1>1. TypeOK
  <2>1. /\ setup \in Setups /\ pc = "parse" /\ next = 1 /\ ok = TRUE
        /\ clauses = {} /\ lemmas = {} /\ learnts = {} /\ trail = << >>
        /\ confl = {} /\ conflicts = 0 /\ result = "none" /\ model = {}
        /\ \E checked \in BOOLEAN : theory = Reset(checked)
    BY DEF Init
  <2>2. theory \in [vids : Seq(setup.vids), conflict : BOOLEAN, checked : BOOLEAN]
    <3>1. PICK checked \in BOOLEAN : theory = Reset(checked)
      BY <2>1
    <3>2. << >> \in Seq(setup.vids)
      OBVIOUS
    <3> QED
      BY <3>1, <3>2 DEF Reset
  <2>3. trail \in Seq([lit : Literals, level : Nat, reason : SUBSET Literals])
    BY <2>1
  <2>4. next \in Nat \ {0} /\ conflicts \in Nat
    BY <2>1
  <2>5. pc \in Phases /\ result \in {"none", "True", "False", "Undef"}
    BY <2>1 DEF Phases
  <2> QED
    BY <2>1, <2>2, <2>3, <2>4, <2>5 DEF TypeOK
<1>2. /\ trail = << >> /\ pc = "parse" /\ result = "none" /\ ok = TRUE /\ next = 1
      /\ clauses = {} /\ lemmas = {} /\ learnts = {}
      /\ theory.vids = << >> /\ theory.conflict = FALSE
  BY DEF Init, Reset
<1>3. IsTrail(trail)
  <2>1. trail \in Seq(Entries) /\ DOMAIN trail = {}
    BY <1>2
  <2> QED
    BY <2>1 DEF IsTrail, Consistent, Sorted, Reasoned, Decided
<1>4. TrailOK
  <2>1. DOMAIN trail = {}
    BY <1>2
  <2> QED
    BY <1>3, <2>1 DEF TrailOK
<1>5. Level = 0
  BY <1>2 DEF Level, DecisionLevel
<1>6. Propagated
  <2>1. Watched = {}
    BY <1>2 DEF Watched
  <2> QED
    BY <1>2, <2>1 DEF Propagated, Settled
<1>7. Mirror
  BY <1>2 DEF Mirror, Parsing, Searching
<1>8. Verdict
  <2>1. {} \in setup.fitting
    BY <1>1, SetupIs
  <2>2. ToSet(theory.vids) = {}
    BY <1>2, NoneDistinct
  <2> QED
    BY <1>2, <2>1, <2>2 DEF Verdict, Searching
<1>9. FormulaKept
  <2>1. \A i \in DOMAIN setup.formula : i >= next
    <3>1. setup.formula \in Seq(SUBSET Literals)
      BY <1>1, SetupIs
    <3> QED
      BY <1>2, <3>1
  <2> QED
    BY <1>2, <2>1 DEF FormulaKept, Parsing, Searching
<1>10. Sound
  <2>1. DOMAIN trail = {}
    BY <1>2
  <2>2. \A true : Respects(true, trail)
    BY <2>1 DEF Respects
  <2>3. pc # "conflict" /\ result # "False"
    BY <1>2
  <2>4. \A true \in Solutions : SoundFor(true)
    BY <1>2, <2>2, <2>3 DEF SoundFor
  <2> QED
    BY <2>4, SoundIs
<1>11. ConflictIsCurrent /\ TrueIsModel
  BY <1>2 DEF ConflictIsCurrent, TrueIsModel
<1> QED
  BY <1>1, <1>4, <1>6, <1>7, <1>8, <1>9, <1>10, <1>11 DEF IInv

\* Stuttering keeps the invariant.
LEMMA IdleStep ==
  ASSUME IInv, UNCHANGED vars
  PROVE  IInv'
<1>1. /\ setup' = setup /\ pc' = pc /\ next' = next /\ ok' = ok /\ clauses' = clauses
      /\ lemmas' = lemmas /\ learnts' = learnts /\ trail' = trail /\ theory' = theory
      /\ confl' = confl /\ conflicts' = conflicts /\ result' = result /\ model' = model
  BY DEF vars
<1>2. /\ Literals' = Literals /\ Variables' = Variables /\ Solutions' = Solutions
      /\ Watched' = Watched /\ Level' = Level /\ Exhausted' = Exhausted
      /\ Early' = Early /\ Parsing' = Parsing /\ Searching' = Searching
  BY <1>1, SolutionsKept
     DEF Literals, Variables, Watched, Level, Exhausted, Unassigned, Early, Parsing, Searching
<1>3. TypeOK'
  BY <1>1, <1>2 DEF IInv, TypeOK
<1>4. TrailOK'
  BY <1>1, <1>2 DEF IInv, TrailOK
<1>5. Propagated'
  BY <1>1, <1>2 DEF IInv, Propagated, Settled, Settles
<1>6. Mirror'
  BY <1>1, <1>2 DEF IInv, Mirror, Mirrors
<1>7. Verdict'
  BY <1>1, <1>2 DEF IInv, Verdict, VidsOf
<1>8. FormulaKept'
  BY <1>1, <1>2 DEF IInv, FormulaKept
<1>9. Sound'
  BY <1>1, <1>2 DEF IInv, Sound, IsModel
<1>10. ConflictIsCurrent' /\ TrueIsModel'
  BY <1>1, <1>2 DEF IInv, ConflictIsCurrent, TrueIsModel, IsModel
<1> QED
  BY <1>3, <1>4, <1>5, <1>6, <1>7, <1>8, <1>9, <1>10 DEF IInv

\* The inductive invariant: the trail is one, the theory mirrors it,
\* propagation is complete at every level left, and everything kept follows
\* from the formula and the budgets.
THEOREM InvariantHolds == Spec => []IInv
<1>1. Init => IInv
  BY StartIs
<1>2. IInv /\ [Next]_vars => IInv'
  <2>1. ASSUME IInv, Next PROVE IInv'
    <3>1. TypeOK' /\ TrailOK' /\ Propagated' /\ Mirror'
      BY <2>1, TypeStep, TrailStep, PropagatedStep, TheoryStep
    <3>2. Verdict' /\ FormulaKept' /\ Sound' /\ ConflictIsCurrent' /\ TrueIsModel'
      BY <2>1, VerdictStep, FormulaStep, SoundStep, ConflictStep, ModelStep
    <3> QED
      BY <3>1, <3>2 DEF IInv
  <2> QED
    BY <2>1, IdleStep
<1> QED
  BY <1>1, <1>2, PTL DEF Spec

-----------------------------------------------------------------------------
(* The properties.                                                          *)

\* TypeOK, for every formula, every family of sets that fit and every order
\* of decisions.
THEOREM TypeCorrect == Spec => []TypeOK
<1>1. IInv => TypeOK
  BY DEF IInv
<1> QED
  BY <1>1, InvariantHolds, PTL

\* What follows the first of two sequences is the second.
LEMMA TailOfConcat ==
  ASSUME NEW S, NEW s \in Seq(S), NEW t \in Seq(S)
  PROVE  SubSeq(s \o t, Len(s) + 1, Len(s \o t)) = t
<1> DEFINE both == s \o t
           tail == SubSeq(both, Len(s) + 1, Len(both))
<1>1. /\ Len(s) \in Nat /\ Len(t) \in Nat /\ both \in Seq(S) /\ Len(both) = Len(s) + Len(t)
      /\ \A i \in 1 .. Len(t) : both[Len(s) + i] = t[i]
  OBVIOUS
<1> HIDE DEF both
<1>2. /\ Len(tail) = Len(t) /\ tail \in Seq(S)
      /\ \A i \in 1 .. Len(t) : tail[i] = both[Len(s) + i]
  BY <1>1
<1> HIDE DEF tail
<1>3. /\ tail \in Seq(S) /\ t \in Seq(S) /\ Len(tail) = Len(t)
      /\ \A i \in 1 .. Len(t) : tail[i] = t[i]
  BY <1>1, <1>2
<1>4. tail = t
  BY <1>3
<1> QED
  BY <1>4 DEF tail, both

\* The mirror of the invariant is that of the property.
LEMMA MirrorIs == IInv => TheoryMirrorsTrail
<1> SUFFICES ASSUME IInv, Searching
             PROVE  LET fixed == Len(Among(setup.vids, Lits(KeptUntil(trail, 0))))
                    IN /\ ToSet(theory.vids) = {v \in setup.vids : IsTrue(trail, v)}
                       /\ SubSeq(theory.vids, fixed + 1, Len(theory.vids))
                            = Among(setup.vids, LitsAbove(trail, 0))
  BY DEF TheoryMirrorsTrail
<1>1. TypeOK /\ TypedTrail(trail) /\ IsTrail(trail) /\ 0 \in Int /\ Mirrors(trail, theory.vids)
  BY TrailIsTyped DEF IInv, Mirror, TypedTrail
<1>2. ToSet(theory.vids) = {v \in setup.vids : IsTrue(trail, v)}
  BY <1>1, MirrorSet DEF VidsOf
<1> DEFINE fixed == Among(setup.vids, Lits(KeptUntil(trail, 0)))
           high == LitsAbove(trail, 0)
           rest == Among(setup.vids, high)
<1>3. PICK first \in Seq(setup.vids) : theory.vids = first \o rest /\ Len(first) = Len(fixed)
  BY <1>1 DEF Mirrors
<1>4. high \in Seq(Int)
  BY <1>1, LitsTyped
<1> HIDE DEF high
<1>5. rest \in Seq(Int)
  BY <1>4, AmongType
<1>6. first \in Seq(Int)
  <2>1. setup.vids \subseteq Int
    BY <1>1, SetupIs
  <2> QED
    BY <1>3, <2>1
<1> HIDE DEF rest, fixed
<1>7. SubSeq(theory.vids, Len(fixed) + 1, Len(theory.vids)) = rest
  BY <1>3, <1>5, <1>6, TailOfConcat
<1> QED
  BY <1>2, <1>7 DEF fixed, rest, high

\* TheoryMirrorsTrail: soln_vids holds the true vertices, those above level 0
\* in the order of the trail, so that the pops of the shrink callback take
\* off the vertices that go (theories.cpp:251-259).
THEOREM MirrorsTrail == Spec => []TheoryMirrorsTrail
BY InvariantHolds, MirrorIs, PTL

\* The invariant's account of verdicts gives the property.
LEMMA VerdictIs == IInv => VerdictFresh
<1>1. ASSUME Searching PROVE pc # "returned"
  BY <1>1 DEF Searching
<1> QED
  BY <1>1 DEF IInv, Verdict, VerdictFresh

\* VerdictFresh: with cb_interval 1 the search never goes on over vertices
\* that do not fit (theories.cpp:225-229, Solver.cc:680-687).
THEOREM VerdictIsFresh == Spec => []VerdictFresh
BY InvariantHolds, VerdictIs, PTL

\* ConflictIsCurrent: analyze is only given clauses that are false and have a
\* literal of the current level (Solver.cc:338-394).
THEOREM ConflictsAreCurrent == Spec => []ConflictIsCurrent
<1>1. IInv => ConflictIsCurrent
  BY DEF IInv
<1> QED
  BY <1>1, InvariantHolds, PTL

\* What holds in every solution covers the clauses learnt and what is fixed
\* at level 0.
LEMMA LearntsAre == IInv => LearntsFollow
<1> SUFFICES ASSUME IInv, ~ setup.heuristic, NEW true \in Solutions
             PROVE  /\ IsModel(true, learnts \union lemmas)
                    /\ IsModel(true, {{lit} : lit \in ToSet(Lits(KeptUntil(trail, 0)))})
  BY DEF LearntsFollow
<1>1. /\ IsTrail(trail) /\ Respects(true, trail) /\ 0 \in Int
      /\ \A c \in clauses \union lemmas \union learnts : Says(true, c)
  BY SoundNow
<1>2. IsModel(true, learnts \union lemmas)
  BY <1>1, IsModelSays
<1>3. ASSUME NEW c \in {{lit} : lit \in ToSet(Lits(KeptUntil(trail, 0)))}
      PROVE  Says(true, c)
  <2>1. PICK lit \in ToSet(Lits(KeptUntil(trail, 0))) : c = {lit}
    BY <1>3
  <2>2. PICK i \in DOMAIN KeptUntil(trail, 0) : KeptUntil(trail, 0)[i].lit = lit
    BY DEF ToSet, Lits
  <2>3. i \in DOMAIN trail /\ trail[i].level <= 0 /\ trail[i].lit = lit
    <3>1. /\ DOMAIN KeptUntil(trail, 0) = {j \in DOMAIN trail : trail[j].level <= 0}
          /\ \A j \in DOMAIN KeptUntil(trail, 0) : KeptUntil(trail, 0)[j] = trail[j]
      <4>1. IsTrail(trail) /\ 0 \in Int
        BY <1>1
      <4> QED
        BY <4>1, KeptIs
    <3> QED
      BY <2>2, <3>1
  <2>4. trail[i].level = 0
    <3>1. trail[i].level \in Nat
      BY <1>1, <2>3, TrailTypes
    <3> QED
      BY <2>3, <3>1
  <2>5. Holds(true, lit)
    BY <1>1, <2>3, <2>4 DEF Respects
  <2> QED
    BY <2>1, <2>5 DEF Says
<1> QED
  BY <1>2, <1>3, IsModelSays

\* LearntsFollow: what analyze learns and fixes at level 0 follows from the
\* formula and the budgets (Solver.cc:338-460, 464-533).
THEOREM LearntsAreSound == Spec => []LearntsFollow
BY InvariantHolds, LearntsAre, PTL

\* TrueIsModel: l_True comes with a model of the file, whose vertices fit the
\* budgets with cb_interval 1 (Solver.cc:1002-1005).
THEOREM TrueIsRight == Spec => []TrueIsModel
<1>1. IInv => TrueIsModel
  BY DEF IInv
<1> QED
  BY <1>1, InvariantHolds, PTL

\* With a solution left the result is not l_False.
LEMMA FalseIs == IInv => FalseMeansNone
<1> SUFFICES ASSUME IInv, ~ setup.heuristic, result = "False", NEW true \in Solutions
             PROVE  FALSE
  BY DEF FalseMeansNone
<1> QED
  BY SoundNow

\* FalseMeansNone: with an LKH that misses nothing, l_False means that no
\* assignment satisfies the formula within the budgets.
THEOREM FalseIsRight == Spec => []FalseMeansNone
BY InvariantHolds, FalseIs, PTL

\* The last element appended and what is before it.
LEMMA LastOfAppend ==
  ASSUME NEW S, NEW s \in Seq(S), NEW e \in S
  PROVE  Front(Append(s, e)) = s /\ Last(Append(s, e)) = e
<1> DEFINE longer == Append(s, e)
<1>1. /\ Len(s) \in Nat /\ longer \in Seq(S) /\ Len(longer) = Len(s) + 1
      /\ longer[Len(s) + 1] = e /\ \A i \in 1 .. Len(s) : longer[i] = s[i]
  OBVIOUS
<1> HIDE DEF longer
<1>2. Last(longer) = e
  BY <1>1 DEF Last
<1>3. Front(longer) = SubSeq(longer, 1, Len(s))
  BY <1>1 DEF Front
<1>4. SubSeq(longer, 1, Len(s)) = s
  BY <1>1
<1> QED
  BY <1>2, <1>3, <1>4 DEF longer

\* A clause within one that is unit is not settled.
LEMMA NotSubsumed ==
  ASSUME NEW t, IsTrail(t), NEW learnt \in SUBSET Lit, NEW lit, UnitUnder(t, learnt, lit),
         NEW d, d \subseteq learnt
  PROVE  ~ Settles(t, d)
<1>1. lit \in Lit /\ ~ Assigned(t, lit) /\ \A x \in learnt \ {lit} : IsFalse(t, x)
  BY DEF UnitUnder, Falsified
<1>2. ASSUME NEW x \in d PROVE ~ IsTrue(t, x)
  <2>1. CASE x = lit
    BY <1>1, <2>1 DEF Assigned
  <2>2. CASE x # lit
    <3>1. IsFalse(t, x) /\ x \in Lit
      BY <1>1, <2>2
    <3> QED
      BY <3>1, NotBoth
  <2> QED
    BY <2>1, <2>2
<1>3. \A x \in {y \in d : ~ Assigned(t, y)} : x = lit
  BY <1>1 DEF Assigned
<1> QED
  BY <1>2, <1>3 DEF Settles, Satisfied, Several

\* What Learn adds is false before the cut and unit after it, and no clause
\* watched is part of it: that clause would have been unit or falsified when
\* the level was left.
LEMMA AssertsStep ==
  ASSUME IInv, Learn, learnts' # learnts
  PROVE  \E c \in learnts' \ learnts :
           /\ Falsified(trail, c)
           /\ \A d \in Watched : ~ d \subseteq c
           /\ \E lit \in c : UnitUnder(Front(trail'), c, lit) /\ Last(trail').lit = lit
<1> DEFINE learnt == Learnt(trail, confl)
           lit == Asserting(trail, learnt)
           level == BacktrackLevel(trail, learnt)
           reason == IF learnt = {lit} THEN {} ELSE learnt
           kept == KeptUntil(trail, level)
           e == Entry(lit, level, reason)
<1>1. TypeOK /\ TrailOK /\ TypedTrail(trail) /\ IsTrail(trail)
  BY TrailIsTyped DEF IInv, TypedTrail
<1>2. Learnable(learnt, lit, level)
  BY <1>1, LearnIs DEF Learn, IInv
<1>3. /\ trail' = Append(kept, e)
      /\ learnts' = learnts \union ({learnt} \ {{lit}})
  BY DEF Learn
<1> HIDE DEF learnt, lit, level
<1>4. /\ level \in Int /\ level \in 0 .. Level - 1 /\ lit \in learnt /\ learnt \in SUBSET Lit
      /\ Falsified(trail, learnt) /\ UnitUnder(kept, learnt, lit)
      /\ Enqueues(kept, lit, level, reason)
  <2>1. /\ level \in Nat /\ level < Level /\ lit \in learnt /\ learnt \subseteq Lit
        /\ Falsified(trail, learnt) /\ UnitUnder(kept, learnt, lit)
        /\ Enqueues(kept, lit, level, reason)
    BY <1>2 DEF Learnable, Learns
  <2>2. Level \in Nat
    BY <1>1, TrailIsTyped
  <2> QED
    BY <2>1, <2>2
<1>5. learnt \in learnts' \ learnts
  BY <1>3
<1>6. TypedTrail(kept) /\ IsTrail(kept)
  BY <1>1, <1>4, KeptTyped DEF TypedTrail
<1>7. \A d \in Watched : ~ d \subseteq learnt
  <2>1. Settled(kept)
    <3>1. pc # "returned"
      BY DEF Learn
    <3> QED
      BY <1>4, <3>1 DEF IInv, Propagated
  <2> QED
    BY <1>4, <1>6, <2>1, NotSubsumed DEF Settled
<1>8. Front(trail') = kept /\ Last(trail').lit = lit
  <2>1. e \in Entries /\ e.lit = lit
    <3>1. Entry(lit, level, reason) \in Entries /\ Entry(lit, level, reason).lit = lit
      BY <1>1, <1>4, <1>6, EnqueueIs
    <3> QED
      BY <3>1
  <2>2. kept \in Seq(Entries)
    BY <1>6 DEF IsTrail
  <2> HIDE DEF e, kept
  <2> QED
    BY <1>3, <2>1, <2>2, LastOfAppend
<1> QED
  BY <1>4, <1>5, <1>7, <1>8

\* LearntIsAsserting: the post-conditions of analyze (Solver.cc:328-331), and
\* no clause that was watched already says as much.
THEOREM LearntsAssert == Spec => LearntIsAsserting
<1> DEFINE Asserts == learnts' # learnts /\ pc = "conflict" =>
             \E c \in learnts' \ learnts :
               /\ Falsified(trail, c)
               /\ \A d \in Watched : ~ d \subseteq c
               /\ \E lit \in c : UnitUnder(Front(trail'), c, lit) /\ Last(trail').lit = lit
<1>1. IInv /\ [Next]_vars => [Asserts]_vars
  <2> SUFFICES ASSUME IInv, Next, learnts' # learnts, pc = "conflict"
               PROVE  Asserts
    BY DEF vars
  <2>1. Learn
    BY DEF Next, AddClause, ParsedUnit, ParsedConflict, ParsedFixpoint, Parsed, Replay, StartSearch,
           UnitPropagation, ClauseConflict, PropagationEnds, ConflictAtZero, OutOfBudget,
           Restart, Decide, ModelFound, Done, vars
  <2> QED
    BY <2>1, AssertsStep
<1> QED
  BY <1>1, InvariantHolds, PTL DEF Spec, LearntIsAsserting
=============================================================================
