----------------------------- MODULE SolverTrail -----------------------------
(***************************************************************************)
(* The trail of cb_minisat's Solver (cb_minisat/minisat/core/Solver.cc)    *)
(* and what the search computes from it: values, levels, the clause        *)
(* learnt from a conflict and the level to go back to.                     *)
(*                                                                         *)
(* A literal is a variable or its negative, a clause a set of literals.    *)
(* The trail is a sequence of records [lit, level, reason]; a decision and *)
(* a learnt unit have the reason {} (CRef_Undef).                          *)
(***************************************************************************)
EXTENDS Integers, SequencesExt, FiniteSetsExt

Var(lit) == IF lit < 0 THEN - lit ELSE lit

Entry(lit, level, reason) == [lit |-> lit, level |-> level, reason |-> reason]

Lits(trail) == [i \in DOMAIN trail |-> trail[i].lit]
IsTrue(trail, lit) == \E i \in DOMAIN trail : trail[i].lit = lit
IsFalse(trail, lit) == IsTrue(trail, - lit)
Assigned(trail, lit) == IsTrue(trail, lit) \/ IsFalse(trail, lit)

\* Solver::satisfied, and its opposite: every literal is false.
Satisfied(trail, clause) == \E lit \in clause : IsTrue(trail, lit)
Falsified(trail, clause) == \A lit \in clause : IsFalse(trail, lit)
UnitUnder(trail, clause, lit) ==
  /\ lit \in clause
  /\ ~ Assigned(trail, lit)
  /\ Falsified(trail, clause \ {lit})

DecisionLevel(trail) == IF trail = << >> THEN 0 ELSE Last(trail).level

EntryOf(trail, lit) == CHOOSE i \in DOMAIN trail : Var(trail[i].lit) = Var(lit)
LevelOf(trail, lit) == trail[EntryOf(trail, lit)].level

\* trail_lim[level]: as many entries are at that level or below it.
TrailLim(trail, level) ==
  CHOOSE n \in 0 .. Len(trail) :
    \A i \in DOMAIN trail : trail[i].level <= level <=> i <= n

\* cancelUntil: the entries that stay and the literals that go.
KeptUntil(trail, level) == SubSeq(trail, 1, TrailLim(trail, level))
LitsAbove(trail, level) ==
  SubSeq(Lits(trail), TrailLim(trail, level) + 1, Len(trail))

\* What a callback makes of the literals it is handed: those of a set, in their
\* order.
Among(set, lits) ==
  LET kept[n \in 0 .. Len(lits)] ==
        IF n = 0 THEN << >>
        ELSE IF lits[n] \in set THEN Append(kept[n - 1], lits[n]) ELSE kept[n - 1]
  IN kept[Len(lits)]

Several(S) == ~ \A x, y \in S : x = y

\* The literals of a clause that analyze looks at: those above level 0.
AboveZero(trail, clause) == {lit \in clause : LevelOf(trail, lit) > 0}
AtLevel(trail, clause, level) == {lit \in clause : LevelOf(trail, lit) = level}

\* A literal of the current level is replaced by its reason, unless it is the
\* last of them.
Resolve(trail, entry, clause) ==
  IF - entry.lit \in clause /\ Several(AtLevel(trail, clause, DecisionLevel(trail)))
  THEN (clause \ {- entry.lit}) \union AboveZero(trail, entry.reason \ {entry.lit})
  ELSE clause

\* analyze, its first loop: walking down the trail until one literal of the
\* current level is left (the first UIP).
FirstUIP(trail, conflict) ==
  LET resolved[n \in 0 .. Len(trail)] ==
        IF n = 0 THEN AboveZero(trail, conflict)
        ELSE Resolve(trail, trail[Len(trail) - n + 1], resolved[n - 1])
  IN resolved[Len(trail)]

\* A slip for Redundant: one parent in the clause is enough.
RedundantEager(trail, clause) ==
  {lit \in clause : trail[EntryOf(trail, lit)].reason \intersect clause # {lit}}

\* The reason of an entry leads back to the clause, to level 0 and to
\* literals that are implied already.
Implies(trail, clause, implied, entry) ==
  /\ entry.reason # {}
  /\ \A lit \in AboveZero(trail, entry.reason \ {entry.lit}) :
       lit \in clause \/ - lit \in implied

AddImplied(trail, clause, implied, entry) ==
  IF Implies(trail, clause, implied, entry) THEN implied \union {entry.lit} ELSE implied

\* analyze, ccmin_mode 2 (litRedundant): the literals whose reasons lead
\* back to the clause and to level 0 only.
Redundant(trail, clause) ==
  LET implied[n \in 0 .. Len(trail)] ==
        IF n = 0 THEN {} ELSE AddImplied(trail, clause, implied[n - 1], trail[n])
  IN {lit \in clause : - lit \in implied[Len(trail)]}

Learnt(trail, conflict) ==
  LET uip == FirstUIP(trail, conflict)
      asserting == AtLevel(trail, uip, DecisionLevel(trail))
  IN asserting \union ((uip \ asserting) \ Redundant(trail, uip))

\* learnt_clause[0].
Asserting(trail, learnt) ==
  CHOOSE lit \in learnt : LevelOf(trail, lit) = DecisionLevel(trail)

\* A slip for BacktrackLevel: the lowest level of the other literals.
LowestLevel(trail, learnt) ==
  LET levels == {LevelOf(trail, lit) : lit \in learnt \ {Asserting(trail, learnt)}}
  IN IF levels = {} THEN 0 ELSE Min(levels)

\* out_btlevel: the highest level among the other literals of the clause.
BacktrackLevel(trail, learnt) ==
  Max({0} \union {LevelOf(trail, lit) :
                    lit \in learnt \ {Asserting(trail, learnt)}})
=============================================================================
