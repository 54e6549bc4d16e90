------------------------------ MODULE CbMinisat ------------------------------
(***************************************************************************)
(* One run of cb_minisat under SATTSP: reset_formula (src/sattsp.cpp)      *)
(* parses the clauses into a fresh Solver, replays what parsing assigned   *)
(* to the theory and calls solve (cb_minisat/minisat/core/Solver.cc),      *)
(* which searches with the theory called back on every push, on every      *)
(* shrink of the trail and on every check.                                 *)
(*                                                                         *)
(* Clauses are sets: which clause propagate finds first is left open, and  *)
(* so are the order of decisions and their polarity.  A clause from the    *)
(* formula or learnt is watched by two literals that are not false, so     *)
(* propagate finds it when it is unit; a clause of the theory is watched   *)
(* by its first two vertices, false when it is attached, so propagate may  *)
(* find it or not.                                                         *)
(***************************************************************************)
EXTENDS MetricTheory

CONSTANT Setups  \* what one run of the solver may be given

\* What the theory is asked (IsQuery), and:
\*   formula       the file: a sequence of clauses over 1 .. numVars
\*   restartAfter  conflicts before a restart (the Luby sequence, flattened)
\*   maxLearnts    max_learnts: learnt clauses before reduceDB
\*   limited       withinBudget may turn false
LiteralsOf(s) == 1 .. s.numVars \union {- v : v \in 1 .. s.numVars}

ASSUME SetupsAssumption ==
  \A s \in Setups :
    /\ IsQuery(s)
    /\ s.numVars \in Nat
    /\ s.vids \subseteq 1 .. s.numVars
    /\ s.formula \in Seq(SUBSET LiteralsOf(s))
    /\ s.restartAfter \in Nat \ {0}
    /\ s.maxLearnts \in Nat
    /\ s.limited \in BOOLEAN

VARIABLES
  pc,        \* what the code is doing
  setup,     \* what the run was given, a member of Setups
  next,      \* the clause to add or the variable to replay
  ok,        \* Solver.ok: no conflict at level 0 so far
  clauses,   \* clauses of the formula, as addClause_ keeps them
  lemmas,    \* clauses handed over by the theory
  learnts,   \* learnt clauses
  trail,     \* assigned literals, with levels and reasons
  theory,    \* the state of Metric_TSP_Theory
  confl,     \* the conflict to analyze
  conflicts, \* conflicts since the last restart
  result,    \* what solve returns
  model      \* the true variables of the model

vars == <<pc, setup, next, ok, clauses, lemmas, learnts, trail, theory,
          confl, conflicts, result, model>>

Variables == 1 .. setup.numVars
Literals == LiteralsOf(setup)

Watched == clauses \union learnts
Level == DecisionLevel(trail)
Unassigned(c) == {lit \in c : ~ Assigned(trail, lit)}
Exhausted == ~ \E c \in Watched : ~ Satisfied(trail, c) /\ ~ Several(Unassigned(c))

Init ==
  /\ setup \in Setups
  /\ \E checked \in BOOLEAN : theory = Reset(checked)
  /\ pc = "parse" /\ next = 1 /\ ok = TRUE
  /\ clauses = {} /\ lemmas = {} /\ learnts = {} /\ trail = << >>
  /\ confl = {} /\ conflicts = 0 /\ result = "none" /\ model = {}

-----------------------------------------------------------------------------
(* Parsing: the callbacks are not set yet.                                  *)

Tautology(clause) == \E lit \in clause : - lit \in clause

\* addClause_: false literals go.
Simplified(clause) == {lit \in clause : ~ IsFalse(trail, lit)}

AddClause ==
  /\ pc = "parse" /\ next <= Len(setup.formula)
  /\ next' = next + 1
  /\ LET clause == setup.formula[next]
         rest == Simplified(clause)
         dropped == ~ ok \/ Tautology(clause) \/ Satisfied(trail, clause)
     IN \/ /\ dropped
           /\ UNCHANGED <<pc, ok, clauses, trail>>
        \/ /\ ~ dropped /\ rest = {}
           /\ ok' = FALSE
           /\ UNCHANGED <<pc, clauses, trail>>
        \/ /\ ~ dropped
           /\ \E lit \in rest :
                /\ rest = {lit}
                /\ trail' = Append(trail, Entry(lit, 0, {}))
           /\ pc' = "parsed unit"
           /\ UNCHANGED <<ok, clauses>>
        \/ /\ ~ dropped /\ Several(rest)
           /\ clauses' = clauses \union {rest}
           /\ UNCHANGED <<pc, ok, trail>>
  /\ UNCHANGED <<setup, lemmas, learnts, theory, confl, conflicts, result, model>>

ParsedUnit ==
  /\ pc = "parsed unit"
  /\ \E c \in clauses : \E lit \in c :
       /\ UnitUnder(trail, c, lit)
       /\ trail' = Append(trail, Entry(lit, 0, c))
  /\ UNCHANGED <<pc, setup, next, ok, clauses, lemmas, learnts, theory, confl,
                 conflicts, result, model>>

ParsedConflict ==
  /\ pc = "parsed unit"
  /\ \E c \in clauses : Falsified(trail, c)
  /\ ok' = FALSE /\ pc' = "parse"
  /\ UNCHANGED <<setup, next, clauses, lemmas, learnts, trail, theory, confl,
                 conflicts, result, model>>

ParsedFixpoint ==
  /\ pc = "parsed unit" /\ Exhausted
  /\ pc' = "parse"
  /\ UNCHANGED <<setup, next, ok, clauses, lemmas, learnts, trail, theory,
                 confl, conflicts, result, model>>

Parsed ==
  /\ pc = "parse" /\ next > Len(setup.formula)
  /\ pc' = "replay" /\ next' = 1
  /\ UNCHANGED <<setup, ok, clauses, lemmas, learnts, trail, theory, confl,
                 conflicts, result, model>>

\* A slip for Assigns: negative assignments are replayed as positive ones.
AssignsPositive(var) == IF Assigned(trail, var) THEN var ELSE 0

\* The literal of a variable that parsing assigned, 0 for none.
Assigns(var) == IF IsTrue(trail, var) THEN var
                ELSE IF IsFalse(trail, var) THEN - var ELSE 0

\* reset_formula, its last loop: in the order of the variables.
Replay ==
  /\ pc = "replay" /\ next <= setup.numVars
  /\ next' = next + 1
  /\ theory' \in IF Assigns(next) = 0 THEN {theory} ELSE Push(setup, theory, Assigns(next))
  /\ UNCHANGED <<pc, setup, ok, clauses, lemmas, learnts, trail, confl,
                 conflicts, result, model>>

\* solve_: a formula already refuted is not searched.
StartSearch ==
  /\ pc = "replay" /\ next > setup.numVars
  /\ pc' = IF ok THEN "propagate" ELSE "returned"
  /\ result' = IF ok THEN "none" ELSE "False"
  /\ UNCHANGED <<setup, next, ok, clauses, lemmas, learnts, trail, theory,
                 confl, conflicts, model>>
-----------------------------------------------------------------------------
(* propagate.                                                               *)

\* check_conflict_callback on the state pushed: a conflict becomes a clause.
CheckTheory(pushed, otherwise) ==
  /\ theory' = Checked(pushed)
  /\ IF HasConflict(pushed)
     THEN /\ lemmas' = lemmas \union {ConflictClause(pushed)}
          /\ confl' = ConflictClause(pushed)
          /\ pc' = "conflict"
     ELSE /\ pc' = otherwise
          /\ UNCHANGED <<lemmas, confl>>

\* The clauses that propagate may come to.  A clause of the theory may be
\* watched by literals that were false before it was attached, and is found
\* only from one that has become false since, at the current level.
HasCurrent(c) == \E lit \in c : IsFalse(trail, lit) /\ LevelOf(trail, lit) = Level
Visited == Watched \union {c \in lemmas : HasCurrent(c)}

UnitPropagation ==
  /\ pc = "propagate"
  /\ \E c \in Visited : \E lit \in c :
       /\ UnitUnder(trail, c, lit)
       /\ trail' = Append(trail, Entry(lit, Level, c))
       /\ \E pushed \in Push(setup, theory, lit) : CheckTheory(pushed, "propagate")
  /\ UNCHANGED <<setup, next, ok, clauses, learnts, conflicts, result, model>>

ClauseConflict ==
  /\ pc = "propagate"
  /\ \E c \in Visited : Falsified(trail, c) /\ confl' = c
  /\ pc' = "conflict"
  /\ UNCHANGED <<setup, next, ok, clauses, lemmas, learnts, trail, theory,
                 conflicts, result, model>>

PropagationEnds ==
  /\ pc = "propagate" /\ Exhausted
  /\ CheckTheory(theory, "decide")
  /\ UNCHANGED <<setup, next, ok, clauses, learnts, trail, conflicts, result,
                 model>>
-----------------------------------------------------------------------------
(* search, after a conflict.                                                *)

Return(status) == pc' = "returned" /\ result' = status

\* solve_ ends with cancelUntil(0) whatever the status.
BackToZero ==
  /\ trail' = KeptUntil(trail, 0)
  /\ theory' = Shrink(setup, theory, LitsAbove(trail, 0))

ConflictAtZero ==
  /\ pc = "conflict" /\ Level = 0
  /\ Return("False") /\ ok' = FALSE
  /\ UNCHANGED <<setup, next, clauses, lemmas, learnts, trail, theory, confl,
                 conflicts, model>>

Learn ==
  /\ pc = "conflict" /\ Level > 0
  /\ LET learnt == Learnt(trail, confl)
         lit == Asserting(trail, learnt)
         level == BacktrackLevel(trail, learnt)
     IN /\ trail' = Append(KeptUntil(trail, level),
                           Entry(lit, level, IF learnt = {lit} THEN {} ELSE learnt))
        /\ theory' \in Push(setup, Shrink(setup, theory, LitsAbove(trail, level)), lit)
        /\ learnts' = learnts \union ({learnt} \ {{lit}})
  /\ pc' = "propagate" /\ confl' = {} /\ conflicts' = conflicts + 1
  /\ UNCHANGED <<setup, next, ok, clauses, lemmas, result, model>>
-----------------------------------------------------------------------------
(* search, without a conflict.                                              *)

\* The time or the conflicts allowed have run out: l_Undef.
OutOfBudget ==
  /\ pc = "decide" /\ setup.limited
  /\ Return("Undef") /\ BackToZero
  /\ UNCHANGED <<setup, next, ok, clauses, lemmas, learnts, confl, conflicts,
                 model>>

\* search returns l_Undef at its bound on conflicts and solve_ calls it again.
Restart ==
  /\ pc = "decide" /\ conflicts >= setup.restartAfter
  /\ BackToZero
  /\ pc' = "propagate" /\ conflicts' = 0
  /\ UNCHANGED <<setup, next, ok, clauses, lemmas, learnts, confl, result, model>>

\* simplify, at level 0 and when its counters say so: clauses that are
\* satisfied go and the others lose their false literals, but for the first
\* two.  In a clause watched these are unassigned by then.
Unsatisfied(db) == {c \in db : ~ Satisfied(trail, c)}
SimplifiedDB(db) == {Simplified(c) : c \in Unsatisfied(db)}

\* In a clause of the theory they may be false, against the assertion in
\* removeSatisfied, and stay: at most two, so that two are left.
InFront(c) ==
  {front \in SUBSET (c \ Simplified(c)) :
     Cardinality(front) <= 2 /\ Several(Simplified(c) \union front)}

SimplifiedLemmas ==
  LET kept == Unsatisfied(lemmas)
      fronts == {f \in [kept -> UNION {InFront(c) : c \in kept}] : \A c \in kept : f[c] \in InFront(c)}
  IN {{Simplified(c) \union f[c] : c \in kept} : f \in fronts}

Locked(clause) == \E i \in DOMAIN trail : trail[i].reason = clause

\* reduceDB: any of the learnt clauses that are not binary and no reasons
\* may go, once there are too many (activity decides which).
Reduced(db) ==
  IF Cardinality(db) - Len(trail) < setup.maxLearnts THEN {db}
  ELSE {db \ gone : gone \in SUBSET {c \in db : Cardinality(c) > 2 /\ ~ Locked(c)}}

Decide ==
  /\ pc = "decide" /\ conflicts < setup.restartAfter
  /\ \E simplify \in {FALSE, Level = 0} :
       /\ clauses' = IF simplify THEN SimplifiedDB(clauses) ELSE clauses
       /\ lemmas' \in IF simplify THEN SimplifiedLemmas ELSE {lemmas}
       /\ learnts' \in Reduced(IF simplify THEN SimplifiedDB(learnts) ELSE learnts)
  /\ \E lit \in Literals :
       /\ ~ Assigned(trail, lit)
       /\ trail' = Append(trail, Entry(lit, Level + 1, {}))
       /\ theory' \in Push(setup, theory, lit)
  /\ pc' = "propagate"
  /\ UNCHANGED <<setup, next, ok, confl, conflicts, result, model>>

\* A slip for ModelFound: the trail is cut back before the model is copied.
ModelFoundLate ==
  /\ pc = "decide" /\ conflicts < setup.restartAfter
  /\ \A v \in Variables : Assigned(trail, v)
  /\ Return("True") /\ BackToZero
  /\ model' = {v \in Variables : IsTrue(trail', v)}
  /\ UNCHANGED <<setup, next, ok, clauses, lemmas, learnts, confl, conflicts>>

ModelFound ==
  /\ pc = "decide" /\ conflicts < setup.restartAfter
  /\ \A v \in Variables : Assigned(trail, v)
  /\ Return("True") /\ BackToZero
  /\ model' = {v \in Variables : IsTrue(trail, v)}
  /\ UNCHANGED <<setup, next, ok, clauses, lemmas, learnts, confl, conflicts>>

Done == pc = "returned" /\ UNCHANGED vars

Next ==
  \/ AddClause \/ ParsedUnit \/ ParsedConflict \/ ParsedFixpoint \/ Parsed
  \/ Replay \/ StartSearch
  \/ UnitPropagation \/ ClauseConflict \/ PropagationEnds
  \/ ConflictAtZero \/ Learn \/ OutOfBudget \/ Restart \/ Decide \/ ModelFound
  \/ Done

Spec == Init /\ [][Next]_vars /\ WF_vars(Next)
-----------------------------------------------------------------------------
(* Properties.                                                              *)

Searching == pc \in {"propagate", "conflict", "decide"}

IsModel(true, cs) ==
  \A c \in cs : \E lit \in c : IF lit > 0 THEN lit \in true ELSE - lit \notin true

\* The sets of true variables that the formula and the theory allow.
Solutions == {true \in SUBSET Variables :
                /\ IsModel(true, ToSet(setup.formula))
                /\ true \intersect setup.vids \in setup.fitting}

\* The theory mirrors the trail: soln_vids holds the true vertices, those
\* above level 0 in the order of the trail, so that the pops of the shrink
\* callback (theories.cpp:251-259) take off the vertices that go.
TheoryMirrorsTrail ==
  Searching =>
    LET fixed == Len(Among(setup.vids, Lits(KeptUntil(trail, 0))))
    IN /\ ToSet(theory.vids) = {v \in setup.vids : IsTrue(trail, v)}
       /\ SubSeq(theory.vids, fixed + 1, Len(theory.vids))
            = Among(setup.vids, LitsAbove(trail, 0))

\* With cb_interval 1 the search never goes on over vertices that do not
\* fit: the flag is up, and reported, before the next decision
\* (theories.cpp:225-229, Solver.cc:680-687).
VerdictFresh ==
  setup.interval = 1 =>
    /\ Searching /\ ~ theory.conflict => ToSet(theory.vids) \in setup.fitting
    /\ pc = "decide" => ~ theory.conflict

\* analyze is only given clauses it can work on: every literal is false and
\* one of them at the current level (Solver.cc:338-394).
ConflictIsCurrent ==
  pc = "conflict" =>
    /\ Falsified(trail, confl)
    /\ confl # {}
    /\ Level > 0 => \E lit \in confl : LevelOf(trail, lit) = Level

\* What analyze learns and what it fixes at level 0 follows from the formula
\* and the budgets, when LKH misses nothing (Solver.cc:338-460, 464-533).
LearntsFollow ==
  Searching /\ ~ setup.heuristic =>
    \A true \in Solutions :
      /\ IsModel(true, learnts \union lemmas)
      /\ IsModel(true, {{lit} : lit \in ToSet(Lits(KeptUntil(trail, 0)))})

\* l_True comes with a model of the formula in the file, and with cb_interval
\* 1 its vertices fit the budgets (Solver.cc:1002-1005).
TrueIsModel ==
  result = "True" =>
    /\ IsModel(model, ToSet(setup.formula))
    /\ setup.interval = 1 => model \in Solutions

\* With an LKH that misses nothing, l_False means that no assignment
\* satisfies the formula within the budgets.
FalseMeansNone ==
  ~ setup.heuristic /\ result = "False" => Solutions = {}

\* The literal learnt is asserting: the clause learnt is false before the
\* trail is cut back and unit after (analyze's post-conditions,
\* Solver.cc:328-331), and no clause that was watched already says as much.
LearntIsAsserting ==
  [][learnts' # learnts /\ pc = "conflict" =>
       \E c \in learnts' \ learnts :
         /\ Falsified(trail, c)
         /\ \A d \in Watched : ~ d \subseteq c
         /\ \E lit \in c : UnitUnder(Front(trail'), c, lit) /\ Last(trail').lit = lit]_vars

=============================================================================
