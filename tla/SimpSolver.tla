------------------------------ MODULE SimpSolver ------------------------------
(***************************************************************************)
(* The preprocessing of cb_minisat (cb_minisat/minisat/simp/SimpSolver.cc): *)
(* clauses that another one subsumes are removed or shortened, variables    *)
(* are resolved away, and a model of what is left is extended to one of     *)
(* what was given.                                                          *)
(*                                                                          *)
(* A clause is a set of literals and has a number (CRef).  propagate is     *)
(* taken to find every unit; one it misses, of a clause strengthened to     *)
(* literals that are false, is found by SubsumeAssign in the code, only     *)
(* later.  grow is 0 and use_elim holds, as they are by default; left out   *)
(* are use_rcheck, subsumption_lim, clause_lim, the user's interrupt, the   *)
(* garbage collection and substitute, which nothing calls.                  *)
(***************************************************************************)
EXTENDS Integers, SequencesExt, FiniteSetsExt

CONSTANTS
  Formulas,  \* sequences of clauses of two literals or more
  FrozenSets \* the sets of variables that may be frozen, as assumptions are

VARIABLES
  pc,         \* "loop", "subsume", "pick", "asymm", "eliminate",
              \* "done" or "unsat"
  formula,    \* what was given
  frozen,
  use_asymm,  \* shrink clauses by asymmetric branching
  s,          \* the solver: see Start
  bwd,        \* bwdsub_assigns
  elim,       \* the variable taken from elim_heap, 0 if none
  eliminated,
  elimclauses \* sequence of records [lit, others]

vars == <<pc, formula, frozen, use_asymm, s, bwd, elim, eliminated, elimclauses>>

Var(lit) == IF lit < 0 THEN - lit ELSE lit
Vars == {Var(lit) : lit \in UNION ToSet(formula)}
Alive(t, cr) == ~ t.db[cr].removed
IsTrue(t, lit) == lit \in ToSet(t.trail)
IsFalse(t, lit) == - lit \in ToSet(t.trail)
Unassigned(t, v) == ~ IsTrue(t, v) /\ ~ IsFalse(t, v)

\* occurs.lookup: the list without what was removed, which it stays without.
Occurs(t, v) == SelectSeq(t.occurs[v], LAMBDA cr : Alive(t, cr))
Looked(t, v) == [t EXCEPT !.occurs[v] = Occurs(t, v)]
-----------------------------------------------------------------------------
(* Clauses added, removed and shortened.                                    *)

\* What propagate adds to the literals that are true.
RECURSIVE Closed(_, _)
Closed(clauses, true) ==
  LET Rest(c) == {lit \in c : - lit \notin true}
      units == {c \in clauses : Cardinality(Rest(c)) = 1 /\ Rest(c) \intersect true = {}}
  IN IF units = {} THEN true ELSE Closed(clauses, true \union UNION {Rest(c) : c \in units})
Conflicting(clauses, true) ==
  \/ \E c \in clauses : \A lit \in c : - lit \in true
  \/ \E lit \in true : - lit \in true
AliveClauses(t) == {t.db[cr].lits : cr \in {n \in DOMAIN t.db : Alive(t, n)}}

\* enqueue of a literal at level 0, and propagate.
Enqueued(t, lit) ==
  LET closed == Closed(AliveClauses(t), ToSet(t.trail) \union {lit})
  IN IF IsFalse(t, lit) \/ Conflicting(AliveClauses(t), closed) THEN [t EXCEPT !.ok = FALSE]
     ELSE [t EXCEPT !.trail = @ \o SetToSeq(closed \ ToSet(@))]

\* addClause_: false literals are dropped, a satisfied clause is not added.
Added(t, lits) ==
  LET left == {lit \in lits : ~ IsFalse(t, lit)}
      cr == Len(t.db) + 1
  IN IF \E lit \in left : IsTrue(t, lit) \/ - lit \in left THEN t
     ELSE IF left = {} THEN [t EXCEPT !.ok = FALSE]
     ELSE IF Cardinality(left) = 1 THEN Enqueued(t, CHOOSE lit \in left : TRUE)
     ELSE [t EXCEPT !.db = Append(@, [lits |-> left, removed |-> FALSE]),
                    !.occurs = [v \in DOMAIN @ |->
                       IF v \in left \/ - v \in left THEN Append(@[v], cr) ELSE @[v]],
                    !.n_occ = [lit \in DOMAIN @ |-> @[lit] + (IF lit \in left THEN 1 ELSE 0)],
                    !.queue = Append(@, cr),
                    !.touched = @ \union {Var(lit) : lit \in left}]

\* updateElimHeap, which may put a variable back; not the one in hand, which
\* is frozen while asymmVar runs and eliminated while its clauses go.
Reheaped(t, vs) ==
  [t EXCEPT !.heap = @ \union {v \in vs \ (frozen \union eliminated \union {elim}) :
                                  Unassigned(t, v)}]

RemovedClause(t, cr) ==
  LET lits == t.db[cr].lits
      gone == [t EXCEPT !.n_occ = [lit \in DOMAIN @ |-> @[lit] - (IF lit \in lits THEN 1 ELSE 0)],
                        !.db[cr].removed = TRUE]
  IN Reheaped(gone, {Var(lit) : lit \in lits})

\* strengthenClause: of two literals, one is left and enqueued; a longer
\* clause stays, and leaves the list of the literal's variable.
Strengthened(t, cr, lit) ==
  IF Cardinality(t.db[cr].lits) = 2
  THEN Enqueued([RemovedClause(t, cr) EXCEPT !.queue = Append(@, cr)],
                CHOOSE l \in t.db[cr].lits : l # lit)
  ELSE Reheaped([t EXCEPT !.db[cr].lits = @ \ {lit},
                          !.occurs[Var(lit)] = SelectSeq(@, LAMBDA c : c # cr),
                          !.n_occ[lit] = @ - 1,
                          !.queue = Append(@, cr)], {Var(lit)})
-----------------------------------------------------------------------------
(* eliminate.                                                               *)

\* The solver as the formula's clauses leave it.
RECURSIVE AddedAll(_, _)
AddedAll(t, clauses) ==
  IF clauses = << >> \/ ~ t.ok THEN t
  ELSE CHOOSE r \in {AddedAll(next, Tail(clauses)) : next \in {Added(t, Head(clauses))}} : TRUE

Start(vs) ==
  [db |-> << >>, occurs |-> [v \in vs |-> << >>],
   n_occ |-> [lit \in vs \union {- v : v \in vs} |-> 0],
   queue |-> << >>,   \* subsumption_queue
   touched |-> {},    \* n_touched is zero when it is empty
   heap |-> vs,       \* elim_heap
   trail |-> << >>, ok |-> TRUE]

Init ==
  /\ formula \in Formulas
  /\ frozen \in FrozenSets /\ use_asymm \in BOOLEAN
  /\ \E vs \in {{Var(lit) : lit \in UNION ToSet(formula)}} :
       s = AddedAll(Start(vs), formula)
  /\ pc = "loop" /\ bwd = 0 /\ elim = 0 /\ eliminated = {} /\ elimclauses = << >>

\* gatherTouchedClauses, at the head of the loop.
Gathered(t) ==
  LET clauses == {cr \in DOMAIN t.db : \E v \in t.touched : cr \in ToSet(Occurs(t, v))}
  IN [t EXCEPT !.queue = @ \o SetToSeq(clauses \ ToSet(@)), !.touched = {},
               !.occurs = [v \in DOMAIN @ |-> IF v \in t.touched THEN Occurs(t, v) ELSE @[v]]]

LoopHead ==
  /\ pc = "loop"
  /\ IF s.touched = {} /\ bwd = Len(s.trail) /\ s.heap = {}
     THEN pc' = "done" /\ UNCHANGED s
     ELSE s' = Gathered(s) /\ pc' = "subsume"
  /\ UNCHANGED <<formula, frozen, use_asymm, bwd, elim, eliminated, elimclauses>>

\* Clause::subsumes: all of c is in d, but for one literal that may be there
\* negated and can be deleted from d.
Subsumes(c, d) == c \subseteq d
Flipped(c, d) == {lit \in c : - lit \in d /\ (c \ {lit}) \subseteq d}

\* One candidate of backwardSubsumptionCheck; cr is 0 for a top-level literal.
Checked(t, cr, lits, other) ==
  IF \/ ~ t.ok \/ other = cr \/ ~ Alive(t, other) \/ (cr # 0 /\ ~ Alive(t, cr)) THEN t
  ELSE IF Subsumes(lits, t.db[other].lits) THEN RemovedClause(t, other)
  ELSE IF Flipped(lits, t.db[other].lits) # {}
  THEN Strengthened(t, other, - (CHOOSE lit \in Flipped(lits, t.db[other].lits) : TRUE))
  ELSE t

RECURSIVE CheckedAll(_, _, _, _)
CheckedAll(t, cr, lits, others) ==
  IF others = << >> THEN t
  ELSE CHOOSE r \in {CheckedAll(next, cr, lits, Tail(others)) :
                       next \in {Checked(t, cr, lits, Head(others))}} : TRUE

\* A clause is checked against the list of its variable that occurs least.
Best(t, lits) ==
  CHOOSE v \in {Var(lit) : lit \in lits} :
    \A lit \in lits : Len(t.occurs[v]) <= Len(t.occurs[Var(lit)])
Backward(t, cr, lits) ==
  CheckedAll(Looked(t, Best(t, lits)), cr, lits, Occurs(t, Best(t, lits)))

\* A step of the loop of backwardSubsumptionCheck; asymmVar and eliminateVar
\* call it, too, and what follows depends on where it was called.
SubsumeClause ==
  /\ pc = "subsume" /\ s.queue # << >>
  /\ LET cr == Head(s.queue)
         popped == [s EXCEPT !.queue = Tail(@)]
     IN s' = IF Alive(s, cr) THEN Backward(popped, cr, s.db[cr].lits) ELSE popped
  /\ pc' = IF s'.ok THEN "subsume" ELSE "unsat"
  /\ UNCHANGED <<formula, frozen, use_asymm, bwd, elim, eliminated, elimclauses>>

SubsumeAssign ==
  /\ pc = "subsume" /\ s.queue = << >> /\ bwd < Len(s.trail)
  /\ s' = Backward(s, 0, {s.trail[bwd + 1]})
  /\ bwd' = bwd + 1
  /\ pc' = IF s'.ok THEN "subsume" ELSE "unsat"
  /\ UNCHANGED <<formula, frozen, use_asymm, elim, eliminated, elimclauses>>

SubsumeEnds ==
  /\ pc = "subsume" /\ s.queue = << >> /\ bwd = Len(s.trail)
  /\ pc' = IF elim = 0 THEN "pick" ELSE "eliminate"
  /\ UNCHANGED <<formula, frozen, use_asymm, s, bwd, elim, eliminated, elimclauses>>

\* asymm: if the other literals false lead to a conflict, one goes: that of
\* v, or one that is false anyway.
Asymm(t, v, cr) ==
  LET lits == t.db[cr].lits
      tried == {lit \in lits : Var(lit) # v /\ ~ IsFalse(t, lit)}
      true == ToSet(t.trail) \union {- lit : lit \in tried}
  IN IF \/ ~ Alive(t, cr) \/ (\E lit \in lits : IsTrue(t, lit))
        \/ ~ Conflicting(AliveClauses(t), Closed(AliveClauses(t), true))
     THEN t
     ELSE Strengthened(t, cr, CHOOSE lit \in lits : lit \notin tried)

\* asymmVar's walk; the list may lose a clause on the way, and then the next
\* is passed over.
RECURSIVE AsymmFrom(_, _, _)
AsymmFrom(t, v, n) ==
  IF ~ t.ok \/ n > Len(t.occurs[v]) THEN t
  ELSE CHOOSE r \in {AsymmFrom(next, v, n + 1) : next \in {Asymm(t, v, t.occurs[v][n])}} : TRUE

\* The cheapest of elim_heap: a variable that was eliminated or assigned in
\* the meantime is passed over.
Cost(t, v) == t.n_occ[v] * t.n_occ[- v]
PickElim ==
  /\ pc = "pick"
  /\ IF s.heap = {} THEN pc' = "loop" /\ UNCHANGED <<s, elim>>
     ELSE \E v \in s.heap :
            /\ \A u \in s.heap : Cost(s, v) <= Cost(s, u)
            /\ s' = [s EXCEPT !.heap = @ \ {v}]
            /\ IF v \in eliminated \/ ~ Unassigned(s, v) THEN UNCHANGED <<pc, elim>>
               ELSE elim' = v /\ pc' = IF use_asymm THEN "asymm" ELSE "eliminate"
  /\ UNCHANGED <<formula, frozen, use_asymm, bwd, eliminated, elimclauses>>

AsymmVar ==
  /\ pc = "asymm"
  /\ IF Occurs(s, elim) = << >> THEN pc' = "eliminate" /\ UNCHANGED s
     ELSE /\ s' = AsymmFrom(Looked(s, elim), elim, 1)
          /\ pc' = IF s'.ok THEN "subsume" ELSE "unsat"
  /\ UNCHANGED <<formula, frozen, use_asymm, bwd, elim, eliminated, elimclauses>>

\* merge: the resolvents that are no tautologies.
Resolvents(t, pos, neg, v) ==
  LET pairs == SetToSeq(pos \X neg)
      Merged(pair) == (t.db[pair[1]].lits \union t.db[pair[2]].lits) \ {v, - v}
      all == [n \in DOMAIN pairs |-> Merged(pairs[n])]
  IN SelectSeq(all, LAMBDA c : \A lit \in c : - lit \notin c)

\* A slip for StoredSide: the clauses of the greater side are stored.
GreaterSide(t, pos, neg, v) ==
  IF Cardinality(pos) > Cardinality(neg) THEN <<pos, v, v>> ELSE <<neg, - v, - v>>

\* The side of v whose clauses are stored (mkElimClause), the literal of v in
\* them, and the value v gets unless one of them wants the other.
StoredSide(t, pos, neg, v) ==
  IF Cardinality(pos) > Cardinality(neg) THEN <<neg, - v, v>> ELSE <<pos, v, - v>>

RECURSIVE RemovedAll(_, _)
RemovedAll(t, crs) ==
  IF crs = << >> THEN t
  ELSE CHOOSE r \in {RemovedAll(next, Tail(crs)) : next \in {RemovedClause(t, Head(crs))}} : TRUE

\* eliminateVar: the clauses of v give way to their resolvents, unless those
\* are more (grow is 0).
EliminateVar ==
  /\ pc = "eliminate"
  /\ LET v == elim
         cls == Occurs(s, v)
         pos == {cr \in ToSet(cls) : v \in s.db[cr].lits}
         neg == ToSet(cls) \ pos
         resolvents == Resolvents(s, pos, neg, v)
         side == StoredSide(s, pos, neg, v)
         stored == SetToSeq(side[1])
         Elim(cr) == [lit |-> side[2], others |-> s.db[cr].lits \ {side[2]}]
     IN IF ~ Unassigned(s, v) \/ v \in frozen \/ Len(resolvents) > Len(cls)
        THEN pc' = "pick" /\ s' = Looked(s, v) /\ UNCHANGED <<eliminated, elimclauses>>
        ELSE /\ eliminated' = eliminated \union {v}
             /\ elimclauses' = elimclauses \o [n \in DOMAIN stored |-> Elim(stored[n])]
                                 \o <<[lit |-> side[3], others |-> {}]>>
             /\ s' = [AddedAll(RemovedAll(Looked(s, v), cls), resolvents)
                       EXCEPT !.occurs[v] = << >>]
             /\ pc' = IF s'.ok THEN "subsume" ELSE "unsat"
  /\ elim' = 0
  /\ UNCHANGED <<formula, frozen, use_asymm, bwd>>

Finished == pc \in {"done", "unsat"} /\ UNCHANGED vars

Next ==
  \/ LoopHead \/ SubsumeClause \/ SubsumeAssign \/ SubsumeEnds
  \/ PickElim \/ AsymmVar \/ EliminateVar \/ Finished
-----------------------------------------------------------------------------
(* extendModel: the clauses stored last come first; a variable takes the     *)
(* value of its literal if the clause has no other literal that is not false.*)
RECURSIVE Extended(_, _)
Extended(model, stored) ==
  IF stored = << >> THEN model
  ELSE LET e == Last(stored)
           next == IF \A lit \in e.others : - lit \in model
                   THEN (model \ {- e.lit}) \union {e.lit} ELSE model
       IN CHOOSE r \in {Extended(m, Front(stored)) : m \in {next}} : TRUE
-----------------------------------------------------------------------------
(* Properties.                                                              *)

Models(clauses, vs) ==
  {m \in {V \union {- v : v \in vs \ V} : V \in SUBSET vs} :
     \A c \in clauses : c \intersect m # {}}
Left == AliveClauses(s) \union {{lit} : lit \in ToSet(s.trail)}

\* At every step a model of the clauses left, extended, is a model of what
\* was given; there is one if there was one; and no solver that is not ok
\* was given one (eliminateVar and extendModel).
EliminationSound ==
  /\ pc # "unsat" =>
       \A m \in Models(Left, Vars \ eliminated) :
         \A c \in ToSet(formula) : c \intersect Extended(m, elimclauses) # {}
  /\ Models(ToSet(formula), Vars) # {} =>
       pc # "unsat" /\ Models(Left, Vars \ eliminated) # {}

\* The occurrence lists and counts are those of the clauses left, whatever
\* was removed or shortened while a list was walked (SimpSolver.cc:188-225).
OccursExact ==
  pc # "unsat" =>
  /\ \A v \in Vars \ eliminated :
       LET crs == Occurs(s, v)
       IN /\ ToSet(crs) = {cr \in DOMAIN s.db : Alive(s, cr) /\ {v, - v} \intersect s.db[cr].lits # {}}
          /\ Len(crs) = Cardinality(ToSet(crs))
  /\ \A lit \in DOMAIN s.n_occ :
       s.n_occ[lit] = Cardinality({cr \in DOMAIN s.db : Alive(s, cr) /\ lit \in s.db[cr].lits})
=============================================================================
