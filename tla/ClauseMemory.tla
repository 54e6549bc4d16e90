----------------------------- MODULE ClauseMemory -----------------------------
(***************************************************************************)
(* Where cb_minisat's Solver keeps its clauses, and how it gets rid of      *)
(* them (cb_minisat/minisat/core/Solver.cc, SolverTypes.h, mtl/Alloc.h).    *)
(*                                                                          *)
(* A clause lies in one region of memory and is named by its place there    *)
(* (CRef).  Places are held by clauses, learnts, two watch lists and, when  *)
(* the clause has implied a literal, by a reason.  removeClause marks the   *)
(* clause and leaves the lists dirty; when a fifth of the region is wasted, *)
(* what is still named moves to a new region and every name is rewritten.   *)
(*                                                                          *)
(* Here the place of a clause is its number in the region, and the watch    *)
(* lists are visited in one step (WatchedClauses visits them one by one).   *)
(***************************************************************************)
EXTENDS SolverTrail

CONSTANTS
  Formulas,    \* sequences of clauses, each a sequence of two literals or more
  MaxConflicts \* bound: no decision is made after so many conflicts

VARIABLES
  formula,   \* what addClause was given
  mem,       \* the region: [lits, learnt, lemma, removed, meant, words]
  wasted,    \* RegionAllocator::wasted_
  clauses, learnts, \* sequences of places
  watches,   \* literal -> sequence of watchers [cref, blocker]
  dirty,     \* the literals whose lists hold watchers of removed clauses
  trail,     \* entries whose reason is a place, 0 for CRef_Undef
  qhead,
  confl,     \* the place of the conflict, 0 if there is none
  simplified,\* simpDB_assigns
  conflicts

vars == <<formula, mem, wasted, clauses, learnts, watches, dirty, trail, qhead,
          confl, simplified, conflicts>>

Literals == DOMAIN watches
Variables == {lit \in Literals : lit > 0}
Level == DecisionLevel(trail)
Quiet == confl = 0 /\ qhead = Len(trail)

\* clauseWord32Size: a header, the literals, and the activity if learnt.
Words(clause) == 1 + Len(clause.lits) + (IF clause.learnt THEN 1 ELSE 0)
Clause(lits, kind) ==
  [lits |-> lits, learnt |-> kind = "learnt", lemma |-> kind = "lemma",
   removed |-> FALSE, meant |-> ToSet(lits)]

RegionSize(region) == FoldLeft(LAMBDA total, c : total + c.words, 0, region)
Allocated(region, clause) == Append(region, clause @@ [words |-> Words(clause)])

\* attachClause.
Watcher(cref, blocker) == [cref |-> cref, blocker |-> blocker]
Attached(lists, cref, lits) ==
  [lists EXCEPT ![- lits[1]] = Append(@, Watcher(cref, lits[2])),
                ![- lits[2]] = Append(@, Watcher(cref, lits[1]))]

Init ==
  /\ formula \in Formulas
  /\ LET used == {Var(lit) : lit \in UNION {ToSet(formula[n]) : n \in DOMAIN formula}}
         none == [lit \in used \union {- v : v \in used} |-> << >>]
         Alloc(region, lits) == Allocated(region, Clause(lits, "formula"))
         Attach(lists, n) == Attached(lists, n, formula[n])
     IN /\ mem = FoldLeft(Alloc, << >>, formula)
        /\ watches = FoldLeft(Attach, none, [n \in DOMAIN formula |-> n])
  /\ clauses = [n \in DOMAIN formula |-> n]
  /\ wasted = 0 /\ learnts = << >> /\ dirty = {}
  /\ trail = << >> /\ qhead = 0 /\ confl = 0 /\ simplified = -1 /\ conflicts = 0
-----------------------------------------------------------------------------
(* Solver::propagate.                                                       *)

\* lookup(p): a dirty list is cleaned before it is visited.
Clean(region, list) == SelectSeq(list, LAMBDA w : ~ region[w.cref].removed)

\* One watcher of the list of p: kept, moved to another list, a unit, or a
\* conflict.  s collects [mem, watches, list, trail, confl].
Visit(p, s, watcher) ==
  LET cref == watcher.cref
      lits == IF s.mem[cref].lits[1] = - p
              THEN [s.mem[cref].lits EXCEPT ![1] = s.mem[cref].lits[2], ![2] = - p]
              ELSE s.mem[cref].lits
      first == lits[1]
      others == {k \in 3 .. Len(lits) : ~ IsFalse(s.trail, lits[k])}
      k == Min(others)
      swapped == [s EXCEPT !.mem[cref].lits = lits]
      kept == [swapped EXCEPT !.list = Append(@, Watcher(cref, first))]
  IN IF s.confl # 0 \/ IsTrue(s.trail, watcher.blocker)
     THEN [s EXCEPT !.list = Append(@, watcher)]
     ELSE IF first # watcher.blocker /\ IsTrue(s.trail, first) THEN kept
     ELSE IF others # {}
     THEN [swapped EXCEPT !.mem[cref].lits = [lits EXCEPT ![2] = lits[k], ![k] = - p],
                          !.watches[- lits[k]] = Append(@, Watcher(cref, first))]
     ELSE IF IsFalse(s.trail, first) THEN [kept EXCEPT !.confl = cref]
     ELSE [kept EXCEPT !.trail = Append(@, Entry(first, DecisionLevel(@), cref))]

\* Each watcher in turn, with what the ones before it left.
RECURSIVE VisitAll(_, _, _)
VisitAll(p, s, list) ==
  IF list = << >> THEN s
  ELSE CHOOSE r \in {VisitAll(p, t, Tail(list)) : t \in {Visit(p, s, Head(list))}} : TRUE

Propagate ==
  /\ confl = 0 /\ qhead < Len(trail)
  /\ LET p == trail[qhead + 1].lit
         start == [mem |-> mem, watches |-> watches, list |-> << >>, trail |-> trail, confl |-> 0]
         list == IF p \in dirty THEN Clean(mem, watches[p]) ELSE watches[p]
     IN \E visited \in {VisitAll(p, start, list)} :
        /\ mem' = visited.mem /\ trail' = visited.trail /\ confl' = visited.confl
        /\ watches' = [visited.watches EXCEPT ![p] = visited.list]
        /\ dirty' = dirty \ {p}
        /\ qhead' = IF confl' = 0 THEN qhead + 1 ELSE Len(trail')
  /\ UNCHANGED <<formula, wasted, clauses, learnts, simplified, conflicts>>

\* The theory hands over a clause: not all the vertices that are true, in the
\* order they were pushed (every variable stands for one).  It is kept among
\* the clauses, not the learnts.
TheoryConflict ==
  /\ Quiet /\ Level > 0 /\ conflicts < MaxConflicts
  /\ LET vertices == SelectSeq(Lits(trail), LAMBDA lit : lit > 0)
         lits == [n \in DOMAIN vertices |-> - vertices[n]]
         cref == Len(mem) + 1
     IN /\ Len(lits) > 1 /\ LevelOf(trail, Last(vertices)) = Level
        /\ mem' = Allocated(mem, Clause(lits, "lemma"))
        /\ clauses' = Append(clauses, cref)
        /\ watches' = Attached(watches, cref, lits)
        /\ confl' = cref
  /\ UNCHANGED <<formula, wasted, learnts, dirty, trail, qhead, simplified, conflicts>>
-----------------------------------------------------------------------------
(* Solver::search.                                                          *)

\* The trail with each reason as the clause that lies in its place.
Explained == [n \in DOMAIN trail |->
  [trail[n] EXCEPT !.reason = IF @ = 0 THEN {} ELSE ToSet(mem[@].lits)]]

\* analyze orders the learnt clause: the asserting literal, one of the highest
\* level left, the others.
LearntLits(entries, learnt) ==
  LET lit == Asserting(entries, learnt)
      second == {l \in learnt \ {lit} : LevelOf(entries, l) = BacktrackLevel(entries, learnt)}
  IN IF second = {} THEN <<lit>>
     ELSE LET other == CHOOSE l \in second : TRUE
          IN <<lit, other>> \o SetToSeq(learnt \ {lit, other})

\* analyze and what follows it; a learnt unit is kept by the trail alone.
Learn ==
  /\ confl # 0 /\ Level > 0
  /\ LET learnt == Learnt(Explained, ToSet(mem[confl].lits))
         lits == LearntLits(Explained, learnt)
         level == BacktrackLevel(Explained, learnt)
         kept == KeptUntil(trail, level)
         cref == IF Len(lits) = 1 THEN 0 ELSE Len(mem) + 1
     IN /\ trail' = Append(kept, Entry(lits[1], level, cref))
        /\ qhead' = Len(kept)
        /\ IF cref = 0 THEN UNCHANGED <<mem, learnts, watches>>
           ELSE /\ mem' = Allocated(mem, Clause(lits, "learnt"))
                /\ learnts' = Append(learnts, cref)
                /\ watches' = Attached(watches, cref, lits)
  /\ confl' = 0 /\ conflicts' = conflicts + 1
  /\ UNCHANGED <<formula, wasted, clauses, dirty, simplified>>

\* Bound: variables are decided in the order of their numbers.
Decide ==
  /\ Quiet /\ conflicts < MaxConflicts
  /\ \E lit \in Literals :
       /\ ~ Assigned(trail, lit)
       /\ \A v \in Variables : v < Var(lit) => Assigned(trail, v)
       /\ trail' = Append(trail, Entry(lit, Level + 1, 0))
  /\ UNCHANGED <<formula, mem, wasted, clauses, learnts, watches, dirty, qhead,
                 confl, simplified, conflicts>>

\* cancelUntil(0), by a restart or at the end of the search.
Restart ==
  /\ Quiet /\ Level > 0
  /\ trail' = KeptUntil(trail, 0) /\ qhead' = Len(trail')
  /\ UNCHANGED <<formula, mem, wasted, clauses, learnts, watches, dirty, confl,
                 simplified, conflicts>>
-----------------------------------------------------------------------------
(* Clauses removed, and their memory collected.                             *)

\* locked: the clause is the reason of its first literal.
Locked(entries, cref, lits) ==
  \E n \in DOMAIN entries : entries[n].lit = lits[1] /\ entries[n].reason = cref

\* removeClause, for each of these; s is [mem, trail, dirty, wasted].
Removed(s, gone) ==
  LET Freed(e) == e.reason \in gone /\ e.lit = s.mem[e.reason].lits[1]
  IN [mem |-> [c \in DOMAIN s.mem |-> [s.mem[c] EXCEPT !.removed = @ \/ c \in gone]],
      trail |-> [n \in DOMAIN s.trail |->
                   IF Freed(s.trail[n]) THEN [s.trail[n] EXCEPT !.reason = 0] ELSE s.trail[n]],
      dirty |-> s.dirty \union UNION {{- s.mem[c].lits[1], - s.mem[c].lits[2]} : c \in gone},
      wasted |-> s.wasted + FoldLeft(LAMBDA n, c : n + c, 0, [c \in DOMAIN s.mem |-> IF c \in gone THEN Words(s.mem[c]) ELSE 0])]

\* A slip for ReasonMoves: locked() alone, which no longer holds of a clause
\* that has moved, its first literal overwritten by its new place.
LockedStill(s, listed, e) ==
  e.reason \notin listed /\ Locked(s.trail, e.reason, s.mem[e.reason].lits)

\* relocAll on a reason: a clause met in the watch lists has moved already.
ReasonMoves(s, listed, e) ==
  e.reason \in listed \/ Locked(s.trail, e.reason, s.mem[e.reason].lits)

Distinct(seq) ==
  LET first == SelectSeq([n \in DOMAIN seq |-> n], LAMBDA n :
                 \A m \in 1 .. n - 1 : seq[m] # seq[n])
  IN [k \in DOMAIN first |-> seq[first[k]]]

LitOrder == [n \in 1 .. 2 * Max(Variables) |-> IF n % 2 = 1 THEN (n + 1) \div 2 ELSE - (n \div 2)]

\* garbageCollect: the watchers, the reasons, the learnt clauses, the others.
\* A clause moves when its first name is met; reloc leaves the new place
\* behind for its other names.  A name passed over dangles: it is negative.
Collected(s, cs, ls) ==
  LET cleaned == [lit \in Literals |->
                    IF lit \in s.dirty THEN Clean(s.mem, watches[lit]) ELSE watches[lit]]
      Crefs(list) == [n \in DOMAIN list |-> list[n].cref]
      Stay(list) == SelectSeq(list, LAMBDA c : ~ s.mem[c].removed)
      listed == FlattenSeq([n \in DOMAIN LitOrder |-> Crefs(cleaned[LitOrder[n]])])
      Moves(e) == e.reason # 0 /\ ReasonMoves(s, ToSet(listed), e)
      reasons == SelectSeq(s.trail, Moves)
      moved == Distinct(listed \o [n \in DOMAIN reasons |-> reasons[n].reason]
                          \o Stay(ls) \o Stay(cs))
      New(cref) == CHOOSE n \in DOMAIN moved : moved[n] = cref
      Renamed(list) == [n \in DOMAIN list |-> New(list[n])]
  IN /\ mem' = [n \in DOMAIN moved |->
                  [s.mem[moved[n]] EXCEPT !.words = Words(s.mem[moved[n]])]]
     /\ watches' = [lit \in Literals |->
          [n \in DOMAIN cleaned[lit] |-> [cleaned[lit][n] EXCEPT !.cref = New(@)]]]
     /\ trail' = [n \in DOMAIN s.trail |->
                    [s.trail[n] EXCEPT !.reason = IF Moves(s.trail[n]) THEN New(@) ELSE - @]]
     /\ learnts' = Renamed(Stay(ls)) /\ clauses' = Renamed(Stay(cs))
     /\ dirty' = {} /\ wasted' = 0

\* checkGarbage: garbage_frac is a fifth.
CheckGarbage(s, cs, ls) ==
  IF 5 * s.wasted > RegionSize(s.mem)
  THEN Collected(s, cs, ls)
  ELSE /\ mem' = s.mem /\ trail' = s.trail /\ dirty' = s.dirty /\ wasted' = s.wasted
       /\ clauses' = cs /\ learnts' = ls
       /\ UNCHANGED watches

Solver == [mem |-> mem, trail |-> trail, dirty |-> dirty, wasted |-> wasted]

\* reduceDB: sorted by activity, binary clauses last; of the first half, and
\* of those below the limit, the ones that are not binary or locked go.
ReduceDB ==
  /\ Quiet /\ learnts # << >>
  /\ \E order \in SetToSeqs(ToSet(learnts)), limit \in 0 .. Len(learnts) :
       /\ \A m, n \in DOMAIN order :
            m < n /\ Len(mem[order[m]].lits) = 2 => Len(mem[order[n]].lits) = 2
       /\ LET Goes(n) == /\ n <= Max({Len(order) \div 2, limit})
                         /\ Len(mem[order[n]].lits) > 2
                         /\ ~ Locked(trail, order[n], mem[order[n]].lits)
              gone == {order[n] : n \in {m \in DOMAIN order : Goes(m)}}
          IN \E s \in {Removed(Solver, gone)} :
               CheckGarbage(s, clauses, SelectSeq(order, LAMBDA c : c \notin gone))
  /\ UNCHANGED <<formula, qhead, confl, simplified, conflicts>>

\* removeSatisfied: a satisfied clause goes, a literal false at level 0 is
\* overwritten by the last one, from the third place on.
RECURSIVE Trimmed(_, _)
Trimmed(lits, k) ==
  IF k > Len(lits) THEN lits
  ELSE IF IsFalse(trail, lits[k])
  THEN Trimmed(SubSeq([lits EXCEPT ![k] = lits[Len(lits)]], 1, Len(lits) - 1), k)
  ELSE Trimmed(lits, k + 1)

RemoveSatisfied(s, cs) ==
  LET gone == {c \in cs : Satisfied(trail, ToSet(s.mem[c].lits))}
  IN Removed([s EXCEPT !.mem = [c \in DOMAIN @ |->
                IF c \in cs \ gone THEN [@[c] EXCEPT !.lits = Trimmed(@, 3)] ELSE @[c]]], gone)

\* simplify, when level 0 has grown since the last time.
Simplify ==
  /\ Quiet /\ Level = 0 /\ Len(trail) # simplified
  /\ \E s \in {RemoveSatisfied(Solver, ToSet(learnts) \union ToSet(clauses))} :
       LET Stays(c) == ~ s.mem[c].removed
       IN CheckGarbage(s, SelectSeq(clauses, Stays), SelectSeq(learnts, Stays))
  /\ simplified' = Len(trail)
  /\ UNCHANGED <<formula, qhead, confl, conflicts>>

\* A conflict at level 0, the bound, or a model.
Stopped ==
  /\ \/ confl # 0 /\ Level = 0
     \/ Quiet /\ (conflicts = MaxConflicts \/ \A lit \in Literals : Assigned(trail, lit))
  /\ UNCHANGED vars

Next ==
  \/ Propagate \/ TheoryConflict \/ Learn \/ Decide \/ Restart
  \/ ReduceDB \/ Simplify \/ Stopped
-----------------------------------------------------------------------------
(* Properties.                                                              *)

Alive(cref) == cref \in DOMAIN mem /\ ~ mem[cref].removed
Kept == ToSet(clauses) \union ToSet(learnts)
FalseAtZero == {- trail[n].lit : n \in {m \in DOMAIN trail : trail[m].level = 0}}

\* Whatever is removed and wherever the clauses move to, every name is that
\* of a clause that is there: those of the formula and the learnt ones by
\* their two watchers each, the reasons by a clause of which they are the
\* first literal; and no clause of the formula is lost, or loses a literal,
\* unless level 0 makes up for it (Solver.cc:223-258, 690-745, 1135-1195).
ReferencesLive ==
  /\ \A cref \in Kept : Alive(cref)
  /\ Cardinality(Kept) = Len(clauses) + Len(learnts)
  /\ \A lit \in Literals : \A n \in DOMAIN watches[lit] :
       LET cref == watches[lit][n].cref
       IN IF cref \in DOMAIN mem /\ mem[cref].removed THEN lit \in dirty
          ELSE /\ cref \in Kept
               /\ lit \in {- mem[cref].lits[1], - mem[cref].lits[2]}
               /\ \A m \in DOMAIN watches[lit] : watches[lit][m].cref = cref => m = n
  /\ \A cref \in Kept : \A k \in {1, 2} :
       \E n \in DOMAIN watches[- mem[cref].lits[k]] :
         watches[- mem[cref].lits[k]][n].cref = cref
  /\ \A n \in DOMAIN trail : trail[n].reason # 0 =>
       /\ Alive(trail[n].reason)
       /\ mem[trail[n].reason].lits[1] = trail[n].lit
  /\ \A cref \in Kept : mem[cref].meant \ ToSet(mem[cref].lits) \subseteq FalseAtZero
  /\ \A n \in DOMAIN formula :
       \/ \E cref \in ToSet(clauses) : mem[cref].meant = ToSet(formula[n])
       \/ \E lit \in ToSet(formula[n]) : - lit \in FalseAtZero
=============================================================================
