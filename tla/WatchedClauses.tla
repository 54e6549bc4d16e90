---------------------------- MODULE WatchedClauses ----------------------------
(***************************************************************************)
(* Solver::propagate of cb_minisat, watcher by watcher, with the search    *)
(* around it (cb_minisat/minisat/core/Solver.cc).  CbMinisat takes for     *)
(* granted that propagate finds every clause that is unit; here the watch  *)
(* lists that it relies on are kept as the code keeps them.                *)
(*                                                                         *)
(* A clause is the sequence of its literals: the first two are watched,    *)
(* clause c by an entry [cref, blocker] in the lists of -c[1] and -c[2].   *)
(* While a list is visited it is compacted in place: i reads, j writes,    *)
(* and what lies between is cut off its end.  The theory may hand over a   *)
(* clause in the middle of this, and attachClause appends its watchers to  *)
(* two lists, one of which may be the list being visited; appending        *)
(* reallocates the list when its capacity is used up.                      *)
(***************************************************************************)
EXTENDS MetricTheory

CONSTANT Setups  \* what one run of the solver may be given: IsQuery, and
                 \* formula (what addClause attaches: no literal twice, no
                 \* unit), numVars, restartAfter, and maxClauses: a run is
                 \* followed to its first restart with that many clauses

LiteralsOf(s) == 1 .. s.numVars \union {- v : v \in 1 .. s.numVars}

ASSUME SetupsAssumption ==
  \A s \in Setups :
    /\ IsQuery(s)
    /\ s.numVars \in Nat /\ s.vids \subseteq 1 .. s.numVars
    /\ s.restartAfter \in Nat \ {0} /\ s.maxClauses \in Nat
    /\ s.formula \in Seq(Seq(LiteralsOf(s)))
    /\ \A n \in DOMAIN s.formula :
         Len(s.formula[n]) > 1 /\ IsInjective(s.formula[n])

VARIABLES
  setup,      \* what the run was given, a member of Setups
  pc,         \* what the code is doing
  db,         \* the clauses: records [lits, meant, kind]
  watches,    \* the watch list of each literal
  trail, qhead, theory,
  p, i, j, end,  \* locals of propagate: the literal and its list's pointers
  confl,      \* the conflict to analyze
  conflicts,  \* conflicts since the last restart
  clobbered   \* a list was appended to between i and j: see Handed

vars == <<setup, pc, db, watches, trail, qhead, theory, p, i, j, end, confl,
          conflicts, clobbered>>
locals == <<p, i, j, end>>
LeftLoop == p' = 0 /\ i' = 0 /\ j' = 0 /\ end' = 0

Literals == LiteralsOf(setup)
Level == DecisionLevel(trail)

\* lits is what the memory holds and meant what the clause was made for.
Clause(lits, kind) == [lits |-> lits, meant |-> ToSet(lits), kind |-> kind]
Watcher(cref, blocker) == [cref |-> cref, blocker |-> blocker]

\* attachClause.
Attached(lists, cref, lits) ==
  [lists EXCEPT ![- lits[1]] = Append(@, Watcher(cref, lits[2])),
                ![- lits[2]] = Append(@, Watcher(cref, lits[1]))]

\* The formula as parsing leaves it: every clause attached.
Parsed(s) ==
  LET lists[n \in 0 .. Len(s.formula)] ==
        IF n = 0 THEN [lit \in LiteralsOf(s) |-> << >>]
        ELSE Attached(lists[n - 1], n, s.formula[n])
  IN lists[Len(s.formula)]

Init ==
  /\ setup \in Setups
  /\ db = [n \in DOMAIN setup.formula |-> Clause(setup.formula[n], "formula")]
  /\ watches = Parsed(setup)
  /\ theory = Reset(FALSE)
  /\ pc = "propagate" /\ trail = << >> /\ qhead = 0
  /\ p = 0 /\ i = 0 /\ j = 0 /\ end = 0
  /\ confl = {} /\ conflicts = 0 /\ clobbered = FALSE
-----------------------------------------------------------------------------
(* propagate.                                                               *)

NextLiteral ==
  /\ pc = "propagate" /\ qhead < Len(trail)
  /\ qhead' = qhead + 1
  /\ p' = trail[qhead + 1].lit
  /\ i' = 1 /\ j' = 1 /\ end' = Len(watches[p'])
  /\ pc' = "visit"
  /\ UNCHANGED <<setup, db, watches, trail, theory, confl, conflicts, clobbered>>

Reading == watches[p][i]
Visiting == pc = "visit" /\ i <= end

\* A watcher goes back into the list, at j.
Keep(watcher) ==
  /\ watches' = [watches EXCEPT ![p][j] = watcher]
  /\ i' = i + 1 /\ j' = j + 1
  /\ UNCHANGED <<p, end>>

BlockerTrue ==
  /\ Visiting /\ IsTrue(trail, Reading.blocker)
  /\ Keep(Reading)
  /\ UNCHANGED <<setup, pc, db, trail, qhead, theory, confl, conflicts, clobbered>>

\* "Make sure the false literal is data[1]", here the second place.
Swapped(lits) ==
  IF lits[1] = - p THEN [lits EXCEPT ![1] = lits[2], ![2] = lits[1]] ELSE lits

Visited == Swapped(db[Reading.cref].lits)
First == Visited[1]
Inspecting == Visiting /\ ~ IsTrue(trail, Reading.blocker)
InPlace == Visited[2] = - p

\* assert(c[1] == false_lit): a debug build ends here.  What a release build
\* makes of the clause is not followed.
AssertFails ==
  /\ Inspecting /\ ~ InPlace
  /\ pc' = "aborted"
  /\ UNCHANGED <<setup, db, watches, trail, qhead, theory, locals, confl,
                 conflicts, clobbered>>

FirstTrue ==
  /\ Inspecting /\ InPlace
  /\ First # Reading.blocker /\ IsTrue(trail, First)
  /\ db' = [db EXCEPT ![Reading.cref].lits = Visited]
  /\ Keep(Watcher(Reading.cref, First))
  /\ UNCHANGED <<setup, pc, trail, qhead, theory, confl, conflicts, clobbered>>

\* The places from the third on that hold a literal that is not false.
Candidates == {k \in 3 .. Len(Visited) : ~ IsFalse(trail, Visited[k])}
ToInspect ==
  /\ Inspecting /\ InPlace
  /\ First = Reading.blocker \/ ~ IsTrue(trail, First)

\* A slip for MoveWatch: the watcher is not appended to the other list.
MoveWatchLosing ==
  /\ ToInspect /\ Candidates # {}
  /\ LET k == Min(Candidates)
     IN db' = [db EXCEPT ![Reading.cref].lits =
                 [Visited EXCEPT ![2] = Visited[k], ![k] = - p]]
  /\ i' = i + 1
  /\ UNCHANGED <<setup, pc, watches, trail, qhead, theory, p, j, end, confl,
                 conflicts, clobbered>>

\* Another literal is watched instead: the watcher leaves the list.
MoveWatch ==
  /\ ToInspect /\ Candidates # {}
  /\ LET k == Min(Candidates)
     IN /\ db' = [db EXCEPT ![Reading.cref].lits =
                    [Visited EXCEPT ![2] = Visited[k], ![k] = - p]]
        /\ watches' = [watches EXCEPT
             ![- Visited[k]] = Append(@, Watcher(Reading.cref, First))]
  /\ i' = i + 1
  /\ UNCHANGED <<setup, pc, trail, qhead, theory, p, j, end, confl, conflicts,
                 clobbered>>

\* A list of which the part from i on is copied down to j; the pointers meet
\* the end that was read when the visit began, not what was appended since.
CopiedDown(list, from, to, last) ==
  [n \in DOMAIN list |->
     IF n \in to .. to + last - from THEN list[n + from - to] ELSE list[n]]

\* ws.shrink(i - j) after the rest was copied.
Shrunk(list, from, to) == SubSeq(list, 1, Len(list) - (from - to))

\* The clause of the theory is allocated and attached; the rest of the list
\* being visited is copied down and its end cut off.  When appending moved
\* the list, i and j still point into its old memory and nothing is copied.
Handed(lists, lits) ==
  LET cref == Len(db) + 1
      attached == Attached(lists, cref, lits)
      from == i + 1
      to == j + 1
      inPlace == CopiedDown(attached[p], from, to, end)
      appended == Len(attached[p]) # Len(lists[p])
  IN /\ \E list \in {inPlace} \union {l \in {attached[p]} : appended} :
          watches' = [attached EXCEPT ![p] = Shrunk(list, from, to)]
     /\ clobbered' = (clobbered \/ (appended /\ from # to))

\* The lemma, as the theory lists it: its vertices in the order pushed.
LemmaLits(pushed) == [n \in DOMAIN pushed.vids |-> - pushed.vids[n]]

\* No other literal to watch, and the first one is unassigned: enqueue it,
\* with both callbacks.
UnitFound ==
  /\ ToInspect /\ Candidates = {} /\ ~ IsFalse(trail, First)
  /\ trail' = Append(trail, Entry(First, Level, ToSet(Visited)))
  /\ \E pushed \in Push(setup, theory, First) :
       LET visited == [db EXCEPT ![Reading.cref].lits = Visited]
           kept == [watches EXCEPT ![p][j] = Watcher(Reading.cref, First)]
       IN /\ theory' = Checked(pushed)
          /\ \/ /\ ~ HasConflict(pushed)
                /\ db' = visited /\ watches' = kept
                /\ i' = i + 1 /\ j' = j + 1
                /\ UNCHANGED <<pc, qhead, p, end, confl, clobbered>>
             \/ /\ HasConflict(pushed)
                /\ db' = Append(visited, Clause(LemmaLits(pushed), "lemma"))
                /\ Handed(kept, LemmaLits(pushed))
                /\ confl' = ConflictClause(pushed)
                /\ pc' = "conflict" /\ qhead' = Len(trail') /\ LeftLoop
  /\ UNCHANGED <<setup, conflicts>>

\* A slip for ClauseFalse: what was not visited yet is not copied.
ClauseFalseCutting ==
  /\ ToInspect /\ Candidates = {} /\ IsFalse(trail, First)
  /\ db' = [db EXCEPT ![Reading.cref].lits = Visited]
  /\ watches' = [watches EXCEPT ![p] = SubSeq(@, 1, j - 1) \o <<Watcher(Reading.cref, First)>>]
  /\ confl' = ToSet(Visited) /\ pc' = "conflict" /\ qhead' = Len(trail) /\ LeftLoop
  /\ UNCHANGED <<setup, trail, theory, conflicts, clobbered>>

\* Every literal is false: the rest of the list is kept as it is.
ClauseFalse ==
  /\ ToInspect /\ Candidates = {} /\ IsFalse(trail, First)
  /\ db' = [db EXCEPT ![Reading.cref].lits = Visited]
  /\ LET kept == [watches[p] EXCEPT ![j] = Watcher(Reading.cref, First)]
         copied == CopiedDown(kept, i + 1, j + 1, end)
     IN watches' = [watches EXCEPT ![p] = Shrunk(copied, i, j)]
  /\ confl' = ToSet(Visited) /\ pc' = "conflict" /\ qhead' = Len(trail) /\ LeftLoop
  /\ UNCHANGED <<setup, trail, theory, conflicts, clobbered>>

ListEnds ==
  /\ pc = "visit" /\ i > end
  /\ watches' = [watches EXCEPT ![p] = Shrunk(@, i, j)]
  /\ pc' = "propagate" /\ LeftLoop
  /\ UNCHANGED <<setup, db, trail, qhead, theory, confl, conflicts, clobbered>>

QueueEmpty ==
  /\ pc = "propagate" /\ qhead = Len(trail)
  /\ theory' = Checked(theory)
  /\ IF HasConflict(theory)
     THEN /\ db' = Append(db, Clause(LemmaLits(theory), "lemma"))
          /\ watches' = Attached(watches, Len(db) + 1, LemmaLits(theory))
          /\ confl' = ConflictClause(theory) /\ pc' = "conflict"
     ELSE /\ pc' = "decide"
          /\ UNCHANGED <<db, watches, confl>>
  /\ UNCHANGED <<setup, trail, qhead, locals, conflicts, clobbered>>
-----------------------------------------------------------------------------
(* search.                                                                  *)

\* The learnt clause as analyze orders it: the asserting literal, one of the
\* highest level left, the others.
LearntLits(learnt) ==
  LET lit == Asserting(trail, learnt)
      second == {l \in learnt \ {lit} : LevelOf(trail, l) = BacktrackLevel(trail, learnt)}
  IN IF second = {} THEN <<lit>>
     ELSE LET other == CHOOSE l \in second : TRUE
          IN <<lit, other>> \o SetToSeq(learnt \ {lit, other})

Learn ==
  /\ pc = "conflict" /\ Level > 0
  /\ LET learnt == Learnt(trail, confl)
         level == BacktrackLevel(trail, learnt)
         lits == LearntLits(learnt)
         kept == KeptUntil(trail, level)
     IN /\ trail' = Append(kept, Entry(lits[1], level, IF Len(lits) = 1 THEN {} ELSE learnt))
        /\ qhead' = Len(kept)
        /\ theory' \in Push(setup, Shrink(setup, theory, LitsAbove(trail, level)), lits[1])
        /\ IF Len(lits) = 1 THEN UNCHANGED <<db, watches>>
           ELSE /\ db' = Append(db, Clause(lits, "learnt"))
                /\ watches' = Attached(watches, Len(db) + 1, lits)
  /\ pc' = "propagate" /\ confl' = {} /\ conflicts' = conflicts + 1
  /\ UNCHANGED <<setup, locals, clobbered>>

Restart ==
  /\ pc = "decide" /\ conflicts >= setup.restartAfter
  /\ Len(db) < setup.maxClauses
  /\ trail' = KeptUntil(trail, 0)
  /\ theory' = Shrink(setup, theory, LitsAbove(trail, 0))
  /\ qhead' = Len(trail') /\ conflicts' = 0 /\ pc' = "propagate"
  /\ UNCHANGED <<setup, db, watches, locals, confl, clobbered>>

Decide ==
  /\ pc = "decide" /\ conflicts < setup.restartAfter
  /\ \E lit \in Literals :
       /\ ~ Assigned(trail, lit)
       /\ trail' = Append(trail, Entry(lit, Level + 1, {}))
       /\ theory' \in Push(setup, theory, lit)
  /\ pc' = "propagate"
  /\ UNCHANGED <<setup, db, watches, qhead, locals, confl, conflicts, clobbered>>

\* l_True, l_False, an abort, or the bound.
Stopped ==
  /\ \/ pc = "decide" /\ conflicts < setup.restartAfter
        /\ \A lit \in Literals : Assigned(trail, lit)
     \/ pc = "conflict" /\ Level = 0
     \/ pc = "decide" /\ conflicts >= setup.restartAfter
        /\ Len(db) >= setup.maxClauses
     \/ pc = "aborted"
  /\ UNCHANGED vars

Next ==
  \/ NextLiteral \/ BlockerTrue \/ AssertFails \/ FirstTrue \/ MoveWatch \/ UnitFound
  \/ ClauseFalse \/ ListEnds \/ QueueEmpty
  \/ Learn \/ Restart \/ Decide \/ Stopped

Spec == Init /\ [][Next]_vars
-----------------------------------------------------------------------------
(* Properties.                                                              *)

\* The places where a list has a watcher of a clause.
WatchersOf(cref, lit) == {n \in DOMAIN watches[lit] : watches[lit][n].cref = cref}

\* assert(c[1] == false_lit) (Solver.cc:636): the clause of a watcher of p has
\* -p among its first two literals.
FalseLiteralWatched ==
  Inspecting => InPlace

\* As long as no clause was attached to a list in the middle of its visit.
WatcherInPlace == clobbered \/ FalseLiteralWatched

\* Between visits every clause keeps the literals it was made of and is
\* watched by its first two, once each, and by no other: attachClause, the
\* moves of propagate and the compaction of the lists add up
\* (Solver.cc:223-230, 624-675).
TwoWatches ==
  ~ clobbered /\ pc # "visit" =>
    \A c \in DOMAIN db :
      /\ ToSet(db[c].lits) = db[c].meant
      /\ \A lit \in Literals :
           Cardinality(WatchersOf(c, lit)) =
             IF - lit \in {db[c].lits[1], db[c].lits[2]} THEN 1 ELSE 0
      /\ \A lit \in Literals : \A n \in WatchersOf(c, lit) :
           watches[lit][n].blocker \in db[c].meant

\* A visit meets no watcher of a clause that does not watch the literal, as
\* long as no clause was attached in the middle of it, and between visits
\* every clause has its literals and its two watchers.
ListsTrue == WatcherInPlace /\ TwoWatches

\* propagate misses no unit clause and no conflict, after any backjump and
\* restart (Solver.cc:610-690): what CbMinisat takes for granted of clauses
\* that are not the theory's.
UnitsFound ==
  ~ clobbered /\ pc = "decide" =>
    \A c \in DOMAIN db :
      db[c].kind # "lemma" =>
        \/ Satisfied(trail, db[c].meant)
        \/ Several({lit \in db[c].meant : ~ Assigned(trail, lit)})
=============================================================================
