------------------------ MODULE WatchedClausesProofs ------------------------
(***************************************************************************)
(* The watch lists of cb_minisat, proved: for every formula, every family  *)
(* of sets of vertices that fit and every order of decisions, as long as   *)
(* the theory attaches no clause to a list in the middle of its visit, each*)
(* clause is in the two lists of the literals it watches, once each, and   *)
(* propagate misses no unit clause and no conflict.  The second is what    *)
(* CbMinisat takes for granted.                                            *)
(***************************************************************************)
EXTENDS WatchedClauses, SolverTrailProofs

-----------------------------------------------------------------------------
(***************************************************************************)
(* The inductive invariant.                                                *)
(***************************************************************************)
\* What the code may be doing, and where its clauses come from.
Phases == {"propagate", "visit", "decide", "conflict", "aborted"}
Kinds == {"formula", "lemma", "learnt"}

\* Clauses, watchers, entries of the trail and states of the theory.
ClausesOf == [lits : Seq(Literals), meant : SUBSET Literals, kind : Kinds]
Watchers == [cref : Nat, blocker : Literals]
EntriesOf == [lit : Literals, level : Nat, reason : SUBSET Literals]
Theories == [vids : Seq(setup.vids), conflict : BOOLEAN, checked : BOOLEAN]

\* The types of the variables.
TypeOK ==
  /\ setup \in Setups
  /\ pc \in Phases
  /\ db \in Seq(ClausesOf)
  /\ watches \in [Literals -> Seq(Watchers)]
  /\ trail \in Seq(EntriesOf) /\ IsTrail(trail)
  /\ qhead \in 0 .. Len(trail)
  /\ theory \in Theories
  /\ confl \subseteq Literals
  /\ clobbered \in BOOLEAN

\* A clause has two literals at least, none twice, and those it was made of.
Whole(clause) ==
  /\ Len(clause.lits) > 1
  /\ IsInjective(clause.lits)
  /\ ToSet(clause.lits) = clause.meant

\* The pointers of a visit, and what the watchers refer to.
Pointers ==
  pc = "visit" =>
    /\ p \in Literals /\ qhead \in DOMAIN trail /\ trail[qhead].lit = p
    /\ i \in Nat /\ j \in Nat /\ end \in Nat
    /\ 1 <= j /\ j <= i /\ i <= end + 1 /\ end = Len(watches[p])

References ==
  \A lit \in Literals : \A n \in DOMAIN watches[lit] :
    /\ watches[lit][n].cref \in DOMAIN db
    /\ watches[lit][n].blocker \in db[watches[lit][n].cref].meant

Shapes ==
  /\ TypeOK /\ Pointers /\ References
  /\ \A c \in DOMAIN db : Whole(db[c])

\* What is still to be propagated is of the current level.
Fresh ==
  /\ pc \in {"propagate", "visit"} =>
       \A n \in DOMAIN trail : n > qhead \/ (pc = "visit" /\ n = qhead)
                                 => trail[n].level = Level
  /\ pc \in {"decide", "conflict"} => qhead = Len(trail)

\* soln_vids are the vertices on the trail; a verdict that was not reported yet
\* is about two vertices at least, one of them of the current level.
Verdict ==
  /\ theory.vids = Among(setup.vids, Lits(trail))
  /\ theory.conflict => Len(theory.vids) > 1
  /\ pc = "decide" => ~ HasConflict(theory)
  /\ HasConflict(theory) /\ Level > 0 =>
       \E n \in DOMAIN trail : trail[n].level = Level /\ trail[n].lit \in setup.vids

\* The conflict is false and has a literal of the current level.
Conflicting ==
  pc = "conflict" =>
    /\ Falsified(trail, confl)
    /\ Level > 0 => \E x \in confl : LevelOf(trail, x) = Level

\* The lists a clause belongs in.
Watching(clause) == {- clause.lits[1], - clause.lits[2]}

\* Among its live places a list has the clauses that watch its literal, once
\* each, and no others.
Exactly(list, live, lit, clauses) ==
  /\ \A n \in live : lit \in Watching(clauses[list[n].cref])
  /\ \A m, n \in live : list[m].cref = list[n].cref => m = n
  /\ \A c \in DOMAIN clauses : lit \in Watching(clauses[c]) =>
       \E n \in live : list[n].cref = c

\* While a list is visited its places from j to before i are stale.
Live(lit) ==
  IF pc = "visit" /\ lit = p THEN 1 .. j - 1 \union i .. end ELSE DOMAIN watches[lit]

Lists == ~ clobbered => \A lit \in Literals : Exactly(watches[lit], Live(lit), lit, db)

\* A literal of the clause is true since a level no higher than that at which
\* the watched literal became false.
Guarded(t, clause, lit) ==
  \E x \in clause.meant : IsTrue(t, x) /\ LevelOf(t, x) <= LevelOf(t, lit)

\* The false literal's list was not visited yet, or not as far as the clause,
\* or its level is about to be taken back.
Pending(c, lit) ==
  \/ EntryOf(trail, lit) > qhead
  \/ pc = "visit" /\ lit = - p /\ \E n \in i .. end : watches[p][n].cref = c
  \/ pc = "conflict" /\ LevelOf(trail, lit) = Level

Propagated ==
  ~ clobbered =>
    \A c \in DOMAIN db : db[c].kind # "lemma" =>
      \A lit \in {db[c].lits[1], db[c].lits[2]} :
        IsFalse(trail, lit) => Pending(c, lit) \/ Guarded(trail, db[c], lit)

\* The inductive invariant.
IInv == Shapes /\ Fresh /\ Verdict /\ Conflicting /\ Lists /\ Propagated

-----------------------------------------------------------------------------
(* What the assumption on setups says of the current one.                   *)

\* What SetupsAssumption says of the run at hand.
LEMMA SetupIs ==
  ASSUME setup \in Setups
  PROVE  /\ setup.numVars \in Nat
         /\ setup.interval \in Nat \ {0}
         /\ Literals \subseteq Lit /\ Literals \subseteq Int /\ IsFiniteSet(Literals)
         /\ \A x \in Literals : - x \in Literals /\ - (- x) = x
         /\ setup.vids \subseteq Literals /\ setup.vids \subseteq Nat \ {0}
         /\ {} \in setup.fitting
         /\ \A v \in setup.vids : {v} \in setup.fitting
         /\ setup.formula \in Seq(Seq(Literals))
         /\ \A n \in DOMAIN setup.formula :
              Len(setup.formula[n]) > 1 /\ IsInjective(setup.formula[n])
<1>1. /\ IsQuery(setup) /\ setup.numVars \in Nat /\ setup.vids \subseteq 1 .. setup.numVars
      /\ setup.formula \in Seq(Seq(Literals))
      /\ \A n \in DOMAIN setup.formula :
           Len(setup.formula[n]) > 1 /\ IsInjective(setup.formula[n])
  BY SetupsAssumption DEF Literals
<1> DEFINE positive == 1 .. setup.numVars
           negative == {- v : v \in positive}
<1>2. Literals = positive \union negative
  BY DEF Literals, LiteralsOf
<1>3. /\ Literals \subseteq Lit /\ Literals \subseteq Int
      /\ \A x \in Literals : - x \in Literals /\ - (- x) = x
  BY <1>1, <1>2 DEF Lit
<1>4. IsFiniteSet(Literals)
  <2>1. IsFiniteSet(- setup.numVars .. setup.numVars)
    BY <1>1, FS_Interval
  <2>2. Literals \subseteq - setup.numVars .. setup.numVars
    BY <1>1, <1>2
  <2> QED
    BY <2>1, <2>2, FS_Subset
<1> QED
  BY <1>1, <1>2, <1>3, <1>4 DEF IsQuery

\* The run at hand stays the same.
LEMMA SetupKept ==
  ASSUME Next
  PROVE  setup' = setup /\ Literals' = Literals
BY DEF Next, NextLiteral, BlockerTrue, AssertFails, FirstTrue, MoveWatch, UnitFound, ClauseFalse,
       ListEnds, QueueEmpty, Learn, Restart, Decide, Stopped, vars, Literals

-----------------------------------------------------------------------------
(* Sequences.                                                               *)

\* Two elements of a sequence exchanged.
Exchanged(s, a, b) == [s EXCEPT ![a] = s[b], ![b] = s[a]]

\* Exchanging two elements of a sequence keeps what it holds.
LEMMA SwapIs ==
  ASSUME NEW S, NEW s \in Seq(S), NEW a \in DOMAIN s, NEW b \in DOMAIN s
  PROVE  LET t == Exchanged(s, a, b)
         IN /\ t \in Seq(S) /\ Len(t) = Len(s) /\ DOMAIN t = DOMAIN s
            /\ t[a] = s[b] /\ t[b] = s[a]
            /\ \A n \in DOMAIN s \ {a, b} : t[n] = s[n]
            /\ ToSet(t) = ToSet(s)
            /\ IsInjective(s) => IsInjective(t)
<1> DEFINE t == Exchanged(s, a, b)
<1>1. /\ t \in Seq(S) /\ Len(t) = Len(s) /\ DOMAIN t = DOMAIN s
  BY DEF Exchanged
<1>2. /\ t[a] = s[b] /\ t[b] = s[a] /\ \A n \in DOMAIN s \ {a, b} : t[n] = s[n]
  BY DEF Exchanged
<1> HIDE DEF t
<1>3. ToSet(t) = ToSet(s)
  <2>1. \A n \in DOMAIN s : \E m \in DOMAIN t : t[m] = s[n]
    BY <1>1, <1>2
  <2>2. \A n \in DOMAIN t : \E m \in DOMAIN s : s[m] = t[n]
    BY <1>1, <1>2
  <2> QED
    BY <2>1, <2>2 DEF ToSet
<1>4. IsInjective(s) => IsInjective(t)
  BY <1>1, <1>2, Zenon DEF IsInjective
<1> QED
  BY <1>1, <1>2, <1>3, <1>4 DEF t

\* A part of a sequence cut off its end.
LEMMA SuffixCut ==
  ASSUME NEW s \in Seq(Int), NEW t \in Seq(Int)
  PROVE  /\ Len(t) <= Len(s \o t)
         /\ SubSeq(s \o t, 1, Len(s \o t) - Len(t)) = s
<1> DEFINE all == s \o t
           cut == SubSeq(all, 1, Len(s))
<1>1. /\ Len(s) \in Nat /\ Len(t) \in Nat /\ all \in Seq(Int) /\ Len(all) = Len(s) + Len(t)
      /\ \A n \in 1 .. Len(s) : all[n] = s[n]
  BY ConcatIs
<1> HIDE DEF all
<1>2. Len(t) <= Len(all) /\ Len(all) - Len(t) = Len(s) /\ Len(s) \in 0 .. Len(all)
  BY <1>1
<1>3. cut \in Seq(Int) /\ Len(cut) = Len(s) /\ \A n \in 1 .. Len(s) : cut[n] = all[n]
  BY <1>1, <1>2
<1> HIDE DEF cut
<1>4. \A n \in 1 .. Len(s) : cut[n] = s[n]
  BY <1>1, <1>3
<1>5. cut = s
  <2>1. DOMAIN cut = 1 .. Len(s) /\ DOMAIN s = 1 .. Len(s)
    BY <1>1, <1>3
  <2> QED
    BY <1>3, <1>4, <2>1
<1> QED
  BY <1>2, <1>5 DEF cut, all

\* Two elements of a set and a list of the others list the set.
LEMMA PairAndRest ==
  ASSUME NEW S, NEW a \in S, NEW b \in S, a # b,
         NEW tail \in Seq(S \ {a, b}), IsInjective(tail), ToSet(tail) = S \ {a, b}
  PROVE  LET s == <<a, b>> \o tail
         IN /\ s \in Seq(S) /\ Len(s) > 1 /\ s[1] = a /\ s[2] = b
            /\ IsInjective(s) /\ ToSet(s) = S
<1> DEFINE s == <<a, b>> \o tail
           n == Len(tail)
<1>1. /\ n \in Nat /\ DOMAIN tail = 1 .. n
      /\ \A k \in 1 .. n : tail[k] \in S \ {a, b}
  OBVIOUS
<1>2. /\ Len(s) = n + 2 /\ DOMAIN s = 1 .. n + 2
      /\ s[1] = a /\ s[2] = b /\ \A k \in 1 .. n : s[k + 2] = tail[k]
  BY <1>1
<1>3. s \in Seq(S)
  OBVIOUS
<1> HIDE DEF s, n
<1>4. \A k \in DOMAIN s : k = 1 \/ k = 2 \/ (k - 2 \in 1 .. n /\ s[k] = tail[k - 2])
  <2> TAKE k \in DOMAIN s
  <2>1. CASE k > 2
    <3>1. k - 2 \in 1 .. n /\ (k - 2) + 2 = k
      BY <1>1, <1>2, <2>1
    <3>2. s[(k - 2) + 2] = tail[k - 2]
      BY <1>2, <3>1
    <3> QED
      BY <3>1, <3>2
  <2>2. CASE ~ (k > 2)
    BY <1>1, <1>2, <2>2
  <2> QED
    BY <2>1, <2>2
<1>5. ASSUME NEW k \in DOMAIN s, NEW m \in DOMAIN s, s[k] = s[m] PROVE k = m
  <2>1. CASE k \in {1, 2} \/ m \in {1, 2}
    BY <1>1, <1>2, <1>4, <1>5, <2>1
  <2>2. CASE k \notin {1, 2} /\ m \notin {1, 2}
    <3>1. /\ k - 2 \in DOMAIN tail /\ m - 2 \in DOMAIN tail
          /\ tail[k - 2] = tail[m - 2]
      BY <1>1, <1>4, <1>5, <2>2
    <3>2. k - 2 = m - 2
      BY <3>1 DEF IsInjective
    <3> QED
      BY <1>1, <1>2, <3>2
  <2> QED
    BY <2>1, <2>2
<1>6. ToSet(s) = S
  <2>1. \A x \in S : \E k \in DOMAIN s : s[k] = x
    <3> TAKE x \in S
    <3>1. CASE x \in {a, b}
      <4>1. 1 \in DOMAIN s /\ 2 \in DOMAIN s
        BY <1>1, <1>2
      <4> QED
        BY <1>2, <3>1, <4>1
    <3>2. CASE x \notin {a, b}
      <4>1. PICK k \in 1 .. n : tail[k] = x
        BY <1>1, <3>2 DEF ToSet
      <4>2. k + 2 \in DOMAIN s
        BY <1>1, <1>2
      <4> QED
        BY <1>2, <4>1, <4>2
    <3> QED
      BY <3>1, <3>2
  <2>2. \A k \in DOMAIN s : s[k] \in S
    BY <1>3
  <2> QED
    BY <2>1, <2>2 DEF ToSet
<1>7. Len(s) > 1
  BY <1>1, <1>2
<1> QED
  BY <1>2, <1>3, <1>5, <1>6, <1>7 DEF s, IsInjective

-----------------------------------------------------------------------------
(* How the trail grows and shrinks.                                         *)

\* The trails of this run.
TypedTrail(t) == IsTrail(t) /\ t \in Seq(EntriesOf)

\* What uncheckedEnqueue is given.
Enqueues(t, lit, level, reason) ==
  /\ lit \in Literals /\ ~ Assigned(t, lit)
  /\ level \in Nat /\ \A n \in DOMAIN t : t[n].level <= level
  /\ reason \in SUBSET Literals
  /\ reason # {} => lit \in reason /\ Falsified(t, reason \ {lit})
  /\ level > 0 /\ (\E n \in DOMAIN t : t[n].level = level) => reason # {}

\* The types of the trail in a state of the invariant.
LEMMA TrailIsTyped ==
  ASSUME TypeOK
  PROVE  /\ TypedTrail(trail) /\ Level \in Nat /\ Len(trail) \in Nat
         /\ DOMAIN trail = 1 .. Len(trail)
         /\ \A n \in DOMAIN trail : /\ trail[n] \in EntriesOf
                                    /\ trail[n].lit \in Literals
                                    /\ trail[n].level \in Nat /\ trail[n].level <= Level
<1>1. TypedTrail(trail)
  BY DEF TypeOK, TypedTrail
<1>2. Level \in Nat /\ \A n \in DOMAIN trail : trail[n].level <= Level
  BY <1>1, DecisionLevelIs DEF TypedTrail, Level
<1>3. /\ \A n \in DOMAIN trail : trail[n] \in EntriesOf
      /\ DOMAIN trail = 1 .. Len(trail) /\ Len(trail) \in Nat
  BY <1>1 DEF TypedTrail
<1> QED
  BY <1>1, <1>2, <1>3 DEF EntriesOf

\* A trail cut back is a trail with the types of this run.
LEMMA KeptTyped ==
  ASSUME NEW t, TypedTrail(t), NEW k \in Int
  PROVE  /\ TypedTrail(KeptUntil(t, k))
         /\ Len(KeptUntil(t, k)) \in Nat /\ Len(KeptUntil(t, k)) <= Len(t)
<1>1. TrailLim(t, k) \in 0 .. Len(t) /\ Len(t) \in Nat
  BY TrailLimIs DEF TypedTrail
<1>2. KeptUntil(t, k) \in Seq(EntriesOf)
  BY <1>1 DEF KeptUntil, TypedTrail
<1>3. IsTrail(KeptUntil(t, k)) /\ Len(KeptUntil(t, k)) = TrailLim(t, k)
  BY KeptIs DEF TypedTrail
<1> QED
  BY <1>1, <1>2, <1>3 DEF TypedTrail

\* What enqueueing a literal does to a trail: its level, its values and the
\* levels of its literals.
LEMMA EnqueueIs ==
  ASSUME setup \in Setups, NEW t, TypedTrail(t), NEW lit, NEW level, NEW reason,
         Enqueues(t, lit, level, reason)
  PROVE  LET longer == Append(t, Entry(lit, level, reason))
         IN /\ TypedTrail(longer)
            /\ Entry(lit, level, reason) \in Entries
            /\ Entry(lit, level, reason).lit = lit
            /\ Entry(lit, level, reason).level = level
            /\ DecisionLevel(longer) = level
            /\ Len(longer) = Len(t) + 1
            /\ DOMAIN longer = DOMAIN t \union {Len(t) + 1}
            /\ longer[Len(t) + 1] = Entry(lit, level, reason)
            /\ \A n \in DOMAIN t : longer[n] = t[n] /\ n <= Len(t)
            /\ \A y \in Int : /\ IsTrue(longer, y) <=> IsTrue(t, y) \/ y = lit
                              /\ IsFalse(longer, y) <=> IsFalse(t, y) \/ y = - lit
<1> DEFINE e == Entry(lit, level, reason)
           longer == Append(t, e)
<1>1. lit \in Lit /\ reason \in SUBSET Lit /\ level \in Nat /\ lit \in Int
  BY SetupIs DEF Enqueues, Lit
<1>2. /\ e \in Entries /\ e.lit = lit /\ e.level = level /\ e \in EntriesOf
  BY <1>1, EntryFields DEF Enqueues, EntriesOf, Entry
<1>3. IsTrail(longer)
  BY <1>1, AppendIsTrail DEF Enqueues, TypedTrail
<1> HIDE DEF e
<1>4. TypedTrail(longer) /\ Len(longer) = Len(t) + 1
  BY <1>2, <1>3 DEF TypedTrail
<1>5. /\ DecisionLevel(longer) = level
      /\ DOMAIN longer = DOMAIN t \union {Len(t) + 1}
      /\ longer[Len(t) + 1] = e
      /\ \A n \in DOMAIN t : longer[n] = t[n] /\ n <= Len(t)
  BY <1>2, AppendIs DEF TypedTrail
<1>6. \A y \in Int : /\ IsTrue(longer, y) <=> IsTrue(t, y) \/ y = lit
                     /\ IsFalse(longer, y) <=> IsFalse(t, y) \/ y = - lit
  <2> SUFFICES ASSUME NEW y \in Int
               PROVE  /\ IsTrue(longer, y) <=> IsTrue(t, y) \/ y = lit
                      /\ IsFalse(longer, y) <=> IsFalse(t, y) \/ y = - lit
    OBVIOUS
  <2>1. lit = - y <=> y = - lit
    BY <1>1
  <2> QED
    BY <1>2, <2>1, AppendValues DEF TypedTrail
<1> QED
  BY <1>2, <1>4, <1>5, <1>6 DEF e

\* A literal of a falsified clause is the opposite of one on the trail.
LEMMA FalseIsLiteral ==
  ASSUME TypeOK, NEW x \in Int, IsFalse(trail, x)
  PROVE  x \in Literals
<1>1. PICK n \in DOMAIN trail : trail[n].lit = - x
  BY DEF IsFalse, IsTrue
<1> DEFINE y == - x
<1>2. y \in Literals /\ - y = x
  BY <1>1, TrailIsTyped
<1> HIDE DEF y
<1>3. - y \in Literals
  BY <1>2, SetupIs DEF TypeOK
<1> QED
  BY <1>2, <1>3

-----------------------------------------------------------------------------
(* What a visit reads.                                                      *)

\* The least of a set of positions.
LEMMA MinIs ==
  ASSUME NEW T \in SUBSET Nat, T # {}
  PROVE  Min(T) \in T
<1>1. \E m \in T : \A k \in T : m <= k
  BY LeastElement
<1> QED
  BY <1>1 DEF Min

\* The watcher read and its clause, with the false literal in second place.
LEMMA VisitIs ==
  ASSUME Shapes, Visiting
  PROVE  /\ watches[p] \in Seq(Watchers) /\ i \in DOMAIN watches[p] /\ j \in DOMAIN watches[p]
         /\ Reading \in Watchers /\ Reading.cref \in DOMAIN db
         /\ Reading.blocker \in db[Reading.cref].meant
         /\ p \in Literals /\ - p \in Literals /\ IsTrue(trail, p)
         /\ Visited \in Seq(Literals) /\ Len(Visited) > 1 /\ IsInjective(Visited)
         /\ ToSet(Visited) = db[Reading.cref].meant /\ ToSet(Visited) \in SUBSET Literals
         /\ {Visited[1], Visited[2]} = {db[Reading.cref].lits[1], db[Reading.cref].lits[2]}
         /\ {1, 2} \subseteq DOMAIN Visited
         /\ First \in Literals /\ First \in ToSet(Visited)
<1> DEFINE lits == db[Reading.cref].lits
<1>1. /\ p \in Literals /\ qhead \in DOMAIN trail /\ trail[qhead].lit = p
      /\ i \in Nat /\ j \in Nat /\ end \in Nat
      /\ 1 <= j /\ j <= i /\ i <= end /\ end = Len(watches[p])
  BY DEF Shapes, Pointers, Visiting
<1>2. watches[p] \in Seq(Watchers)
  BY <1>1 DEF Shapes, TypeOK
<1>3. i \in DOMAIN watches[p] /\ j \in DOMAIN watches[p]
  BY <1>1, <1>2
<1>4. Reading \in Watchers
  BY <1>2, <1>3 DEF Reading
<1>5. Reading.cref \in DOMAIN db /\ Reading.blocker \in db[Reading.cref].meant
  BY <1>1, <1>3 DEF Shapes, References, Reading
<1>6. db[Reading.cref] \in ClausesOf /\ Whole(db[Reading.cref])
  BY <1>5 DEF Shapes, TypeOK
<1>7. /\ lits \in Seq(Literals) /\ Len(lits) > 1 /\ IsInjective(lits)
      /\ ToSet(lits) = db[Reading.cref].meant /\ ToSet(lits) \in SUBSET Literals
  BY <1>6 DEF ClausesOf, Whole
<1> HIDE DEF lits
<1>8. 1 \in DOMAIN lits /\ 2 \in DOMAIN lits
  BY <1>7
<1>9. Visited = IF lits[1] = - p THEN [lits EXCEPT ![1] = lits[2], ![2] = lits[1]] ELSE lits
  BY DEF Visited, Swapped, lits
<1>10. /\ Visited \in Seq(Literals) /\ Len(Visited) = Len(lits) /\ IsInjective(Visited)
       /\ ToSet(Visited) = ToSet(lits)
       /\ {Visited[1], Visited[2]} = {lits[1], lits[2]}
       /\ DOMAIN Visited = DOMAIN lits
  <2>1. CASE lits[1] = - p
    <3> DEFINE s == Exchanged(lits, 1, 2)
    <3>1. /\ s \in Seq(Literals) /\ Len(s) = Len(lits) /\ DOMAIN s = DOMAIN lits
          /\ s[1] = lits[2] /\ s[2] = lits[1]
          /\ ToSet(s) = ToSet(lits) /\ IsInjective(s)
      BY <1>7, <1>8, SwapIs
    <3> HIDE DEF s
    <3>2. Visited = s
      BY <1>9, <2>1 DEF s, Exchanged
    <3> QED
      BY <3>1, <3>2
  <2>2. CASE lits[1] # - p
    BY <1>7, <1>9, <2>2
  <2> QED
    BY <2>1, <2>2
<1>11. First \in Literals /\ First \in ToSet(Visited)
  BY <1>8, <1>10 DEF First, ToSet
<1>12. - p \in Literals /\ IsTrue(trail, p)
  BY <1>1, SetupIs DEF Shapes, TypeOK, IsTrue
<1> QED
  BY <1>1, <1>2, <1>3, <1>4, <1>5, <1>7, <1>8, <1>10, <1>11, <1>12 DEF lits

\* While the lists are true, the clause watches the literal whose list is
\* visited (the assertion of Solver.cc:636).
LEMMA InPlaceIs ==
  ASSUME Shapes, Lists, ~ clobbered, Visiting
  PROVE  InPlace
<1> DEFINE lits == db[Reading.cref].lits
<1>1. /\ p \in Literals /\ i \in i .. end /\ pc = "visit"
  BY VisitIs DEF Visiting, Shapes, Pointers
<1>2. p \in Watching(db[Reading.cref])
  BY <1>1 DEF Lists, Exactly, Live, Reading
<1>3. lits \in Seq(Literals) /\ Len(lits) > 1 /\ IsInjective(lits)
  <2>1. Reading.cref \in DOMAIN db
    BY VisitIs
  <2>2. db[Reading.cref] \in ClausesOf /\ Whole(db[Reading.cref])
    BY <2>1 DEF Shapes, TypeOK
  <2> QED
    BY <2>2 DEF ClausesOf, Whole
<1>4. 1 \in DOMAIN lits /\ 2 \in DOMAIN lits /\ lits[1] # lits[2]
  BY <1>3 DEF IsInjective
<1>5. lits[1] \in Int /\ lits[2] \in Int
  BY <1>3, <1>4, SetupIs DEF Shapes, TypeOK
<1>6. lits[1] = - p \/ lits[2] = - p
  BY <1>2, <1>5 DEF Watching
<1>7. Visited = IF lits[1] = - p THEN [lits EXCEPT ![1] = lits[2], ![2] = lits[1]] ELSE lits
  BY DEF Visited, Swapped
<1> HIDE DEF lits
<1>8. Visited[2] = - p
  BY <1>3, <1>4, <1>6, <1>7
<1> QED
  BY <1>8 DEF InPlace

\* With no other literal to watch, all but the first are false.
LEMMA OthersFalse ==
  ASSUME Shapes, ToInspect, Candidates = {}
  PROVE  Falsified(trail, ToSet(Visited) \ {First})
<1>1. Visiting /\ Visited[2] = - p
  BY DEF ToInspect, Inspecting, InPlace
<1>2. /\ Visited \in Seq(Literals) /\ p \in Literals /\ IsTrue(trail, p)
      /\ - (- p) = p
  BY <1>1, VisitIs, SetupIs DEF Shapes, TypeOK
<1> SUFFICES ASSUME NEW n \in DOMAIN Visited, n # 1
             PROVE  IsFalse(trail, Visited[n])
  BY DEF Falsified, ToSet, First
<1>3. CASE n = 2
  BY <1>1, <1>2, <1>3 DEF IsFalse
<1>4. CASE n # 2
  <2>1. n \in 3 .. Len(Visited)
    BY <1>2, <1>4
  <2> QED
    BY <2>1 DEF Candidates
<1> QED
  BY <1>3, <1>4

\* The first literal of a unit clause can be enqueued with the clause as its
\* reason.
LEMMA UnitEnqueues ==
  ASSUME Shapes, ToInspect, Candidates = {}, ~ IsFalse(trail, First)
  PROVE  Enqueues(trail, First, Level, ToSet(Visited))
<1>1. Visiting
  BY DEF ToInspect, Inspecting
<1>2. ~ IsTrue(trail, First)
  BY DEF ToInspect, Inspecting
<1>3. /\ First \in Literals /\ First \in ToSet(Visited) /\ ToSet(Visited) \in SUBSET Literals
      /\ Falsified(trail, ToSet(Visited) \ {First})
  BY <1>1, VisitIs, OthersFalse
<1>4. Level \in Nat /\ \A n \in DOMAIN trail : trail[n].level <= Level
  BY TrailIsTyped DEF Shapes
<1> QED
  BY <1>2, <1>3, <1>4 DEF Enqueues, Assigned

\* An unassigned literal can be decided on.
LEMMA DecisionEnqueues ==
  ASSUME TypeOK, NEW lit \in Literals, ~ Assigned(trail, lit)
  PROVE  Enqueues(trail, lit, Level + 1, {})
<1>1. /\ Level \in Nat
      /\ \A n \in DOMAIN trail : trail[n].level \in Nat /\ trail[n].level <= Level
  BY TrailIsTyped
<1>2. /\ Level + 1 \in Nat
      /\ \A n \in DOMAIN trail : trail[n].level <= Level + 1 /\ trail[n].level # Level + 1
  BY <1>1
<1> QED
  BY <1>2 DEF Enqueues

-----------------------------------------------------------------------------
(* What analyze hands to search.                                            *)

\* The clause learnt, its literal to enqueue and the level to go back to.
Learnable(learnt, lit, level) ==
  /\ learnt \in SUBSET Literals /\ lit \in learnt
  /\ level \in Nat /\ level < Level
  /\ LevelOf(trail, lit) = Level
  /\ Falsified(KeptUntil(trail, level), learnt \ {lit})
  /\ \A x \in learnt \ {lit} : LevelOf(trail, x) <= level
  /\ learnt = {lit} \/ \E x \in learnt \ {lit} : LevelOf(trail, x) = level
  /\ Enqueues(KeptUntil(trail, level), lit, level, IF learnt = {lit} THEN {} ELSE learnt)

\* LearntIs for the conflict at hand: the clause is unit on the trail cut
\* back, and its literal can be enqueued with it as reason.
LEMMA LearnIs ==
  ASSUME TypeOK, Conflicting, pc = "conflict", Level > 0
  PROVE  Learnable(Learnt(trail, confl), Asserting(trail, Learnt(trail, confl)),
                   BacktrackLevel(trail, Learnt(trail, confl)))
<1> DEFINE learnt == Learnt(trail, confl)
           lit == Asserting(trail, learnt)
           level == BacktrackLevel(trail, learnt)
           kept == KeptUntil(trail, level)
<1>1. IsTrail(trail) /\ confl \in SUBSET Lit /\ Level \in Nat
  BY SetupIs, TrailIsTyped DEF TypeOK, TypedTrail
<1>2. Learns(trail, confl, learnt, lit, level)
  BY <1>1, LearntIs DEF Conflicting, Level
<1> HIDE DEF learnt, lit, level
<1>3. /\ learnt \subseteq Lit /\ lit \in learnt /\ Falsified(trail, learnt)
      /\ LevelOf(trail, lit) = Level
      /\ level \in 0 .. Level - 1
      /\ \A x \in learnt \ {lit} : LevelOf(trail, x) \in 1 .. level
      /\ level > 0 => \E x \in learnt \ {lit} : LevelOf(trail, x) = level
  BY <1>2 DEF Learns, Level
<1>4. level \in Nat /\ level < Level /\ level \in Int
  BY <1>1, <1>3
<1>5. learnt \in SUBSET Literals
  <2>1. \A x \in learnt : x \in Int /\ IsFalse(trail, x)
    BY <1>3 DEF Lit, Falsified
  <2> QED
    BY <2>1, FalseIsLiteral
<1>6. \A x \in learnt : /\ ~ IsTrue(kept, x)
                        /\ IsFalse(kept, x) <=> LevelOf(trail, x) <= level
  <2> SUFFICES ASSUME NEW x \in learnt
               PROVE  /\ ~ IsTrue(kept, x)
                      /\ IsFalse(kept, x) <=> LevelOf(trail, x) <= level
    OBVIOUS
  <2>1. x \in Lit /\ IsFalse(trail, x)
    BY <1>3 DEF Falsified
  <2>2. ~ IsTrue(trail, x)
    BY <1>1, <2>1, NotBoth
  <2> QED
    BY <1>1, <1>4, <2>1, <2>2, KeptValues
<1>7. ~ Assigned(kept, lit) /\ Falsified(kept, learnt \ {lit})
  <2>1. ~ (LevelOf(trail, lit) <= level)
    BY <1>1, <1>3, <1>4
  <2>2. \A x \in learnt \ {lit} : LevelOf(trail, x) <= level
    BY <1>3
  <2> QED
    BY <1>3, <1>6, <2>1, <2>2 DEF Assigned, Falsified
<1>8. Enqueues(kept, lit, level, IF learnt = {lit} THEN {} ELSE learnt)
  <2>1. /\ DOMAIN kept = {n \in DOMAIN trail : trail[n].level <= level}
        /\ \A n \in DOMAIN kept : kept[n] = trail[n]
    BY <1>1, <1>4, KeptIs
  <2>2. \A n \in DOMAIN kept : kept[n].level <= level
    BY <2>1
  <2>3. level > 0 => learnt # {lit}
    BY <1>3
  <2> HIDE DEF kept
  <2> QED
    BY <1>3, <1>4, <1>5, <1>7, <2>2, <2>3 DEF Enqueues
<1>9. learnt = {lit} \/ \E x \in learnt \ {lit} : LevelOf(trail, x) = level
  <2>1. CASE level = 0
    BY <1>3, <2>1
  <2>2. CASE level > 0
    BY <1>3, <2>2
  <2> QED
    BY <1>4, <2>1, <2>2
<1>10. Learnable(learnt, lit, level)
  <2>1. \A x \in learnt \ {lit} : LevelOf(trail, x) <= level
    BY <1>3
  <2> QED
    BY <1>3, <1>4, <1>5, <1>7, <1>8, <1>9, <2>1 DEF Learnable
<1> QED
  BY <1>10 DEF learnt, lit, level

-----------------------------------------------------------------------------
(* The theory's vertices and the trail.                                     *)

\* A state of the theory that fits a trail.
Reported(t, th) ==
  /\ th \in Theories
  /\ th.vids = Among(setup.vids, Lits(t))
  /\ th.conflict => Len(th.vids) > 1
  /\ HasConflict(th) /\ DecisionLevel(t) > 0 =>
       \E n \in DOMAIN t : t[n].level = DecisionLevel(t) /\ t[n].lit \in setup.vids

\* What the push callback does: nothing for a literal that is no vertex, else
\* the vertex joins soln_vids and, where TSP::solve is asked, the verdict is
\* new; one vertex is never refused.
LEMMA PushIs ==
  ASSUME setup \in Setups, NEW th \in Theories, NEW lit \in Literals,
         NEW pushed \in Push(setup, th, lit)
  PROVE  /\ pushed \in Theories
         /\ lit \notin setup.vids => pushed = th
         /\ lit \in setup.vids =>
              /\ pushed.vids = Append(th.vids, lit)
              /\ Len(pushed.vids) = Len(th.vids) + 1 /\ Len(th.vids) \in Nat
              /\ \/ pushed.conflict = th.conflict /\ pushed.checked = th.checked
                 \/ pushed.conflict => Len(pushed.vids) > 1
<1>1. CASE lit \notin setup.vids
  BY <1>1 DEF Push, IsVid
<1>2. CASE lit \in setup.vids
  <2> DEFINE grown == Append(th.vids, lit)
  <2>1. /\ grown \in Seq(setup.vids) /\ th.vids \in Seq(setup.vids)
        /\ Len(grown) = Len(th.vids) + 1 /\ Len(th.vids) \in Nat
        /\ grown[Len(grown)] = lit
    BY <1>2 DEF Theories
  <2> HIDE DEF grown
  <2>2. CASE Len(grown) % setup.interval # 0
    <3>1. pushed = [th EXCEPT !.vids = grown]
      BY <1>2, <2>2 DEF Push, IsVid, grown
    <3> QED
      BY <1>2, <2>1, <3>1 DEF Theories, grown
  <2>3. CASE ~ (Len(grown) % setup.interval # 0)
    <3>1. PICK answer \in Answers(setup, grown) :
            pushed = [vids |-> grown, conflict |-> ~ answer, checked |-> FALSE]
      BY <1>2, <2>3 DEF Push, IsVid, grown
    <3>2. answer \in BOOLEAN
      BY <3>1 DEF Answers
    <3>3. ASSUME ~ answer PROVE Len(grown) > 1
      <4>1. SUFFICES ASSUME Len(grown) = 1 PROVE FALSE
        BY <2>1
      <4>2. DOMAIN grown = {1} /\ grown[1] = lit
        <5>1. DOMAIN grown = 1 .. Len(grown)
          BY <2>1
        <5>2. DOMAIN grown = 1 .. 1
          BY <4>1, <5>1
        <5>3. 1 .. 1 = {1}
          OBVIOUS
        <5>4. grown[1] = lit
          BY <2>1, <4>1
        <5> QED
          BY <5>2, <5>3, <5>4
      <4>3. ToSet(grown) = {lit}
        BY <4>2 DEF ToSet
      <4>4. {lit} \in setup.fitting
        BY <1>2, SetupIs
      <4>5. ~ (Len(grown) > 3)
        BY <4>1
      <4>6. Answers(setup, grown) = {TRUE}
        BY <4>3, <4>4, <4>5 DEF Answers
      <4> QED
        BY <3>1, <3>3, <4>6
    <3>4. /\ pushed.vids = grown /\ pushed \in Theories
          /\ pushed.conflict => ~ answer
      BY <2>1, <3>1, <3>2 DEF Theories
    <3> QED
      BY <1>2, <2>1, <3>3, <3>4 DEF grown
  <2> QED
    BY <2>2, <2>3
<1> QED
  BY <1>1, <1>2

\* Enqueueing a literal and telling the theory of it keep the two together.
LEMMA PushReported ==
  ASSUME setup \in Setups, NEW t, TypedTrail(t), NEW th, Reported(t, th),
         NEW lit, NEW level, NEW reason, Enqueues(t, lit, level, reason),
         HasConflict(th) => DecisionLevel(t) = level,
         NEW pushed \in Push(setup, th, lit)
  PROVE  Reported(Append(t, Entry(lit, level, reason)), pushed)
<1> DEFINE longer == Append(t, Entry(lit, level, reason))
<1>1. /\ TypedTrail(longer) /\ DecisionLevel(longer) = level
      /\ longer[Len(t) + 1].lit = lit /\ longer[Len(t) + 1].level = level
      /\ DOMAIN longer = DOMAIN t \union {Len(t) + 1}
      /\ \A n \in DOMAIN t : longer[n] = t[n]
      /\ Entry(lit, level, reason) \in Entries /\ Entry(lit, level, reason).lit = lit
  BY EnqueueIs
<1>2. lit \in Literals /\ lit \in Int /\ th \in Theories
  BY SetupIs DEF Enqueues, Reported
<1>3. Lits(longer) = Append(Lits(t), lit)
  <2>1. IsTrail(t) /\ IsTrail(longer) /\ 0 \in Int
    BY <1>1 DEF TypedTrail
  <2> QED
    BY <1>1, <2>1, LitsOfAppend
<1>4. Lits(t) \in Seq(Int)
  BY LitsAre DEF TypedTrail
<1>5. Among(setup.vids, Lits(longer)) =
        IF lit \in setup.vids THEN Append(Among(setup.vids, Lits(t)), lit) ELSE Among(setup.vids, Lits(t))
  <2>1. Among(setup.vids, Append(Lits(t), lit)) =
          IF lit \in setup.vids THEN Append(Among(setup.vids, Lits(t)), lit)
          ELSE Among(setup.vids, Lits(t))
    BY <1>2, <1>4, AmongAppend, Zenon
  <2> HIDE DEF longer
  <2> QED
    BY <1>3, <2>1
<1> HIDE DEF longer
<1>6. /\ pushed \in Theories
      /\ lit \notin setup.vids => pushed = th
      /\ lit \in setup.vids =>
              /\ pushed.vids = Append(th.vids, lit)
              /\ Len(pushed.vids) = Len(th.vids) + 1 /\ Len(th.vids) \in Nat
              /\ \/ pushed.conflict = th.conflict /\ pushed.checked = th.checked
                 \/ pushed.conflict => Len(pushed.vids) > 1
  BY <1>2, PushIs
<1>7. CASE lit \notin setup.vids
  <2>1. pushed = th /\ pushed.vids = Among(setup.vids, Lits(longer))
    BY <1>5, <1>6, <1>7 DEF Reported
  <2>2. ASSUME HasConflict(pushed), level > 0
        PROVE  \E n \in DOMAIN longer : longer[n].level = level /\ longer[n].lit \in setup.vids
    <3>1. PICK n \in DOMAIN t : t[n].level = DecisionLevel(t) /\ t[n].lit \in setup.vids
      BY <2>1, <2>2 DEF Reported
    <3> QED
      BY <1>1, <2>1, <2>2, <3>1
  <2> QED
    BY <1>1, <1>6, <2>1, <2>2 DEF Reported, longer
<1>8. CASE lit \in setup.vids
  <2>1. pushed.vids = Among(setup.vids, Lits(longer))
    BY <1>5, <1>6, <1>8 DEF Reported
  <2>2. ASSUME pushed.conflict PROVE Len(pushed.vids) > 1
    <3>1. CASE pushed.conflict = th.conflict
      <4>1. Len(th.vids) > 1
        BY <2>2, <3>1 DEF Reported
      <4> QED
        BY <1>6, <1>8, <4>1
    <3>2. CASE pushed.conflict # th.conflict
      BY <1>6, <1>8, <2>2, <3>2
    <3> QED
      BY <3>1, <3>2
  <2>3. \E n \in DOMAIN longer : longer[n].level = level /\ longer[n].lit \in setup.vids
    BY <1>1, <1>8
  <2> QED
    BY <1>1, <1>6, <2>1, <2>2, <2>3 DEF Reported, longer
<1> QED
  BY <1>7, <1>8

\* Reporting a verdict takes it down.
LEMMA CheckedReported ==
  ASSUME NEW t, NEW th, Reported(t, th)
  PROVE  Reported(t, Checked(th)) /\ ~ HasConflict(Checked(th))
<1>1. /\ Checked(th) \in Theories /\ Checked(th).vids = th.vids
      /\ Checked(th).conflict = th.conflict /\ Checked(th).checked
  BY DEF Reported, Theories, Checked
<1> QED
  BY <1>1 DEF Reported, HasConflict

\* cancelUntil and the callback it makes keep the trail and the theory
\* together, and take down a verdict that is about a vertex taken off.
LEMMA ShrinkReported ==
  ASSUME TypeOK, Verdict, NEW level \in Nat, HasConflict(theory) => level < Level
  PROVE  LET th == Shrink(setup, theory, LitsAbove(trail, level))
         IN Reported(KeptUntil(trail, level), th) /\ ~ HasConflict(th)
<1> DEFINE kept == KeptUntil(trail, level)
           low == Among(setup.vids, Lits(kept))
           high == Among(setup.vids, LitsAbove(trail, level))
           popped == Len(high)
           th == Shrink(setup, theory, LitsAbove(trail, level))
<1>1. IsTrail(trail) /\ level \in Int /\ theory \in Theories
  BY DEF TypeOK
<1>2. /\ Lits(kept) \in Seq(Int) /\ LitsAbove(trail, level) \in Seq(Int)
      /\ Lits(trail) = Lits(kept) \o LitsAbove(trail, level)
  BY <1>1, LitsTyped
<1>3. /\ low \in Seq(Int) /\ high \in Seq(Int) /\ popped \in Nat
  BY <1>2, AmongType
<1>4. theory.vids = low \o high
  BY <1>2, AmongConcat DEF Verdict
<1>5. ToSet(high) = {x \in setup.vids : x \in ToSet(LitsAbove(trail, level))}
  BY <1>2, AmongSet
<1> HIDE DEF low, high
<1>6. SubSeq(theory.vids, 1, Len(theory.vids) - popped) = low /\ popped <= Len(theory.vids)
  BY <1>3, <1>4, SuffixCut
<1> DEFINE cut == SubSeq(theory.vids, 1, Len(theory.vids) - popped)
<1>7. th = [theory EXCEPT !.vids = cut, !.conflict = theory.conflict /\ popped = 0]
  BY DEF Shrink, high
<1>8. cut \in Seq(setup.vids) /\ cut = low /\ (popped = 0 => cut = theory.vids)
  <2>1. theory.vids \in Seq(setup.vids) /\ Len(theory.vids) \in Nat
    BY <1>1 DEF Theories
  <2>2. Len(theory.vids) - popped \in 0 .. Len(theory.vids)
    BY <1>3, <1>6, <2>1
  <2>3. /\ SubSeq(theory.vids, 1, Len(theory.vids) - popped) \in Seq(setup.vids)
        /\ SubSeq(theory.vids, 1, Len(theory.vids)) = theory.vids
    BY <2>1, <2>2, PrefixIs
  <2>4. popped = 0 => Len(theory.vids) - popped = Len(theory.vids)
    BY <2>1
  <2> QED
    BY <1>6, <2>3, <2>4
<1> HIDE DEF cut, th
<1>9. (theory.conflict /\ popped = 0) \in BOOLEAN /\ theory.conflict \in BOOLEAN
      /\ theory.checked \in BOOLEAN
  BY <1>1 DEF Theories
<1>10. /\ th \in Theories /\ th.vids = low /\ th.checked = theory.checked
       /\ th.conflict = (theory.conflict /\ popped = 0)
  BY <1>1, <1>7, <1>8, <1>9 DEF Theories
<1>11. ASSUME HasConflict(theory) PROVE popped # 0
  <2>1. Level > 0 /\ level < Level
    BY <1>11, TrailIsTyped
  <2>2. PICK n \in DOMAIN trail : trail[n].level = Level /\ trail[n].lit \in setup.vids
    BY <1>11, <2>1 DEF Verdict
  <2>3. /\ TrailLim(trail, level) \in 0 .. Len(trail) /\ Len(trail) \in Nat
        /\ Len(LitsAbove(trail, level)) = Len(trail) - TrailLim(trail, level)
        /\ \A m \in 1 .. Len(trail) - TrailLim(trail, level) :
             LitsAbove(trail, level)[m] = trail[TrailLim(trail, level) + m].lit
    BY <1>1, LitsAboveAre
  <2>4. ~ (n <= TrailLim(trail, level)) /\ n \in 1 .. Len(trail)
    <3>1. trail[n].level <= level <=> n <= TrailLim(trail, level)
      BY <1>1, TrailLimIs
    <3>2. Level \in Nat /\ DOMAIN trail = 1 .. Len(trail)
      BY TrailIsTyped
    <3> QED
      BY <2>1, <2>2, <3>1, <3>2
  <2> DEFINE m == n - TrailLim(trail, level)
  <2>5. /\ m \in 1 .. Len(trail) - TrailLim(trail, level)
        /\ TrailLim(trail, level) + m = n
    BY <2>3, <2>4
  <2>6. m \in DOMAIN LitsAbove(trail, level) /\ LitsAbove(trail, level)[m] = trail[n].lit
    BY <1>2, <2>3, <2>5
  <2>7. trail[n].lit \in ToSet(LitsAbove(trail, level))
    BY <2>6 DEF ToSet
  <2>8. trail[n].lit \in ToSet(high)
    BY <1>5, <2>2, <2>7
  <2>9. DOMAIN high # {}
    BY <2>8 DEF ToSet
  <2> QED
    BY <1>3, <2>9
<1>12. ~ HasConflict(th)
  BY <1>10, <1>11 DEF HasConflict
<1>13. th.conflict => Len(th.vids) > 1
  BY <1>8, <1>10 DEF Verdict
<1>14. Reported(kept, th)
  BY <1>10, <1>12, <1>13 DEF Reported, low
<1> QED
  BY <1>12, <1>14 DEF th

\* A state of the theory that fits the trail, as the invariant has it.
LEMMA VerdictNext ==
  ASSUME setup' = setup, Literals' = Literals, Reported(trail', theory'),
         pc' = "decide" => ~ HasConflict(theory')
  PROVE  Verdict'
BY DEF Verdict, Reported, Level, HasConflict

\* The types and the invariant of the theory and the trail give its state.
LEMMA VerdictNow ==
  ASSUME TypeOK, Verdict
  PROVE  Reported(trail, theory)
BY DEF Verdict, Reported, TypeOK, Level

\* The clause that the theory hands over has two literals at least, none
\* twice, all false, one of them of the current level.
LEMMA LemmaIs ==
  ASSUME setup \in Setups, NEW t, TypedTrail(t), NEW th, Reported(t, th), HasConflict(th)
  PROVE  /\ LemmaLits(th) \in Seq(Literals) /\ Len(LemmaLits(th)) > 1
         /\ IsInjective(LemmaLits(th))
         /\ ConflictClause(th) \subseteq Literals
         /\ Falsified(t, ConflictClause(th))
         /\ DecisionLevel(t) > 0 => \E x \in ConflictClause(th) : LevelOf(t, x) = DecisionLevel(t)
<1> DEFINE vids == th.vids
           lits == LemmaLits(th)
<1>1. /\ vids \in Seq(setup.vids) /\ Len(vids) > 1 /\ vids = Among(setup.vids, Lits(t))
      /\ DecisionLevel(t) > 0 =>
           \E n \in DOMAIN t : t[n].level = DecisionLevel(t) /\ t[n].lit \in setup.vids
  BY DEF Reported, HasConflict, Theories
<1>2. /\ setup.vids \subseteq Literals /\ setup.vids \subseteq Nat \ {0}
      /\ \A x \in Literals : - x \in Literals
  BY SetupIs
<1>3. /\ Lits(t) \in Seq(Int) /\ Len(Lits(t)) = Len(t) /\ IsTrail(t)
      /\ \A n \in 1 .. Len(t) : Lits(t)[n] = t[n].lit
      /\ DOMAIN t = 1 .. Len(t) /\ Len(t) \in Nat
      /\ \A n \in DOMAIN t : t[n].lit \in Int
  BY LitsAre, TrailTypes DEF TypedTrail
<1>4. Distinct(vids)
  <2>1. \A n, m \in 1 .. Len(t) : t[n].lit = t[m].lit => n = m
    BY <1>3 DEF IsTrail, Consistent
  <2>2. \A n, m \in 1 .. Len(Lits(t)) : Lits(t)[n] = Lits(t)[m] => n = m
    BY <1>3, <2>1
  <2> QED
    BY <1>1, <1>3, <2>2, AmongDistinct
<1>5. ToSet(vids) = {x \in setup.vids : x \in ToSet(Lits(t))}
  BY <1>1, <1>3, AmongSet
<1> HIDE DEF vids
<1>6. IsInjective(vids)
  <2> DEFINE S == 1 .. Len(vids)
             T == ToSet(vids)
  <2>1. vids \in [S -> T] /\ Len(vids) \in Nat
    <3>1. Len(vids) \in Nat /\ DOMAIN vids = S /\ vids = [n \in S |-> vids[n]]
      BY <1>1
    <3> QED
      BY <3>1 DEF ToSet
  <2>2. vids \in Surjection(S, T)
    BY <2>1, Zenon DEF Surjection, ToSet
  <2>3. IsFiniteSet(S) /\ Cardinality(S) = Len(vids)
    <3>1. Len(vids) \in Int /\ 1 \in Int
      BY <2>1
    <3>2. Cardinality(S) = IF 1 > Len(vids) THEN 0 ELSE Len(vids) - 1 + 1
      BY <3>1, FS_Interval
    <3>3. Cardinality(S) = Len(vids)
      BY <2>1, <3>2
    <3>4. IsFiniteSet(S)
      BY <3>1, FS_Interval
    <3> QED
      BY <3>3, <3>4
  <2>4. Cardinality(T) = Cardinality(S)
    BY <1>4, <2>3 DEF Distinct
  <2> HIDE DEF S, T
  <2>5. vids \in Injection(S, T)
    BY <2>2, <2>3, <2>4, FS_Surjection
  <2> QED
    BY <2>5 DEF Injection
<1>7. lits = [n \in DOMAIN vids |-> - vids[n]]
  BY DEF LemmaLits, vids
<1>8. /\ DOMAIN vids = 1 .. Len(vids) /\ Len(vids) \in Nat
      /\ \A n \in DOMAIN vids : vids[n] \in setup.vids /\ vids[n] \in Int
  BY <1>1, <1>2
<1> HIDE DEF lits
<1>9. lits \in Seq(Literals) /\ Len(lits) = Len(vids)
  <2>1. \A n \in 1 .. Len(vids) : - vids[n] \in Literals
    BY <1>2, <1>8
  <2> QED
    BY <1>7, <1>8, <2>1
<1>10. IsInjective(lits)
  <2>1. \A n, m \in DOMAIN vids : - vids[n] = - vids[m] => vids[n] = vids[m]
    BY <1>8
  <2> QED
    BY <1>6, <1>7, <2>1 DEF IsInjective
<1>11. ConflictClause(th) = {- v : v \in ToSet(vids)}
  BY DEF ConflictClause, vids
<1>12. \A v \in ToSet(vids) : v \in setup.vids /\ v \in Int /\ - (- v) = v /\ IsTrue(t, v)
  <2> TAKE v \in ToSet(vids)
  <2>1. v \in setup.vids /\ v \in ToSet(Lits(t))
    BY <1>5
  <2>2. PICK n \in DOMAIN Lits(t) : Lits(t)[n] = v
    BY <2>1 DEF ToSet
  <2>3. n \in DOMAIN t /\ t[n].lit = v
    BY <1>3, <2>2
  <2> QED
    BY <1>2, <2>1, <2>3 DEF IsTrue
<1>13. ConflictClause(th) \subseteq Literals /\ Falsified(t, ConflictClause(th))
  BY <1>2, <1>11, <1>12 DEF Falsified, IsFalse
<1>14. ASSUME DecisionLevel(t) > 0
       PROVE  \E x \in ConflictClause(th) : LevelOf(t, x) = DecisionLevel(t)
  <2>1. PICK n \in DOMAIN t : t[n].level = DecisionLevel(t) /\ t[n].lit \in setup.vids
    BY <1>1, <1>14
  <2> DEFINE v == t[n].lit
  <2>2. v \in Int /\ - v \in Int /\ v \in setup.vids
    BY <1>3, <2>1
  <2>3. v \in ToSet(vids)
    <3>1. n \in DOMAIN Lits(t) /\ Lits(t)[n] = v
      BY <1>3
    <3> QED
      BY <1>5, <2>2, <3>1 DEF ToSet
  <2>4. Var(- v) = Var(v)
    BY <2>2, SameVar
  <2>5. LevelOf(t, - v) = t[n].level
    BY <1>3, <2>2, <2>4, EntryIs
  <2> HIDE DEF v
  <2> QED
    BY <1>11, <2>1, <2>3, <2>5
<1>15. Len(lits) > 1
  BY <1>1, <1>9 DEF vids
<1> QED
  BY <1>9, <1>10, <1>13, <1>14, <1>15 DEF lits

-----------------------------------------------------------------------------
(* Steps: the trail and the theory.                                         *)

\* What analyze and search do at a conflict above level 0.
Learning(learnt, lit, level) ==
  /\ learnt = Learnt(trail, confl)
  /\ lit = Asserting(trail, learnt)
  /\ level = BacktrackLevel(trail, learnt)

\* The clause learnt as attachClause is given it: the literal to enqueue
\* comes first, one of the level to go back to second.
LEMMA LearntLitsIs ==
  ASSUME TypeOK, NEW learnt, NEW lit, NEW level, Learning(learnt, lit, level),
         Learnable(learnt, lit, level)
  PROVE  LET lits == LearntLits(learnt)
         IN /\ lits[1] = lit
            /\ learnt = {lit} => Len(lits) = 1
            /\ learnt # {lit} =>
                 /\ lits \in Seq(Literals) /\ Len(lits) > 1
                 /\ IsInjective(lits) /\ ToSet(lits) = learnt
                 /\ lits[2] \in learnt \ {lit} /\ LevelOf(trail, lits[2]) = level
<1> DEFINE lits == LearntLits(learnt)
           second == {x \in learnt \ {lit} : LevelOf(trail, x) = level}
<1>1. lits = IF second = {} THEN <<lit>>
             ELSE LET other == CHOOSE x \in second : TRUE
                  IN <<lit, other>> \o SetToSeq(learnt \ {lit, other})
  BY DEF LearntLits, Learning
<1>2. learnt = {lit} <=> second = {}
  BY DEF Learnable
<1>3. CASE learnt = {lit}
  <2>1. lits = <<lit>>
    BY <1>1, <1>2, <1>3
  <2> HIDE DEF lits
  <2> QED
    BY <1>3, <2>1 DEF lits
<1>4. CASE learnt # {lit}
  <2> DEFINE other == CHOOSE x \in second : TRUE
             rest == learnt \ {lit, other}
             tail == SetToSeq(rest)
  <2>1. other \in second
    BY <1>2, <1>4
  <2>2. lits = <<lit, other>> \o tail
    BY <1>1, <1>2, <1>4
  <2>3. /\ other \in learnt \ {lit} /\ LevelOf(trail, other) = level
        /\ lit \in learnt /\ learnt \in SUBSET Literals
    BY <2>1 DEF Learnable
  <2>4. IsFiniteSet(rest)
    <3>1. rest \in SUBSET Literals /\ IsFiniteSet(Literals)
      BY <2>3, SetupIs DEF TypeOK
    <3> HIDE DEF rest
    <3> QED
      BY <3>1, FS_Subset
  <2> HIDE DEF lits, other, second
  <2>5. tail \in Seq(rest) /\ IsInjective(tail) /\ ToSet(tail) = rest
    <3> HIDE DEF rest
    <3> QED
      BY <2>4, SetToSeqIs
  <2> HIDE DEF tail
  <2> DEFINE s == <<lit, other>> \o tail
  <2>6. /\ s \in Seq(learnt) /\ Len(s) > 1 /\ s[1] = lit /\ s[2] = other
        /\ IsInjective(s) /\ ToSet(s) = learnt
    BY <2>3, <2>5, PairAndRest
  <2>7. lits = s
    BY <2>2
  <2> HIDE DEF s
  <2>8. s \in Seq(Literals)
    BY <2>3, <2>6
  <2> QED
    BY <1>4, <2>3, <2>6, <2>7, <2>8 DEF lits
<1> QED
  BY <1>3, <1>4

\* Learning takes the trail back, the theory with it, and enqueues the
\* literal learnt.
LEMMA LearnReported ==
  ASSUME IInv, Learn
  PROVE  \E learnt, lit, level :
           /\ Learning(learnt, lit, level) /\ Learnable(learnt, lit, level)
           /\ trail' = Append(KeptUntil(trail, level),
                              Entry(lit, level, IF learnt = {lit} THEN {} ELSE learnt))
           /\ qhead' = Len(KeptUntil(trail, level))
           /\ TypedTrail(KeptUntil(trail, level))
           /\ TypedTrail(trail') /\ Reported(trail', theory')
<1> DEFINE learnt == Learnt(trail, confl)
           lit == Asserting(trail, learnt)
           level == BacktrackLevel(trail, learnt)
           kept == KeptUntil(trail, level)
           reason == IF learnt = {lit} THEN {} ELSE learnt
<1>1. TypeOK /\ Conflicting /\ Verdict /\ pc = "conflict" /\ Level > 0 /\ setup \in Setups
  BY DEF IInv, Shapes, Learn, TypeOK
<1>2. Learnable(learnt, lit, level) /\ Learning(learnt, lit, level)
  BY <1>1, LearnIs DEF Learning
<1>3. /\ LearntLits(learnt)[1] = lit
      /\ Len(LearntLits(learnt)) = 1 <=> learnt = {lit}
  <2> HIDE DEF learnt, lit, level
  <2> QED
    BY <1>1, <1>2, LearntLitsIs
<1>4. /\ trail' = Append(kept, Entry(lit, level, reason))
      /\ qhead' = Len(kept)
      /\ theory' \in Push(setup, Shrink(setup, theory, LitsAbove(trail, level)), lit)
  <2>1. /\ trail' = Append(kept, Entry(LearntLits(learnt)[1], level,
                                       IF Len(LearntLits(learnt)) = 1 THEN {} ELSE learnt))
        /\ qhead' = Len(kept)
        /\ theory' \in Push(setup, Shrink(setup, theory, LitsAbove(trail, level)),
                            LearntLits(learnt)[1])
    BY DEF Learn
  <2> HIDE DEF learnt, lit, level, kept
  <2> QED
    BY <1>3, <2>1
<1> HIDE DEF learnt, lit, level
<1>5. level \in Nat /\ level < Level /\ level \in Int /\ Enqueues(kept, lit, level, reason)
  BY <1>2 DEF Learnable
<1>6. TypedTrail(kept)
  BY <1>1, <1>5, TrailIsTyped, KeptTyped
<1> DEFINE th == Shrink(setup, theory, LitsAbove(trail, level))
<1>7. Reported(kept, th) /\ ~ HasConflict(th)
  BY <1>1, <1>5, ShrinkReported
<1> HIDE DEF th, kept, reason
<1>8. TypedTrail(trail')
  BY <1>1, <1>4, <1>5, <1>6, EnqueueIs
<1>9. Reported(trail', theory')
  BY <1>1, <1>4, <1>5, <1>6, <1>7, PushReported DEF th
<1> QED
  BY <1>2, <1>4, <1>6, <1>8, <1>9 DEF kept, reason

\* Restarting takes the trail back to level 0, the theory with it.
LEMMA RestartReported ==
  ASSUME IInv, Restart
  PROVE  /\ trail' = KeptUntil(trail, 0) /\ qhead' = Len(trail')
         /\ TypedTrail(trail') /\ Reported(trail', theory')
<1>1. TypeOK /\ Verdict /\ 0 \in Nat /\ 0 \in Int /\ ~ HasConflict(theory)
  BY DEF IInv, Shapes, Restart, Verdict
<1>2. /\ trail' = KeptUntil(trail, 0) /\ qhead' = Len(trail')
      /\ theory' = Shrink(setup, theory, LitsAbove(trail, 0))
  BY DEF Restart
<1>3. TypedTrail(KeptUntil(trail, 0))
  BY <1>1, TrailIsTyped, KeptTyped
<1>4. Reported(KeptUntil(trail, 0), Shrink(setup, theory, LitsAbove(trail, 0)))
  BY <1>1, ShrinkReported
<1> QED
  BY <1>2, <1>3, <1>4

\* Deciding opens a level.
LEMMA DecideReported ==
  ASSUME IInv, Decide
  PROVE  \E lit \in Literals :
           /\ Enqueues(trail, lit, Level + 1, {})
           /\ trail' = Append(trail, Entry(lit, Level + 1, {}))
           /\ TypedTrail(trail') /\ Reported(trail', theory')
<1>1. /\ TypeOK /\ Verdict /\ setup \in Setups /\ ~ HasConflict(theory)
      /\ TypedTrail(trail) /\ Reported(trail, theory)
  BY TrailIsTyped, VerdictNow DEF IInv, Shapes, Decide, Verdict, TypeOK
<1>2. PICK lit \in Literals :
        /\ ~ Assigned(trail, lit)
        /\ trail' = Append(trail, Entry(lit, Level + 1, {}))
        /\ theory' \in Push(setup, theory, lit)
  BY DEF Decide
<1>3. Enqueues(trail, lit, Level + 1, {})
  BY <1>1, <1>2, DecisionEnqueues
<1>4. TypedTrail(trail')
  BY <1>1, <1>2, <1>3, EnqueueIs
<1>5. Reported(trail', theory')
  BY <1>1, <1>2, <1>3, PushReported
<1> QED
  BY <1>2, <1>3, <1>4, <1>5

\* A unit clause's literal is enqueued and told to the theory, which is then
\* asked for a conflict.
LEMMA UnitReported ==
  ASSUME IInv, UnitFound
  PROVE  /\ Enqueues(trail, First, Level, ToSet(Visited))
         /\ trail' = Append(trail, Entry(First, Level, ToSet(Visited)))
         /\ TypedTrail(trail')
         /\ \A pushed \in Push(setup, theory, First) : Reported(trail', pushed)
<1>1. /\ TypeOK /\ Verdict /\ setup \in Setups /\ Shapes
      /\ TypedTrail(trail) /\ Reported(trail, theory)
  BY TrailIsTyped, VerdictNow DEF IInv, Shapes, TypeOK
<1>2. /\ ToInspect /\ Candidates = {} /\ ~ IsFalse(trail, First)
      /\ trail' = Append(trail, Entry(First, Level, ToSet(Visited)))
  BY DEF UnitFound
<1>3. Enqueues(trail, First, Level, ToSet(Visited))
  BY <1>1, <1>2, UnitEnqueues
<1> DEFINE lit == First
           reason == ToSet(Visited)
<1>4. Enqueues(trail, lit, Level, reason) /\ trail' = Append(trail, Entry(lit, Level, reason))
  BY <1>2, <1>3
<1> HIDE DEF lit, reason
<1>5. TypedTrail(trail')
  BY <1>1, <1>4, EnqueueIs
<1>6. ASSUME NEW pushed \in Push(setup, theory, lit) PROVE Reported(trail', pushed)
  BY <1>1, <1>4, PushReported DEF Level
<1> QED
  BY <1>4, <1>5, <1>6 DEF lit, reason

\* Every step keeps the trail and the theory together.
LEMMA ReportedStep ==
  ASSUME IInv, Next
  PROVE  /\ TypedTrail(trail') /\ Reported(trail', theory')
         /\ pc' = "decide" => ~ HasConflict(theory')
<1>1. /\ TypeOK /\ Verdict /\ TypedTrail(trail) /\ Reported(trail, theory)
  BY TrailIsTyped, VerdictNow DEF IInv, Shapes
<1>2. ASSUME trail' = trail, theory' = theory, pc' # "decide" PROVE Reported(trail', theory')
  BY <1>1, <1>2
<1>3. CASE NextLiteral
  BY <1>1, <1>2, <1>3 DEF NextLiteral
<1>4. CASE BlockerTrue
  BY <1>1, <1>2, <1>4 DEF BlockerTrue, Visiting
<1>5. CASE AssertFails
  BY <1>1, <1>2, <1>5 DEF AssertFails
<1>6. CASE FirstTrue
  BY <1>1, <1>2, <1>6 DEF FirstTrue, Inspecting, Visiting
<1>7. CASE MoveWatch
  BY <1>1, <1>2, <1>7 DEF MoveWatch, ToInspect, Inspecting, Visiting
<1>8. CASE UnitFound
  <2>1. PICK pushed \in Push(setup, theory, First) :
          /\ theory' = Checked(pushed)
          /\ pc' = pc \/ pc' = "conflict"
    BY <1>8 DEF UnitFound
  <2>2. TypedTrail(trail') /\ Reported(trail', pushed)
    BY <1>8, UnitReported
  <2>3. pc' # "decide"
    BY <1>8, <2>1 DEF UnitFound, ToInspect, Inspecting, Visiting
  <2> QED
    BY <2>1, <2>2, <2>3, CheckedReported
<1>9. CASE ClauseFalse
  BY <1>1, <1>2, <1>9 DEF ClauseFalse
<1>10. CASE ListEnds
  BY <1>1, <1>2, <1>10 DEF ListEnds
<1>11. CASE QueueEmpty
  BY <1>1, <1>11, CheckedReported DEF QueueEmpty
<1>12. CASE Learn
  BY <1>12, LearnReported DEF Learn
<1>13. CASE Restart
  BY <1>13, RestartReported DEF Restart
<1>14. CASE Decide
  BY <1>14, DecideReported DEF Decide
<1>15. CASE Stopped
  BY <1>1, <1>15 DEF Stopped, vars, Verdict
<1> QED
  BY <1>3, <1>4, <1>5, <1>6, <1>7, <1>8, <1>9, <1>10, <1>11, <1>12, <1>13, <1>14, <1>15 DEF Next

\* Every step keeps what is known of the theory's verdict.
LEMMA VerdictStep ==
  ASSUME IInv, Next
  PROVE  Verdict'
BY ReportedStep, SetupKept, VerdictNext

-----------------------------------------------------------------------------
(* Clauses and lists.                                                       *)

\* The clauses of a database are whole, and the lists refer to them.
GoodDb(d) == d \in Seq(ClausesOf) /\ \A c \in DOMAIN d : Whole(d[c])
GoodLists(w, d) ==
  /\ w \in [Literals -> Seq(Watchers)]
  /\ \A lit \in Literals : \A n \in DOMAIN w[lit] :
       /\ w[lit][n].cref \in DOMAIN d
       /\ w[lit][n].blocker \in d[w[lit][n].cref].meant

\* What a clause may consist of.
GoodLits(lits) == lits \in Seq(Literals) /\ Len(lits) > 1 /\ IsInjective(lits)

\* A clause reordered.
Relit(d, c, lits) == [d EXCEPT ![c].lits = lits]

\* Reordering a clause keeps the clauses whole and the references good.
LEMMA RelitIs ==
  ASSUME NEW d, GoodDb(d), NEW c \in DOMAIN d, NEW lits, GoodLits(lits), ToSet(lits) = d[c].meant
  PROVE  LET e == Relit(d, c, lits)
         IN /\ GoodDb(e) /\ DOMAIN e = DOMAIN d /\ Len(e) = Len(d)
            /\ e[c].lits = lits
            /\ \A x \in DOMAIN d : e[x].meant = d[x].meant /\ e[x].kind = d[x].kind
            /\ \A x \in DOMAIN d \ {c} : e[x] = d[x]
            /\ \A w : GoodLists(w, d) => GoodLists(w, e)
<1> DEFINE e == Relit(d, c, lits)
           new == [d[c] EXCEPT !.lits = lits]
<1>1. d \in Seq(ClausesOf) /\ d[c] \in ClausesOf /\ lits \in Seq(Literals)
  BY DEF GoodDb, GoodLits
<1>2. /\ new \in ClausesOf /\ new.lits = lits /\ new.meant = d[c].meant
      /\ new.kind = d[c].kind
  BY <1>1 DEF ClausesOf
<1>3. Whole(new)
  BY <1>2 DEF GoodLits, Whole
<1>4. e = [d EXCEPT ![c] = new]
  BY DEF Relit
<1> HIDE DEF e, new
<1>5. /\ e \in Seq(ClausesOf) /\ DOMAIN e = DOMAIN d /\ Len(e) = Len(d)
      /\ e[c] = new /\ \A x \in DOMAIN d \ {c} : e[x] = d[x]
  BY <1>1, <1>2, <1>4
<1>6. GoodDb(e)
  BY <1>3, <1>5 DEF GoodDb
<1>7. \A x \in DOMAIN d : e[x].meant = d[x].meant /\ e[x].kind = d[x].kind
  BY <1>2, <1>5
<1>8. \A w : GoodLists(w, d) => GoodLists(w, e)
  BY <1>5, <1>7 DEF GoodLists
<1> QED
  BY <1>2, <1>5, <1>6, <1>7, <1>8 DEF e

\* Two lists of w have got a watcher of a clause.
GetWatchers(v, w, a, b, wa, wb) ==
  /\ a \in Literals /\ b \in Literals /\ a # b
  /\ wa \in Watchers /\ wb \in Watchers
  /\ v \in [Literals -> Seq(Watchers)]
  /\ v[a] = Append(w[a], wa) /\ v[b] = Append(w[b], wb)
  /\ \A lit \in Literals \ {a, b} : v[lit] = w[lit]

\* What attachClause does to the lists (Solver.cc:223-230).
LEMMA AttachedIs ==
  ASSUME setup \in Setups, NEW w \in [Literals -> Seq(Watchers)], NEW cref \in Nat,
         NEW lits, GoodLits(lits)
  PROVE  /\ GetWatchers(Attached(w, cref, lits), w, - lits[1], - lits[2],
                        Watcher(cref, lits[2]), Watcher(cref, lits[1]))
         /\ lits[1] \in ToSet(lits) /\ lits[2] \in ToSet(lits)
<1> DEFINE a == - lits[1]
           b == - lits[2]
           wa == Watcher(cref, lits[2])
           wb == Watcher(cref, lits[1])
           v == Attached(w, cref, lits)
<1>1. 1 \in DOMAIN lits /\ 2 \in DOMAIN lits
  BY DEF GoodLits
<1>2. lits[1] \in Literals /\ lits[2] \in Literals /\ lits[1] # lits[2]
  BY <1>1 DEF GoodLits, IsInjective
<1>3. a \in Literals /\ b \in Literals /\ a # b
  <2>1. lits[1] \in Int /\ lits[2] \in Int
    BY <1>2, SetupIs
  <2> QED
    BY <1>2, <2>1, SetupIs
<1>4. wa \in Watchers /\ wb \in Watchers
  BY <1>2 DEF Watcher, Watchers
<1>5. v = [w EXCEPT ![a] = Append(w[a], wa), ![b] = Append(w[b], wb)]
  BY <1>3 DEF Attached
<1>6. lits[1] \in ToSet(lits) /\ lits[2] \in ToSet(lits)
  BY <1>1 DEF ToSet
<1> HIDE DEF a, b, wa, wb, v
<1>7. Append(w[a], wa) \in Seq(Watchers) /\ Append(w[b], wb) \in Seq(Watchers)
  BY <1>3, <1>4
<1>8. /\ v \in [Literals -> Seq(Watchers)]
      /\ v[a] = Append(w[a], wa) /\ v[b] = Append(w[b], wb)
      /\ \A lit \in Literals \ {a, b} : v[lit] = w[lit]
  BY <1>3, <1>5, <1>7
<1>9. GetWatchers(v, w, a, b, wa, wb)
  BY <1>3, <1>4, <1>8 DEF GetWatchers
<1> QED
  BY <1>6, <1>9 DEF a, b, wa, wb, v

\* A clause allocated and attached keeps the clauses whole and the references
\* good.
LEMMA AllocIs ==
  ASSUME setup \in Setups, NEW d, GoodDb(d), NEW w, GoodLists(w, d), NEW lits, GoodLits(lits),
         NEW kind \in Kinds
  PROVE  LET e == Append(d, Clause(lits, kind))
         IN /\ GoodDb(e) /\ Len(d) \in Nat /\ Len(d) + 1 \in Nat
            /\ DOMAIN e = DOMAIN d \union {Len(d) + 1} /\ Len(d) + 1 \notin DOMAIN d
            /\ e[Len(d) + 1].lits = lits /\ e[Len(d) + 1].meant = ToSet(lits)
            /\ e[Len(d) + 1].kind = kind
            /\ \A c \in DOMAIN d : e[c] = d[c]
            /\ GoodLists(Attached(w, Len(d) + 1, lits), e)
<1> DEFINE new == Clause(lits, kind)
           e == Append(d, new)
           n == Len(d) + 1
<1>1. d \in Seq(ClausesOf) /\ w \in [Literals -> Seq(Watchers)]
  BY DEF GoodDb, GoodLists
<1>2. /\ new \in ClausesOf /\ new.lits = lits /\ new.meant = ToSet(lits) /\ new.kind = kind
  BY DEF Clause, ClausesOf, GoodLits, ToSet
<1>3. Whole(new)
  BY <1>2 DEF Whole, GoodLits
<1> HIDE DEF new
<1>4. /\ e \in Seq(ClausesOf) /\ Len(d) \in Nat /\ n \in Nat
      /\ DOMAIN e = DOMAIN d \union {n} /\ n \notin DOMAIN d
      /\ e[n] = new /\ \A c \in DOMAIN d : e[c] = d[c]
  BY <1>1, <1>2
<1> HIDE DEF e, n
<1>5. GoodDb(e)
  BY <1>3, <1>4 DEF GoodDb
<1> DEFINE a == - lits[1]
           b == - lits[2]
           wa == Watcher(n, lits[2])
           wb == Watcher(n, lits[1])
           v == Attached(w, n, lits)
<1>6. /\ a \in Literals /\ b \in Literals /\ a # b
      /\ lits[1] \in ToSet(lits) /\ lits[2] \in ToSet(lits)
      /\ wa \in Watchers /\ wb \in Watchers
      /\ v \in [Literals -> Seq(Watchers)]
      /\ v[a] = Append(w[a], wa)
      /\ v[b] = Append(w[b], wb)
      /\ \A lit \in Literals \ {a, b} : v[lit] = w[lit]
  <2>1. /\ GetWatchers(v, w, a, b, wa, wb)
        /\ lits[1] \in ToSet(lits) /\ lits[2] \in ToSet(lits)
    BY <1>1, <1>4, AttachedIs
  <2> HIDE DEF a, b, wa, wb, v
  <2> QED
    BY <2>1 DEF GetWatchers
<1>7. wa.cref = n /\ wb.cref = n /\ wa.blocker = lits[2] /\ wb.blocker = lits[1]
  BY DEF Watcher
<1> HIDE DEF a, b, wa, wb, v
<1>8. ASSUME NEW lit \in Literals, NEW m \in DOMAIN v[lit]
      PROVE  v[lit][m].cref \in DOMAIN e /\ v[lit][m].blocker \in e[v[lit][m].cref].meant
  <2>1. \/ m \in DOMAIN w[lit] /\ v[lit][m] = w[lit][m]
        \/ v[lit][m] \in {wa, wb}
    <3>1. w[lit] \in Seq(Watchers)
      BY <1>1
    <3>2. ASSUME NEW x \in {wa, wb}, v[lit] = Append(w[lit], x)
          PROVE  (m \in DOMAIN w[lit] /\ v[lit][m] = w[lit][m]) \/ v[lit][m] = x
      BY <1>6, <1>8, <3>1, <3>2
    <3>3. CASE lit = a
      BY <1>6, <3>2, <3>3
    <3>4. CASE lit = b
      BY <1>6, <3>2, <3>4
    <3>5. CASE lit \notin {a, b}
      BY <1>6, <1>8, <3>5
    <3> QED
      BY <3>3, <3>4, <3>5
  <2>2. CASE m \in DOMAIN w[lit] /\ v[lit][m] = w[lit][m]
    <3>1. w[lit][m].cref \in DOMAIN d /\ w[lit][m].blocker \in d[w[lit][m].cref].meant
      BY <2>2 DEF GoodLists
    <3> QED
      BY <1>4, <2>2, <3>1
  <2>3. CASE v[lit][m] \in {wa, wb}
    BY <1>2, <1>4, <1>6, <1>7, <2>3
  <2> QED
    BY <2>1, <2>2, <2>3
<1>9. GoodLists(v, e)
  BY <1>6, <1>8 DEF GoodLists
<1> QED
  BY <1>2, <1>4, <1>5, <1>9 DEF new, e, n, v

\* The lists with a watcher written over another.
Overwritten(w, lit, n, x) == [w EXCEPT ![lit][n] = x]

\* That keeps the references good.
LEMMA OverwriteGood ==
  ASSUME NEW d, NEW w, GoodLists(w, d), NEW lit \in Literals, NEW n \in DOMAIN w[lit],
         NEW x \in Watchers, x.cref \in DOMAIN d, x.blocker \in d[x.cref].meant
  PROVE  LET list == [w[lit] EXCEPT ![n] = x]
             v == Overwritten(w, lit, n, x)
         IN /\ GoodLists(v, d) /\ v[lit] = list
            /\ list \in Seq(Watchers) /\ Len(list) = Len(w[lit]) /\ DOMAIN list = DOMAIN w[lit]
            /\ list[n] = x /\ \A m \in DOMAIN w[lit] \ {n} : list[m] = w[lit][m]
            /\ \A other \in Literals \ {lit} : v[other] = w[other]
<1> DEFINE list == [w[lit] EXCEPT ![n] = x]
           v == Overwritten(w, lit, n, x)
<1>1. w \in [Literals -> Seq(Watchers)] /\ w[lit] \in Seq(Watchers)
  BY DEF GoodLists
<1>2. /\ list \in Seq(Watchers) /\ Len(list) = Len(w[lit]) /\ DOMAIN list = DOMAIN w[lit]
      /\ list[n] = x /\ \A m \in DOMAIN w[lit] \ {n} : list[m] = w[lit][m]
  BY <1>1
<1>3. v = [w EXCEPT ![lit] = list]
  BY DEF Overwritten
<1> HIDE DEF list, v
<1>4. /\ v \in [Literals -> Seq(Watchers)] /\ v[lit] = list
      /\ \A other \in Literals \ {lit} : v[other] = w[other]
  BY <1>1, <1>2, <1>3
<1>5. GoodLists(v, d)
  BY <1>2, <1>4 DEF GoodLists
<1> QED
  BY <1>2, <1>4, <1>5 DEF list, v

\* A list of which every element was in another one.
Sublist(cut, list) ==
  /\ cut \in Seq(Watchers)
  /\ \A n \in DOMAIN cut : \E m \in DOMAIN list : cut[n] = list[m]

\* A list whose elements were in it before keeps the references good.
LEMMA SublistGood ==
  ASSUME NEW d, NEW w, GoodLists(w, d), NEW lit \in Literals, NEW list, Sublist(list, w[lit])
  PROVE  LET v == [w EXCEPT ![lit] = list]
         IN /\ GoodLists(v, d) /\ v[lit] = list
            /\ \A other \in Literals \ {lit} : v[other] = w[other]
<1> DEFINE v == [w EXCEPT ![lit] = list]
<1>1. w \in [Literals -> Seq(Watchers)]
  BY DEF GoodLists
<1>2. /\ v \in [Literals -> Seq(Watchers)] /\ v[lit] = list
      /\ \A other \in Literals \ {lit} : v[other] = w[other]
  BY <1>1 DEF Sublist
<1> HIDE DEF v
<1>3. ASSUME NEW x \in Literals, NEW n \in DOMAIN v[x]
      PROVE  v[x][n].cref \in DOMAIN d /\ v[x][n].blocker \in d[v[x][n].cref].meant
  <2>1. PICK m \in DOMAIN w[x] : v[x][n] = w[x][m]
    BY <1>2, <1>3 DEF Sublist
  <2> QED
    BY <2>1 DEF GoodLists
<1>4. GoodLists(v, d)
  BY <1>2, <1>3 DEF GoodLists
<1> QED
  BY <1>2, <1>4 DEF v

\* A list without what was between two of its places.
Compacted(cut, list, from, to) ==
  /\ DOMAIN cut = 1 .. Len(list) - (from - to)
  /\ \A n \in 1 .. to - 1 : cut[n] = list[n]
  /\ \A n \in to .. Len(list) - (from - to) : cut[n] = list[n + (from - to)]

\* What the compaction of a list leaves (Solver.cc:668-671, vec::shrink).
LEMMA CompactIs ==
  ASSUME NEW list \in Seq(Watchers), NEW from \in Nat, NEW to \in Nat, NEW last \in Nat,
         1 <= to, to <= from, from <= Len(list) + 1, last <= Len(list)
  PROVE  LET cut == Shrunk(CopiedDown(list, from, to, last), from, to)
         IN /\ Sublist(cut, list)
            /\ last = Len(list) => Compacted(cut, list, from, to)
            /\ from = to => cut = list
<1> DEFINE S == Watchers
           copied == CopiedDown(list, from, to, last)
           cut == Shrunk(copied, from, to)
<1>1. Len(list) \in Nat /\ DOMAIN list = 1 .. Len(list)
  OBVIOUS
<1>2. copied = [n \in DOMAIN list |->
                  IF n \in to .. to + last - from THEN list[n + from - to] ELSE list[n]]
  BY DEF CopiedDown
<1> HIDE DEF copied
<1>3. \A n \in DOMAIN list : n \in to .. to + last - from => n + from - to \in DOMAIN list
  BY <1>1
<1>4. copied \in Seq(S) /\ Len(copied) = Len(list) /\ DOMAIN copied = DOMAIN list
  <2>1. \A n \in 1 .. Len(list) :
          (IF n \in to .. to + last - from THEN list[n + from - to] ELSE list[n]) \in S
    BY <1>1, <1>3
  <2> QED
    BY <1>1, <1>2, <2>1
<1>5. \A n \in DOMAIN list : \E m \in DOMAIN list : copied[n] = list[m]
  BY <1>2, <1>3
<1> DEFINE k == Len(list) - (from - to)
<1>6. k \in 0 .. Len(list) /\ k \in Nat
  BY <1>1
<1>7. cut = SubSeq(copied, 1, k)
  BY <1>4 DEF Shrunk
<1> HIDE DEF cut
<1>8. cut \in Seq(S) /\ Len(cut) = k /\ DOMAIN cut = 1 .. k /\ \A n \in 1 .. k : cut[n] = copied[n]
  <2> HIDE DEF k
  <2> QED
    BY <1>1, <1>4, <1>6, <1>7
<1>9. \A n \in DOMAIN cut : \E m \in DOMAIN list : cut[n] = list[m]
  <2>1. \A n \in 1 .. k : n \in DOMAIN list
    BY <1>1, <1>6
  <2> QED
    BY <1>5, <1>8, <2>1
<1>10. ASSUME last = Len(list)
       PROVE  /\ \A n \in 1 .. to - 1 : cut[n] = list[n]
              /\ \A n \in to .. k : cut[n] = list[n + (from - to)]
  <2>1. ASSUME NEW n \in 1 .. to - 1 PROVE cut[n] = list[n]
    <3>1. n \in 1 .. k /\ n \in DOMAIN list /\ n \notin to .. to + last - from
      BY <1>1, <1>6
    <3> QED
      BY <1>2, <1>8, <3>1
  <2>2. ASSUME NEW n \in to .. k PROVE cut[n] = list[n + (from - to)]
    <3>1. n \in 1 .. k /\ n \in DOMAIN list /\ n \in to .. to + last - from
      BY <1>1, <1>6, <1>10
    <3>2. n + from - to = n + (from - to)
      BY <3>1
    <3> QED
      BY <1>2, <1>8, <3>1, <3>2
  <2> QED
    BY <2>1, <2>2
<1>11. ASSUME from = to PROVE cut = list
  <2>1. k = Len(list)
    BY <1>1, <1>11
  <2>2. \A n \in 1 .. Len(list) : n + from - to = n
    BY <1>11
  <2>3. \A n \in DOMAIN list : copied[n] = list[n]
    BY <1>1, <1>2, <2>2
  <2>4. DOMAIN cut = DOMAIN list /\ \A n \in DOMAIN list : cut[n] = list[n]
    BY <1>1, <1>8, <2>1, <2>3
  <2> QED
    BY <1>8, <2>4
<1>12. Sublist(cut, list)
  BY <1>8, <1>9 DEF Sublist
<1>13. last = Len(list) => Compacted(cut, list, from, to)
  BY <1>8, <1>10 DEF Compacted
<1> QED
  BY <1>11, <1>12, <1>13 DEF cut, copied

\* A list read with other clauses, of which the same ones watch its literal.
LEMMA ExactlySame ==
  ASSUME NEW list, NEW live, NEW lit, NEW d, NEW e, Exactly(list, live, lit, d),
         \A n \in live : list[n].cref \in DOMAIN d,
         DOMAIN e = DOMAIN d,
         \A c \in DOMAIN d : lit \in Watching(e[c]) <=> lit \in Watching(d[c])
  PROVE  Exactly(list, live, lit, e)
<1>1. \A n \in live : lit \in Watching(e[list[n].cref])
  BY DEF Exactly
<1>2. \A c \in DOMAIN e : lit \in Watching(e[c]) => \E n \in live : list[n].cref = c
  BY DEF Exactly
<1> QED
  BY <1>1, <1>2 DEF Exactly

\* A list whose live places have moved.
LEMMA ExactlyMoved ==
  ASSUME NEW list, NEW live, NEW lit, NEW d, Exactly(list, live, lit, d),
         NEW list2, NEW live2, NEW f \in [live2 -> live],
         \A n \in live2 : list2[n].cref = list[f[n]].cref,
         \A m, n \in live2 : f[m] = f[n] => m = n,
         \A m \in live : \E n \in live2 : f[n] = m
  PROVE  Exactly(list2, live2, lit, d)
<1>1. \A n \in live2 : lit \in Watching(d[list2[n].cref])
  BY DEF Exactly
<1>2. \A m, n \in live2 : list2[m].cref = list2[n].cref => m = n
  <2> TAKE m, n \in live2
  <2>1. f[m] \in live /\ f[n] \in live
    OBVIOUS
  <2> QED
    BY <2>1 DEF Exactly
<1>3. \A c \in DOMAIN d : lit \in Watching(d[c]) => \E n \in live2 : list2[n].cref = c
  <2> SUFFICES ASSUME NEW c \in DOMAIN d, lit \in Watching(d[c])
               PROVE  \E n \in live2 : list2[n].cref = c
    OBVIOUS
  <2>1. PICK m \in live : list[m].cref = c
    BY DEF Exactly
  <2>2. PICK n \in live2 : f[n] = m
    OBVIOUS
  <2> QED
    BY <2>1, <2>2
<1> QED
  BY <1>1, <1>2, <1>3 DEF Exactly

\* A list that loses a clause which no longer watches its literal, or that
\* does not get a new one.
LEMMA ExactlyWithout ==
  ASSUME NEW list, NEW live, NEW lit, NEW d, NEW e, NEW c, Exactly(list, live, lit, d),
         \A n \in live : list[n].cref \in DOMAIN d,
         DOMAIN e = DOMAIN d \union {c}, lit \notin Watching(e[c]),
         \A x \in DOMAIN d \ {c} : lit \in Watching(e[x]) <=> lit \in Watching(d[x]),
         NEW live2, live2 = {n \in live : list[n].cref # c}
  PROVE  Exactly(list, live2, lit, e)
<1>1. \A n \in live2 : lit \in Watching(e[list[n].cref])
  BY DEF Exactly
<1>2. \A m, n \in live2 : list[m].cref = list[n].cref => m = n
  BY DEF Exactly
<1>3. \A x \in DOMAIN e : lit \in Watching(e[x]) => \E n \in live2 : list[n].cref = x
  <2> SUFFICES ASSUME NEW x \in DOMAIN e, lit \in Watching(e[x])
               PROVE  \E n \in live2 : list[n].cref = x
    OBVIOUS
  <2>1. x # c /\ x \in DOMAIN d /\ lit \in Watching(d[x])
    OBVIOUS
  <2>2. PICK n \in live : list[n].cref = x
    BY <2>1 DEF Exactly
  <2> QED
    BY <2>1, <2>2
<1> QED
  BY <1>1, <1>2, <1>3 DEF Exactly

\* A list that gets a clause which did not watch its literal before.
LEMMA ExactlyWith ==
  ASSUME NEW list, NEW live, NEW lit, NEW d, NEW e, NEW c, Exactly(list, live, lit, d),
         \A n \in live : list[n].cref \in DOMAIN d /\ list[n].cref # c,
         DOMAIN e = DOMAIN d \union {c}, lit \in Watching(e[c]),
         \A x \in DOMAIN d \ {c} : lit \in Watching(e[x]) <=> lit \in Watching(d[x]),
         NEW list2, NEW m, m \notin live, list2[m].cref = c,
         \A n \in live : list2[n] = list[n],
         NEW live2, live2 = live \union {m}
  PROVE  Exactly(list2, live2, lit, e)
<1>1. \A n \in live2 : lit \in Watching(e[list2[n].cref])
  BY DEF Exactly
<1>2. \A k, n \in live2 : list2[k].cref = list2[n].cref => k = n
  BY DEF Exactly
<1>3. \A x \in DOMAIN e : lit \in Watching(e[x]) => \E n \in live2 : list2[n].cref = x
  <2> SUFFICES ASSUME NEW x \in DOMAIN e, lit \in Watching(e[x])
               PROVE  \E n \in live2 : list2[n].cref = x
    OBVIOUS
  <2>1. CASE x = c
    BY <2>1
  <2>2. CASE x # c
    <3>1. x \in DOMAIN d /\ lit \in Watching(d[x])
      BY <2>2
    <3>2. PICK n \in live : list[n].cref = x
      BY <3>1 DEF Exactly
    <3> QED
      BY <3>2
  <2> QED
    BY <2>1, <2>2
<1> QED
  BY <1>1, <1>2, <1>3 DEF Exactly

\* Lists without stale places.
AllExact(w, d) == \A lit \in Literals : Exactly(w[lit], DOMAIN w[lit], lit, d)

\* Attaching a new clause keeps the lists exact (attachClause).
LEMMA AttachExact ==
  ASSUME setup \in Setups, NEW d, GoodDb(d), NEW w, GoodLists(w, d), AllExact(w, d),
         NEW lits, GoodLits(lits), NEW kind \in Kinds
  PROVE  AllExact(Attached(w, Len(d) + 1, lits), Append(d, Clause(lits, kind)))
<1> DEFINE e == Append(d, Clause(lits, kind))
           n == Len(d) + 1
           a == - lits[1]
           b == - lits[2]
           wa == Watcher(n, lits[2])
           wb == Watcher(n, lits[1])
           v == Attached(w, n, lits)
<1>1. /\ DOMAIN e = DOMAIN d \union {n} /\ n \notin DOMAIN d /\ n \in Nat
      /\ e[n].lits = lits
      /\ \A c \in DOMAIN d : e[c] = d[c]
  BY AllocIs
<1>2. w \in [Literals -> Seq(Watchers)]
  BY DEF GoodLists
<1>3. GetWatchers(v, w, a, b, wa, wb)
  BY <1>1, <1>2, AttachedIs
<1>4. Watching(e[n]) = {a, b} /\ wa.cref = n /\ wb.cref = n
  BY <1>1 DEF Watching, Watcher
<1> HIDE DEF e, n, a, b, wa, wb, v
<1> SUFFICES ASSUME NEW lit \in Literals PROVE Exactly(v[lit], DOMAIN v[lit], lit, e)
  BY DEF AllExact, e, n, v
<1>5. /\ Exactly(w[lit], DOMAIN w[lit], lit, d)
      /\ \A k \in DOMAIN w[lit] : w[lit][k].cref \in DOMAIN d /\ w[lit][k].cref # n
      /\ w[lit] \in Seq(Watchers)
  BY <1>1, <1>2 DEF AllExact, GoodLists
<1>6. \A x \in DOMAIN d \ {n} : lit \in Watching(e[x]) <=> lit \in Watching(d[x])
  BY <1>1
<1>7. ASSUME NEW x \in Watchers, x.cref = n, v[lit] = Append(w[lit], x), lit \in {a, b}
      PROVE  Exactly(v[lit], DOMAIN v[lit], lit, e)
  <2> DEFINE m == Len(w[lit]) + 1
  <2>1. /\ DOMAIN v[lit] = DOMAIN w[lit] \union {m} /\ m \notin DOMAIN w[lit]
        /\ v[lit][m] = x /\ \A k \in DOMAIN w[lit] : v[lit][k] = w[lit][k]
    BY <1>5, <1>7
  <2> HIDE DEF m
  <2>2. v[lit][m].cref = n /\ lit \in Watching(e[n])
    BY <1>4, <1>7, <2>1
  <2> QED
    BY <1>1, <1>5, <1>6, <2>1, <2>2, ExactlyWith
<1>8. CASE lit \notin {a, b}
  <2>1. v[lit] = w[lit] /\ lit \notin Watching(e[n])
    BY <1>3, <1>4, <1>8 DEF GetWatchers
  <2>2. DOMAIN w[lit] = {k \in DOMAIN w[lit] : w[lit][k].cref # n}
    BY <1>5
  <2> QED
    BY <1>1, <1>5, <1>6, <2>1, <2>2, ExactlyWithout
<1>9. CASE lit = a
  BY <1>3, <1>4, <1>7, <1>9 DEF GetWatchers
<1>10. CASE lit = b
  BY <1>3, <1>4, <1>7, <1>10 DEF GetWatchers
<1> QED
  BY <1>8, <1>9, <1>10

-----------------------------------------------------------------------------
(* Literals guarded by others.                                              *)

\* Where a literal stands on a trail.
LEMMA PlaceIs ==
  ASSUME setup \in Setups, NEW t, TypedTrail(t), NEW x \in Literals
  PROVE  /\ IsTrue(t, x) => \E n \in DOMAIN t : t[n].lit = x
         /\ IsFalse(t, x) => \E n \in DOMAIN t : t[n].lit = - x
         /\ \A n \in DOMAIN t : t[n].lit = x \/ t[n].lit = - x =>
              EntryOf(t, x) = n /\ LevelOf(t, x) = t[n].level
<1>1. IsTrail(t) /\ x \in Int
  BY SetupIs DEF TypedTrail
<1>2. ASSUME NEW n \in DOMAIN t, t[n].lit = x \/ t[n].lit = - x
      PROVE  EntryOf(t, x) = n /\ LevelOf(t, x) = t[n].level
  <2>1. Var(x) = Var(t[n].lit)
    BY <1>1, <1>2 DEF Var
  <2> QED
    BY <1>1, <2>1, EntryIs
<1> QED
  BY <1>2 DEF IsTrue, IsFalse

\* A guard stays one on any trail that has the same entries for the two
\* literals.
LEMMA GuardedSame ==
  ASSUME setup \in Setups, NEW t, TypedTrail(t), NEW u, TypedTrail(u), NEW level \in Int,
         \A n \in DOMAIN t : t[n].level <= level => n \in DOMAIN u /\ u[n] = t[n],
         NEW clause, clause.meant \subseteq Literals, NEW lit \in Literals,
         IsFalse(t, lit), LevelOf(t, lit) <= level
  PROVE  /\ EntryOf(u, lit) = EntryOf(t, lit) /\ EntryOf(t, lit) \in DOMAIN t
         /\ LevelOf(u, lit) = LevelOf(t, lit)
         /\ Guarded(t, clause, lit) => Guarded(u, clause, lit)
<1>1. PICK n \in DOMAIN t : t[n].lit = - lit
  BY PlaceIs
<1>2. EntryOf(t, lit) = n /\ LevelOf(t, lit) = t[n].level
  BY <1>1, PlaceIs
<1>3. n \in DOMAIN u /\ u[n] = t[n]
  BY <1>2
<1>4. EntryOf(u, lit) = n /\ LevelOf(u, lit) = t[n].level
  BY <1>1, <1>3, PlaceIs
<1>5. ASSUME NEW x \in clause.meant, IsTrue(t, x), LevelOf(t, x) <= LevelOf(t, lit)
      PROVE  IsTrue(u, x) /\ LevelOf(u, x) <= LevelOf(u, lit)
  <2>1. x \in Literals
    OBVIOUS
  <2>2. PICK m \in DOMAIN t : t[m].lit = x
    BY <1>5, <2>1, PlaceIs
  <2>3. LevelOf(t, x) = t[m].level
    BY <2>1, <2>2, PlaceIs
  <2>4. t[m].level \in Int /\ t[n].level \in Int
    BY TrailTypes DEF TypedTrail
  <2>5. m \in DOMAIN u /\ u[m] = t[m]
    BY <1>2, <1>5, <2>3, <2>4
  <2>6. LevelOf(u, x) = t[m].level
    BY <2>1, <2>2, <2>5, PlaceIs
  <2> QED
    BY <1>2, <1>4, <1>5, <2>2, <2>3, <2>5, <2>6 DEF IsTrue
<1>6. Guarded(t, clause, lit) => Guarded(u, clause, lit)
  BY <1>5 DEF Guarded
<1> QED
  BY <1>1, <1>2, <1>4, <1>6

-----------------------------------------------------------------------------
(* Steps: what all of them have to keep.                                    *)

\* The invariant of the next state but for the theory and the types of the
\* trail.
Preserved ==
  /\ GoodDb(db') /\ GoodLists(watches', db')
  /\ pc' \in Phases /\ qhead' \in 0 .. Len(trail')
  /\ confl' \subseteq Literals /\ clobbered' \in BOOLEAN
  /\ Pointers' /\ Fresh' /\ Conflicting' /\ Lists' /\ Propagated'

\* The invariant in terms of clauses and lists.
LEMMA Facts ==
  ASSUME IInv
  PROVE  /\ setup \in Setups /\ TypeOK /\ Shapes
         /\ GoodDb(db) /\ GoodLists(watches, db)
         /\ TypedTrail(trail) /\ Level \in Nat /\ Len(trail) \in Nat
         /\ DOMAIN trail = 1 .. Len(trail) /\ qhead \in 0 .. Len(trail)
         /\ confl \subseteq Literals /\ clobbered \in BOOLEAN /\ pc \in Phases
         /\ Level = DecisionLevel(trail)
         /\ \A n \in DOMAIN trail : /\ trail[n].level \in Nat /\ trail[n].level <= Level
                                    /\ trail[n].lit \in Literals
<1>1. Shapes /\ TypeOK
  BY DEF IInv, Shapes
<1>2. GoodDb(db) /\ GoodLists(watches, db)
  BY <1>1 DEF Shapes, References, TypeOK, GoodDb, GoodLists
<1> QED
  BY <1>1, <1>2, TrailIsTyped DEF TypeOK, Level

\* The invariant of the next state, put together.
LEMMA InvNext ==
  ASSUME IInv, Next, Preserved
  PROVE  IInv'
<1>1. setup' = setup /\ Literals' = Literals /\ setup \in Setups
  BY SetupKept, Facts
<1>2. TypedTrail(trail') /\ Reported(trail', theory') /\ Verdict'
  BY ReportedStep, VerdictStep
<1>3. TypeOK'
  BY <1>1, <1>2 DEF Preserved, TypeOK, TypedTrail, Reported, GoodDb, GoodLists, ClausesOf, Watchers,
                    EntriesOf, Theories
<1>4. References' /\ \A c \in DOMAIN db' : Whole(db'[c])
  BY <1>1 DEF Preserved, GoodDb, GoodLists, References
<1>5. Shapes'
  BY <1>3, <1>4 DEF Preserved, Shapes
<1> QED
  BY <1>2, <1>5 DEF IInv, Preserved

\* Lists in the next state, outside a visit and in one.
LEMMA ListsNext ==
  ASSUME Literals' = Literals,
         ~ clobbered' =>
           IF pc' = "visit"
           THEN \A lit \in Literals :
                  Exactly(watches'[lit],
                          IF lit = p' THEN 1 .. j' - 1 \union i' .. end' ELSE DOMAIN watches'[lit],
                          lit, db')
           ELSE AllExact(watches', db')
  PROVE  Lists'
BY DEF Lists, Live, AllExact

\* Lists outside a visit.
LEMMA ListsOutside ==
  ASSUME Lists, ~ clobbered, pc # "visit"
  PROVE  AllExact(watches, db)
BY DEF Lists, Live, AllExact

\* Lists in a visit.
LEMMA ListsInside ==
  ASSUME Lists, ~ clobbered, pc = "visit"
  PROVE  /\ p \in Literals => Exactly(watches[p], 1 .. j - 1 \union i .. end, p, db)
         /\ \A lit \in Literals \ {p} : Exactly(watches[lit], DOMAIN watches[lit], lit, db)
BY DEF Lists, Live

\* Clauses that watch the same literals.
SameClauses(d, e) ==
  /\ DOMAIN e = DOMAIN d
  /\ \A c \in DOMAIN d :
       /\ Watching(e[c]) = Watching(d[c])
       /\ {e[c].lits[1], e[c].lits[2]} = {d[c].lits[1], d[c].lits[2]}
       /\ e[c].meant = d[c].meant /\ e[c].kind = d[c].kind

\* The clause of a watcher with its false literal put in second place.
LEMMA VisitedIs ==
  ASSUME IInv, Visiting
  PROVE  LET e == [db EXCEPT ![Reading.cref].lits = Visited]
         IN /\ SameClauses(db, e) /\ GoodDb(e) /\ GoodLists(watches, e)
            /\ e[Reading.cref].lits = Visited
            /\ \A w : GoodLists(w, db) => GoodLists(w, e)
            /\ GoodLits(Visited)
<1> DEFINE c == Reading.cref
           e == Relit(db, c, Visited)
<1>1. /\ GoodDb(db) /\ GoodLists(watches, db) /\ c \in DOMAIN db /\ GoodLits(Visited)
      /\ ToSet(Visited) = db[c].meant
      /\ {Visited[1], Visited[2]} = {db[c].lits[1], db[c].lits[2]}
  BY Facts, VisitIs DEF GoodLits
<1> HIDE DEF c
<1>2. /\ GoodDb(e) /\ DOMAIN e = DOMAIN db
      /\ e[c].lits = Visited
      /\ \A x \in DOMAIN db : e[x].meant = db[x].meant /\ e[x].kind = db[x].kind
      /\ \A x \in DOMAIN db \ {c} : e[x] = db[x]
      /\ \A w : GoodLists(w, db) => GoodLists(w, e)
  BY <1>1, RelitIs
<1> DEFINE watched(x) == {x.lits[1], x.lits[2]}
<1>3. e = [db EXCEPT ![c].lits = Visited]
  BY DEF Relit
<1> HIDE DEF e
<1>4. \A x \in DOMAIN db : watched(e[x]) = watched(db[x])
  BY <1>1, <1>2
<1>5. ASSUME NEW x, NEW y, watched(x) = watched(y) PROVE Watching(x) = Watching(y)
  <2>1. \/ x.lits[1] = y.lits[1] /\ x.lits[2] = y.lits[2]
        \/ x.lits[1] = y.lits[2] /\ x.lits[2] = y.lits[1]
    BY <1>5
  <2> QED
    BY <2>1 DEF Watching
<1>6. SameClauses(db, e)
  BY <1>2, <1>4, <1>5 DEF SameClauses
<1>7. [db EXCEPT ![Reading.cref].lits = Visited] = e
  BY <1>3 DEF c
<1>8. e[Reading.cref].lits = Visited
  BY <1>2 DEF c
<1>9. GoodDb(e) /\ GoodLists(watches, e) /\ \A w : GoodLists(w, db) => GoodLists(w, e)
  BY <1>1, <1>2
<1> QED
  BY <1>1, <1>6, <1>7, <1>8, <1>9

\* What is watched and what that means.
LEMMA WatchedIs ==
  ASSUME setup \in Setups, NEW d, GoodDb(d), NEW c \in DOMAIN d
  PROVE  /\ d[c] \in ClausesOf /\ d[c].meant \in SUBSET Literals
         /\ \A lit \in {d[c].lits[1], d[c].lits[2]} :
              lit \in Literals /\ lit \in d[c].meant /\ - lit \in Watching(d[c])
         /\ \A lit \in Watching(d[c]) : lit \in Literals /\ - lit \in {d[c].lits[1], d[c].lits[2]}
         /\ d[c].lits[1] # d[c].lits[2]
<1>1. d[c] \in ClausesOf /\ Whole(d[c])
  BY DEF GoodDb
<1>2. /\ d[c].lits \in Seq(Literals) /\ Len(d[c].lits) > 1 /\ d[c].meant \in SUBSET Literals
  BY <1>1 DEF ClausesOf, Whole
<1>3. 1 \in DOMAIN d[c].lits /\ 2 \in DOMAIN d[c].lits
  BY <1>2
<1>4. d[c].lits[1] \in Literals /\ d[c].lits[2] \in Literals
  BY <1>2, <1>3
<1>5. d[c].lits[1] \in d[c].meant /\ d[c].lits[2] \in d[c].meant
  BY <1>1, <1>3 DEF Whole, ToSet
<1>6. d[c].lits[1] # d[c].lits[2]
  BY <1>1, <1>3 DEF Whole, IsInjective
<1>7. \A lit \in Watching(d[c]) : lit \in Literals /\ - lit \in {d[c].lits[1], d[c].lits[2]}
  BY <1>4, SetupIs DEF Watching
<1> QED
  BY <1>1, <1>2, <1>4, <1>5, <1>6, <1>7 DEF Watching

-----------------------------------------------------------------------------
(* Steps: which false literals are known.                                   *)

\* What the invariant says of a false literal that is watched, on a trail that
\* keeps its entry and those below it.
LEMMA WasKnown ==
  ASSUME IInv, ~ clobbered, NEW u, TypedTrail(u), NEW level \in Int,
         \A n \in DOMAIN trail : trail[n].level <= level => n \in DOMAIN u /\ u[n] = trail[n],
         NEW c \in DOMAIN db, db[c].kind # "lemma", NEW lit \in {db[c].lits[1], db[c].lits[2]},
         NEW n \in DOMAIN trail, trail[n].lit = - lit, trail[n].level <= level
  PROVE  \/ n > qhead
         \/ pc = "visit" /\ lit = - p /\ \E m \in i .. end : watches[p][m].cref = c
         \/ pc = "conflict" /\ trail[n].level = Level
         \/ Guarded(u, db[c], lit)
<1>1. setup \in Setups /\ TypedTrail(trail) /\ GoodDb(db)
  BY Facts
<1>2. lit \in Literals /\ db[c].meant \in SUBSET Literals
  BY <1>1, WatchedIs
<1>3. /\ EntryOf(trail, lit) = n /\ LevelOf(trail, lit) = trail[n].level
      /\ IsFalse(trail, lit)
  BY <1>1, <1>2, PlaceIs DEF IsFalse, IsTrue
<1>4. Guarded(trail, db[c], lit) => Guarded(u, db[c], lit)
  BY <1>1, <1>2, <1>3, GuardedSame
<1>5. Pending(c, lit) \/ Guarded(trail, db[c], lit)
  BY <1>3 DEF IInv, Propagated
<1> QED
  BY <1>3, <1>4, <1>5 DEF Pending

\* A clause is guarded as well on the same grounds when it was reordered.
LEMMA GuardedMeant ==
  ASSUME NEW t, NEW lit, NEW x, NEW y, x.meant = y.meant
  PROVE  Guarded(t, x, lit) <=> Guarded(t, y, lit)
BY DEF Guarded

\* What has to be known of the false literals of the next state.
LEMMA PropagatedNext ==
  ASSUME setup \in Setups, Literals' = Literals, TypedTrail(trail'), GoodDb(db'),
         ~ clobbered' =>
           \A c \in DOMAIN db' : db'[c].kind # "lemma" =>
             \A lit \in {db'[c].lits[1], db'[c].lits[2]} : \A n \in DOMAIN trail' :
               trail'[n].lit = - lit =>
                 \/ n > qhead'
                 \/ pc' = "visit" /\ lit = - p' /\ \E m \in i' .. end' : watches'[p'][m].cref = c
                 \/ pc' = "conflict" /\ trail'[n].level = DecisionLevel(trail')
                 \/ Guarded(trail', db'[c], lit)
  PROVE  Propagated'
<1> SUFFICES ASSUME ~ clobbered', NEW c \in DOMAIN db', db'[c].kind # "lemma",
                    NEW lit \in {db'[c].lits[1], db'[c].lits[2]}, IsFalse(trail', lit)
             PROVE  Pending(c, lit)' \/ Guarded(trail', db'[c], lit)
  BY DEF Propagated
<1>1. lit \in Literals
  BY WatchedIs
<1>2. PICK n \in DOMAIN trail' : trail'[n].lit = - lit
  BY <1>1, PlaceIs
<1>3. EntryOf(trail', lit) = n /\ LevelOf(trail', lit) = trail'[n].level
  BY <1>1, <1>2, PlaceIs
<1> QED
  BY <1>2, <1>3 DEF Pending, Level

-----------------------------------------------------------------------------
(* Steps: the watcher goes back into the list.                              *)

\* The trail as it was, with more entries of the current level perhaps.
Extends(u) ==
  /\ TypedTrail(u) /\ DecisionLevel(u) = Level
  /\ \A n \in DOMAIN trail : n \in DOMAIN u /\ u[n] = trail[n]
  /\ \A n \in DOMAIN u : n \notin DOMAIN trail => n > qhead /\ u[n].level = Level

\* A step that writes the watcher read back at j.
Keeping(x) ==
  /\ Visiting /\ Keep(x)
  /\ x \in Watchers /\ x.cref = Reading.cref /\ x.blocker \in db[x.cref].meant
  /\ SameClauses(db, db') /\ GoodDb(db') /\ (\A w : GoodLists(w, db) => GoodLists(w, db'))
  /\ Extends(trail')
  /\ setup' = setup /\ Literals' = Literals /\ pc' = pc /\ qhead' = qhead
  /\ confl' = confl /\ clobbered' = clobbered

\* The lists with a watcher written at j.
WrittenBack(x) == [watches EXCEPT ![p][j] = x]

\* The lists after a watcher of the clause read was written at j.
LEMMA WrittenIs ==
  ASSUME IInv, Visiting,
         NEW x \in Watchers, x.cref = Reading.cref, x.blocker \in db[Reading.cref].meant
  PROVE  LET w == WrittenBack(x)
         IN /\ GoodLists(w, db)
            /\ w[p] = [watches[p] EXCEPT ![j] = x]
            /\ w[p] \in Seq(Watchers) /\ Len(w[p]) = Len(watches[p])
            /\ w[p][j] = x
            /\ \A n \in DOMAIN watches[p] \ {j} : w[p][n] = watches[p][n]
            /\ \A other \in Literals \ {p} : w[other] = watches[other]
<1>1. /\ watches[p] \in Seq(Watchers) /\ j \in DOMAIN watches[p] /\ p \in Literals
      /\ Reading.cref \in DOMAIN db
  BY Facts, VisitIs
<1>2. /\ GoodLists(watches, db) /\ p \in Literals /\ j \in DOMAIN watches[p]
      /\ x \in Watchers /\ x.cref \in DOMAIN db /\ x.blocker \in db[x.cref].meant
  BY <1>1, Facts
<1> DEFINE v == Overwritten(watches, p, j, x)
<1>3. /\ GoodLists(v, db) /\ v[p] = [watches[p] EXCEPT ![j] = x]
      /\ v[p] \in Seq(Watchers) /\ Len(v[p]) = Len(watches[p])
      /\ v[p][j] = x
      /\ \A n \in DOMAIN watches[p] \ {j} : v[p][n] = watches[p][n]
      /\ \A other \in Literals \ {p} : v[other] = watches[other]
  BY <1>2, OverwriteGood
<1>4. v = WrittenBack(x)
  BY DEF WrittenBack, Overwritten
<1> HIDE DEF v
<1> QED
  BY <1>3, <1>4

\* The watcher at j stands for the one at i: the list stays exact.
LEMMA WrittenExactly ==
  ASSUME IInv, ~ clobbered, Visiting,
         NEW x \in Watchers, x.cref = Reading.cref, x.blocker \in db[Reading.cref].meant
  PROVE  LET w == WrittenBack(x)
         IN /\ Exactly(w[p], 1 .. (j + 1) - 1 \union i + 1 .. end, p, db)
            /\ \A lit \in Literals \ {p} : Exactly(w[lit], DOMAIN w[lit], lit, db)
<1> DEFINE w == WrittenBack(x)
           live == 1 .. j - 1 \union i .. end
           live2 == 1 .. (j + 1) - 1 \union i + 1 .. end
           f == [n \in live2 |-> IF n = j THEN i ELSE n]
<1>1. /\ p \in Literals /\ i \in Nat /\ j \in Nat /\ end \in Nat /\ pc = "visit"
      /\ 1 <= j /\ j <= i /\ i <= end /\ end = Len(watches[p])
  BY DEF IInv, Shapes, Pointers, Visiting
<1>2. /\ Exactly(watches[p], live, p, db)
      /\ \A lit \in Literals \ {p} : Exactly(watches[lit], DOMAIN watches[lit], lit, db)
  BY <1>1, ListsInside DEF IInv
<1>3. f \in [live2 -> live]
  BY <1>1
<1>4. \A m, n \in live2 : f[m] = f[n] => m = n
  BY <1>1
<1>5. ASSUME NEW m \in live PROVE \E n \in live2 : f[n] = m
  <2>1. CASE m = i
    <3>1. j \in live2 /\ f[j] = i
      BY <1>1
    <3> QED
      BY <2>1, <3>1
  <2>2. CASE m # i
    <3>1. m \in live2 /\ m # j
      BY <1>1, <2>2
    <3>2. f[m] = m
      BY <3>1
    <3> QED
      BY <3>1, <3>2
  <2> QED
    BY <2>1, <2>2
<1>6. /\ w[p][j] = x
      /\ \A n \in DOMAIN watches[p] \ {j} : w[p][n] = watches[p][n]
      /\ \A other \in Literals \ {p} : w[other] = watches[other]
  BY WrittenIs
<1>7. \A n \in live2 : w[p][n].cref = watches[p][f[n]].cref
  <2> TAKE n \in live2
  <2>1. n \in DOMAIN watches[p]
    <3>1. DOMAIN watches[p] = 1 .. end
      BY <1>1, Facts, VisitIs
    <3> QED
      BY <1>1, <3>1
  <2>2. CASE n = j
    BY <1>6, <2>2 DEF Reading
  <2>3. CASE n # j
    BY <1>6, <2>1, <2>3
  <2> QED
    BY <2>2, <2>3
<1> HIDE DEF f, live, live2, w
<1>8. Exactly(w[p], live2, p, db)
  BY <1>2, <1>3, <1>4, <1>5, <1>7, ExactlyMoved
<1>9. \A lit \in Literals \ {p} : Exactly(w[lit], DOMAIN w[lit], lit, db)
  BY <1>2, <1>6
<1> QED
  BY <1>8, <1>9 DEF live2, w

\* The lists after a step that keeps a watcher.
LEMMA KeptListIs ==
  ASSUME IInv, NEW x, Keeping(x)
  PROVE  /\ GoodLists(watches', db) /\ GoodLists(watches', db')
         /\ watches'[p] \in Seq(Watchers) /\ Len(watches'[p]) = Len(watches[p])
         /\ \A n \in DOMAIN watches[p] \ {j} : watches'[p][n] = watches[p][n]
         /\ ~ clobbered =>
              /\ Exactly(watches'[p], 1 .. (j + 1) - 1 \union i + 1 .. end, p, db)
              /\ \A lit \in Literals \ {p} : Exactly(watches'[lit], DOMAIN watches'[lit], lit, db)
<1>1. /\ Visiting /\ x \in Watchers /\ x.cref = Reading.cref
      /\ x.blocker \in db[Reading.cref].meant /\ watches' = WrittenBack(x)
  BY DEF Keeping, Keep, WrittenBack
<1>2. /\ GoodLists(watches', db)
      /\ watches'[p] \in Seq(Watchers) /\ Len(watches'[p]) = Len(watches[p])
      /\ \A n \in DOMAIN watches[p] \ {j} : watches'[p][n] = watches[p][n]
  BY <1>1, WrittenIs
<1>3. ASSUME ~ clobbered
      PROVE  /\ Exactly(watches'[p], 1 .. (j + 1) - 1 \union i + 1 .. end, p, db)
             /\ \A lit \in Literals \ {p} : Exactly(watches'[lit], DOMAIN watches'[lit], lit, db)
  BY <1>1, <1>3, WrittenExactly
<1> QED
  BY <1>2, <1>3 DEF Keeping

\* The visit goes on and the lists stay true.
LEMMA KeepLists ==
  ASSUME IInv, NEW x, Keeping(x)
  PROVE  Pointers' /\ Lists'
<1>1. /\ p \in Literals /\ qhead \in DOMAIN trail /\ trail[qhead].lit = p
      /\ i \in Nat /\ j \in Nat /\ end \in Nat /\ pc = "visit"
      /\ 1 <= j /\ j <= i /\ i <= end /\ end = Len(watches[p])
  BY DEF IInv, Shapes, Pointers, Visiting, Keeping
<1>2. p' = p /\ i' = i + 1 /\ j' = j + 1 /\ end' = end /\ pc' = "visit" /\ qhead' = qhead
      /\ Literals' = Literals /\ clobbered' = clobbered
  BY <1>1 DEF Keeping, Keep
<1>3. trail'[qhead].lit = p /\ qhead \in DOMAIN trail'
  BY <1>1 DEF Keeping, Extends
<1>4. Pointers'
  BY <1>1, <1>2, <1>3, KeptListIs DEF Pointers
<1>5. ASSUME ~ clobbered
      PROVE  \A lit \in Literals :
               Exactly(watches'[lit],
                       IF lit = p THEN 1 .. (j + 1) - 1 \union i + 1 .. end
                       ELSE DOMAIN watches'[lit],
                       lit, db')
  <2> DEFINE live2 == 1 .. (j + 1) - 1 \union i + 1 .. end
  <2>1. /\ DOMAIN db' = DOMAIN db
        /\ \A lit : \A c \in DOMAIN db : lit \in Watching(db'[c]) <=> lit \in Watching(db[c])
    BY DEF Keeping, SameClauses
  <2>2. \A lit \in Literals : \A n \in DOMAIN watches'[lit] : watches'[lit][n].cref \in DOMAIN db
    BY KeptListIs DEF GoodLists
  <2>3. live2 \subseteq DOMAIN watches'[p]
    <3>1. DOMAIN watches'[p] = 1 .. end
      BY <1>1, KeptListIs
    <3> QED
      BY <1>1, <3>1
  <2>4. /\ Exactly(watches'[p], live2, p, db)
        /\ \A lit \in Literals \ {p} : Exactly(watches'[lit], DOMAIN watches'[lit], lit, db)
    BY <1>5, KeptListIs
  <2> HIDE DEF live2
  <2>5. Exactly(watches'[p], live2, p, db')
    BY <1>1, <2>1, <2>2, <2>3, <2>4, ExactlySame
  <2>6. \A lit \in Literals \ {p} : Exactly(watches'[lit], DOMAIN watches'[lit], lit, db')
    BY <2>1, <2>2, <2>4, ExactlySame
  <2> QED
    BY <2>5, <2>6 DEF live2
<1>6. Lists'
  BY <1>2, <1>5, ListsNext
<1> QED
  BY <1>4, <1>6

\* Such a step preserves the invariant when the clause is guarded.
LEMMA KeepPreserved ==
  ASSUME IInv, NEW x, Keeping(x),
         ~ clobbered => Guarded(trail', db[Reading.cref], - p)
  PROVE  Preserved
<1>1. /\ setup \in Setups /\ TypedTrail(trail) /\ GoodDb(db) /\ Level \in Nat /\ pc = "visit"
      /\ \A n \in DOMAIN trail : trail[n].level <= Level
      /\ qhead \in 0 .. Len(trail) /\ confl \subseteq Literals /\ clobbered \in BOOLEAN
      /\ Len(trail) \in Nat /\ DOMAIN trail = 1 .. Len(trail)
  BY Facts DEF Keeping, Visiting
<1>2. /\ p' = p /\ i' = i + 1 /\ j' = j + 1 /\ end' = end /\ pc' = "visit" /\ qhead' = qhead
      /\ Literals' = Literals /\ clobbered' = clobbered /\ confl' = confl
      /\ TypedTrail(trail') /\ GoodDb(db') /\ Level' = Level
      /\ \A n \in DOMAIN trail : n \in DOMAIN trail' /\ trail'[n] = trail[n]
      /\ \A n \in DOMAIN trail' : n \notin DOMAIN trail => n > qhead /\ trail'[n].level = Level
  BY <1>1 DEF Keeping, Keep, Extends, Level
<1>3. Fresh'
  <2>1. \A n \in DOMAIN trail : n > qhead \/ n = qhead => trail[n].level = Level
    BY <1>1 DEF IInv, Fresh
  <2> QED
    BY <1>2, <2>1 DEF Fresh
<1>4. ASSUME ~ clobbered, NEW c \in DOMAIN db', db'[c].kind # "lemma",
             NEW lit \in {db'[c].lits[1], db'[c].lits[2]},
             NEW n \in DOMAIN trail', trail'[n].lit = - lit
      PROVE  \/ n > qhead
             \/ lit = - p /\ \E m \in i + 1 .. end : watches'[p][m].cref = c
             \/ Guarded(trail', db'[c], lit)
  <2>1. CASE n \notin DOMAIN trail
    BY <1>2, <2>1
  <2>2. CASE n \in DOMAIN trail
    <3>1. /\ c \in DOMAIN db /\ db[c].kind # "lemma" /\ lit \in {db[c].lits[1], db[c].lits[2]}
          /\ db'[c].meant = db[c].meant
      BY <1>4 DEF Keeping, SameClauses
    <3>2. trail[n].lit = - lit /\ trail[n].level <= Level
      BY <1>1, <1>2, <1>4, <2>2
    <3>3. \/ n > qhead
          \/ lit = - p /\ \E m \in i .. end : watches[p][m].cref = c
          \/ Guarded(trail', db[c], lit)
      <4>1. /\ Level \in Int /\ TypedTrail(trail') /\ n \in DOMAIN trail
            /\ \A y \in DOMAIN trail :
                 trail[y].level <= Level => y \in DOMAIN trail' /\ trail'[y] = trail[y]
        BY <1>1, <1>2, <2>2
      <4>2. \/ n > qhead
            \/ pc = "visit" /\ lit = - p /\ \E m \in i .. end : watches[p][m].cref = c
            \/ pc = "conflict" /\ trail[n].level = Level
            \/ Guarded(trail', db[c], lit)
        BY <1>4, <3>1, <3>2, <4>1, WasKnown
      <4> QED
        BY <1>1, <4>2
    <3>4. ASSUME lit = - p, NEW m \in i .. end, watches[p][m].cref = c
          PROVE  \/ \E k \in i + 1 .. end : watches'[p][k].cref = c
                 \/ Guarded(trail', db[c], lit)
      <4>1. /\ i \in DOMAIN watches[p] /\ watches[p] \in Seq(Watchers) /\ j \in Nat /\ j <= i
            /\ i \in Nat /\ end \in Nat /\ end = Len(watches[p])
        BY Facts, VisitIs DEF Keeping, IInv, Shapes, Pointers, Visiting
      <4>2. CASE m = i
        BY <1>4, <3>4, <4>2 DEF Reading
      <4>3. CASE m # i
        <5>1. m \in i + 1 .. end /\ m \in DOMAIN watches[p] /\ m # j
          BY <3>4, <4>1, <4>3
        <5>2. watches'[p][m] = watches[p][m]
          BY <5>1, KeptListIs
        <5> QED
          BY <3>4, <5>1, <5>2
      <4> QED
        BY <4>2, <4>3
    <3>5. Guarded(trail', db[c], lit) => Guarded(trail', db'[c], lit)
      BY <3>1, GuardedMeant
    <3> QED
      BY <3>3, <3>4, <3>5
  <2> QED
    BY <2>1, <2>2
<1>5. Propagated'
  BY <1>1, <1>2, <1>4, PropagatedNext
<1>6. qhead' \in 0 .. Len(trail')
  <2>1. Len(trail') \in Nat /\ DOMAIN trail' = 1 .. Len(trail')
    BY <1>2 DEF TypedTrail
  <2> QED
    BY <1>1, <1>2, <2>1
<1>7. Conflicting'
  BY <1>2 DEF Conflicting
<1> QED
  BY <1>1, <1>2, <1>3, <1>5, <1>6, <1>7, KeptListIs, KeepLists DEF Preserved, Phases

\* In a visit a true literal guards its clause against the false one.
LEMMA TrueGuards ==
  ASSUME IInv, Visiting, NEW u, Extends(u), NEW x \in db[Reading.cref].meant, IsTrue(u, x)
  PROVE  Guarded(u, db[Reading.cref], - p)
<1>1. /\ setup \in Setups /\ GoodDb(db) /\ TypedTrail(u) /\ Level \in Nat /\ pc = "visit"
      /\ \A n \in DOMAIN trail : trail[n].level <= Level
  BY Facts DEF Extends, Visiting
<1>2. /\ Reading.cref \in DOMAIN db /\ - p \in Literals /\ p \in Literals /\ - (- p) = p
  BY <1>1, Facts, VisitIs, SetupIs
<1>3. x \in Literals
  BY <1>1, <1>2, WatchedIs
<1>4. /\ qhead \in DOMAIN trail /\ trail[qhead].lit = p /\ trail[qhead].level = Level
  BY <1>1 DEF IInv, Shapes, Pointers, Fresh
<1>5. qhead \in DOMAIN u /\ u[qhead].lit = - (- p) /\ u[qhead].level = Level
  BY <1>2, <1>4 DEF Extends
<1>6. LevelOf(u, - p) = Level
  BY <1>1, <1>2, <1>5, PlaceIs
<1>7. PICK n \in DOMAIN u : u[n].lit = x
  BY <1>1, <1>3, PlaceIs
<1>8. LevelOf(u, x) = u[n].level
  BY <1>1, <1>3, <1>7, PlaceIs
<1>9. u[n].level <= Level
  <2>1. CASE n \in DOMAIN trail
    BY <1>1, <2>1 DEF Extends
  <2>2. CASE n \notin DOMAIN trail
    BY <1>1, <2>2 DEF Extends
  <2> QED
    BY <2>1, <2>2
<1> QED
  BY <1>6, <1>8, <1>9 DEF Guarded

\* The trail as it is, and with a unit clause's literal.
LEMMA TrailExtends ==
  ASSUME IInv
  PROVE  /\ Extends(trail)
         /\ UnitFound => Extends(trail') /\ IsTrue(trail', First)
<1>1. /\ TypedTrail(trail) /\ Level = DecisionLevel(trail) /\ qhead \in 0 .. Len(trail)
      /\ setup \in Setups /\ Len(trail) \in Nat
  BY Facts
<1>2. Extends(trail)
  BY <1>1 DEF Extends
<1>3. ASSUME UnitFound PROVE Extends(trail') /\ IsTrue(trail', First)
  <2>1. /\ Enqueues(trail, First, Level, ToSet(Visited))
        /\ trail' = Append(trail, Entry(First, Level, ToSet(Visited)))
        /\ TypedTrail(trail')
    BY <1>3, UnitReported
  <2> DEFINE longer == Append(trail, Entry(First, Level, ToSet(Visited)))
  <2>2. /\ DecisionLevel(longer) = Level
        /\ DOMAIN longer = DOMAIN trail \union {Len(trail) + 1}
        /\ longer[Len(trail) + 1].level = Level
        /\ longer[Len(trail) + 1].lit = First
        /\ \A n \in DOMAIN trail : longer[n] = trail[n]
    BY <1>1, <2>1, EnqueueIs
  <2> HIDE DEF longer
  <2>3. longer = trail'
    BY <2>1 DEF longer
  <2>4. Len(trail) + 1 > qhead
    BY <1>1
  <2>5. Extends(trail')
    BY <2>1, <2>2, <2>3, <2>4 DEF Extends
  <2>6. IsTrue(trail', First)
    BY <2>2, <2>3 DEF IsTrue
  <2> QED
    BY <2>5, <2>6
<1> QED
  BY <1>2, <1>3

\* Every set of clauses is like itself.
LEMMA SameAsBefore == SameClauses(db, db)
BY DEF SameClauses

\* The blocker is true: the watcher is kept.
LEMMA BlockerTruePreserved ==
  ASSUME IInv, BlockerTrue
  PROVE  Preserved
<1>1. /\ Visiting /\ IsTrue(trail, Reading.blocker) /\ Keep(Reading)
      /\ setup' = setup /\ pc' = pc /\ db' = db /\ trail' = trail /\ qhead' = qhead
      /\ confl' = confl /\ clobbered' = clobbered
  BY DEF BlockerTrue
<1>2. /\ Reading \in Watchers /\ Reading.cref \in DOMAIN db
      /\ Reading.blocker \in db[Reading.cref].meant /\ GoodDb(db) /\ Literals' = Literals
  BY <1>1, Facts, VisitIs DEF Literals
<1>3. SameClauses(db, db') /\ GoodDb(db') /\ (\A w : GoodLists(w, db) => GoodLists(w, db'))
  BY <1>1, <1>2, SameAsBefore
<1>4. Extends(trail')
  BY <1>1, TrailExtends
<1>5. Keeping(Reading)
  BY <1>1, <1>2, <1>3, <1>4 DEF Keeping
<1>6. Guarded(trail', db[Reading.cref], - p)
  BY <1>1, <1>2, <1>4, TrueGuards
<1> QED
  BY <1>5, <1>6, KeepPreserved

\* A step of a visit that reorders the clause read and puts its watcher back
\* with the first literal for its blocker, which is true then.
LEMMA VisitedPreserved ==
  ASSUME IInv, Visiting, Keep(Watcher(Reading.cref, First)),
         db' = [db EXCEPT ![Reading.cref].lits = Visited],
         setup' = setup, pc' = pc, qhead' = qhead, confl' = confl, clobbered' = clobbered,
         Extends(trail'), IsTrue(trail', First)
  PROVE  Preserved
<1> DEFINE x == Watcher(Reading.cref, First)
<1>1. /\ Reading.cref \in DOMAIN db /\ First \in Literals /\ First \in db[Reading.cref].meant
      /\ Reading \in Watchers
  BY Facts, VisitIs
<1>2. x \in Watchers /\ x.cref = Reading.cref /\ x.blocker = First
  BY <1>1 DEF Watcher, Watchers
<1>3. SameClauses(db, db') /\ GoodDb(db') /\ (\A w : GoodLists(w, db) => GoodLists(w, db'))
  BY VisitedIs
<1>4. Literals' = Literals
  BY DEF Literals
<1>5. Keep(x)
  OBVIOUS
<1> HIDE DEF x
<1>6. Keeping(x)
  BY <1>1, <1>2, <1>3, <1>4, <1>5 DEF Keeping
<1>7. Guarded(trail', db[Reading.cref], - p)
  BY <1>1, TrueGuards
<1> QED
  BY <1>6, <1>7, KeepPreserved

\* The first literal is true.
LEMMA FirstTruePreserved ==
  ASSUME IInv, FirstTrue
  PROVE  Preserved
<1>1. /\ Visiting /\ IsTrue(trail, First) /\ Keep(Watcher(Reading.cref, First))
      /\ db' = [db EXCEPT ![Reading.cref].lits = Visited]
      /\ setup' = setup /\ pc' = pc /\ trail' = trail /\ qhead' = qhead
      /\ confl' = confl /\ clobbered' = clobbered
  BY DEF FirstTrue, Inspecting
<1>2. Extends(trail') /\ IsTrue(trail', First)
  BY <1>1, TrailExtends
<1> QED
  BY <1>1, <1>2, VisitedPreserved

\* The assertion of the debug build: nothing but the phase changes.
LEMMA AssertFailsPreserved ==
  ASSUME IInv, AssertFails
  PROVE  Preserved
<1>1. /\ pc' = "aborted" /\ Visiting /\ ~ InPlace
      /\ setup' = setup /\ db' = db /\ watches' = watches /\ trail' = trail
      /\ qhead' = qhead /\ theory' = theory /\ confl' = confl /\ clobbered' = clobbered
  BY DEF AssertFails, Inspecting
<1>2. clobbered
  BY <1>1, InPlaceIs DEF IInv
<1>3. Lists' /\ Propagated'
  BY <1>1, <1>2 DEF Lists, Propagated
<1>4. Pointers' /\ Fresh' /\ Conflicting'
  BY <1>1 DEF Pointers, Fresh, Conflicting
<1>5. GoodDb(db') /\ GoodLists(watches', db')
  BY <1>1, Facts
<1> QED
  BY <1>1, <1>3, <1>4, <1>5, Facts DEF Preserved, Phases

\* A visit begins.
LEMMA NextLiteralPreserved ==
  ASSUME IInv, NextLiteral
  PROVE  Preserved
<1>1. /\ pc = "propagate" /\ qhead < Len(trail) /\ qhead' = qhead + 1
      /\ p' = trail[qhead + 1].lit /\ i' = 1 /\ j' = 1 /\ end' = Len(watches[p'])
      /\ pc' = "visit"
      /\ setup' = setup /\ db' = db /\ watches' = watches /\ trail' = trail
      /\ confl' = confl /\ clobbered' = clobbered
  BY DEF NextLiteral
<1>2. /\ setup \in Setups /\ TypedTrail(trail) /\ GoodDb(db) /\ GoodLists(watches, db)
      /\ qhead \in 0 .. Len(trail) /\ Len(trail) \in Nat /\ DOMAIN trail = 1 .. Len(trail)
      /\ Level \in Nat /\ confl \subseteq Literals /\ clobbered \in BOOLEAN
      /\ \A n \in DOMAIN trail : trail[n].lit \in Literals /\ trail[n].level <= Level
  BY Facts
<1>3. Literals' = Literals
  BY <1>1 DEF Literals
<1>4. qhead' \in DOMAIN trail /\ qhead' \in 0 .. Len(trail')
  BY <1>1, <1>2
<1>5. p' \in Literals /\ trail[qhead'].lit = p'
  BY <1>1, <1>2, <1>4
<1>6. watches[p'] \in Seq(Watchers) /\ end' \in Nat /\ DOMAIN watches[p'] = 1 .. end'
  BY <1>1, <1>2, <1>5 DEF GoodLists
<1>7. Pointers'
  BY <1>1, <1>3, <1>4, <1>5, <1>6 DEF Pointers
<1>8. Fresh'
  <2>1. \A n \in DOMAIN trail : n > qhead => trail[n].level = Level
    BY <1>1 DEF IInv, Fresh
  <2>2. Level' = Level
    BY <1>1 DEF Level
  <2> QED
    BY <1>1, <1>2, <2>1, <2>2 DEF Fresh
<1>9. ASSUME ~ clobbered PROVE AllExact(watches, db)
  BY <1>1, <1>9, ListsOutside DEF IInv
<1>10. Lists'
  <2>1. 1 .. 1 - 1 \union 1 .. end' = DOMAIN watches[p']
    BY <1>6
  <2>2. ASSUME ~ clobbered
        PROVE  \A lit \in Literals :
                 Exactly(watches[lit],
                         IF lit = p' THEN 1 .. 1 - 1 \union 1 .. end' ELSE DOMAIN watches[lit],
                         lit, db)
    BY <1>9, <2>1, <2>2 DEF AllExact
  <2> QED
    BY <1>1, <1>3, <2>2, ListsNext
<1>11. ASSUME ~ clobbered, NEW c \in DOMAIN db, db[c].kind # "lemma",
              NEW lit \in {db[c].lits[1], db[c].lits[2]},
              NEW n \in DOMAIN trail, trail[n].lit = - lit
       PROVE  \/ n > qhead'
              \/ lit = - p' /\ \E m \in 1 .. end' : watches[p'][m].cref = c
              \/ Guarded(trail, db[c], lit)
  <2>1. lit \in Literals /\ - lit \in Watching(db[c]) /\ - (- lit) = lit
    BY <1>2, <1>11, WatchedIs, SetupIs
  <2>2. \/ n > qhead
        \/ Guarded(trail, db[c], lit)
    BY <1>1, <1>2, <1>11, WasKnown
  <2>3. CASE n = qhead'
    <3>1. - lit = p' /\ lit = - p'
      BY <1>5, <1>11, <2>1, <2>3
    <3>2. \E m \in DOMAIN watches[p'] : watches[p'][m].cref = c
      BY <1>5, <1>9, <1>11, <2>1, <3>1 DEF AllExact, Exactly
    <3> QED
      BY <1>6, <3>1, <3>2
  <2> QED
    BY <1>1, <1>2, <2>2, <2>3
<1>12. Propagated'
  BY <1>1, <1>2, <1>3, <1>11, PropagatedNext
<1>13. Conflicting'
  BY <1>1 DEF Conflicting
<1> QED
  BY <1>1, <1>2, <1>3, <1>4, <1>7, <1>8, <1>10, <1>12, <1>13 DEF Preserved, Phases

-----------------------------------------------------------------------------
(* Steps: another literal is watched.                                       *)

\* The clause after the move: its literals, of which the first two are the
\* first as before and one that is not false.
MovedTo(k, lits) ==
  /\ k \in 3 .. Len(Visited) /\ ~ IsFalse(trail, Visited[k])
  /\ lits = [Visited EXCEPT ![2] = Visited[k], ![k] = - p]

\* What the move does to the clause.
LEMMA MovedIs ==
  ASSUME IInv, ToInspect, NEW k, NEW lits, MovedTo(k, lits)
  PROVE  /\ GoodLits(lits) /\ ToSet(lits) = db[Reading.cref].meant
         /\ lits[1] = First /\ lits[2] = Visited[k]
         /\ Visited[k] \in Literals /\ Visited[k] # First /\ Visited[k] # - p /\ First # - p
         /\ - Visited[k] # p
         /\ First \in Literals
         /\ {db[Reading.cref].lits[1], db[Reading.cref].lits[2]} = {First, - p}
<1>1. /\ Visited \in Seq(Literals) /\ Len(Visited) > 1 /\ IsInjective(Visited)
      /\ ToSet(Visited) = db[Reading.cref].meant /\ {1, 2} \subseteq DOMAIN Visited
      /\ p \in Literals /\ - p \in Literals /\ IsTrue(trail, p) /\ First \in Literals
      /\ {Visited[1], Visited[2]} = {db[Reading.cref].lits[1], db[Reading.cref].lits[2]}
  BY Facts, VisitIs DEF ToInspect, Inspecting
<1>2. Visited[2] = - p /\ First = Visited[1]
  BY DEF ToInspect, InPlace, First
<1>3. k \in DOMAIN Visited /\ k \in Nat /\ k > 2
  BY <1>1 DEF MovedTo
<1>4. Visited[k] \in Literals /\ Visited[k] # First /\ Visited[k] # - p /\ First # - p
  BY <1>1, <1>2, <1>3 DEF IsInjective
<1>5. lits = Exchanged(Visited, 2, k)
  BY <1>2 DEF MovedTo, Exchanged
<1>6. /\ lits \in Seq(Literals) /\ Len(lits) = Len(Visited)
      /\ lits[2] = Visited[k]
      /\ \A n \in DOMAIN Visited \ {2, k} : lits[n] = Visited[n]
      /\ ToSet(lits) = ToSet(Visited) /\ IsInjective(lits)
  <2> DEFINE s == Visited
  <2>1. s \in Seq(Literals) /\ 2 \in DOMAIN s /\ k \in DOMAIN s /\ IsInjective(s)
    BY <1>1, <1>3
  <2>2. lits = Exchanged(s, 2, k)
    BY <1>5
  <2> HIDE DEF s
  <2>3. /\ lits \in Seq(Literals) /\ Len(lits) = Len(s)
        /\ lits[2] = s[k] /\ \A n \in DOMAIN s \ {2, k} : lits[n] = s[n]
        /\ ToSet(lits) = ToSet(s) /\ IsInjective(lits)
    BY <2>1, <2>2, SwapIs
  <2> QED
    BY <2>3 DEF s
<1>7. lits[1] = First
  <2>1. 1 \in DOMAIN Visited \ {2, k}
    BY <1>1, <1>3
  <2> QED
    BY <1>2, <1>6, <2>1
<1>8. - Visited[k] # p
  <2>1. Visited[k] = - (- Visited[k])
    BY <1>4, Facts, SetupIs
  <2> QED
    BY <1>4, <2>1
<1> QED
  BY <1>1, <1>2, <1>4, <1>5, <1>6, <1>7, <1>8 DEF GoodLits

\* The watcher that joins the other list keeps the references good.
LEMMA AppendGood ==
  ASSUME NEW d, NEW w, GoodLists(w, d), NEW lit \in Literals, NEW x \in Watchers,
         x.cref \in DOMAIN d, x.blocker \in d[x.cref].meant
  PROVE  LET v == [w EXCEPT ![lit] = Append(@, x)]
         IN /\ GoodLists(v, d) /\ v[lit] = Append(w[lit], x)
            /\ \A other \in Literals \ {lit} : v[other] = w[other]
            /\ Len(w[lit]) \in Nat /\ DOMAIN w[lit] = 1 .. Len(w[lit])
            /\ DOMAIN v[lit] = DOMAIN w[lit] \union {Len(w[lit]) + 1}
            /\ Len(w[lit]) + 1 \notin DOMAIN w[lit]
            /\ v[lit][Len(w[lit]) + 1] = x
            /\ \A n \in DOMAIN w[lit] : v[lit][n] = w[lit][n]
<1> DEFINE list == Append(w[lit], x)
           v == [w EXCEPT ![lit] = Append(@, x)]
<1>1. w \in [Literals -> Seq(Watchers)] /\ w[lit] \in Seq(Watchers)
  BY DEF GoodLists
<1>2. /\ v \in [Literals -> Seq(Watchers)] /\ v[lit] = list
      /\ \A other \in Literals \ {lit} : v[other] = w[other]
  BY <1>1
<1>3. /\ Len(w[lit]) \in Nat /\ DOMAIN w[lit] = 1 .. Len(w[lit])
      /\ DOMAIN list = DOMAIN w[lit] \union {Len(w[lit]) + 1}
      /\ Len(w[lit]) + 1 \notin DOMAIN w[lit]
      /\ list[Len(w[lit]) + 1] = x
      /\ \A n \in DOMAIN w[lit] : list[n] = w[lit][n]
  BY <1>1
<1> HIDE DEF v, list
<1>4. \A n \in DOMAIN list : list[n].cref \in DOMAIN d /\ list[n].blocker \in d[list[n].cref].meant
  BY <1>3 DEF GoodLists
<1>5. GoodLists(v, d)
  BY <1>2, <1>4 DEF GoodLists
<1> QED
  BY <1>2, <1>3, <1>5 DEF v, list

\* What MoveWatch does to the clauses and the lists.
LEMMA MoveWatchIs ==
  ASSUME IInv, MoveWatch
  PROVE  \E k, lits :
           /\ MovedTo(k, lits)
           /\ db' = Relit(db, Reading.cref, lits)
           /\ watches' = [watches EXCEPT ![- Visited[k]] =
                            Append(@, Watcher(Reading.cref, First))]
<1> DEFINE k == Min(Candidates)
           lits == [Visited EXCEPT ![2] = Visited[k], ![k] = - p]
<1>1. Candidates \in SUBSET Nat /\ Candidates # {}
  <2>1. Len(Visited) \in Nat
    BY Facts, VisitIs DEF MoveWatch, ToInspect, Inspecting
  <2> QED
    BY <2>1 DEF MoveWatch, Candidates
<1>2. k \in Candidates
  BY <1>1, MinIs
<1>3. /\ db' = [db EXCEPT ![Reading.cref].lits = lits]
      /\ watches' = [watches EXCEPT ![- Visited[k]] = Append(@, Watcher(Reading.cref, First))]
  BY DEF MoveWatch
<1> HIDE DEF k
<1>4. MovedTo(k, lits)
  BY <1>2 DEF Candidates, MovedTo
<1> HIDE DEF lits
<1> QED
  BY <1>3, <1>4 DEF Relit

\* After the move every list is exact again.
LEMMA MovedExactly ==
  ASSUME IInv, ToInspect, ~ clobbered, NEW k, NEW lits, MovedTo(k, lits),
         NEW e, e = Relit(db, Reading.cref, lits),
         NEW w, w = [watches EXCEPT ![- Visited[k]] = Append(@, Watcher(Reading.cref, First))]
  PROVE  \A lit \in Literals :
           Exactly(w[lit],
                   IF lit = p THEN 1 .. j - 1 \union i + 1 .. end ELSE DOMAIN w[lit],
                   lit, e)
<1> DEFINE c == Reading.cref
           q == - Visited[k]
           x == Watcher(c, First)
           live == 1 .. j - 1 \union i .. end
           live2 == 1 .. j - 1 \union i + 1 .. end
<1>1. /\ p \in Literals /\ i \in Nat /\ j \in Nat /\ end \in Nat /\ pc = "visit" /\ Visiting
      /\ 1 <= j /\ j <= i /\ i <= end /\ end = Len(watches[p])
  BY DEF IInv, Shapes, Pointers, Visiting, ToInspect, Inspecting
<1>2. /\ setup \in Setups /\ GoodDb(db) /\ GoodLists(watches, db)
      /\ c \in DOMAIN db /\ watches[p] \in Seq(Watchers)
      /\ Reading = watches[p][i] /\ First \in db[c].meant /\ Reading \in Watchers
  BY <1>1, Facts, VisitIs DEF Reading
<1>3. /\ GoodLits(lits) /\ ToSet(lits) = db[c].meant
      /\ lits[1] = First /\ lits[2] = Visited[k]
      /\ Visited[k] \in Literals /\ Visited[k] # First /\ Visited[k] # - p /\ First # - p
      /\ q # p /\ First \in Literals
      /\ {db[c].lits[1], db[c].lits[2]} = {First, - p}
  BY MovedIs
<1>4. /\ q \in Literals /\ - q = Visited[k] /\ - First \in Literals /\ - (- First) = First
      /\ - (- p) = p /\ - p \in Literals
  BY <1>1, <1>2, <1>3, SetupIs
<1>5. x \in Watchers /\ x.cref = c /\ x.blocker = First
  BY <1>2, <1>3 DEF Watcher, Watchers
<1>6. /\ DOMAIN e = DOMAIN db /\ e[c].lits = lits
      /\ \A y \in DOMAIN db \ {c} : e[y] = db[y]
  BY <1>2, <1>3, RelitIs
<1>7. /\ w[q] = Append(watches[q], x)
      /\ \A other \in Literals \ {q} : w[other] = watches[other]
      /\ DOMAIN w[q] = DOMAIN watches[q] \union {Len(watches[q]) + 1}
      /\ Len(watches[q]) + 1 \notin DOMAIN watches[q]
      /\ w[q][Len(watches[q]) + 1] = x
      /\ \A n \in DOMAIN watches[q] : w[q][n] = watches[q][n]
  <2>1. x.cref \in DOMAIN db /\ x.blocker \in db[x.cref].meant /\ x \in Watchers
    BY <1>2, <1>5
  <2>2. w = [watches EXCEPT ![q] = Append(@, x)] /\ q \in Literals
    BY <1>4
  <2> HIDE DEF x, q
  <2> DEFINE v == [watches EXCEPT ![q] = Append(@, x)]
  <2>3. GoodLists(watches, db)
    BY <1>2
  <2>4. /\ v[q] = Append(watches[q], x)
        /\ \A other \in Literals \ {q} : v[other] = watches[other]
        /\ DOMAIN v[q] = DOMAIN watches[q] \union {Len(watches[q]) + 1}
        /\ Len(watches[q]) + 1 \notin DOMAIN watches[q]
        /\ v[q][Len(watches[q]) + 1] = x
        /\ \A n \in DOMAIN watches[q] : v[q][n] = watches[q][n]
    BY <2>1, <2>2, <2>3, AppendGood
  <2> HIDE DEF v
  <2>5. w = v
    BY <2>2 DEF v
  <2> QED
    BY <2>4, <2>5
<1>8. Watching(e[c]) = {- First, q}
  BY <1>3, <1>6 DEF Watching
<1>9. Watching(db[c]) = {- First, p}
  <2>1. \/ db[c].lits[1] = First /\ db[c].lits[2] = - p
        \/ db[c].lits[1] = - p /\ db[c].lits[2] = First
    BY <1>3
  <2> QED
    BY <1>4, <2>1 DEF Watching
<1>10. p # - First /\ q # - First
  BY <1>3, <1>4
<1>11. /\ Exactly(watches[p], live, p, db)
       /\ \A lit \in Literals \ {p} : Exactly(watches[lit], DOMAIN watches[lit], lit, db)
  BY <1>1, ListsInside DEF IInv
<1>12. \A lit \in Literals : \A n \in DOMAIN watches[lit] : watches[lit][n].cref \in DOMAIN db
  BY <1>2 DEF GoodLists
<1>13. DOMAIN watches[p] = 1 .. end /\ live \subseteq DOMAIN watches[p] /\ i \in live
  BY <1>1, <1>2
<1> HIDE DEF q, x, c
<1>14. Exactly(w[p], live2, p, e)
  <2>1. live2 = {n \in live : watches[p][n].cref # c}
    <3>1. \A n \in live : watches[p][n].cref = c => n = i
      BY <1>2, <1>11, <1>13 DEF Exactly, c
    <3>2. watches[p][i].cref = c
      BY <1>2 DEF c
    <3>3. live2 = live \ {i}
      BY <1>1
    <3> HIDE DEF live, live2
    <3> QED
      BY <3>1, <3>2, <3>3
  <2> HIDE DEF live, live2
  <2>2. p \notin Watching(e[c]) /\ DOMAIN e = DOMAIN db \union {c}
    BY <1>2, <1>3, <1>6, <1>8, <1>10
  <2>3. \A n \in live : watches[p][n].cref \in DOMAIN db
    BY <1>1, <1>12, <1>13
  <2> DEFINE list == watches[p]
  <2>4. /\ Exactly(list, live, p, db)
        /\ \A n \in live : list[n].cref \in DOMAIN db
        /\ live2 = {n \in live : list[n].cref # c}
        /\ \A y \in DOMAIN db \ {c} : p \in Watching(e[y]) <=> p \in Watching(db[y])
    BY <1>6, <1>11, <2>1, <2>3
  <2> HIDE DEF list
  <2>5. Exactly(list, live2, p, e)
    BY <2>2, <2>4, ExactlyWithout
  <2> QED
    BY <1>1, <1>3, <1>7, <2>5 DEF list
<1>15. Exactly(w[q], DOMAIN w[q], q, e)
  <2>1. q \notin Watching(db[c])
    BY <1>3, <1>9, <1>10
  <2>2. \A n \in DOMAIN watches[q] : watches[q][n].cref \in DOMAIN db /\ watches[q][n].cref # c
    BY <1>3, <1>4, <1>11, <1>12, <2>1 DEF Exactly
  <2>3. q \in Watching(e[c]) /\ DOMAIN e = DOMAIN db \union {c}
    BY <1>2, <1>6, <1>8
  <2> DEFINE was == watches[q]
             list == w[q]
             last == Len(watches[q]) + 1
  <2>4. /\ Exactly(was, DOMAIN was, q, db)
        /\ \A n \in DOMAIN was : was[n].cref \in DOMAIN db /\ was[n].cref # c
        /\ last \notin DOMAIN was /\ list[last].cref = c
        /\ \A n \in DOMAIN was : list[n] = was[n]
        /\ DOMAIN list = DOMAIN was \union {last}
        /\ \A y \in DOMAIN db \ {c} : q \in Watching(e[y]) <=> q \in Watching(db[y])
    BY <1>3, <1>4, <1>5, <1>6, <1>7, <1>11, <2>2
  <2> HIDE DEF was, list, last
  <2>5. Exactly(list, DOMAIN list, q, e)
    BY <2>3, <2>4, ExactlyWith
  <2> QED
    BY <2>5 DEF list
<1>16. ASSUME NEW lit \in Literals \ {p, q} PROVE Exactly(w[lit], DOMAIN w[lit], lit, e)
  <2>1. \A y \in DOMAIN db : lit \in Watching(e[y]) <=> lit \in Watching(db[y])
    BY <1>6, <1>8, <1>9
  <2>2. Exactly(watches[lit], DOMAIN watches[lit], lit, db)
    BY <1>11
  <2>3. \A n \in DOMAIN watches[lit] : watches[lit][n].cref \in DOMAIN db
    BY <1>12
  <2>4. Exactly(watches[lit], DOMAIN watches[lit], lit, e)
    BY <1>6, <2>1, <2>2, <2>3, ExactlySame
  <2> QED
    BY <1>7, <2>4
<1> QED
  BY <1>3, <1>14, <1>15, <1>16

\* Another literal is watched.
LEMMA MoveWatchPreserved ==
  ASSUME IInv, MoveWatch
  PROVE  Preserved
<1>1. PICK k, lits :
        /\ MovedTo(k, lits)
        /\ db' = Relit(db, Reading.cref, lits)
        /\ watches' = [watches EXCEPT ![- Visited[k]] = Append(@, Watcher(Reading.cref, First))]
  BY MoveWatchIs
<1> DEFINE c == Reading.cref
           q == - Visited[k]
           x == Watcher(c, First)
<1>2. /\ ToInspect /\ Visiting /\ pc = "visit"
      /\ p' = p /\ i' = i + 1 /\ j' = j /\ end' = end
      /\ setup' = setup /\ pc' = pc /\ trail' = trail /\ qhead' = qhead
      /\ confl' = confl /\ clobbered' = clobbered /\ Literals' = Literals
  BY DEF MoveWatch, ToInspect, Inspecting, Visiting, Literals
<1>3. /\ p \in Literals /\ i \in Nat /\ j \in Nat /\ end \in Nat
      /\ qhead \in DOMAIN trail /\ trail[qhead].lit = p
      /\ 1 <= j /\ j <= i /\ i <= end /\ end = Len(watches[p])
  BY <1>2 DEF IInv, Shapes, Pointers, Visiting
<1>4. /\ setup \in Setups /\ GoodDb(db) /\ GoodLists(watches, db) /\ TypedTrail(trail)
      /\ c \in DOMAIN db /\ Reading = watches[p][i] /\ First \in db[c].meant
      /\ Reading \in Watchers /\ Level \in Nat
      /\ \A n \in DOMAIN trail : trail[n].level <= Level
      /\ qhead \in 0 .. Len(trail) /\ confl \subseteq Literals /\ clobbered \in BOOLEAN
  BY <1>2, Facts, VisitIs DEF Reading
<1>5. /\ GoodLits(lits) /\ ToSet(lits) = db[c].meant
      /\ lits[1] = First /\ lits[2] = Visited[k]
      /\ Visited[k] \in Literals /\ q # p /\ First \in Literals /\ First # - p
      /\ {db[c].lits[1], db[c].lits[2]} = {First, - p}
  BY <1>1, <1>2, MovedIs
<1>6. q \in Literals
  BY <1>4, <1>5, SetupIs
<1>7. x \in Watchers /\ x.cref = c /\ x.blocker = First
  BY <1>4, <1>5 DEF Watcher, Watchers
<1>8. /\ GoodDb(db') /\ DOMAIN db' = DOMAIN db /\ db'[c].lits = lits
      /\ \A y \in DOMAIN db : db'[y].meant = db[y].meant /\ db'[y].kind = db[y].kind
      /\ \A y \in DOMAIN db \ {c} : db'[y] = db[y]
      /\ GoodLists(watches, db')
  BY <1>1, <1>4, <1>5, RelitIs
<1>9. GoodLists(watches', db') /\ watches'[p] = watches[p]
  <2> DEFINE w == [watches EXCEPT ![q] = Append(@, x)]
  <2>0. x.cref \in DOMAIN db' /\ x.blocker \in db'[x.cref].meant
    BY <1>4, <1>7, <1>8
  <2>1. GoodLists(w, db') /\ \A other \in Literals \ {q} : w[other] = watches[other]
    BY <1>6, <1>7, <1>8, <2>0, AppendGood
  <2>2. watches' = w
    BY <1>1
  <2> HIDE DEF w
  <2> QED
    BY <1>3, <1>5, <2>1, <2>2
<1>10. Pointers'
  BY <1>2, <1>3, <1>9 DEF Pointers
<1>11. Fresh'
  <2>1. Level' = Level
    BY <1>2 DEF Level
  <2> QED
    BY <1>2, <2>1 DEF IInv, Fresh
<1>12. Lists'
  <2>1. ASSUME ~ clobbered
        PROVE  \A lit \in Literals :
                 Exactly(watches'[lit],
                         IF lit = p THEN 1 .. j - 1 \union i + 1 .. end ELSE DOMAIN watches'[lit],
                         lit, db')
    BY <1>1, <1>2, <2>1, MovedExactly
  <2> QED
    BY <1>2, <2>1, ListsNext
<1>13. ASSUME ~ clobbered, NEW y \in DOMAIN db', db'[y].kind # "lemma",
              NEW lit \in {db'[y].lits[1], db'[y].lits[2]},
              NEW n \in DOMAIN trail, trail[n].lit = - lit
       PROVE  \/ n > qhead
              \/ lit = - p /\ \E m \in i + 1 .. end : watches'[p][m].cref = y
              \/ Guarded(trail, db'[y], lit)
  <2>1. y \in DOMAIN db /\ db[y].kind # "lemma" /\ db'[y].meant = db[y].meant
    BY <1>8, <1>13
  <2>2. lit \in {db[y].lits[1], db[y].lits[2]}
    <3>1. CASE y # c
      BY <1>8, <1>13, <2>1, <3>1
    <3>2. CASE y = c
      <4>1. lit = First \/ lit = Visited[k]
        BY <1>5, <1>8, <1>13, <3>2
      <4>2. lit # Visited[k]
        BY <1>1, <1>13 DEF MovedTo, IsFalse, IsTrue
      <4> QED
        BY <1>5, <3>2, <4>1, <4>2
    <3> QED
      BY <3>1, <3>2
  <2>3. \/ n > qhead
        \/ lit = - p /\ \E m \in i .. end : watches[p][m].cref = y
        \/ Guarded(trail, db[y], lit)
    BY <1>2, <1>4, <1>13, <2>1, <2>2, WasKnown
  <2>4. ASSUME lit = - p, NEW m \in i .. end, watches[p][m].cref = y
        PROVE  \E h \in i + 1 .. end : watches'[p][h].cref = y
    <3>1. m # i
      <4>1. SUFFICES ASSUME m = i PROVE FALSE
        OBVIOUS
      <4>2. y = c
        BY <1>4, <2>4, <4>1
      <4>3. lit = First \/ lit = Visited[k]
        BY <1>5, <1>8, <1>13, <4>2
      <4>4. lit # Visited[k]
        BY <1>1, <1>13 DEF MovedTo, IsFalse, IsTrue
      <4> QED
        BY <1>5, <2>4, <4>3, <4>4
    <3>2. m \in i + 1 .. end
      BY <1>3, <2>4, <3>1
    <3> QED
      BY <1>9, <2>4, <3>2
  <2>5. Guarded(trail, db[y], lit) => Guarded(trail, db'[y], lit)
    BY <2>1, GuardedMeant
  <2> QED
    BY <2>3, <2>4, <2>5
<1>14. Propagated'
  BY <1>2, <1>4, <1>8, <1>13, PropagatedNext
<1>15. Conflicting'
  BY <1>2 DEF Conflicting
<1> QED
  BY <1>2, <1>4, <1>8, <1>9, <1>10, <1>11, <1>12, <1>14, <1>15 DEF Preserved, Phases

-----------------------------------------------------------------------------
(* Steps: the rest of the list is copied down and its end cut off.          *)

\* The compacted list has the clauses of its live places.
LEMMA CompactExact ==
  ASSUME NEW d, NEW lit, NEW list \in Seq(Watchers), NEW from \in Nat, NEW to \in Nat,
         1 <= to, to <= from, from <= Len(list) + 1,
         Exactly(list, 1 .. to - 1 \union from .. Len(list), lit, d),
         NEW cut, Compacted(cut, list, from, to)
  PROVE  Exactly(cut, DOMAIN cut, lit, d)
<1> DEFINE last == Len(list)
<1>0. /\ last \in Nat /\ from <= last + 1
      /\ DOMAIN cut = 1 .. last - (from - to)
      /\ \A n \in 1 .. to - 1 : cut[n] = list[n]
      /\ \A n \in to .. last - (from - to) : cut[n] = list[n + (from - to)]
      /\ Exactly(list, 1 .. to - 1 \union from .. last, lit, d)
  BY DEF Compacted
<1> HIDE DEF last
<1> DEFINE live == 1 .. to - 1 \union from .. last
           live2 == 1 .. last - (from - to)
           f == [n \in live2 |-> IF n < to THEN n ELSE n + (from - to)]
<1>1. f \in [live2 -> live]
  BY <1>0
<1>2. \A m, n \in live2 : f[m] = f[n] => m = n
  BY <1>0
<1>3. ASSUME NEW m \in live PROVE \E n \in live2 : f[n] = m
  <2>1. CASE m < to
    <3>1. m \in live2 /\ f[m] = m
      BY <1>0, <2>1
    <3> QED
      BY <3>1
  <2>2. CASE ~ (m < to)
    <3> DEFINE n == m - (from - to)
    <3>1. n \in live2 /\ ~ (n < to) /\ n + (from - to) = m
      BY <1>0, <2>2
    <3> HIDE DEF n
    <3>2. f[n] = m
      BY <3>1
    <3> QED
      BY <3>1, <3>2
  <2> QED
    BY <2>1, <2>2
<1>4. \A n \in live2 : cut[n].cref = list[f[n]].cref
  BY <1>0
<1>5. Exactly(list, live, lit, d) /\ DOMAIN cut = live2
  BY <1>0
<1> HIDE DEF f, live, live2
<1>6. Exactly(cut, live2, lit, d)
  BY <1>1, <1>2, <1>3, <1>4, <1>5, ExactlyMoved
<1> QED
  BY <1>5, <1>6

\* Exact lists stay exact for clauses that watch the same literals.
LEMMA AllExactSame ==
  ASSUME NEW w, NEW d, NEW e, AllExact(w, d), GoodLists(w, d), SameClauses(d, e)
  PROVE  AllExact(w, e)
<1> SUFFICES ASSUME NEW lit \in Literals PROVE Exactly(w[lit], DOMAIN w[lit], lit, e)
  BY DEF AllExact
<1>1. Exactly(w[lit], DOMAIN w[lit], lit, d)
  BY DEF AllExact
<1>2. \A n \in DOMAIN w[lit] : w[lit][n].cref \in DOMAIN d
  BY DEF GoodLists
<1>3. DOMAIN e = DOMAIN d /\ \A c \in DOMAIN d : lit \in Watching(e[c]) <=> lit \in Watching(d[c])
  BY DEF SameClauses
<1> QED
  BY <1>1, <1>2, <1>3, ExactlySame

\* The list visited as it is when the visit is broken off: the watcher of the
\* clause read is written back, the rest copied down and the end cut off.
BrokenOff(w) == [w EXCEPT ![p] = Shrunk(CopiedDown(w[p], i + 1, j + 1, end), i + 1, j + 1)]

\* A visit broken off leaves good references and exact lists.
LEMMA BrokenOffIs ==
  ASSUME IInv, Visiting,
         NEW x \in Watchers, x.cref = Reading.cref, x.blocker \in db[Reading.cref].meant
  PROVE  LET w == BrokenOff(WrittenBack(x))
         IN /\ GoodLists(w, db)
            /\ ~ clobbered => AllExact(w, db)
<1> DEFINE w0 == WrittenBack(x)
           list == w0[p]
           from == i + 1
           to == j + 1
           cut == Shrunk(CopiedDown(list, from, to, end), from, to)
           w == [w0 EXCEPT ![p] = cut]
<1>1. /\ p \in Literals /\ i \in Nat /\ j \in Nat /\ end \in Nat
      /\ 1 <= j /\ j <= i /\ i <= end /\ end = Len(watches[p])
  BY DEF IInv, Shapes, Pointers, Visiting
<1>2. GoodLists(w0, db) /\ list \in Seq(Watchers) /\ Len(list) = end
  BY <1>1, WrittenIs
<1>3. ~ clobbered =>
        /\ Exactly(list, 1 .. to - 1 \union from .. end, p, db)
        /\ \A lit \in Literals \ {p} : Exactly(w0[lit], DOMAIN w0[lit], lit, db)
  BY WrittenExactly
<1>4. from \in Nat /\ to \in Nat /\ 1 <= to /\ to <= from /\ from <= Len(list) + 1
      /\ end <= Len(list)
  BY <1>1, <1>2
<1> HIDE DEF w0, list, from, to
<1>5. Sublist(cut, list) /\ Compacted(cut, list, from, to)
  BY <1>1, <1>2, <1>4, CompactIs
<1> HIDE DEF cut
<1>6. Exactly(list, 1 .. to - 1 \union from .. end, p, db) => Exactly(cut, DOMAIN cut, p, db)
  BY <1>2, <1>4, <1>5, CompactExact
<1>7. GoodLists(w, db) /\ w[p] = cut /\ \A other \in Literals \ {p} : w[other] = w0[other]
  <2>1. GoodLists(w0, db) /\ p \in Literals /\ Sublist(cut, w0[p])
    BY <1>1, <1>2, <1>5 DEF list
  <2> QED
    BY <2>1, SublistGood
<1> HIDE DEF w
<1>8. ~ clobbered => AllExact(w, db)
  BY <1>3, <1>6, <1>7 DEF AllExact
<1> QED
  BY <1>7, <1>8 DEF w, cut, list, w0, from, to, BrokenOff

-----------------------------------------------------------------------------
(* Steps: a conflict.                                                       *)

\* What propagate knows of a false literal when it stops at a conflict: what
\* it has not seen is of the current level.
LEMMA ConflictKnown ==
  ASSUME IInv, ~ clobbered, pc \in {"propagate", "visit"}, NEW u, Extends(u),
         NEW c \in DOMAIN db, db[c].kind # "lemma", NEW lit \in {db[c].lits[1], db[c].lits[2]},
         NEW n \in DOMAIN u, u[n].lit = - lit
  PROVE  u[n].level = Level \/ Guarded(u, db[c], lit)
<1>1. /\ setup \in Setups /\ TypedTrail(u) /\ Level \in Int /\ GoodDb(db) /\ TypedTrail(trail)
      /\ \A m \in DOMAIN trail : trail[m].level <= Level /\ m \in DOMAIN u /\ u[m] = trail[m]
  BY Facts DEF Extends
<1>2. CASE n \notin DOMAIN trail
  BY <1>2 DEF Extends
<1>3. CASE n \in DOMAIN trail
  <2>1. trail[n].lit = - lit /\ trail[n].level <= Level /\ u[n] = trail[n]
    BY <1>1, <1>3
  <2>2. \/ n > qhead
        \/ pc = "visit" /\ lit = - p
        \/ Guarded(u, db[c], lit)
    BY <1>1, <1>3, <2>1, WasKnown
  <2>3. n > qhead => trail[n].level = Level
    BY <1>3 DEF IInv, Fresh
  <2>4. ASSUME pc = "visit", lit = - p PROVE trail[n].level = Level
    <3>1. p \in Literals /\ qhead \in DOMAIN trail /\ trail[qhead].lit = p /\ - (- p) = p
      BY <1>1, <2>4, SetupIs DEF IInv, Shapes, Pointers
    <3>2. EntryOf(trail, p) = n /\ EntryOf(trail, p) = qhead
      BY <1>1, <1>3, <2>1, <2>4, <3>1, PlaceIs
    <3>3. trail[qhead].level = Level
      BY <2>4, <3>1 DEF IInv, Fresh
    <3> QED
      BY <3>2, <3>3
  <2> QED
    BY <2>1, <2>2, <2>3, <2>4
<1> QED
  BY <1>2, <1>3

\* A step of propagate that ends in a conflict.
LEMMA ConflictPreserved ==
  ASSUME IInv, pc \in {"propagate", "visit"}, pc' = "conflict",
         setup' = setup, Literals' = Literals,
         Extends(trail'), qhead' = Len(trail'),
         clobbered' \in BOOLEAN, ~ clobbered' => ~ clobbered,
         GoodDb(db'), GoodLists(watches', db'), ~ clobbered' => AllExact(watches', db'),
         confl' \subseteq Literals, Falsified(trail', confl'),
         Level > 0 => \E x \in confl' : LevelOf(trail', x) = Level,
         \A c \in DOMAIN db' : db'[c].kind # "lemma" =>
           /\ c \in DOMAIN db /\ db'[c].kind = db[c].kind /\ db'[c].meant = db[c].meant
           /\ {db'[c].lits[1], db'[c].lits[2]} = {db[c].lits[1], db[c].lits[2]}
  PROVE  Preserved
<1>1. /\ setup \in Setups /\ TypedTrail(trail') /\ DecisionLevel(trail') = Level /\ Level' = Level
  BY Facts DEF Extends, Level
<1>2. Pointers' /\ Fresh' /\ Conflicting'
  BY <1>1 DEF Pointers, Fresh, Conflicting
<1>3. Lists'
  BY ListsNext
<1>4. ASSUME ~ clobbered', NEW c \in DOMAIN db', db'[c].kind # "lemma",
             NEW lit \in {db'[c].lits[1], db'[c].lits[2]},
             NEW n \in DOMAIN trail', trail'[n].lit = - lit
      PROVE  trail'[n].level = DecisionLevel(trail') \/ Guarded(trail', db'[c], lit)
  <2>1. /\ c \in DOMAIN db /\ db[c].kind # "lemma" /\ db'[c].meant = db[c].meant
        /\ lit \in {db[c].lits[1], db[c].lits[2]} /\ ~ clobbered
    BY <1>4
  <2>2. trail'[n].level = Level \/ Guarded(trail', db[c], lit)
    BY <1>4, <2>1, ConflictKnown
  <2> QED
    BY <1>1, <2>1, <2>2, GuardedMeant
<1>5. Propagated'
  BY <1>1, <1>4, PropagatedNext
<1>6. qhead' \in 0 .. Len(trail')
  <2>1. Len(trail') \in Nat
    BY <1>1 DEF TypedTrail
  <2> QED
    BY <2>1
<1> QED
  BY <1>2, <1>3, <1>5, <1>6 DEF Preserved, Phases

\* The watcher of the clause visited, with the first literal for its blocker.
LEMMA BlockedByFirst ==
  ASSUME IInv, Visiting
  PROVE  LET x == Watcher(Reading.cref, First)
         IN x \in Watchers /\ x.cref = Reading.cref /\ x.blocker \in db[Reading.cref].meant
<1>1. /\ Reading.cref \in DOMAIN db /\ First \in Literals /\ First \in db[Reading.cref].meant
      /\ Reading \in Watchers
  BY Facts, VisitIs
<1> QED
  BY <1>1 DEF Watcher, Watchers

\* A conflicting clause of the formula or a learnt one.
LEMMA ClauseFalsePreserved ==
  ASSUME IInv, ClauseFalse
  PROVE  Preserved
<1> DEFINE x == Watcher(Reading.cref, First)
           w0 == WrittenBack(x)
           cut == Shrunk(CopiedDown(w0[p], i + 1, j + 1, end), i + 1, j + 1)
<1>1. /\ ToInspect /\ Candidates = {} /\ IsFalse(trail, First)
      /\ Visiting /\ pc = "visit" /\ InPlace
      /\ db' = [db EXCEPT ![Reading.cref].lits = Visited]
      /\ watches' = [watches EXCEPT
           ![p] = Shrunk(CopiedDown([watches[p] EXCEPT ![j] = x], i + 1, j + 1, end), i, j)]
      /\ confl' = ToSet(Visited) /\ pc' = "conflict" /\ qhead' = Len(trail)
      /\ setup' = setup /\ trail' = trail /\ clobbered' = clobbered
  BY DEF ClauseFalse, ToInspect, Inspecting, Visiting
<1>2. /\ Literals' = Literals /\ Extends(trail') /\ clobbered \in BOOLEAN /\ setup \in Setups
      /\ TypedTrail(trail) /\ Level \in Nat
  BY <1>1, TrailExtends, Facts DEF Literals
<1>3. x \in Watchers /\ x.cref = Reading.cref /\ x.blocker \in db[Reading.cref].meant
  BY <1>1, BlockedByFirst
<1>4. /\ p \in Literals /\ - p \in Literals /\ ToSet(Visited) \in SUBSET Literals /\ - (- p) = p
      /\ {1, 2} \subseteq DOMAIN Visited
  BY <1>1, <1>2, Facts, VisitIs, SetupIs
<1>5. watches' = BrokenOff(w0)
  <2>1. w0[p] = [watches[p] EXCEPT ![j] = x] /\ GoodLists(w0, db)
        /\ \A other \in Literals \ {p} : w0[other] = watches[other]
    BY <1>1, <1>3, WrittenIs
  <2>2. Shrunk(CopiedDown(w0[p], i + 1, j + 1, end), i, j) = cut
    <3>1. i \in Nat /\ j \in Nat
      BY <1>1 DEF IInv, Shapes, Pointers
    <3>2. i - j = (i + 1) - (j + 1)
      BY <3>1
    <3> QED
      BY <3>2 DEF Shrunk
  <2> HIDE DEF w0, cut
  <2>3. watches' = [watches EXCEPT ![p] = cut]
    BY <1>1, <2>1, <2>2
  <2>4. w0 \in [Literals -> Seq(Watchers)] /\ watches \in [Literals -> Seq(Watchers)]
    BY <2>1, Facts DEF GoodLists
  <2>5. [watches EXCEPT ![p] = cut] = [w0 EXCEPT ![p] = cut]
    BY <1>4, <2>1, <2>4
  <2> QED
    BY <2>3, <2>5 DEF BrokenOff, cut
<1>6. GoodLists(watches', db) /\ (~ clobbered => AllExact(watches', db))
  <2> HIDE DEF x
  <2> QED
    BY <1>1, <1>3, <1>5, BrokenOffIs
<1>7. SameClauses(db, db') /\ GoodDb(db') /\ \A w : GoodLists(w, db) => GoodLists(w, db')
  BY <1>1, VisitedIs
<1>8. GoodLists(watches', db') /\ (~ clobbered => AllExact(watches', db'))
  BY <1>6, <1>7, AllExactSame
<1>9. Falsified(trail, ToSet(Visited))
  <2>1. Falsified(trail, ToSet(Visited) \ {First})
    BY <1>1, OthersFalse DEF IInv
  <2> QED
    BY <1>1, <2>1 DEF Falsified
<1>10. - p \in ToSet(Visited) /\ LevelOf(trail, - p) = Level
  <2>1. - p \in ToSet(Visited)
    BY <1>1, <1>4 DEF InPlace, ToSet
  <2>2. qhead \in DOMAIN trail /\ trail[qhead].lit = - (- p) /\ trail[qhead].level = Level
    BY <1>1, <1>4 DEF IInv, Shapes, Pointers, Fresh
  <2>3. LevelOf(trail, - p) = Level
    BY <1>2, <1>4, <2>2, PlaceIs
  <2> QED
    BY <2>1, <2>3
<1>11. \A c \in DOMAIN db' :
         /\ c \in DOMAIN db /\ db'[c].kind = db[c].kind /\ db'[c].meant = db[c].meant
         /\ {db'[c].lits[1], db'[c].lits[2]} = {db[c].lits[1], db[c].lits[2]}
  BY <1>7 DEF SameClauses
<1>12. /\ confl' \subseteq Literals /\ Falsified(trail', confl')
       /\ \E y \in confl' : LevelOf(trail', y) = Level
  BY <1>1, <1>4, <1>9, <1>10
<1>13. /\ clobbered' \in BOOLEAN /\ (~ clobbered' => ~ clobbered)
       /\ (~ clobbered' => AllExact(watches', db')) /\ qhead' = Len(trail')
  BY <1>1, <1>2, <1>8
<1> HIDE DEF x, w0, cut
<1> QED
  BY <1>1, <1>2, <1>7, <1>8, <1>11, <1>12, <1>13, ConflictPreserved

\* The theory's conflict when the queue is empty, or nothing left to do.
LEMMA QueueEmptyPreserved ==
  ASSUME IInv, QueueEmpty
  PROVE  Preserved
<1>1. /\ pc = "propagate" /\ qhead = Len(trail) /\ theory' = Checked(theory)
      /\ setup' = setup /\ trail' = trail /\ qhead' = qhead /\ clobbered' = clobbered
  BY DEF QueueEmpty
<1>2. /\ setup \in Setups /\ TypeOK /\ TypedTrail(trail) /\ GoodDb(db) /\ GoodLists(watches, db)
      /\ Level \in Nat /\ Level = DecisionLevel(trail) /\ clobbered \in BOOLEAN
      /\ Literals' = Literals /\ confl \subseteq Literals
      /\ qhead \in 0 .. Len(trail) /\ Len(trail) \in Nat /\ DOMAIN trail = 1 .. Len(trail)
      /\ \A n \in DOMAIN trail : trail[n].level <= Level
  BY <1>1, Facts DEF Literals
<1>3. Extends(trail') /\ Extends(trail)
  BY <1>1, TrailExtends
<1>4. ~ clobbered => AllExact(watches, db)
  BY <1>1, ListsOutside DEF IInv
<1>5. CASE HasConflict(theory)
  <2> DEFINE lits == LemmaLits(theory)
  <2>1. /\ db' = Append(db, Clause(lits, "lemma"))
        /\ watches' = Attached(watches, Len(db) + 1, lits)
        /\ confl' = ConflictClause(theory) /\ pc' = "conflict"
    BY <1>5 DEF QueueEmpty
  <2>2. Reported(trail, theory)
    BY <1>2, VerdictNow DEF IInv
  <2>3. /\ GoodLits(lits)
        /\ ConflictClause(theory) \subseteq Literals /\ Falsified(trail, ConflictClause(theory))
        /\ Level > 0 => \E x \in ConflictClause(theory) : LevelOf(trail, x) = Level
    BY <1>2, <1>5, <2>2, LemmaIs DEF GoodLits
  <2>4. "lemma" \in Kinds
    BY DEF Kinds
  <2> HIDE DEF lits
  <2>5. /\ GoodDb(db') /\ DOMAIN db' = DOMAIN db \union {Len(db) + 1}
        /\ db'[Len(db) + 1].kind = "lemma"
        /\ \A c \in DOMAIN db : db'[c] = db[c]
        /\ GoodLists(watches', db')
    BY <1>2, <2>1, <2>3, <2>4, AllocIs
  <2>6. ~ clobbered => AllExact(watches', db')
    BY <1>2, <1>4, <2>1, <2>3, <2>4, AttachExact
  <2>7. \A c \in DOMAIN db' : db'[c].kind # "lemma" =>
          /\ c \in DOMAIN db /\ db'[c].kind = db[c].kind /\ db'[c].meant = db[c].meant
          /\ {db'[c].lits[1], db'[c].lits[2]} = {db[c].lits[1], db[c].lits[2]}
    BY <2>5
  <2>8. /\ clobbered' \in BOOLEAN /\ (~ clobbered' => ~ clobbered)
        /\ (~ clobbered' => AllExact(watches', db')) /\ qhead' = Len(trail')
        /\ confl' \subseteq Literals /\ Falsified(trail', confl')
        /\ Level > 0 => \E x \in confl' : LevelOf(trail', x) = Level
    BY <1>1, <1>2, <2>1, <2>3, <2>6
  <2> QED
    BY <1>1, <1>2, <1>3, <2>1, <2>5, <2>7, <2>8, ConflictPreserved
<1>6. CASE ~ HasConflict(theory)
  <2>1. db' = db /\ watches' = watches /\ confl' = confl /\ pc' = "decide"
    BY <1>6 DEF QueueEmpty
  <2>2. Pointers' /\ Fresh' /\ Conflicting'
    BY <1>1, <2>1 DEF Pointers, Fresh, Conflicting
  <2>3. Lists'
    BY <1>1, <1>2, <1>4, <2>1, ListsNext
  <2>4. ASSUME ~ clobbered, NEW c \in DOMAIN db, db[c].kind # "lemma",
               NEW lit \in {db[c].lits[1], db[c].lits[2]},
               NEW n \in DOMAIN trail, trail[n].lit = - lit
        PROVE  n > qhead \/ Guarded(trail, db[c], lit)
    BY <1>1, <1>2, <2>4, WasKnown
  <2>5. Propagated'
    BY <1>1, <1>2, <2>1, <2>4, PropagatedNext
  <2> QED
    BY <1>1, <1>2, <2>1, <2>2, <2>3, <2>5 DEF Preserved, Phases
<1> QED
  BY <1>5, <1>6

\* A list is at its end: what is left of it is cut off.
LEMMA ListEndsPreserved ==
  ASSUME IInv, ListEnds
  PROVE  Preserved
<1> DEFINE cut == Shrunk(watches[p], i, j)
<1>1. /\ pc = "visit" /\ i > end /\ pc' = "propagate"
      /\ watches' = [watches EXCEPT ![p] = cut]
      /\ setup' = setup /\ db' = db /\ trail' = trail /\ qhead' = qhead
      /\ confl' = confl /\ clobbered' = clobbered
  BY DEF ListEnds
<1>2. /\ setup \in Setups /\ TypedTrail(trail) /\ GoodDb(db) /\ GoodLists(watches, db)
      /\ Level \in Nat /\ clobbered \in BOOLEAN /\ Literals' = Literals /\ confl \subseteq Literals
      /\ qhead \in 0 .. Len(trail)
      /\ \A n \in DOMAIN trail : trail[n].level <= Level
  BY <1>1, Facts DEF Literals
<1>3. /\ p \in Literals /\ i \in Nat /\ j \in Nat /\ end \in Nat
      /\ 1 <= j /\ j <= i /\ i = end + 1 /\ end = Len(watches[p])
  BY <1>1 DEF IInv, Shapes, Pointers
<1>4. watches[p] \in Seq(Watchers)
  BY <1>2, <1>3 DEF GoodLists
<1>5. /\ cut \in Seq(Watchers) /\ DOMAIN cut = 1 .. j - 1 /\ 1 .. j - 1 \subseteq DOMAIN watches[p]
      /\ \A n \in 1 .. j - 1 : cut[n] = watches[p][n]
  <2>1. Len(watches[p]) - (i - j) = j - 1 /\ j - 1 \in 0 .. Len(watches[p])
    BY <1>3
  <2>2. cut = SubSeq(watches[p], 1, j - 1)
    BY <2>1 DEF Shrunk
  <2> DEFINE list == watches[p]
             k == j - 1
  <2>3. list \in Seq(Watchers) /\ k \in 0 .. Len(list) /\ cut = SubSeq(list, 1, k)
    BY <1>4, <2>1, <2>2
  <2> HIDE DEF list, k, cut
  <2>4. /\ cut \in Seq(Watchers) /\ DOMAIN cut = 1 .. k /\ 1 .. k \subseteq DOMAIN list
        /\ \A n \in 1 .. k : cut[n] = list[n]
    BY <2>3
  <2> QED
    BY <2>4 DEF list, k
<1> HIDE DEF cut
<1>6. /\ GoodLists(watches', db) /\ watches'[p] = cut
      /\ \A other \in Literals \ {p} : watches'[other] = watches[other]
  <2>1. Sublist(cut, watches[p])
    BY <1>5 DEF Sublist
  <2> DEFINE v == [watches EXCEPT ![p] = cut]
  <2>2. GoodLists(v, db) /\ v[p] = cut /\ \A other \in Literals \ {p} : v[other] = watches[other]
    BY <1>2, <1>3, <2>1, SublistGood
  <2>3. watches' = v
    BY <1>1
  <2> HIDE DEF v
  <2> QED
    BY <2>2, <2>3
<1>7. ASSUME ~ clobbered PROVE AllExact(watches', db)
  <2>1. /\ Exactly(watches[p], 1 .. j - 1 \union i .. end, p, db)
        /\ \A lit \in Literals \ {p} : Exactly(watches[lit], DOMAIN watches[lit], lit, db)
    BY <1>1, <1>3, <1>7, ListsInside DEF IInv
  <2>2. 1 .. j - 1 \union i .. end = 1 .. j - 1
    BY <1>3
  <2>3. Exactly(cut, DOMAIN cut, p, db)
    BY <1>5, <2>1, <2>2 DEF Exactly
  <2> QED
    BY <1>6, <2>1, <2>3 DEF AllExact
<1>8. Lists'
  BY <1>1, <1>2, <1>7, ListsNext
<1>9. ASSUME ~ clobbered, NEW c \in DOMAIN db, db[c].kind # "lemma",
             NEW lit \in {db[c].lits[1], db[c].lits[2]},
             NEW n \in DOMAIN trail, trail[n].lit = - lit
      PROVE  n > qhead \/ Guarded(trail, db[c], lit)
  <2>1. \/ n > qhead
        \/ \E m \in i .. end : watches[p][m].cref = c
        \/ Guarded(trail, db[c], lit)
    BY <1>1, <1>2, <1>9, WasKnown
  <2>2. i .. end = {}
    BY <1>3
  <2> QED
    BY <2>1, <2>2
<1>10. Propagated'
  BY <1>1, <1>2, <1>9, PropagatedNext
<1>11. Pointers' /\ Conflicting'
  BY <1>1 DEF Pointers, Conflicting
<1>12. Fresh'
  <2>1. Level' = Level
    BY <1>1 DEF Level
  <2> QED
    BY <1>1, <2>1 DEF IInv, Fresh
<1> QED
  BY <1>1, <1>2, <1>6, <1>8, <1>10, <1>11, <1>12 DEF Preserved, Phases

-----------------------------------------------------------------------------
(* Steps: the theory hands over a clause.                                   *)

\* A list cut short: what was in it.
LEMMA ShrunkIs ==
  ASSUME NEW list \in Seq(Watchers), NEW from \in Nat, NEW to \in Nat,
         to <= from, from - to <= Len(list)
  PROVE  /\ Sublist(Shrunk(list, from, to), list)
         /\ from = to => Shrunk(list, from, to) = list
<1> DEFINE k == Len(list) - (from - to)
           cut == SubSeq(list, 1, k)
<1>1. k \in 0 .. Len(list) /\ Len(list) \in Nat
  OBVIOUS
<1>2. from = to => k = Len(list)
  OBVIOUS
<1> HIDE DEF k
<1>3. /\ cut \in Seq(Watchers) /\ DOMAIN cut = 1 .. k /\ \A n \in 1 .. k : cut[n] = list[n]
      /\ 1 .. k \subseteq DOMAIN list
  BY <1>1
<1> HIDE DEF cut
<1>4. Sublist(cut, list)
  BY <1>3 DEF Sublist
<1>5. k = Len(list) => cut = list
  BY <1>3
<1> QED
  BY <1>2, <1>4, <1>5 DEF Shrunk, cut, k

\* What Handed does to the lists, of which w0 are those without the new clause.
HandedTo(w0, lits, list) ==
  LET attached == Attached(w0, Len(db) + 1, lits)
      inPlace == CopiedDown(attached[p], i + 1, j + 1, end)
      appended == Len(attached[p]) # Len(w0[p])
  IN /\ list = inPlace \/ (appended /\ list = attached[p])
     /\ watches' = [attached EXCEPT ![p] = Shrunk(list, i + 1, j + 1)]
     /\ clobbered' = (clobbered \/ (appended /\ i + 1 # j + 1))

\* Handed, with the list it leaves named.
LEMMA HandedBy ==
  ASSUME NEW w0, NEW lits, Handed(w0, lits)
  PROVE  \E list : HandedTo(w0, lits, list)
BY DEF Handed, HandedTo

\* The list of p after the clause is attached: as before, or longer by one.
LEMMA AttachedTo ==
  ASSUME setup \in Setups, NEW d, GoodDb(d), NEW w0, GoodLists(w0, d), NEW lits, GoodLits(lits),
         p \in Literals
  PROVE  LET w == Attached(w0, Len(d) + 1, lits)
         IN /\ w \in [Literals -> Seq(Watchers)] /\ w[p] \in Seq(Watchers)
            /\ Len(w0[p]) \in Nat /\ Len(w0[p]) <= Len(w[p])
            /\ Len(w[p]) = Len(w0[p]) => p # - lits[1] /\ p # - lits[2] /\ w[p] = w0[p]
<1> DEFINE w == Attached(w0, Len(d) + 1, lits)
           a == - lits[1]
           b == - lits[2]
           wa == Watcher(Len(d) + 1, lits[2])
           wb == Watcher(Len(d) + 1, lits[1])
<1>1. w0 \in [Literals -> Seq(Watchers)] /\ Len(d) + 1 \in Nat
  BY DEF GoodLists, GoodDb
<1>2. GetWatchers(w, w0, a, b, wa, wb)
  BY <1>1, AttachedIs
<1> HIDE DEF w, a, b, wa, wb
<1>3. /\ w \in [Literals -> Seq(Watchers)]
      /\ wa \in Watchers /\ wb \in Watchers
      /\ w[a] = Append(w0[a], wa) /\ w[b] = Append(w0[b], wb)
      /\ \A lit \in Literals \ {a, b} : w[lit] = w0[lit]
  BY <1>2 DEF GetWatchers
<1>4. w[p] \in Seq(Watchers) /\ w0[p] \in Seq(Watchers)
  BY <1>1, <1>3
<1>5. p \in {a, b} => Len(w[p]) = Len(w0[p]) + 1
  BY <1>3, <1>4
<1>6. p \notin {a, b} => w[p] = w0[p]
  BY <1>3
<1> QED
  BY <1>3, <1>4, <1>5, <1>6 DEF w, a, b

\* Whatever is left of the list visited, the references are good.
LEMMA HandedGood ==
  ASSUME IInv, Visiting, NEW d, GoodDb(d), Len(d) = Len(db),
         NEW w0, GoodLists(w0, d), Len(w0[p]) = end,
         NEW lits, GoodLits(lits), NEW list, HandedTo(w0, lits, list)
  PROVE  /\ GoodLists(watches', Append(d, Clause(lits, "lemma")))
         /\ clobbered' \in BOOLEAN /\ (~ clobbered' => ~ clobbered)
<1> DEFINE e == Append(d, Clause(lits, "lemma"))
           w == Attached(w0, Len(d) + 1, lits)
           from == i + 1
           to == j + 1
           cut == Shrunk(list, from, to)
<1>1. /\ setup \in Setups /\ p \in Literals /\ i \in Nat /\ j \in Nat /\ end \in Nat
      /\ 1 <= j /\ j <= i /\ i <= end
  BY Facts DEF IInv, Shapes, Pointers, Visiting
<1>2. "lemma" \in Kinds
  BY DEF Kinds
<1>3. GoodLists(w, e)
  BY <1>1, <1>2, AllocIs
<1>4. w[p] \in Seq(Watchers) /\ end <= Len(w[p])
  BY <1>1, AttachedTo
<1>5. /\ list = CopiedDown(w[p], from, to, end) \/ list = w[p]
      /\ watches' = [w EXCEPT ![p] = cut]
      /\ clobbered' \in BOOLEAN /\ (~ clobbered' => ~ clobbered)
  BY Facts DEF HandedTo
<1>6. /\ from \in Nat /\ to \in Nat /\ 1 <= to /\ to <= from
      /\ from <= Len(w[p]) + 1 /\ from - to <= Len(w[p])
  BY <1>1, <1>4
<1> HIDE DEF w, e, from, to
<1>7. Sublist(cut, w[p])
  <2>1. CASE list = w[p]
    BY <1>4, <1>6, <2>1, ShrunkIs
  <2>2. CASE list = CopiedDown(w[p], from, to, end)
    BY <1>1, <1>4, <1>6, <2>2, CompactIs
  <2> QED
    BY <1>5, <2>1, <2>2
<1> HIDE DEF cut
<1>8. GoodLists([w EXCEPT ![p] = cut], e)
  BY <1>1, <1>3, <1>7, SublistGood
<1> QED
  BY <1>5, <1>8 DEF e

\* The lists with another one for p.
Relisted(w, list) == [w EXCEPT ![p] = list]

\* Attaching a clause to lists that do not include that of p and cutting this
\* one commute.
LEMMA AttachedElsewhere ==
  ASSUME setup \in Setups, NEW w0 \in [Literals -> Seq(Watchers)], NEW cref \in Nat,
         NEW lits, GoodLits(lits), p \in Literals, p # - lits[1] /\ p # - lits[2],
         NEW cut \in Seq(Watchers)
  PROVE  Attached(Relisted(w0, cut), cref, lits) = Relisted(Attached(w0, cref, lits), cut)
<1> DEFINE w1 == [w0 EXCEPT ![p] = cut]
           v0 == Attached(w0, cref, lits)
           v1 == Attached(w1, cref, lits)
           a == - lits[1]
           b == - lits[2]
           wa == Watcher(cref, lits[2])
           wb == Watcher(cref, lits[1])
           v == [v0 EXCEPT ![p] = cut]
<1>1. /\ w1 \in [Literals -> Seq(Watchers)] /\ w1[p] = cut
      /\ \A lit \in Literals \ {p} : w1[lit] = w0[lit]
  OBVIOUS
<1> HIDE DEF w1
<1>2. GetWatchers(v0, w0, a, b, wa, wb) /\ GetWatchers(v1, w1, a, b, wa, wb)
  BY <1>1, AttachedIs
<1>3. p \notin {a, b}
  OBVIOUS
<1> HIDE DEF v0, v1, a, b, wa, wb
<1>4. /\ v0 \in [Literals -> Seq(Watchers)] /\ v1 \in [Literals -> Seq(Watchers)]
      /\ a \in Literals /\ b \in Literals
      /\ v0[a] = Append(w0[a], wa) /\ v0[b] = Append(w0[b], wb)
      /\ \A lit \in Literals \ {a, b} : v0[lit] = w0[lit]
      /\ v1[a] = Append(w1[a], wa) /\ v1[b] = Append(w1[b], wb)
      /\ \A lit \in Literals \ {a, b} : v1[lit] = w1[lit]
  BY <1>2 DEF GetWatchers
<1>5. v \in [Literals -> Seq(Watchers)] /\ v[p] = cut /\ \A lit \in Literals \ {p} : v[lit] = v0[lit]
  BY <1>4
<1> HIDE DEF v
<1>6. \A lit \in Literals : v1[lit] = v[lit]
  <2> TAKE lit \in Literals
  <2>1. CASE lit = p
    BY <1>1, <1>3, <1>4, <1>5, <2>1
  <2>2. CASE lit = a
    BY <1>1, <1>3, <1>4, <1>5, <2>2
  <2>3. CASE lit = b
    BY <1>1, <1>3, <1>4, <1>5, <2>3
  <2>4. CASE lit \notin {p, a, b}
    BY <1>1, <1>4, <1>5, <2>4
  <2> QED
    BY <2>1, <2>2, <2>3, <2>4
<1>7. v1 = v
  BY <1>4, <1>5, <1>6
<1> QED
  BY <1>7 DEF v, v0, v1, w1, Relisted

\* As long as no list was clobbered, the lists are exact.
LEMMA HandedExact ==
  ASSUME IInv, Visiting,
         NEW x \in Watchers, x.cref = Reading.cref, x.blocker \in db[Reading.cref].meant,
         NEW d, SameClauses(db, d), GoodDb(d), Len(d) = Len(db),
         (\A w : GoodLists(w, db) => GoodLists(w, d)),
         NEW lits, GoodLits(lits), NEW list, HandedTo(WrittenBack(x), lits, list), ~ clobbered'
  PROVE  AllExact(watches', Append(d, Clause(lits, "lemma")))
<1> DEFINE w0 == WrittenBack(x)
           cref == Len(d) + 1
           w == Attached(w0, cref, lits)
           from == i + 1
           to == j + 1
           e == Append(d, Clause(lits, "lemma"))
<1>1. /\ setup \in Setups /\ p \in Literals /\ i \in Nat /\ j \in Nat /\ end \in Nat
      /\ 1 <= j /\ j <= i /\ i <= end /\ end = Len(watches[p])
  BY Facts DEF IInv, Shapes, Pointers, Visiting
<1>2. /\ GoodLists(w0, db) /\ GoodLists(w0, d)
      /\ w0[p] \in Seq(Watchers) /\ Len(w0[p]) = end
  BY <1>1, WrittenIs
<1>3. w0 \in [Literals -> Seq(Watchers)] /\ cref \in Nat /\ "lemma" \in Kinds
  BY <1>2 DEF GoodLists, GoodDb, Kinds
<1>4. /\ w \in [Literals -> Seq(Watchers)] /\ w[p] \in Seq(Watchers) /\ end <= Len(w[p])
      /\ Len(w[p]) = Len(w0[p]) => p # - lits[1] /\ p # - lits[2] /\ w[p] = w0[p]
  BY <1>1, <1>2, AttachedTo
<1>5. /\ list = CopiedDown(w[p], from, to, end) \/ (Len(w[p]) # Len(w0[p]) /\ list = w[p])
      /\ watches' = [w EXCEPT ![p] = Shrunk(list, from, to)]
      /\ ~ clobbered /\ (Len(w[p]) = Len(w0[p]) \/ from = to)
  <2>1. w = Attached(w0, Len(db) + 1, lits)
    OBVIOUS
  <2> HIDE DEF w
  <2> QED
    BY <2>1 DEF HandedTo
<1>6. /\ Exactly(w0[p], 1 .. (j + 1) - 1 \union i + 1 .. end, p, db)
      /\ \A lit \in Literals \ {p} : Exactly(w0[lit], DOMAIN w0[lit], lit, db)
  BY <1>5, WrittenExactly
<1>7. AllExact(BrokenOff(w0), db) /\ GoodLists(BrokenOff(w0), db)
  BY <1>5, BrokenOffIs
<1>8. /\ from \in Nat /\ to \in Nat /\ 1 <= to /\ to <= from
      /\ from <= Len(w[p]) + 1 /\ from - to <= Len(w[p])
  BY <1>1, <1>4
<1>9. CASE Len(w[p]) = Len(w0[p])
  <2> DEFINE cut == Shrunk(CopiedDown(w0[p], from, to, end), from, to)
  <2>1. list = CopiedDown(w0[p], from, to, end) /\ p # - lits[1] /\ p # - lits[2]
    BY <1>4, <1>5, <1>9
  <2>2. cut \in Seq(Watchers) /\ BrokenOff(w0) = Relisted(w0, cut)
    <3>1. BrokenOff(w0) = Relisted(w0, cut)
      BY DEF BrokenOff, Relisted
    <3>2. Sublist(cut, w0[p])
      <4>1. from <= Len(w0[p]) + 1 /\ end <= Len(w0[p])
        BY <1>1, <1>2
      <4> HIDE DEF from, to, w0
      <4> QED
        BY <1>1, <1>2, <1>8, <4>1, CompactIs
    <3> HIDE DEF cut
    <3> QED
      BY <3>1, <3>2 DEF Sublist
  <2>3. watches' = Relisted(w, cut)
    BY <1>5, <2>1 DEF Relisted
  <2> HIDE DEF cut, from, to, w0, cref
  <2>4. Attached(Relisted(w0, cut), cref, lits) = Relisted(w, cut)
    BY <1>1, <1>3, <2>1, <2>2, AttachedElsewhere
  <2>5. watches' = Attached(BrokenOff(w0), cref, lits)
    BY <2>2, <2>3, <2>4
  <2>6. AllExact(BrokenOff(w0), d) /\ GoodLists(BrokenOff(w0), d)
    BY <1>7, AllExactSame
  <2>7. AllExact(Attached(BrokenOff(w0), Len(d) + 1, lits), Append(d, Clause(lits, "lemma")))
    BY <1>1, <1>3, <2>6, AttachExact
  <2> QED
    BY <2>5, <2>7 DEF cref
<1>10. CASE from = to
  <2>1. Shrunk(list, from, to) = w[p]
    <3> HIDE DEF w, from, to
    <3>1. CASE list = w[p]
      BY <1>4, <1>8, <1>10, <3>1, ShrunkIs
    <3>2. CASE list = CopiedDown(w[p], from, to, end)
      BY <1>1, <1>4, <1>8, <1>10, <3>2, CompactIs
    <3> QED
      BY <1>5, <3>1, <3>2
  <2>2. watches' = w
    <3> HIDE DEF w
    <3> QED
      BY <1>4, <1>5, <2>1
  <2>3. 1 .. (j + 1) - 1 \union i + 1 .. end = DOMAIN w0[p]
    BY <1>1, <1>2, <1>10
  <2> HIDE DEF w0
  <2>4. AllExact(w0, db)
    BY <1>6, <2>3 DEF AllExact
  <2>5. AllExact(w0, d)
    BY <1>2, <2>4, AllExactSame
  <2>6. AllExact(Attached(w0, Len(d) + 1, lits), Append(d, Clause(lits, "lemma")))
    BY <1>1, <1>2, <1>3, <2>5, AttachExact
  <2> QED
    BY <2>2, <2>6
<1> QED
  BY <1>5, <1>9, <1>10

\* A unit clause: its literal is enqueued, and the theory may answer with a
\* conflict.
LEMMA UnitFoundPreserved ==
  ASSUME IInv, UnitFound
  PROVE  Preserved
<1> DEFINE x == Watcher(Reading.cref, First)
           visited == [db EXCEPT ![Reading.cref].lits = Visited]
<1>1. /\ Visiting /\ pc = "visit" /\ setup' = setup
      /\ trail' = Append(trail, Entry(First, Level, ToSet(Visited)))
  BY DEF UnitFound, ToInspect, Inspecting, Visiting
<1>2. PICK pushed \in Push(setup, theory, First) :
        /\ theory' = Checked(pushed)
        /\ \/ /\ ~ HasConflict(pushed)
              /\ db' = visited /\ watches' = [watches EXCEPT ![p][j] = x]
              /\ i' = i + 1 /\ j' = j + 1
              /\ UNCHANGED <<pc, qhead, p, end, confl, clobbered>>
           \/ /\ HasConflict(pushed)
              /\ db' = Append(visited, Clause(LemmaLits(pushed), "lemma"))
              /\ Handed(WrittenBack(x), LemmaLits(pushed))
              /\ confl' = ConflictClause(pushed)
              /\ pc' = "conflict" /\ qhead' = Len(trail') /\ LeftLoop
  BY DEF UnitFound, WrittenBack
<1>3. /\ Literals' = Literals /\ setup \in Setups /\ TypedTrail(trail') /\ Level \in Nat
      /\ Reported(trail', pushed) /\ Extends(trail') /\ IsTrue(trail', First)
      /\ DecisionLevel(trail') = Level /\ GoodDb(db)
  BY <1>1, Facts, UnitReported, TrailExtends DEF Literals, Extends
<1>4. CASE ~ HasConflict(pushed)
  <2>1. /\ db' = visited /\ Keep(x) /\ pc' = pc /\ qhead' = qhead /\ confl' = confl
        /\ clobbered' = clobbered
    BY <1>2, <1>4 DEF Keep
  <2> QED
    BY <1>1, <1>3, <2>1, VisitedPreserved
<1>5. CASE HasConflict(pushed)
  <2> DEFINE lits == LemmaLits(pushed)
  <2>1. /\ db' = Append(visited, Clause(lits, "lemma")) /\ Handed(WrittenBack(x), lits)
        /\ confl' = ConflictClause(pushed) /\ pc' = "conflict" /\ qhead' = Len(trail')
    BY <1>2, <1>5
  <2>2. /\ GoodLits(lits)
        /\ ConflictClause(pushed) \subseteq Literals /\ Falsified(trail', ConflictClause(pushed))
        /\ Level > 0 => \E y \in ConflictClause(pushed) : LevelOf(trail', y) = Level
    BY <1>3, <1>5, LemmaIs DEF GoodLits
  <2>3. /\ SameClauses(db, visited) /\ GoodDb(visited)
        /\ \A w : GoodLists(w, db) => GoodLists(w, visited)
    BY <1>1, VisitedIs
  <2>4. x \in Watchers /\ x.cref = Reading.cref /\ x.blocker \in db[Reading.cref].meant
    BY <1>1, BlockedByFirst
  <2>5. Len(visited) = Len(db)
    <3>1. visited \in Seq(ClausesOf) /\ db \in Seq(ClausesOf) /\ DOMAIN visited = DOMAIN db
      BY <1>3, <2>3 DEF GoodDb, SameClauses
    <3> HIDE DEF visited
    <3> QED
      BY <3>1
  <2>6. GoodLists(WrittenBack(x), db) /\ Len(WrittenBack(x)[p]) = end
    <3>1. end = Len(watches[p])
      BY <1>1 DEF IInv, Shapes, Pointers
    <3> HIDE DEF x
    <3> QED
      BY <1>1, <2>4, <3>1, WrittenIs
  <2> HIDE DEF x, visited, lits
  <2>7. PICK list : HandedTo(WrittenBack(x), lits, list)
    BY <2>1, HandedBy
  <2>8. GoodLists(watches', db') /\ clobbered' \in BOOLEAN /\ (~ clobbered' => ~ clobbered)
    BY <1>1, <2>1, <2>2, <2>3, <2>5, <2>6, <2>7, HandedGood
  <2>9. ~ clobbered' => AllExact(watches', db')
    BY <1>1, <2>1, <2>2, <2>3, <2>4, <2>5, <2>7, HandedExact
  <2>10. /\ GoodDb(db') /\ DOMAIN db' = DOMAIN visited \union {Len(visited) + 1}
         /\ db'[Len(visited) + 1].kind = "lemma"
         /\ \A c \in DOMAIN visited : db'[c] = visited[c]
    <3>1. "lemma" \in Kinds /\ GoodLists(WrittenBack(x), visited)
      BY <2>3, <2>6 DEF Kinds
    <3> QED
      BY <1>3, <2>1, <2>2, <2>3, <3>1, AllocIs
  <2>11. \A c \in DOMAIN db' : db'[c].kind # "lemma" =>
           /\ c \in DOMAIN db /\ db'[c].kind = db[c].kind /\ db'[c].meant = db[c].meant
           /\ {db'[c].lits[1], db'[c].lits[2]} = {db[c].lits[1], db[c].lits[2]}
    <3> TAKE c \in DOMAIN db'
    <3> HAVE db'[c].kind # "lemma"
    <3>1. c \in DOMAIN visited /\ db'[c] = visited[c]
      BY <2>10
    <3> QED
      BY <2>3, <3>1 DEF SameClauses
  <2>12. /\ confl' \subseteq Literals /\ Falsified(trail', confl')
         /\ Level > 0 => \E y \in confl' : LevelOf(trail', y) = Level
    BY <2>1, <2>2
  <2> QED
    BY <1>1, <1>3, <2>1, <2>8, <2>9, <2>10, <2>11, <2>12, ConflictPreserved
<1> QED
  BY <1>4, <1>5

-----------------------------------------------------------------------------
(* Steps: search goes on.                                                   *)

\* A step of search after which propagate goes on: the trail was cut back
\* perhaps and got longer perhaps, and a clause was added perhaps.
LEMMA SearchPreserved ==
  ASSUME IInv, pc \in {"decide", "conflict"}, pc' = "propagate",
         setup' = setup, Literals' = Literals, clobbered' = clobbered, confl' \subseteq Literals,
         TypedTrail(trail'), qhead' \in 0 .. Len(trail'),
         NEW level \in Int, pc = "conflict" => level < Level,
         \A n \in DOMAIN trail :
           trail[n].level <= level => n \in DOMAIN trail' /\ trail'[n] = trail[n],
         \A n \in DOMAIN trail' :
           \/ n > qhead' /\ trail'[n].level = DecisionLevel(trail')
           \/ ~ (n > qhead') /\ n \in DOMAIN trail /\ trail[n].level <= level,
         GoodDb(db'), GoodLists(watches', db'), ~ clobbered => AllExact(watches', db'),
         \A c \in DOMAIN db' :
           \/ c \in DOMAIN db /\ db'[c] = db[c]
           \/ \A lit \in {db'[c].lits[1], db'[c].lits[2]} : \A n \in DOMAIN trail' :
                trail'[n].lit = - lit => n > qhead' \/ Guarded(trail', db'[c], lit)
  PROVE  Preserved
<1>1. /\ setup \in Setups /\ TypedTrail(trail) /\ Level \in Nat /\ clobbered \in BOOLEAN
      /\ qhead = Len(trail) /\ Len(trail) \in Nat /\ DOMAIN trail = 1 .. Len(trail)
  BY Facts DEF IInv, Fresh
<1>2. Pointers' /\ Conflicting' /\ Fresh'
  <2>1. Level' = DecisionLevel(trail')
    BY DEF Level
  <2> QED
    BY <2>1 DEF Pointers, Conflicting, Fresh
<1>3. Lists'
  BY ListsNext
<1>4. ASSUME ~ clobbered', NEW c \in DOMAIN db', db'[c].kind # "lemma",
             NEW lit \in {db'[c].lits[1], db'[c].lits[2]},
             NEW n \in DOMAIN trail', trail'[n].lit = - lit
      PROVE  n > qhead' \/ Guarded(trail', db'[c], lit)
  <2>1. CASE c \in DOMAIN db /\ db'[c] = db[c] /\ ~ (n > qhead')
    <3>1. n \in DOMAIN trail /\ trail[n].level <= level /\ trail[n].lit = - lit
      BY <1>4, <2>1
    <3>2. \/ n > qhead
          \/ pc = "conflict" /\ trail[n].level = Level
          \/ Guarded(trail', db[c], lit)
      BY <1>4, <2>1, <3>1, WasKnown
    <3>3. ~ (n > qhead)
      BY <1>1, <3>1
    <3>4. ~ (pc = "conflict" /\ trail[n].level = Level)
      <4>1. trail[n].level \in Nat
        BY <3>1, Facts
      <4> QED
        BY <1>1, <3>1, <4>1
    <3> QED
      BY <2>1, <3>2, <3>3, <3>4
  <2>2. CASE ~ (c \in DOMAIN db /\ db'[c] = db[c])
    BY <1>4, <2>2
  <2> QED
    BY <2>1, <2>2
<1>5. Propagated'
  BY <1>1, <1>4, PropagatedNext
<1> QED
  BY <1>1, <1>2, <1>3, <1>5 DEF Preserved, Phases

\* A restart.
LEMMA RestartPreserved ==
  ASSUME IInv, Restart
  PROVE  Preserved
<1>1. /\ pc = "decide" /\ pc' = "propagate" /\ setup' = setup /\ db' = db /\ watches' = watches
      /\ confl' = confl /\ clobbered' = clobbered /\ Literals' = Literals
  BY DEF Restart, Literals
<1>2. trail' = KeptUntil(trail, 0) /\ qhead' = Len(trail') /\ TypedTrail(trail')
  BY RestartReported
<1>3. /\ TypedTrail(trail) /\ GoodDb(db) /\ GoodLists(watches, db) /\ confl \subseteq Literals
      /\ 0 \in Int
  BY Facts
<1>4. /\ DOMAIN trail' = {n \in DOMAIN trail : trail[n].level <= 0}
      /\ \A n \in DOMAIN trail' : trail'[n] = trail[n]
  BY <1>2, <1>3, KeptIs DEF TypedTrail
<1>5. Len(trail') \in Nat /\ DOMAIN trail' = 1 .. Len(trail')
  BY <1>2 DEF TypedTrail
<1>6. \A n \in DOMAIN trail' : ~ (n > qhead') /\ n \in DOMAIN trail /\ trail[n].level <= 0
  BY <1>2, <1>4, <1>5
<1>7. ~ clobbered => AllExact(watches, db)
  BY <1>1, ListsOutside DEF IInv
<1>8. qhead' \in 0 .. Len(trail')
  BY <1>2, <1>5
<1> QED
  BY <1>1, <1>2, <1>3, <1>4, <1>6, <1>7, <1>8, SearchPreserved

\* A decision.
LEMMA DecidePreserved ==
  ASSUME IInv, Decide
  PROVE  Preserved
<1>1. /\ pc = "decide" /\ pc' = "propagate" /\ setup' = setup /\ db' = db /\ watches' = watches
      /\ confl' = confl /\ clobbered' = clobbered /\ qhead' = qhead /\ Literals' = Literals
  BY DEF Decide, Literals
<1>2. PICK lit \in Literals :
        /\ Enqueues(trail, lit, Level + 1, {})
        /\ trail' = Append(trail, Entry(lit, Level + 1, {}))
        /\ TypedTrail(trail')
  BY DecideReported
<1>3. /\ TypedTrail(trail) /\ GoodDb(db) /\ GoodLists(watches, db) /\ confl \subseteq Literals
      /\ setup \in Setups /\ Level \in Int /\ Len(trail) \in Nat /\ DOMAIN trail = 1 .. Len(trail)
      /\ \A n \in DOMAIN trail : trail[n].level <= Level
      /\ qhead = Len(trail)
  BY <1>1, Facts DEF IInv, Fresh
<1>4. /\ DecisionLevel(trail') = Level + 1 /\ Len(trail') = Len(trail) + 1
      /\ DOMAIN trail' = DOMAIN trail \union {Len(trail) + 1}
      /\ trail'[Len(trail) + 1].level = Level + 1
      /\ \A n \in DOMAIN trail : trail'[n] = trail[n]
  BY <1>2, <1>3, EnqueueIs
<1>5. \A n \in DOMAIN trail' :
        \/ n > qhead' /\ trail'[n].level = DecisionLevel(trail')
        \/ ~ (n > qhead') /\ n \in DOMAIN trail /\ trail[n].level <= Level
  BY <1>1, <1>3, <1>4
<1>6. ~ clobbered => AllExact(watches, db)
  BY <1>1, ListsOutside DEF IInv
<1>7. qhead' \in 0 .. Len(trail')
  BY <1>1, <1>3, <1>4
<1>8. \A n \in DOMAIN trail : n \in DOMAIN trail'
  BY <1>4
<1> QED
  BY <1>1, <1>2, <1>3, <1>4, <1>5, <1>6, <1>7, <1>8, SearchPreserved

\* A clause is learnt: it is unit on the trail cut back, and its second
\* literal is of the highest level that is left.
LEMMA LearnPreserved ==
  ASSUME IInv, Learn
  PROVE  Preserved
<1>1. /\ pc = "conflict" /\ pc' = "propagate" /\ setup' = setup /\ confl' = {}
      /\ clobbered' = clobbered /\ Literals' = Literals
  BY DEF Learn, Literals
<1>2. PICK learnt, lit, level :
        /\ Learning(learnt, lit, level) /\ Learnable(learnt, lit, level)
        /\ trail' = Append(KeptUntil(trail, level),
                           Entry(lit, level, IF learnt = {lit} THEN {} ELSE learnt))
        /\ qhead' = Len(KeptUntil(trail, level))
        /\ TypedTrail(KeptUntil(trail, level)) /\ TypedTrail(trail')
  BY LearnReported
<1> DEFINE kept == KeptUntil(trail, level)
           reason == IF learnt = {lit} THEN {} ELSE learnt
           lits == LearntLits(learnt)
<1>3. /\ TypeOK /\ TypedTrail(trail) /\ GoodDb(db) /\ GoodLists(watches, db) /\ setup \in Setups
      /\ Level \in Nat /\ Len(trail) \in Nat
  BY Facts
<1>4. /\ learnt \in SUBSET Literals /\ lit \in learnt /\ lit \in Literals
      /\ level \in Nat /\ level \in Int /\ level < Level
      /\ Falsified(kept, learnt \ {lit}) /\ Enqueues(kept, lit, level, reason)
  BY <1>2 DEF Learnable
<1>5. /\ DOMAIN kept = {n \in DOMAIN trail : trail[n].level <= level}
      /\ \A n \in DOMAIN kept : kept[n] = trail[n]
  BY <1>3, <1>4, KeptIs DEF TypedTrail
<1>6. /\ trail' = Append(kept, Entry(lit, level, reason)) /\ qhead' = Len(kept)
      /\ TypedTrail(kept) /\ Len(kept) \in Nat
  BY <1>2 DEF TypedTrail
<1> HIDE DEF kept, reason
<1>7. /\ DecisionLevel(trail') = level /\ Len(trail') = Len(kept) + 1
      /\ DOMAIN trail' = DOMAIN kept \union {Len(kept) + 1}
      /\ trail'[Len(kept) + 1].level = level /\ trail'[Len(kept) + 1].lit = lit
      /\ \A n \in DOMAIN kept : trail'[n] = kept[n] /\ n <= Len(kept)
  BY <1>3, <1>4, <1>6, EnqueueIs
<1>8. /\ \A n \in DOMAIN trail :
           trail[n].level <= level => n \in DOMAIN trail' /\ trail'[n] = trail[n]
      /\ qhead' \in 0 .. Len(trail')
      /\ \A n \in DOMAIN trail' :
           \/ n > qhead' /\ trail'[n].level = DecisionLevel(trail')
           \/ ~ (n > qhead') /\ n \in DOMAIN trail /\ trail[n].level <= level
  <2>1. \A n \in DOMAIN trail :
          trail[n].level <= level => n \in DOMAIN trail' /\ trail'[n] = trail[n]
    BY <1>5, <1>7
  <2>2. qhead' \in 0 .. Len(trail')
    BY <1>6, <1>7
  <2>3. ASSUME NEW n \in DOMAIN kept
        PROVE  ~ (n > qhead') /\ n \in DOMAIN trail /\ trail[n].level <= level
    <3>1. n <= Len(kept) /\ n \in Nat
      BY <1>6, <1>7 DEF TypedTrail
    <3> QED
      BY <1>5, <1>6, <3>1
  <2>4. Len(kept) + 1 > qhead'
    BY <1>6
  <2> QED
    BY <1>7, <2>1, <2>2, <2>3, <2>4
<1>9. ~ clobbered => AllExact(watches, db)
  BY <1>1, ListsOutside DEF IInv
<1>10. IF Len(lits) = 1 THEN db' = db /\ watches' = watches
       ELSE /\ db' = Append(db, Clause(lits, "learnt"))
            /\ watches' = Attached(watches, Len(db) + 1, lits)
  BY <1>2 DEF Learn, Learning
<1>11. CASE learnt = {lit}
  <2>1. Len(lits) = 1
    BY <1>2, <1>3, <1>11, LearntLitsIs
  <2>2. db' = db /\ watches' = watches
    BY <1>10, <2>1
  <2> QED
    BY <1>1, <1>2, <1>3, <1>4, <1>8, <1>9, <2>2, SearchPreserved
<1>12. CASE learnt # {lit}
  <2>1. /\ lits[1] = lit /\ lits \in Seq(Literals) /\ Len(lits) > 1
        /\ IsInjective(lits) /\ ToSet(lits) = learnt
        /\ lits[2] \in learnt \ {lit} /\ LevelOf(trail, lits[2]) = level
    BY <1>2, <1>3, <1>12, LearntLitsIs
  <2>2. GoodLits(lits) /\ "learnt" \in Kinds
    BY <2>1 DEF GoodLits, Kinds
  <2> HIDE DEF lits
  <2>3. /\ db' = Append(db, Clause(lits, "learnt"))
        /\ watches' = Attached(watches, Len(db) + 1, lits)
    BY <1>10, <2>1
  <2>4. /\ GoodDb(db') /\ GoodLists(watches', db')
        /\ DOMAIN db' = DOMAIN db \union {Len(db) + 1}
        /\ db'[Len(db) + 1].lits = lits /\ db'[Len(db) + 1].meant = ToSet(lits)
        /\ \A c \in DOMAIN db : db'[c] = db[c]
    BY <1>3, <2>2, <2>3, AllocIs
  <2>5. ~ clobbered => AllExact(watches', db')
    BY <1>3, <1>9, <2>2, <2>3, AttachExact
  <2> DEFINE c == Len(db) + 1
  <2>6. ASSUME NEW n \in DOMAIN trail', trail'[n].lit = - lits[1]
        PROVE  n > qhead'
    <3>1. n \notin DOMAIN kept
      <4>1. ~ IsFalse(kept, lit)
        BY <1>4 DEF Enqueues, Assigned
      <4> QED
        BY <1>7, <2>1, <2>6, <4>1 DEF IsFalse, IsTrue
    <3> QED
      BY <1>6, <1>7, <3>1
  <2>7. Guarded(trail', db'[c], lits[2])
    <3> DEFINE other == lits[2]
    <3>1. other \in Literals /\ IsFalse(kept, other) /\ LevelOf(trail, other) = level
      BY <1>4, <2>1 DEF Falsified
    <3>2. PICK n \in DOMAIN kept : kept[n].lit = - other
      BY <3>1 DEF IsFalse, IsTrue
    <3>3. n \in DOMAIN trail /\ trail[n].lit = - other /\ n \in DOMAIN trail' /\ trail'[n] = trail[n]
      BY <1>5, <1>7, <3>2
    <3> HIDE DEF other
    <3>4. LevelOf(trail, other) = trail[n].level /\ LevelOf(trail', other) = trail'[n].level
      <4>1. LevelOf(trail, other) = trail[n].level
        BY <1>3, <3>1, <3>3, PlaceIs
      <4>2. LevelOf(trail', other) = trail'[n].level
        <5>1. /\ setup \in Setups /\ TypedTrail(trail') /\ other \in Literals
              /\ n \in DOMAIN trail' /\ trail'[n].lit = - other
          BY <1>2, <1>3, <3>1, <3>3
        <5> QED
          BY <5>1, PlaceIs
      <4> QED
        BY <4>1, <4>2
    <3> DEFINE last == Len(kept) + 1
    <3>5. last \in DOMAIN trail' /\ trail'[last].lit = lit /\ trail'[last].level = level
      BY <1>7
    <3> HIDE DEF last
    <3>6. LevelOf(trail', lit) = level /\ IsTrue(trail', lit)
      <4>1. LevelOf(trail', lit) = level
        <5>1. setup \in Setups /\ TypedTrail(trail') /\ lit \in Literals
          BY <1>2, <1>3, <1>4
        <5> QED
          BY <3>5, <5>1, PlaceIs
      <4> QED
        BY <3>5, <4>1 DEF IsTrue
    <3>7. lit \in db'[c].meant
      BY <1>4, <2>1, <2>4
    <3>8. LevelOf(trail', lit) <= LevelOf(trail', other)
      <4>1. LevelOf(trail', other) = level
        BY <3>1, <3>3, <3>4
      <4> QED
        BY <1>4, <3>6, <4>1
    <3> QED
      BY <3>6, <3>7, <3>8 DEF Guarded, other
  <2>8. \A y \in DOMAIN db' :
          \/ y \in DOMAIN db /\ db'[y] = db[y]
          \/ \A x \in {db'[y].lits[1], db'[y].lits[2]} : \A n \in DOMAIN trail' :
               trail'[n].lit = - x => n > qhead' \/ Guarded(trail', db'[y], x)
    BY <2>4, <2>6, <2>7
  <2> HIDE DEF c
  <2> QED
    BY <1>1, <1>2, <1>4, <1>8, <2>4, <2>5, <2>8, SearchPreserved
<1> QED
  BY <1>11, <1>12

-----------------------------------------------------------------------------
(* The invariant holds.                                                     *)

\* Stuttering keeps the invariant.
LEMMA IdleStep ==
  ASSUME IInv, UNCHANGED vars
  PROVE  IInv'
<1>1. /\ setup' = setup /\ pc' = pc /\ db' = db /\ watches' = watches /\ trail' = trail
      /\ qhead' = qhead /\ theory' = theory /\ p' = p /\ i' = i /\ j' = j /\ end' = end
      /\ confl' = confl /\ conflicts' = conflicts /\ clobbered' = clobbered
  BY DEF vars
<1>2. Literals' = Literals /\ Level' = Level
  BY <1>1 DEF Literals, Level
<1>3. TypeOK'
  BY <1>1, <1>2
     DEF IInv, Shapes, TypeOK, ClausesOf, Watchers, EntriesOf, Theories
<1>4. Shapes'
  BY <1>1, <1>2, <1>3 DEF IInv, Shapes, Pointers, References
<1>5. Fresh' /\ Verdict' /\ Conflicting'
  BY <1>1, <1>2 DEF IInv, Fresh, Verdict, Conflicting
<1>6. Lists'
  BY <1>1, <1>2 DEF IInv, Lists, Live
<1>7. Propagated'
  BY <1>1, <1>2 DEF IInv, Propagated, Pending
<1> QED
  BY <1>4, <1>5, <1>6, <1>7 DEF IInv

\* Every step keeps the invariant.
LEMMA InvStep ==
  ASSUME IInv, [Next]_vars
  PROVE  IInv'
<1>1. CASE UNCHANGED vars
  BY <1>1, IdleStep
<1>2. CASE Next /\ ~ UNCHANGED vars
  <2>1. Preserved
    <3>1. CASE NextLiteral
      BY <3>1, NextLiteralPreserved
    <3>2. CASE BlockerTrue
      BY <3>2, BlockerTruePreserved
    <3>3. CASE AssertFails
      BY <3>3, AssertFailsPreserved
    <3>4. CASE FirstTrue
      BY <3>4, FirstTruePreserved
    <3>5. CASE MoveWatch
      BY <3>5, MoveWatchPreserved
    <3>6. CASE UnitFound
      BY <3>6, UnitFoundPreserved
    <3>7. CASE ClauseFalse
      BY <3>7, ClauseFalsePreserved
    <3>8. CASE ListEnds
      BY <3>8, ListEndsPreserved
    <3>9. CASE QueueEmpty
      BY <3>9, QueueEmptyPreserved
    <3>10. CASE Learn
      BY <3>10, LearnPreserved
    <3>11. CASE Restart
      BY <3>11, RestartPreserved
    <3>12. CASE Decide
      BY <3>12, DecidePreserved
    <3>13. CASE Stopped
      BY <1>2, <3>13 DEF Stopped
    <3> QED
      BY <1>2, <3>1, <3>2, <3>3, <3>4, <3>5, <3>6, <3>7, <3>8, <3>9, <3>10, <3>11, <3>12, <3>13
         DEF Next
  <2> QED
    BY <1>2, <2>1, InvNext
<1> QED
  BY <1>1, <1>2

-----------------------------------------------------------------------------
(* The solver as parsing leaves it.                                         *)

\* No lists, and the lists after each clause of the formula.
NoLists == [lit \in Literals |-> << >>]

ListsAfter ==
  CHOOSE lists :
    lists = [n \in 0 .. Len(setup.formula) |->
               IF n = 0 THEN [lit \in LiteralsOf(setup) |-> << >>]
               ELSE Attached(lists[n - 1], n, setup.formula[n])]

\* Parsed is the run of a recursion over the clauses: the recursion exists, by
\* InductionFacts, so CHOOSE picks it.
LEMMA ParsedIs ==
  ASSUME setup \in Setups
  PROVE  /\ Len(setup.formula) \in Nat
         /\ Parsed(setup) = ListsAfter[Len(setup.formula)]
         /\ ListsAfter[0] = NoLists
         /\ \A n \in 1 .. Len(setup.formula) :
              ListsAfter[n] = Attached(ListsAfter[n - 1], n, setup.formula[n])
<1> DEFINE size == Len(setup.formula)
           S == [Literals -> Seq(Watchers)]
           step == [x \in S \X (1 .. size) |-> Attached(x[1], x[2], setup.formula[x[2]])]
           s == ListsAfter
<1>1. size \in Nat /\ \A n \in 1 .. size : n \in Nat /\ GoodLits(setup.formula[n])
  <2>1. /\ setup.formula \in Seq(Seq(Literals))
        /\ \A n \in DOMAIN setup.formula :
             Len(setup.formula[n]) > 1 /\ IsInjective(setup.formula[n])
    BY SetupIs
  <2> QED
    BY <2>1 DEF GoodLits
<1>2. NoLists \in S
  BY DEF NoLists
<1>3. step \in [S \X (1 .. size) -> S]
  <2>1. ASSUME NEW w \in S, NEW n \in 1 .. size
        PROVE  Attached(w, n, setup.formula[n]) \in S
    BY <1>1, AttachedIs DEF GetWatchers
  <2> HIDE DEF size, S
  <2> QED
    BY <2>1
<1>4. PICK g : IsRun(g, size, S, NoLists, step)
  <2> HIDE DEF size, S, step
  <2> QED
    BY <1>1, <1>2, <1>3, Recursion
<1>5. /\ g \in [0 .. size -> S] /\ g[0] = NoLists
      /\ \A n \in 1 .. size : g[n] = Attached(g[n - 1], n, setup.formula[n])
  <2>1. \A n \in 1 .. size : g[n] = Attached(g[n - 1], n, setup.formula[n])
    <3> TAKE n \in 1 .. size
    <3>1. g[n - 1] \in S
      <4> HIDE DEF S
      <4> QED
        BY <1>1, <1>4 DEF IsRun
    <3> HIDE DEF S, size
    <3>2. step[<<g[n - 1], n>>] = Attached(g[n - 1], n, setup.formula[n])
      BY <3>1
    <3> HIDE DEF step
    <3> QED
      BY <1>4, <3>2 DEF IsRun
  <2> HIDE DEF size, S, step
  <2> QED
    BY <1>4, <2>1 DEF IsRun
<1>6. g = [n \in 0 .. size |->
             IF n = 0 THEN [lit \in LiteralsOf(setup) |-> << >>]
             ELSE Attached(g[n - 1], n, setup.formula[n])]
  <2> HIDE DEF size, S, step
  <2>1. \A n \in 0 .. size : n # 0 => n \in 1 .. size
    BY <1>1
  <2> QED
    BY <1>5, <2>1 DEF NoLists, Literals
<1>7. s = [n \in 0 .. size |->
             IF n = 0 THEN [lit \in LiteralsOf(setup) |-> << >>]
             ELSE Attached(s[n - 1], n, setup.formula[n])]
  BY <1>6 DEF ListsAfter
<1>8. Parsed(setup) = s[size]
  BY DEF Parsed, ListsAfter
<1> HIDE DEF s, size
<1>9. s[0] = NoLists
  BY <1>1, <1>7 DEF NoLists, Literals
<1>10. ASSUME NEW n \in 1 .. size
       PROVE  s[n] = Attached(s[n - 1], n, setup.formula[n])
  <2>1. n \in 0 .. size /\ n # 0
    BY <1>1
  <2> QED
    BY <1>7, <2>1
<1> QED
  BY <1>1, <1>8, <1>9, <1>10 DEF s, size

\* The first clauses of the formula, as the memory holds them.
FirstClauses(n) == [m \in 1 .. n |-> Clause(setup.formula[m], "formula")]

\* The clauses and the lists that parsing leaves are good, and the lists exact.
LEMMA ParsedGood ==
  ASSUME setup \in Setups
  PROVE  LET size == Len(setup.formula)
         IN /\ size \in Nat
            /\ GoodDb(FirstClauses(size))
            /\ GoodLists(Parsed(setup), FirstClauses(size))
            /\ AllExact(Parsed(setup), FirstClauses(size))
<1> DEFINE size == Len(setup.formula)
           Good(n) == /\ GoodDb(FirstClauses(n))
                      /\ GoodLists(ListsAfter[n], FirstClauses(n))
                      /\ AllExact(ListsAfter[n], FirstClauses(n))
           T == {n \in 0 .. size : Good(n)}
<1>1. size \in Nat /\ \A n \in 1 .. size : GoodLits(setup.formula[n])
  <2>1. /\ setup.formula \in Seq(Seq(Literals))
        /\ \A n \in DOMAIN setup.formula :
             Len(setup.formula[n]) > 1 /\ IsInjective(setup.formula[n])
    BY SetupIs
  <2> QED
    BY <2>1 DEF GoodLits
<1>2. Good(0)
  <2>1. FirstClauses(0) = << >>
    BY DEF FirstClauses
  <2>2. << >> \in Seq(ClausesOf) /\ DOMAIN << >> = {}
    OBVIOUS
  <2>3. /\ ListsAfter[0] \in [Literals -> Seq(Watchers)]
        /\ \A lit \in Literals : DOMAIN ListsAfter[0][lit] = {}
    <3>1. ListsAfter[0] = NoLists
      BY ParsedIs
    <3>2. NoLists \in [Literals -> Seq(Watchers)] /\ \A lit \in Literals : NoLists[lit] = << >>
      BY DEF NoLists
    <3> QED
      BY <2>2, <3>1, <3>2
  <2> QED
    BY <2>1, <2>2, <2>3 DEF GoodDb, GoodLists, AllExact, Exactly
<1>3. ASSUME NEW n \in 0 .. size - 1, Good(n)
      PROVE  Good(n + 1)
  <2>1. n \in Nat /\ n + 1 \in 1 .. size /\ (n + 1) - 1 = n
    BY <1>1
  <2> DEFINE lits == setup.formula[n + 1]
             d == FirstClauses(n)
             w == ListsAfter[n]
  <2>2. ListsAfter[n + 1] = Attached(w, n + 1, lits)
    BY <2>1, ParsedIs
  <2>3. Len(d) = n /\ FirstClauses(n + 1) = Append(d, Clause(lits, "formula"))
    BY <2>1 DEF FirstClauses
  <2>4. GoodLits(lits) /\ "formula" \in Kinds /\ GoodDb(d) /\ GoodLists(w, d) /\ AllExact(w, d)
    BY <1>1, <1>3, <2>1 DEF Kinds
  <2> HIDE DEF lits, d, w
  <2>5. /\ GoodDb(Append(d, Clause(lits, "formula")))
        /\ GoodLists(Attached(w, Len(d) + 1, lits), Append(d, Clause(lits, "formula")))
    BY <2>4, AllocIs
  <2>6. AllExact(Attached(w, Len(d) + 1, lits), Append(d, Clause(lits, "formula")))
    BY <2>4, AttachExact
  <2> QED
    BY <2>2, <2>3, <2>5, <2>6
<1> HIDE DEF Good
<1>4. \A n \in 0 .. size : n \in T
  <2>1. 0 \in T
    BY <1>1, <1>2
  <2>2. \A n \in 0 .. size - 1 : n \in T => n + 1 \in T
    BY <1>1, <1>3
  <2> HIDE DEF T, size
  <2> QED
    BY <1>1, <2>1, <2>2, BoundedInduction
<1>5. Good(size)
  BY <1>1, <1>4
<1> QED
  BY <1>1, <1>5, ParsedIs DEF Good

\* The invariant holds before the first propagation.
LEMMA StartIs ==
  ASSUME Init
  PROVE  IInv
<1>1. /\ setup \in Setups /\ pc = "propagate" /\ trail = << >> /\ qhead = 0
      /\ theory = Reset(FALSE) /\ confl = {} /\ clobbered = FALSE
      /\ watches = Parsed(setup)
  BY DEF Init
<1>2. db = FirstClauses(Len(setup.formula))
  <2>1. DOMAIN setup.formula = 1 .. Len(setup.formula)
    BY <1>1, SetupIs
  <2> QED
    BY <2>1 DEF Init, FirstClauses
<1>3. GoodDb(db) /\ GoodLists(watches, db) /\ AllExact(watches, db)
  BY <1>1, <1>2, ParsedGood
<1>4. theory.vids = << >> /\ theory.conflict = FALSE /\ theory \in Theories
  BY <1>1 DEF Reset, Theories
<1>5. IsTrail(trail)
  <2>1. trail \in Seq(Entries) /\ DOMAIN trail = {}
    BY <1>1
  <2> QED
    BY <2>1 DEF IsTrail, Consistent, Sorted, Reasoned, Decided
<1>6. DOMAIN trail = {} /\ Len(trail) = 0 /\ trail \in Seq(EntriesOf)
  BY <1>1
<1>7. Shapes
  <2>1. TypeOK
    <3>1. db \in Seq(ClausesOf) /\ watches \in [Literals -> Seq(Watchers)]
      BY <1>3 DEF GoodDb, GoodLists
    <3>2. qhead \in 0 .. Len(trail)
      BY <1>1, <1>6
    <3>3. confl \subseteq Literals /\ clobbered \in BOOLEAN
      BY <1>1
    <3>4. pc \in Phases
      BY <1>1 DEF Phases
    <3> QED
      BY <1>1, <1>4, <1>5, <1>6, <3>1, <3>2, <3>3, <3>4 DEF TypeOK
  <2> QED
    BY <1>1, <1>3, <2>1 DEF Shapes, Pointers, References, GoodDb, GoodLists
<1>8. Fresh
  BY <1>1, <1>6 DEF Fresh
<1>9. Verdict
  <2>1. Lits(trail) = << >>
    BY <1>6 DEF Lits
  <2>2. Among(setup.vids, << >>) = << >>
    BY AmongEmpty
  <2>3. ~ HasConflict(theory)
    BY <1>4 DEF HasConflict
  <2> QED
    BY <1>1, <1>4, <2>1, <2>2, <2>3 DEF Verdict
<1>10. Conflicting
  BY <1>1 DEF Conflicting
<1>11. Lists
  BY <1>1, <1>3 DEF Lists, Live, AllExact
<1>12. Propagated
  <2>1. TypedTrail(trail)
    BY <1>5, <1>6 DEF TypedTrail
  <2>2. \A lit \in Literals : ~ IsFalse(trail, lit)
    BY <1>1, <1>6, <2>1, PlaceIs
  <2>3. \A c \in DOMAIN db : {db[c].lits[1], db[c].lits[2]} \subseteq Literals
    <3> TAKE c \in DOMAIN db
    <3>1. db[c] \in ClausesOf /\ Whole(db[c])
      BY <1>3 DEF GoodDb
    <3>2. db[c].lits \in Seq(Literals) /\ Len(db[c].lits) > 1
      BY <3>1 DEF ClausesOf, Whole
    <3> QED
      BY <3>2
  <2> QED
    BY <2>2, <2>3 DEF Propagated
<1> QED
  BY <1>7, <1>8, <1>9, <1>10, <1>11, <1>12 DEF IInv

\* The inductive invariant: the pointers and references are good, what is
\* still to propagate and every conflict is of the current level, the lists
\* have the clauses that watch their literals and no others, and a false
\* watched literal is pending or guarded by a true one.
THEOREM InvariantHolds == Spec => []IInv
<1>1. Init => IInv
  BY StartIs
<1>2. IInv /\ [Next]_vars => IInv'
  BY InvStep
<1> QED
  BY <1>1, <1>2, PTL DEF Spec

-----------------------------------------------------------------------------
(* The properties.                                                          *)

\* The types of the variables, for every formula and every family of sets.
THEOREM TypeCorrect == Spec => []TypeOK
<1>1. IInv => TypeOK
  BY DEF IInv, Shapes
<1> QED
  BY <1>1, InvariantHolds, PTL

\* How often a list that is exact has a clause.
LEMMA ExactlyCounts ==
  ASSUME NEW list, NEW lit, NEW clauses, NEW c \in DOMAIN clauses,
         Exactly(list, DOMAIN list, lit, clauses)
  PROVE  Cardinality({n \in DOMAIN list : list[n].cref = c})
           = IF lit \in Watching(clauses[c]) THEN 1 ELSE 0
<1> DEFINE places == {n \in DOMAIN list : list[n].cref = c}
<1>1. CASE lit \in Watching(clauses[c])
  <2>1. PICK n \in DOMAIN list : list[n].cref = c
    BY <1>1 DEF Exactly
  <2>2. places = {n}
    BY <2>1 DEF Exactly
  <2>3. Cardinality(places) = 1
    BY <2>2, FS_Singleton
  <2> QED
    BY <1>1, <2>3
<1>2. CASE lit \notin Watching(clauses[c])
  <2>1. places = {}
    BY <1>2 DEF Exactly
  <2>2. Cardinality(places) = 0
    BY <2>1, FS_EmptySet
  <2> QED
    BY <1>2, <2>2
<1> QED
  BY <1>1, <1>2

\* A visit meets no watcher of a clause that does not watch the literal, and
\* between visits every clause has its literals and its two watchers, once
\* each (Solver.cc:223-230, 624-675), as long as no clause was attached to a
\* list in the middle of its visit.
THEOREM ListsAreTrue == Spec => []ListsTrue
<1>1. ASSUME IInv PROVE WatcherInPlace
  <2>1. Shapes /\ Lists
    BY <1>1 DEF IInv
  <2> QED
    BY <2>1, InPlaceIs DEF WatcherInPlace, FalseLiteralWatched, Inspecting
<1>2. ASSUME IInv, ~ clobbered, pc # "visit", NEW c \in DOMAIN db
      PROVE  /\ ToSet(db[c].lits) = db[c].meant
             /\ \A lit \in Literals :
                  Cardinality(WatchersOf(c, lit)) =
                    IF - lit \in {db[c].lits[1], db[c].lits[2]} THEN 1 ELSE 0
             /\ \A lit \in Literals : \A n \in WatchersOf(c, lit) :
                  watches[lit][n].blocker \in db[c].meant
  <2>1. setup \in Setups /\ GoodDb(db) /\ GoodLists(watches, db)
    BY <1>2, Facts
  <2>2. AllExact(watches, db)
    BY <1>2, ListsOutside DEF IInv
  <2>3. ASSUME NEW lit \in Literals
        PROVE  Cardinality(WatchersOf(c, lit)) =
                 IF - lit \in {db[c].lits[1], db[c].lits[2]} THEN 1 ELSE 0
    <3>1. lit \in Watching(db[c]) <=> - lit \in {db[c].lits[1], db[c].lits[2]}
      <4>1. - (- lit) = lit
        BY <2>1, SetupIs
      <4> QED
        BY <1>2, <2>1, <4>1, WatchedIs
    <3>2. Exactly(watches[lit], DOMAIN watches[lit], lit, db)
      BY <2>2 DEF AllExact
    <3> QED
      BY <1>2, <3>1, <3>2, ExactlyCounts DEF WatchersOf
  <2>4. ToSet(db[c].lits) = db[c].meant
    BY <1>2, <2>1 DEF GoodDb, Whole
  <2>5. \A lit \in Literals : \A n \in WatchersOf(c, lit) : watches[lit][n].blocker \in db[c].meant
    BY <2>1 DEF GoodLists, WatchersOf
  <2> QED
    BY <2>3, <2>4, <2>5
<1>3. IInv => ListsTrue
  BY <1>1, <1>2 DEF ListsTrue, TwoWatches
<1> QED
  BY <1>3, InvariantHolds, PTL

\* When propagate is done, a clause that is not the theory's is satisfied or
\* has two literals left (Solver.cc:610-690), after any backjump and restart:
\* the false literals among the two it watches are guarded by a true one.
THEOREM UnitsAreFound == Spec => []UnitsFound
<1>1. ASSUME IInv, ~ clobbered, pc = "decide", NEW c \in DOMAIN db, db[c].kind # "lemma",
             ~ Satisfied(trail, db[c].meant)
      PROVE  Several({lit \in db[c].meant : ~ Assigned(trail, lit)})
  <2>1. setup \in Setups /\ GoodDb(db) /\ TypedTrail(trail) /\ DOMAIN trail = 1 .. Len(trail)
    BY <1>1, Facts
  <2>2. qhead = Len(trail)
    BY <1>1 DEF IInv, Fresh
  <2>3. ASSUME NEW lit \in {db[c].lits[1], db[c].lits[2]}
        PROVE  lit \in db[c].meant /\ ~ Assigned(trail, lit)
    <3>1. lit \in Literals /\ lit \in db[c].meant /\ - lit \in Literals
      BY <1>1, <2>1, WatchedIs, SetupIs
    <3>2. ~ IsTrue(trail, lit)
      BY <1>1, <3>1 DEF Satisfied
    <3>3. ~ Guarded(trail, db[c], lit)
      BY <1>1 DEF Guarded, Satisfied
    <3>4. IsFalse(trail, lit) => ~ Pending(c, lit)
      <4> SUFFICES ASSUME IsFalse(trail, lit) PROVE ~ Pending(c, lit)
        OBVIOUS
      <4>1. PICK n \in DOMAIN trail : trail[n].lit = - lit
        BY DEF IsFalse, IsTrue
      <4>2. EntryOf(trail, lit) = n
        BY <2>1, <3>1, <4>1, PlaceIs
      <4>3. Len(trail) \in Nat /\ n \in 1 .. Len(trail)
        BY <1>1, <2>1, Facts
      <4> QED
        BY <1>1, <2>2, <4>2, <4>3 DEF Pending
    <3>5. ~ IsFalse(trail, lit)
      BY <1>1, <3>3, <3>4 DEF IInv, Propagated
    <3> QED
      BY <3>1, <3>2, <3>5 DEF Assigned
  <2>4. db[c].lits[1] # db[c].lits[2]
    BY <1>1, <2>1, WatchedIs
  <2> QED
    BY <2>3, <2>4 DEF Several
<1>2. IInv => UnitsFound
  BY <1>1 DEF UnitsFound
<1> QED
  BY <1>2, InvariantHolds, PTL
=============================================================================
