---------------------------- MODULE MCSolverParts ----------------------------
(***************************************************************************)
(* The data structures under the search of cb_minisat, each on its own      *)
(* small instances: the watch lists (MCWatchedClauses), the order of the    *)
(* variables and the memory of the clauses; and the preprocessing before    *)
(* it.  A behaviour is that of one of them.                                 *)
(***************************************************************************)
EXTENDS MCWatchedClauses, VarOrder

VARIABLES which,
          formula, mem, wasted, clauses, learnts, dirty, simplified,
          frozen, use_asymm, s, bwd, elim, eliminated, elimclauses

\* The first lets a learnt clause of three literals be removed while others
\* are reasons; in the second clauses are trimmed, in the third units meet.
Memory == INSTANCE ClauseMemory WITH
  Formulas <- {<<<<1, 2, 3>>, <<-1, 2, 3>>>>,
               <<<<1, 2, 3>>, <<-1, 2, -3>>, <<-2, 3>>>>,
               <<<<-1, -2>>, <<1, -3, 2>>>>},
  MaxConflicts <- 2

\* The clause {1, 2} and three others over three variables.
Triples == {c \in SUBSET {1, 2, 3, -1, -2, -3} :
              Cardinality(c) \in 2 .. 3 /\ \A lit \in c : - lit \notin c}
Simp == INSTANCE SimpSolver WITH
  Formulas <- {<<{1, 2}>> \o SetToSeq(others) : others \in kSubset(3, Triples \ {{1, 2}})},
  FrozenSets <- {{}, {3}}

memoryVars == <<mem, wasted, clauses, learnts, dirty, simplified>>
listVars == <<setup, db, theory, p, i, j, end, clobbered>>
simpVars == <<frozen, use_asymm, s, bwd, elim, eliminated, elimclauses>>
partVars == <<which, vars, formula, orderVars, memoryVars, simpVars>>

\* The variables of a part that is idle; the heap of variables is then empty.
none == 0
MemoryIdle ==
  /\ mem = none /\ wasted = none /\ clauses = none
  /\ learnts = none /\ dirty = none /\ simplified = none
\* Lists that are idle count as clobbered: ListsTrue and UnitsFound say nothing
\* of them.
ListsIdle ==
  /\ setup = none /\ db = none /\ theory = none /\ p = none /\ i = none
  /\ j = none /\ end = none /\ clobbered = TRUE
SimpIdle ==
  /\ frozen = none /\ use_asymm = none /\ s = none /\ bwd = none
  /\ elim = none /\ eliminated = none /\ elimclauses = none
SharedIdle ==
  /\ watches = none /\ trail = none /\ qhead = none /\ confl = none
  /\ conflicts = none

PartsInit ==
  \/ /\ which = "watched" /\ Init
     /\ formula = none /\ OrderInit /\ MemoryIdle /\ SimpIdle
  \/ /\ which = "order" /\ OrderInit
     /\ formula = none /\ pc = none /\ ListsIdle /\ SharedIdle /\ MemoryIdle /\ SimpIdle
  \/ /\ which = "memory" /\ Memory!Init
     /\ pc = none /\ ListsIdle /\ OrderInit /\ SimpIdle
  \/ /\ which = "simp" /\ Simp!Init
     /\ ListsIdle /\ SharedIdle /\ OrderInit /\ MemoryIdle

PartsNext ==
  \/ /\ which = "watched" /\ Next
     /\ UNCHANGED <<which, formula, orderVars, memoryVars, simpVars>>
  \/ /\ which = "order" /\ OrderNext
     /\ UNCHANGED <<which, pc, formula, listVars, watches, trail, qhead, confl, conflicts>>
     /\ UNCHANGED <<memoryVars, simpVars>>
  \/ /\ which = "memory" /\ Memory!Next
     /\ UNCHANGED <<which, pc, listVars, orderVars, simpVars>>
  \/ /\ which = "simp" /\ Simp!Next
     /\ UNCHANGED <<which, listVars, watches, trail, qhead, confl, conflicts>>
     /\ UNCHANGED <<orderVars, memoryVars>>

PartsSpec == PartsInit /\ [][PartsNext]_partVars
-----------------------------------------------------------------------------
(* No watcher, reason or list names a clause that was removed or has moved.  *)
ReferencesLive == which = "memory" => Memory!ReferencesLive

(* What the preprocessing leaves has a model exactly if the formula had, and *)
(* extended by the clauses put away it is one of the formula; the occurrence *)
(* lists the checks walk are those of the clauses left.                      *)
ModelsExtend == which = "simp" => Simp!EliminationSound /\ Simp!OccursExact
=============================================================================
