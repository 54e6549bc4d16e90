---------------------------- MODULE MetricTheory ----------------------------
(***************************************************************************)
(* Metric_TSP_Theory (src/theories.cpp), the theory that cb_minisat calls  *)
(* back while it searches: it collects the vertices whose variables are    *)
(* true, asks TSP::solve about them, and turns a refusal into a clause.    *)
(*                                                                         *)
(* A literal is a variable (1, 2, ...) or its negative; a clause is a set  *)
(* of literals.  Vertices are named by their variables (TSP::vid2var is    *)
(* a bijection onto Vids).  TSP::solve is seen through the sets of         *)
(* vertices that have tours within both budgets; monotone costs, which     *)
(* the theory assumes, make that family closed under subsets.              *)
(* What the theory is asked is a record:                                   *)
(*   vids       the variables that stand for vertices                      *)
(*   fitting    the sets of vertices with tours within both budgets        *)
(*   interval   cb_interval: TSP::solve is asked at every so many vertices *)
(*   heuristic  LKH may miss tours of more than three vertices             *)
(* and its state another:                                                  *)
(*   vids      soln_vids, the vertices on the trail in the order pushed    *)
(*   conflict  the last answer of TSP::solve was FALSE                     *)
(*   checked   conflict_checked: that answer has been reported             *)
(***************************************************************************)
EXTENDS SolverTrail

IsQuery(query) ==
  /\ query.vids \subseteq Nat \ {0}
  /\ query.interval \in Nat \ {0}
  /\ query.heuristic \in BOOLEAN
  /\ query.fitting \subseteq SUBSET query.vids
  /\ {} \in query.fitting
  /\ \A v \in query.vids : {v} \in query.fitting
  /\ \A fit \in query.fitting : SUBSET fit \subseteq query.fitting

IsVid(query, lit) == lit \in query.vids

Reset(checked) == [vids |-> << >>, conflict |-> FALSE, checked |-> checked]

\* What TSP::solve may answer: three vertices or fewer are enumerated.
Answers(query, vids) ==
  IF ToSet(vids) \in query.fitting
  THEN {TRUE} \union {answer \in {FALSE} : query.heuristic /\ Len(vids) > 3}
  ELSE {FALSE}

\* A slip for Push: conflict_checked is not cleared with a new answer.
PushKeepsChecked(query, theory, lit) ==
  IF ~ IsVid(query, lit) THEN {theory}
  ELSE LET grown == Append(theory.vids, lit)
       IN IF Len(grown) % query.interval # 0
          THEN {[theory EXCEPT !.vids = grown]}
          ELSE {[theory EXCEPT !.vids = grown, !.conflict = ~ answer] :
                  answer \in Answers(query, grown)}

\* minisat_trail_push_cb, as the set of states it may leave.
Push(query, theory, lit) ==
  IF ~ IsVid(query, lit) THEN {theory}
  ELSE LET grown == Append(theory.vids, lit)
       IN IF Len(grown) % query.interval # 0
          THEN {[theory EXCEPT !.vids = grown]}
          ELSE {[vids |-> grown, conflict |-> ~ answer, checked |-> FALSE] :
                  answer \in Answers(query, grown)}

\* A slip for Shrink: every literal taken off the trail pops a vertex.
ShrinkAll(query, theory, lits) ==
  LET kept == Len(theory.vids) - Len(lits)
  IN IF lits = << >> THEN theory
     ELSE [theory EXCEPT !.vids = SubSeq(@, 1, kept), !.conflict = FALSE]

\* minisat_trail_shrink_cb, for the literals taken off the trail's end.
Shrink(query, theory, lits) ==
  LET popped == Len(Among(query.vids, lits))
  IN [theory EXCEPT !.vids = SubSeq(@, 1, Len(@) - popped),
                    !.conflict = @ /\ popped = 0]

\* minisat_check_conflict_cb: what it answers, the state it leaves and the
\* clause it hands over.
HasConflict(theory) == theory.conflict /\ ~ theory.checked
Checked(theory) == [theory EXCEPT !.checked = TRUE]

\* A slip for ConflictClause: the vertex pushed last is forgotten.
ConflictClauseShort(theory) == {- v : v \in ToSet(Front(theory.vids))}

ConflictClause(theory) == {- v : v \in ToSet(theory.vids)}
=============================================================================
