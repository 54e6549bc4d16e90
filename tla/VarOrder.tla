------------------------------- MODULE VarOrder -------------------------------
(***************************************************************************)
(* The order in which cb_minisat's Solver picks its decision variables: a  *)
(* heap of variables by activity (cb_minisat/minisat/mtl/Heap.h) and all    *)
(* that Solver.cc does to it.  A variable taken out of the heap comes back  *)
(* only when cancelUntil unassigns it, so that a variable lost on the way   *)
(* would never be decided, and the search would answer with a partial       *)
(* model.                                                                   *)
(*                                                                          *)
(* Positions are counted from 1.  Activities are whole numbers, scaled down *)
(* past Limit where the code scales doubles down past 1e100: they may       *)
(* become equal, as those may.  The names are not those of WatchedClauses,  *)
(* with which MCSolverParts extends this module.                            *)
(***************************************************************************)
EXTENDS Integers, Sequences, FiniteSets

CONSTANTS
  MaxVars,   \* bound: newVar is called that many times
  Limit,     \* 1e100
  Scale,     \* 1e100 as a divisor
  MaxInc,    \* bound on var_inc: it decays no further
  Implied,   \* bound: those that clauses imply
  MaxLevel,  \* bound on the decision level
  MaxSeen    \* bound: variables bumped by one conflict

\* varBumpActivity divides by 1e100.
ASSUME ScaleAssumption == Scale \in Nat \ {0}

VARIABLES
  mode,       \* "search", or "analyze" from a conflict to the backjump
  order,      \* order_heap: [heap, indices], indices 0 where the code has -1
  activity,
  var_inc,
  assigned,   \* the trail: records [var, level]
  seen        \* the variables whose activity this conflict has bumped

orderVars == <<mode, order, activity, var_inc, assigned, seen>>

Vars == DOMAIN activity
LevelNow == IF assigned = << >> THEN 0 ELSE assigned[Len(assigned)].level
Unassigned(trail) == Vars \ {trail[n].var : n \in DOMAIN trail}
-----------------------------------------------------------------------------
(* The heap.                                                                *)

\* VarOrderLt: the more active first.
Lt(act, x, y) == act[x] > act[y]

InHeap(o, x) == o.indices[x] > 0
\* Two variables change places.
Exchanged(o, m, n) ==
  [heap |-> [o.heap EXCEPT ![m] = o.heap[n], ![n] = o.heap[m]],
   indices |-> [o.indices EXCEPT ![o.heap[m]] = n, ![o.heap[n]] = m]]

\* A loop is the function from the number of passes to where it is then: with
\* its condition false it stays there, and its passes are no more than the
\* places of the heap.  x, which the code holds back until it knows its place,
\* moves along here.

\* A pass of percolateUp.
Raised(r, act) ==
  LET parent == r.at \div 2
  IN IF r.at > 1 /\ Lt(act, r.order.heap[r.at], r.order.heap[parent])
     THEN [order |-> Exchanged(r.order, r.at, parent), at |-> parent]
     ELSE r

PercolateUp(o, act, i) ==
  LET run[n \in 0 .. i] ==
        IF n = 0 THEN [order |-> o, at |-> i] ELSE Raised(run[n - 1], act)
  IN run[i].order

\* A slip for BetterChild: the left one, always.
LeftChild(o, act, i) == 2 * i

\* The child that comes first: the right one only when it is the better.
BetterChild(o, act, i) ==
  IF 2 * i + 1 <= Len(o.heap) /\ Lt(act, o.heap[2 * i + 1], o.heap[2 * i])
  THEN 2 * i + 1 ELSE 2 * i

\* A pass of percolateDown.
Lowered(r, act) ==
  LET child == BetterChild(r.order, act, r.at)
  IN IF 2 * r.at <= Len(r.order.heap) /\ Lt(act, r.order.heap[child], r.order.heap[r.at])
     THEN [order |-> Exchanged(r.order, r.at, child), at |-> child]
     ELSE r

PercolateDown(o, act, i) ==
  LET run[n \in 0 .. Len(o.heap)] ==
        IF n = 0 THEN [order |-> o, at |-> i] ELSE Lowered(run[n - 1], act)
  IN run[Len(o.heap)].order

Inserted(o, act, x) ==
  LET last == Len(o.heap) + 1
  IN PercolateUp([heap |-> Append(o.heap, x), indices |-> [o.indices EXCEPT ![x] = last]],
                 act, last)

RemovedMin(o, act) ==
  LET last == Len(o.heap)
      moved == [heap |-> SubSeq([o.heap EXCEPT ![1] = o.heap[last]], 1, last - 1),
                indices |-> [o.indices EXCEPT ![o.heap[last]] = 1, ![o.heap[1]] = 0]]
  IN IF last > 2 THEN PercolateDown(moved, act, 1) ELSE moved

\* The variables of a set, in order.
Listed(vs) ==
  LET ns[v \in 0 .. Len(activity)] ==
        IF v = 0 THEN << >> ELSE IF v \in vs THEN Append(ns[v - 1], v) ELSE ns[v - 1]
  IN ns[Len(activity)]

\* Heap::build: every inner place is sifted, from the last to the first.
Sifted(o, act) ==
  LET inner == Len(o.heap) \div 2
      run[n \in 0 .. inner] ==
        IF n = 0 THEN o ELSE PercolateDown(run[n - 1], act, inner + 1 - n)
  IN run[inner]

Built(vs, act) ==
  LET ns == Listed(vs)
  IN Sifted([heap |-> ns,
             indices |-> [v \in Vars |-> IF v \in vs THEN CHOOSE n \in DOMAIN ns : ns[n] = v
                                        ELSE 0]], act)
-----------------------------------------------------------------------------
(* What the solver does to it.                                              *)

InsertVarOrder(o, act, x) ==
  IF ~ InHeap(o, x) THEN Inserted(o, act, x) ELSE o

OrderInit ==
  /\ mode = "search"
  /\ order = [heap |-> << >>, indices |-> << >>]
  /\ activity = << >> /\ var_inc = 1
  /\ assigned = << >> /\ seen = {}

\* newVar: the variable gets the next number, a small random activity
\* (rnd_init_act) and its place in the heap.  cbTSP makes decision variables
\* only and never calls setDecisionVar again.
NewVar ==
  /\ mode = "search" /\ LevelNow = 0 /\ Len(activity) < MaxVars
  /\ LET x == Len(activity) + 1
         known == [v \in 1 .. x |-> IF v = x THEN 0 ELSE order.indices[v]]
     IN \E small \in {0, 1} :
          /\ activity' = Append(activity, small)
          /\ order' = InsertVarOrder([order EXCEPT !.indices = known], activity', x)
  /\ UNCHANGED <<mode, var_inc, assigned, seen>>

MayBranch(v) == v \in Unassigned(assigned)
Branched(v) == assigned' = Append(assigned, [var |-> v, level |-> LevelNow + 1])

\* pickBranchLit, at random: the variable stays in the heap.
PickRandom(v) ==
  /\ mode = "search" /\ LevelNow < MaxLevel /\ InHeap(order, v) /\ MayBranch(v)
  /\ Branched(v)
  /\ UNCHANGED <<mode, order, activity, var_inc, seen>>

\* pickBranchLit, by activity: variables are taken out until one will do, or
\* none is left (0).
Take(r, act) ==
  IF r.picked \notin Unassigned(assigned) /\ r.order.heap # << >>
  THEN [picked |-> r.order.heap[1], order |-> RemovedMin(r.order, act)]
  ELSE r

Taken(o, act) ==
  LET run[n \in 0 .. Len(o.heap)] ==
        IF n = 0 THEN [picked |-> 0, order |-> o] ELSE Take(run[n - 1], act)
  IN run[Len(o.heap)]

PickMostActive ==
  /\ mode = "search" /\ LevelNow < MaxLevel
  /\ LET taken == Taken(order, activity)
     IN /\ order' = taken.order
        /\ IF MayBranch(taken.picked) THEN Branched(taken.picked) /\ UNCHANGED mode
           ELSE mode' = "model" /\ UNCHANGED assigned
  /\ UNCHANGED <<activity, var_inc, seen>>

\* uncheckedEnqueue of an implied literal: the heap is not told.
Imply(v) ==
  /\ mode = "search" /\ v \in Unassigned(assigned) /\ v \in Implied
  /\ assigned' = Append(assigned, [var |-> v, level |-> LevelNow])
  /\ UNCHANGED <<mode, order, activity, var_inc, seen>>

Conflict ==
  /\ mode = "search" /\ LevelNow > 0
  /\ mode' = "analyze"
  /\ UNCHANGED <<order, activity, var_inc, assigned, seen>>

\* varBumpActivity of a variable that analyze meets for the first time.
Bump(v) ==
  /\ mode = "analyze" /\ v \notin seen /\ Cardinality(seen) < MaxSeen
  /\ \E n \in DOMAIN assigned : assigned[n].var = v /\ assigned[n].level > 0
  /\ seen' = seen \union {v}
  /\ LET bumped == [activity EXCEPT ![v] = @ + var_inc]
         rescale == bumped[v] > Limit
     IN /\ activity' = IF rescale THEN [u \in Vars |-> bumped[u] \div Scale] ELSE bumped
        /\ var_inc' = IF rescale /\ var_inc >= Scale THEN var_inc \div Scale
                      ELSE IF rescale THEN 1 ELSE var_inc
  /\ order' = IF InHeap(order, v) THEN PercolateUp(order, activity', order.indices[v])
              ELSE order
  /\ UNCHANGED <<mode, assigned>>

\* trail_lim[level]: as many entries are at that level or below it.
LevelEnd(level) == Cardinality({n \in DOMAIN assigned : assigned[n].level <= level})
TrailUntil(level) == SubSeq(assigned, 1, LevelEnd(level))

\* cancelUntil: what is unassigned comes back, the end of the trail first.
Cancelled(o, level) ==
  LET gone == Len(assigned) - LevelEnd(level)
      run[n \in 0 .. gone] ==
        IF n = 0 THEN o
        ELSE InsertVarOrder(run[n - 1], activity, assigned[Len(assigned) + 1 - n].var)
  IN run[gone]

\* The end of a conflict: back to a lower level, where the asserting literal
\* is enqueued at once; varDecayActivity.
Backjump(level, v) ==
  /\ mode = "analyze" /\ level < LevelNow
  /\ \E n \in DOMAIN assigned : assigned[n].var = v /\ assigned[n].level = LevelNow
  /\ order' = Cancelled(order, level)
  /\ assigned' = Append(TrailUntil(level), [var |-> v, level |-> level])
  /\ var_inc' = IF var_inc < MaxInc THEN var_inc + 1 ELSE var_inc
  /\ mode' = "search" /\ seen' = {}
  /\ UNCHANGED <<activity>>

\* The end of a solve or a restart: cancelUntil(0).
CancelAll ==
  /\ mode = "model" \/ (mode = "search" /\ LevelNow > 0)
  /\ order' = Cancelled(order, 0)
  /\ assigned' = TrailUntil(0)
  /\ mode' = "search"
  /\ UNCHANGED <<activity, var_inc, seen>>

\* simplify: rebuildOrderHeap.
RebuildOrderHeap ==
  /\ mode = "search" /\ LevelNow = 0
  /\ order' = Built({v \in Vars : MayBranch(v)}, activity)
  /\ UNCHANGED <<mode, activity, var_inc, assigned, seen>>

OrderNext ==
  \/ NewVar \/ PickMostActive \/ Conflict \/ CancelAll \/ RebuildOrderHeap
  \/ \E v \in Vars : PickRandom(v) \/ Imply(v) \/ Bump(v)
  \/ \E v \in Vars, level \in 0 .. LevelNow - 1 : Backjump(level, v)

OrderSpec == OrderInit /\ [][OrderNext]_orderVars
-----------------------------------------------------------------------------
(* Properties.                                                              *)

\* No unassigned variable is out of the heap, whatever is bumped,
\* rescaled or unassigned in between, so that
\* pickBranchLit finds none only when the model is complete; and what it
\* takes is the most active: places and indices agree, no variable stands
\* below a less active one (Solver.cc:266-315, Heap.h:43-150).
OrderComplete ==
  /\ \A v \in Vars : MayBranch(v) => InHeap(order, v)
  /\ mode = "model" => \A v \in Vars : ~ MayBranch(v)
  /\ \A n \in DOMAIN order.heap : order.indices[order.heap[n]] = n
  /\ \A v \in Vars : InHeap(order, v) => order.heap[order.indices[v]] = v
  /\ \A n \in DOMAIN order.heap :
       n > 1 => ~ Lt(activity, order.heap[n], order.heap[n \div 2])
=============================================================================
