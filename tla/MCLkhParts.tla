------------------------------ MODULE MCLkhParts ------------------------------
(***************************************************************************)
(* What the local search of cbLKH stands on, each part on small instances: *)
(* the candidate edges; the searches for a move, sequential ones of         *)
(* MOVE_TYPE 2 to 5, those of any K with patching and the non-sequential     *)
(* ones; and the three-level list under rows of the 2-opt moves they come   *)
(* down to.  A behaviour is one call of one search, one row of moves or     *)
(* what becomes of the candidates of one problem.                           *)
(***************************************************************************)
EXTENDS MCCandidates

CONSTANTS OptN, KOptN, GainN,     \* the length of the tour for each
          OptTypes, KOptTypes,    \* the K of the sequential moves
          Nonsequential, Patching \* NonsequentialMoveType, PatchingC

VARIABLES which, pc, type, t, kase, tour, k, incl, marks, best, swap, s, u,
          list, edges, flips,
          problem, phase, pi, one, cand, climb, made, adjusted

Fixed == {{4, 5}}

Opt == INSTANCE OptMoves WITH N <- OptN, Fixed <- {}, MoveTypes <- OptTypes
KOpt == INSTANCE KOptMoves WITH
          N <- KOptN, Fixed <- Fixed, MoveTypes <- KOptTypes,
          NonsequentialMoveType <- Nonsequential, PatchingC <- Patching
Gain == INSTANCE NonsequentialMoves WITH N <- GainN, Fixed <- Fixed
\* Lists of 4 segments or more, a segment of one node and one left over.
Tree == INSTANCE ThreeLevelTour WITH
          Dimensions <- {<<7, 2>>, <<8, 3>>, <<9, 2>>}, Turned <- BOOLEAN

Sets == INSTANCE CandidateSets WITH
          Problems <- AllProblems, MaxAdjust <- 1

setVars == <<problem, phase, pi, one, cand, climb, made, adjusted>>
moveVars == <<pc, type, t, kase, tour, k, incl, marks, swap, s, u>>
vars == <<which, moveVars, best, list, edges, flips, setVars>>

none == 0
OptIdle == /\ k = none /\ incl = none /\ marks = none /\ best = none
           /\ swap = none /\ s = none /\ u = none
KOptIdle == kase = none /\ s = none /\ u = none
GainIdle == type = none /\ k = none /\ incl = none /\ marks = none
              /\ best = none /\ swap = none
SetsIdle ==
  /\ problem = none /\ phase = none /\ pi = none /\ one = none
  /\ cand = none /\ climb = none /\ made = none /\ adjusted = none
TreeIdle == list = none /\ edges = none /\ flips = none
SearchIdle == /\ k = none /\ incl = none /\ marks = none /\ swap = none
              /\ KOptIdle /\ pc = none /\ type = none /\ t = none /\ tour = none

Init ==
  \/ which = "opt" /\ Opt!Init /\ OptIdle /\ TreeIdle /\ SetsIdle
  \/ which = "kopt" /\ KOpt!Init /\ KOptIdle /\ TreeIdle /\ SetsIdle
  \/ which = "gain23" /\ Gain!Init /\ GainIdle /\ TreeIdle /\ SetsIdle
  \/ which = "list" /\ Tree!Init /\ SearchIdle /\ best = none /\ SetsIdle
  \/ which = "candidates" /\ Sets!Init /\ SearchIdle /\ TreeIdle

Next ==
  \/ /\ which = "opt" /\ Opt!Next
     /\ UNCHANGED <<which, k, incl, marks, best, swap, s, u, list, edges, flips, setVars>>
  \/ /\ which = "kopt" /\ KOpt!Next
     /\ UNCHANGED <<which, kase, s, u, list, edges, flips, setVars>>
  \/ /\ which = "gain23" /\ Gain!Next
     /\ UNCHANGED <<which, type, k, incl, marks, best, swap, list, edges, flips, setVars>>
  \/ /\ which = "list" /\ Tree!Next
     /\ UNCHANGED <<which, moveVars, best, setVars>>
  \/ /\ which = "candidates" /\ Sets!Next
     /\ UNCHANGED <<which, moveVars, list, edges, flips>>

Spec == Init /\ [][Next]_vars

-----------------------------------------------------------------------------
(* Whatever move is made, by Make2OptMove to Make5OptMove, by the reversals  *)
(* that MakeKOptMove sorts out (those closed early, relinked or patched      *)
(* included), or by the two exchanges of BridgeGain, the tour changes by the *)
(* edges whose gain was computed, and by no other.                           *)
MovesAreExchanges ==
  /\ which = "opt" => Opt!MovesAreExchanges
  /\ which = "kopt" => KOpt!KOptMovesAreExchanges
  /\ which = "gain23" => Gain!BridgesAreExchanges

(* The case tables of Best2OptMove to Best5OptMove try every last pair, and  *)
(* every pair before the last, from which the move can be completed.         *)
NoMoveMissed == which = "opt" => Opt!NoMoveMissed

(* The marks and incl of BestKOptMoveRec are those of the nodes chosen.      *)
MarksFollow == which = "kopt" => KOpt!MarksFollow

(* The three-level list holds the tour that the 2-opt moves make, and the    *)
(* answers of Between_SSL are those of a walk round it.                      *)
ListIsTour == which = "list" => Tree!ListIsTour

(* The 1-trees of the ascent are minimal, so that the bound it climbs to is  *)
(* no more than any tour costs.                                              *)
BoundIsSound ==
  which = "candidates" => Sets!OneTreeIsMinimal /\ Sets!BoundHolds

(* The alpha-values that choose the candidates are what they stand for.      *)
CandidatesAreNearest ==
  which = "candidates" => Sets!AlphaIsNearness /\ Sets!AlphaOfPath

(* Whatever better tours added to the sets, they are again what they were    *)
(* before the next run, and sorted.                                          *)
CandidatesRestored == which = "candidates" => Sets!CandidatesRestored
=============================================================================
