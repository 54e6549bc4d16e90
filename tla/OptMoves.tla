------------------------------- MODULE OptMoves -------------------------------
(***************************************************************************)
(* One call of Best2OptMove, ..., Best5OptMove (the moves of MOVE_TYPE 2 to *)
(* 5; 5 is the default) and the Make*OptMove that carries its choice out.   *)
(* The search deletes (t1,t2), adds (t2,t3), deletes (t3,t4), ... and tells *)
(* by a case number how the deleted edges lie on the tour: X4 when t4 is    *)
(* chosen, then Case6, Case8 and Case10.  Where the case allows it the tour *)
(* is closed at once if that gains; otherwise the best full move is made.   *)
(* Candidates and gains are any; Backtracking, RestoreTour and the chain of *)
(* moves are in module LinKernighan.                                        *)
(***************************************************************************)
EXTENDS TourMoves

CONSTANT MoveTypes

VARIABLES pc,      \* "search", then "made"
          type,    \* the K of Best<K>OptMove
          t,       \* t[1], t[2], ..., the nodes chosen so far
          kase,    \* X4, Case6, Case8 or Case10 of the last pair
          tour

vars == <<pc, type, t, kase, tour>>

-----------------------------------------------------------------------------
(* The pairs (t3,t4): X4 is 1 where t4 is before t3.  Only that choice      *)
(* closes the tour, and it is the only one of Best2OptMove.                 *)
Pairs4(k, s) ==
  UNION {Behind(b, 1) \cup (IF k = 2 THEN {} ELSE Ahead(b, 2)) :
           b \in Far(s[2])}

\* Mutant: the arguments of BETWEEN the other way round.
Case6Turned(s, b) == IF Between(s[4], b, s[2]) THEN 1 ELSE 2
Case6(s, b) == IF Between(s[2], b, s[4]) THEN 1 ELSE 2

(* The pairs (t5,t6) of Best3OptMove.                                       *)
Pairs6of3(s, x4) ==
  UNION {IF x4 = 1 THEN Toward(Case6(s, b) = 1, b, Case6(s, b))
         ELSE IF ~Between(s[2], b, s[3]) THEN {}
         ELSE {e \in Ahead(b, 5) \cup Behind(b, 6) : e[2] # s[1]} :
           b \in Far(s[4])}

(* Those of Best4OptMove, which also goes on where closing would leave two  *)
(* cycles (cases 3, 4 and 7).                                               *)
Pairs6of4(s, x4) ==
  UNION {IF x4 = 1
         THEN LET first == Case6(s, b) IN
              Toward(first = 1, b, first)
                \cup {e \in Toward(first # 1, b, first + 2) :
                        {e[1], e[2]} # Pair(s, 1, 2)}
         ELSE IF Between(s[2], b, s[3])
         THEN {e \in Ahead(b, 5) \cup Behind(b, 6) : e[2] # s[1]}
         ELSE {e \in Behind(b, 7) : e[2] # s[2]} :
           b \in Far(s[4])}

(* Those of Best5OptMove: both neighbours everywhere.                       *)
Pairs6of5(s, x4) ==
  UNION {IF x4 = 1
         THEN LET first == Case6(s, b) IN
              Toward(first = 1, b, first)
                \cup {e \in Toward(first # 1, b, first + 2) :
                        {e[1], e[2]} # Pair(s, 1, 2)}
         ELSE IF Between(s[2], b, s[3])
         THEN {e \in Ahead(b, 5) \cup Behind(b, 6) : e[2] # s[1]}
         ELSE {e \in Behind(b, 7) \cup Ahead(b, 8) : e[2] # s[2]} :
           b \in Far(s[4])}

Far7(s) == {b \in Far(s[6]) : ~(Pair(s, 2, 3) = {s[6], b})}

(* The pairs (t7,t8) of Best4OptMove; every one of them closes the tour.    *)
Pairs8of4(s, c6) ==
  LET B(i, b, j) == Between(s[i], b, s[j])
      choice(b) ==
        CASE c6 = 1 -> Toward(B(2, b, 5), b, 1)
          [] c6 = 2 -> Toward(B(3, b, 6), b, 2)
          [] c6 = 3 -> IF B(5, b, 4) THEN Ahead(b, 3) \cup Behind(b, 11)
                       ELSE {}
          [] c6 = 4 -> IF B(2, b, 5)
                       THEN Toward(B(2, b, 4), b, 4)
                              \cup Toward(~B(2, b, 4), b, 12)
                       ELSE {}
          [] c6 = 5 -> Behind(b, 5)
          [] c6 = 6 -> Toward(B(2, b, 3), b, 6)
          [] c6 = 7 -> IF B(2, b, 3) THEN Ahead(b, 7) \cup Behind(b, 15)
                       ELSE {}
  IN {e \in UNION {choice(b) : b \in Far7(s)} :
        e[2] # s[1] /\ {e[1], e[2]} # Pair(s, 3, 4)}

(* The way to t8 that Best5OptMove tries first.                             *)
Forward8(s, c6) ==
  LET B(i, j, k) == Between(s[i], s[j], s[k])
  IN CASE c6 = 1 -> B(2,7,5)
       [] c6 = 2 -> B(3,7,6)
       [] c6 \in {3, 7, 8} -> TRUE
       [] c6 = 4 -> ~B(6,7,1) /\ B(2,7,4)
       [] c6 = 5 -> FALSE
       [] c6 = 6 -> ~B(4,7,1)

\* Mutant: in case 8 only t7 between t2 and t3 is tried.
Tried8NoSecond(s, c6, first) ==
  LET B(i, j, k) == Between(s[i], s[j], s[k])
  IN CASE c6 = 3 -> B(5,7,4) \/ first # B(3,7,1)
       [] c6 = 4 -> ~B(6,7,1) \/ first
       [] c6 = 7 -> B(2,7,3) \/ first # B(5,7,1)
       [] c6 = 8 -> B(2,7,3)
       [] OTHER -> TRUE

(* What it leaves out, s being t1, ..., t7: choices no (t9,t10) completes.  *)
Tried8(s, c6, first) ==
  LET B(i, j, k) == Between(s[i], s[j], s[k])
  IN CASE c6 = 3 -> B(5,7,4) \/ first # B(3,7,1)
       [] c6 = 4 -> ~B(6,7,1) \/ first
       [] c6 = 7 -> B(2,7,3) \/ first # B(5,7,1)
       [] c6 = 8 -> B(2,7,3) \/ B(4,7,5)
       [] OTHER -> TRUE

Pairs8of5(s, c6) ==
  LET choice(b) ==
        UNION {IF Tried8(Append(s, b), c6, first)
               THEN Toward(Forward8(Append(s, b), c6) = first, b,
                           IF first THEN c6 ELSE c6 + 8)
               ELSE {} : first \in BOOLEAN}
  IN {e \in UNION {choice(b) : b \in Far7(s)} :
        {e[1], e[2]} \notin {Pair(s, 1, 2), Pair(s, 3, 4)}}

-----------------------------------------------------------------------------
(* The case of a t9 (s is t1, ..., t9) by the case of t8; 0 if there is no  *)
(* t10 for it.  Below 22 both neighbours of t9 give a tour.                 *)
Case10Low(s, c8) ==
  LET B(i, j, k) == Between(s[i], s[j], s[k])
  IN CASE c8 = 1 -> 22
       [] c8 = 2 -> 23
       [] c8 = 3 -> IF B(5,7,4) THEN 24 ELSE IF B(5,9,4) THEN 1 ELSE 0
       [] c8 = 4 -> IF ~B(6,7,1) THEN 25 ELSE IF B(2,9,5) THEN 2 ELSE 0
       [] c8 = 5 -> 26
       [] c8 = 6 -> 27
       [] c8 = 7 -> IF B(2,7,3) THEN 28 ELSE IF B(2,9,3) THEN 3 ELSE 0
       [] c8 = 8 -> IF B(2,7,3) THEN IF B(4,9,5) THEN 4 ELSE 0
                    ELSE IF B(2,9,3) THEN 5 ELSE 0

Case10High(s, c8) ==
  LET B(i, j, k) == Between(s[i], s[j], s[k])
      if(test, case) == IF test THEN case ELSE 0
  IN CASE c8 = 9 -> IF B(2,7,5) THEN if(B(7,9,4), 6)
                    ELSE IF ~B(6,7,4) THEN if(B(2,9,7), 7)
                    ELSE if(B(6,9,7), 8)
       [] c8 = 10 -> IF B(3,7,6) THEN if(B(7,9,6), 9)
                     ELSE IF B(5,7,1) THEN if(B(2,9,7), 10)
                     ELSE if(B(3,9,6) \/ B(2,9,7), 11)
       [] c8 = 11 -> IF B(5,7,4) THEN 29 ELSE if(B(5,9,4), 12)
       [] c8 = 12 -> 30
       [] c8 = 13 -> IF B(4,7,1) THEN if(B(2,9,7), 13)
                     ELSE IF B(6,7,3) THEN if(B(6,9,7), 14)
                     ELSE if(B(6,9,3) \/ B(2,9,7), 15)
       [] c8 = 14 -> IF B(4,7,1) THEN if(B(2,9,7), 16)
                     ELSE IF B(5,7,3) THEN if(B(7,9,3) \/ B(2,9,6), 17)
                     ELSE if(B(7,9,6), 18)
       [] c8 = 15 -> IF B(2,7,3) THEN 31 ELSE if(B(2,9,3), 19)
       [] c8 = 16 -> IF B(2,7,3) THEN if(B(4,9,5), 20)
                     ELSE if(B(2,9,3), 21)

(* From case 22 on only one neighbour does: the predecessor if this holds.  *)
Backward10(s, c10) ==
  LET B(i, j, k) == Between(s[i], s[j], s[k])
  IN CASE c10 = 22 -> IF B(2,7,5) THEN B(8,9,5) \/ B(3,9,1)
                      ELSE IF B(6,7,4) THEN B(7,9,1) ELSE B(7,9,5)
       [] c10 = 23 -> IF B(3,7,6) THEN B(8,9,4)
                      ELSE IF B(5,7,1) THEN B(7,9,1) \/ B(3,9,6)
                      ELSE B(7,9,1)
       [] c10 = 24 -> B(5,9,1)
       [] c10 = 25 -> B(6,9,4)
       [] c10 = 26 -> IF B(4,7,1) THEN B(7,9,1)
                      ELSE IF B(6,7,3) THEN B(7,9,5)
                      ELSE B(4,9,1) \/ B(7,9,5)
       [] c10 = 27 -> IF B(4,7,1) THEN B(7,9,3)
                      ELSE IF B(5,7,3) THEN B(8,9,6)
                      ELSE B(4,9,1) \/ B(8,9,6)
       [] c10 = 28 -> B(5,9,3)
       [] c10 \in {29, 30} -> B(3,9,1)
       [] c10 = 31 -> B(5,9,1)

(* The pairs (t9,t10).                                                      *)
Pairs10(s, c8) ==
  LET choice(b, sb, c10) ==
        IF c10 = 0 THEN {}
        ELSE IF c10 >= 22 THEN Toward(~Backward10(sb, c10), b, c10)
        ELSE Ahead(b, c10) \cup Behind(b, c10 + 31)
      case(sb) == IF c8 <= 8 THEN Case10Low(sb, c8) ELSE Case10High(sb, c8)
      far == {b \in Far(s[8]) \ {s[1]} :
                {s[8], b} \notin {Pair(s, 2, 3), Pair(s, 4, 5)}}
  IN {e \in UNION {choice(b, Append(s, b), case(Append(s, b))) : b \in far} :
        e[2] # s[1] /\ {e[1], e[2]} \notin {Pair(s, 3, 4), Pair(s, 5, 6)}}

-----------------------------------------------------------------------------
(* The swaps of each case.                                                  *)
Make2OptMove(s) == Swapped(Start, s, <<1,2,3>>)

\* Make5OptMove, cases 1 to 26.
Swaps5Low(s, case) ==
  LET B(i, j, k) == Between(s[i], s[j], s[k])
  IN CASE
       case = 1 -> <<1,2,3, 8,7,6, 10,9,8, 10,5,4>>
    [] case = 2 -> IF B(2,9,4) THEN <<1,2,3, 5,6,7, 10,9,8, 5,10,1>>
                   ELSE <<1,2,3, 7,8,9, 6,5,4, 7,10,1>>
    [] case = 3 -> <<3,4,5, 7,8,9, 1,2,3, 7,10,1>>
    [] case = 4 -> <<5,6,8, 1,2,3, 10,9,8, 1,4,5, 6,10,1>>
    [] case = 5 -> <<5,6,10, 1,2,3, 6,10,1, 8,7,6, 8,4,5>>
    [] case = 6 -> <<1,2,3, 9,10,1, 7,8,9, 6,5,4>>
    [] case = 7 -> IF B(3,9,7) THEN <<3,4,5, 8,7,6, 10,9,8, 1,2,3>>
                   ELSE IF B(6,9,4) THEN <<3,4,5, 8,7,6, 9,10,1, 9,2,3>>
                   ELSE <<1,2,3, 6,5,4, 7,8,9, 7,10,1>>
    [] case = 8 -> <<3,4,5, 9,10,1, 8,7,6, 8,3,2>>
    [] case = 9 -> <<10,9,8, 5,6,7, 1,2,3, 1,4,5>>
    [] case = 10 -> IF B(5,9,7) THEN <<5,6,7, 9,10,1, 4,3,2, 4,9,8>>
                   ELSE IF B(3,9,6) THEN <<1,2,3, 6,5,4, 7,8,9, 7,10,1>>
                   ELSE <<1,2,3, 9,10,1, 5,6,7, 5,8,9>>
    [] case = 11 -> IF B(3,9,6) THEN <<1,2,3, 6,5,4, 9,10,1, 7,8,9>>
                   ELSE <<5,6,7, 10,9,8, 2,1,10, 4,3,2>>
    [] case = 12 -> <<1,2,3, 8,7,6, 10,9,8, 5,10,1>>
    [] case = 13 -> IF B(4,9,7) THEN <<7,8,10, 5,6,7, 1,2,3, 5,9,1, 9,1,10>>
                   ELSE IF B(6,9,3) THEN <<10,9,1, 7,8,9, 3,4,5, 3,6,7, 3,1,10>>
                   ELSE <<10,9,1, 4,3,2, 5,6,7, 5,8,10, 9,1,10>>
    [] case = 14 -> <<10,9,1, 5,6,7, 5,8,9, 3,4,5, 3,1,10>>
    [] case = 15 -> IF B(6,9,3) THEN <<10,9,1, 3,4,5, 6,3,2, 8,7,6, 9,1,10>>
                   ELSE <<1,2,6, 3,4,5, 8,7,6, 10,9,8, 2,10,1>>
    [] case = 16 -> IF B(4,9,7) THEN <<3,4,5, 8,7,6, 9,10,1, 8,3,2>>
                   ELSE IF B(5,9,3) THEN <<3,4,5, 9,10,1, 6,3,2, 7,8,9>>
                   ELSE <<3,4,5, 1,2,3, 7,8,9, 7,10,1>>
    [] case = 17 -> IF B(7,9,3) THEN <<3,4,5, 7,8,9, 2,1,10, 3,6,7>>
                   ELSE <<7,8,9, 2,1,10, 3,4,5, 3,6,7>>
    [] case = 18 -> <<3,4,5, 7,8,9, 3,6,7, 1,2,3>>
    [] case = 19 -> <<7,8,9, 1,2,3, 6,5,4, 7,10,1>>
    [] case = 20 -> <<7,8,9, 3,4,5, 10,7,6, 3,10,1>>
    [] case = 21 -> <<5,6,7, 5,8,9, 1,2,3, 4,1,10>>
    [] case = 22 -> <<1,2,3, 6,5,4, 7,8,1, 9,10,1>>
    [] case = 23 -> <<1,2,3, 6,5,4, 7,8,1, 9,10,1>>
    [] case = 24 -> <<1,2,3, 8,7,6, 5,8,1, 9,10,1>>
    [] case = 25 -> <<1,2,3, 8,7,6, 5,8,1, 9,10,1>>
    [] case = 26 -> IF ~B(2,7,3) THEN <<5,6,7, 2,1,4, 1,4,5, 9,10,1>>
                   ELSE IF B(2,7,6) THEN <<5,6,7, 5,8,3, 3,8,1, 9,10,1>>
                   ELSE <<1,2,7, 7,2,3, 4,7,6, 9,10,1>>

\* Make5OptMove, cases 27 to 52.
Swaps5High(s, case) ==
  LET B(i, j, k) == Between(s[i], s[j], s[k])
  IN CASE
       case = 27 -> <<3,4,5, 6,3,2, 1,6,7, 9,10,1>>
    [] case = 28 -> <<6,5,8, 2,1,4, 8,5,4, 9,10,1>>
    [] case = 29 -> <<1,2,7, 3,4,5, 3,6,7, 9,10,1>>
    [] case = 30 -> IF B(3,7,5) THEN <<3,4,5, 7,8,1, 7,2,3, 9,10,1>>
                   ELSE <<3,4,5, 3,6,7, 1,2,3, 9,10,1>>
    [] case = 31 -> <<3,4,5, 3,6,7, 8,3,2, 9,10,1>>
    [] case = 32 -> <<1,2,3, 7,8,9, 6,5,4, 7,10,1>>
    [] case = 33 -> IF B(3,9,5) THEN <<1,2,3, 5,6,7, 10,9,8, 5,10,1>>
                   ELSE <<1,2,3, 7,8,9, 7,10,1, 5,6,7>>
    [] case = 34 -> <<7,8,9, 1,2,3, 1,4,5, 7,10,1>>
    [] case = 35 -> <<9,10,1, 5,6,7, 4,3,2, 9,4,5>>
    [] case = 36 -> <<9,10,1, 7,8,9, 3,4,5, 6,3,2>>
    [] case = 37 -> IF B(6,9,4) THEN <<1,2,3, 6,5,4, 9,10,1, 8,7,6>>
                   ELSE <<9,10,1, 3,4,5, 3,6,7, 3,8,9>>
    [] case = 38 -> IF B(3,9,7) THEN <<1,2,3, 7,8,9, 6,5,4, 6,1,10>>
                   ELSE IF B(6,9,4) THEN <<1,2,3, 6,5,4, 7,8,9, 7,10,1>>
                   ELSE <<3,4,5, 9,10,1, 8,7,6, 3,8,9>>
    [] case = 39 -> <<1,2,3, 7,8,9, 5,6,7, 1,4,5>>
    [] case = 40 -> <<9,10,1, 4,3,2, 5,6,7, 5,8,9>>
    [] case = 41 -> IF B(5,9,7) THEN <<7,8,9, 1,2,3, 6,5,4, 7,10,1>>
                   ELSE IF B(3,9,6) THEN <<1,2,3, 5,6,7, 9,10,1, 5,8,9>>
                   ELSE <<5,6,7, 9,10,1, 2,9,8, 3,4,5>>
    [] case = 42 -> IF B(3,9,6) THEN <<7,8,9, 5,6,7, 1,2,3, 1,4,5>>
                   ELSE <<9,10,1, 5,6,7, 3,4,5, 3,8,9>>
    [] case = 43 -> <<1,2,3, 7,8,9, 6,5,4, 7,10,1>>
    [] case = 44 -> IF B(4,9,7) THEN <<7,8,9, 5,6,7, 1,2,3, 5,10,1>>
                   ELSE IF B(6,9,3) THEN <<9,10,1, 5,6,7, 3,4,5, 3,8,9>>
                   ELSE <<7,8,9, 1,2,3, 6,5,4, 7,10,1>>
    [] case = 45 -> <<9,10,1, 3,4,5, 7,8,9, 3,6,7>>
    [] case = 46 -> <<7,8,9, 5,6,7, 3,4,5, 1,2,3>>
    [] case = 47 -> IF B(4,9,7) THEN <<5,6,7, 1,2,3, 9,10,1, 5,8,9>>
                   ELSE IF B(5,9,3) THEN <<9,10,1, 7,8,9, 5,6,7, 3,4,5>>
                   ELSE <<7,8,9, 3,4,5, 3,6,7, 2,1,10>>
    [] case = 48 -> IF B(7,9,3) THEN <<3,4,5, 8,7,6, 2,1,10, 8,3,2>>
                   ELSE <<3,4,5, 7,8,9, 3,6,7, 1,2,3>>
    [] case = 49 -> <<9,10,1, 5,6,7, 3,4,5, 3,8,9>>
    [] case = 50 -> <<3,4,5, 3,6,7, 9,10,1, 8,3,2>>
    [] case = 51 -> <<5,6,7, 1,2,3, 9,10,1, 4,9,8>>
    [] case = 52 -> <<5,6,7, 3,4,5, 9,10,1, 3,8,9>>
    [] OTHER -> <<1,1,1>>

Make5OptMove(s, case) ==
  Swapped(Start, s,
          IF case <= 26 THEN Swaps5Low(s, case) ELSE Swaps5High(s, case))

(* The move for the pairs chosen so far.                                    *)
MoveMade(s, case) ==
  CASE Len(s) = 4 -> Make2OptMove(s)
    [] Len(s) = 6 -> Make3OptMove(s, case)
    [] Len(s) = 8 -> Make4OptMove(s, case)
    [] Len(s) = 10 -> Make5OptMove(s, case)

-----------------------------------------------------------------------------
Init ==
  /\ pc = "search"
  /\ type \in MoveTypes
  /\ t = <<N, 1>>
  /\ kase = 0
  /\ tour = Start

Choose(pairs) ==
  /\ pc = "search"
  /\ \E e \in pairs : /\ ~FixedOrCommon(e[1], e[2])
                      /\ t' = t \o <<e[1], e[2]>>
                      /\ kase' = e[3]
  /\ UNCHANGED <<pc, type, tour>>

ChooseT4 == Len(t) = 2 /\ Choose(Pairs4(type, t))
Choose3T6 == type = 3 /\ Len(t) = 4 /\ Choose(Pairs6of3(t, kase))
Choose4T6 == type = 4 /\ Len(t) = 4 /\ Choose(Pairs6of4(t, kase))
Choose5T6 == type = 5 /\ Len(t) = 4 /\ Choose(Pairs6of5(t, kase))
Choose4T8 == type = 4 /\ Len(t) = 6 /\ Choose(Pairs8of4(t, kase))
Choose5T8 == type = 5 /\ Len(t) = 6 /\ Choose(Pairs8of5(t, kase))
Choose5T10 == type = 5 /\ Len(t) = 8 /\ Choose(Pairs10(t, kase))

(* The pairs chosen so far can be closed with (t2k,t1): 2- and 3-opt moves, *)
(* the 4-opt moves Best5OptMove makes on its way, and every full move.      *)
Closes ==
  CASE Len(t) = 2 -> FALSE
    [] Len(t) = 4 -> kase = 1
    [] Len(t) = 6 -> kase \in {1, 2, 5, 6}
    [] Len(t) = 8 /\ type = 5 ->
         /\ t[8] # t[1]
         /\ CASE kase \in {3, 11} -> Between(t[5], t[7], t[4])
              [] kase \in {4, 12} -> ~Between(t[6], t[7], t[1])
              [] kase \in {7, 15} -> Between(t[2], t[7], t[3])
              [] OTHER -> kase \in {1, 2, 5, 6}
    [] OTHER -> TRUE

(* Closing gains: the move is made and the search is over; or nothing does, *)
(* and this is the best full move, made for its partial gain.               *)
MakeMove ==
  /\ pc = "search"
  /\ Closes
  /\ pc' = "made"
  /\ tour' = MoveMade(t, kase)
  /\ UNCHANGED <<type, t, kase>>

Next ==
  \/ ChooseT4
  \/ Choose3T6 \/ Choose4T6 \/ Choose5T6
  \/ Choose4T8 \/ Choose5T8
  \/ Choose5T10
  \/ MakeMove

Spec == Init /\ [][Next]_vars

-----------------------------------------------------------------------------
(* Every move that is made gives the tour that differs from the old one in  *)
(* the deleted and added edges and in nothing else, so that the gain the    *)
(* search computed is the gain of the tour; its swaps name edges of the     *)
(* tour they find (the assertion of Flip_SL.c:51) and no case is missing    *)
(* ("Internal error").                                                      *)
MovesAreExchanges ==
  pc = "made" => /\ Edges(tour) = Exchanged(t)
                 /\ Cardinality(Deleted(t)) = Len(t) \div 2
                 /\ Cardinality(Added(t)) = Len(t) \div 2

Offered ==
  CASE Len(t) = 2 -> Pairs4(type, t)
    [] Len(t) = 4 /\ type = 3 -> Pairs6of3(t, kase)
    [] Len(t) = 4 /\ type = 4 -> Pairs6of4(t, kase)
    [] Len(t) = 4 /\ type = 5 -> Pairs6of5(t, kase)
    [] Len(t) = 6 /\ type = 4 -> Pairs8of4(t, kase)
    [] Len(t) = 6 /\ type = 5 -> Pairs8of5(t, kase)
    [] Len(t) = 8 -> Pairs10(t, kase)

\* s and one more pair that no case distinction has left out.
Longer(s) ==
  {s \o <<a, Neighbour(a, forward)>> :
     a \in Far(s[Len(s)]), forward \in BOOLEAN}

Completes(s) == Proper(s) /\ IsTour(Exchanged(s))
Promising(s) ==
  CASE Len(s) = 2 * type -> Completes(s)
    [] Len(s) = 2 * type - 2 -> \E u \in Longer(s) : Completes(u)
    [] OTHER -> FALSE

(* The case distinctions leave nothing out: a pair that completes a proper  *)
(* sequential exchange into a tour, or from which one more pair does, is    *)
(* among the pairs tried; a wrong BETWEEN would lose moves in silence.      *)
NoMoveMissed ==
  pc = "search" /\ Len(t) < 2 * type =>
    \A s \in Longer(t) :
      Promising(s) => \E e \in Offered : s = t \o <<e[1], e[2]>>

=============================================================================
