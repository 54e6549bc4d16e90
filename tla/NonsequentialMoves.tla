-------------------------- MODULE NonsequentialMoves --------------------------
(***************************************************************************)
(* One call of Gain23 with BridgeGain, the last attempt of LinKernighan: an *)
(* exchange s1, s2, ... that leaves two cycles, and a second exchange       *)
(* t1, t2, ... with an edge in each of them that joins them again.          *)
(* Sequential moves met on the way are made as well.  As in OptMoves,       *)
(* candidates and gains are any.                                            *)
(***************************************************************************)
EXTENDS TourMoves

VARIABLES pc,      \* "first", "bridge", "made"
          s,       \* s1, s2, ..., s2 being the successor of s1
          kase,    \* X4, Case6 or Case8 of Gain23, then Case6 of BridgeGain
          u,       \* <<u2, u3>>, the ends of a segment of BridgeGain
          t,       \* t1, t2, ... of BridgeGain
          tour

vars == <<pc, s, kase, u, t, tour>>

-----------------------------------------------------------------------------
(* The pairs of Gain23; here X4 is 1 where s4 is after s3.                  *)
PairsS4 == UNION {Ahead(b, 1) \cup Behind(b, 2) : b \in Far(s[2])}

PairsS6 ==
  UNION {IF kase = 2
         THEN LET first == IF Between(s[2], b, s[4]) THEN 1 ELSE 2 IN
              Toward(first = 1, b, first)
                \cup {e \in Toward(first # 1, b, first + 2) :
                        s[1] \notin {e[1], e[2]}}
         ELSE IF Between(s[2], b, s[3])
         THEN {e \in Ahead(b, 5) \cup Behind(b, 6) : e[2] # s[1]}
         ELSE Behind(b, 7) :
           b \in Far(s[4])}

PairsS8 ==
  LET B(i, b, j) == Between(s[i], b, s[j])
      choice(b) ==
        CASE kase = 1 -> Toward(B(2, b, 5), b, 1)
          [] kase = 2 -> Toward(B(3, b, 6), b, 2)
          [] kase = 3 -> IF B(5, b, 4) THEN Ahead(b, 3) \cup Behind(b, 11)
                         ELSE Toward(~B(3, b, 1), b, 17)
          [] kase = 4 -> IF B(2, b, 5)
                         THEN Toward(B(2, b, 4), b, 4)
                                \cup Toward(~B(2, b, 4), b, 12)
                         ELSE Behind(b, 18)
          [] kase = 5 -> Behind(b, 5)
          [] kase = 6 -> Toward(B(2, b, 3), b, 6)
          [] kase = 7 -> IF B(2, b, 3) THEN Ahead(b, 7) \cup Behind(b, 15)
                         ELSE Toward(~B(5, b, 1), b, 19)
      far == {b \in Far(s[6]) : {s[6], b} # Pair(s, 2, 3)}
  IN {e \in UNION {choice(b) : b \in far} :
        /\ e[2] # s[1]
        /\ <<e[1], e[2]>> # <<s[1], s[2]>>
        /\ {e[1], e[2]} # Pair(s, 3, 4)}

-----------------------------------------------------------------------------
(* BridgeGain.  t1 is in a segment of the tour with the nodes of one of the *)
(* cycles, t3 is outside.  The code takes the shorter one by SegmentSize,   *)
(* which on the two-level list is an estimate: either is possible.          *)
Segments(case) ==
  CASE case = 0 -> {<<s[2], s[3]>>}
    [] case = 3 -> {<<s[5], s[4]>>, <<s[3], s[6]>>}
    [] case = 4 -> {<<s[2], s[5]>>, <<s[6], s[1]>>}
    [] case = 7 -> {<<s[2], s[3]>>, <<s[4], s[1]>>}
InSegment(b) == Between(u[1], b, u[2])

Allowed(a, b) == ~FixedOrCommon(a, b) /\ {a, b} \notin Deleted(s)

PairsT2 == {<<a, Suc(a)>> : a \in {b \in Nodes \ {u[2]} : InSegment(b)}}
PairsT4 ==
  {e \in {<<b, Neighbour(b, f)>> :
            b \in {d \in Far(t[2]) : ~InSegment(d)}, f \in BOOLEAN} :
     e[2] # t[2]}

X4 == IF t[4] = Suc(t[3]) THEN 1 ELSE 2

\* Mutant: where t5 lies is not asked.
PairsT6Blind ==
  {<<b, Neighbour(b, X4 # 1)>> : b \in Far(t[4]) \ {t[1], t[2]}}

(* The one neighbour of t5 that is tried: the other gives no tour.          *)
PairsT6 ==
  {<<b, Neighbour(b, ~(X4 = 1 \/ InSegment(b)))>> :
     b \in Far(t[4]) \ {t[1], t[2]}}

(* The one neighbour of t7: the predecessor if this holds.                  *)
Backward8(b) ==
  LET u2 == u[1]
      u3 == u[2]
      B(x, y, z) == Between(x, y, z)
  IN IF X4 = 1
     THEN IF B(u2, t[5], t[1]) THEN B(t[5], b, t[1])
          ELSE IF B(t[2], t[5], u3) THEN B(u2, b, t[1]) \/ B(t[5], b, u3)
          ELSE IF B(Suc(u3), t[5], t[3]) THEN B(u2, b, u3) \/ B(t[5], b, t[3])
          ELSE ~B(t[4], b, t[6])
     ELSE IF B(u2, t[5], t[1]) THEN ~B(u2, b, t[6]) /\ ~B(t[2], b, u3)
          ELSE IF B(t[2], t[5], u3) THEN ~B(t[2], b, t[6])
          ELSE IF B(Suc(u3), t[5], t[4])
          THEN ~B(Suc(u3), b, t[5]) /\ ~B(t[3], b, Pred(u2))
          ELSE ~B(t[3], b, t[5])
PairsT8 ==
  {e \in {<<b, Neighbour(b, ~Backward8(b))>> : b \in Far(t[6])} :
     /\ e[2] # t[1]
     /\ <<e[1], e[2]>> # <<t[1], t[2]>>
     /\ {e[1], e[2]} # Pair(t, 3, 4)}

(* The swaps; 11, 12, ... stand for t1, t2, ...                             *)
FirstRow ==
  IF X4 = 1 THEN <<1,2,4, 13,14,11, 1,3,2>> ELSE <<11,12,13, 1,2,3>>
LaterRow ==
  (IF Len(t) < 6 THEN << >> ELSE <<15,16,11>>)
    \o (IF Len(t) < 8 THEN << >> ELSE <<17,18,11>>)
BridgeRow ==
  LET out(i, j) == /\ ~Between(s[i], t[1], s[j])
                   /\ ~Between(s[i], t[3], s[j])
      plain == CASE kase = 3 -> out(2, 6)
                 [] kase = 4 -> out(3, 5)
                 [] kase = 7 -> out(4, 6)
      row == CASE kase \in {3, 4} /\ (X4 = 1) = plain ->
                    <<1,2,3, 11,12,13, 5,6,1>>
               [] kase \in {3, 4} /\ (X4 = 1) # plain ->
                    <<1,2,3, 11,12,14, 5,6,1, 12,14,11>>
               [] kase = 7 /\ (X4 = 1) = plain ->
                    <<5,6,1, 11,12,13, 3,4,5>>
               [] kase = 7 /\ (X4 = 1) # plain ->
                    <<5,6,1, 11,12,14, 3,4,5, 12,14,11>>
  IN row \o (IF Len(s) = 8 THEN <<7,8,1>> ELSE << >>)

Padded == [i \in 1 .. 18 |-> IF i <= Len(s) THEN s[i]
                             ELSE IF i > 10 /\ i <= 10 + Len(t) THEN t[i - 10]
                             ELSE 0]

-----------------------------------------------------------------------------
Init ==
  /\ pc = "first"
  /\ s = <<N, 1>>
  /\ kase = 0
  /\ u = << >>
  /\ t = << >>
  /\ tour = Start

ExtendS(pairs) ==
  /\ pc = "first"
  /\ \E e \in pairs : /\ ~FixedOrCommon(e[1], e[2])
                      /\ s' = s \o <<e[1], e[2]>>
                      /\ kase' = e[3]
  /\ UNCHANGED <<pc, u, t, tour>>

ChooseS4 == Len(s) = 2 /\ ExtendS(PairsS4)
ChooseS6 == Len(s) = 4 /\ ExtendS(PairsS6)
ChooseS8 == Len(s) = 6 /\ ExtendS(PairsS8)

(* Closing gives a tour that gains: the sequential move is made.            *)
MakeSequential ==
  /\ pc = "first"
  /\ \/ Len(s) = 4 /\ kase = 2 /\ tour' = Swapped(Start, s, <<1,2,3>>)
     \/ Len(s) = 6 /\ kase \in {1, 2, 5, 6} /\ tour' = Make3OptMove(s, kase)
     \/ Len(s) = 8 /\ kase <= 15 /\ tour' = Make4OptMove(s, kase)
  /\ pc' = "made"
  /\ UNCHANGED <<s, kase, u, t>>

(* Closing gives two cycles and gains: BridgeGain is called.                *)
CallBridgeGain ==
  /\ pc = "first"
  /\ \/ Len(s) = 4 /\ kase = 1 /\ s[4] # s[1] /\ kase' = 0
     \/ Len(s) = 6 /\ kase \in {3, 4, 7} /\ kase' = kase
     \/ Len(s) = 8 /\ kase >= 17
        /\ kase' = CASE kase = 17 -> 3 [] kase = 18 -> 4 [] kase = 19 -> 7
  /\ u' \in Segments(kase')
  /\ pc' = "bridge"
  /\ UNCHANGED <<s, t, tour>>

ExtendT(pairs) ==
  /\ pc = "bridge"
  /\ \E e \in pairs : Allowed(e[1], e[2]) /\ t' = t \o e
  /\ UNCHANGED <<pc, s, kase, u, tour>>

ChooseT2 == Len(t) = 0 /\ ExtendT(PairsT2)
ChooseT4 == Len(t) = 2 /\ ExtendT(PairsT4)
ChooseT6 == Len(t) = 4 /\ kase = 0 /\ ExtendT(PairsT6)
ChooseT8 == Len(t) = 6 /\ ExtendT(PairsT8)

(* Closing with (t2m,t1) gains: the composite move is made.                 *)
MakeBridge ==
  /\ pc = "bridge" /\ Len(t) >= 4
  /\ pc' = "made"
  /\ tour' = Swapped(Start, Padded,
                     IF kase = 0 THEN FirstRow \o LaterRow ELSE BridgeRow)
  /\ UNCHANGED <<s, kase, u, t>>

Next ==
  \/ ChooseS4 \/ ChooseS6 \/ ChooseS8 \/ MakeSequential \/ CallBridgeGain
  \/ ChooseT2 \/ ChooseT4 \/ ChooseT6 \/ ChooseT8 \/ MakeBridge

Spec == Init /\ [][Next]_vars

-----------------------------------------------------------------------------
(* The composite move gives the tour with the edges of both exchanges       *)
(* deleted and added and no other edge changed, so that the sum of the two  *)
(* gains is the gain of the tour.                                           *)
BridgesAreExchanges ==
  pc = "made" =>
    /\ Edges(tour) = (Edges(Start) \ (Deleted(s) \cup Deleted(t)))
                       \cup Added(s) \cup Added(t)
    /\ Cardinality(Deleted(s) \cup Deleted(t)) = (Len(s) + Len(t)) \div 2
    /\ Cardinality(Added(s) \cup Added(t)) = (Len(s) + Len(t)) \div 2
=============================================================================
