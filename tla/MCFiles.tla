------------------------------- MODULE MCFiles -------------------------------
(***************************************************************************)
(* Problem files for ProblemFile: every weight format, every way to break  *)
(* the numbers into lines, both orders of TYPE and FORMAT, sets on one or  *)
(* several lines, points that are rounded.  UPPER_DIAG_ROW, which the      *)
(* source calls not working, is read in two sizes.                         *)
(***************************************************************************)
EXTENDS Integers, SequencesExt, FiniteSetsExt

Big == 99

Key(key, value) == [key |-> key, value |-> value]
Data(numbers) == Key("DATA", numbers)

\* The ways to break a sequence into lines of numbers.
Breaks(s) ==
  {LET starts == SelectSeq([i \in DOMAIN s |-> i], LAMBDA i : i = 1 \/ i \in cut)
       End(i) == IF i = Len(starts) THEN Len(s) ELSE starts[i + 1] - 1
   IN [i \in DOMAIN starts |-> Data(SubSeq(s, starts[i], End(i)))] :
     cut \in SUBSET (2 .. Len(s))}

Header(size, type, format) ==
  {<<Key("DIMENSION", size), Key("MAX_TSP_COST", 7)>> \o order :
     order \in {<<type, format>>, <<format, type>>}}

-----------------------------------------------------------------------------
\* The cells of each format in the order of TSPLIB.
Cells(n) == (0 .. n - 1) \X (0 .. n - 1)
RowMajor(n, cells) ==
  SelectSeq([i \in 1 .. n * n |-> <<(i - 1) \div n, (i - 1) % n>>], LAMBDA c : c \in cells)
CellsOf(format, n) ==
  CASE format = "FULL_MATRIX" -> Cells(n)
    [] format = "LOWER_ROW" -> {c \in Cells(n) : c[2] < c[1]}
    [] format = "LOWER_DIAG_ROW" -> {c \in Cells(n) : c[2] <= c[1]}
    [] format = "UPPER_ROW" -> {c \in Cells(n) : c[1] < c[2]}
    [] format = "UPPER_DIAG_ROW" -> {c \in Cells(n) : c[1] <= c[2]}
    [] OTHER -> {}

\* A different weight for every cell, and one edge that is not there.
WeightOf(c) == IF c[1] = c[2] THEN 0 ELSE IF c[1] + c[2] = 1 THEN Big ELSE 10 * c[1] + c[2]
Swap(c) == <<c[2], c[1]>>
SaidWeights(format, n) ==
  LET cells == CellsOf(format, n)
      both == IF format = "FULL_MATRIX" THEN cells ELSE cells \union {Swap(c) : c \in cells}
  IN [c \in both |-> WeightOf(IF c \in cells THEN c ELSE Swap(c))]

Says(n, weights, sets, lines, gtsp, ordered) ==
  [size |-> n, weights |-> weights, sets |-> sets, lines |-> lines, gtsp |-> gtsp,
   budget |-> 7, ordered |-> ordered]

MatrixFiles ==
  UNION {LET numbers == [i \in DOMAIN RowMajor(n, CellsOf(format, n)) |->
                           WeightOf(RowMajor(n, CellsOf(format, n))[i])]
         IN {[says |-> Says(n, SaidWeights(format, n), <<0 .. n - 1>>, << >>, FALSE,
                            header[3].key = "EDGE_WEIGHT_TYPE"),
              lines |-> header \o <<Key("SECTION", "MATRIX_DATA")>> \o rows] :
               header \in Header(n, Key("EDGE_WEIGHT_TYPE", "EXPLICIT"),
                                 Key("EDGE_WEIGHT_FORMAT", format)),
               rows \in Breaks(numbers)} :
         <<format, n>> \in {<<"FULL_MATRIX", 3>>, <<"LOWER_ROW", 4>>, <<"LOWER_DIAG_ROW", 3>>,
                            <<"UPPER_ROW", 4>>, <<"UPPER_DIAG_ROW", 3>>, <<"UPPER_DIAG_ROW", 4>>}}

-----------------------------------------------------------------------------
\* Two sets of the five vertices, each on lines of its own.
SetLines(number, numbers) == Breaks(<<number>> \o numbers \o << -1 >>)
NoWeights == [c \in {} |-> 0]
Points5 == [i \in 1 .. 5 |-> [key |-> "POINT", value |-> <<10 * i, 0>>, dotted |-> <<FALSE, FALSE>>]]
SetFiles ==
  {[says |-> Says(5, NoWeights, <<{0, 2, 3}, {1, 4}>>, <<first, second>>, gtsp, TRUE),
    lines |-> <<Key("DIMENSION", 5), Key("MAX_TSP_COST", 7), Key("EDGE_WEIGHT_TYPE", "EUC_2D"),
                Key("SECTION", IF gtsp THEN "GTSP_DATA" ELSE "SUBGRAPH_DATA")>>
              \o first \o second \o <<Key("SECTION", "COORD_DATA")>> \o Points5] :
     gtsp \in BOOLEAN, first \in SetLines(1, <<4, 1, 3>>), second \in SetLines(2, <<5, 2>>)}

-----------------------------------------------------------------------------
\* Three points: one at 0, 0, the others anywhere on a small grid.
Point(x, y, dotted) == [key |-> "POINT", value |-> <<x, y>>, dotted |-> dotted]
Grid == {0, 6, 13, 27}
PointFiles ==
  {[says |-> Says(3, NoWeights, <<0 .. 2>>, << >>, FALSE, TRUE),
    lines |-> <<Key("DIMENSION", 3), Key("MAX_TSP_COST", 7), Key("EDGE_WEIGHT_TYPE", type),
                Key("SECTION", "COORD_DATA"), Point(0, 0, dotted), Point(x, 0, dotted),
                Point(y, -z, dotted)>>] :
     type \in {"EUC_2D", "CEIL_2D", "ATT"}, x, y, z \in Grid,
     dotted \in {<<TRUE, TRUE>>, <<FALSE, TRUE>>}}

AllFiles == MatrixFiles \union SetFiles \union PointFiles
NoGeo(p, q) == 1
=============================================================================
