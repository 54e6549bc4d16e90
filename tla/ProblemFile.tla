----------------------------- MODULE ProblemFile -----------------------------
(***************************************************************************)
(* parse_input (src/tsp.cpp): the lines of a problem file into the graph,  *)
(* the rounding of coordinates into weights, and what enable_lkh_theory    *)
(* and enable_mst_theory ask of the graph read.  One step reads one line.  *)
(*                                                                         *)
(* A line is a record [key, value].  A line of numbers is [key |-> "DATA", *)
(* value |-> <sequence of integers>], a line of coordinates [key |->       *)
(* "POINT", value |-> <<x, y>>, dotted |-> <<in x, in y>>] in tenths.       *)
(***************************************************************************)
EXTENDS Integers, SequencesExt, FiniteSetsExt, TLC

CONSTANTS Files,         \* the files to read: what each says, and its lines
          INF,           \* 999999: no edge
          Geo(_, _)      \* the weight of two points of a GEO file

VARIABLES
  file,   \* a member of Files
  step,   \* "read", then "convert", "check" and "done", or "failed"
  at,     \* the next line
  graph,  \* the TSP object
  reader  \* parse_state, data_type and the places for what comes next

vars == <<file, step, at, graph, reader>>

Formats == {"FULL_MATRIX", "LOWER_ROW", "LOWER_DIAG_ROW", "UPPER_ROW", "UPPER_DIAG_ROW"}
Sections == {"MATRIX_DATA", "COORD_DATA", "SUBGRAPH_DATA", "GTSP_DATA", "DISPLAY_DATA"}

Init ==
  /\ file \in Files
  /\ step = "read" /\ at = 1
  /\ graph = [size |-> 0, edge_weight |-> << >>, adjacency |-> {},
              tsp_cost_budget |-> INF, subgraph_cost_budget |-> INF,
              subgraphs |-> << >>, gtsp_sets |-> << >>, lkh |-> FALSE, mst |-> FALSE]
  /\ reader = [parse_state |-> "HEADER", data_type |-> "", vid |-> <<0, 0>>,
               subgraph_index |-> 0, gtsp_set_index |-> 0, coords |-> << >>]

Line == file.lines[at]
Reading == step = "read" /\ at <= Len(file.lines)
Turn == at' = at + 1 /\ UNCHANGED <<file, step>>

Cells(size) == (0 .. size - 1) \X (0 .. size - 1)

-----------------------------------------------------------------------------
(* The header.  A FORMAT only counts after TYPE: EXPLICIT.                  *)

Dimension ==
  /\ Reading /\ reader.parse_state = "HEADER" /\ Line.key = "DIMENSION"
  /\ graph' = [graph EXCEPT !.size = Line.value,
                            !.edge_weight = [c \in Cells(Line.value) |-> -1]]
  /\ Turn /\ UNCHANGED reader

Budget ==
  /\ Reading /\ reader.parse_state = "HEADER"
  /\ \/ /\ Line.key = "MAX_TSP_COST"
        /\ graph' = [graph EXCEPT !.tsp_cost_budget = Line.value]
     \/ /\ Line.key = "MAX_SUBGRAPH_COST"
        /\ graph' = [graph EXCEPT !.subgraph_cost_budget = Line.value]
  /\ Turn /\ UNCHANGED reader

WeightType ==
  /\ Reading /\ reader.parse_state = "HEADER"
  /\ \/ Line.key = "EDGE_WEIGHT_TYPE"
     \/ Line.key = "EDGE_WEIGHT_FORMAT" /\ reader.data_type = "EXPLICIT"
  /\ reader' = [reader EXCEPT !.data_type = Line.value]
  /\ Turn /\ UNCHANGED graph

\* A section starts whatever the state was.
Section ==
  /\ Reading /\ Line.key = "SECTION"
  /\ reader' = [reader EXCEPT !.parse_state = Line.value]
  /\ Turn /\ UNCHANGED graph

-----------------------------------------------------------------------------
(* The weights.                                                             *)

\* Where the first weight goes: vid00, vid01 start at 0, 0.
FirstCell(type, vid) ==
  CASE type = "LOWER_ROW" /\ vid = <<0, 0>> -> <<1, 0>>
    [] type = "UPPER_ROW" /\ vid = <<0, 0>> -> <<0, 1>>
    [] OTHER -> vid

\* A slip for NextCell: a row of UPPER_ROW starts on its diagonal.
NextCellOnDiagonal(type, vid, size) ==
  LET i == vid[1]  j == vid[2] + 1
  IN CASE type = "FULL_MATRIX" /\ j >= size -> <<i + 1, 0>>
       [] type = "LOWER_ROW" /\ j >= i -> <<i + 1, 0>>
       [] type = "LOWER_DIAG_ROW" /\ j > i -> <<i + 1, 0>>
       [] type \in {"UPPER_ROW", "UPPER_DIAG_ROW"} /\ j >= size -> <<i + 1, i + 1>>
       [] OTHER -> <<i, j>>

NextCell(type, vid, size) ==
  LET i == vid[1]  j == vid[2] + 1
  IN CASE type = "FULL_MATRIX" /\ j >= size -> <<i + 1, 0>>
       [] type = "LOWER_ROW" /\ j >= i -> <<i + 1, 0>>
       [] type = "LOWER_DIAG_ROW" /\ j > i -> <<i + 1, 0>>
       [] type = "UPPER_ROW" /\ j >= size -> <<i + 1, i + 2>>
       [] type = "UPPER_DIAG_ROW" /\ j >= size -> <<i + 1, i + 1>>
       [] OTHER -> <<i, j>>

\* The half formats write both directions.
Directions(type, cell) ==
  IF type = "FULL_MATRIX" THEN {cell} ELSE {cell, <<cell[2], cell[1]>>}

Weight(g, cells, weight) ==
  [g EXCEPT !.edge_weight = [c \in DOMAIN @ |-> IF c \in cells THEN weight ELSE @[c]],
            !.adjacency = IF weight < INF THEN @ \union cells ELSE @ \ cells]

MatrixRow ==
  /\ Reading /\ reader.parse_state = "MATRIX_DATA" /\ Line.key = "DATA"
  /\ reader.data_type \in Formats
  /\ LET type == reader.data_type
         Put(acc, weight) ==
           LET cell == FirstCell(type, acc.vid)
           IN [graph |-> Weight(acc.graph, Directions(type, cell), weight),
               vid |-> NextCell(type, cell, graph.size)]
         read == FoldLeft(Put, [graph |-> graph, vid |-> reader.vid], Line.value)
     IN graph' = read.graph /\ reader' = [reader EXCEPT !.vid = read.vid]
  /\ Turn

\* "invalid parsing state": parse_input returns 1, which SATTSP's
\* constructor does not look at.
MatrixRowUnreadable ==
  /\ Reading /\ reader.parse_state = "MATRIX_DATA" /\ Line.key = "DATA"
  /\ reader.data_type \notin Formats
  /\ step' = "failed"
  /\ UNCHANGED <<file, at, graph, reader>>

-----------------------------------------------------------------------------
(* Coordinates, subgraphs and sets.                                         *)

\* Towards zero, to whole units.
Truncated(tenths) == IF tenths < 0 THEN - 10 * ((- tenths) \div 10)
                     ELSE 10 * (tenths \div 10)

\* Two decimal points are read as such, none as integers; a point in y alone
\* is cut off with what follows it, and one in x alone fits neither pattern.
Coordinates ==
  /\ Reading /\ reader.parse_state = "COORD_DATA" /\ Line.key = "POINT"
  /\ reader' =
       [reader EXCEPT !.coords =
          CASE Line.dotted = <<TRUE, TRUE>> -> Append(@, Line.value)
            [] Line.dotted[1] = FALSE -> Append(@, <<Line.value[1], Truncated(Line.value[2])>>)
            [] OTHER -> @]
  /\ Turn /\ UNCHANGED graph

\* A line of a section of sets: its number when the set has not been opened,
\* vertices from 1, -1 at the end.  A vertex with no set open is written
\* beyond the end of the vector (beyond).
ReadSets(sets, index, data) ==
  LET opens == data[1] = index + 1
      Put(acc, number) ==
        CASE number = -1 -> [acc EXCEPT !.index = @ + 1]
          [] number # -1 /\ acc.index < Len(acc.sets) ->
               [acc EXCEPT !.sets[acc.index + 1] = Append(@, number - 1)]
          [] OTHER -> [acc EXCEPT !.beyond = TRUE]
  IN FoldLeft(Put, [sets |-> IF opens THEN Append(sets, << >>) ELSE sets,
                    index |-> index, beyond |-> FALSE],
              IF opens THEN Tail(data) ELSE data)

\* Fewer than three numbers are no line of sets.
IsSetLine(l) == l.key = "DATA" /\ Len(l.value) >= 3

Subgraphs ==
  /\ Reading /\ reader.parse_state = "SUBGRAPH_DATA" /\ IsSetLine(Line)
  /\ LET index == reader.subgraph_index
         read == ReadSets(graph.subgraphs, index, Line.value)
         Closed(i) == i \in index + 1 .. read.index
     IN /\ ~ read.beyond
        /\ graph' = [graph EXCEPT !.subgraphs =
                       [i \in DOMAIN read.sets |->
                          IF Closed(i) THEN SortSeq(read.sets[i], <) ELSE read.sets[i]]]
        /\ reader' = [reader EXCEPT !.subgraph_index = read.index]
  /\ Turn

GtspSets ==
  /\ Reading /\ reader.parse_state = "GTSP_DATA" /\ IsSetLine(Line)
  /\ LET read == ReadSets(graph.gtsp_sets, reader.gtsp_set_index, Line.value)
     IN /\ ~ read.beyond
        /\ graph' = [graph EXCEPT !.gtsp_sets = read.sets]
        /\ reader' = [reader EXCEPT !.gtsp_set_index = read.index]
  /\ Turn

\* Any other line, a header line after the header too.
Skipped ==
  \/ Line.key \in {"DIMENSION", "MAX_TSP_COST", "MAX_SUBGRAPH_COST", "EDGE_WEIGHT_TYPE"}
       /\ reader.parse_state # "HEADER"
  \/ Line.key = "EDGE_WEIGHT_FORMAT"
       /\ ~ (reader.parse_state = "HEADER" /\ reader.data_type = "EXPLICIT")
  \/ Line.key = "POINT" /\ reader.parse_state # "COORD_DATA"
  \/ Line.key = "DATA"
       /\ \/ reader.parse_state \notin {"MATRIX_DATA", "SUBGRAPH_DATA", "GTSP_DATA"}
          \/ reader.parse_state # "MATRIX_DATA" /\ ~ IsSetLine(Line)

SkipLine == Reading /\ Skipped /\ Turn /\ UNCHANGED <<graph, reader>>

EndOfFile ==
  /\ step = "read" /\ at > Len(file.lines)
  /\ step' = "convert"
  /\ UNCHANGED <<file, at, graph, reader>>

-----------------------------------------------------------------------------
(* From coordinates to weights, in whole units.                             *)

Square(x) == x * x
Distance2(p, q) == Square(p[1] - q[1]) + Square(p[2] - q[2])  \* in hundredths

\* The whole numbers nearest to the root of a / b, and next above it.
Nint(a, b) == CHOOSE w \in 0 .. a + 1 : /\ b * Square(2 * w - 1) <= 4 * a \/ w = 0
                                        /\ 4 * a < b * Square(2 * w + 1)
Ceil(a, b) == CHOOSE w \in 0 .. a + 1 : /\ a <= b * Square(w)
                                        /\ w > 0 => b * Square(w - 1) < a

CoordinateWeight(type, p, q) ==
  CASE type = "EUC_2D" -> Nint(Distance2(p, q), 100)
    [] type = "CEIL_2D" -> Ceil(Distance2(p, q), 100)
    [] type = "ATT" -> Ceil(Distance2(p, q), 1000)
    [] type = "GEO" -> Geo(p, q)

CoordinateTypes == {"EUC_2D", "CEIL_2D", "ATT", "GEO"}

ConvertCoordinates ==
  LET Different(c) == c[1] # c[2]
      Of(c) == CoordinateWeight(reader.data_type, reader.coords[c[1] + 1], reader.coords[c[2] + 1])
  IN [graph EXCEPT !.edge_weight = [c \in DOMAIN @ |-> IF Different(c) THEN Of(c) ELSE INF],
                   !.adjacency = {c \in DOMAIN graph.edge_weight : Different(c)}]

Whole(g) == IF g.subgraphs = << >>
            THEN [g EXCEPT !.subgraphs = <<[v \in 1 .. g.size |-> v - 1]>>]
            ELSE g

\* A file with fewer points than its dimension is read beyond its end.
Convert ==
  /\ step = "convert"
  /\ reader.data_type \in CoordinateTypes => Len(reader.coords) >= graph.size
  /\ graph' = Whole(IF reader.data_type \in CoordinateTypes THEN ConvertCoordinates ELSE graph)
  /\ step' = "check"
  /\ UNCHANGED <<file, at, reader>>

-----------------------------------------------------------------------------
(* metric and symmetric let one unit pass, for the rounding.                *)

Tolerance == 1

Metric(g) ==
  \A u, v, w \in 0 .. g.size - 1 :
    Cardinality({u, v, w}) = 3 =>
      g.edge_weight[<<u, v>>] + g.edge_weight[<<v, w>>] - g.edge_weight[<<u, w>>] >= - Tolerance

Symmetric(g) ==
  \A u, v \in 0 .. g.size - 1 :
    LET difference == g.edge_weight[<<u, v>>] - g.edge_weight[<<v, u>>]
    IN difference \in - Tolerance .. Tolerance

\* enable_lkh_theory and enable_mst_theory, whichever main calls: a graph
\* that is metric is taken to be tsp_monotonic.
Check ==
  /\ step = "check"
  /\ graph' = [graph EXCEPT !.lkh = Metric(graph), !.mst = Metric(graph) /\ Symmetric(graph)]
  /\ step' = "done"
  /\ UNCHANGED <<file, at, reader>>

Next ==
  \/ Dimension \/ Budget \/ WeightType \/ Section
  \/ MatrixRow \/ MatrixRowUnreadable \/ Coordinates \/ Subgraphs \/ GtspSets
  \/ SkipLine \/ EndOfFile \/ Convert \/ Check

-----------------------------------------------------------------------------
\* Sets are read back when each starts on a line of its own, no line has
\* fewer than three numbers, and none but its first starts with its number.
Plain(set, number) ==
  /\ \A l \in ToSet(set) : IsSetLine(l)
  /\ \A i \in DOMAIN set : set[i].value[1] = number <=> i = 1

\* What a file says: its size and weights, the subgraphs or GTSP sets (one
\* of all vertices for none) and the lines of each, the budget, and whether
\* FORMAT follows TYPE.
Vertices(sets) == [i \in DOMAIN sets |-> ToSet(sets[i])]

\* A file whose FORMAT follows its TYPE is read as it was meant, wherever its
\* lines are broken: weights in both directions, an edge where there is one,
\* sets that hold their vertices, and no set at all means one of all.
GraphAsWritten ==
  LET said == file.says
      n == graph.size
  IN /\ step = "failed" => ~ said.ordered
     /\ step = "done" =>
       /\ n = said.size
       /\ \A c \in Cells(n) :
            /\ c \in DOMAIN said.weights =>
                 /\ graph.edge_weight[c] = said.weights[c]
                 /\ c \in graph.adjacency <=> said.weights[c] < INF
       /\ (\A i \in DOMAIN said.lines : Plain(said.lines[i], i)) =>
            Vertices(IF said.gtsp THEN graph.gtsp_sets ELSE graph.subgraphs) = said.sets
       /\ said.gtsp => Vertices(graph.subgraphs) = <<0 .. n - 1>>
       /\ graph.tsp_cost_budget = said.budget

\* Weights rounded from coordinates are always accepted as metric and
\* symmetric: three roundings never add up to more than the tolerance.
RoundedIsMetric ==
  step = "done" /\ reader.data_type \in CoordinateTypes \ {"GEO"} => graph.lkh /\ graph.mst
=============================================================================
