--------------------------- MODULE MCLinKernighan ---------------------------
(***************************************************************************)
(* Problems for LinKernighan.  The asymmetric ones are what TSP::LKH hands *)
(* over: with four vertices, the fewest it does (eight nodes in four       *)
(* segments of two), with five (ten nodes, three segments of three and a   *)
(* rest of one), with six (where a second trial can end worse than the     *)
(* first) and with seven (fourteen nodes in five segments, so that the     *)
(* shorter run of segments can be the complement of the one named).        *)
(* The symmetric one has the moves that put three paths together in the    *)
(* other ways.                                                             *)
(***************************************************************************)
EXTENDS LinKernighan

Problem(asymmetric, w, tree, maxSwaps, maxTrials, runs, maxCost, given) ==
  [asymmetric |-> asymmetric, weights |-> w, tree |-> tree,
   maxSwaps |-> maxSwaps, maxTrials |-> maxTrials, runs |-> runs,
   maxCost |-> maxCost, given |-> given]

Four == <<<<0, 3, 1, 4>>, <<2, 0, 5, 1>>, <<4, 2, 0, 3>>, <<1, 6, 2, 0>>>>
FourTree == {{1, 5}, {2, 6}, {3, 7}, {4, 8}, {1, 7}, {2, 8}, {4, 5}}

Five == <<<<0, 3, 1, 4, 2>>, <<2, 0, 5, 1, 3>>, <<4, 2, 0, 3, 6>>,
          <<1, 6, 2, 0, 4>>, <<5, 1, 3, 2, 0>>>>
FiveTree == {{1, 6}, {2, 7}, {3, 8}, {4, 9}, {5, 10},
             {1, 8}, {2, 9}, {4, 6}, {5, 7}}

Six == <<<<0, 24, 31, 31, 19, 27>>, <<15, 0, 29, 1, 27, 43>>,
         <<46, 17, 0, 16, 41, 15>>, <<1, 19, 20, 0, 22, 43>>,
         <<10, 48, 39, 20, 0, 2>>, <<15, 39, 17, 2, 10, 0>>>>
SixTree == {{1, 7}, {2, 8}, {3, 9}, {4, 10}, {5, 11}, {6, 12},
            {2, 10}, {4, 7}, {5, 12}, {6, 10}, {3, 12}}

Seven == <<<<0, 4, 5, 2, 7, 8, 3>>, <<2, 0, 2, 1, 7, 9, 5>>,
           <<1, 4, 0, 9, 9, 6, 5>>, <<3, 2, 5, 0, 4, 1, 5>>,
           <<5, 4, 3, 5, 0, 5, 6>>, <<2, 10, 6, 7, 9, 0, 4>>,
           <<3, 4, 8, 5, 2, 9, 0>>>>
SevenTree == {{1, 8}, {2, 9}, {3, 10}, {4, 11}, {5, 12}, {6, 13}, {7, 14},
              {2, 11}, {3, 8}, {4, 13}, {1, 11}, {7, 12}, {1, 14}}

Symmetric == <<<<0, 19, 3, 16, 9, 2, 1>>, <<19, 0, 5, 19, 16, 12, 11>>,
               <<3, 5, 0, 1, 9, 16, 7>>, <<16, 19, 1, 0, 14, 18, 18>>,
               <<9, 16, 9, 14, 0, 4, 7>>, <<2, 12, 16, 18, 4, 0, 19>>,
               <<1, 11, 7, 18, 7, 19, 0>>>>
SymmetricTree == {{1, 7}, {3, 4}, {1, 6}, {1, 3}, {5, 6}, {2, 3}}

AllInstances ==
  {Problem(TRUE, Four, FourTree, 8, 2, 1, 0, 0),
   Problem(TRUE, Four, FourTree, 8, 1, 2, 5, 1),
   Problem(TRUE, Five, FiveTree, 10, 1, 1, 0, 3),
   Problem(TRUE, Six, SixTree, 12, 2, 2, 0, 6),
   Problem(TRUE, Seven, SevenTree, 14, 1, 1, 0, 7),
   Problem(FALSE, Symmetric, SymmetricTree, 7, 1, 1, 0, 6)}
=============================================================================
