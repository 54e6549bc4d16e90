SPECIFICATION Spec
CONSTANTS
    N = 3
    Subgraph <- SubgraphA
    Tours <- ToursA
    TourCost <- TourCostA
    Requests <- RequestsA
    TspBudgets = {0, 3, 4, 9, 10, 11, 12, 13, 15, 17, 30}
    SubBudgets = {2, 3, 5, 7, 8}
    Types = {"TSP", "MIN_MAX_TSP"}
    Lkhs = {"exact", "heuristic", "dying"}
INVARIANTS TrueMeansTours FalseMeansNone
PROPERTY Terminates
