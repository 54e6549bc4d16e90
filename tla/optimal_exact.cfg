SPECIFICATION Spec
CONSTANTS
    a1 = a1  a2 = a2  a3 = a3  a4 = a4
    NoTour = NoTour
    Models <- Instance
    Count <- CountA
    Total <- TotalA
    Bottleneck <- BottleneckA
    ClosedDiff <- Zero
    MinMax = FALSE
    Methods <- AllMethods
    BDivs = {1, 2, 3, 10}
    Inf = 30  GraphTsp = 26  GraphSub = 5
    CbInterval = 1
    LkhExact = TRUE  StepLimits = FALSE  TimeLimit = FALSE
    NDebug = FALSE
    OneShot = FALSE  MaxTspArg = 30  MaxSubArg = 30
INVARIANTS ExactInv Optimal
PROPERTIES IncumbentImproves Refines
