SPECIFICATION Spec
CONSTANTS
    a1 = a1  a2 = a2  a3 = a3  a4 = a4
    NoTour = NoTour
    Models <- Instance
    Count <- CountA
    Total <- TotalA
    Bottleneck <- BottleneckA
    ClosedDiff <- Zero
    MinMax = TRUE
    Methods <- AllMethods
    BDivs = {3, 10}
    Inf = 30  GraphTsp = 7  GraphSub = 28
    CbInterval = 2
    LkhExact = FALSE  StepLimits = TRUE  TimeLimit = TRUE
    NDebug = TRUE
    OneShot = FALSE  MaxTspArg = 30  MaxSubArg = 30
INVARIANTS BudgetInv SolutionReal
PROPERTIES RoundsShrink Terminates
