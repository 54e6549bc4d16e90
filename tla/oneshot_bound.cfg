SPECIFICATION Spec
CONSTANTS
    a1 = a1  a2 = a2  a3 = a3  a4 = a4
    NoTour = NoTour
    Models <- Instance
    Count <- CountA
    Total <- TotalA
    Bottleneck <- BottleneckA
    ClosedDiff <- Zero
    MinMax = FALSE
    Methods <- AllMethods
    BDivs = {10}
    Inf = 9  GraphTsp = 9  GraphSub = 9
    CbInterval = 1
    LkhExact = TRUE  StepLimits = FALSE  TimeLimit = FALSE
    NDebug = FALSE
    OneShot = TRUE  MaxTspArg = 6  MaxSubArg <- MinusOne
INVARIANTS BoundAnswered
