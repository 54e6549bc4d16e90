SPECIFICATION Spec
CONSTANTS
    a1 = a1  a2 = a2  a3 = a3  a4 = a4
    NoTour = NoTour
    Models <- Instance
    Count <- CountA
    Total <- TotalA
    Bottleneck <- BottleneckA
    ClosedDiff <- Zero
    MinMax = FALSE
    Methods <- AllMethods
    BDivs = {10}
    Inf = 9  GraphTsp = 9  GraphSub = 5
    CbInterval = 1
    LkhExact = FALSE  StepLimits = FALSE  TimeLimit = FALSE
    NDebug = FALSE
    OneShot = FALSE  MaxTspArg = 9  MaxSubArg = 9
INVARIANTS VerifyHolds
