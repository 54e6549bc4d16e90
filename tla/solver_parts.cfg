CONSTANTS
    Setups <- AllSetups
    MaxVars = 4
    Limit = 2
    Scale = 2
    MaxInc = 2
    Implied = {3}
    MaxLevel = 2
    MaxSeen = 1
SPECIFICATION PartsSpec
INVARIANTS ListsTrue UnitsFound OrderComplete ReferencesLive ModelsExtend
