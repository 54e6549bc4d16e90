CONSTANTS
    OptN = 10  KOptN = 8  GainN = 12
    OptTypes = {2, 3, 4, 5}  KOptTypes = {2, 3, 4}
    Nonsequential = 6  Patching = 3
SPECIFICATION Spec
INVARIANTS MovesAreExchanges NoMoveMissed MarksFollow ListIsTour BoundIsSound CandidatesAreNearest CandidatesRestored
CHECK_DEADLOCK FALSE
