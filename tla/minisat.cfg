CONSTANTS
    Setups <- AllSetups
SPECIFICATION Spec
INVARIANTS TheoryMirrorsTrail VerdictFresh ConflictIsCurrent LearntsFollow TrueIsModel FalseMeansNone
PROPERTIES LearntIsAsserting
