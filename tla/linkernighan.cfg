CONSTANTS
    Instances <- AllInstances
SPECIFICATION Spec
INVARIANTS ListSound GainsAdd ChainRevocable PassiveNodesTried AnswerIsReal
PROPERTY Terminates
