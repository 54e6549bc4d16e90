CONSTANTS
    Setups <- AllSetups
SPECIFICATION Spec
INVARIANT FalseLiteralWatched
