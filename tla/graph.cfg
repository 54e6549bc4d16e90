SPECIFICATION PartsSpec
CONSTANT Setups <- TheorySetups
INVARIANTS GraphAsWritten EncodingIsTours TheoriesFollow TreeIsMinimal
CHECK_DEADLOCK FALSE
