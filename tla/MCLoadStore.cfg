CONSTANTS
    Bits = 4
    ByteBits = 1
    PC = 3
    Instructions = {}
    Size = 12
    NibbleMod = 4
    OffsetMod = 8
    Starts <- MCStarts
    Transfers <- MCTransfers
    MaxSteps = 2
SPECIFICATION LoadStoreSpec
INVARIANTS
    StackDiscipline
    PushPopOne
    FailedConditionDoesNothing
CHECK_DEADLOCK FALSE
