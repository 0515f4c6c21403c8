CONSTANTS
    Size = 8
    Byte = {0, 1}
    Addresses = {0, 2, 3, 4, 6, 7, 8, 9, 12}
    Contents <- MCContents
    MaxCalls = 2
SPECIFICATION Spec
INVARIANTS
    InBounds
    RegistersLookLikeMemory
PROPERTY
    HostIndependent
CHECK_DEADLOCK FALSE
