CONSTANTS
    Bits = 12
    ByteBits = 4
    PC = 2
    OffsetBits = 4
    Counts = {0, 1, 2, 5, 15}
    Instructions = {}
SPECIFICATION Program
INVARIANTS
    LoopCount
    CallReturns
PROPERTY
    LoopEnds
