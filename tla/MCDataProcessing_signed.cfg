CONSTANTS
    Bits = 3
    ByteBits = 2
    PC = 2
    Instructions <- MCInstructions
SPECIFICATION Spec
INVARIANT
    SignedOrder
