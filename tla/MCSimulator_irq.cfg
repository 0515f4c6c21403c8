CONSTANTS
    WordMod = 16
    MemSize = 12
    PC = 1
    ResetCpsr = 3
    Decode <- MCDecode
    Requests <- LivenessRequests
    Memories <- MCMemories
    IrqBytes <- MCIrqBytes
    MaxRequests = 1
    MaxIrqs = 1
SPECIFICATION Spec
PROPERTY IrqServed
