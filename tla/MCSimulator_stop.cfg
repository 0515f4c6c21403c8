CONSTANTS
    WordMod = 16
    MemSize = 12
    PC = 1
    ResetCpsr = 3
    Decode <- MCDecode
    Requests <- MCRequests
    Memories <- MCMemories
    IrqBytes <- MCIrqBytes
    MaxRequests = 2
    MaxIrqs = 2
SPECIFICATION Safety
INVARIANT StopsAtBreakpoint
