CONSTANTS
    MAX_ERROR_SIZE = 3
    MaxCommands = 3
    Continues = {2}
    MaxFaults = 2
    MaxStrays = 3
    MaxTimeouts = 3
SPECIFICATION Spec
INVARIANTS
    ErrorBufferFits
    NoSigpipeInCleanSession
PROPERTIES
    ExactlyOnce
    CommandAnswered
    ScannerEnds
