CONSTANTS
    YY_BUF_SIZE = 3
    YY_READ_BUF_SIZE = 3
    Streams <- MCStreams
    MaxPieces = 4
SPECIFICATION Spec
INVARIANTS
    TypeOK
    LongestMatches
    NoTokenHeldBack
PROPERTY
    ScannerTerminates
