CONSTANTS
    MAX_FILES_NUMBER = 3
    Names = {1, 2, 3, 4}
    MaxOptions = 4
    PortMod = 3
SPECIFICATION StartupSpec
INVARIANTS
    FindsExactlyTheAdded
    CachedFlagRight
    ServersReachable
    InterruptIsTheNamed
PROPERTIES
    NoEntryLost
    ComesUp
