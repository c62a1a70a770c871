SPECIFICATION EnvSpec
CONSTANTS
    Scopes <- MCScopes
    WriteBack = FALSE
    Process <- Three
    Locker <- Three
    Homes <- MCHomes
    Thread = {t, u, v, w}
    MaxMmaps = 2
    MaxOpenFiles = 1
    Caller <- Three
    MaxItems = 5
    BufferSize = 3
    MaxBytes = 9
    MaxWriteErrors = 2
    MaxNumber = 8
    MaxCrashes = 1
    MaxErrors = 1
INVARIANTS
     OneOwner WithinLimits NothingLost
    LogIsRead TableIsRight VarintsKeepValues MessageIsRight
PROPERTIES  WorkRuns DecodingEnds

CHECK_DEADLOCK FALSE
