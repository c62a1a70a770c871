SPECIFICATION ReadersSpec
CONSTANTS
    MaxKey = 3
    MaxHeight = 2
INVARIANTS ListIsSafe NoSilentLoss
PROPERTIES CacheIsSafe IteratorIsRight TablesAreCursors

CHECK_DEADLOCK FALSE
