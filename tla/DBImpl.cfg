SPECIFICATION Spec
CONSTANTS
    Writer = {"w1", "w2", "w3", "f"}
    Batch <- MCBatch
    Synced = {"w2"}
    L0Trigger = 1
    L0Slowdown = 1
    L0Stop = 2
    Scopes <- MCScopes
INVARIANTS SnapshotsAreRight
PROPERTIES KVSpec WritesReturn

CHECK_DEADLOCK FALSE
