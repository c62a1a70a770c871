SPECIFICATION Spec
CONSTANTS
    Key = {1, 2}
    NumLevels = 3
    MaxMemCompactLevel = 1
    L0Trigger = 1
    LevelSize = 10
    MaxFileSize = 2
    MaxGrandParentOverlap = 1
    ExpandLimit = 10
    Scopes <- MCSplitScopes
INVARIANTS GetIsRight
CHECK_DEADLOCK FALSE
