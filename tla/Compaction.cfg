SPECIFICATION Spec
CONSTANTS
    Key = {1, 2, 3}
    NumLevels = 3
    MaxMemCompactLevel = 1
    L0Trigger = 2
    LevelSize = 2
    MaxFileSize = 2
    MaxGrandParentOverlap = 1
    ExpandLimit = 10
    Scopes <- MCScopes
INVARIANTS VersionIsSound GetIsRight

CHECK_DEADLOCK FALSE
