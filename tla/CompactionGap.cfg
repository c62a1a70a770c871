SPECIFICATION Spec
CONSTANTS
    Key = {1, 2, 3}
    NumLevels = 3
    MaxMemCompactLevel = 1
    L0Trigger = 4
    LevelSize = 10
    MaxFileSize = 2
    MaxGrandParentOverlap = 1
    ExpandLimit = 10
    Scopes <- MCGapScopes
INVARIANT LevelsDisjoint
CHECK_DEADLOCK FALSE
