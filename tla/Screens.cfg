CONSTANTS
    MaxRequests = 3
    Account = {ann, bob, cyd}
    Nameless = {cyd}
    MaxSignIns = 2
    MaxSignOuts = 2
SPECIFICATION ScreensSpec
INVARIANTS TypeOK NoUnbalancedLeave AnswerIsFresh UserIsRight FormIsStored AreaIsRight
PROPERTIES AnswersInOrder LoginEnds UsesLocation

CHECK_DEADLOCK FALSE
