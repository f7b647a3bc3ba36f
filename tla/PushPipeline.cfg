SPECIFICATION PipeSpec
CONSTANTS
    Buffer = 2
    DispatchBuffer = 2
    MaxUpdates = 5
    MaxTime = 2
CHECK_DEADLOCK FALSE
INVARIANTS
    LossIsCounted
    NewestSurvives
    OutOfOrderIsExact
PROPERTIES
    DeliversInOrder
