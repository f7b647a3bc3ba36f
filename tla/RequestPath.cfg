SPECIFICATION PathFairSpec
CONSTANTS
    Callers = {c1, c2}
    Threshold = 2
    Cooldown = 1
    HalfOpenProbes = 1
    FailureCap = 2
    MaxAttempts = 2
    GlobalBurst = 1
    EndpointBurst = 1
    Limited = "query"
INVARIANTS
    ProbeSlotsAreInFlight
    SendsWithinBudget
    AdmittedUntilReported
PROPERTIES
    CloseDrains
    RecoversUnlessClosed
CHECK_DEADLOCK FALSE
