SPECIFICATION ManagerFairSpec
CONSTANTS
    Callers = {c1, c2}
    Loops = {l1, l2}
    None = None
INVARIANTS
    OneLoginInFlight
    FollowerHearsAnOutcome
    NoOrphanLoop
PROPERTIES
    WaitersReturn
