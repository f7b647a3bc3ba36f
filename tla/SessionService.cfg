SPECIFICATION FairSpec
CONSTANTS
    Callers = {c1, c2, c3}
    Attempts = {a1, a2, a3}
    None = None
INVARIANTS
    SingleLeader
    NoRedundantRequest
    StoreFollowsTheGateway
PROPERTIES
    JoinersReturn
