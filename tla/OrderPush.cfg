SPECIFICATION FairSpec
CONSTANTS
    Callers = {c1, c2}
    Ords = {s1, s2, s3}
    MaxReconnects = 2
    None = None
CHECK_DEADLOCK FALSE
INVARIANTS
    CountNotAhead
PROPERTIES
    CloseEndsEveryChannel
