SPECIFICATION FairSpec
CONSTANTS
    Runners = {r1, r2}
    MaxConns = 2
    Subs = {s1, s2}
CHECK_DEADLOCK FALSE
INVARIANTS
    OneRun
    NothingLeftOpen
    ListedIsFed
PROPERTIES
    CloseComesBack
