SPECIFICATION FairSpec
CONSTANTS
    Callers = {c1, c2}
    Keys = {k1}
    Subs = {s1, s2, s3}
    Entries = {e1, e2, e3}
    MaxReconnects = 1
    None = None
CHECK_DEADLOCK FALSE
INVARIANTS
    RefusedAreClosed
    OnlyARaceSilences
    CloseClosesEverySubscription
PROPERTIES
    CloseQuiesces
