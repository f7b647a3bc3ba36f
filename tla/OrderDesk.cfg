SPECIFICATION FairSpec
CONSTANTS
    Intents = {i1}
    MaxTries = 2
    MaxRows = 4
    PageSize = 2
    maxPages = 2
INVARIANTS
    OneOrderPerIntent
    CancelledIsGone
    WalkIsComplete
PROPERTIES
    WalksEnd
