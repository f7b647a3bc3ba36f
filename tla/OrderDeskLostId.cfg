SPECIFICATION Spec
CONSTANTS
    Intents = {i1}
    MaxTries = 1
    MaxRows = 2
    PageSize = 2
    maxPages = 2
INVARIANTS
    EntrustReturnsTheId
