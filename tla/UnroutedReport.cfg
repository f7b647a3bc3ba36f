SPECIFICATION UnroutedSpec
CONSTANTS
    Streams = {"services", "transport", "push"}
    Reporters = {forward, hook, dispatch1, dispatch2}
    Forwarder = forward
    Dispatchers = {dispatch1, dispatch2}
    Buffer = 2
    MaxReports = 4
    IDs = {i1, i2, i3}
    ReportCap = 2
    MaxUpdates = 4
    NoOne = NoOne
CHECK_DEADLOCK FALSE
INVARIANTS
    EveryIdIsAccountedFor
    NeverPanics
    DropsAreExact
