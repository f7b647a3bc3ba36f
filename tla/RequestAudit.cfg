SPECIFICATION Spec
CONSTANT MaxEdits = 3
INVARIANTS
    NeverLooser
    SameOrderOnTheWire
    HKOrdersAreOnGrid
    NoInventedAmounts
    EveryFrameIsAccountedFor
    ReachesWhoAsked
