CONSTANTS
    Tries = 5
    RefreshLimit = 5
    SmokeLimit = 8
    Horizon = 16
SPECIFICATION Spec
CHECK_DEADLOCK FALSE
INVARIANTS StartsInTime PortOpensInTime
PROPERTY StartingEnds
