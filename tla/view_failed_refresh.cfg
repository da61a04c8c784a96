CONSTANTS
    Views = {"row"}
    Tools = {}
    Quotes = {"real"}
    MaxInspects = 2
    MaxReturns = 0
SPECIFICATION Spec
INVARIANT GreenOnlyWhenVerified
CHECK_DEADLOCK FALSE
