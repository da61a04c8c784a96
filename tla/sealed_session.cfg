CONSTANTS
    Calls = {c1, c2}
    MaxMessages = 2
    MaxErrors = 1
SPECIFICATION Spec
INVARIANT NoReplayRefusal
PROPERTIES ImplementsOrderedCalls EveryCallSettles LossIsHeard ImplementsSocket CloseIsTold
CHECK_DEADLOCK FALSE
