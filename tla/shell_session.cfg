CONSTANT MaxLoads = 3
SPECIFICATION Spec
CHECK_DEADLOCK FALSE
INVARIANTS WayForward RestoredOnlyLate
PROPERTIES SignOutEnds MintRefusedForCause
