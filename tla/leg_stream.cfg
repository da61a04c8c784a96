CONSTANTS
  Lines = 3
SPECIFICATION Spec
CHECK_DEADLOCK FALSE
INVARIANTS AllBytesThrough AuditedWithFrame
PROPERTIES LinesFlow LegEnds
