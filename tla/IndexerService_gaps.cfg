SPECIFICATION Spec
CONSTANTS
  MaxHeight = 4
  MaxStops = 0
  DbErrors = TRUE
CHECK_DEADLOCK FALSE
INVARIANT NoGaps
