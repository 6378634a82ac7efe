SPECIFICATION FairSpec
CONSTANTS
  MaxHeight = 4
  MaxStops = 2
  DbErrors = FALSE
CHECK_DEADLOCK FALSE
INVARIANTS
  NoGaps
PROPERTIES
  BackwardCompletes
  EventuallyIndexed
