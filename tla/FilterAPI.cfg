SPECIFICATION Spec
CONSTANTS
  Subs = {f1, f2, f3}
  Events = {"heads"}
  MaxEvents = 1
  RPCFilterCap = 2
SYMMETRY Symmetry
CHECK_DEADLOCK FALSE
INVARIANTS
  CapRespected
  NothingClosedTwice
  TopicHasSource
  FilterHasReader
