SPECIFICATION Spec
CONSTANTS
  Subs = {f1, f2, f3}
  Events = {"logs"}
  MaxEvents = 1
  RPCFilterCap = 3
CHECK_DEADLOCK FALSE
INVARIANT SendIsGraceful
