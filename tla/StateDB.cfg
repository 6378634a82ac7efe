SPECIFICATION MCSpec
CONSTANTS
  Nil = Nil
  k1 = k1
  k2 = k2
  c1 = c1
  Addrs = {1, 2, 3}
  Keys = {k1, k2}
  Values = {0, 1}
  ZeroValue = 0
  Codes = {c1}
  EmptyCode = EmptyCode
  ModuleStates = {0, 1}
  ConversionFactor = 2
  Sender = 1
  Precompile = 3
  Touched = {1, 2}
  Accessed = {1, 2}
  Amounts = {1, 3}
  UnitAmounts = {1}
  LogData = {"x"}
  AccessLists <- MCLists
  InitStores <- MCInitStores
  MaxPrecompileCalls = 1
  MaxBalance = 6
  MaxNonce = 2
  MaxRefund = 2
  MaxLogs = 2
  MaxJournal = 5
  MaxRevisions = 2
INVARIANTS
  UndoIsExact
  NoLostWrites
  AccessListSound
  PreparedStaysWarm
  CacheIsExact
  
PROPERTY ImplementsStack
