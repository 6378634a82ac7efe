SPECIFICATION MCSpec
CONSTANTS
  Contracts = {c1}
  Vouchers = {v1, v2}
  SingleHop = {v1}
  Wrapped = w
  Users = {u1, u2}
  OtherModules = {dao}
  ModuleAcct = ModuleAcct
  Escrow = Escrow
  Fickle = {u1, ModuleAcct}
  MaxPackets = 2
  MaxAmount = 2
  MaxSupply = 2
INVARIANTS
  IndexesAgree
  CodeIsListed
  CoinsAreBacked
PROPERTIES
  NeverRegisteredAgain
  PacketsSettle
  
