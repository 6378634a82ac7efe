SPECIFICATION Spec
CONSTANTS
  One = 2
  MaxInt64 = 31
  MaxUint64 = 63
  NilDec = NilDec
  InitParams <- MCParams
  ParamChoices <- MCParamChoices
  MaxGasChoices = {6}
  GasChoices = {2, 3, 4}
  MaxTxs = 3
  MaxHeight = 2
  MaxBaseFee = 6
  Alice = Alice
  Bob = Bob
  Contract = Contract
  Accts <- MCAccts
  ConversionFactor = 2
  RefundQuotient = 2
  Txs <- MCTxs
  InitUnits <- MCUnits
  RefundCounters = {0, 1}
  LogCounts = {0, 2}
  TxGas = 1
  GasCaps = {0, 4, 8}
  AskedGas = {0, 5}
  Executions <- MCExecutions
CHECK_DEADLOCK FALSE
INVARIANTS
  SupplyIsConserved
  ChargedOnce
  GasWantedIsPaid
  PositionsAreDisjoint
  ReceiptGasIsPaid
  ChargedIsIndexed
  
  EstimateIsSendable
