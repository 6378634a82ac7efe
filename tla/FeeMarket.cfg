SPECIFICATION FeeSpec
CONSTANTS
  One = 2
  MaxInt64 = 12
  MaxUint64 = 25
  NilDec = NilDec
  InitParams <- MCInitParams
  ParamChoices <- MCParamChoices
  MaxGasChoices <- MCMaxGasChoices
  GasChoices = {1, 3, 12}
  MaxTxs = 3
  MaxHeight = 3
  MaxBaseFee = 8
 
PROPERTIES MinGasPriceIsFloor FullBlocksRaiseFee EmptyBlocksSettle
CHECK_DEADLOCK FALSE
