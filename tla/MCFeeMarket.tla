----------------------------- MODULE MCFeeMarket -----------------------------
EXTENDS FeeMarket

P(noFee, den, el, fee, h, min, mult) ==
  [NoBaseFee |-> noFee, BaseFeeChangeDenominator |-> den,
   ElasticityMultiplier |-> el, BaseFee |-> fee, EnableHeight |-> h,
   MinGasPrice |-> min, MinGasMultiplier |-> mult]

MCInitParams == P(FALSE, 2, 2, 3, 1, 0, 1)

(* A higher floor than the fee, the fee market off, a later enable height, *)
(* every wanted gas counted, and a multiplier the gas limit cannot cover.  *)
MCParamChoices ==
  {P(FALSE, 2, 2, 0, 0, 4, 1), P(TRUE, 1, 1, 5, 0, 1, 0),
   P(FALSE, 3, 1, 7, 2, 2, 2), P(FALSE, 1, 5, 6, 0, 1, 2)}

MCMaxGasChoices == {4, -1}

MCNoElasticity == {P(FALSE, 2, 0, 3, 0, 0, 1)}
=============================================================================
