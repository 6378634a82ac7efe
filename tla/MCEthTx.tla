------------------------------ MODULE MCEthTx ------------------------------
(***************************************************************************)
(* EthTx with two senders and a contract, one unit of the bank being two   *)
(* of the EVM's, decimals with one binary place, and signed transactions   *)
(* that replace, follow, overdraw, create and ask for too little gas.      *)
(***************************************************************************)
EXTENDS GasEstimate, Functions, TLC

CONSTANTS Alice, Bob, Contract

MCAccts == {Alice, Bob, Contract}
MCUnits == (Alice :> 13) @@ (Bob :> 7) @@ (Contract :> 0)

MCParams == [NoBaseFee |-> FALSE, BaseFeeChangeDenominator |-> 2,
             ElasticityMultiplier |-> 2, BaseFee |-> 2, EnableHeight |-> 1,
             MinGasPrice |-> 1, MinGasMultiplier |-> 1]
MCParamChoices == {[MCParams EXCEPT !.NoBaseFee = TRUE, !.MinGasMultiplier = 0]}

Base == [from |-> Alice, to |-> Bob, create |-> FALSE, nonce |-> 0, value |-> 3,
         gas |-> 4, intrinsic |-> 1, dynamic |-> FALSE, cap |-> 3, tip |-> 3]

MCTxs ==
  { Base,
    [Base EXCEPT !.dynamic = TRUE, !.cap = 5, !.tip = 1, !.gas = 3],
    [Base EXCEPT !.nonce = 1, !.create = TRUE, !.to = Contract, !.gas = 2],
    [Base EXCEPT !.from = Bob, !.to = Alice, !.gas = 2, !.intrinsic = 3, !.dynamic = TRUE,
                 !.cap = 4, !.tip = 0] }

(* Messages that need 3 units, that never succeed, that succeed with few   *)
(* limits only, and that fail for good below a limit.                      *)
From(least, below) == [g \in 0..8 |-> IF g >= least THEN "ok" ELSE below]
MCExecutions ==
  { From(3, "outOfGas"), From(9, "reverted"), From(5, "error"),
    [From(6, "reverted") EXCEPT ![3] = "ok"] }

(* The bank's supply: SendCoins and the wrapper's conversions create and   *)
(* destroy nothing, through fees, transfers, refunds and distribution; and *)
(* no account is overdrawn by them.                                        *)
SupplyIsConserved ==
  /\ EthTypeOK
  /\ FoldFunction(LAMBDA a, b : a + b, 0, units) + feeCollector + distributed
     = FoldFunction(LAMBDA a, b : a + b, 0, MCUnits)
=============================================================================
