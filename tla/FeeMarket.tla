------------------------------ MODULE FeeMarket ------------------------------
(***************************************************************************)
(* x/feemarket: the EIP-1559 base fee.  A block runs BeginBlock, its       *)
(* transactions, the gov module's EndBlock (which may execute an           *)
(* UpdateParams) and EndBlock; then it is committed, which empties the     *)
(* transient store.                                                        *)
(*                                                                         *)
(* A LegacyDec is the integer it is stored as: d stands for d / One.       *)
(* MulInt, Sub and Add are exact on it and QuoInt truncates.               *)
(***************************************************************************)
EXTENDS Integers

CONSTANTS One,               \* LegacyOneDec: 10^18 in the code
          MaxInt64, MaxUint64,
          NilDec,            \* LegacyDec{}
          InitParams,        \* params of the genesis file
          ParamChoices,      \* params a governance proposal may carry
          MaxGasChoices,     \* Block.MaxGas of the consensus params; -1: unlimited
          GasChoices,        \* the gas a transaction asks for
          MaxTxs,            \* bound: transactions in a block
          MaxHeight,         \* bound: stands for every later height too
          MaxBaseFee         \* bound: no transaction above this base fee

(* A message's ValidateBasic has called Params.Validate.                   *)
Validate(p) ==
  /\ p.BaseFeeChangeDenominator # 0
  /\ p.BaseFee >= 0
  /\ p.EnableHeight >= 0
  /\ p.MinGasMultiplier >= 0 /\ p.MinGasMultiplier <= One
  /\ p.MinGasPrice >= 0

Params == [NoBaseFee : BOOLEAN, BaseFeeChangeDenominator : Nat,
           ElasticityMultiplier : Nat, BaseFee : Nat, EnableHeight : Nat,
           MinGasPrice : Nat, MinGasMultiplier : Nat]

ASSUME DecAssumption == One \in Nat \ {0} /\ NilDec \notin Nat
ASSUME IntAssumption ==
  MaxInt64 \in Nat \ {0} /\ MaxUint64 = 2 * MaxInt64 + 1
ASSUME ParamAssumption ==
  /\ ParamChoices \subseteq {p \in Params : Validate(p)}
  /\ InitParams \in Params /\ Validate(InitParams)
ASSUME MaxGasAssumption == MaxGasChoices \subseteq (1..MaxInt64) \cup {-1}
ASSUME GasAssumption == GasChoices \subseteq 1..MaxInt64
ASSUME BlockAssumption ==
  /\ MaxTxs \in Nat /\ \A m \in MaxGasChoices : MaxTxs * m <= MaxInt64
  /\ MaxHeight \in Nat \ {0} /\ MaxBaseFee \in Nat

VARIABLES params,
          blockGasWanted,      \* KeyPrefixBlockGasWanted
          transientGasWanted,  \* KeyPrefixTransientBlockGasWanted
          height, maxGas,
          blockGas,            \* what the block gas meter has counted
          txs,                 \* transactions of the block so far
          phase                \* "begin", "deliver", "end" (gov has run) or "halted"

feeVars == <<params, blockGasWanted, transientGasWanted, height, maxGas,
             blockGas, txs, phase>>

Greater(a, b) == IF a >= b THEN a ELSE b

IsBaseFeeEnabled(p, h) == ~p.NoBaseFee /\ h >= p.EnableHeight

(* Quotients of LegacyDec and Int are taken toward zero; none is negative. *)
GasTarget(p, max) ==
  (IF max > -1 THEN max ELSE MaxUint64) \div p.ElasticityMultiplier

StepByElasticity(p, delta, target) ==
  ((p.BaseFee * delta) \div target) \div p.ElasticityMultiplier

BaseFeeStep(p, delta, target) ==
  ((p.BaseFee * delta) \div target) \div p.BaseFeeChangeDenominator

StepNoFloor(p, target, wanted) ==
  IF wanted > target
  THEN p.BaseFee + Greater(BaseFeeStep(p, wanted - target, target), One)
  ELSE p.BaseFee - BaseFeeStep(p, target - wanted, target)

AdjustedBaseFee(p, target, wanted) ==
  IF wanted > target
  THEN p.BaseFee + Greater(BaseFeeStep(p, wanted - target, target), One)
  ELSE Greater(p.BaseFee - BaseFeeStep(p, target - wanted, target),
               p.MinGasPrice)

CalculateBaseFee(p, h, max, wanted) ==
  CASE ~IsBaseFeeEnabled(p, h) -> NilDec
    [] IsBaseFeeEnabled(p, h) /\ h = p.EnableHeight -> p.BaseFee
    [] OTHER -> LET target == GasTarget(p, max)
                IN  CASE wanted = target -> p.BaseFee
                      [] wanted # target /\ target = 0 -> 0
                      [] OTHER -> AdjustedBaseFee(p, target, wanted)

(* The division panics: FinalizeBlock fails on every node.                 *)
DividesByZero(p, h) ==
  /\ IsBaseFeeEnabled(p, h)
  /\ h # p.EnableHeight
  /\ p.ElasticityMultiplier = 0

BeginBlock ==
  /\ phase = "begin"
  /\ IF DividesByZero(params, height)
     THEN phase' = "halted" /\ UNCHANGED params
     ELSE LET fee == CalculateBaseFee(params, height, maxGas, blockGasWanted)
          IN  /\ params' = IF fee = NilDec THEN params
                           ELSE [params EXCEPT !.BaseFee = fee]
              /\ phase' = "deliver"
  /\ UNCHANGED <<blockGasWanted, transientGasWanted, height, maxGas, blockGas, txs>>

(* BlockGasLimit: the limit of the block gas meter, if it has one.         *)
BlockGasLimit == IF maxGas = -1 THEN MaxUint64 ELSE maxGas

AddTransientGasWanted(gas) ==
  (transientGasWanted + gas) % (MaxUint64 + 1)

CheckNoGasWanted(gas) ==
  transientGasWanted' = IF IsBaseFeeEnabled(params, height)
                        THEN AddTransientGasWanted(gas)
                        ELSE transientGasWanted

CheckGasWanted(gas) ==
  /\ gas <= BlockGasLimit
  /\ transientGasWanted' = IF IsBaseFeeEnabled(params, height)
                           THEN AddTransientGasWanted(gas)
                           ELSE transientGasWanted

(* baseapp does not run a transaction once the block gas meter is          *)
(* exhausted, and counts the gas of each one that runs, whatever comes of  *)
(* it.                                                                     *)
CanRunTx ==
  /\ phase = "deliver"
  /\ blockGas < BlockGasLimit
  /\ txs < MaxTxs /\ params.BaseFee <= MaxBaseFee
ConsumeBlockGas(gas) == blockGas' = blockGas + gas /\ txs' = txs + 1

(* A transaction that the ante handler accepts, by the last decorator of   *)
(* either chain; the state the ante handler wrote is kept.                 *)
DeliverTx(gasWanted, gasUsed) ==
  /\ CanRunTx
  /\ CheckGasWanted(gasWanted)
  /\ gasUsed <= gasWanted
  /\ ConsumeBlockGas(gasUsed)
  /\ UNCHANGED <<params, blockGasWanted, height, maxGas, phase>>

RejectTx(gasUsed) ==
  /\ CanRunTx
  /\ ConsumeBlockGas(gasUsed)
  /\ UNCHANGED <<params, blockGasWanted, transientGasWanted, height, maxGas, phase>>

(* A proposal that passes is executed by gov's EndBlock, before that of    *)
(* the fee market.                                                         *)
UpdateParams(p) ==
  /\ phase \in {"deliver", "end"}
  /\ params' = p
  /\ phase' = "end"
  /\ UNCHANGED <<blockGasWanted, transientGasWanted, height, maxGas, blockGas, txs>>

GasConsumedToLimit == IF blockGas > BlockGasLimit THEN BlockGasLimit ELSE blockGas

UpdatedByWantedOnly ==
  (transientGasWanted * params.MinGasMultiplier) \div One

UpdatedGasWanted ==
  Greater(transientGasWanted * params.MinGasMultiplier,
          GasConsumedToLimit * One) \div One

(* EndBlock and the Commit that follows it; the next block may have other  *)
(* consensus params.  An error of EndBlock fails FinalizeBlock.            *)
EndBlock ==
  /\ phase \in {"deliver", "end"}
  /\ IF transientGasWanted > MaxInt64 \/ GasConsumedToLimit > MaxInt64
     THEN /\ phase' = "halted"
          /\ UNCHANGED <<params, blockGasWanted, transientGasWanted, height, maxGas, blockGas, txs>>
     ELSE /\ blockGasWanted' = UpdatedGasWanted
          /\ transientGasWanted' = 0
          /\ height' = IF height = MaxHeight THEN height ELSE height + 1
          /\ maxGas' \in MaxGasChoices
          /\ blockGas' = 0 /\ txs' = 0
          /\ phase' = "begin"
          /\ UNCHANGED params

FeeInit ==
  /\ params = InitParams
  /\ blockGasWanted = 0 /\ transientGasWanted = 0
  /\ height = 1
  /\ maxGas \in MaxGasChoices
  /\ blockGas = 0 /\ txs = 0
  /\ phase = "begin"

FeeNext ==
  \/ BeginBlock
  \/ \E gas \in GasChoices : \E used \in 0..gas : DeliverTx(gas, used)
  \/ \E gas \in GasChoices : RejectTx(gas)
  \/ \E p \in ParamChoices : UpdateParams(p)
  \/ EndBlock

(* Consensus keeps making blocks; nothing makes it include a transaction.  *)
FeeSpec == FeeInit /\ [][FeeNext]_feeVars /\ WF_feeVars(BeginBlock) /\ WF_feeVars(EndBlock)
-----------------------------------------------------------------------------
FeeTypeOK ==
  /\ params \in Params
  /\ blockGasWanted \in 0..MaxInt64
  /\ transientGasWanted \in 0..MaxUint64
  /\ height \in 1..MaxHeight
  /\ maxGas \in MaxGasChoices
  /\ blockGas \in Nat
  /\ txs \in 0..MaxTxs
  /\ phase \in {"begin", "deliver", "end", "halted"}

(* The base fee BeginBlock is about to set, if it sets one by demand.      *)
Adjusts == IsBaseFeeEnabled(params, height) /\ height # params.EnableHeight
NextTarget == GasTarget(params, maxGas)
NextBaseFee == CalculateBaseFee(params, height, maxGas, blockGasWanted)

(* BeginBlock (eip1559.go): if the base fee is at least MinGasPrice, the   *)
(* block's adjustment leaves it there, however much gas was wanted,        *)
(* provided that the gas target is not zero.                               *)
MinGasPriceIsFloor ==
  [][ (phase = "begin" /\ phase' = "deliver" /\ params.BaseFee >= params.MinGasPrice
       /\ (Adjusts => NextTarget > 0))
      => params'.BaseFee >= params'.MinGasPrice ]_feeVars

(* EndBlock, then BeginBlock: a block that used more gas than the target   *)
(* makes the next base fee strictly greater, even from zero, whatever its  *)
(* transactions had asked for.                                             *)
FullBlocksRaiseFee ==
  [][ (phase \in {"deliver", "end"} /\ phase' = "begin")
      => ((Adjusts /\ params.ElasticityMultiplier # 0 /\ NextTarget > 0)'
          /\ GasConsumedToLimit > NextTarget'
          => NextBaseFee' > params.BaseFee) ]_feeVars

(* A block can fail in this module only if the params or the consensus     *)
(* params leave a quantity unbounded: the elasticity multiplier is zero,   *)
(* or blocks have no gas limit.                                            *)
HaltsOnlyUnbounded ==
  phase = "halted" => params.ElasticityMultiplier = 0 \/ maxGas = -1

(* From some time on blocks are empty, the params are only changed by      *)
(* BeginBlock, the base fee is enabled and the gas target is not zero.     *)
Empty == transientGasWanted = 0 /\ blockGas = 0
Enabled == Adjusts /\ NextTarget > 0

(* CalculateBaseFee over empty blocks: the base fee comes down to          *)
(* MinGasPrice, or stops above it where an eighth (one over the change     *)
(* denominator) of it is not representable.                                *)
EmptyBlocksSettle ==
  (<>[](Empty /\ Enabled /\ phase # "end" /\ phase # "halted"))
  => <>[](\/ params.BaseFee = params.MinGasPrice
          \/ /\ params.BaseFee > params.MinGasPrice
             /\ params.BaseFee < params.BaseFeeChangeDenominator)
=============================================================================
