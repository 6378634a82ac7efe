--------------------------- MODULE FeeMarketProofs ---------------------------
(***************************************************************************)
(* The safety properties of FeeMarket for every choice of its constants.   *)
(***************************************************************************)
EXTENDS FeeMarket, TLAPS

(* What a block's transactions can have asked for.                         *)
WantedIsBounded == maxGas # -1 => transientGasWanted <= txs * maxGas

FeeInv == FeeTypeOK /\ Validate(params) /\ WantedIsBounded /\ HaltsOnlyUnbounded

LEMMA DivFacts ==
  ASSUME NEW a \in Nat, NEW n \in Nat \ {0}
  PROVE  /\ a \div n \in Nat
         /\ n * (a \div n) <= a
         /\ a < n * (a \div n) + n
  OBVIOUS

LEMMA DivAtMost ==
  ASSUME NEW a \in Nat, NEW n \in Nat \ {0}, NEW b \in Nat, a <= n * b
  PROVE  a \div n <= b
<1> DEFINE q == a \div n
<1>1. q \in Nat /\ n * q <= a BY DivFacts
<1> HIDE DEF q
<1>2. ASSUME q > b PROVE FALSE
  <2>1. n * q >= n * (b + 1) BY <1>1, <1>2
  <2> QED BY <1>1, <2>1
<1> QED BY <1>1, <1>2 DEF q

LEMMA DivAtLeast ==
  ASSUME NEW a \in Nat, NEW n \in Nat \ {0}, NEW b \in Nat, n * b <= a
  PROVE  b <= a \div n
<1> DEFINE q == a \div n
<1>1. q \in Nat /\ a < n * q + n BY DivFacts
<1> HIDE DEF q
<1>2. ASSUME q < b PROVE FALSE
  <2>1. n * b >= n * (q + 1) BY <1>1, <1>2
  <2> QED BY <1>1, <2>1
<1> QED BY <1>1, <1>2 DEF q

LEMMA ParamsParts ==
  ASSUME NEW p \in Params
  PROVE  /\ p.BaseFee \in Nat /\ p.MinGasPrice \in Nat
         /\ p.ElasticityMultiplier \in Nat /\ p.BaseFeeChangeDenominator \in Nat
         /\ p.MinGasMultiplier \in Nat /\ p.EnableHeight \in Nat
  BY DEF Params

LEMMA BaseFeeStepType ==
  ASSUME NEW p \in Params, Validate(p), NEW delta \in Nat, NEW target \in Nat \ {0}
  PROVE  BaseFeeStep(p, delta, target) \in Nat
<1>1. p.BaseFee \in Nat /\ p.BaseFeeChangeDenominator \in Nat \ {0}
  BY ParamsParts DEF Validate
<1>2. p.BaseFee * delta \in Nat BY <1>1
<1>3. (p.BaseFee * delta) \div target \in Nat BY <1>2, DivFacts
<1> QED BY <1>1, <1>3, DivFacts DEF BaseFeeStep

LEMMA GasTargetType ==
  ASSUME NEW p \in Params, p.ElasticityMultiplier # 0, NEW max \in (1..MaxInt64) \cup {-1}
  PROVE  GasTarget(p, max) \in Nat
<1>1. p.ElasticityMultiplier \in Nat \ {0} BY ParamsParts
<1>2. (IF max > -1 THEN max ELSE MaxUint64) \in Nat
  BY IntAssumption DEF IntAssumption
<1> QED BY <1>1, <1>2, DivFacts DEF GasTarget

(* AdjustedBaseFee is a fee, at least the floor if the fee was, and        *)
(* strictly more than it was above the target.                             *)
LEMMA AdjustedFacts ==
  ASSUME NEW p \in Params, Validate(p), NEW target \in Nat \ {0}, NEW wanted \in Nat
  PROVE  /\ AdjustedBaseFee(p, target, wanted) \in Nat
         /\ p.BaseFee >= p.MinGasPrice => AdjustedBaseFee(p, target, wanted) >= p.MinGasPrice
         /\ wanted > target => AdjustedBaseFee(p, target, wanted) > p.BaseFee
<1>1. p.BaseFee \in Nat /\ p.MinGasPrice \in Nat BY ParamsParts
<1>2. One \in Nat \ {0} BY DecAssumption DEF DecAssumption
<1>3. CASE wanted > target
  <2> DEFINE step == BaseFeeStep(p, wanted - target, target)
  <2>1. step \in Nat BY <1>3, BaseFeeStepType
  <2> HIDE DEF step
  <2>2. Greater(step, One) \in Nat /\ Greater(step, One) > 0 BY <1>2, <2>1 DEF Greater
  <2>3. AdjustedBaseFee(p, target, wanted) = p.BaseFee + Greater(step, One)
    BY <1>3 DEF AdjustedBaseFee, step
  <2> QED BY <1>1, <2>2, <2>3
<1>4. CASE ~(wanted > target)
  <2> DEFINE step == BaseFeeStep(p, target - wanted, target)
  <2>0. target - wanted \in Nat BY <1>4
  <2>1. step \in Nat BY <2>0, BaseFeeStepType
  <2> HIDE DEF step
  <2>2. AdjustedBaseFee(p, target, wanted) = Greater(p.BaseFee - step, p.MinGasPrice)
    BY <1>4 DEF AdjustedBaseFee, step
  <2> QED BY <1>1, <1>4, <2>1, <2>2 DEF Greater
<1> QED BY <1>3, <1>4

LEMMA CalculateType ==
  ASSUME NEW p \in Params, Validate(p), NEW h \in Nat,
         NEW max \in (1..MaxInt64) \cup {-1}, NEW wanted \in Nat,
         ~DividesByZero(p, h)
  PROVE  /\ CalculateBaseFee(p, h, max, wanted) \in Nat \cup {NilDec}
         /\ CalculateBaseFee(p, h, max, wanted) = NilDec => ~IsBaseFeeEnabled(p, h)
         /\ (/\ p.BaseFee >= p.MinGasPrice
             /\ CalculateBaseFee(p, h, max, wanted) # NilDec
             /\ h # p.EnableHeight => GasTarget(p, max) > 0)
            => CalculateBaseFee(p, h, max, wanted) >= p.MinGasPrice
<1>1. p.BaseFee \in Nat /\ p.MinGasPrice \in Nat BY ParamsParts
<1>2. NilDec \notin Nat BY DecAssumption DEF DecAssumption
<1>3. CASE ~IsBaseFeeEnabled(p, h)
  <2>1. CalculateBaseFee(p, h, max, wanted) = NilDec BY <1>3 DEF CalculateBaseFee
  <2> QED BY <1>3, <2>1
<1>4. CASE IsBaseFeeEnabled(p, h) /\ h = p.EnableHeight
  <2>1. CalculateBaseFee(p, h, max, wanted) = p.BaseFee BY <1>4 DEF CalculateBaseFee
  <2> QED BY <1>1, <1>2, <2>1
<1>5. CASE IsBaseFeeEnabled(p, h) /\ h # p.EnableHeight
  <2> DEFINE target == GasTarget(p, max)
             fee == CalculateBaseFee(p, h, max, wanted)
  <2>1. p.ElasticityMultiplier # 0 BY <1>5 DEF DividesByZero
  <2>2. target \in Nat BY <2>1, GasTargetType
  <2>3. fee = CASE wanted = target -> p.BaseFee
                [] wanted # target /\ target = 0 -> 0
                [] OTHER -> AdjustedBaseFee(p, target, wanted)
    BY <1>5 DEF CalculateBaseFee
  <2> HIDE DEF target, fee
  <2>4. CASE wanted = target BY <1>1, <1>2, <2>3, <2>4 DEF fee, target
  <2>5. CASE wanted # target /\ target = 0 BY <1>1, <1>2, <1>5, <2>3, <2>5 DEF fee, target
  <2>6. CASE wanted # target /\ target # 0
    <3>1. fee = AdjustedBaseFee(p, target, wanted) BY <2>3, <2>6
    <3>2. target \in Nat \ {0} BY <2>2, <2>6
    <3>3. fee \in Nat /\ (p.BaseFee >= p.MinGasPrice => fee >= p.MinGasPrice)
      BY <3>1, <3>2, AdjustedFacts
    <3> QED BY <1>2, <3>3 DEF fee, target
  <2> QED BY <2>4, <2>5, <2>6
<1> QED BY <1>3, <1>4, <1>5

-----------------------------------------------------------------------------
LEMMA TypeParts ==
  ASSUME FeeInv
  PROVE  /\ params \in Params /\ Validate(params)
         /\ blockGasWanted \in Nat /\ transientGasWanted \in Nat
         /\ height \in Nat /\ blockGas \in Nat /\ txs \in Nat
         /\ maxGas \in MaxGasChoices /\ maxGas \in (1..MaxInt64) \cup {-1}
         /\ MaxInt64 \in Nat /\ MaxUint64 \in Nat
         /\ BlockGasLimit \in Nat /\ GasConsumedToLimit \in Nat
         /\ maxGas # -1 => GasConsumedToLimit <= maxGas
<1>1. MaxInt64 \in Nat /\ MaxUint64 \in Nat BY IntAssumption DEF IntAssumption
<1>2. maxGas \in MaxGasChoices /\ blockGas \in Nat BY DEF FeeInv, FeeTypeOK
<1>3. maxGas \in (1..MaxInt64) \cup {-1} BY <1>2, MaxGasAssumption DEF MaxGasAssumption
<1>4. BlockGasLimit \in Nat /\ (maxGas # -1 => BlockGasLimit = maxGas)
  BY <1>1, <1>3 DEF BlockGasLimit
<1>5. GasConsumedToLimit \in Nat /\ GasConsumedToLimit <= BlockGasLimit
  BY <1>2, <1>4 DEF GasConsumedToLimit
<1>6. /\ params \in Params /\ Validate(params)
      /\ blockGasWanted \in Nat /\ transientGasWanted \in Nat
      /\ height \in Nat /\ txs \in Nat
  BY <1>1 DEF FeeInv, FeeTypeOK
<1> QED BY <1>1, <1>2, <1>3, <1>4, <1>5, <1>6

(* EndBlock's value is at least the gas used, and fits if both inputs do.  *)
LEMMA UpdatedFacts ==
  ASSUME FeeInv
  PROVE  /\ UpdatedGasWanted \in Nat
         /\ UpdatedGasWanted >= GasConsumedToLimit
         /\ (transientGasWanted <= MaxInt64 /\ GasConsumedToLimit <= MaxInt64)
            => UpdatedGasWanted <= MaxInt64
<1> DEFINE w == transientGasWanted * params.MinGasMultiplier
           u == GasConsumedToLimit * One
<1>1. /\ One \in Nat \ {0} /\ MaxInt64 \in Nat
      /\ transientGasWanted \in Nat /\ GasConsumedToLimit \in Nat
      /\ params.MinGasMultiplier \in Nat /\ params.MinGasMultiplier <= One
  BY TypeParts, ParamsParts, DecAssumption DEF DecAssumption, Validate
<1>2. w \in Nat /\ u \in Nat BY <1>1
<1>3. w <= transientGasWanted * One
  <2>1. \A t, m, o \in Nat : m <= o => t * m <= t * o OBVIOUS
  <2> QED BY <1>1, <2>1
<1>4. Greater(w, u) \in Nat /\ One * GasConsumedToLimit <= Greater(w, u)
  BY <1>1, <1>2 DEF Greater
<1>5. ASSUME transientGasWanted <= MaxInt64, GasConsumedToLimit <= MaxInt64
      PROVE  Greater(w, u) <= One * MaxInt64
  <2>1. \A t \in Nat : t <= MaxInt64 => t * One <= One * MaxInt64 BY <1>1
  <2>2. w <= One * MaxInt64 BY <1>1, <1>2, <1>3, <1>5, <2>1
  <2>3. u <= One * MaxInt64 BY <1>1, <1>5, <2>1
  <2> QED BY <2>2, <2>3 DEF Greater
<1>6. UpdatedGasWanted = Greater(w, u) \div One BY DEF UpdatedGasWanted
<1> HIDE DEF w, u
<1>7. UpdatedGasWanted \in Nat BY <1>1, <1>4, <1>6, DivFacts
<1>8. UpdatedGasWanted >= GasConsumedToLimit BY <1>1, <1>4, <1>6, <1>7, DivAtLeast
<1>9. ASSUME transientGasWanted <= MaxInt64, GasConsumedToLimit <= MaxInt64
      PROVE  UpdatedGasWanted <= MaxInt64
  BY <1>1, <1>4, <1>5, <1>6, <1>9, DivAtMost
<1> QED BY <1>7, <1>8, <1>9

LEMMA InitFeeInv == FeeInit => FeeInv
<1> SUFFICES ASSUME FeeInit PROVE FeeInv OBVIOUS
<1>1. params \in Params /\ Validate(params) BY ParamAssumption DEF ParamAssumption, FeeInit
<1>2. 0 \in 0..MaxInt64 /\ 0 \in 0..MaxUint64 BY IntAssumption DEF IntAssumption
<1>3. 1 \in 1..MaxHeight /\ 0 \in 0..MaxTxs BY BlockAssumption DEF BlockAssumption
<1>4. FeeTypeOK BY <1>1, <1>2, <1>3 DEF FeeInit, FeeTypeOK
<1>5. WantedIsBounded
  <2>1. maxGas \in (1..MaxInt64) \cup {-1} BY MaxGasAssumption DEF MaxGasAssumption, FeeInit
  <2>2. MaxInt64 \in Nat BY IntAssumption DEF IntAssumption
  <2> QED BY <2>1, <2>2 DEF FeeInit, WantedIsBounded
<1> QED BY <1>1, <1>4, <1>5 DEF FeeInv, HaltsOnlyUnbounded, FeeInit

LEMMA BeginBlockStep == FeeInv /\ BeginBlock => FeeInv'
<1> SUFFICES ASSUME FeeInv, BeginBlock PROVE FeeInv' OBVIOUS
<1> USE DEF BeginBlock
<1>1. CASE DividesByZero(params, height)
  BY <1>1 DEF FeeInv, FeeTypeOK, WantedIsBounded, HaltsOnlyUnbounded, DividesByZero
<1>2. CASE ~DividesByZero(params, height)
  <2> DEFINE fee == CalculateBaseFee(params, height, maxGas, blockGasWanted)
  <2>1. fee \in Nat \cup {NilDec} BY <1>2, TypeParts, CalculateType
  <2>2. params' = IF fee = NilDec THEN params ELSE [params EXCEPT !.BaseFee = fee]
    BY <1>2
  <2>3. phase' = "deliver" BY <1>2
  <2> HIDE DEF fee
  <2>4. params' \in Params /\ Validate(params')
    <3>1. params \in Params /\ Validate(params) BY TypeParts
    <3> QED BY <2>1, <2>2, <3>1 DEF Params, Validate
  <2> QED BY <2>3, <2>4 DEF FeeInv, FeeTypeOK, WantedIsBounded, HaltsOnlyUnbounded
<1> QED BY <1>1, <1>2

LEMMA DeliverTxStep ==
  ASSUME FeeInv, NEW gas \in GasChoices, NEW used \in 0..gas, DeliverTx(gas, used)
  PROVE  FeeInv'
<1>1. gas \in Nat /\ used \in Nat BY GasAssumption, IntAssumption DEF GasAssumption, IntAssumption
<1>2. /\ gas <= BlockGasLimit /\ txs < MaxTxs
      /\ transientGasWanted' = IF IsBaseFeeEnabled(params, height)
                               THEN AddTransientGasWanted(gas) ELSE transientGasWanted
      /\ blockGas' = blockGas + used /\ txs' = txs + 1
      /\ UNCHANGED <<params, blockGasWanted, height, maxGas, phase>>
      /\ phase = "deliver"
  BY DEF DeliverTx, CheckGasWanted, ConsumeBlockGas, CanRunTx
<1>3. MaxTxs \in Nat BY BlockAssumption DEF BlockAssumption
<1>4. transientGasWanted' \in 0..MaxUint64 /\ transientGasWanted' <= transientGasWanted + gas
  <2>1. transientGasWanted \in 0..MaxUint64 /\ MaxUint64 \in Nat
    BY TypeParts DEF FeeInv, FeeTypeOK
  <2>2. AddTransientGasWanted(gas) \in 0..MaxUint64
        /\ AddTransientGasWanted(gas) <= transientGasWanted + gas
    <3> DEFINE a == transientGasWanted + gas
               n == MaxUint64 + 1
    <3>1. a \in Nat /\ n \in Nat \ {0} BY <1>1, <2>1
    <3> HIDE DEF a, n
    <3>2. a % n \in 0..(n - 1) /\ a % n <= a BY <3>1
    <3> QED BY <2>1, <3>1, <3>2 DEF AddTransientGasWanted, a, n
  <2> QED BY <1>1, <1>2, <2>1, <2>2
<1>5. FeeTypeOK'
  BY <1>1, <1>2, <1>3, <1>4, TypeParts DEF FeeInv, FeeTypeOK
<1>6. WantedIsBounded'
  <2> SUFFICES ASSUME maxGas # -1 PROVE transientGasWanted' <= txs' * maxGas
    BY <1>2 DEF WantedIsBounded
  <2>1. transientGasWanted <= txs * maxGas BY DEF FeeInv, WantedIsBounded
  <2>2. gas <= maxGas BY <1>2 DEF BlockGasLimit
  <2>3. maxGas \in Nat /\ txs \in Nat /\ transientGasWanted \in Nat BY TypeParts
  <2>4. \A x, t, g, m, y \in Nat : t <= x * m /\ g <= m /\ y <= t + g => y <= (x + 1) * m
    OBVIOUS
  <2>5. transientGasWanted' \in Nat BY <1>4, TypeParts
  <2> QED BY <1>1, <1>2, <1>4, <2>1, <2>2, <2>3, <2>4, <2>5
<1> QED BY <1>2, <1>5, <1>6 DEF FeeInv, HaltsOnlyUnbounded

LEMMA RejectTxStep ==
  ASSUME FeeInv, NEW gas \in GasChoices, RejectTx(gas)
  PROVE  FeeInv'
<1>1. gas \in Nat BY GasAssumption, IntAssumption DEF GasAssumption, IntAssumption
<1>2. /\ txs < MaxTxs /\ blockGas' = blockGas + gas /\ txs' = txs + 1
      /\ UNCHANGED <<params, blockGasWanted, transientGasWanted, height, maxGas, phase>>
      /\ phase = "deliver"
  BY DEF RejectTx, ConsumeBlockGas, CanRunTx
<1>3. MaxTxs \in Nat BY BlockAssumption DEF BlockAssumption
<1>5. FeeTypeOK' BY <1>1, <1>2, <1>3 DEF FeeInv, FeeTypeOK
<1>6. WantedIsBounded'
  <2> SUFFICES ASSUME maxGas # -1 PROVE transientGasWanted <= (txs + 1) * maxGas
    BY <1>2 DEF WantedIsBounded
  <2>1. transientGasWanted <= txs * maxGas BY DEF FeeInv, WantedIsBounded
  <2>2. maxGas \in Nat /\ txs \in Nat /\ transientGasWanted \in Nat BY TypeParts
  <2> QED BY <2>1, <2>2
<1> QED BY <1>2, <1>5, <1>6 DEF FeeInv, HaltsOnlyUnbounded

LEMMA UpdateParamsStep ==
  ASSUME FeeInv, NEW p \in ParamChoices, UpdateParams(p)
  PROVE  FeeInv'
<1>1. p \in Params /\ Validate(p) BY ParamAssumption DEF ParamAssumption
<1> QED BY <1>1 DEF UpdateParams, FeeInv, FeeTypeOK, WantedIsBounded, HaltsOnlyUnbounded

LEMMA EndBlockStep == FeeInv /\ EndBlock => FeeInv'
<1> SUFFICES ASSUME FeeInv, EndBlock PROVE FeeInv' OBVIOUS
<1>1. CASE transientGasWanted > MaxInt64 \/ GasConsumedToLimit > MaxInt64
  <2>1. /\ phase' = "halted"
        /\ UNCHANGED <<params, blockGasWanted, transientGasWanted, height, maxGas, blockGas, txs>>
    BY <1>1 DEF EndBlock
  <2>2. maxGas = -1
    <3> SUFFICES ASSUME maxGas # -1 PROVE FALSE OBVIOUS
    <3>1. maxGas \in 1..MaxInt64 /\ MaxInt64 \in Nat BY TypeParts
    <3>2. GasConsumedToLimit \in Nat /\ GasConsumedToLimit <= MaxInt64 BY <3>1, TypeParts
    <3>3. transientGasWanted <= txs * maxGas BY DEF FeeInv, WantedIsBounded
    <3>4. txs \in Nat /\ txs <= MaxTxs /\ MaxTxs \in Nat
      BY BlockAssumption DEF FeeInv, FeeTypeOK, BlockAssumption
    <3>5. txs * maxGas <= MaxTxs * maxGas
      <4>1. \A x, y, m \in Nat : x <= y => x * m <= y * m OBVIOUS
      <4> QED BY <3>1, <3>4, <4>1
    <3>6. MaxTxs * maxGas <= MaxInt64 BY TypeParts, BlockAssumption DEF BlockAssumption
    <3>7. txs * maxGas \in Nat /\ MaxTxs * maxGas \in Nat /\ transientGasWanted \in Nat
      BY <3>1, <3>4, TypeParts
    <3>8. transientGasWanted <= MaxInt64 BY <3>1, <3>3, <3>5, <3>6, <3>7
    <3> QED BY <1>1, <3>1, <3>2, <3>7, <3>8
  <2> QED BY <2>1, <2>2 DEF FeeInv, FeeTypeOK, WantedIsBounded, HaltsOnlyUnbounded
<1>2. CASE ~(transientGasWanted > MaxInt64 \/ GasConsumedToLimit > MaxInt64)
  <2>1. /\ blockGasWanted' = UpdatedGasWanted /\ transientGasWanted' = 0
        /\ height' = (IF height = MaxHeight THEN height ELSE height + 1)
        /\ maxGas' \in MaxGasChoices /\ blockGas' = 0 /\ txs' = 0
        /\ phase' = "begin" /\ params' = params
    BY <1>2 DEF EndBlock
  <2>2. blockGasWanted' \in 0..MaxInt64 BY <1>2, <2>1, TypeParts, UpdatedFacts
  <2>3. height' \in 1..MaxHeight /\ 0 \in 0..MaxTxs
    BY <2>1, BlockAssumption DEF BlockAssumption, FeeInv, FeeTypeOK
  <2>4. maxGas' # -1 => 0 <= 0 * maxGas'
    <3>1. maxGas' \in (1..MaxInt64) \cup {-1} BY <2>1, MaxGasAssumption DEF MaxGasAssumption
    <3>2. MaxInt64 \in Nat BY TypeParts
    <3>3. maxGas' \in Int BY <3>1, <3>2
    <3>4. \A m \in Int : 0 <= 0 * m OBVIOUS
    <3> QED BY <3>3, <3>4
  <2>5. 0 \in 0..MaxUint64 BY TypeParts
  <2> QED BY <2>1, <2>2, <2>3, <2>4, <2>5 DEF FeeInv, FeeTypeOK, WantedIsBounded, HaltsOnlyUnbounded
<1> QED BY <1>1, <1>2

LEMMA NextFeeInv == FeeInv /\ [FeeNext]_feeVars => FeeInv'
<1> SUFFICES ASSUME FeeInv, [FeeNext]_feeVars PROVE FeeInv' OBVIOUS
<1>1. CASE BeginBlock BY <1>1, BeginBlockStep
<1>2. CASE \E gas \in GasChoices : \E used \in 0..gas : DeliverTx(gas, used)
  BY <1>2, DeliverTxStep
<1>3. CASE \E gas \in GasChoices : RejectTx(gas) BY <1>3, RejectTxStep
<1>4. CASE \E p \in ParamChoices : UpdateParams(p) BY <1>4, UpdateParamsStep
<1>5. CASE EndBlock BY <1>5, EndBlockStep
<1>6. CASE UNCHANGED feeVars
  BY <1>6 DEF feeVars, FeeInv, FeeTypeOK, WantedIsBounded, HaltsOnlyUnbounded
<1> QED BY <1>1, <1>2, <1>3, <1>4, <1>5, <1>6 DEF FeeNext

(* FeeInv is an inductive invariant of the fee market.                     *)
THEOREM FeeInvariant == FeeSpec => []FeeInv
<1> QED BY InitFeeInv, NextFeeInv, PTL DEF FeeSpec

(* keeper.go, abci.go: the gas counters fit the widths the code stores     *)
(* them in and the params stay well formed.                                *)
THEOREM FeeTypeCorrect == FeeSpec => []FeeTypeOK
<1>1. FeeInv => FeeTypeOK BY DEF FeeInv
<1> QED BY <1>1, FeeInvariant, PTL

(* abci.go: with bounded blocks and a nonzero elasticity multiplier,       *)
(* neither BeginBlock nor EndBlock fails.                                  *)
THEOREM BoundedNeverHalts == FeeSpec => []HaltsOnlyUnbounded
<1>1. FeeInv => HaltsOnlyUnbounded BY DEF FeeInv
<1> QED BY <1>1, FeeInvariant, PTL

-----------------------------------------------------------------------------
(* Which action a step is follows from the phases before and after it.     *)
LEMMA BeginsByBeginBlock ==
  ASSUME FeeNext, phase = "begin", phase' = "deliver"
  PROVE  BeginBlock
  BY DEF FeeNext, BeginBlock, DeliverTx, CanRunTx, RejectTx, UpdateParams, EndBlock

LEMMA EndsByEndBlock ==
  ASSUME FeeNext, phase \in {"deliver", "end"}, phase' = "begin"
  PROVE  EndBlock
  BY DEF FeeNext, BeginBlock, DeliverTx, CanRunTx, RejectTx, UpdateParams, EndBlock

(* eip1559.go: MinGasPrice is a lower bound of the base fee once the base  *)
(* fee has reached it.                                                     *)
THEOREM FloorHolds == FeeSpec => MinGasPriceIsFloor
<1> DEFINE Step == (phase = "begin" /\ phase' = "deliver" /\ params.BaseFee >= params.MinGasPrice
                    /\ (Adjusts => NextTarget > 0))
                   => params'.BaseFee >= params'.MinGasPrice
<1>1. FeeInv /\ FeeNext => Step
  <2> SUFFICES ASSUME FeeInv, FeeNext, phase = "begin", phase' = "deliver",
                      params.BaseFee >= params.MinGasPrice, Adjusts => NextTarget > 0
               PROVE  params'.BaseFee >= params'.MinGasPrice
    OBVIOUS
  <2> DEFINE fee == CalculateBaseFee(params, height, maxGas, blockGasWanted)
  <2>1. BeginBlock BY BeginsByBeginBlock
  <2>2. ~DividesByZero(params, height) BY <2>1 DEF BeginBlock
  <2>3. params' = IF fee = NilDec THEN params ELSE [params EXCEPT !.BaseFee = fee]
    BY <2>1, <2>2 DEF BeginBlock
  <2>4. fee \in Nat \cup {NilDec} BY <2>2, TypeParts, CalculateType
  <2>5. ASSUME fee # NilDec PROVE fee >= params.MinGasPrice
    <3>1. IsBaseFeeEnabled(params, height) BY <2>5 DEF CalculateBaseFee, fee
    <3>2. height # params.EnableHeight => GasTarget(params, maxGas) > 0
      BY <3>1 DEF Adjusts, NextTarget
    <3> QED BY <2>2, <2>5, <3>2, TypeParts, CalculateType
  <2>6. params \in Params BY TypeParts
  <2> HIDE DEF fee
  <2> QED BY <2>3, <2>4, <2>5, <2>6 DEF Params
<1>2. FeeInv /\ [FeeNext]_feeVars => [Step]_feeVars BY <1>1
<1> QED BY <1>2, FeeInvariant, PTL DEF FeeSpec, MinGasPriceIsFloor

(* abci.go, eip1559.go: whatever the transactions asked for, a block that  *)
(* used more gas than the target raises the next base fee.                 *)
THEOREM DemandRaisesFee == FeeSpec => FullBlocksRaiseFee
<1> DEFINE Step == (phase \in {"deliver", "end"} /\ phase' = "begin")
                   => ((Adjusts /\ params.ElasticityMultiplier # 0 /\ NextTarget > 0)'
                       /\ GasConsumedToLimit > NextTarget'
                       => NextBaseFee' > params.BaseFee)
<1>1. FeeInv /\ FeeNext => Step
  <2> SUFFICES ASSUME FeeInv, FeeNext, phase \in {"deliver", "end"}, phase' = "begin",
                      Adjusts', params'.ElasticityMultiplier # 0, NextTarget' > 0,
                      GasConsumedToLimit > NextTarget'
               PROVE  NextBaseFee' > params.BaseFee
    BY DEF Adjusts, NextTarget
  <2>1. EndBlock BY EndsByEndBlock
  <2>2. ~(transientGasWanted > MaxInt64 \/ GasConsumedToLimit > MaxInt64)
    BY <2>1 DEF EndBlock
  <2>3. blockGasWanted' = UpdatedGasWanted /\ params' = params /\ maxGas' \in MaxGasChoices
    BY <2>1, <2>2 DEF EndBlock
  <2>4. maxGas' \in (1..MaxInt64) \cup {-1} BY <2>3, MaxGasAssumption DEF MaxGasAssumption
  <2> DEFINE target == GasTarget(params, maxGas')
  <2>5. NextTarget' = target BY <2>3 DEF NextTarget
  <2>6. params \in Params /\ Validate(params) BY TypeParts
  <2>7. target \in Nat \ {0} BY <2>3, <2>4, <2>5, <2>6, GasTargetType
  <2>8. blockGasWanted' \in Nat /\ blockGasWanted' > target
    <3>1. GasConsumedToLimit \in Nat BY TypeParts
    <3>2. UpdatedGasWanted \in Nat /\ UpdatedGasWanted >= GasConsumedToLimit BY UpdatedFacts
    <3> QED BY <2>3, <2>5, <2>7, <3>1, <3>2
  <2>9. NextBaseFee' = AdjustedBaseFee(params, target, blockGasWanted')
    <3>1. IsBaseFeeEnabled(params, height') /\ height' # params.EnableHeight
      BY <2>3 DEF Adjusts
    <3>2. NextBaseFee' = CalculateBaseFee(params, height', maxGas', blockGasWanted')
      BY <2>3 DEF NextBaseFee
    <3>3. blockGasWanted' # target /\ target # 0 BY <2>7, <2>8
    <3> QED BY <3>1, <3>2, <3>3 DEF CalculateBaseFee
  <2> HIDE DEF target
  <2> QED BY <2>6, <2>7, <2>8, <2>9, AdjustedFacts
<1>2. FeeInv /\ [FeeNext]_feeVars => [Step]_feeVars BY <1>1
<1> QED BY <1>2, FeeInvariant, PTL DEF FeeSpec, FullBlocksRaiseFee
=============================================================================
