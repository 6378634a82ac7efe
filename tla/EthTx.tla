------------------------------- MODULE EthTx -------------------------------
(***************************************************************************)
(* Ethereum transactions in a block: the ante handler of ante/evm, then    *)
(* x/vm's EthereumTx, over the fee market and a bank in its own decimals   *)
(* (ConversionFactor of the EVM's 18 decimals make one unit).  baseapp     *)
(* keeps what the ante handler wrote if the message fails later, and all   *)
(* of it runs on one thread, so a transaction is one step.                 *)
(*                                                                         *)
(* London and the forks before it are enabled from the first block.  What  *)
(* happens inside the EVM is StateDB's subject: here it uses some gas,     *)
(* leaves a refund counter and logs, succeeds or fails, and commits or     *)
(* does not.  Transactions are well formed, their signatures verify and    *)
(* their senders are not contracts; only senders' nonces are kept.         *)
(***************************************************************************)
EXTENDS FeeMarket, Sequences, FiniteSets

CONSTANTS Accts,
          ConversionFactor,
          RefundQuotient,     \* params.RefundQuotientEIP3529
          Txs,                \* the signed transactions; any may be proposed, any time
          InitUnits,          \* balances of the genesis file
          RefundCounters,     \* what StateDB.GetRefund may return
          LogCounts           \* how many logs an execution may leave

Tx == [from : Accts, to : Accts, create : BOOLEAN, nonce : Nat, value : Nat,
       gas : GasChoices, intrinsic : Nat, dynamic : BOOLEAN,
       cap : Nat,             \* GasFeeCap; the gas price of a legacy transaction
       tip : Nat]             \* GasTipCap

ASSUME EthAssumption ==
  /\ ConversionFactor \in Nat \ {0} /\ RefundQuotient \in Nat \ {0}
  /\ Txs \subseteq Tx
  /\ InitUnits \in [Accts -> Nat]
  /\ RefundCounters \subseteq Nat /\ LogCounts \subseteq Nat

VARIABLES units,         \* bank balances of the EVM denom
          feeCollector,  \* the same of the fee collector's module account
          distributed,   \* what the distribution module took from it
          nonce,         \* the accounts' sequences
          txIndex, logSize,  \* the transient stores of x/vm
          results,       \* the block's ExecTxResults
          charges        \* history variable: how often each transaction paid a fee

ethVars == <<units, feeCollector, distributed, nonce, txIndex, logSize, results, charges>>
vars == <<feeVars, ethVars>>

Lesser(a, b) == IF a <= b THEN a ELSE b
From18Decimals(amt) == amt \div ConversionFactor

(* x/vm GetBaseFee, in 18 decimals.                                        *)
GetBaseFee == IF params.NoBaseFee THEN 0
              ELSE (params.BaseFee * ConversionFactor) \div One

EffectiveGasPrice(tx) ==
  IF tx.dynamic THEN Lesser(tx.tip + GetBaseFee, tx.cap) ELSE tx.cap
EffectiveFee(tx) == EffectiveGasPrice(tx) * tx.gas
Cost(tx) == tx.cap * tx.gas + tx.value

CheckGlobalFee(tx) ==
  EffectiveFee(tx) * One >= params.MinGasPrice * ConversionFactor * tx.gas

VerifyAccountBalance(tx) == units[tx.from] * ConversionFactor >= Cost(tx)

(* CanTransfer and VerifyFee; VerifyFee compares the gas with the          *)
(* intrinsic gas in CheckTx only.                                          *)
VerifyFee(tx) == tx.cap >= GetBaseFee

DeductedFee(tx) == From18Decimals(EffectiveFee(tx))

AnteAccepts(tx) ==
  /\ CheckGlobalFee(tx)
  /\ VerifyAccountBalance(tx)
  /\ VerifyFee(tx)
  /\ tx.nonce = nonce[tx.from]
  /\ DeductedFee(tx) <= units[tx.from]
  /\ tx.gas <= BlockGasLimit

(* deductFees and IncrementNonce.                                          *)
AnteUnits(tx) == [units EXCEPT ![tx.from] = @ - DeductedFee(tx)]
AnteNonce(tx) == [nonce EXCEPT ![tx.from] = @ + 1]

GasToRefund(available, consumed) == Lesser(consumed \div RefundQuotient, available)

GasUsedNoMinimum(tx, used, counter) == used - GasToRefund(counter, used)

(* The gas ApplyMessageWithConfig charges for an execution that used       *)
(* `used' before refunds.                                                  *)
GasUsed(tx, used, counter) ==
  Greater(tx.gas * params.MinGasMultiplier,
          (used - GasToRefund(counter, used)) * One) \div One

RefundAtCap(tx, gasUsed) == From18Decimals((tx.gas - gasUsed) * tx.cap)

RefundGas(tx, gasUsed) ==
  From18Decimals((tx.gas - gasUsed) * EffectiveGasPrice(tx))

TransferRoundedUp(bank, tx) ==
  [bank EXCEPT ![tx.from] = @ - From18Decimals(tx.value),
               ![tx.to] = @ + From18Decimals(tx.value + ConversionFactor - 1)]

Transfer(bank, tx) ==
  LET amount == From18Decimals(tx.value)
      debited == [bank EXCEPT ![tx.from] = @ - amount]
  IN  [debited EXCEPT ![tx.to] = @ + amount]

Result(tx, kind, gasUsed, logs, paid) ==
  [tx |-> tx, kind |-> kind, index |-> txIndex, gasUsed |-> gasUsed, paid |-> paid,
   price |-> EffectiveGasPrice(tx), firstLog |-> logSize, logs |-> logs]

(* An ante handler that returns an error leaves no trace but the result.   *)
RejectEthTx(tx) ==
  /\ CanRunTx
  /\ ~AnteAccepts(tx)
  /\ ConsumeBlockGas(0)
  /\ results' = Append(results, Result(tx, "rejected", 0, 0, 0))
  /\ UNCHANGED <<params, blockGasWanted, transientGasWanted, height, maxGas, phase,
                 units, feeCollector, distributed, nonce, txIndex, logSize, charges>>

(* What the ante handler leaves, and the result, when the message fails    *)
(* or its gas passes the block's limit.                                    *)
ChargeOnly(tx, kind, gasUsed) ==
  /\ ConsumeBlockGas(gasUsed)
  /\ units' = AnteUnits(tx)
  /\ feeCollector' = feeCollector + DeductedFee(tx)
  /\ nonce' = AnteNonce(tx)
  /\ results' = Append(results, Result(tx, kind, gasUsed, 0, DeductedFee(tx)))
  /\ UNCHANGED <<txIndex, logSize>>

ApplyWithoutCount(tx, failed, gasUsed, logs) ==
  LET bank == IF failed THEN AnteUnits(tx) ELSE Transfer(AnteUnits(tx), tx)
      back == RefundGas(tx, gasUsed)
  IN  /\ ConsumeBlockGas(gasUsed)
      /\ units' = [bank EXCEPT ![tx.from] = @ + back]
      /\ feeCollector' = feeCollector + DeductedFee(tx) - back
      /\ nonce' = AnteNonce(tx)
      /\ txIndex' = IF failed THEN txIndex ELSE txIndex + 1
      /\ logSize' = logSize + logs
      /\ results' = Append(results, Result(tx, IF failed THEN "vmError" ELSE "ok",
                                           gasUsed, logs, DeductedFee(tx) - back))

ApplyWithoutSetNonce(tx, failed, gasUsed, logs) ==
  LET bank == IF failed THEN AnteUnits(tx) ELSE Transfer(AnteUnits(tx), tx)
      back == RefundGas(tx, gasUsed)
  IN  /\ ConsumeBlockGas(gasUsed)
      /\ units' = [bank EXCEPT ![tx.from] = @ + back]
      /\ feeCollector' = feeCollector + DeductedFee(tx) - back
      /\ nonce' = IF tx.create /\ ~failed
                  THEN [nonce EXCEPT ![tx.from] = tx.nonce]
                  ELSE AnteNonce(tx)
      /\ txIndex' = txIndex + 1
      /\ logSize' = logSize + logs
      /\ results' = Append(results, Result(tx, IF failed THEN "vmError" ELSE "ok",
                                           gasUsed, logs, DeductedFee(tx) - back))

(* ApplyTransaction after an execution: commit unless it failed, refund,   *)
(* count.  SetNonce after Create makes the sender's nonce tx.nonce + 1.    *)
ApplyTransaction(tx, failed, gasUsed, logs) ==
  LET bank == IF failed THEN AnteUnits(tx) ELSE Transfer(AnteUnits(tx), tx)
      back == RefundGas(tx, gasUsed)
  IN  /\ ConsumeBlockGas(gasUsed)
      /\ units' = [bank EXCEPT ![tx.from] = @ + back]
      /\ feeCollector' = feeCollector + DeductedFee(tx) - back
      /\ nonce' = IF tx.create /\ ~failed
                  THEN [nonce EXCEPT ![tx.from] = tx.nonce + 1]
                  ELSE AnteNonce(tx)
      /\ txIndex' = txIndex + 1
      /\ logSize' = logSize + logs
      /\ results' = Append(results, Result(tx, IF failed THEN "vmError" ELSE "ok",
                                           gasUsed, logs, DeductedFee(tx) - back))

OverLimit(gasUsed) == blockGas + gasUsed > BlockGasLimit

(* ApplyMessageWithConfig returns an error: the whole gas limit is used.   *)
FailEthTx(tx) ==
  ChargeOnly(tx, IF OverLimit(tx.gas) THEN "exceeds"
                 ELSE IF tx.gas < tx.intrinsic THEN "intrinsicGas" ELSE "commitError", tx.gas)

(* The EVM fails a call whose value the sender does not have.  A refund    *)
(* that fails ends the message before the gas meter is set.                *)
ExecuteEthTx(tx, used, counter, failed, logs) ==
  LET gasUsed == GasUsed(tx, used, counter)
  IN  /\ tx.intrinsic <= used /\ used <= tx.gas
      /\ failed => logs = 0
      /\ AnteUnits(tx)[tx.from] * ConversionFactor < tx.value => failed
      /\ IF RefundGas(tx, gasUsed) > feeCollector + DeductedFee(tx)
         THEN ChargeOnly(tx, "refundError", 0)
         ELSE IF OverLimit(gasUsed)
              THEN ChargeOnly(tx, "exceeds", gasUsed)
              ELSE ApplyTransaction(tx, failed, gasUsed, logs)

EthereumTx(tx) ==
  /\ CanRunTx
  /\ AnteAccepts(tx)
  /\ CheckGasWanted(tx.gas)
  /\ \/ FailEthTx(tx)
     \/ \E used \in 0..tx.gas, counter \in RefundCounters, failed \in BOOLEAN, logs \in LogCounts :
          ExecuteEthTx(tx, used, counter, failed, logs)
  /\ charges' = [charges EXCEPT ![tx] = @ + 1]
  /\ UNCHANGED <<params, blockGasWanted, height, maxGas, phase, distributed>>

(* The distribution module empties the fee collector when a block begins.  *)
BeginEthBlock ==
  /\ BeginBlock
  /\ distributed' = distributed + feeCollector
  /\ feeCollector' = 0
  /\ UNCHANGED <<units, nonce, txIndex, logSize, results, charges>>

UpdateFeeParams(p) == UpdateParams(p) /\ UNCHANGED ethVars

(* Commit empties the transient stores.                                    *)
EndEthBlock ==
  /\ EndBlock
  /\ txIndex' = 0 /\ logSize' = 0 /\ results' = <<>>
  /\ UNCHANGED <<units, feeCollector, distributed, nonce, charges>>

Init ==
  /\ FeeInit
  /\ units = InitUnits /\ feeCollector = 0 /\ distributed = 0
  /\ nonce = [a \in Accts |-> 0]
  /\ txIndex = 0 /\ logSize = 0 /\ results = <<>>
  /\ charges = [tx \in Txs |-> 0]

Next ==
  \/ BeginEthBlock
  \/ \E tx \in Txs : RejectEthTx(tx)
  \/ \E tx \in Txs : EthereumTx(tx)
  \/ \E p \in ParamChoices : UpdateFeeParams(p)
  \/ EndEthBlock

Spec == Init /\ [][Next]_vars
-----------------------------------------------------------------------------
(* What the indexer keeps of a block: the results TxSucessOrExpectedFailure *)
(* admits, numbered as they are met.                                       *)
TxSucessOrExpectedFailure(r) == r.kind \in {"ok", "vmError", "exceeds", "commitError"}

IndexBlock(rs) ==
  LET kept == SelectSeq(rs, TxSucessOrExpectedFailure)
  IN  [i \in 1..Len(kept) |->
        LET r == kept[i]
            included == r.kind \in {"ok", "vmError"}
        IN  [tx |-> r.tx, ethTxIndex |-> i - 1,
             gasUsed |-> IF included THEN r.gasUsed ELSE r.tx.gas,
             failed |-> r.kind # "ok",
             eventIndex |-> r.index, included |-> included,
             price |-> r.price, paid |-> r.paid]]

Kinds == {"rejected", "ok", "vmError", "exceeds", "intrinsicGas", "commitError", "refundError"}
Executed(r) == r.kind \in {"ok", "vmError"}

(* No balance is overdrawn, by the fee, the value or the refund.           *)
EthTypeOK ==
  /\ FeeTypeOK
  /\ units \in [Accts -> Nat] /\ feeCollector \in Nat /\ distributed \in Nat
  /\ nonce \in [Accts -> Nat]
  /\ txIndex \in Nat /\ logSize \in Nat
  /\ charges \in [Txs -> Nat]
  /\ results \in Seq([tx : Txs, kind : Kinds, index : Nat, gasUsed : Nat, paid : Nat,
                      price : Nat, firstLog : Nat, logs : Nat])

(* IncrementNonce, and the SetNonce calls around Create: of the signed     *)
(* transactions with one sender and nonce at most one is ever charged,     *)
(* once, in whatever order and however often blocks propose them.          *)
ChargedOnce ==
  \A tx \in Txs :
    /\ charges[tx] <= 1
    /\ \A other \in Txs : (/\ charges[tx] = 1 /\ charges[other] = 1
                           /\ tx.from = other.from /\ tx.nonce = other.nonce) => tx = other

(* CheckGasWanted and ApplyMessageWithConfig: a transaction cannot ask the *)
(* fee market for gas without using MinGasMultiplier of it, rounded down,  *)
(* in the block's gas meter, whether it succeeds, fails or does not fit.   *)
GasWantedIsPaid ==
  (phase = "deliver" /\ maxGas # -1)
  => transientGasWanted * params.MinGasMultiplier <= One * blockGas + (One - 1) * txs

(* SetTxIndexTransient and SetLogSizeTransient: the executed transactions  *)
(* of a block have increasing indexes, and their logs disjoint ranges of   *)
(* log indexes, whatever failed in between.                                *)
PositionsAreDisjoint ==
  \A i, j \in DOMAIN results :
    (i < j /\ Executed(results[i]) /\ Executed(results[j]))
    => /\ results[i].index < results[j].index
       /\ results[i].firstLog + results[i].logs <= results[j].firstLog

(* RefundGas and IndexBlock: the gas that the index reports, at the        *)
(* transaction's price, is what the sender paid, to within one unit of the *)
(* bank; also for a failure, where nothing is refunded.                    *)
ReceiptGasIsPaid ==
  LET index == IndexBlock(results)
  IN  \A i \in DOMAIN index :
        LET due == index[i].gasUsed * index[i].price
            paid == index[i].paid * ConversionFactor
        IN  paid < due + ConversionFactor /\ due < paid + ConversionFactor

(* AnteHandle (11_emit_event.go): a transaction whose fee is deducted is   *)
(* not ignored by json-rpc, whichever way it fails afterwards; except the  *)
(* one that asks for less than its intrinsic gas, whose error              *)
(* TxSucessOrExpectedFailure does not know.  So RefundGas never lacks the  *)
(* coins, although the refunds of others draw on the fee collector too.    *)
ChargedIsIndexed ==
  \A i \in DOMAIN results :
    (results[i].kind # "rejected" /\ results[i].tx.gas >= results[i].tx.intrinsic)
    => TxSucessOrExpectedFailure(results[i])

(* IndexBlock and SetTxIndexTransient count a block's transactions on      *)
(* their own: the index in a transaction's event is behind the indexer's   *)
(* by the StateDB commit errors before it, which ApplyTransaction does not *)
(* count, and by nothing else.                                             *)
IndexesMatch ==
  LET index == IndexBlock(results)
      errors(i) == {j \in 1..i : ~index[j].included}
  IN  \A i \in DOMAIN index : index[i].included =>
        index[i].ethTxIndex = index[i].eventIndex + Cardinality(errors(i))
=============================================================================
