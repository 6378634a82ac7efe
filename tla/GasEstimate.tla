---------------------------- MODULE GasEstimate ----------------------------
(***************************************************************************)
(* The gas estimate of x/vm's EstimateGas for a message, on the state that *)
(* the last block left.  How the message executes is a function of its gas *)
(* limit, in which more gas need not mean success.                         *)
(***************************************************************************)
EXTENDS EthTx

CONSTANTS TxGas,        \* params.TxGas, what any transaction needs
          GasCaps,      \* gas caps of requests
          AskedGas,     \* gas limits of requests; 0 if there is none
          Executions    \* outcomes by gas limit

Outcomes == {"ok", "outOfGas", "reverted", "error"}
NoEstimate == 0

ASSUME EstimateAssumption ==
  /\ TxGas \in Nat \ {0}
  /\ GasCaps \subseteq Nat /\ AskedGas \subseteq Nat
  /\ \A exec \in Executions, cap \in GasCaps : \A g \in 0..cap : exec[g] \in Outcomes

(* A limit below the intrinsic gas is an outcome like being out of gas.    *)
executable(tx, exec) ==
  [g \in DOMAIN exec |-> IF g < tx.intrinsic THEN "outOfGas" ELSE exec[g]]

RECURSIVE BinSearch(_, _, _)
BinSearch(lo, hi, exec) ==
  LET mid == (hi + lo) \div 2
  IN  CASE lo + 1 >= hi -> hi
        [] OTHER -> CASE exec[mid] = "error" -> NoEstimate
                      [] exec[mid] = "ok" -> BinSearch(lo, mid, exec)
                      [] OTHER -> BinSearch(mid, hi, exec)

(* The gas limit of the request, else the block's, under the request's cap. *)
Highest(gas, cap) ==
  Lesser(IF gas >= TxGas THEN gas ELSE IF maxGas > 0 THEN maxGas ELSE cap, cap)

Balance(tx) == units[tx.from] * ConversionFactor
AllowanceWithoutValue(tx) == Balance(tx) \div tx.cap
Allowance(tx) == (Balance(tx) - tx.value) \div tx.cap
FundsLimit(tx, gas, cap) == tx.cap # 0 /\ Highest(gas, cap) > Allowance(tx)

EstimateGas(tx, gas, cap, exec) ==
  LET gasCap == Highest(gas, cap)
      funds == FundsLimit(tx, gas, cap)
      run == executable(tx, exec)
      found == BinSearch(TxGas - 1, IF funds THEN Allowance(tx) ELSE gasCap, run)
  IN  IF \/ cap < TxGas
         \/ tx.cap # 0 /\ tx.value # 0 /\ tx.value >= Balance(tx)
         \/ funds /\ Allowance(tx) < TxGas
         \/ found = gasCap /\ run[found] # "ok"
      THEN NoEstimate ELSE found
-----------------------------------------------------------------------------
(* EstimateGas and the ante handler: the message executes with the gas     *)
(* that is estimated and not with one less, and its sender can pay for     *)
(* that gas and the value.  Where the sender's funds lower the limit, the  *)
(* code compares the result with the limit from before and does not try    *)
(* it, so only the rest is claimed there.                                  *)
EstimateIsSendable ==
  phase = "begin" =>
    \A tx \in Txs, gas \in AskedGas, cap \in GasCaps, exec \in Executions :
      LET found == EstimateGas(tx, gas, cap, exec)
          run == executable(tx, exec)
      IN  found # NoEstimate =>
            /\ run[found] = "ok" \/ FundsLimit(tx, gas, cap)
            /\ found > TxGas => run[found - 1] # "ok"
            /\ VerifyAccountBalance([tx EXCEPT !.gas = found])
=============================================================================
