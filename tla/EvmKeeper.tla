------------------------------ MODULE EvmKeeper ------------------------------
(***************************************************************************)
(* The persistent side of the EVM state: what x/vm/keeper keeps in its     *)
(* store, in the auth module and in the bank module for each address, as   *)
(* the value of one multistore (a context or a cache context), and the     *)
(* keeper's operations on it as functions from multistores to multistores. *)
(*                                                                         *)
(* The bank holds the EVM coin in its own decimals; the keeper sees 18     *)
(* decimals through the bank wrapper.  ConversionFactor is the ratio.      *)
(* Contract code is its own hash.  "modules" is the state of every other   *)
(* Cosmos module that a precompile can change.                             *)
(***************************************************************************)
EXTENDS Integers

CONSTANTS Addrs,            \* the addresses, ordered as sortedDirties orders them
          Keys,             \* storage slots
          Values,           \* storage words
          ZeroValue,        \* the word an unset slot reads as
          Codes,            \* non-empty contract codes
          EmptyCode,        \* the code (hash) of an account without code
          ModuleStates,     \* states of the other Cosmos modules
          ConversionFactor  \* 10^(18 - decimals of the EVM coin)

ASSUME AddrsAssumption == Addrs \subseteq Nat
ASSUME ValuesAssumption == ZeroValue \in Values
ASSUME CodesAssumption == EmptyCode \notin Codes
ASSUME FactorAssumption == ConversionFactor \in Nat \ {0}

ZeroStorage == [k \in Keys |-> ZeroValue]

Account == [exists : BOOLEAN, nonce : Nat, codeHash : Codes \cup {EmptyCode},
            units : Nat, storage : [Keys -> Values]]

NoAccount == [exists |-> FALSE, nonce |-> 0, codeHash |-> EmptyCode,
              units |-> 0, storage |-> ZeroStorage]

MultiStore == [acct : [Addrs -> Account], code : SUBSET Codes, modules : ModuleStates]

-----------------------------------------------------------------------------
(* Decimals of the EVM coin *)

To18Decimals(units) == units * ConversionFactor

From18Decimals(amount) == amount \div ConversionFactor

AdjustExtraDecimals(amount) == To18Decimals(From18Decimals(amount))

-----------------------------------------------------------------------------
(* The keeper's operations on the account record of one address *)

GetBalance(acct) == To18Decimals(acct.units)

(* SetBalance mints or burns the difference to the current balance. *)
SetBalance(acct, amount) ==
  LET current == GetBalance(acct)
  IN  [acct EXCEPT !.units = IF amount >= current
                             THEN @ + From18Decimals(amount - current)
                             ELSE @ - From18Decimals(current - amount)]

SetAccount(acct, nonce, balance, codeHash) ==
  SetBalance([acct EXCEPT !.exists = TRUE, !.nonce = nonce, !.codeHash = codeHash],
             balance)

keeperSetState(acct, written, state) ==
  [acct EXCEPT !.storage = [k \in Keys |-> IF k \in written THEN state[k] ELSE @[k]]]

IsContract(acct) == acct.codeHash # EmptyCode

(* DeleteAccount refuses an account that is not a contract. *)
DeleteAccountFails(acct) == acct.exists /\ ~IsContract(acct)

DeleteAccount(acct) == IF acct.exists THEN NoAccount ELSE acct

=============================================================================
