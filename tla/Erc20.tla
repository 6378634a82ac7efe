------------------------------- MODULE Erc20 -------------------------------
(***************************************************************************)
(* Conversions between ERC20 tokens of users' contracts and the coins that *)
(* stand for them, by message and by IBC.  A conversion to coins moves the *)
(* tokens to the erc20 module's account and mints; one to tokens, which    *)
(* only IBC callbacks make, moves them back and burns.  Coins sent by IBC  *)
(* are in the channel's escrow account until they return.                  *)
(*                                                                         *)
(* Each step is a transaction or a packet callback, whose effects are      *)
(* dropped if it returns an error (or an error acknowledgement): a failure *)
(* is a step that is not taken.  coin[c] is the coin CreateDenom(c).       *)
(***************************************************************************)
EXTENDS TokenPairs, TLC

CONSTANTS Users, OtherModules,   \* accounts; the second are module accounts
          ModuleAcct, Escrow,    \* types.ModuleAddress, the channel's escrow account
          Fickle,                \* bound: accounts of which any balance may be answered
          MaxPackets,            \* bound: packets in flight
          MaxAmount,             \* bound: tokens of a contract that keeps to ERC-20
          MaxSupply              \* bound: coins of a contract

Accts == Users \cup OtherModules \cup {ModuleAcct, Escrow}
Amounts == 1..MaxAmount
Seqs == 1..MaxPackets

ASSUME Erc20Assumption ==
  /\ MaxPackets \in Nat /\ MaxAmount \in Nat /\ MaxSupply \in Nat
  /\ ModuleAcct \notin Users \cup OtherModules \cup {Escrow}
  /\ Escrow \notin Users \cup OtherModules
  /\ Fickle \subseteq Accts

VARIABLES standard,   \* the contracts whose transfer does what ERC-20 says
          token,      \* the balances each contract answers with
          coin,       \* the bank's balances of each contract's coin
          supply,     \* the bank's supply of it
          remote,     \* what the other chain owns of it
          packets,    \* packets in flight, by sequence
          destroyed   \* history variable: contracts that destroyed themselves

convVars == <<standard, token, coin, supply, remote, packets, destroyed>>
vars == <<pairVars, convVars>>

NoPacket == [fate |-> "none"]
Packet == [fate : {"ok", "error", "timeout"}, contract : Contracts,
           sender : Users \cup OtherModules, amount : Amounts]

IsModuleAccount(a) == a \in OtherModules \cup {ModuleAcct}
BlockedAddr(a) == a = ModuleAcct
InFlight(s) == packets[s] # NoPacket

Move(bal, from, to, amount) ==
  LET debited == [bal EXCEPT ![from] = @ - amount]
  IN  [debited EXCEPT ![to] = @ + amount]

PairOf(c) == pairs[denomMap[CreateDenom(c)]]
Found(c) == denomMap[CreateDenom(c)] # NoID

(* Balances after a call of transfer that succeeds, returns true and logs  *)
(* no Approval.                                                            *)
TransferOutcomes(c, from, to, amount) ==
  IF code[AddressOf(c)] # "contract" THEN {}
  ELSE IF c \notin standard THEN {f @@ token[c] : f \in [Fickle -> 0..MaxAmount]}
       ELSE IF token[c][from] >= amount THEN {Move(token[c], from, to, amount)} ELSE {}

(* convertERC20IntoCoinsForNativeToken compares the module's balance.      *)
EscrowAnything(c, from, amount) == TransferOutcomes(c, from, ModuleAcct, amount)

EscrowOutcomes(c, from, amount) ==
  {b \in TransferOutcomes(c, from, ModuleAcct, amount) :
     b[ModuleAcct] = token[c][ModuleAcct] + amount}

(* ConvertCoinNativeERC20 compares the receiver's.                         *)
UnescrowOutcomes(c, to, amount) ==
  {b \in TransferOutcomes(c, ModuleAcct, to, amount) : b[to] = token[c][to] + amount}

MintingEnabled(c, receiver, amount) ==
  /\ supply[c] + amount <= MaxSupply
  /\ enableErc20
  /\ erc20Map[AddressOf(c)] # NoID
  /\ pairs[erc20Map[AddressOf(c)]].enabled
  /\ ~BlockedAddr(receiver)

ConvertERC20(c, sender, receiver, amount) ==
  /\ MintingEnabled(c, receiver, amount)
  /\ \E b \in EscrowOutcomes(c, sender, amount) : token' = [token EXCEPT ![c] = b]
  /\ coin' = [coin EXCEPT ![c][receiver] = @ + amount]
  /\ supply' = [supply EXCEPT ![c] = @ + amount]
  /\ UNCHANGED <<pairVars, standard, remote, packets, destroyed>>

(* x/ibc/transfer's Transfer: what the sender lacks is converted first.    *)
ConvertsFirst(c, sender, amount) ==
  /\ enableErc20
  /\ erc20Map[AddressOf(c)] # NoID
  /\ pairs[erc20Map[AddressOf(c)]].enabled
  /\ coin[c][sender] < amount

Transfer(s, c, sender, amount, fate) ==
  /\ ~InFlight(s)
  /\ IF ConvertsFirst(c, sender, amount)
     THEN LET difference == amount - coin[c][sender]
          IN  /\ MintingEnabled(c, sender, difference)
              /\ \E b \in EscrowOutcomes(c, sender, difference) : token' = [token EXCEPT ![c] = b]
              /\ supply' = [supply EXCEPT ![c] = @ + difference]
              /\ coin' = [coin EXCEPT ![c] = [@ EXCEPT ![sender] = 0, ![Escrow] = @ + amount]]
     ELSE /\ coin[c][sender] >= amount
          /\ coin' = [coin EXCEPT ![c] = Move(@, sender, Escrow, amount)]
          /\ UNCHANGED <<token, supply>>
  /\ packets' = [packets EXCEPT ![s] =
                   [fate |-> fate, contract |-> c, sender |-> sender, amount |-> amount]]
  /\ UNCHANGED <<pairVars, standard, remote, destroyed>>

(* OnAcknowledgementPacket of a success.                                   *)
AcknowledgePacket(s) ==
  /\ InFlight(s) /\ packets[s].fate = "ok"
  /\ remote' = [remote EXCEPT ![packets[s].contract] = @ + packets[s].amount]
  /\ packets' = [packets EXCEPT ![s] = NoPacket]
  /\ UNCHANGED <<pairVars, standard, token, coin, supply, destroyed>>

NoBurn(c, bank, owner, amount) ==
  /\ bank[owner] >= amount
  /\ \E b \in UnescrowOutcomes(c, owner, amount) : token' = [token EXCEPT ![c] = b]
  /\ coin' = [coin EXCEPT ![c] = [bank EXCEPT ![owner] = @ - amount, ![ModuleAcct] = @ + amount]]
  /\ UNCHANGED supply

(* ConvertCoinNativeERC20 of `amount', on the bank's balances `bank'.      *)
ConvertCoinNativeERC20(c, bank, owner, amount) ==
  IF amount = 0 THEN coin' = [coin EXCEPT ![c] = bank] /\ UNCHANGED <<token, supply>>
  ELSE /\ bank[owner] >= amount
       /\ \E b \in UnescrowOutcomes(c, owner, amount) : token' = [token EXCEPT ![c] = b]
       /\ coin' = [coin EXCEPT ![c] = [bank EXCEPT ![owner] = @ - amount]]
       /\ supply' = [supply EXCEPT ![c] = @ - amount]

(* OnAcknowledgementPacket of an error, OnTimeoutPacket: the transfer      *)
(* module refunds the sender, then ConvertCoinToERC20FromPacket.           *)
ConvertsRefund(c, sender) ==
  Found(c) /\ PairOf(c).owner = "external" /\ enableErc20 /\ ~IsModuleAccount(sender)

RefundWantsEnabled(s) ==
  LET c == packets[s].contract
      sender == packets[s].sender
      amount == packets[s].amount
      bank == Move(coin[c], Escrow, sender, amount)
  IN  /\ InFlight(s) /\ packets[s].fate \in {"error", "timeout"}
      /\ IF ConvertsRefund(c, sender)
         THEN PairOf(c).enabled /\ ConvertCoinNativeERC20(c, bank, sender, amount)
         ELSE coin' = [coin EXCEPT ![c] = bank] /\ UNCHANGED <<token, supply>>
      /\ packets' = [packets EXCEPT ![s] = NoPacket]
      /\ UNCHANGED <<pairVars, standard, remote, destroyed>>

RefundPacket(s) ==
  LET c == packets[s].contract
      sender == packets[s].sender
      amount == packets[s].amount
      bank == Move(coin[c], Escrow, sender, amount)
  IN  /\ InFlight(s) /\ packets[s].fate \in {"error", "timeout"}
      /\ IF ConvertsRefund(c, sender)
         THEN ConvertCoinNativeERC20(c, bank, sender, amount)
         ELSE coin' = [coin EXCEPT ![c] = bank] /\ UNCHANGED <<token, supply>>
      /\ packets' = [packets EXCEPT ![s] = NoPacket]
      /\ UNCHANGED <<pairVars, standard, remote, destroyed>>

(* OnRecvPacket of coins that return: they leave the escrow account, then  *)
(* the recipient's whole balance is converted.  Next assumes a recipient   *)
(* other than the escrow account, which neither OnRecvPacket nor the       *)
(* application's BlockedAddresses checks: its balance backs the other      *)
(* chain's coins and would be converted like any other.                    *)
ReceivePacket(c, recipient, amount) ==
  LET bank == Move(coin[c], Escrow, recipient, amount)
  IN  /\ remote[c] >= amount
      /\ ~BlockedAddr(recipient)
      /\ IF /\ enableErc20 /\ ~IsModuleAccount(recipient)
            /\ Found(c) /\ PairOf(c).owner = "external" /\ PairOf(c).enabled
         THEN ConvertCoinNativeERC20(c, bank, recipient, bank[recipient])
         ELSE coin' = [coin EXCEPT ![c] = bank] /\ UNCHANGED <<token, supply>>
      /\ remote' = [remote EXCEPT ![c] = @ - amount]
      /\ UNCHANGED <<pairVars, standard, packets, destroyed>>

(* Users outside the module: tokens may go to any account, coins to any    *)
(* that is not blocked, and a contract that does not keep to ERC-20 may    *)
(* answer with any balances.                                               *)
SendTokens(c, from, to, amount) ==
  /\ \E b \in TransferOutcomes(c, from, to, amount) : token' = [token EXCEPT ![c] = b]
  /\ UNCHANGED <<pairVars, standard, coin, supply, remote, packets, destroyed>>

SendCoins(c, from, to, amount) ==
  /\ coin[c][from] >= amount /\ ~BlockedAddr(to)
  /\ coin' = [coin EXCEPT ![c] = Move(@, from, to, amount)]
  /\ UNCHANGED <<pairVars, standard, token, supply, remote, packets, destroyed>>

DeployToken(c, owner) ==
  /\ Deploy(c)
  /\ token' = [token EXCEPT ![c] = [a \in Accts |-> IF a = owner THEN MaxAmount ELSE 0]]
  /\ UNCHANGED <<standard, coin, supply, remote, packets, destroyed>>

DestroyToken(c) ==
  /\ SelfDestruct(c)
  /\ token' = [token EXCEPT ![c] = [a \in Accts |-> 0]]
  /\ destroyed' = destroyed \cup {c}
  /\ UNCHANGED <<standard, coin, supply, remote, packets>>

Registry ==
  /\ \/ \E c \in Contracts : RegisterERC20(c)
     \/ \E id \in DOMAIN pairs : ToggleConversion(id) \/ RemoveDestroyed(id)
     \/ \E enable \in BOOLEAN : UpdateParams(enable, dynamic, native)
  /\ UNCHANGED convVars

Init ==
  /\ PairInit
  /\ standard \in SUBSET Contracts
  /\ token = [c \in Contracts |-> [a \in Accts |-> 0]]
  /\ coin = [c \in Contracts |-> [a \in Accts |-> 0]]
  /\ supply = [c \in Contracts |-> 0] /\ remote = [c \in Contracts |-> 0]
  /\ packets = [s \in Seqs |-> NoPacket]
  /\ destroyed = {}

Next ==
  \/ Registry
  \/ \E c \in Contracts : DestroyToken(c) \/ \E owner \in Users : DeployToken(c, owner)
  \/ \E c \in Contracts, amount \in Amounts :
       \/ \E sender \in Users, receiver \in Accts : ConvertERC20(c, sender, receiver, amount)
       \/ \E s \in Seqs, sender \in Users \cup OtherModules, fate \in {"ok", "error", "timeout"} :
            Transfer(s, c, sender, amount, fate)
       \/ \E recipient \in Accts \ {Escrow} : ReceivePacket(c, recipient, amount)
       \/ \E from \in Users, to \in Accts : SendTokens(c, from, to, amount)
       \/ \E from \in Users, to \in Accts : SendCoins(c, from, to, amount)
  \/ \E s \in Seqs : AcknowledgePacket(s) \/ RefundPacket(s)

(* A relayer delivers, in the end, the acknowledgement or the timeout of   *)
(* every packet.                                                           *)
Relayers == \A s \in Seqs : WF_vars(AcknowledgePacket(s) \/ RefundPacket(s))

Spec == Init /\ [][Next]_vars /\ Relayers
-----------------------------------------------------------------------------
TypeOK ==
  /\ PairTypeOK
  /\ token \in [Contracts -> [Accts -> Nat]]
  /\ coin \in [Contracts -> [Accts -> Nat]]
  /\ supply \in [Contracts -> Nat] /\ remote \in [Contracts -> Nat]
  /\ packets \in [Seqs -> Packet \cup {NoPacket}]
  /\ standard \subseteq Contracts /\ destroyed \subseteq Contracts

(* The balance checks of the two conversions: of any contract, whatever    *)
(* its transfer does, coins are minted only for as many tokens that reach  *)
(* the module's account, and burned only for as many that someone gets.    *)
ConversionIsExact ==
  [][ \A c \in Contracts :
        /\ supply'[c] > supply[c] =>
             supply'[c] - supply[c] = token'[c][ModuleAcct] - token[c][ModuleAcct]
        /\ supply'[c] < supply[c] =>
             \E a \in Accts : supply[c] - supply'[c] = token'[c][a] - token[c][a] ]_vars

(* OnAcknowledgementPacket, OnTimeoutPacket: a packet of a live contract   *)
(* that keeps to ERC-20 is settled in the end: its refund cannot fail for  *)
(* want of tokens, with the pair enabled, disabled or removed in between.  *)
PacketsSettle ==
  \A s \in Seqs :
    (InFlight(s) /\ packets[s].contract \in standard)
    ~> (~InFlight(s) \/ standard \cap destroyed # {})
=============================================================================
