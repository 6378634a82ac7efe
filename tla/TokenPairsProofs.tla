-------------------------- MODULE TokenPairsProofs --------------------------
(***************************************************************************)
(* Proofs about the registry of token pairs, for any contracts and denoms. *)
(***************************************************************************)
EXTENDS TokenPairs, TLAPS

Coins == Vouchers \cup {Wrapped}

(* A pair joins a contract with the denom made from its address, or a coin *)
(* with the precompile's address made from it.  RegisterERC20Extension     *)
(* looks up the denom only; this is why its address is free then.          *)
PairsMatch ==
  \A id \in DOMAIN pairs :
    \/ \E c \in Contracts : id = <<AddressOf(c), CreateDenom(c)>>
    \/ \E v \in Coins : id = <<AddressOf(v), v>>

PairInv == PairTypeOK /\ PairsMatch /\ IndexesAgree

(* The id of a pair is never the zero value that an empty index entry      *)
(* reads as.                                                               *)
LEMMA IdsAreSet ==
  ASSUME NEW id \in Ids
  PROVE  id # NoID
BY DEF Ids, NoID

(* The address and the denom of a contract, of a coin, and of both.        *)
LEMMA OneAddress ==
  /\ \A c, d \in Contracts : AddressOf(c) = AddressOf(d) => c = d
  /\ \A c, d \in Contracts : CreateDenom(c) = CreateDenom(d) => c = d
  /\ \A v, w \in Coins : AddressOf(v) = AddressOf(w) => v = w
  /\ \A c \in Contracts, v \in Coins : AddressOf(c) # AddressOf(v) /\ CreateDenom(c) # v
BY PairAssumption DEF PairAssumption, AddressOf, CreateDenom, Coins

(* A contract's address, the denom CreateDenom makes of it and the pair of *)
(* both.                                                                   *)
LEMMA ContractTypes ==
  ASSUME NEW c \in Contracts
  PROVE  /\ AddressOf(c) \in Addrs /\ CreateDenom(c) \in Denoms
         /\ NewExternalPair(AddressOf(c), CreateDenom(c)) \in TokenPair
BY DEF Addrs, Denoms, NewExternalPair, TokenPair

(* A coin's precompile address and its denom.                              *)
LEMMA CoinTypes ==
  ASSUME NEW v \in Coins
  PROVE  AddressOf(v) \in PrecompileAddrs /\ AddressOf(v) \in Addrs /\ v \in Denoms
BY DEF Addrs, Denoms, PrecompileAddrs, Coins

(* SetToken of a pair whose address and denom are both free keeps the      *)
(* three stores in step.                                                   *)
LEMMA SetTokenStep ==
  ASSUME PairInv, NEW pair \in TokenPair, SetToken(pair),
         erc20Map[pair.addr] = NoID, denomMap[pair.denom] = NoID,
         \/ \E c \in Contracts : GetID(pair) = <<AddressOf(c), CreateDenom(c)>>
         \/ \E v \in Coins : GetID(pair) = <<AddressOf(v), v>>
  PROVE  /\ DOMAIN pairs' \subseteq Ids /\ \A id \in DOMAIN pairs' : pairs'[id] \in TokenPair
         /\ erc20Map' \in [Addrs -> Ids \cup {NoID}]
         /\ denomMap' \in [Denoms -> Ids \cup {NoID}]
         /\ PairsMatch' /\ IndexesAgree'
<1> DEFINE new == GetID(pair)
<1>1. new \in Ids /\ pair.addr \in Addrs /\ pair.denom \in Denoms /\ new # NoID
  <2>1. new \in Ids /\ pair.addr \in Addrs /\ pair.denom \in Denoms
    BY DEF TokenPair, GetID, Ids
  <2> QED BY <2>1, IdsAreSet
<1>2. /\ DOMAIN pairs' = DOMAIN pairs \cup {new}
      /\ pairs'[new] = pair
      /\ \A id \in DOMAIN pairs : id # new => pairs'[id] = pairs[id]
  BY DEF SetToken, SetTokenPair
<1>3. /\ \A a \in Addrs : erc20Map'[a] = IF a = pair.addr THEN new ELSE erc20Map[a]
      /\ \A d \in Denoms : denomMap'[d] = IF d = pair.denom THEN new ELSE denomMap[d]
      /\ erc20Map' \in [Addrs -> Ids \cup {NoID}]
      /\ denomMap' \in [Denoms -> Ids \cup {NoID}]
  BY <1>1 DEF SetToken, PairInv, PairTypeOK
<1>4. \A id \in DOMAIN pairs : /\ pairs[id].addr \in Addrs /\ pairs[id].denom \in Denoms
                               /\ id # NoID
                               /\ pairs[id].addr # pair.addr /\ pairs[id].denom # pair.denom
  <2> SUFFICES ASSUME NEW id \in DOMAIN pairs
               PROVE  /\ pairs[id].addr \in Addrs /\ pairs[id].denom \in Denoms
                      /\ id # NoID
                      /\ pairs[id].addr # pair.addr /\ pairs[id].denom # pair.denom
    OBVIOUS
  <2>1. id # NoID BY IdsAreSet DEF PairInv, PairTypeOK
  <2> QED BY <2>1 DEF PairInv, PairTypeOK, IndexesAgree, TokenPair
<1>5. new \notin DOMAIN pairs
  <2> SUFFICES ASSUME new \in DOMAIN pairs PROVE FALSE OBVIOUS
  <2>1. GetID(pairs[new]) = new BY DEF PairInv, IndexesAgree
  <2>2. pairs[new].addr = pair.addr BY <2>1 DEF GetID
  <2> QED BY <1>4, <2>2
<1>6. \A id \in DOMAIN pairs' : pairs'[id] \in TokenPair
  BY <1>2 DEF PairInv, PairTypeOK
<1>7. DOMAIN pairs' \subseteq Ids BY <1>1, <1>2 DEF PairInv, PairTypeOK
<1>8. PairsMatch' BY <1>2 DEF PairInv, PairsMatch
<1>9. \A id \in DOMAIN pairs' :
        /\ GetID(pairs'[id]) = id
        /\ erc20Map'[pairs'[id].addr] = id
        /\ denomMap'[pairs'[id].denom] = id
  BY <1>1, <1>2, <1>3, <1>4, <1>5 DEF PairInv, IndexesAgree
<1>10. \A a \in Addrs : erc20Map'[a] # NoID => /\ erc20Map'[a] \in DOMAIN pairs'
                                              /\ pairs'[erc20Map'[a]].addr = a
  BY <1>1, <1>2, <1>3, <1>4, <1>5 DEF PairInv, IndexesAgree
<1>11. \A d \in Denoms : denomMap'[d] # NoID => /\ denomMap'[d] \in DOMAIN pairs'
                                                /\ pairs'[denomMap'[d]].denom = d
  BY <1>1, <1>2, <1>3, <1>4, <1>5 DEF PairInv, IndexesAgree
<1>12. IndexesAgree'
  BY <1>9, <1>10, <1>11 DEF IndexesAgree, GetID
<1> QED BY <1>3, <1>6, <1>7, <1>8, <1>12

(* DeleteTokenPair removes a pair from all three stores.                   *)
LEMMA DeleteStep ==
  ASSUME PairInv, NEW old \in DOMAIN pairs, DeleteTokenPair(pairs[old])
  PROVE  /\ DOMAIN pairs' \subseteq Ids /\ \A id \in DOMAIN pairs' : pairs'[id] \in TokenPair
         /\ erc20Map' \in [Addrs -> Ids \cup {NoID}]
         /\ denomMap' \in [Denoms -> Ids \cup {NoID}]
         /\ PairsMatch' /\ IndexesAgree'
<1>1. /\ pairs[old].addr \in Addrs /\ pairs[old].denom \in Denoms
      /\ GetID(pairs[old]) = old
  BY DEF PairInv, PairTypeOK, IndexesAgree, TokenPair
<1>2. /\ DOMAIN pairs' = DOMAIN pairs \ {old}
      /\ \A id \in DOMAIN pairs' : pairs'[id] = pairs[id]
  BY <1>1 DEF DeleteTokenPair
<1>3. /\ \A a \in Addrs : erc20Map'[a] = IF a = pairs[old].addr THEN NoID ELSE erc20Map[a]
      /\ \A d \in Denoms : denomMap'[d] = IF d = pairs[old].denom THEN NoID ELSE denomMap[d]
      /\ erc20Map' \in [Addrs -> Ids \cup {NoID}]
      /\ denomMap' \in [Denoms -> Ids \cup {NoID}]
  BY <1>1 DEF DeleteTokenPair, PairInv, PairTypeOK
<1>4. \A id \in DOMAIN pairs' : /\ pairs[id].addr \in Addrs /\ pairs[id].denom \in Denoms
                                /\ pairs[id].addr # pairs[old].addr
                                /\ pairs[id].denom # pairs[old].denom
  BY <1>2 DEF PairInv, PairTypeOK, IndexesAgree, TokenPair
<1>5. DOMAIN pairs' \subseteq Ids /\ \A id \in DOMAIN pairs' : pairs'[id] \in TokenPair
  BY <1>2 DEF PairInv, PairTypeOK
<1>6. PairsMatch' BY <1>2 DEF PairInv, PairsMatch
<1>7. \A id \in DOMAIN pairs' :
        /\ GetID(pairs'[id]) = id
        /\ erc20Map'[pairs'[id].addr] = id
        /\ denomMap'[pairs'[id].denom] = id
  BY <1>2, <1>3, <1>4 DEF PairInv, IndexesAgree
<1>8. \A a \in Addrs : erc20Map'[a] # NoID => /\ erc20Map'[a] \in DOMAIN pairs'
                                              /\ pairs'[erc20Map'[a]].addr = a
  BY <1>2, <1>3 DEF PairInv, IndexesAgree
<1>9. \A d \in Denoms : denomMap'[d] # NoID => /\ denomMap'[d] \in DOMAIN pairs'
                                               /\ pairs'[denomMap'[d]].denom = d
  BY <1>2, <1>3 DEF PairInv, IndexesAgree
<1>10. IndexesAgree' BY <1>7, <1>8, <1>9 DEF IndexesAgree, GetID
<1> QED BY <1>3, <1>5, <1>6, <1>10

(* A toggled pair keeps its address and its denom.                         *)
LEMMA ToggleStep ==
  ASSUME PairInv, NEW id \in DOMAIN pairs, ToggleConversion(id)
  PROVE  PairInv'
<1> DEFINE pair == [pairs[id] EXCEPT !.enabled = ~@]
<1>1. pairs[id] \in TokenPair /\ GetID(pairs[id]) = id
  BY DEF PairInv, PairTypeOK, IndexesAgree
<1>2. /\ pair \in TokenPair
      /\ pair.addr = pairs[id].addr /\ pair.denom = pairs[id].denom
  BY <1>1 DEF TokenPair
<1>3. GetID(pair) = id BY <1>1, <1>2 DEF GetID
<1>4. /\ DOMAIN pairs' = DOMAIN pairs
      /\ pairs'[id] = pair
      /\ \A j \in DOMAIN pairs : j # id => pairs'[j] = pairs[j]
  BY <1>3 DEF ToggleConversion, SetTokenPair, GetTokenPair
<1>5. \A j \in DOMAIN pairs' : /\ pairs'[j] \in TokenPair
                               /\ pairs'[j].addr = pairs[j].addr
                               /\ pairs'[j].denom = pairs[j].denom
  BY <1>2, <1>4 DEF PairInv, PairTypeOK
<1>6. PairTypeOK'
  BY <1>4, <1>5 DEF PairInv, PairTypeOK, ToggleConversion, paramVars
<1>7. PairsMatch' BY <1>4 DEF PairInv, PairsMatch
<1>8. IndexesAgree'
  BY <1>4, <1>5 DEF PairInv, IndexesAgree, GetID, ToggleConversion
<1> QED BY <1>6, <1>7, <1>8 DEF PairInv

(* SetParams, with or without a new precompile.                            *)
LEMMA SetParamsTypes ==
  ASSUME PairTypeOK, NEW enable \in BOOLEAN, NEW d \in SUBSET PrecompileAddrs,
         NEW n \in SUBSET PrecompileAddrs, SetParams(enable, d, n)
  PROVE  /\ enableErc20' \in BOOLEAN
         /\ dynamic' \subseteq PrecompileAddrs /\ native' \subseteq PrecompileAddrs
         /\ code' \in [Addrs -> {"empty", "contract", "erc20"}]
<1>1. enableErc20' \in BOOLEAN
  BY DEF SetParams
<1>2. dynamic' \subseteq PrecompileAddrs /\ native' \subseteq PrecompileAddrs
  BY DEF SetParams
<1>3. code' \in [Addrs -> {"empty", "contract", "erc20"}]
  BY DEF SetParams, UpdateCodeHash, RegisterOrUnregisterERC20CodeHashes, PairTypeOK
<1> QED BY <1>1, <1>2, <1>3

(* Genesis registers the wrapped coin in all three stores and lists its    *)
(* precompile.                                                             *)
LEMMA PairInitInv == PairInit => PairInv /\ CodeIsListed
<1> SUFFICES ASSUME PairInit PROVE PairInv /\ CodeIsListed OBVIOUS
<1> DEFINE pair == [addr |-> AddressOf(Wrapped), denom |-> Wrapped, enabled |-> TRUE,
                    owner |-> "module"]
<1>1. AddressOf(Wrapped) \in PrecompileAddrs /\ AddressOf(Wrapped) \in Addrs /\ Wrapped \in Denoms
  BY CoinTypes DEF Coins
<1>2. pair \in TokenPair /\ GetID(pair) = <<AddressOf(Wrapped), Wrapped>> /\ GetID(pair) \in Ids
  BY <1>1 DEF TokenPair, GetID, Ids
<1>3. DOMAIN pairs = {GetID(pair)} /\ pairs[GetID(pair)] = pair
  BY DEF PairInit
<1>4. PairTypeOK BY <1>1, <1>2, <1>3 DEF PairInit, PairTypeOK
<1>5. PairsMatch BY <1>2, <1>3 DEF PairsMatch, Coins
<1>6. IndexesAgree BY <1>1, <1>2, <1>3 DEF PairInit, IndexesAgree
<1>7. CodeIsListed BY <1>1 DEF PairInit, CodeIsListed
<1> QED BY <1>4, <1>5, <1>6, <1>7 DEF PairInv

(* RegisterERC20 checks that neither the address nor the denom is taken    *)
(* before SetToken.                                                        *)
LEMMA RegisterERC20Step ==
  ASSUME PairInv, NEW c \in Contracts, RegisterERC20(c)
  PROVE  PairInv'
<1> DEFINE pair == NewExternalPair(AddressOf(c), CreateDenom(c))
<1>1. pair \in TokenPair /\ CreateDenom(c) \in Denoms BY ContractTypes
<1>2. /\ pair.addr = AddressOf(c) /\ pair.denom = CreateDenom(c)
      /\ GetID(pair) = <<AddressOf(c), CreateDenom(c)>>
  BY DEF NewExternalPair, GetID
<1>3. SetToken(pair) /\ erc20Map[pair.addr] = NoID /\ denomMap[pair.denom] = NoID
  BY <1>2 DEF RegisterERC20
<1> HIDE DEF pair
<1>4. /\ DOMAIN pairs' \subseteq Ids /\ \A id \in DOMAIN pairs' : pairs'[id] \in TokenPair
      /\ erc20Map' \in [Addrs -> Ids \cup {NoID}]
      /\ denomMap' \in [Denoms -> Ids \cup {NoID}]
      /\ PairsMatch' /\ IndexesAgree'
  BY <1>1, <1>2, <1>3, SetTokenStep
<1>5. PairTypeOK'
  BY <1>1, <1>4 DEF PairInv, PairTypeOK, RegisterERC20, paramVars
<1> QED BY <1>4, <1>5 DEF PairInv

(* The voucher's denom is free, so by PairsMatch its address is, too.      *)
LEMMA ReceiveVoucherStep ==
  ASSUME PairInv, NEW v \in Vouchers, ReceiveVoucher(v)
  PROVE  PairInv'
<1> DEFINE a == AddressOf(v)
           pair == [addr |-> a, denom |-> v, enabled |-> TRUE, owner |-> "module"]
<1>1. v \in Coins /\ a \in PrecompileAddrs /\ a \in Addrs /\ v \in Denoms
  BY CoinTypes DEF Coins
<1>2. pair \in TokenPair BY <1>1 DEF TokenPair
<1>3. pair.addr = a /\ pair.denom = v /\ GetID(pair) = <<a, v>> BY DEF GetID
<1>4. erc20Map[a] = NoID
  <2> SUFFICES ASSUME erc20Map[a] # NoID PROVE FALSE OBVIOUS
  <2>1. PICK id \in DOMAIN pairs : id = erc20Map[a] /\ pairs[id].addr = a
    BY <1>1 DEF PairInv, IndexesAgree
  <2>2. id = <<a, pairs[id].denom>> /\ denomMap[pairs[id].denom] = id /\ id # NoID
    BY <2>1 DEF PairInv, IndexesAgree, GetID
  <2>3. ASSUME NEW c \in Contracts, id = <<AddressOf(c), CreateDenom(c)>> PROVE FALSE
    <3>1. AddressOf(c) = a BY <2>2, <2>3
    <3> QED BY <1>1, <3>1, OneAddress
  <2>4. ASSUME NEW w \in Coins, id = <<AddressOf(w), w>> PROVE FALSE
    <3>1. AddressOf(w) = a /\ pairs[id].denom = w BY <2>2, <2>4
    <3>2. w = v BY <1>1, <3>1, OneAddress
    <3> QED BY <2>2, <3>1, <3>2 DEF ReceiveVoucher
  <2> QED BY <2>3, <2>4 DEF PairInv, PairsMatch
<1>5. SetToken(pair) /\ denomMap[v] = NoID
  BY DEF ReceiveVoucher
<1> HIDE DEF pair, a
<1>6. /\ DOMAIN pairs' \subseteq Ids /\ \A id \in DOMAIN pairs' : pairs'[id] \in TokenPair
      /\ erc20Map' \in [Addrs -> Ids \cup {NoID}]
      /\ denomMap' \in [Denoms -> Ids \cup {NoID}]
      /\ PairsMatch' /\ IndexesAgree'
  <2>1. \E w \in Coins : GetID(pair) = <<AddressOf(w), w>> BY <1>1, <1>3 DEF a
  <2> QED BY <1>2, <1>3, <1>4, <1>5, <2>1, SetTokenStep
<1>7. /\ enableErc20' \in BOOLEAN
      /\ dynamic' \subseteq PrecompileAddrs /\ native' \subseteq PrecompileAddrs
      /\ code' \in [Addrs -> {"empty", "contract", "erc20"}]
  <2>1. SetParams(enableErc20, dynamic \cup {a}, native) BY DEF ReceiveVoucher, a
  <2>2. PairTypeOK BY DEF PairInv
  <2>3. /\ enableErc20 \in BOOLEAN /\ native \in SUBSET PrecompileAddrs
        /\ dynamic \cup {a} \in SUBSET PrecompileAddrs
    BY <1>1, <2>2 DEF PairTypeOK
  <2> QED BY <2>1, <2>2, <2>3, SetParamsTypes
<1>8. metadata' \subseteq Denoms BY DEF ReceiveVoucher, PairInv, PairTypeOK
<1>9. PairTypeOK' BY <1>6, <1>7, <1>8 DEF PairTypeOK
<1> QED BY <1>6, <1>9 DEF PairInv

(* Steps that leave the pairs and their indexes alone.                     *)
LEMMA SameRegistry ==
  ASSUME PairInv, UNCHANGED registry, PairTypeOK'
  PROVE  PairInv'
BY DEF PairInv, registry, PairsMatch, IndexesAgree

(* Every message of the registry keeps the invariant.                      *)
LEMMA PairNextInv == PairInv /\ [PairNext]_pairVars => PairInv'
<1> SUFFICES ASSUME PairInv, [PairNext]_pairVars PROVE PairInv' OBVIOUS
<1>1. ASSUME NEW c \in Contracts, RegisterERC20(c) PROVE PairInv'
  BY <1>1, RegisterERC20Step
<1>2. ASSUME NEW c \in Contracts, Deploy(c) PROVE PairInv'
  <2>1. AddressOf(c) \in Addrs BY ContractTypes
  <2>2. PairTypeOK' BY <1>2, <2>1 DEF Deploy, PairInv, PairTypeOK, paramVars, registry
  <2> QED BY <1>2, <2>2, SameRegistry DEF Deploy
<1>3. ASSUME NEW c \in Contracts, SelfDestruct(c) PROVE PairInv'
  <2>1. AddressOf(c) \in Addrs BY ContractTypes
  <2>2. PairTypeOK' BY <1>3, <2>1 DEF SelfDestruct, PairInv, PairTypeOK, paramVars, registry
  <2> QED BY <1>3, <2>2, SameRegistry DEF SelfDestruct
<1>4. ASSUME NEW id \in DOMAIN pairs, ToggleConversion(id) PROVE PairInv'
  BY <1>4, ToggleStep
<1>5. ASSUME NEW id \in DOMAIN pairs, RemoveDestroyed(id) PROVE PairInv'
  <2>1. DeleteTokenPair(pairs[id]) BY <1>5 DEF RemoveDestroyed, GetTokenPair
  <2>2. /\ DOMAIN pairs' \subseteq Ids /\ \A j \in DOMAIN pairs' : pairs'[j] \in TokenPair
        /\ erc20Map' \in [Addrs -> Ids \cup {NoID}]
        /\ denomMap' \in [Denoms -> Ids \cup {NoID}]
        /\ PairsMatch' /\ IndexesAgree'
    BY <2>1, DeleteStep
  <2>3. PairTypeOK' BY <1>5, <2>2 DEF RemoveDestroyed, PairInv, PairTypeOK, paramVars
  <2> QED BY <2>2, <2>3 DEF PairInv
<1>6. ASSUME NEW enable \in BOOLEAN, NEW d \in SUBSET PrecompileAddrs,
             NEW n \in SUBSET PrecompileAddrs, UpdateParams(enable, d, n)
      PROVE  PairInv'
  <2>1. /\ enableErc20' \in BOOLEAN
        /\ dynamic' \subseteq PrecompileAddrs /\ native' \subseteq PrecompileAddrs
        /\ code' \in [Addrs -> {"empty", "contract", "erc20"}]
    BY <1>6, SetParamsTypes DEF UpdateParams, PairInv
  <2>2. PairTypeOK' BY <1>6, <2>1 DEF UpdateParams, PairInv, PairTypeOK, registry
  <2> QED BY <1>6, <2>2, SameRegistry DEF UpdateParams
<1>7. ASSUME NEW v \in Vouchers, ReceiveVoucher(v) PROVE PairInv'
  BY <1>7, ReceiveVoucherStep
<1>8. CASE UNCHANGED pairVars
  <2>1. PairTypeOK' BY <1>8 DEF pairVars, PairInv, PairTypeOK
  <2> QED BY <1>8, <2>1, SameRegistry DEF pairVars, registry
<1> QED BY <1>1, <1>2, <1>3, <1>4, <1>5, <1>6, <1>7, <1>8 DEF PairNext

(* The inductive invariant of the registry.                                *)
THEOREM PairInvariant == PairSpec => []PairInv
BY PairInitInv, PairNextInv, PTL DEF PairSpec

(* SetToken, SetTokenPair and DeleteTokenPair keep the three stores in     *)
(* step, whoever calls them and in whatever order.                         *)
THEOREM StoresAgree == PairSpec => []IndexesAgree
<1>1. PairInv => IndexesAgree BY DEF PairInv
<1> QED BY <1>1, PairInvariant, PTL

-----------------------------------------------------------------------------
(* SetParams registers the code of the precompiles it lists and            *)
(* unregisters that of the ones it drops.                                  *)
LEMMA SetParamsCode ==
  ASSUME CodeIsListed, NEW enable, NEW d, NEW n, SetParams(enable, d, n)
  PROVE  CodeIsListed'
<1> SUFFICES ASSUME NEW a \in Addrs, code'[a] = "erc20" PROVE a \in dynamic' \cup native'
  BY DEF CodeIsListed
<1>1. dynamic' = d /\ native' = n BY DEF SetParams
<1>2. code'[a] = IF a \in n \ native THEN "erc20"
                 ELSE IF a \in native \ n THEN "empty"
                 ELSE IF a \in d \ dynamic THEN "erc20"
                 ELSE IF a \in dynamic \ d THEN "empty" ELSE code[a]
  BY DEF SetParams, UpdateCodeHash, RegisterOrUnregisterERC20CodeHashes
<1> QED BY <1>1, <1>2 DEF CodeIsListed

(* Every message keeps code hashes to listed precompiles.                  *)
LEMMA CodeNext == PairInv /\ CodeIsListed /\ [PairNext]_pairVars => CodeIsListed'
<1> SUFFICES ASSUME PairInv, CodeIsListed, [PairNext]_pairVars PROVE CodeIsListed' OBVIOUS
<1>1. CASE UNCHANGED <<paramVars, code>> BY <1>1 DEF paramVars, CodeIsListed
<1>2. ASSUME NEW c \in Contracts, Deploy(c) \/ SelfDestruct(c) PROVE CodeIsListed'
  BY <1>2, ContractTypes DEF Deploy, SelfDestruct, paramVars, CodeIsListed, PairInv, PairTypeOK
<1>3. ASSUME NEW enable, NEW d, NEW n, UpdateParams(enable, d, n) PROVE CodeIsListed'
  BY <1>3, SetParamsCode DEF UpdateParams
<1>4. ASSUME NEW v \in Vouchers, ReceiveVoucher(v) PROVE CodeIsListed'
  BY <1>4, SetParamsCode DEF ReceiveVoucher
<1>5. ASSUME NEW c \in Contracts, RegisterERC20(c) PROVE CodeIsListed'
  BY <1>1, <1>5 DEF RegisterERC20
<1>6. ASSUME NEW id \in DOMAIN pairs, ToggleConversion(id) \/ RemoveDestroyed(id)
      PROVE  CodeIsListed'
  BY <1>1, <1>6 DEF ToggleConversion, RemoveDestroyed
<1>7. CASE UNCHANGED pairVars BY <1>1, <1>7 DEF pairVars, paramVars
<1> QED BY <1>2, <1>3, <1>4, <1>5, <1>6, <1>7 DEF PairNext

(* UpdateCodeHash removes the code hash of every address that leaves both  *)
(* lists.                                                                  *)
THEOREM CodeHashIsListed == PairSpec => []CodeIsListed
BY PairInitInv, CodeNext, PairInvariant, PTL DEF PairSpec

(* A step that gives a contract's denom a pair is its registration, which  *)
(* the metadata of an earlier one prevents.                                *)
LEMMA RegisteredOnce ==
  ASSUME PairInv, PairNext, NEW c \in Contracts,
         CreateDenom(c) \in metadata, denomMap[CreateDenom(c)] = NoID
  PROVE  denomMap'[CreateDenom(c)] = NoID
<1> DEFINE denom == CreateDenom(c)
<1>1. denom \in Denoms /\ denomMap \in [Denoms -> Ids \cup {NoID}]
  BY ContractTypes DEF PairInv, PairTypeOK
<1>2. CASE UNCHANGED denomMap BY <1>2
<1>3. ASSUME NEW e \in Contracts, RegisterERC20(e) PROVE denomMap'[denom] = NoID
  <2>1. CreateDenom(e) \notin metadata BY <1>3 DEF RegisterERC20
  <2>2. CreateDenom(e) # denom BY <2>1
  <2>3. denomMap' = [denomMap EXCEPT ![CreateDenom(e)] =
                       GetID(NewExternalPair(AddressOf(e), CreateDenom(e)))]
    BY <1>3 DEF RegisterERC20, SetToken, NewExternalPair
  <2> QED BY <1>1, <2>2, <2>3
<1>4. ASSUME NEW e \in Contracts, Deploy(e) \/ SelfDestruct(e) PROVE denomMap'[denom] = NoID
  BY <1>2, <1>4 DEF Deploy, SelfDestruct, registry
<1>5. ASSUME NEW id \in DOMAIN pairs, ToggleConversion(id) PROVE denomMap'[denom] = NoID
  BY <1>2, <1>5 DEF ToggleConversion
<1>6. ASSUME NEW id \in DOMAIN pairs, RemoveDestroyed(id) PROVE denomMap'[denom] = NoID
  BY <1>1, <1>6 DEF RemoveDestroyed, DeleteTokenPair
<1>7. ASSUME NEW enable, NEW d, NEW n, UpdateParams(enable, d, n) PROVE denomMap'[denom] = NoID
  BY <1>2, <1>7 DEF UpdateParams, registry
<1>8. ASSUME NEW v \in Vouchers, ReceiveVoucher(v) PROVE denomMap'[denom] = NoID
  <2>1. v # denom BY OneAddress DEF Coins
  <2> QED BY <1>1, <1>8, <2>1 DEF ReceiveVoucher, SetToken
<1> QED BY <1>3, <1>4, <1>5, <1>6, <1>7, <1>8 DEF PairNext

(* registerERC20 refuses a denom that the bank has metadata of, and        *)
(* DeleteTokenPair leaves the metadata.                                    *)
THEOREM RemovedForGood == PairSpec => NeverRegisteredAgain
<1>1. PairInv /\ [PairNext]_pairVars =>
        [\A c \in Contracts :
           (CreateDenom(c) \in metadata /\ denomMap[CreateDenom(c)] = NoID)
           => denomMap'[CreateDenom(c)] = NoID]_pairVars
  BY RegisteredOnce
<1> QED BY <1>1, PairInvariant, PTL DEF PairSpec, NeverRegisteredAgain

=============================================================================
