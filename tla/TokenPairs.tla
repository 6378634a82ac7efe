----------------------------- MODULE TokenPairs -----------------------------
(***************************************************************************)
(* x/erc20's registry: the token pairs with their two indexes, the params  *)
(* with the lists of ERC20 precompiles, and the code hashes that SetParams *)
(* writes for these.  Conversions are the subject of module Erc20.         *)
(*                                                                         *)
(* An address is an ERC20 contract of a user, the one derived from an IBC  *)
(* denom, or that of a native precompile; CreateDenom and                  *)
(* GetIBCDenomAddress are injective.  A pair's id, a hash of address and   *)
(* denom, is the two of them.                                              *)
(***************************************************************************)
EXTENDS Naturals

CONSTANTS Contracts,     \* addresses at which users deploy ERC20 contracts
          Vouchers,      \* IBC denoms
          SingleHop,     \* the vouchers whose base denom is the sender chain's own
          Wrapped        \* the coin with a native precompile (a genesis pair)

CreateDenom(c) == <<"erc20/", c>>
AddressOf(coin) == <<"0x", coin>>

(* No IBC denom and no address of a voucher is one of a user's contract.   *)
ASSUME PairAssumption ==
  /\ SingleHop \subseteq Vouchers
  /\ Contracts \cap (Vouchers \cup {Wrapped}) = {} /\ Wrapped \notin Vouchers
  /\ \A c \in Contracts : CreateDenom(c) \notin Vouchers \cup {Wrapped}

PrecompileAddrs == {AddressOf(v) : v \in Vouchers \cup {Wrapped}}
Addrs == {AddressOf(c) : c \in Contracts} \cup PrecompileAddrs
Denoms == {CreateDenom(c) : c \in Contracts} \cup Vouchers \cup {Wrapped}

TokenPair == [addr : Addrs, denom : Denoms, enabled : BOOLEAN,
              owner : {"external", "module"}]
GetID(pair) == <<pair.addr, pair.denom>>
Ids == Addrs \X Denoms
NoID == <<>>

VARIABLES enableErc20, dynamic, native,  \* Params
          pairs,                         \* KeyPrefixTokenPair
          erc20Map, denomMap,            \* KeyPrefixTokenPairByERC20, ...ByDenom
          metadata,                      \* the denoms the bank has metadata of
          code                           \* account code: "empty", "contract", "erc20"

pairVars == <<enableErc20, dynamic, native, pairs, erc20Map, denomMap, metadata, code>>
registry == <<pairs, erc20Map, denomMap>>
paramVars == <<enableErc20, dynamic, native>>

IsRegistered(id) == id \in DOMAIN pairs
GetTokenPair(id) == pairs[id]

SetTokenPair(pair) ==
  pairs' = [id \in DOMAIN pairs \cup {GetID(pair)} |->
             IF id = GetID(pair) THEN pair ELSE pairs[id]]

SetToken(pair) ==
  /\ SetTokenPair(pair)
  /\ denomMap' = [denomMap EXCEPT ![pair.denom] = GetID(pair)]
  /\ erc20Map' = [erc20Map EXCEPT ![pair.addr] = GetID(pair)]

DeleteWithoutERC20Map(pair) ==
  /\ pairs' = [id \in DOMAIN pairs \ {GetID(pair)} |-> pairs[id]]
  /\ denomMap' = [denomMap EXCEPT ![pair.denom] = NoID]
  /\ UNCHANGED erc20Map

DeleteTokenPair(pair) ==
  /\ pairs' = [id \in DOMAIN pairs \ {GetID(pair)} |-> pairs[id]]
  /\ denomMap' = [denomMap EXCEPT ![pair.denom] = NoID]
  /\ erc20Map' = [erc20Map EXCEPT ![pair.addr] = NoID]

(* The calls of name, symbol and decimals succeed.  A listed precompile    *)
(* answers if its token pair exists.                                       *)
QueryERC20(a) ==
  IF a \in dynamic \cup native THEN erc20Map[a] # NoID ELSE code[a] = "contract"

NewExternalPair(a, denom) ==
  [addr |-> a, denom |-> denom, enabled |-> TRUE, owner |-> "external"]

RegisterAgain(c) ==
  LET a == AddressOf(c)
      denom == CreateDenom(c)
  IN  /\ enableErc20
      /\ erc20Map[a] = NoID
      /\ QueryERC20(a)
      /\ metadata' = metadata \cup {denom}
      /\ SetToken(NewExternalPair(a, denom))
      /\ UNCHANGED <<paramVars, code>>

(* registerERC20, CreateCoinMetadata.                                      *)
RegisterERC20(c) ==
  LET a == AddressOf(c)
      denom == CreateDenom(c)
  IN  /\ enableErc20
      /\ erc20Map[a] = NoID
      /\ QueryERC20(a)
      /\ denom \notin metadata
      /\ denomMap[denom] = NoID
      /\ metadata' = metadata \cup {denom}
      /\ SetToken(NewExternalPair(a, denom))
      /\ UNCHANGED <<paramVars, code>>

(* Governance names a token by its address or by its denom.                *)
ToggleConversion(id) ==
  /\ enableErc20
  /\ IsRegistered(id)
  /\ SetTokenPair([GetTokenPair(id) EXCEPT !.enabled = ~@])
  /\ UNCHANGED <<erc20Map, denomMap, paramVars, metadata, code>>

(* RegisterOrUnregisterERC20CodeHashes on the accounts' code.              *)
RegisterWithoutUnregister(accounts, old, new) ==
  [a \in Addrs |-> IF a \in new \ old THEN "erc20" ELSE accounts[a]]

RegisterOrUnregisterERC20CodeHashes(accounts, old, new) ==
  [a \in Addrs |-> IF a \in new \ old THEN "erc20"
                   ELSE IF a \in old \ new THEN "empty" ELSE accounts[a]]

UpdateCodeHash(newDynamic, newNative) ==
  code' = RegisterOrUnregisterERC20CodeHashes(
            RegisterOrUnregisterERC20CodeHashes(code, dynamic, newDynamic),
            native, newNative)

(* Validate wants the two lists disjoint.                                  *)
SetParams(enable, newDynamic, newNative) ==
  /\ newDynamic \cap newNative = {}
  /\ UpdateCodeHash(newDynamic, newNative)
  /\ enableErc20' = enable
  /\ dynamic' = newDynamic
  /\ native' = newNative

UpdateParams(enable, newDynamic, newNative) ==
  /\ SetParams(enable, newDynamic, newNative)
  /\ UNCHANGED <<registry, metadata>>

(* OnRecvPacket of a voucher: RegisterERC20Extension, with the error of    *)
(* appendPrecompiles for an address that is already listed.  The packet is *)
(* then acknowledged with an error and all its effects are dropped.        *)
ReceiveVoucher(v) ==
  /\ enableErc20
  /\ denomMap[v] = NoID
  /\ v \in SingleHop
  /\ AddressOf(v) \notin dynamic
  /\ SetToken([addr |-> AddressOf(v), denom |-> v, enabled |-> TRUE, owner |-> "module"])
  /\ SetParams(enableErc20, dynamic \cup {AddressOf(v)}, native)
  /\ UNCHANGED metadata

(* ConvertERC20 of a pair whose contract is gone.                          *)
RemoveDestroyed(id) ==
  /\ enableErc20
  /\ IsRegistered(id) /\ GetTokenPair(id).enabled
  /\ GetTokenPair(id).owner = "external"
  /\ code[GetTokenPair(id).addr] = "empty"
  /\ DeleteTokenPair(GetTokenPair(id))
  /\ UNCHANGED <<paramVars, metadata, code>>

(* The EVM: a user deploys a contract, or it destroys itself.              *)
Deploy(c) ==
  /\ code[AddressOf(c)] = "empty"
  /\ code' = [code EXCEPT ![AddressOf(c)] = "contract"]
  /\ UNCHANGED <<paramVars, registry, metadata>>

SelfDestruct(c) ==
  /\ code[AddressOf(c)] = "contract"
  /\ code' = [code EXCEPT ![AddressOf(c)] = "empty"]
  /\ UNCHANGED <<paramVars, registry, metadata>>

(* InitGenesis.                                                            *)
PairInit ==
  LET pair == [addr |-> AddressOf(Wrapped), denom |-> Wrapped, enabled |-> TRUE,
               owner |-> "module"]
  IN  /\ enableErc20 = TRUE
      /\ dynamic = {} /\ native = {AddressOf(Wrapped)}
      /\ pairs = [id \in {GetID(pair)} |-> pair]
      /\ erc20Map = [a \in Addrs |-> IF a = pair.addr THEN GetID(pair) ELSE NoID]
      /\ denomMap = [d \in Denoms |-> IF d = pair.denom THEN GetID(pair) ELSE NoID]
      /\ metadata = {}
      /\ code = [a \in Addrs |-> IF a = pair.addr THEN "erc20" ELSE "empty"]

PairNext ==
  \/ \E c \in Contracts : RegisterERC20(c) \/ Deploy(c) \/ SelfDestruct(c)
  \/ \E id \in DOMAIN pairs : ToggleConversion(id) \/ RemoveDestroyed(id)
  \/ \E enable \in BOOLEAN, d, n \in SUBSET PrecompileAddrs : UpdateParams(enable, d, n)
  \/ \E v \in Vouchers : ReceiveVoucher(v)

PairSpec == PairInit /\ [][PairNext]_pairVars
-----------------------------------------------------------------------------
PairTypeOK ==
  /\ enableErc20 \in BOOLEAN
  /\ dynamic \subseteq PrecompileAddrs /\ native \subseteq PrecompileAddrs
  /\ DOMAIN pairs \subseteq Ids /\ \A id \in DOMAIN pairs : pairs[id] \in TokenPair
  /\ erc20Map \in [Addrs -> Ids \cup {NoID}]
  /\ denomMap \in [Denoms -> Ids \cup {NoID}]
  /\ metadata \subseteq Denoms
  /\ code \in [Addrs -> {"empty", "contract", "erc20"}]

(* SetToken and DeleteTokenPair over the three stores: a pair is found by  *)
(* its address and by its denom, and each index entry leads to a pair that *)
(* has that address or denom, so the "safety check, should never happen"   *)
(* of GetCoinAddress and GetTokenDenom does not.                           *)
IndexesAgree ==
  /\ \A id \in DOMAIN pairs :
       /\ GetID(pairs[id]) = id
       /\ erc20Map[pairs[id].addr] = id
       /\ denomMap[pairs[id].denom] = id
  /\ \A a \in Addrs : erc20Map[a] # NoID => /\ erc20Map[a] \in DOMAIN pairs
                                            /\ pairs[erc20Map[a]].addr = a
  /\ \A d \in Denoms : denomMap[d] # NoID => /\ denomMap[d] \in DOMAIN pairs
                                             /\ pairs[denomMap[d]].denom = d

(* UpdateCodeHash: an account keeps no precompile's code hash once its     *)
(* address is in neither list, whichever lists it went through.            *)
CodeIsListed == \A a \in Addrs : code[a] = "erc20" => a \in dynamic \cup native

(* RegisterERC20 after ConvertERC20 removed a pair: the coins minted       *)
(* against a contract that is gone are never matched with another contract *)
(* at its address, since the bank's metadata stays.                        *)
NeverRegisteredAgain ==
  [][ \A c \in Contracts :
        (CreateDenom(c) \in metadata /\ denomMap[CreateDenom(c)] = NoID)
        => denomMap'[CreateDenom(c)] = NoID ]_pairVars

(* UpdateCodeHash: "for all newly added precompiles the code hash will be  *)
(* registered".                                                            *)
ListedHasCode == \A a \in dynamic \cup native : code[a] = "erc20"
=============================================================================
