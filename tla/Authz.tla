-------------------------------- MODULE Authz --------------------------------
(***************************************************************************)
(* The SDK's authz keeper, as the precompiles use it: one grant per        *)
(* granter, grantee and message type, with an authorization and an         *)
(* expiration.  Amounts are integers up to MaxInt, which stands for        *)
(* MaxUint256.  A call that returns an error is not a step: it changes     *)
(* nothing when the error reaches the transaction (for one that a          *)
(* contract catches, see FailedCallsLeaveNothing of StateDBHistory).       *)
(***************************************************************************)
EXTENDS Integers

CONSTANTS Granters,            \* the owners of funds
          Grantees,            \* the accounts and contracts that act for them
          MsgTypes,            \* type URLs of the messages that are granted
          MaxInt,              \* MaxUint256
          ApprovalExpiration,  \* DefaultExpirationDuration
          MaxTime,             \* bound of a behaviour
          NoGrant

ASSUME AuthzAssumption ==
  /\ MaxInt \in Nat \ {0}
  /\ ApprovalExpiration \in Nat \ {0}
  /\ MaxTime \in Nat

VARIABLES grants,   \* the keeper's store
          now,      \* block time
          op        \* the last call that succeeded, with its Approval event

Amounts == 0..MaxInt
NoLimit == MaxInt + 1    \* an authorization without a limit
Keys == Granters \X Grantees \X MsgTypes

(* An authorization of a kind that no precompile can use. *)
Generic == [kind |-> "generic"]

Grant(auth, exp) == [auth |-> auth, exp |-> exp]
Call(method, granter, grantee, items, n, value) ==
  [method |-> method, granter |-> granter, grantee |-> grantee, items |-> items,
   n |-> n, value |-> value]
NoValue == -1            \* the call emits no amount

(* Keeper.GetAuthorization gives nil for an expired grant; CheckAuthzExists *)
(* turns that into an error.                                               *)
GetAuthorization(grantee, granter, type) ==
  LET g == grants[<<granter, grantee, type>>]
  IN IF g # NoGrant /\ g.exp >= now THEN g ELSE NoGrant

CheckAuthzExists(grantee, granter, type, kind) ==
  LET g == GetAuthorization(grantee, granter, type)
  IN g # NoGrant /\ g.auth.kind = kind

(* Keeper.SaveGrant refuses an expiration that is not after the block's    *)
(* time; it replaces a grant that exists.                                  *)
SaveGrants(keys, auth, exp) ==
  /\ exp > now
  /\ grants' = [k \in Keys |-> IF k \in keys THEN Grant(auth, exp) ELSE grants[k]]

SaveGrant(grantee, granter, type, auth, exp) ==
  SaveGrants({<<granter, grantee, type>>}, auth, exp)

(* Keeper.DeleteGrant fails if there is nothing to delete. *)
DeleteGrants(keys) ==
  /\ \A k \in keys : grants[k] # NoGrant
  /\ grants' = [k \in Keys |-> IF k \in keys THEN NoGrant ELSE grants[k]]

DeleteGrant(grantee, granter, type) == DeleteGrants({<<granter, grantee, type>>})

Approval == now + ApprovalExpiration

(* The owner's own transactions: MsgGrant with an authorization of another *)
(* kind, MsgRevoke.                                                        *)
MsgGrant(granter, grantee, type) ==
  /\ SaveGrant(grantee, granter, type, Generic, Approval)
  /\ op' = Call("grant", granter, grantee, {}, 0, NoValue)
  /\ UNCHANGED now

MsgRevoke(granter, grantee, type) ==
  /\ DeleteGrant(grantee, granter, type)
  /\ op' = Call("grant", granter, grantee, {}, 0, NoValue)
  /\ UNCHANGED now

(* A later block.  BeginBlock removes grants that are due, a bounded       *)
(* number of them.                                                         *)
Due == {k \in Keys : grants[k] # NoGrant /\ grants[k].exp <= now + 1}

NextBlock(pruned) ==
  /\ now < MaxTime
  /\ now' = now + 1
  /\ grants' = [k \in Keys |-> IF k \in pruned THEN NoGrant ELSE grants[k]]
  /\ op' = Call("block", NoGrant, NoGrant, {}, 0, NoValue)

AuthzInit ==
  /\ grants = [k \in Keys |-> NoGrant]
  /\ now = 0
  /\ op = Call("block", NoGrant, NoGrant, {}, 0, NoValue)

=============================================================================
