--------------------------- MODULE Ics20Precompile ---------------------------
(***************************************************************************)
(* Allowances of the ICS-20 precompile (precompiles/ics20): a grant holds  *)
(* allocations, one per channel, with a spend limit per denom; a denom     *)
(* without a limit has amount 0, and MaxInt means that nothing is          *)
(* subtracted.  The granter is always the origin of the transaction.       *)
(***************************************************************************)
EXTENDS Authz

CONSTANTS Channels, Denoms,
          OpenChannels        \* the channels that exist

TransferMsgURL == "MsgTransfer"
TransferItem(c, d) == <<TransferMsgURL, c, d>>
TransferAuthorization(alloc) == [kind |-> "transfer", alloc |-> alloc]
NoCoins == [d \in Denoms |-> 0]
Allocations == UNION {[cs -> [Denoms -> Amounts]] : cs \in SUBSET Channels}

Live(granter, grantee) == GetAuthorization(grantee, granter, TransferMsgURL)
HasTransfer(granter, grantee) ==
  CheckAuthzExists(grantee, granter, TransferMsgURL, "transfer")

(* The query Allowance: what the allocations say of a channel and a denom. *)
Allowance(granter, grantee, c, d) ==
  IF HasTransfer(granter, grantee) /\ c \in DOMAIN Live(granter, grantee).auth.alloc
  THEN Live(granter, grantee).auth.alloc[c][d]
  ELSE 0

Emits(method, granter, grantee, items, n) ==
  /\ op' = Call(method, granter, grantee, items, n, NoValue)
  /\ UNCHANGED now

(* NewTransferAuthorization validates the allocations, of which there is   *)
(* at least one.                                                           *)
Approve(origin, grantee, alloc) ==
  /\ DOMAIN alloc # {}
  /\ DOMAIN alloc \subseteq OpenChannels
  /\ SaveGrant(grantee, origin, TransferMsgURL, TransferAuthorization(alloc), Approval)
  /\ Emits("replace", origin, grantee, {}, 0)

Revoke(origin, grantee) ==
  /\ HasTransfer(origin, grantee)
  /\ DeleteGrant(grantee, origin, TransferMsgURL)
  /\ Emits("revoke", origin, grantee,
           {TransferItem(c, d) : c \in Channels, d \in Denoms}, 0)

checkAllocationExists(granter, grantee, c, d) ==
  HasTransfer(granter, grantee) /\ Allowance(granter, grantee, c, d) > 0

SaveLimit(granter, grantee, c, d, limit) ==
  LET g == Live(granter, grantee)
  IN SaveGrant(grantee, granter, TransferMsgURL,
               TransferAuthorization([g.auth.alloc EXCEPT ![c][d] = limit]), g.exp)

IncreaseAllowance(origin, grantee, c, d, amount) ==
  LET limit == Allowance(origin, grantee, c, d) + amount
  IN /\ checkAllocationExists(origin, grantee, c, d)
     /\ limit <= MaxInt
     /\ SaveLimit(origin, grantee, c, d, limit)
     /\ Emits("increase", origin, grantee, {TransferItem(c, d)}, amount)

(* An allocation stays when its last coin is removed. *)
DecreaseAllowance(origin, grantee, c, d, amount) ==
  LET limit == Allowance(origin, grantee, c, d) - amount
  IN /\ checkAllocationExists(origin, grantee, c, d)
     /\ limit >= 0
     /\ SaveLimit(origin, grantee, c, d, limit)
     /\ Emits("decrease", origin, grantee, {TransferItem(c, d)}, amount)

(* TransferAuthorization.Accept: the authorization after a transfer. *)
Accept(alloc, c, d, amount) ==
  LET left == [alloc[c] EXCEPT ![d] = @ - amount]
  IN IF alloc[c][d] = MaxInt THEN alloc
     ELSE IF left = NoCoins THEN [x \in DOMAIN alloc \ {c} |-> alloc[x]]
     ELSE [alloc EXCEPT ![c] = left]

(* UpdateGrant: deleted when no allocation is left, not written when       *)
(* Accept subtracted nothing.                                              *)
UpdateGrant(granter, grantee, alloc) ==
  LET g == Live(granter, grantee)
  IN \/ DOMAIN alloc = {} /\ DeleteGrant(grantee, granter, TransferMsgURL)
     \/ alloc = g.auth.alloc /\ UNCHANGED grants
     \/ /\ DOMAIN alloc # {} /\ alloc # g.auth.alloc
        /\ SaveGrant(grantee, granter, TransferMsgURL, TransferAuthorization(alloc), g.exp)

(* A transfer that a contract makes in a transaction of the origin.  The   *)
(* sender is one of the two, which the grant does not depend on.           *)
Transfer(origin, caller, c, d, amount) ==
  LET alloc == Live(origin, caller).auth.alloc
  IN /\ caller # origin /\ amount > 0
     /\ c \in OpenChannels
     /\ HasTransfer(origin, caller)
     /\ Allowance(origin, caller, c, d) >= amount
     /\ UpdateGrant(origin, caller, Accept(alloc, c, d, amount))
     /\ Emits("use", origin, caller, {TransferItem(c, d)}, amount)

Ics20Next ==
  \E o \in Granters, s \in Grantees :
    \/ \E alloc \in Allocations : Approve(o, s, alloc)
    \/ Revoke(o, s)
    \/ \E c \in Channels, d \in Denoms, n \in Amounts :
         \/ IncreaseAllowance(o, s, c, d, n)
         \/ DecreaseAllowance(o, s, c, d, n)
         \/ Transfer(o, s, c, d, n)

=============================================================================
