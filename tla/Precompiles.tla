----------------------------- MODULE Precompiles -----------------------------
(***************************************************************************)
(* The precompiles that keep allowances as grants of the one authz store:  *)
(* ERC-20, ICS-20 and staking, with the owner's own authz transactions and *)
(* time.                                                                   *)
(***************************************************************************)
EXTENDS Authz

CONSTANTS Tokens, Channels, Denoms, OpenChannels, Validators

VARIABLE jailed

vars == <<grants, now, op, jailed>>

E == INSTANCE Erc20Precompile
I == INSTANCE Ics20Precompile
S == INSTANCE StakingPrecompile

(* What the precompiles store. *)
SendAuths == [kind : {"send"}, limit : [Tokens -> Amounts]]
TransferAuths == [kind : {"transfer"}, alloc : I!Allocations]
StakeAuths == [kind : {"stake"}, max : Amounts \cup {NoLimit}, list : SUBSET Validators]
Grants == [auth : {Generic} \cup SendAuths \cup TransferAuths \cup StakeAuths, exp : Nat]

ASSUME GrantAssumption ==
  /\ NoGrant \notin Grants
  /\ {E!SendMsgURL, I!TransferMsgURL} \subseteq MsgTypes

ValidFor(type, auth) ==
  \/ auth = Generic
  \/ type = E!SendMsgURL /\ auth \in SendAuths /\ auth.limit # E!NoCoins
  \/ type = I!TransferMsgURL /\ auth \in TransferAuths /\ DOMAIN auth.alloc # {}
  \/ type \in S!StakeMsgs /\ auth \in StakeAuths /\ auth.list # {}

Init == AuthzInit /\ jailed = {}

OwnTransaction ==
  \E g \in Granters, s \in Grantees, t \in MsgTypes :
    MsgGrant(g, s, t) \/ MsgRevoke(g, s, t)

Block == \E pruned \in SUBSET Due : NextBlock(pruned)

Next ==
  \/ E!Erc20Next /\ UNCHANGED jailed
  \/ I!Ics20Next /\ UNCHANGED jailed
  \/ S!StakingNext
  \/ OwnTransaction /\ UNCHANGED jailed
  \/ Block /\ UNCHANGED jailed

Spec == Init /\ [][Next]_vars
-----------------------------------------------------------------------------
SendItems == {E!SendItem(d) : d \in Tokens}
TransferItems == {I!TransferItem(c, d) : c \in Channels, d \in Denoms}
StakeItems == {S!StakeItem(t) : t \in S!StakeMsgs}
Items == SendItems \cup TransferItems \cup StakeItems

(* What the precompiles' queries report. *)
Reported(granter, grantee, i) ==
  CASE i \in SendItems -> E!Allowance(granter, grantee, i[2])
    [] i \in TransferItems -> I!Allowance(granter, grantee, i[2], i[3])
    [] i \in StakeItems -> S!Allowance(granter, grantee, i[1])

allowed == [p \in Granters \X Grantees |-> [i \in Items |-> Reported(p[1], p[2], i)]]

A == INSTANCE Allowances WITH Replaced <- TransferItems, Unbounded <- TransferItems

(* The methods of the three precompiles, the expiration of grants and      *)
(* their removal: between an owner and a spender every token, channel and  *)
(* staking message has an allowance of its own, although the tokens and    *)
(* the channels share a grant; it is what the query reports; a call of the *)
(* owner changes what it names by what it says, a use takes what it uses   *)
(* and never more than is left, an expired allowance does not come back.   *)
ImplementsAllowances == A!Spec

(* EmitApprovalEvent after approve, increase, decrease and transferFrom:   *)
(* the event's value is what the query Allowance reports after the call.   *)
ApprovalEventIsTrue ==
  [][op'.value # NoValue =>
       \A i \in op'.items : op'.value = allowed'[<<op'.granter, op'.grantee>>][i]]_vars

(* createAuthorization and updateAuthorization validate what they store,   *)
(* removeSpendLimitOrDeleteAuthorization and the authorizations' own       *)
(* updates do not: no stored SendAuthorization is left without a limit and *)
(* no stored TransferAuthorization without an allocation, which would not  *)
(* be valid, no limit is negative or past MaxUint256, and a message type   *)
(* has authorizations of its own kind only.                                *)
StoredGrantsAreValid ==
  /\ grants \in [Keys -> Grants \cup {NoGrant}] /\ now \in 0..MaxTime /\ jailed \subseteq Validators
  /\ \A k \in Keys : grants[k] # NoGrant => ValidFor(k[3], grants[k].auth)

=============================================================================
