-------------------------- MODULE StakingPrecompile --------------------------
(***************************************************************************)
(* Allowances of the staking precompile (precompiles/staking): a grant per *)
(* message type, with a limit on tokens or none and the list of the        *)
(* validators that were not jailed when it was made.  The granter is the   *)
(* origin of the transaction, the grantee a contract.  A call names a      *)
(* message type once: the methods treat a repeated name again.             *)
(***************************************************************************)
EXTENDS Authz

CONSTANTS Validators

VARIABLE jailed

DelegateMsg == "MsgDelegate"
CancelUnbondingDelegationMsg == "MsgCancelUnbondingDelegation"
UndelegateMsg == "MsgUndelegate"
RedelegateMsg == "MsgBeginRedelegate"
StakeMsgs == {DelegateMsg, UndelegateMsg, RedelegateMsg,
              CancelUnbondingDelegationMsg} \cap MsgTypes

StakeItem(t) == <<t>>
StakeAuthorization(max, list) == [kind |-> "stake", max |-> max, list |-> list]
HasStake(granter, grantee, t) == CheckAuthzExists(grantee, granter, t, "stake")
Live(granter, grantee, t) == GetAuthorization(grantee, granter, t)

(* The query Allowance, which reports MaxUint256 where there is no limit. *)
Allowance(granter, grantee, t) ==
  IF HasStake(granter, grantee, t) THEN Live(granter, grantee, t).auth.max ELSE 0

KeysOf(granter, grantee, types) == {<<granter, grantee, t>> : t \in types}

Emits(method, granter, grantee, types, n) ==
  /\ op' = Call(method, granter, grantee, {StakeItem(t) : t \in types}, n, NoValue)
  /\ UNCHANGED <<now, jailed>>

(* CheckApprovalArgs: MaxUint256 is no coin, and no coin is no limit. *)
Limit(amount) == IF amount = MaxInt THEN NoLimit ELSE amount

(* createStakingAuthz; an authorization with an empty list is refused. *)
createStakingAuthz(granter, grantee, types, max) ==
  LET list == Validators \ jailed
  IN /\ list # {}
     /\ SaveGrants(KeysOf(granter, grantee, types), StakeAuthorization(max, list), Approval)

grantOrDeleteStakingAuthz(granter, grantee, types, max) ==
  \/ max > 0 /\ createStakingAuthz(granter, grantee, types, max)
  \/ max = 0 /\ DeleteGrants(KeysOf(granter, grantee, types))

Approve(origin, grantee, types, amount) ==
  /\ types # {}
  /\ grantOrDeleteStakingAuthz(origin, grantee, types, Limit(amount))
  /\ Emits("approve", origin, grantee, types, Limit(amount))

Revoke(origin, grantee, types) ==
  /\ types # {}
  /\ DeleteGrants(KeysOf(origin, grantee, types))
  /\ Emits("revoke", origin, grantee, types, 0)

(* decreaseAllowance and increaseAllowance leave a grant without limit     *)
(* alone.                                                                  *)
ChangeLimits(granter, grantee, types, change) ==
  LET limited == {t \in types : Allowance(granter, grantee, t) # NoLimit}
  IN /\ \A t \in types : HasStake(granter, grantee, t)
     /\ \A t \in limited :
          /\ Allowance(granter, grantee, t) + change \in Amounts
          /\ Live(granter, grantee, t).exp > now
     /\ grants' = [k \in Keys |->
          IF k \in KeysOf(granter, grantee, limited)
          THEN [grants[k] EXCEPT !.auth.max = @ + change]
          ELSE grants[k]]

(* Without a coin (MaxUint256) a grant with a limit makes the method fail. *)
DecreaseAllowance(origin, grantee, types, amount) ==
  /\ types # {}
  /\ amount = MaxInt => \A t \in types : Allowance(origin, grantee, t) = NoLimit
  /\ ChangeLimits(origin, grantee, types, -amount)
  /\ Emits("decrease", origin, grantee, types, amount)

IncreaseAllowance(origin, grantee, types, amount) ==
  /\ types # {} /\ CancelUnbondingDelegationMsg \notin types
  /\ amount = MaxInt => \A t \in types : Allowance(origin, grantee, t) = NoLimit
  /\ ChangeLimits(origin, grantee, types, amount)
  /\ Emits("increase", origin, grantee, types, amount)

(* UpdateStakingAuthorization with StakeAuthorization.Accept, which wants  *)
(* the validator listed: deleted when nothing is left, else written with   *)
(* its expiration.                                                         *)
UpdateStakingAuthorization(granter, grantee, t, validator, amount) ==
  LET g == Live(granter, grantee, t)
      left == IF g.auth.max = NoLimit THEN NoLimit ELSE g.auth.max - amount
  IN /\ validator \in g.auth.list
     /\ left >= 0
     /\ \/ left = 0 /\ DeleteGrant(grantee, granter, t)
        \/ /\ left > 0
           /\ SaveGrant(grantee, granter, t, StakeAuthorization(left, g.auth.list), g.exp)

CheckAuthzAndAllowanceForGranter(granter, grantee, t, amount) ==
  /\ HasStake(granter, grantee, t)
  /\ amount <= Allowance(granter, grantee, t)

(* A method called by a contract in a transaction of the origin.  The      *)
(* delegator is one of the two, and the grant is the origin's in both      *)
(* cases.  Whether the staking module executes the message is not the      *)
(* precompile's.                                                           *)
Execute(origin, caller, t, validator, amount) ==
  /\ t \in MsgTypes
  /\ caller # origin /\ amount > 0
  /\ CheckAuthzAndAllowanceForGranter(origin, caller, t, amount)
  /\ UpdateStakingAuthorization(origin, caller, t, validator, amount)
  /\ Emits("use", origin, caller, {t}, amount)

Delegate(origin, caller, validator, amount) ==
  Execute(origin, caller, DelegateMsg, validator, amount)

Undelegate(origin, caller, validator, amount) ==
  Execute(origin, caller, UndelegateMsg, validator, amount)

(* The grant speaks of the destination. *)
Redelegate(origin, caller, destination, amount) ==
  Execute(origin, caller, RedelegateMsg, destination, amount)

CancelUnbondingDelegation(origin, caller, validator, amount) ==
  Execute(origin, caller, CancelUnbondingDelegationMsg, validator, amount)

(* A validator is jailed or unjailed. *)
SetJailed(validators) ==
  /\ jailed' = validators
  /\ op' = Call("block", NoGrant, NoGrant, {}, 0, NoValue)
  /\ UNCHANGED <<grants, now>>

StakingNext ==
  \/ \E o \in Granters, s \in Grantees, n \in Amounts :
       \/ \E types \in SUBSET StakeMsgs :
            \/ Approve(o, s, types, n)
            \/ Revoke(o, s, types)
            \/ DecreaseAllowance(o, s, types, n)
            \/ IncreaseAllowance(o, s, types, n)
       \/ \E v \in Validators :
            \/ Delegate(o, s, v, n)
            \/ Undelegate(o, s, v, n)
            \/ Redelegate(o, s, v, n)
            \/ CancelUnbondingDelegation(o, s, v, n)
  \/ \E vs \in SUBSET Validators : SetJailed(vs)

=============================================================================
