-------------------------- MODULE PrecompileProofs --------------------------
(***************************************************************************)
(* The precompiles' grants are valid and implement Allowances, for any     *)
(* accounts, tokens, channels, validators and amounts.                     *)
(***************************************************************************)
EXTENDS Ics20PrecompileProofs

-----------------------------------------------------------------------------
(* The staking precompile *)

ItemsOf(types) == {S!StakeItem(t) : t \in types}
StakeLimits == Amounts \cup {NoLimit}

(* What is known of a stored StakeAuthorization.                           *)
LEMMA StakeFacts ==
  ASSUME Valid, NEW o \in Granters, NEW s \in Grantees, NEW t \in S!StakeMsgs,
         S!HasStake(o, s, t)
  PROVE  /\ S!Live(o, s, t) = grants[<<o, s, t>>] /\ grants[<<o, s, t>>] \in Grants
         /\ grants[<<o, s, t>>].auth \in StakeAuths /\ grants[<<o, s, t>>].auth.list # {}
         /\ S!Allowance(o, s, t) = grants[<<o, s, t>>].auth.max
         /\ S!Allowance(o, s, t) \in StakeLimits
         /\ grants[<<o, s, t>>].exp \in Nat /\ Usable(grants[<<o, s, t>>], "stake")
<1> DEFINE g == grants[<<o, s, t>>]
<1>1. <<o, s, t>> \in Keys /\ <<o, s, t>>[3] = t BY KeyTypes, ItemKinds
<1>2. Usable(g, "stake") /\ S!Live(o, s, t) = g
  BY DEF S!HasStake, S!Live, S!CheckAuthzExists, S!GetAuthorization, Usable
<1>3. g \in Grants /\ g.exp \in Nat /\ ValidFor(t, g.auth) BY <1>1, <1>2, ValidTypes DEF Usable
<1>4. g.auth \in StakeAuths /\ g.auth.list # {}
  BY <1>2, <1>3, ItemKinds DEF Usable, ValidFor, Generic, E!SendMsgURL, I!TransferMsgURL
<1>5. S!Allowance(o, s, t) = g.auth.max BY <1>2 DEF S!Allowance
<1> QED BY <1>2, <1>3, <1>4, <1>5 DEF StakeAuths, StakeLimits

(* The calls write grants of some message types, which are their items.    *)
LEMMA StakeBecomes ==
  ASSUME NEW o \in Granters, NEW s \in Grantees, NEW types \in SUBSET S!StakeMsgs,
         now' = now,
         \A k \in Keys : k \notin S!KeysOf(o, s, types) => grants'[k] = grants[k],
         NEW new, \A t \in types : S!Allowance(o, s, t)' = new[S!StakeItem(t)]
  PROVE  /\ Becomes(o, s, ItemsOf(types), new)
         /\ \A t \in types : allowed[<<o, s>>][S!StakeItem(t)] = S!Allowance(o, s, t)
<1> DEFINE few == ItemsOf(types)
<1>1. few \in SUBSET StakeItems /\ few \in SUBSET Items BY DEF ItemsOf, StakeItems, Items
<1>2. \A i \in Items : i[1] \in types => i \in few BY ItemKinds DEF Items, ItemsOf
<1>3. \A k \in Keys : ~(k[1] = o /\ k[2] = s /\ k[3] \in types) => grants'[k] = grants[k]
  BY DEF S!KeysOf
<1>4. \A i \in few : i[1] \in types /\ i = S!StakeItem(i[1]) BY DEF ItemsOf, S!StakeItem
<1>5. \A i \in few : Reported(o, s, i)' = new[i] BY <1>1, <1>4, ReportedIs
<1>6. \A t \in types : S!StakeItem(t) \in few /\ S!StakeItem(t)[1] = t
  BY DEF ItemsOf, S!StakeItem
<1>7. \A t \in types : allowed[<<o, s>>][S!StakeItem(t)] = S!Allowance(o, s, t)
  BY <1>1, <1>6, ReportedIs DEF allowed
<1> HIDE DEF few
<1>8. allowed' = [allowed EXCEPT ![<<o, s>>] =
                    [i \in Items |-> IF i \in few THEN Reported(o, s, i)'
                                     ELSE allowed[<<o, s>>][i]]]
  <2>1. \A i \in Items \ few : i[1] \in types => Reported(o, s, i)' = Reported(o, s, i)
    BY <1>2
  <2>2. few \in SUBSET Items BY <1>1
  <2> QED BY <1>3, <2>1, <2>2, Narrow, SMTT(30)
<1>9. [i \in Items |-> IF i \in few THEN Reported(o, s, i)' ELSE allowed[<<o, s>>][i]] =
      [i \in Items |-> IF i \in few THEN new[i] ELSE allowed[<<o, s>>][i]]
  BY <1>5
<1> QED BY <1>7, <1>8, <1>9, Zenon DEF Becomes, few

(* The grants of the types are written with a limit, or deleted.           *)
Limited(o, s, types, max) ==
  \/ max = 0 /\ Puts(S!KeysOf(o, s, types), NoGrant)
  \/ /\ max \in StakeLimits /\ max > 0
     /\ \E exp \in Nat, list \in SUBSET Validators :
          /\ exp >= now /\ list # {}
          /\ Puts(S!KeysOf(o, s, types), [auth |-> S!StakeAuthorization(max, list), exp |-> exp])

(* Once a limit is stored for some message types, it is their allowance.   *)
LEMMA LimitedResult ==
  ASSUME Valid, NEW o \in Granters, NEW s \in Grantees, NEW types \in SUBSET S!StakeMsgs,
         NEW max, Limited(o, s, types, max), now' = now, jailed' = jailed
  PROVE  /\ Valid'
         /\ \A t \in types : S!Allowance(o, s, t)' = max
         /\ \A k \in Keys : k \notin S!KeysOf(o, s, types) => grants'[k] = grants[k]
<1> DEFINE keys == S!KeysOf(o, s, types)
<1>1. \A t \in types : <<o, s, t>> \in keys /\ <<o, s, t>> \in Keys
  BY KeyTypes, ItemKinds DEF S!KeysOf
<1>2. \A k \in keys : k[3] \in types BY DEF S!KeysOf
<1> HIDE DEF keys
<1>3. CASE max = 0 /\ Puts(keys, NoGrant)
  <2>1. Valid' BY <1>3, PutsValid DEF Valid, StoredGrantsAreValid
  <2>2. \A t \in types : grants'[<<o, s, t>>] = NoGrant BY <1>1, <1>3 DEF Puts
  <2>3. \A t \in types : S!Allowance(o, s, t)' = 0 BY <2>2, StakeAllowance, Zenon DEF Usable
  <2> QED BY <1>3, <2>1, <2>3 DEF Puts, keys
<1>4. ASSUME NEW exp \in Nat, NEW list \in SUBSET Validators, exp >= now, list # {},
             max \in StakeLimits,
             Puts(keys, [auth |-> S!StakeAuthorization(max, list), exp |-> exp])
      PROVE  Valid' /\ \A t \in types : S!Allowance(o, s, t)' = max
  <2> DEFINE g == [auth |-> S!StakeAuthorization(max, list), exp |-> exp]
  <2>1. /\ g.auth \in StakeAuths /\ g.auth.max = max /\ g.auth.list = list
        /\ g.auth.kind = "stake" /\ g.exp = exp
    BY <1>4 DEF S!StakeAuthorization, StakeAuths, StakeLimits
  <2>2. g \in Grants BY <2>1 DEF Grants
  <2>3. \A k \in keys : ValidFor(k[3], g.auth) BY <1>2, <1>4, <2>1 DEF ValidFor
  <2>4. Valid' BY <1>4, <2>2, <2>3, PutsValid DEF Valid, StoredGrantsAreValid
  <2>5. \A t \in types : grants'[<<o, s, t>>] = g BY <1>1, <1>4 DEF Puts
  <2>6. g # NoGrant BY <2>2, GrantAssumption DEF GrantAssumption
  <2>7. \A t \in types : Usable(grants[<<o, s, t>>], "stake")' BY <1>4, <2>1, <2>5, <2>6 DEF Usable
  <2> QED BY <2>1, <2>4, <2>5, <2>7, StakeAllowance, Zenon
<1> QED BY <1>3, <1>4 DEF Limited, Puts, keys

(* decreaseAllowance and increaseAllowance.                                *)
LEMMA ChangeResult ==
  ASSUME Valid, NEW o \in Granters, NEW s \in Grantees, NEW types \in SUBSET S!StakeMsgs,
         NEW change \in Int, S!ChangeLimits(o, s, types, change), now' = now, jailed' = jailed
  PROVE  /\ Valid'
         /\ \A t \in types : /\ S!Allowance(o, s, t) \in StakeLimits
                             /\ S!Allowance(o, s, t)' = Plus(S!Allowance(o, s, t), change)
                             /\ S!Allowance(o, s, t) # NoLimit => S!Allowance(o, s, t) + change \in Amounts
         /\ \A k \in Keys : k \notin S!KeysOf(o, s, types) => grants'[k] = grants[k]
<1> DEFINE all(t) == S!Allowance(o, s, t)
           limited == {t \in types : all(t) # NoLimit}
           keys == S!KeysOf(o, s, limited)
           new(k) == [grants[k] EXCEPT !.auth.max = @ + change]
<1>1. /\ \A t \in types : S!HasStake(o, s, t)
      /\ \A t \in limited : all(t) + change \in Amounts
      /\ grants' = [k \in Keys |-> IF k \in keys THEN new(k) ELSE grants[k]]
  BY Same DEF S!ChangeLimits
<1>2. \A t \in types : <<o, s, t>> \in Keys BY KeyTypes, ItemKinds
<1>3. \A k \in keys : k[3] \in limited /\ k = <<o, s, k[3]>> BY DEF S!KeysOf
<1>4. \A t \in types : <<o, s, t>> \in keys <=> t \in limited BY DEF S!KeysOf
<1>5. \A k \in keys : k \in S!KeysOf(o, s, types) BY DEF S!KeysOf
<1>6. \A t \in types : t \in S!StakeMsgs /\ (t \in limited <=> all(t) # NoLimit) OBVIOUS
<1>7. \A t \in limited : t \in types OBVIOUS
<1> HIDE DEF limited, keys, new
<1>8. ASSUME NEW t \in types
      PROVE  /\ grants[<<o, s, t>>] \in Grants /\ grants[<<o, s, t>>].auth \in StakeAuths
             /\ grants[<<o, s, t>>].auth.list # {}
             /\ all(t) = grants[<<o, s, t>>].auth.max /\ all(t) \in StakeLimits
             /\ Usable(grants[<<o, s, t>>], "stake")
  BY <1>1, <1>6, StakeFacts
<1>9. ASSUME NEW t \in limited
      PROVE  /\ new(<<o, s, t>>) \in Grants /\ new(<<o, s, t>>).auth \in StakeAuths
             /\ new(<<o, s, t>>).auth.list # {} /\ new(<<o, s, t>>).auth.kind = "stake"
             /\ new(<<o, s, t>>).auth.max = all(t) + change
             /\ new(<<o, s, t>>).exp = grants[<<o, s, t>>].exp
             /\ new(<<o, s, t>>) # NoGrant
  <2> DEFINE g == grants[<<o, s, t>>]
             h == new(<<o, s, t>>)
  <2>1. /\ g \in Grants /\ g.auth \in StakeAuths /\ g.auth.list # {} /\ all(t) = g.auth.max
    BY <1>7, <1>8
  <2>2. all(t) + change \in Amounts BY <1>1
  <2>3. /\ h = [g EXCEPT !.auth = [g.auth EXCEPT !.max = all(t) + change]]
    BY <2>1 DEF new, Grants, StakeAuths
  <2> HIDE DEF g, h, all
  <2>4. [g.auth EXCEPT !.max = all(t) + change] \in StakeAuths BY <2>1, <2>2 DEF StakeAuths
  <2>5. h.auth = [g.auth EXCEPT !.max = all(t) + change] /\ h.exp = g.exp /\ h \in Grants
    BY <2>1, <2>3, <2>4 DEF Grants
  <2>6. h.auth.list = g.auth.list /\ h.auth.max = all(t) + change /\ h.auth.kind = "stake"
    BY <2>1, <2>5 DEF StakeAuths
  <2>7. h # NoGrant BY <2>5, GrantAssumption DEF GrantAssumption
  <2> QED BY <2>1, <2>4, <2>5, <2>6, <2>7 DEF g, h
<1>10. \A k \in Keys : k \notin S!KeysOf(o, s, types) => grants'[k] = grants[k]
  BY <1>1, <1>5
<1>11. Valid'
  <2>1. ASSUME NEW k \in Keys
        PROVE  /\ grants'[k] \in Grants \cup {NoGrant}
               /\ grants'[k] # NoGrant => ValidFor(k[3], grants'[k].auth)
    <3>1. CASE k \in keys
      <4>1. k[3] \in limited /\ k = <<o, s, k[3]>> /\ k[3] \in S!StakeMsgs BY <1>3, <1>6, <1>7, <3>1
      <4>2. grants'[k] = new(<<o, s, k[3]>>) BY <1>1, <3>1, <4>1
      <4> QED BY <1>9, <4>1, <4>2 DEF ValidFor
    <3>2. CASE k \notin keys BY <1>1, <3>2 DEF Valid, StoredGrantsAreValid
    <3> QED BY <3>1, <3>2
  <2>2. grants' \in [Keys -> Grants \cup {NoGrant}] BY <1>1, <2>1
  <2>3. \A t, a : ValidFor(t, a)' <=> ValidFor(t, a) BY DEF ValidFor
  <2> QED BY <2>1, <2>2, <2>3 DEF Valid, StoredGrantsAreValid
<1>12. ASSUME NEW t \in types
       PROVE  /\ all(t)' = Plus(all(t), change)
              /\ all(t) # NoLimit => all(t) + change \in Amounts
  <2>1. CASE t \in limited
    <3>1. grants'[<<o, s, t>>] = new(<<o, s, t>>) BY <1>1, <1>2, <1>4, <2>1
    <3>2. Usable(grants[<<o, s, t>>], "stake")' BY <1>8, <1>9, <2>1, <3>1 DEF Usable
    <3>3. all(t)' = all(t) + change BY <1>9, <2>1, <3>1, <3>2, StakeAllowance
    <3> QED BY <1>1, <1>6, <2>1, <3>3 DEF Plus
  <2>2. CASE t \notin limited
    <3>1. grants'[<<o, s, t>>] = grants[<<o, s, t>>] BY <1>1, <1>2, <1>4, <2>2
    <3>2. all(t)' = all(t) BY <3>1, StakeAllowance, SMTT(30) DEF Usable
    <3> QED BY <1>6, <2>2, <3>2 DEF Plus
  <2> QED BY <2>1, <2>2
<1> QED BY <1>8, <1>10, <1>11, <1>12, Zenon

(* What a call reports of itself: Approval and Revocation events have no   *)
(* value of their own.                                                     *)
LEMMA StakeCalled ==
  ASSUME NEW o, NEW s, NEW types \in SUBSET S!StakeMsgs, NEW method, NEW m,
         S!Emits(method, o, s, types, m)
  PROVE  /\ now' = now /\ jailed' = jailed
         /\ Called(method, o, s, ItemsOf(types), m) /\ EventIsTrue
<1>1. op' = [method |-> method, granter |-> o, grantee |-> s,
             items |-> ItemsOf(types), n |-> m, value |-> NoValue]
  BY Same DEF S!Emits, S!Call, ItemsOf
<1> QED BY <1>1 DEF S!Emits, Called, EventIsTrue

(* Deleted grants leave nothing.                                           *)
LEMMA StakeDeleted ==
  ASSUME NEW o, NEW s, NEW types, S!DeleteGrants(S!KeysOf(o, s, types))
  PROVE  Limited(o, s, types, 0)
BY Same DEF S!DeleteGrants, Limited, Puts

(* approve                                                                 *)
LEMMA StakeApproved ==
  ASSUME Valid, NEW o \in Granters, NEW s \in Grantees, NEW n \in Amounts,
         NEW types \in SUBSET S!StakeMsgs, S!Approve(o, s, types, n)
  PROVE  Good
<1>0. now \in Nat /\ n \in 0..MaxInt BY Constants DEF Valid, StoredGrantsAreValid
<1> DEFINE max == S!Limit(n)
           new == [i \in ItemsOf(types) |-> max]
<1>1. max \in StakeLimits /\ max >= 0 BY <1>0, Constants, Same DEF S!Limit, StakeLimits
<1>2. S!Emits("approve", o, s, types, max) BY DEF S!Approve
<1> HIDE DEF max
<1>3. Limited(o, s, types, max)
  <2>1. CASE max > 0 /\ S!createStakingAuthz(o, s, types, max)
    <3> DEFINE exp == now + ApprovalExpiration
               list == Validators \ jailed
    <3>1. exp \in Nat /\ exp >= now BY <1>0, Constants
    <3>2. list \in SUBSET Validators OBVIOUS
    <3>3. /\ list # {}
          /\ Puts(S!KeysOf(o, s, types), [auth |-> S!StakeAuthorization(max, list), exp |-> exp])
      BY <2>1, Same DEF S!createStakingAuthz, S!SaveGrants, S!Grant, S!Approval, Puts
    <3> HIDE DEF exp, list
    <3> QED BY <1>1, <2>1, <3>1, <3>2, <3>3 DEF Limited
  <2>2. CASE max = 0 /\ S!DeleteGrants(S!KeysOf(o, s, types)) BY <2>2, StakeDeleted
  <2> QED BY <2>1, <2>2 DEF S!Approve, S!grantOrDeleteStakingAuthz, max
<1>4. now' = now /\ jailed' = jailed /\ Called("approve", o, s, ItemsOf(types), max) /\ EventIsTrue
  BY <1>2, StakeCalled
<1>5. /\ Valid' /\ \A t \in types : S!Allowance(o, s, t)' = max
      /\ \A k \in Keys : k \notin S!KeysOf(o, s, types) => grants'[k] = grants[k]
  BY <1>3, <1>4, LimitedResult
<1>6. \A t \in types : S!Allowance(o, s, t)' = new[S!StakeItem(t)] BY <1>5 DEF ItemsOf
<1>7. \A i \in ItemsOf(types) : new[i] = max OBVIOUS
<1> HIDE DEF new
<1>8. Becomes(o, s, ItemsOf(types), new) BY <1>4, <1>5, <1>6, StakeBecomes, Zenon
<1> QED BY <1>4, <1>5, <1>7, <1>8, ApproveStep DEF Good

(* revoke                                                                  *)
LEMMA StakeRevoked ==
  ASSUME Valid, NEW o \in Granters, NEW s \in Grantees,
         NEW types \in SUBSET S!StakeMsgs, S!Revoke(o, s, types)
  PROVE  Good
<1> DEFINE new == [i \in ItemsOf(types) |-> 0]
<1>1. S!DeleteGrants(S!KeysOf(o, s, types)) /\ S!Emits("revoke", o, s, types, 0)
  BY DEF S!Revoke
<1>2. now' = now /\ jailed' = jailed /\ Called("revoke", o, s, ItemsOf(types), 0) /\ EventIsTrue
  BY <1>1, StakeCalled
<1>3. Limited(o, s, types, 0) BY <1>1, StakeDeleted
<1>4. /\ Valid' /\ \A t \in types : S!Allowance(o, s, t)' = 0
      /\ \A k \in Keys : k \notin S!KeysOf(o, s, types) => grants'[k] = grants[k]
  BY <1>2, <1>3, LimitedResult
<1>5. \A t \in types : S!Allowance(o, s, t)' = new[S!StakeItem(t)] BY <1>4 DEF ItemsOf
<1>6. \A i \in ItemsOf(types) : new[i] = 0 OBVIOUS
<1> HIDE DEF new
<1>7. Becomes(o, s, ItemsOf(types), new) BY <1>2, <1>4, <1>5, StakeBecomes, Zenon
<1> QED BY <1>2, <1>4, <1>6, <1>7, RevokeStep DEF Good

(* increaseAllowance and decreaseAllowance                                 *)
LEMMA StakeChanged ==
  ASSUME Valid, NEW o \in Granters, NEW s \in Grantees, NEW n \in Amounts,
         NEW types \in SUBSET S!StakeMsgs, NEW change \in Int, NEW method,
         S!ChangeLimits(o, s, types, change), S!Emits(method, o, s, types, n),
         \/ method = "increase" /\ change = n
         \/ method = "decrease" /\ change = -n
  PROVE  Good
<1>0. now \in Nat /\ n \in 0..MaxInt BY Constants DEF Valid, StoredGrantsAreValid
<1> DEFINE few == ItemsOf(types)
           new == [i \in few |-> Plus(S!Allowance(o, s, i[1]), change)]
           old == allowed[<<o, s>>]
<1>1. now' = now /\ jailed' = jailed /\ Called(method, o, s, few, n) /\ EventIsTrue
  BY StakeCalled, SMTT(30)
<1>2. /\ Valid'
      /\ \A t \in types : /\ S!Allowance(o, s, t) \in StakeLimits
                          /\ S!Allowance(o, s, t)' = Plus(S!Allowance(o, s, t), change)
                          /\ S!Allowance(o, s, t) # NoLimit => S!Allowance(o, s, t) + change \in Amounts
      /\ \A k \in Keys : k \notin S!KeysOf(o, s, types) => grants'[k] = grants[k]
  BY <1>1, ChangeResult
<1>3. \A i \in few : i[1] \in types /\ i = S!StakeItem(i[1]) BY DEF ItemsOf, S!StakeItem
<1>4. \A t \in types : S!StakeItem(t) \in few /\ S!StakeItem(t)[1] = t BY DEF ItemsOf, S!StakeItem
<1>5. \A t \in types : S!Allowance(o, s, t)' = new[S!StakeItem(t)] BY <1>2, <1>4
<1>6. \A i \in few : new[i] = Plus(S!Allowance(o, s, i[1]), change) OBVIOUS
<1>7. old = allowed[<<o, s>>] BY SMTT(30)
<1> HIDE DEF new, old
<1>8. Becomes(o, s, few, new) /\ \A t \in types : old[S!StakeItem(t)] = S!Allowance(o, s, t)
  BY <1>1, <1>2, <1>5, <1>7, StakeBecomes, SMTT(30)
<1>9. \A i \in few : old[i] = S!Allowance(o, s, i[1]) BY <1>3, <1>8
<1>10. \A i \in few : /\ old[i] \in 0..MaxInt \/ old[i] = NoLimit
                      /\ old[i] # NoLimit => old[i] + change \in 0..MaxInt
                      /\ new[i] = Plus(old[i], change)
  <2>1. \A m \in StakeLimits : m \in 0..MaxInt \/ m = NoLimit BY Constants, SMTT(30) DEF StakeLimits
  <2> QED BY <1>2, <1>3, <1>6, <1>9, <2>1, Constants
<1> HIDE DEF few
<1>11. CASE method = "increase" /\ change = n
  <2>1. Raises(old, few, new, n) BY <1>0, <1>10, <1>11, Constants, SMTT(30) DEF Plus, Raises
  <2>2. Raises(allowed[<<o, s>>], few, new, n) BY <1>7, <2>1, Zenon
  <2>3. A!Next BY <1>1, <1>8, <1>11, <2>2, IncreaseStep
  <2> QED BY <1>1, <1>2, <2>3 DEF Good
<1>12. CASE method = "decrease" /\ change = -n
  <2>1. Lowers(old, few, new, n)
    BY <1>0, <1>10, <1>12, Constants, SMTT(30) DEF Plus, Minus, Lowers
  <2>2. Lowers(allowed[<<o, s>>], few, new, n) BY <1>7, <2>1, Zenon
  <2>3. A!Next BY <1>1, <1>8, <1>12, <2>2, DecreaseStep
  <2> QED BY <1>1, <1>2, <2>3 DEF Good
<1> QED BY <1>11, <1>12

(* delegate, undelegate, redelegate and cancelUnbondingDelegation          *)
LEMMA StakeUsed ==
  ASSUME Valid, NEW o \in Granters, NEW s \in Grantees, NEW n \in Amounts,
         NEW v \in Validators, NEW t \in S!StakeMsgs, S!Execute(o, s, t, v, n)
  PROVE  Good
<1>0. now \in Nat /\ n \in 0..MaxInt BY Constants DEF Valid, StoredGrantsAreValid
<1> DEFINE types == {t}
           few == ItemsOf(types)
           g == grants[<<o, s, t>>]
           all == S!Allowance(o, s, t)
           left == Minus(all, n)
           new == [i \in few |-> left]
           old == allowed[<<o, s>>]
<1>1. /\ n > 0 /\ S!HasStake(o, s, t) /\ n <= all
      /\ S!UpdateStakingAuthorization(o, s, t, v, n)
      /\ S!Emits("use", o, s, types, n)
  BY DEF S!Execute, S!CheckAuthzAndAllowanceForGranter
<1>2. /\ S!Live(o, s, t) = g /\ g.auth \in StakeAuths /\ g.auth.list # {} /\ all = g.auth.max
      /\ all \in StakeLimits /\ g.exp \in Nat /\ g.exp >= now
  BY <1>1, StakeFacts, Zenon DEF Usable
<1>3. now' = now /\ jailed' = jailed /\ Called("use", o, s, few, n) /\ EventIsTrue
  <2>1. types \in SUBSET S!StakeMsgs OBVIOUS
  <2> HIDE DEF types
  <2> QED BY <1>1, <2>1, StakeCalled
<1>4. left \in StakeLimits /\ left >= 0 /\ all \in 0..NoLimit
  <2> HIDE DEF all, g, types
  <2>1. all \in 0..MaxInt \/ all = NoLimit BY <1>2, Constants DEF StakeLimits
  <2>2. n <= all BY <1>1
  <2>3. left \in 0..MaxInt \/ left = NoLimit BY <1>0, <2>1, <2>2, Constants DEF Minus
  <2> QED BY <2>1, <2>3, Constants DEF StakeLimits
<1>5. S!KeysOf(o, s, types) = {<<o, s, t>>} BY DEF S!KeysOf
<1>6. Limited(o, s, types, left)
  <2>0. left = IF g.auth.max = S!NoLimit THEN S!NoLimit ELSE g.auth.max - n
    BY <1>2, Same, SMTT(30) DEF Minus
  <2> HIDE DEF left, all, types, g
  <2>1. CASE left = 0 /\ S!DeleteGrant(s, o, t)
    BY <1>5, <2>1, Same, SMTT(30) DEF S!DeleteGrant, S!DeleteGrants, Limited, Puts
  <2>2. CASE left > 0 /\ S!SaveGrant(s, o, t, S!StakeAuthorization(left, g.auth.list), g.exp)
    <3>1. Puts(S!KeysOf(o, s, types),
               [auth |-> S!StakeAuthorization(left, g.auth.list), exp |-> g.exp])
      BY <1>5, <2>2, Same DEF S!SaveGrant, S!SaveGrants, S!Grant, Puts
    <3>2. g.auth.list \in SUBSET Validators BY <1>2 DEF StakeAuths
    <3> QED BY <1>2, <1>4, <2>2, <3>1, <3>2, SMTT(30) DEF Limited
  <2> QED BY <1>1, <1>2, <2>0, <2>1, <2>2, Zenon DEF S!UpdateStakingAuthorization
<1>7. types \in SUBSET S!StakeMsgs OBVIOUS
<1>8. \A i \in few : i = S!StakeItem(t) /\ new[i] = left /\ i \notin TransferItems
  BY ItemKinds DEF ItemsOf, S!StakeItem
<1>9. \A u \in types : u = t /\ new[S!StakeItem(u)] = left BY DEF ItemsOf
<1>10. t \in types /\ S!StakeItem(t) \in few BY DEF ItemsOf
<1>11. old = allowed[<<o, s>>] OBVIOUS
<1> HIDE DEF types, left, new, old, all
<1>12. /\ Valid' /\ \A u \in types : S!Allowance(o, s, u)' = left
       /\ \A k \in Keys : k \notin S!KeysOf(o, s, types) => grants'[k] = grants[k]
  BY <1>3, <1>6, <1>7, LimitedResult, SMTT(30)
<1>13. /\ Becomes(o, s, few, new)
       /\ \A u \in types : old[S!StakeItem(u)] = S!Allowance(o, s, u)
  BY <1>3, <1>7, <1>9, <1>11, <1>12, StakeBecomes, SMTT(30)
<1>14. \A i \in few : old[i] = all BY <1>8, <1>10, <1>13, SMTT(30) DEF all
<1> HIDE DEF few
<1>15. Uses(old, few, new, n) BY <1>1, <1>8, <1>14, SMTT(30) DEF left, Uses
<1>16. Uses(allowed[<<o, s>>], few, new, n) BY <1>11, <1>15, Zenon
<1>17. A!Next BY <1>3, <1>13, <1>16, UseStep
<1> QED BY <1>3, <1>12, <1>17 DEF Good

(* Every call of the staking precompile.                                   *)
LEMMA StakingStep ==
  ASSUME Valid, NEW o \in Granters, NEW s \in Grantees, NEW n \in Amounts,
         \/ \E types \in SUBSET S!StakeMsgs :
              \/ S!Approve(o, s, types, n) \/ S!Revoke(o, s, types)
              \/ S!DecreaseAllowance(o, s, types, n) \/ S!IncreaseAllowance(o, s, types, n)
         \/ \E v \in Validators, t \in S!StakeMsgs : S!Execute(o, s, t, v, n)
  PROVE  Good
<1>1. n \in Int /\ -n \in Int BY Constants
<1>2. ASSUME NEW types \in SUBSET S!StakeMsgs,
             S!DecreaseAllowance(o, s, types, n) \/ S!IncreaseAllowance(o, s, types, n)
      PROVE  Good
  <2>1. CASE S!DecreaseAllowance(o, s, types, n)
    BY <1>1, <2>1, StakeChanged DEF S!DecreaseAllowance
  <2>2. CASE S!IncreaseAllowance(o, s, types, n)
    BY <1>1, <2>2, StakeChanged DEF S!IncreaseAllowance
  <2> QED BY <1>2, <2>1, <2>2
<1> QED BY <1>2, StakeApproved, StakeRevoked, StakeUsed

(* A validator is jailed or unjailed.                                      *)
LEMMA JailStep == ASSUME Valid, NEW vs \in SUBSET Validators, S!SetJailed(vs) PROVE Good
<1>1. /\ jailed' \subseteq Validators /\ grants' = grants /\ now' = now
      /\ op' = Call("block", NoGrant, NoGrant, {}, 0, NoValue)
  BY Same, SMTT(30) DEF S!SetJailed, S!Call, Call
<1>2. Valid' BY <1>1 DEF Valid, StoredGrantsAreValid, ValidFor
<1>3. now' \in Nat /\ now' >= now BY <1>1, Constants DEF Valid, StoredGrantsAreValid
<1> QED BY <1>1, <1>2, <1>3, LapseStep DEF Good
-----------------------------------------------------------------------------
(* Every step of the composed specification.                               *)
LEMMA NextGood == ASSUME Valid, Next PROVE Good
<1>1. CASE E!Erc20Next /\ UNCHANGED jailed BY <1>1, Erc20Step
<1>2. CASE I!Ics20Next /\ UNCHANGED jailed BY <1>2, Ics20Step
<1>3. CASE S!StakingNext
  <2>1. CASE \E vs \in SUBSET Validators : S!SetJailed(vs) BY <2>1, JailStep
  <2>2. ASSUME NEW o \in Granters, NEW s \in Grantees, NEW n \in Amounts,
               \E types \in SUBSET S!StakeMsgs :
                 \/ S!Approve(o, s, types, n) \/ S!Revoke(o, s, types)
                 \/ S!DecreaseAllowance(o, s, types, n) \/ S!IncreaseAllowance(o, s, types, n)
        PROVE  Good
    BY <2>2, StakingStep
  <2>3. ASSUME NEW o \in Granters, NEW s \in Grantees, NEW n \in Amounts, NEW v \in Validators,
               \/ S!Delegate(o, s, v, n) \/ S!Undelegate(o, s, v, n)
               \/ S!Redelegate(o, s, v, n) \/ S!CancelUnbondingDelegation(o, s, v, n)
        PROVE  Good
    <3>1. PICK t \in {S!DelegateMsg, S!UndelegateMsg, S!RedelegateMsg,
                      S!CancelUnbondingDelegationMsg} : S!Execute(o, s, t, v, n)
      BY <2>3 DEF S!Delegate, S!Undelegate, S!Redelegate, S!CancelUnbondingDelegation
    <3>2. t \in S!StakeMsgs BY <3>1 DEF S!Execute, S!StakeMsgs
    <3> QED BY <3>1, <3>2, StakingStep
  <2> QED BY <1>3, <2>1, <2>2, <2>3, Same DEF S!StakingNext
<1>4. CASE OwnTransaction /\ UNCHANGED jailed BY <1>4, OwnStep
<1>5. CASE Block /\ UNCHANGED jailed BY <1>5, BlockStep
<1> QED BY <1>1, <1>2, <1>3, <1>4, <1>5 DEF Next

(* No grants at first: nothing is allowed.                                 *)
LEMMA InitGood == ASSUME Init PROVE Valid /\ A!Init
<1>1. grants = [k \in Keys |-> NoGrant] /\ now = 0 /\ jailed = {} BY DEF Init, AuthzInit
<1>2. Valid BY <1>1, Constants DEF Valid, StoredGrantsAreValid
<1>3. ASSUME NEW g \in Granters, NEW h \in Grantees, NEW i \in Items PROVE Reported(g, h, i) = 0
  <2> DEFINE k == <<g, h, i[1]>>
  <2>1. i[1] \in MsgTypes
    BY ItemKinds, GrantAssumption DEF Items, GrantAssumption, E!SendMsgURL, I!TransferMsgURL
  <2>2. grants[k] = NoGrant BY <1>1, <2>1, KeyTypes
  <2>3. \A kind : ~Usable(grants[k], kind) BY <2>2, SMTT(30) DEF Usable
  <2>4. CASE i \in SendItems
    <3>1. i[1] = "MsgSend" BY <2>4, ItemKinds, SMTT(30)
    <3> QED BY <2>3, <2>4, <3>1, ReportedIs, SendAllowance
  <2>5. CASE i \in TransferItems
    <3>1. i[1] = "MsgTransfer" BY <2>5, ItemKinds, SMTT(30)
    <3> QED BY <2>3, <2>5, <3>1, ReportedIs, TransferAllowance
  <2>6. CASE i \in StakeItems BY <2>3, <2>6, ReportedIs, StakeAllowance
  <2> QED BY <2>4, <2>5, <2>6 DEF Items
<1>4. ASSUME NEW p \in Granters \X Grantees
      PROVE  [i \in Items |-> Reported(p[1], p[2], i)] = [i \in Items |-> 0]
  BY <1>3
<1>5. A!Init BY <1>4 DEF A!Init, A!Pairs, allowed
<1> QED BY <1>2, <1>5

(* Nothing is reported anew without a step.                                *)
LEMMA Stutter == ASSUME UNCHANGED vars PROVE UNCHANGED <<allowed, op>> /\ (Valid => Valid')
<1>1. grants' = grants /\ now' = now /\ op' = op /\ jailed' = jailed BY DEF vars
<1>2. \A g, h, i : Reported(g, h, i)' = Reported(g, h, i)
  BY <1>1 DEF Reported, E!Allowance, E!HasSend, E!Live, E!CheckAuthzExists, E!GetAuthorization,
     I!Allowance, I!HasTransfer, I!Live, I!CheckAuthzExists, I!GetAuthorization,
     S!Allowance, S!HasStake, S!Live, S!CheckAuthzExists, S!GetAuthorization
<1>3. allowed' = allowed BY <1>2 DEF allowed
<1>4. Valid => Valid' BY <1>1 DEF Valid, StoredGrantsAreValid, ValidFor
<1> QED BY <1>1, <1>3, <1>4

(* createAuthorization, updateAuthorization, Accept and the deletions      *)
(* store only valid authorizations, each for its own message type.         *)
THEOREM GrantsStayValid == Spec => []StoredGrantsAreValid
<1>1. Init => StoredGrantsAreValid BY InitGood DEF Valid
<1>2. StoredGrantsAreValid /\ [Next]_vars => StoredGrantsAreValid'
  BY NextGood, Stutter DEF Valid, Good
<1> QED BY <1>1, <1>2, PTL DEF Spec

(* Every method of the three precompiles is a step of Allowances: tokens,  *)
(* channels and staking messages have allowances of their own, which only  *)
(* the calls that name them change, by the amounts they name.              *)
THEOREM PrecompilesImplementAllowances == Spec => ImplementsAllowances
<1>1. Init => A!Init BY InitGood
<1>2. StoredGrantsAreValid /\ [Next]_vars => [A!Next]_<<allowed, op>>
  BY NextGood, Stutter DEF Valid, Good
<1> QED BY <1>1, <1>2, GrantsStayValid, PTL DEF Spec, ImplementsAllowances, A!Spec

(* EmitApprovalEvent: the event carries what the query then reports.       *)
THEOREM EventsAreTrue == Spec => ApprovalEventIsTrue
<1>1. StoredGrantsAreValid /\ [Next]_vars =>
        [op'.value # NoValue =>
           \A i \in op'.items : op'.value = allowed'[<<op'.granter, op'.grantee>>][i]]_vars
  BY NextGood DEF Valid, Good, EventIsTrue
<1> QED BY <1>1, GrantsStayValid, PTL DEF Spec, ApprovalEventIsTrue

=============================================================================
