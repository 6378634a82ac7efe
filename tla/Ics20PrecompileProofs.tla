----------------------- MODULE Ics20PrecompileProofs ------------------------
(***************************************************************************)
(* The calls of the ICS-20 precompile, the owner's own transactions and    *)
(* blocks are steps of Allowances.                                         *)
(***************************************************************************)
EXTENDS Erc20PrecompileProofs

TransferKey(o, s) == <<o, s, "MsgTransfer">>
Alloc(o, s) == I!Live(o, s).auth.alloc
LimitIn(a, c, d) == IF c \in DOMAIN a THEN a[c][d] ELSE 0

(* The grant of MsgTransfer has a key of the store.                        *)
LEMMA TransferKeyType ==
  ASSUME NEW o \in Granters, NEW s \in Grantees
  PROVE  TransferKey(o, s) \in Keys /\ TransferKey(o, s)[3] = "MsgTransfer"
BY KeyTypes, GrantAssumption DEF TransferKey, GrantAssumption, I!TransferMsgURL

(* Allocations are functions from some channels to limits.                 *)
LEMMA AllocTypes ==
  ASSUME NEW a
  PROVE  a \in I!Allocations <=> /\ DOMAIN a \in SUBSET Channels
                                 /\ a \in [DOMAIN a -> [Denoms -> Amounts]]
<1>1. ASSUME a \in I!Allocations
      PROVE  DOMAIN a \in SUBSET Channels /\ a \in [DOMAIN a -> [Denoms -> Amounts]]
  BY <1>1, Same DEF I!Allocations
<1>2. ASSUME DOMAIN a \in SUBSET Channels, a \in [DOMAIN a -> [Denoms -> Amounts]]
      PROVE  a \in I!Allocations
  BY <1>2, Same DEF I!Allocations
<1> QED BY <1>1, <1>2

(* What is known of a stored TransferAuthorization.                        *)
LEMMA TransferFacts ==
  ASSUME Valid, NEW o \in Granters, NEW s \in Grantees, I!HasTransfer(o, s)
  PROVE  /\ Alloc(o, s) \in I!Allocations /\ DOMAIN Alloc(o, s) # {}
         /\ I!Live(o, s).exp \in Nat /\ I!Live(o, s).exp >= now
         /\ grants[TransferKey(o, s)] # NoGrant
         /\ \A c, d : I!Allowance(o, s, c, d) = LimitIn(Alloc(o, s), c, d)
<1> DEFINE g == grants[TransferKey(o, s)]
<1>1. TransferKey(o, s) \in Keys /\ TransferKey(o, s)[3] = "MsgTransfer" BY TransferKeyType
<1>2. Usable(g, "transfer") /\ I!Live(o, s) = g
  BY DEF I!HasTransfer, I!Live, I!CheckAuthzExists, I!GetAuthorization, I!TransferMsgURL,
         Usable, TransferKey
<1>3. g.exp \in Nat /\ ValidFor("MsgTransfer", g.auth) BY <1>1, <1>2, ValidTypes DEF Usable
<1>4. g.auth \in TransferAuths /\ DOMAIN g.auth.alloc # {}
  BY <1>2, <1>3, ItemKinds DEF Usable, ValidFor, Generic, E!SendMsgURL, I!TransferMsgURL
<1>5. g.auth.alloc \in I!Allocations BY <1>4 DEF TransferAuths
<1>6. \A c, d : I!Allowance(o, s, c, d) = LimitIn(Alloc(o, s), c, d)
  BY DEF I!Allowance, LimitIn, Alloc
<1> QED BY <1>2, <1>3, <1>4, <1>5, <1>6 DEF Usable, Alloc

(* The grant is written with allocations a, or deleted or left alone.      *)
Stored(o, s, a) ==
  \/ DOMAIN a = {} /\ Puts({TransferKey(o, s)}, NoGrant)
  \/ /\ DOMAIN a # {}
     /\ \E exp \in Nat :
          /\ exp >= now
          /\ Puts({TransferKey(o, s)}, [auth |-> I!TransferAuthorization(a), exp |-> exp])
  \/ I!HasTransfer(o, s) /\ a = Alloc(o, s) /\ UNCHANGED grants

(* Once allocations are stored, the allowance of each channel and denom is *)
(* its limit there.                                                        *)
LEMMA StoredResult ==
  ASSUME Valid, NEW o \in Granters, NEW s \in Grantees, NEW a \in I!Allocations,
         Stored(o, s, a), now' = now, jailed' = jailed
  PROVE  /\ Valid'
         /\ \A c, d : I!Allowance(o, s, c, d)' = LimitIn(a, c, d)
<1> DEFINE key == TransferKey(o, s)
<1>1. key \in Keys /\ key[3] = "MsgTransfer" BY TransferKeyType
<1>2. CASE DOMAIN a = {} /\ Puts({key}, NoGrant)
  <2>1. Valid' BY <1>2, PutsValid DEF Valid, StoredGrantsAreValid
  <2>2. grants'[key] = NoGrant BY <1>1, <1>2 DEF Puts
  <2>3. \A c, d : I!Allowance(o, s, c, d)' = 0 BY <2>2, TransferAllowance DEF Usable, TransferKey
  <2> QED BY <1>2, <2>1, <2>3 DEF LimitIn
<1>3. ASSUME NEW exp \in Nat, exp >= now, DOMAIN a # {},
             Puts({key}, [auth |-> I!TransferAuthorization(a), exp |-> exp])
      PROVE  Valid' /\ \A c, d : I!Allowance(o, s, c, d)' = LimitIn(a, c, d)
  <2> DEFINE g == [auth |-> I!TransferAuthorization(a), exp |-> exp]
  <2>1. g.auth \in TransferAuths /\ g.auth.alloc = a /\ g.auth.kind = "transfer" /\ g.exp = exp
    BY DEF I!TransferAuthorization, TransferAuths
  <2>2. g \in Grants BY <2>1 DEF Grants
  <2>3. \A k \in {key} : ValidFor(k[3], g.auth)
    BY <1>1, <1>3, <2>1 DEF ValidFor, I!TransferMsgURL
  <2>4. Valid' BY <1>3, <2>2, <2>3, PutsValid DEF Valid, StoredGrantsAreValid
  <2>5. grants'[key] = g BY <1>1, <1>3 DEF Puts
  <2>6. g # NoGrant BY <2>2, GrantAssumption DEF GrantAssumption
  <2>7. Usable(grants[key], "transfer")' BY <1>3, <2>1, <2>5, <2>6 DEF Usable
  <2> QED BY <2>1, <2>4, <2>5, <2>7, TransferAllowance DEF TransferKey, LimitIn
<1>4. CASE I!HasTransfer(o, s) /\ a = Alloc(o, s) /\ UNCHANGED grants
  <2>1. Valid' BY <1>4 DEF Valid, StoredGrantsAreValid, ValidFor
  <2>2. \A c, d : I!Allowance(o, s, c, d)' = I!Allowance(o, s, c, d)
    BY <1>4 DEF I!Allowance, I!HasTransfer, I!Live, I!CheckAuthzExists, I!GetAuthorization
  <2> QED BY <1>4, <2>1, <2>2, TransferFacts
<1> QED BY <1>2, <1>3, <1>4, Zenon DEF Stored

(* The items of the grant take the amounts that the allocations give.      *)
LEMMA StoredBecomes ==
  ASSUME Valid, NEW o \in Granters, NEW s \in Grantees, NEW a \in I!Allocations,
         Stored(o, s, a), now' = now, jailed' = jailed, NEW few \in SUBSET TransferItems,
         \A i \in TransferItems \ few : LimitIn(a, i[2], i[3]) = I!Allowance(o, s, i[2], i[3])
  PROVE  Becomes(o, s, few, [i \in Items |-> LimitIn(a, i[2], i[3])])
<1> DEFINE types == {"MsgTransfer"}
<1>1. \A c, d : I!Allowance(o, s, c, d)' = LimitIn(a, c, d) BY StoredResult
<1>2. \A k \in Keys : ~(k[1] = o /\ k[2] = s /\ k[3] \in types) => grants'[k] = grants[k]
  BY DEF Stored, Puts, TransferKey, Keys
<1>3. \A i \in Items : i[1] \in types => i \in TransferItems BY ItemKinds DEF Items
<1>4. few \in SUBSET Items BY DEF Items
<1>5. \A i \in TransferItems : /\ Reported(o, s, i)' = LimitIn(a, i[2], i[3])
                               /\ Reported(o, s, i) = I!Allowance(o, s, i[2], i[3])
  BY <1>1, ReportedIs
<1> HIDE DEF types
<1>6. \A i \in Items \ few : i[1] \in types => Reported(o, s, i)' = Reported(o, s, i)
  BY <1>3, <1>5
<1>7. allowed' = [allowed EXCEPT ![<<o, s>>] =
                    [i \in Items |-> IF i \in few THEN Reported(o, s, i)'
                                     ELSE allowed[<<o, s>>][i]]]
  BY <1>2, <1>4, <1>6, Narrow, SMTT(30)
<1>8. [i \in Items |-> IF i \in few THEN Reported(o, s, i)' ELSE allowed[<<o, s>>][i]] =
      [i \in Items |-> IF i \in few THEN [j \in Items |-> LimitIn(a, j[2], j[3])][i]
                       ELSE allowed[<<o, s>>][i]]
  BY <1>5
<1> QED BY <1>7, <1>8, Zenon DEF Becomes

(* A call that sets the limit of one denom on one channel.                 *)
LEMMA TransferStep ==
  ASSUME Valid, NEW o \in Granters, NEW s \in Grantees, NEW c \in Channels, NEW d \in Denoms,
         NEW x \in Amounts, NEW a \in I!Allocations, Stored(o, s, a), jailed' = jailed,
         LimitIn(a, c, d) = x, I!Allowance(o, s, c, d) \in Amounts,
         \A e \in Channels, f \in Denoms :
           ~(e = c /\ f = d) => LimitIn(a, e, f) = I!Allowance(o, s, e, f),
         NEW method, NEW n \in Amounts, I!Emits(method, o, s, {I!TransferItem(c, d)}, n),
         \/ method = "increase" /\ x = I!Allowance(o, s, c, d) + n
         \/ method = "decrease" /\ x = I!Allowance(o, s, c, d) - n
         \/ /\ method = "use" /\ 0 < n /\ n <= I!Allowance(o, s, c, d)
            /\ x = IF I!Allowance(o, s, c, d) = MaxInt THEN MaxInt
                   ELSE I!Allowance(o, s, c, d) - n
  PROVE  Good
<1> DEFINE item == I!TransferItem(c, d)
           few == {item}
           old == allowed[<<o, s>>]
           new == [i \in Items |-> LimitIn(a, i[2], i[3])]
<1>1. now' = now /\ op' = [method |-> method, granter |-> o, grantee |-> s,
                          items |-> few, n |-> n, value |-> NoValue]
  BY Same DEF I!Emits, I!Call
<1>2. item \in TransferItems /\ item \in Items /\ item[2] = c /\ item[3] = d
  BY DEF Items, TransferItems, I!TransferItem
<1>3. \A i \in TransferItems \ few : LimitIn(a, i[2], i[3]) = I!Allowance(o, s, i[2], i[3])
  BY ItemKinds
<1>4. Becomes(o, s, few, new) BY <1>1, <1>2, <1>3, StoredBecomes
<1>5. Valid' BY <1>1, StoredResult
<1>6. EventIsTrue BY <1>1 DEF EventIsTrue
<1>7. old[item] = I!Allowance(o, s, c, d) BY <1>2, ReportedIs DEF allowed
<1>8. \A i \in few : i = item /\ new[i] = x BY <1>2
<1>9. old[item] \in 0..MaxInt /\ x \in 0..MaxInt /\ n \in 0..MaxInt BY <1>7, Constants
<1>10. Called(method, o, s, few, n) BY <1>1 DEF Called
<1>11. few \subseteq TransferItems BY <1>2
<1>12. old = allowed[<<o, s>>] BY SMTT(30)
<1> HIDE DEF item, few, old, new
<1>13. CASE method = "increase" /\ x = old[item] + n
  <2>1. Raises(old, few, new, n) BY <1>8, <1>9, <1>13, Constants, SMTT(30) DEF Plus, Raises
  <2>2. Raises(allowed[<<o, s>>], few, new, n) BY <1>12, <2>1, Zenon
  <2>3. A!Next BY <1>4, <1>10, <1>13, <2>2, IncreaseStep
  <2> QED BY <1>5, <1>6, <2>3 DEF Good
<1>14. CASE method = "decrease" /\ x = old[item] - n
  <2>1. Lowers(old, few, new, n) BY <1>8, <1>9, <1>14, Constants, SMTT(30) DEF Minus, Lowers
  <2>2. Lowers(allowed[<<o, s>>], few, new, n) BY <1>12, <2>1, Zenon
  <2>3. A!Next BY <1>4, <1>10, <1>14, <2>2, DecreaseStep
  <2> QED BY <1>5, <1>6, <2>3 DEF Good
<1>15. CASE /\ method = "use" /\ 0 < n /\ n <= old[item]
            /\ x = IF old[item] = MaxInt THEN MaxInt ELSE old[item] - n
  <2>1. Uses(old, few, new, n) BY <1>8, <1>9, <1>11, <1>15, Constants, SMTT(30) DEF Minus, Uses
  <2>2. Uses(allowed[<<o, s>>], few, new, n) BY <1>12, <2>1, Zenon
  <2>3. A!Next BY <1>4, <1>10, <1>15, <2>2, UseStep
  <2> QED BY <1>5, <1>6, <2>3 DEF Good
<1> QED BY <1>7, <1>13, <1>14, <1>15

(* A call that replaces all allocations is Replace of Allowances.          *)
LEMMA ReplaceStep ==
  ASSUME NEW o \in Granters, NEW s \in Grantees, NEW new,
         Called("replace", o, s, {}, 0), Becomes(o, s, TransferItems, new)
  PROVE  A!Next
<1> DEFINE old == allowed[<<o, s>>]
           result == [i \in Items |-> IF i \in TransferItems THEN new[i] ELSE old[i]]
<1>1. allowed' = [allowed EXCEPT ![<<o, s>>] = result] BY DEF Becomes
<1>2. <<o, s>> \in DOMAIN allowed BY DEF allowed
<1>3. allowed'[<<o, s>>] = result BY <1>1, <1>2
<1>4. result = [i \in Items |-> IF i \in TransferItems THEN result[i] ELSE old[i]] OBVIOUS
<1> HIDE DEF result
<1>5. A!Replace(op') BY <1>1, <1>3, <1>4, Zenon DEF A!Replace, Called
<1> QED BY <1>5 DEF A!Next

(* Allocations with one limit changed, and without one channel.            *)
WithLimit(al, c, d, x) == [al EXCEPT ![c][d] = x]

(* A new limit for one denom of a channel leaves the other limits as they  *)
(* are.                                                                    *)
LEMMA SetLimit ==
  ASSUME NEW al \in I!Allocations, NEW c \in DOMAIN al, NEW d \in Denoms, NEW x \in Amounts
  PROVE  LET a == WithLimit(al, c, d, x)
         IN /\ a \in I!Allocations /\ DOMAIN a = DOMAIN al
            /\ LimitIn(a, c, d) = x
            /\ \A e \in Channels, f \in Denoms :
                 ~(e = c /\ f = d) => LimitIn(a, e, f) = LimitIn(al, e, f)
<1> DEFINE a == WithLimit(al, c, d, x)
<1>1. DOMAIN al \in SUBSET Channels /\ al \in [DOMAIN al -> [Denoms -> Amounts]] BY AllocTypes
<1>2. DOMAIN a = DOMAIN al BY <1>1 DEF WithLimit
<1>3. a \in [DOMAIN al -> [Denoms -> Amounts]] BY <1>1 DEF WithLimit
<1>4. a \in I!Allocations BY <1>1, <1>2, <1>3, AllocTypes
<1>5. LimitIn(a, c, d) = x BY <1>1, <1>2 DEF LimitIn, WithLimit
<1>6. \A e \in Channels, f \in Denoms : ~(e = c /\ f = d) => LimitIn(a, e, f) = LimitIn(al, e, f)
  BY <1>1, <1>2 DEF LimitIn, WithLimit
<1> QED BY <1>2, <1>4, <1>5, <1>6

(* A channel is removed when it has no other limit: the others keep        *)
(* theirs.                                                                 *)
LEMMA RemoveChannel ==
  ASSUME NEW al \in I!Allocations, NEW c \in DOMAIN al, NEW d \in Denoms,
         \A f \in Denoms : f # d => al[c][f] = 0,
         NEW a, a = [x \in DOMAIN al \ {c} |-> al[x]]
  PROVE  /\ a \in I!Allocations
         /\ LimitIn(a, c, d) = 0
         /\ \A e \in Channels, f \in Denoms : ~(e = c /\ f = d) => LimitIn(a, e, f) = LimitIn(al, e, f)
<1>1. DOMAIN al \in SUBSET Channels /\ al \in [DOMAIN al -> [Denoms -> Amounts]] BY AllocTypes
<1>2. DOMAIN a = DOMAIN al \ {c} OBVIOUS
<1>3. a \in [DOMAIN a -> [Denoms -> Amounts]] BY <1>1, <1>2
<1>4. a \in I!Allocations BY <1>1, <1>2, <1>3, AllocTypes
<1>5. \A e \in Channels, f \in Denoms : ~(e = c /\ f = d) => LimitIn(a, e, f) = LimitIn(al, e, f)
  BY <1>2 DEF LimitIn
<1> QED BY <1>2, <1>4, <1>5 DEF LimitIn

(* Every call of the ICS-20 precompile.                                    *)
LEMMA Ics20Step == ASSUME Valid, I!Ics20Next, jailed' = jailed PROVE Good
<1>1. PICK o \in Granters, s \in Grantees :
        \/ \E alloc \in I!Allocations : I!Approve(o, s, alloc)
        \/ I!Revoke(o, s)
        \/ \E c \in Channels, d \in Denoms, n \in Amounts :
             \/ I!IncreaseAllowance(o, s, c, d, n)
             \/ I!DecreaseAllowance(o, s, c, d, n)
             \/ I!Transfer(o, s, c, d, n)
  BY Same DEF I!Ics20Next
<1>2. now \in Nat BY Constants DEF Valid, StoredGrantsAreValid
<1>3. TransferItems \in SUBSET TransferItems OBVIOUS
<1>4. ASSUME NEW a \in I!Allocations, I!Approve(o, s, a) PROVE Good
  <2> DEFINE exp == now + ApprovalExpiration
             new == [i \in Items |-> LimitIn(a, i[2], i[3])]
  <2>1. exp \in Nat /\ exp >= now BY <1>2, Constants
  <2>2. DOMAIN a # {} /\ Puts({TransferKey(o, s)},
                              [auth |-> I!TransferAuthorization(a), exp |-> exp])
    BY <1>4, Same DEF I!Approve, I!SaveGrant, I!SaveGrants, I!Grant, I!Approval, Puts,
       TransferKey, I!TransferMsgURL
  <2>3. Stored(o, s, a) BY <2>1, <2>2, Zenon DEF Stored
  <2>4. now' = now /\ op' = [method |-> "replace", granter |-> o, grantee |-> s,
                            items |-> {}, n |-> 0, value |-> NoValue]
    BY <1>4, Same DEF I!Approve, I!Emits, I!Call
  <2>5. Valid' BY <2>3, <2>4, StoredResult
  <2>6. Becomes(o, s, TransferItems, new) BY <2>3, <2>4, StoredBecomes
  <2>7. Called("replace", o, s, {}, 0) BY <2>4 DEF Called
  <2>8. EventIsTrue BY <2>4 DEF EventIsTrue
  <2> HIDE DEF new
  <2> QED BY <2>5, <2>6, <2>7, <2>8, ReplaceStep DEF Good
<1>5. CASE I!Revoke(o, s)
  <2> DEFINE a == [c \in {} |-> E!NoCoins]
             new == [i \in Items |-> LimitIn(a, i[2], i[3])]
  <2>1. a \in I!Allocations /\ DOMAIN a = {} BY AllocTypes, Zenon
  <2>2. Puts({TransferKey(o, s)}, NoGrant)
    BY <1>5, Same DEF I!Revoke, I!DeleteGrant, I!DeleteGrants, Puts, TransferKey, I!TransferMsgURL
  <2>3. Stored(o, s, a) BY <2>1, <2>2 DEF Stored
  <2>4. now' = now /\ op' = [method |-> "revoke", granter |-> o, grantee |-> s,
                            items |-> TransferItems, n |-> 0, value |-> NoValue]
    BY <1>5, Same DEF I!Revoke, I!Emits, I!Call, TransferItems
  <2>5. Valid' BY <2>1, <2>3, <2>4, StoredResult, SMTT(30)
  <2>6. Becomes(o, s, TransferItems, new) BY <2>1, <2>3, <2>4, StoredBecomes
  <2>7. Called("revoke", o, s, TransferItems, 0) BY <2>4 DEF Called
  <2>8. EventIsTrue BY <2>4 DEF EventIsTrue
  <2>9. \A i \in TransferItems : new[i] = 0 BY <2>1 DEF LimitIn, Items
  <2> HIDE DEF new
  <2> QED BY <2>5, <2>6, <2>7, <2>8, <2>9, RevokeStep DEF Good
<1>6. ASSUME NEW c \in Channels, NEW d \in Denoms, NEW n \in Amounts,
             \/ I!IncreaseAllowance(o, s, c, d, n) \/ I!DecreaseAllowance(o, s, c, d, n)
             \/ I!Transfer(o, s, c, d, n)
      PROVE  Good
  <2> DEFINE al == Alloc(o, s)
             all == I!Allowance(o, s, c, d)
             exp == I!Live(o, s).exp
  <2>1. I!HasTransfer(o, s) /\ (all > 0 \/ (n > 0 /\ all >= n))
    BY <1>6 DEF I!IncreaseAllowance, I!DecreaseAllowance, I!Transfer, I!checkAllocationExists
  <2>2. /\ al \in I!Allocations /\ exp \in Nat /\ exp >= now
        /\ \A e, f : I!Allowance(o, s, e, f) = LimitIn(al, e, f)
    BY <2>1, TransferFacts
  <2>3. c \in DOMAIN al /\ all = al[c][d] /\ n \in 0..MaxInt
    BY <2>1, <2>2, Constants DEF LimitIn
  <2>4. al \in [DOMAIN al -> [Denoms -> Amounts]] BY <2>2, AllocTypes
  <2>5. all \in 0..MaxInt /\ all \in Amounts BY <2>3, <2>4, Constants, SMTT(30)
  <2> HIDE DEF al, all, exp
  <2>6. ASSUME NEW x \in Amounts, I!SaveLimit(o, s, c, d, x), NEW method,
               I!Emits(method, o, s, {I!TransferItem(c, d)}, n),
               \/ method = "increase" /\ x = all + n
               \/ method = "decrease" /\ x = all - n
        PROVE  Good
    <3> DEFINE a == WithLimit(al, c, d, x)
    <3>1. /\ a \in I!Allocations /\ DOMAIN a = DOMAIN al /\ LimitIn(a, c, d) = x
          /\ \A e \in Channels, f \in Denoms : ~(e = c /\ f = d) => LimitIn(a, e, f) = LimitIn(al, e, f)
      BY <2>2, <2>3, SetLimit, SMTT(30)
    <3>2. Puts({TransferKey(o, s)}, [auth |-> I!TransferAuthorization(a), exp |-> exp])
      BY <2>6, Same DEF I!SaveLimit, I!SaveGrant, I!SaveGrants, I!Grant, Puts, TransferKey,
         I!TransferMsgURL, al, Alloc, exp, WithLimit
    <3> HIDE DEF a
    <3>3. Stored(o, s, a) BY <2>2, <2>3, <3>1, <3>2, Zenon DEF Stored
    <3>4. \A e \in Channels, f \in Denoms :
            ~(e = c /\ f = d) => LimitIn(a, e, f) = I!Allowance(o, s, e, f)
      BY <2>2, <3>1
    <3> QED BY <2>5, <2>6, <3>1, <3>3, <3>4, TransferStep, SMTT(30) DEF all
  <2>7. CASE I!IncreaseAllowance(o, s, c, d, n)
    <3>1. /\ all + n <= MaxInt /\ I!SaveLimit(o, s, c, d, all + n)
          /\ I!Emits("increase", o, s, {I!TransferItem(c, d)}, n)
      BY <2>7 DEF I!IncreaseAllowance, all
    <3>2. all + n \in Amounts BY <2>3, <2>5, <3>1, Constants
    <3> QED BY <2>6, <3>1, <3>2
  <2>8. CASE I!DecreaseAllowance(o, s, c, d, n)
    <3>1. /\ all - n >= 0 /\ I!SaveLimit(o, s, c, d, all - n)
          /\ I!Emits("decrease", o, s, {I!TransferItem(c, d)}, n)
      BY <2>8 DEF I!DecreaseAllowance, all
    <3>2. all - n \in Amounts BY <2>3, <2>5, <3>1, Constants, SMTT(30)
    <3> QED BY <2>6, <3>1, <3>2
  <2>9. CASE I!Transfer(o, s, c, d, n)
    <3> DEFINE a == I!Accept(al, c, d, n)
               x == IF all = MaxInt THEN MaxInt ELSE all - n
    <3>1. /\ 0 < n /\ n <= all /\ I!UpdateGrant(o, s, a)
          /\ I!Emits("use", o, s, {I!TransferItem(c, d)}, n)
      BY <2>9 DEF I!Transfer, all, al, Alloc
    <3>2. x \in Amounts BY <2>3, <2>5, <3>1, Constants, SMTT(30)
    <3>3. /\ a \in I!Allocations /\ LimitIn(a, c, d) = x
          /\ \A e \in Channels, f \in Denoms : ~(e = c /\ f = d) => LimitIn(a, e, f) = LimitIn(al, e, f)
      <4> DEFINE left == [al[c] EXCEPT ![d] = @ - n]
      <4>1. CASE all = MaxInt
        <5>1. a = al BY <2>3, <4>1 DEF I!Accept
        <5> QED BY <2>2, <2>3, <4>1, <5>1, Zenon DEF LimitIn
      <4>2. CASE all # MaxInt /\ left = I!NoCoins
        <5>1. a = [y \in DOMAIN al \ {c} |-> al[y]] BY <2>3, <4>2 DEF I!Accept
        <5>2. \A f \in Denoms : left[f] = 0 BY <4>2 DEF I!NoCoins
        <5>3. \A f \in Denoms : f # d => al[c][f] = 0 BY <2>3, <2>4, <5>2
        <5>4. all - n = 0 BY <2>3, <2>4, <5>2
        <5> HIDE DEF a
        <5> QED BY <2>2, <2>3, <4>2, <5>1, <5>3, <5>4, RemoveChannel
      <4>3. CASE all # MaxInt /\ left # I!NoCoins
        <5>1. a = [al EXCEPT ![c] = left] BY <2>3, <4>3 DEF I!Accept
        <5>2. left = [al[c] EXCEPT ![d] = x] BY <2>3, <2>4, <4>3
        <5>3. a = WithLimit(al, c, d, x) BY <2>3, <2>4, <5>1, <5>2, Zenon DEF WithLimit
        <5> HIDE DEF a, x
        <5> QED BY <2>2, <2>3, <3>2, <5>3, SetLimit
      <4> QED BY <4>1, <4>2, <4>3
    <3> HIDE DEF a
    <3>4. Stored(o, s, a)
      <4>1. CASE DOMAIN a = {} /\ I!DeleteGrant(s, o, I!TransferMsgURL)
        BY <4>1, Same DEF I!DeleteGrant, I!DeleteGrants, Puts, TransferKey, I!TransferMsgURL, Stored
      <4>2. CASE a = al /\ UNCHANGED grants BY <2>1, <4>2 DEF Stored, al
      <4>3. CASE DOMAIN a # {} /\ I!SaveGrant(s, o, I!TransferMsgURL, I!TransferAuthorization(a), exp)
        <5>1. Puts({TransferKey(o, s)}, [auth |-> I!TransferAuthorization(a), exp |-> exp])
          BY <4>3, Same DEF I!SaveGrant, I!SaveGrants, I!Grant, Puts, TransferKey, I!TransferMsgURL
        <5> QED BY <2>2, <4>3, <5>1, Zenon DEF Stored
      <4> QED BY <3>1, <4>1, <4>2, <4>3, SMTT(30) DEF I!UpdateGrant, al, Alloc, exp
    <3>5. \A e \in Channels, f \in Denoms :
            ~(e = c /\ f = d) => LimitIn(a, e, f) = I!Allowance(o, s, e, f)
      BY <2>2, <3>3, SMTT(30)
    <3> QED BY <2>5, <3>1, <3>2, <3>3, <3>4, <3>5, TransferStep DEF all
  <2> QED BY <1>6, <2>7, <2>8, <2>9
<1> QED BY <1>1, <1>4, <1>5, <1>6

-----------------------------------------------------------------------------
(* Time and the owner's own transactions *)

(* Grants disappear and time passes, nothing else: allowances lapse.       *)
LEMMA LapseStep ==
  ASSUME Valid, op' = Call("block", NoGrant, NoGrant, {}, 0, NoValue),
         now' \in Nat, now' >= now,
         \A k \in Keys : grants'[k] \in {NoGrant, grants[k]}
  PROVE  A!Next /\ EventIsTrue
<1>1. op'.method = "block" /\ op'.value = NoValue BY DEF Call
<1>2. ASSUME NEW g \in Granters, NEW h \in Grantees, NEW i \in Items
      PROVE  Reported(g, h, i)' \in {0, Reported(g, h, i)}
  <2> DEFINE k == <<g, h, i[1]>>
  <2>1. i[1] \in MsgTypes
    BY ItemKinds, GrantAssumption, SMTT(30) DEF Items, GrantAssumption, E!SendMsgURL, I!TransferMsgURL
  <2>2. k \in Keys BY <2>1, KeyTypes
  <2>3. \A kind : Usable(grants[k], kind)' => Usable(grants[k], kind) /\ grants'[k] = grants[k]
    <3> SUFFICES ASSUME NEW kind, Usable(grants[k], kind)'
                 PROVE  Usable(grants[k], kind) /\ grants'[k] = grants[k]
      OBVIOUS
    <3>1. grants'[k] = grants[k] /\ grants[k] # NoGrant BY <2>2 DEF Usable
    <3>2. grants[k].exp \in Nat /\ now \in Nat BY <2>2, <3>1, ValidTypes, SMTT(30)
    <3> QED BY <3>1, <3>2, SMTT(30) DEF Usable
  <2>4. CASE i \in SendItems
    <3>1. i[1] = "MsgSend" BY <2>4, ItemKinds, SMTT(30)
    <3>2. E!Allowance(g, h, i[2])' \in {0, E!Allowance(g, h, i[2])}
      BY <2>3, <3>1, SendAllowance, SMTT(30)
    <3> QED BY <2>4, <3>2, ReportedIs, SMTT(30)
  <2>5. CASE i \in TransferItems
    <3>1. i[1] = "MsgTransfer" BY <2>5, ItemKinds, SMTT(30)
    <3>2. I!Allowance(g, h, i[2], i[3])' \in {0, I!Allowance(g, h, i[2], i[3])}
      BY <2>3, <3>1, TransferAllowance, SMTT(30)
    <3> QED BY <2>5, <3>2, ReportedIs, SMTT(30)
  <2>6. CASE i \in StakeItems BY <2>3, <2>6, ReportedIs, StakeAllowance, SMTT(30)
  <2> QED BY <2>4, <2>5, <2>6 DEF Items
<1>3. ASSUME NEW p \in Granters \X Grantees, NEW i \in Items
      PROVE  allowed'[p][i] \in {0, allowed[p][i]}
  <2>1. p[1] \in Granters /\ p[2] \in Grantees OBVIOUS
  <2>2. allowed'[p][i] = Reported(p[1], p[2], i)' /\ allowed[p][i] = Reported(p[1], p[2], i)
    BY DEF allowed
  <2> QED BY <1>2, <2>1, <2>2
<1>4. A!Lapse(op') BY <1>1, <1>3 DEF A!Lapse, A!Pairs
<1> QED BY <1>1, <1>4 DEF A!Next, EventIsTrue

(* MsgGrant and MsgRevoke of the owner.                                    *)
LEMMA OwnStep == ASSUME Valid, OwnTransaction, jailed' = jailed PROVE Good
<1>1. PICK o \in Granters, s \in Grantees, t \in MsgTypes :
        MsgGrant(o, s, t) \/ MsgRevoke(o, s, t)
  BY DEF OwnTransaction
<1> DEFINE exp == now + ApprovalExpiration
           g == [auth |-> Generic, exp |-> exp]
           key == <<o, s, t>>
           types == {t}
           few == Items
<1>2. now' = now /\ op' = Call("grant", o, s, {}, 0, NoValue)
  BY <1>1 DEF MsgGrant, MsgRevoke
<1>3. op'.method = "grant" /\ op'.granter = o /\ op'.grantee = s /\ op'.value = NoValue
  BY <1>2 DEF Call
<1>4. exp \in Nat BY Constants DEF Valid, StoredGrantsAreValid
<1>5. Puts({key}, g) \/ Puts({key}, NoGrant)
  BY <1>1 DEF MsgGrant, MsgRevoke, SaveGrant, SaveGrants, DeleteGrant, DeleteGrants, Grant,
       Approval, Puts
<1>6. Valid'
  <2>1. g \in Grants /\ \A k \in {key} : ValidFor(k[3], g.auth) BY <1>4 DEF Grants, ValidFor
  <2> HIDE DEF g
  <2>2. jailed' \subseteq Validators BY DEF Valid, StoredGrantsAreValid
  <2>3. CASE Puts({key}, g) BY <1>2, <2>1, <2>2, <2>3, PutsValid
  <2>4. CASE Puts({key}, NoGrant) BY <1>2, <2>2, <2>4, PutsValid, SMTT(30)
  <2> QED BY <1>5, <2>3, <2>4
<1>7. \A k \in Keys : ~(k[1] = o /\ k[2] = s /\ k[3] \in types) => grants'[k] = grants[k]
  BY <1>5 DEF Puts, Keys
<1>8. \A i \in Items \ few : i[1] \in types => Reported(o, s, i)' = Reported(o, s, i) BY SMTT(30)
<1> HIDE DEF types
<1>9. allowed' = [allowed EXCEPT ![<<o, s>>] =
                    [i \in Items |-> IF i \in few THEN Reported(o, s, i)'
                                     ELSE allowed[<<o, s>>][i]]]
  BY <1>2, <1>7, <1>8, Narrow
<1>10. A!Next
  <2> DEFINE result == [i \in Items |-> Reported(o, s, i)']
  <2>1. allowed' = [allowed EXCEPT ![<<o, s>>] = result] BY <1>9, Zenon
  <2>2. <<o, s>> \in DOMAIN allowed BY DEF allowed
  <2>3. result = [i \in Items |-> IF i \in Items THEN result[i] ELSE allowed[<<o, s>>][i]]
    OBVIOUS
  <2> HIDE DEF result
  <2>4. allowed'[<<o, s>>] = result BY <2>1, <2>2
  <2>5. A!Replace(op') BY <1>3, <2>1, <2>3, <2>4, Zenon DEF A!Replace
  <2> QED BY <2>5 DEF A!Next
<1> QED BY <1>3, <1>6, <1>10 DEF Good, EventIsTrue

(* A block moves time on and prunes grants that have expired.              *)
LEMMA BlockStep == ASSUME Valid, Block, jailed' = jailed PROVE Good
<1>1. PICK pruned \in SUBSET Due : NextBlock(pruned) BY DEF Block
<1>2. /\ now' \in 0..MaxTime /\ now' \in Nat /\ now' >= now
      /\ op' = Call("block", NoGrant, NoGrant, {}, 0, NoValue)
  BY <1>1, Constants DEF NextBlock, Valid, StoredGrantsAreValid
<1>3. \A k \in Keys : grants'[k] \in {NoGrant, grants[k]} BY <1>1 DEF NextBlock
<1>4. Valid'
  <2>1. grants' \in [Keys -> Grants \cup {NoGrant}]
    BY <1>1 DEF NextBlock, Valid, StoredGrantsAreValid
  <2>2. \A k \in Keys : grants'[k] # NoGrant => ValidFor(k[3], grants'[k].auth)
    BY <1>3 DEF Valid, StoredGrantsAreValid
  <2>3. \A t, a : ValidFor(t, a)' <=> ValidFor(t, a) BY DEF ValidFor
  <2> QED BY <1>2, <2>1, <2>2, <2>3, SMTT(30) DEF Valid, StoredGrantsAreValid
<1> QED BY <1>2, <1>3, <1>4, LapseStep DEF Good

=============================================================================
