----------------------- MODULE Erc20PrecompileProofs ------------------------
(***************************************************************************)
(* What the grants mean for the allowances that the queries report, and    *)
(* the calls of the ERC-20 precompile: each is a step of Allowances.       *)
(***************************************************************************)
EXTENDS Precompiles, TLAPS

Valid == StoredGrantsAreValid

(* A grant that has not expired and is of the kind a precompile uses.      *)
Usable(g, kind) == g # NoGrant /\ g.exp >= now /\ g.auth.kind = kind

(* What AuthzAssumption says of the numeric constants.                     *)
LEMMA Constants ==
  /\ MaxInt \in Nat /\ MaxInt > 0 /\ ApprovalExpiration \in Nat /\ ApprovalExpiration > 0
  /\ MaxTime \in Nat /\ NoLimit \in Nat /\ NoLimit > MaxInt
  /\ Amounts = 0..MaxInt
BY AuthzAssumption DEF AuthzAssumption, NoLimit, Amounts

(* A granter, a grantee and a message type make a key of the grant store.  *)
LEMMA KeyTypes ==
  ASSUME NEW o \in Granters, NEW s \in Grantees, NEW t \in MsgTypes
  PROVE  <<o, s, t>> \in Keys
BY DEF Keys

(* The names that the three precompiles share.                             *)
LEMMA Same ==
  /\ E!NoLimit = NoLimit /\ I!NoLimit = NoLimit /\ S!NoLimit = NoLimit
  /\ E!Amounts = Amounts /\ I!Amounts = Amounts /\ S!Amounts = Amounts
  /\ E!Keys = Keys /\ I!Keys = Keys /\ S!Keys = Keys
  /\ E!NoValue = NoValue /\ I!NoValue = NoValue /\ S!NoValue = NoValue
BY DEF E!NoLimit, I!NoLimit, S!NoLimit, NoLimit, E!Amounts, I!Amounts, S!Amounts, Amounts,
       E!Keys, I!Keys, S!Keys, Keys, E!NoValue, I!NoValue, S!NoValue, NoValue

(* What the queries read.                                                  *)
LEMMA SendAllowance ==
  ASSUME NEW o, NEW s, NEW d
  PROVE  /\ E!Allowance(o, s, d) = IF Usable(grants[<<o, s, "MsgSend">>], "send")
                                   THEN grants[<<o, s, "MsgSend">>].auth.limit[d] ELSE 0
         /\ E!Allowance(o, s, d)' = IF Usable(grants[<<o, s, "MsgSend">>], "send")'
                                    THEN grants'[<<o, s, "MsgSend">>].auth.limit[d] ELSE 0
BY DEF E!Allowance, E!HasSend, E!Live, E!CheckAuthzExists, E!GetAuthorization, E!SendMsgURL,
       Usable

(* The ICS-20 allowance is read from the usable grant's allocation for the *)
(* channel.                                                                *)
LEMMA TransferAllowance ==
  ASSUME NEW o, NEW s, NEW c, NEW d
  PROVE  /\ I!Allowance(o, s, c, d) =
              IF /\ Usable(grants[<<o, s, "MsgTransfer">>], "transfer")
                 /\ c \in DOMAIN grants[<<o, s, "MsgTransfer">>].auth.alloc
              THEN grants[<<o, s, "MsgTransfer">>].auth.alloc[c][d] ELSE 0
         /\ I!Allowance(o, s, c, d)' =
              IF /\ Usable(grants[<<o, s, "MsgTransfer">>], "transfer")'
                 /\ c \in DOMAIN grants'[<<o, s, "MsgTransfer">>].auth.alloc
              THEN grants'[<<o, s, "MsgTransfer">>].auth.alloc[c][d] ELSE 0
BY DEF I!Allowance, I!HasTransfer, I!Live, I!CheckAuthzExists, I!GetAuthorization,
       I!TransferMsgURL, Usable

(* The staking allowance is the usable grant's limit.                      *)
LEMMA StakeAllowance ==
  ASSUME NEW o, NEW s, NEW t
  PROVE  /\ S!Allowance(o, s, t) = IF Usable(grants[<<o, s, t>>], "stake")
                                   THEN grants[<<o, s, t>>].auth.max ELSE 0
         /\ S!Allowance(o, s, t)' = IF Usable(grants[<<o, s, t>>], "stake")'
                                    THEN grants'[<<o, s, t>>].auth.max ELSE 0
BY DEF S!Allowance, S!HasStake, S!Live, S!CheckAuthzExists, S!GetAuthorization, Usable

(* An item belongs to one of the precompiles, by its message type.         *)
LEMMA ItemKinds ==
  /\ \A i \in SendItems : i[1] = "MsgSend" /\ i[2] \in Tokens /\ i = E!SendItem(i[2])
  /\ \A i \in TransferItems : /\ i[1] = "MsgTransfer" /\ i[2] \in Channels /\ i[3] \in Denoms
                              /\ i = I!TransferItem(i[2], i[3])
  /\ \A i \in StakeItems : i[1] \in S!StakeMsgs /\ i = S!StakeItem(i[1])
  /\ \A t \in S!StakeMsgs : t # "MsgSend" /\ t # "MsgTransfer" /\ t \in MsgTypes
BY DEF SendItems, TransferItems, StakeItems, E!SendItem, E!SendMsgURL, I!TransferItem,
       I!TransferMsgURL, S!StakeItem, S!StakeMsgs, S!DelegateMsg, S!UndelegateMsg,
       S!RedelegateMsg, S!CancelUnbondingDelegationMsg

(* What the abstract allowance of each kind of item stands for.            *)
LEMMA ReportedIs ==
  ASSUME NEW o, NEW s
  PROVE  /\ \A i \in SendItems : /\ Reported(o, s, i) = E!Allowance(o, s, i[2])
                                 /\ Reported(o, s, i)' = E!Allowance(o, s, i[2])'
         /\ \A i \in TransferItems : /\ Reported(o, s, i) = I!Allowance(o, s, i[2], i[3])
                                     /\ Reported(o, s, i)' = I!Allowance(o, s, i[2], i[3])'
         /\ \A i \in StakeItems : /\ Reported(o, s, i) = S!Allowance(o, s, i[1])
                                  /\ Reported(o, s, i)' = S!Allowance(o, s, i[1])'
<1>1. \A i \in TransferItems : i \notin SendItems BY ItemKinds
<1>2. \A i \in StakeItems : i \notin SendItems /\ i \notin TransferItems BY ItemKinds
<1> QED BY <1>1, <1>2 DEF Reported

(* The grants of the keys become g.                                        *)
Puts(keys, g) == grants' = [k \in Keys |-> IF k \in keys THEN g ELSE grants[k]]

(* A stored grant is well formed and of its key's message type.            *)
LEMMA ValidTypes ==
  ASSUME Valid, NEW k \in Keys, grants[k] # NoGrant
  PROVE  /\ grants[k] \in Grants /\ grants[k].exp \in Nat
         /\ ValidFor(k[3], grants[k].auth)
         /\ now \in Nat
BY Constants DEF Valid, StoredGrantsAreValid, Grants

(* Writing a valid grant, or deleting, under some keys keeps the store     *)
(* valid.                                                                  *)
LEMMA PutsValid ==
  ASSUME Valid, NEW keys, NEW g, Puts(keys, g),
         g = NoGrant \/ (/\ g \in Grants
                         /\ \A k \in keys : ValidFor(k[3], g.auth)),
         now' = now, jailed' \subseteq Validators
  PROVE  Valid'
<1>1. grants' \in [Keys -> Grants \cup {NoGrant}] BY DEF Puts, Valid, StoredGrantsAreValid
<1>2. ASSUME NEW k \in Keys, grants'[k] # NoGrant PROVE ValidFor(k[3], grants'[k].auth)
  BY <1>2 DEF Puts, Valid, StoredGrantsAreValid
<1>3. \A t, a : ValidFor(t, a)' <=> ValidFor(t, a)
  BY DEF ValidFor
<1> QED BY <1>1, <1>2, <1>3 DEF Valid, StoredGrantsAreValid

(* What depends on other grants is reported as before.                     *)
LEMMA Frame ==
  ASSUME NEW o, NEW s, NEW types, now' = now,
         \A k \in Keys : ~(k[1] = o /\ k[2] = s /\ k[3] \in types) => grants'[k] = grants[k]
  PROVE  \A g \in Granters, h \in Grantees, i \in Items :
           ~(g = o /\ h = s /\ i[1] \in types) => Reported(g, h, i)' = Reported(g, h, i)
<1> SUFFICES ASSUME NEW g \in Granters, NEW h \in Grantees, NEW i \in Items,
                    ~(g = o /\ h = s /\ i[1] \in types)
             PROVE  Reported(g, h, i)' = Reported(g, h, i)
  OBVIOUS
<1>1. i[1] \in MsgTypes
  BY ItemKinds, GrantAssumption DEF Items, GrantAssumption, E!SendMsgURL, I!TransferMsgURL
<1>2. <<g, h, i[1]>> \in Keys BY <1>1, KeyTypes
<1>3. grants'[<<g, h, i[1]>>] = grants[<<g, h, i[1]>>] BY <1>2
<1>4. \A kind : Usable(grants[<<g, h, i[1]>>], kind)' = Usable(grants[<<g, h, i[1]>>], kind)
  BY <1>3 DEF Usable
<1>5. CASE i \in SendItems
  <2>1. i[1] = "MsgSend" BY <1>5, ItemKinds
  <2> QED BY <1>3, <1>4, <1>5, <2>1, ReportedIs, SendAllowance
<1>6. CASE i \in TransferItems
  <2>1. i[1] = "MsgTransfer" BY <1>6, ItemKinds
  <2> QED BY <1>3, <1>4, <1>6, <2>1, ReportedIs, TransferAllowance
<1>7. CASE i \in StakeItems BY <1>3, <1>4, <1>7, ReportedIs, StakeAllowance
<1> QED BY <1>5, <1>6, <1>7 DEF Items

(* Allowances that change for one granter and grantee only are an EXCEPT   *)
(* of the whole function.                                                  *)
LEMMA Pointwise ==
  ASSUME NEW o \in Granters, NEW s \in Grantees, NEW new,
         new = [i \in Items |-> new[i]],
         \A g \in Granters, h \in Grantees, i \in Items :
            ~(g = o /\ h = s) => Reported(g, h, i)' = Reported(g, h, i),
         \A i \in Items : Reported(o, s, i)' = new[i]
  PROVE  allowed' = [allowed EXCEPT ![<<o, s>>] = new]
<1>1. Items' = Items OBVIOUS
<1>2. allowed' = [p \in Granters \X Grantees |-> [i \in Items |-> Reported(p[1], p[2], i)']]
  BY DEF allowed
<1>3. ASSUME NEW p \in Granters \X Grantees
      PROVE  [i \in Items |-> Reported(p[1], p[2], i)'] =
             IF p = <<o, s>> THEN new ELSE allowed[p]
  <2>1. CASE p = <<o, s>> BY <2>1
  <2>2. CASE p # <<o, s>> BY <2>2 DEF allowed
  <2> QED BY <2>1, <2>2
<1> QED BY <1>2, <1>3, Zenon DEF allowed

(* A call and its effect: the items few take the amounts new.              *)
Called(method, o, s, few, n) ==
  /\ op'.method = method /\ op'.granter = o /\ op'.grantee = s
  /\ op'.items = few /\ op'.n = n

Becomes(o, s, few, new) ==
  allowed' = [allowed EXCEPT ![<<o, s>>] =
                [i \in Items |-> IF i \in few THEN new[i] ELSE allowed[<<o, s>>][i]]]

(* Only the items few, of the message types written, report a new amount.  *)
LEMMA Narrow ==
  ASSUME NEW o \in Granters, NEW s \in Grantees, NEW types, NEW few \in SUBSET Items,
         now' = now,
         \A k \in Keys : ~(k[1] = o /\ k[2] = s /\ k[3] \in types) => grants'[k] = grants[k],
         \A i \in Items \ few : i[1] \in types => Reported(o, s, i)' = Reported(o, s, i)
  PROVE  allowed' = [allowed EXCEPT ![<<o, s>>] =
                       [i \in Items |-> IF i \in few THEN Reported(o, s, i)'
                                        ELSE allowed[<<o, s>>][i]]]
<1> DEFINE new == [i \in Items |-> IF i \in few THEN Reported(o, s, i)'
                                   ELSE allowed[<<o, s>>][i]]
<1>1. \A g \in Granters, h \in Grantees, i \in Items :
        ~(g = o /\ h = s /\ i[1] \in types) => Reported(g, h, i)' = Reported(g, h, i)
  BY Frame
<1>2. \A i \in Items : allowed[<<o, s>>][i] = Reported(o, s, i) BY DEF allowed
<1>3. \A i \in Items : Reported(o, s, i)' = new[i] BY <1>1, <1>2
<1> QED BY <1>1, <1>3, Pointwise

(* A call that gives its items the amount it names is Approve of           *)
(* Allowances.                                                             *)
LEMMA ApproveStep ==
  ASSUME NEW o, NEW s, NEW few, NEW new, NEW n, Called("approve", o, s, few, n),
         Becomes(o, s, few, new), \A i \in few : new[i] = n
  PROVE  A!Next
<1>1. A!Approve(op') BY Zenon DEF A!Approve, A!Change, Called, Becomes
<1> QED BY <1>1 DEF A!Next

(* A call that leaves its items nothing is Revoke of Allowances.           *)
LEMMA RevokeStep ==
  ASSUME NEW o, NEW s, NEW few, NEW new, NEW n, Called("revoke", o, s, few, n),
         Becomes(o, s, few, new), \A i \in few : new[i] = 0
  PROVE  A!Next
<1>1. A!Revoke(op') BY Zenon DEF A!Revoke, A!Change, Called, Becomes
<1> QED BY <1>1 DEF A!Next

Plus(old, n) == IF old = NoLimit THEN old ELSE old + n
Minus(old, n) == IF old = NoLimit THEN old ELSE old - n

(* The items' new amounts after an increase, a decrease and a use.         *)
Raises(old, few, new, n) ==
  \A i \in few : /\ old[i] \in {NoLimit} \cup 0..(MaxInt - n)
                 /\ new[i] = Plus(old[i], n)
Lowers(old, few, new, n) ==
  \A i \in few : /\ n <= old[i]
                 /\ new[i] = Minus(old[i], n)
Uses(old, few, new, n) ==
  \A i \in few : /\ 0 < n /\ n <= old[i]
                 /\ new[i] = IF few \subseteq TransferItems /\ old[i] = MaxInt
                             THEN MaxInt ELSE Minus(old[i], n)

(* A call that gives its items these amounts is the step of Allowances     *)
(* that its name says.                                                     *)
LEMMA IncreaseStep ==
  ASSUME NEW o, NEW s, NEW few, NEW new, NEW n, NEW method, method = "increase",
         Called(method, o, s, few, n), Becomes(o, s, few, new),
         Raises(allowed[<<o, s>>], few, new, n)
  PROVE  A!Next
<1> DEFINE old == allowed[<<o, s>>]
<1>1. A!NoLimit = NoLimit BY DEF A!NoLimit, NoLimit
<1>2. allowed' = [allowed EXCEPT ![<<o, s>>] =
                    [i \in Items |-> IF i \in few THEN new[i] ELSE old[i]]]
  BY DEF Becomes
<1>3. old = allowed[<<o, s>>] /\ Raises(old, few, new, n) OBVIOUS
<1> HIDE DEF old
<1>4. A!Increase(op')
  BY <1>1, <1>2, <1>3, Zenon DEF A!Increase, A!Change, Called, Raises, Plus, Minus
<1> QED BY <1>4 DEF A!Next

(* The same of a decrease.                                                 *)
LEMMA DecreaseStep ==
  ASSUME NEW o, NEW s, NEW few, NEW new, NEW n, NEW method, method = "decrease",
         Called(method, o, s, few, n), Becomes(o, s, few, new),
         Lowers(allowed[<<o, s>>], few, new, n)
  PROVE  A!Next
<1> DEFINE old == allowed[<<o, s>>]
<1>1. A!NoLimit = NoLimit BY DEF A!NoLimit, NoLimit
<1>2. allowed' = [allowed EXCEPT ![<<o, s>>] =
                    [i \in Items |-> IF i \in few THEN new[i] ELSE old[i]]]
  BY DEF Becomes
<1>3. old = allowed[<<o, s>>] /\ Lowers(old, few, new, n) OBVIOUS
<1> HIDE DEF old
<1>4. A!Decrease(op')
  BY <1>1, <1>2, <1>3, Zenon DEF A!Decrease, A!Change, Called, Lowers, Plus, Minus
<1> QED BY <1>4 DEF A!Next

(* The same of a use, which leaves a limit of MaxInt of ICS-20 as it is.   *)
LEMMA UseStep ==
  ASSUME NEW o, NEW s, NEW few, NEW new, NEW n, NEW method, method = "use",
         Called(method, o, s, few, n), Becomes(o, s, few, new),
         Uses(allowed[<<o, s>>], few, new, n)
  PROVE  A!Next
<1> DEFINE old == allowed[<<o, s>>]
<1>1. A!NoLimit = NoLimit BY DEF A!NoLimit, NoLimit
<1>2. allowed' = [allowed EXCEPT ![<<o, s>>] =
                    [i \in Items |-> IF i \in few THEN new[i] ELSE old[i]]]
  BY DEF Becomes
<1>3. old = allowed[<<o, s>>] /\ Uses(old, few, new, n) OBVIOUS
<1> HIDE DEF old
<1>4. A!Use(op')
  BY <1>1, <1>2, <1>3, Zenon DEF A!Use, A!Change, Called, Uses, Plus, Minus
<1> QED BY <1>4 DEF A!Next

-----------------------------------------------------------------------------
(* The ERC-20 precompile *)

SendKey(o, s) == <<o, s, "MsgSend">>
SendLimits(o, s) == [d \in Tokens |-> E!Allowance(o, s, d)]

(* The grant of MsgSend has a key of the store.                            *)
LEMMA SendKeyType ==
  ASSUME NEW o \in Granters, NEW s \in Grantees
  PROVE  SendKey(o, s) \in Keys
BY KeyTypes, GrantAssumption DEF SendKey, GrantAssumption, E!SendMsgURL

(* The precompile's lookup of a SendAuthorization finds exactly the usable *)
(* grant.                                                                  *)
LEMMA SendGuards ==
  ASSUME NEW o, NEW s
  PROVE  /\ E!HasSend(o, s) <=> Usable(grants[SendKey(o, s)], "send")
         /\ E!HasSend(o, s) => E!HasGrant(o, s) /\ E!Live(o, s) = grants[SendKey(o, s)]
BY DEF E!HasSend, E!HasGrant, E!Live, E!CheckAuthzExists, E!GetAuthorization, E!SendMsgURL,
       Usable, SendKey

(* The limits of the authorization are what the query reports.             *)
LEMMA SendFacts ==
  ASSUME Valid, NEW o \in Granters, NEW s \in Grantees
  PROVE  /\ SendLimits(o, s) \in [Tokens -> Amounts]
         /\ E!HasSend(o, s) => /\ E!Live(o, s).auth.limit = SendLimits(o, s)
                               /\ E!Live(o, s).exp \in Nat /\ E!Live(o, s).exp >= now
         /\ ~E!HasSend(o, s) => SendLimits(o, s) = E!NoCoins
<1> DEFINE g == grants[SendKey(o, s)]
<1>1. SendKey(o, s) \in Keys /\ SendKey(o, s)[3] = "MsgSend" BY SendKeyType DEF SendKey
<1>2. CASE E!HasSend(o, s)
  <2>1. Usable(g, "send") /\ E!Live(o, s) = g BY <1>2, SendGuards
  <2>2. g.exp \in Nat /\ ValidFor("MsgSend", g.auth) BY <1>1, <2>1, ValidTypes DEF Usable
  <2>3. g.auth \in SendAuths
    BY <2>1, <2>2, ItemKinds DEF Usable, ValidFor, Generic, E!SendMsgURL, I!TransferMsgURL
  <2>4. g.auth.limit \in [Tokens -> Amounts] BY <2>3 DEF SendAuths
  <2>5. \A d : E!Allowance(o, s, d) = g.auth.limit[d]
    BY <2>1, SendAllowance DEF SendKey
  <2>6. SendLimits(o, s) = g.auth.limit BY <2>4, <2>5 DEF SendLimits
  <2> QED BY <1>2, <2>1, <2>2, <2>4, <2>6 DEF Usable
<1>3. CASE ~E!HasSend(o, s)
  <2>1. \A d : E!Allowance(o, s, d) = 0 BY <1>3 DEF E!Allowance
  <2>2. SendLimits(o, s) = E!NoCoins BY <2>1 DEF SendLimits, E!NoCoins
  <2> QED BY <1>3, <2>2, Constants DEF E!NoCoins
<1> QED BY <1>2, <1>3

(* The grant is written with limits L, or deleted or left alone.           *)
Limits(o, s, L) ==
  \/ L = E!NoCoins /\ Puts({SendKey(o, s)}, NoGrant)
  \/ /\ L # E!NoCoins
     /\ \E exp \in Nat : /\ exp >= now
                         /\ Puts({SendKey(o, s)}, [auth |-> E!SendAuthorization(L), exp |-> exp])
  \/ L = SendLimits(o, s) /\ UNCHANGED grants

(* Once the limits are stored, the allowance of each token is its limit.   *)
LEMMA LimitsResult ==
  ASSUME Valid, NEW o \in Granters, NEW s \in Grantees, NEW L \in [Tokens -> Amounts],
         Limits(o, s, L), now' = now, jailed' = jailed
  PROVE  /\ Valid'
         /\ \A d \in Tokens : E!Allowance(o, s, d)' = L[d]
         /\ \A g \in Granters, h \in Grantees, i \in Items :
              ~(g = o /\ h = s /\ i \in SendItems) => Reported(g, h, i)' = Reported(g, h, i)
<1> DEFINE key == SendKey(o, s)
           types == {"MsgSend"}
<1>1. key \in Keys /\ key[3] = "MsgSend" BY SendKeyType DEF SendKey
<1>2. \A k \in Keys : ~(k[1] = o /\ k[2] = s /\ k[3] \in types) => grants'[k] = grants[k]
  BY DEF Limits, Puts, SendKey, Keys
<1>4. \A i \in Items : i[1] \in types => i \in SendItems BY ItemKinds DEF Items
<1> HIDE DEF types
<1>3. \A g \in Granters, h \in Grantees, i \in Items :
        ~(g = o /\ h = s /\ i[1] \in types) => Reported(g, h, i)' = Reported(g, h, i)
  BY <1>2, Frame
<1>5. CASE L = E!NoCoins /\ Puts({key}, NoGrant)
  <2>1. Valid' BY <1>5, PutsValid DEF Valid, StoredGrantsAreValid
  <2>2. grants'[key] = NoGrant BY <1>1, <1>5 DEF Puts
  <2>3. \A d : E!Allowance(o, s, d)' = 0 BY <2>2, SendAllowance DEF Usable, SendKey
  <2> QED BY <1>3, <1>4, <1>5, <2>1, <2>3 DEF E!NoCoins
<1>6. ASSUME NEW exp \in Nat, exp >= now, L # E!NoCoins,
             Puts({key}, [auth |-> E!SendAuthorization(L), exp |-> exp])
      PROVE  Valid' /\ \A d \in Tokens : E!Allowance(o, s, d)' = L[d]
  <2> DEFINE g == [auth |-> E!SendAuthorization(L), exp |-> exp]
  <2>1. g.auth \in SendAuths /\ g.auth.limit = L /\ g.auth.kind = "send" /\ g.exp = exp
    BY DEF E!SendAuthorization, SendAuths
  <2>2. g \in Grants BY <2>1 DEF Grants
  <2>3. \A k \in {key} : ValidFor(k[3], g.auth)
    BY <1>1, <1>6, <2>1 DEF ValidFor, E!SendMsgURL
  <2>4. Valid' BY <1>6, <2>2, <2>3, PutsValid DEF Valid, StoredGrantsAreValid
  <2>5. grants'[key] = g BY <1>1, <1>6 DEF Puts
  <2>6. g # NoGrant BY <2>2, GrantAssumption DEF GrantAssumption
  <2>7. Usable(grants[key], "send")' BY <1>6, <2>1, <2>5, <2>6 DEF Usable
  <2> QED BY <2>1, <2>4, <2>5, <2>7, SendAllowance DEF SendKey
<1>7. CASE L = SendLimits(o, s) /\ UNCHANGED grants
  <2>1. Valid' BY <1>7 DEF Valid, StoredGrantsAreValid, ValidFor
  <2>2. \A d \in Tokens : E!Allowance(o, s, d)' = E!Allowance(o, s, d)
    BY <1>7, SendAllowance, Zenon DEF Usable
  <2> QED BY <1>3, <1>4, <1>7, <2>1, <2>2 DEF SendLimits
<1> QED BY <1>3, <1>4, <1>5, <1>6, <1>7, Zenon DEF Limits

(* What every call is to do: the grants stay valid, the step is one of     *)
(* Allowances, and its event tells what the query now reports.             *)
EventIsTrue ==
  op'.value # NoValue =>
    \A i \in op'.items : op'.value = allowed'[<<op'.granter, op'.grantee>>][i]

Good == Valid' /\ A!Next /\ EventIsTrue

(* A call that sets the limit of one token.                                *)
LEMMA OneLimit ==
  ASSUME Valid, NEW o \in Granters, NEW s \in Grantees, NEW d \in Tokens, NEW x \in Amounts,
         Limits(o, s, [SendLimits(o, s) EXCEPT ![d] = x]), now' = now, jailed' = jailed
  PROVE  /\ Valid'
         /\ allowed' = [allowed EXCEPT ![<<o, s>>] =
                          [i \in Items |-> IF i \in {E!SendItem(d)} THEN x
                                           ELSE allowed[<<o, s>>][i]]]
         /\ \A i \in {E!SendItem(d)} : allowed'[<<o, s>>][i] = x
         /\ E!SendItem(d) \in Items
         /\ allowed[<<o, s>>][E!SendItem(d)] = E!Allowance(o, s, d)
<1> DEFINE L == [SendLimits(o, s) EXCEPT ![d] = x]
           new == [i \in Items |-> IF i \in {E!SendItem(d)} THEN x ELSE allowed[<<o, s>>][i]]
<1>1. SendLimits(o, s) \in [Tokens -> Amounts] BY SendFacts
<1>2. L \in [Tokens -> Amounts] BY <1>1
<1>3. /\ Valid'
      /\ \A e \in Tokens : E!Allowance(o, s, e)' = L[e]
      /\ \A g \in Granters, h \in Grantees, i \in Items :
           ~(g = o /\ h = s /\ i \in SendItems) => Reported(g, h, i)' = Reported(g, h, i)
  BY <1>2, LimitsResult, Zenon
<1>4. E!SendItem(d) \in Items BY DEF Items, SendItems
<1>5. \A i \in Items : allowed[<<o, s>>][i] = Reported(o, s, i) BY DEF allowed
<1>6. ASSUME NEW i \in Items PROVE Reported(o, s, i)' = new[i]
  <2>1. CASE i \notin SendItems BY <1>3, <1>5, <2>1 DEF SendItems
  <2>2. CASE i \in SendItems
    <3>1. i[2] \in Tokens /\ i = E!SendItem(i[2]) BY <2>2, ItemKinds
    <3>2. Reported(o, s, i)' = L[i[2]] /\ Reported(o, s, i) = E!Allowance(o, s, i[2])
      <4>1. /\ Reported(o, s, i)' = E!Allowance(o, s, i[2])'
            /\ Reported(o, s, i) = E!Allowance(o, s, i[2])
        BY <2>2, ReportedIs
      <4>2. E!Allowance(o, s, i[2])' = L[i[2]] BY <1>3, <3>1
      <4> QED BY <4>1, <4>2
    <3>3. L[i[2]] = IF i[2] = d THEN x ELSE E!Allowance(o, s, i[2])
      BY <1>1, <3>1 DEF SendLimits
    <3>4. i[2] = d <=> i = E!SendItem(d) BY <3>1 DEF E!SendItem
    <3> QED BY <1>5, <3>2, <3>3, <3>4
  <2> QED BY <2>1, <2>2
<1>7. allowed' = [allowed EXCEPT ![<<o, s>>] = new]
  BY <1>3, <1>6, Pointwise
<1>8. \A i \in {E!SendItem(d)} : allowed'[<<o, s>>][i] = x
  <2>1. <<o, s>> \in DOMAIN allowed BY DEF allowed
  <2> QED BY <1>4, <1>7, <2>1
<1>9. allowed[<<o, s>>][E!SendItem(d)] = E!Allowance(o, s, d)
  BY <1>4, <1>5, ReportedIs, ItemKinds DEF SendItems, E!SendItem
<1> QED BY <1>3, <1>4, <1>7, <1>8, <1>9

(* createAuthorization, updateAuthorization,                               *)
(* removeSpendLimitOrDeleteAuthorization and Accept each store the         *)
(* previous limits with one of them replaced.                              *)
LEMMA SendWrites ==
  ASSUME Valid, NEW o \in Granters, NEW s \in Grantees, NEW d \in Tokens, NEW x \in Amounts
  PROVE  /\ E!createAuthorization(o, s, d, x) /\ x > 0 /\ ~E!HasSend(o, s)
            => Limits(o, s, [SendLimits(o, s) EXCEPT ![d] = x])
         /\ E!updateAuthorization(o, s, d, x) /\ x > 0 /\ E!HasSend(o, s)
            => Limits(o, s, [SendLimits(o, s) EXCEPT ![d] = x])
         /\ E!removeSpendLimitOrDeleteAuthorization(o, s, d)
            => Limits(o, s, [SendLimits(o, s) EXCEPT ![d] = 0])
<1> DEFINE L == [SendLimits(o, s) EXCEPT ![d] = x]
<1>1. now \in Nat BY Constants, SMTT(30) DEF Valid, StoredGrantsAreValid
<1>2. /\ SendLimits(o, s) \in [Tokens -> Amounts]
      /\ E!HasSend(o, s) => /\ E!Live(o, s).auth.limit = SendLimits(o, s)
                            /\ E!Live(o, s).exp \in Nat /\ E!Live(o, s).exp >= now
      /\ ~E!HasSend(o, s) => SendLimits(o, s) = E!NoCoins
  BY SendFacts
<1>3. x > 0 => L # E!NoCoins BY <1>2, Constants DEF E!NoCoins
<1>4. ASSUME E!createAuthorization(o, s, d, x), x > 0, ~E!HasSend(o, s) PROVE Limits(o, s, L)
  <2> DEFINE exp == now + ApprovalExpiration
  <2>1. exp \in Nat /\ exp >= now BY <1>1, Constants
  <2>2. L = [E!NoCoins EXCEPT ![d] = x] BY <1>2, <1>4
  <2>3. Puts({SendKey(o, s)}, [auth |-> E!SendAuthorization(L), exp |-> exp])
    BY <1>4, <2>2, Same DEF E!createAuthorization, E!SaveGrant, E!SaveGrants, E!Grant,
       E!Approval, Puts, SendKey, E!SendMsgURL
  <2> QED BY <1>3, <1>4, <2>1, <2>3, Zenon DEF Limits
<1>5. ASSUME E!updateAuthorization(o, s, d, x), x > 0, E!HasSend(o, s) PROVE Limits(o, s, L)
  <2> DEFINE exp == E!Live(o, s).exp
  <2>1. Puts({SendKey(o, s)}, [auth |-> E!SendAuthorization(L), exp |-> exp])
    BY <1>2, <1>5, Same, Zenon DEF E!updateAuthorization, E!SaveGrant, E!SaveGrants, E!Grant,
       Puts, SendKey, E!SendMsgURL
  <2> QED BY <1>2, <1>3, <1>5, <2>1, SMTT(30) DEF Limits
<1>6. ASSUME E!removeSpendLimitOrDeleteAuthorization(o, s, d)
      PROVE  Limits(o, s, [SendLimits(o, s) EXCEPT ![d] = 0])
  <2> DEFINE left == [SendLimits(o, s) EXCEPT ![d] = 0]
             exp == E!Live(o, s).exp
  <2>1. E!HasSend(o, s) BY <1>6 DEF E!removeSpendLimitOrDeleteAuthorization
  <2>2. \/ left = E!NoCoins /\ E!DeleteGrant(s, o, E!SendMsgURL)
        \/ left # E!NoCoins /\ E!SaveGrant(s, o, E!SendMsgURL, E!SendAuthorization(left), exp)
    BY <1>2, <1>6, <2>1, Zenon DEF E!removeSpendLimitOrDeleteAuthorization
  <2>3. CASE left = E!NoCoins /\ E!DeleteGrant(s, o, E!SendMsgURL)
    BY <2>3, Same DEF E!DeleteGrant, E!DeleteGrants, Puts, SendKey, E!SendMsgURL, Limits
  <2>4. CASE left # E!NoCoins /\ E!SaveGrant(s, o, E!SendMsgURL, E!SendAuthorization(left), exp)
    <3>1. Puts({SendKey(o, s)}, [auth |-> E!SendAuthorization(left), exp |-> exp])
      BY <2>4, Same DEF E!SaveGrant, E!SaveGrants, E!Grant, Puts, SendKey, E!SendMsgURL
    <3> QED BY <1>2, <2>1, <2>4, <3>1, Zenon DEF Limits
  <2> QED BY <2>2, <2>3, <2>4
<1> QED BY <1>4, <1>5, <1>6

(* A call with that effect is the step of Allowances it says it is.        *)
LEMMA SendStep ==
  ASSUME Valid, NEW o \in Granters, NEW s \in Grantees, NEW d \in Tokens, NEW x \in Amounts,
         Limits(o, s, [SendLimits(o, s) EXCEPT ![d] = x]), jailed' = jailed,
         NEW method, NEW n \in Amounts, E!Emits(method, o, s, d, n, x),
         \/ method = "approve" /\ x = n
         \/ method = "increase" /\ x = E!Allowance(o, s, d) + n
         \/ method \in {"decrease", "use"} /\ x = E!Allowance(o, s, d) - n /\ n > 0
  PROVE  Good
<1> DEFINE item == E!SendItem(d)
           old == allowed[<<o, s>>]
<1>1. now' = now /\ op' = [method |-> method, granter |-> o, grantee |-> s,
                          items |-> {item}, n |-> n, value |-> x]
  BY DEF E!Emits, E!Call
<1>2. /\ Valid'
      /\ allowed' = [allowed EXCEPT ![<<o, s>>] =
                       [i \in Items |-> IF i \in {item} THEN x ELSE old[i]]]
      /\ \A i \in {item} : allowed'[<<o, s>>][i] = x
      /\ item \in Items
      /\ old[item] = E!Allowance(o, s, d)
  BY <1>1, OneLimit
<1>3. EventIsTrue BY <1>1, <1>2 DEF EventIsTrue
<1>4. E!Allowance(o, s, d) \in Amounts BY SendFacts, Zenon DEF SendLimits
<1>5. old[item] \in 0..MaxInt /\ x \in 0..MaxInt /\ n \in 0..MaxInt BY <1>2, <1>4, Constants
<1>6. item \notin TransferItems BY ItemKinds DEF SendItems
<1>8. old = allowed[<<o, s>>] OBVIOUS
<1>7. A!Next
  <2> DEFINE few == {item}
             new == [i \in few |-> x]
  <2>1. /\ \A i \in few : old[i] \in 0..MaxInt /\ new[i] = x /\ i = item
        /\ ~(few \subseteq TransferItems)
    BY <1>2, <1>5, <1>6
  <2>2. Called(method, o, s, few, n) BY <1>1 DEF Called
  <2>3. Becomes(o, s, few, new) BY <1>2, <1>8 DEF Becomes
  <2> HIDE DEF few, new, old
  <2>4. CASE method = "approve" /\ x = n
    <3>1. \A i \in few : new[i] = n BY <2>1, <2>4
    <3>2. Called("approve", o, s, few, n) BY <2>2, <2>4, SMTT(30)
    <3> QED BY <2>3, <3>1, <3>2, ApproveStep
  <2>5. CASE method = "increase" /\ x = old[item] + n
    <3>1. Raises(old, few, new, n) BY <1>5, <2>1, <2>5, Constants, SMTT(30) DEF Plus, Raises
    <3>2. Raises(allowed[<<o, s>>], few, new, n) BY <1>8, <3>1, Zenon
    <3> QED BY <2>2, <2>3, <2>5, <3>2, IncreaseStep
  <2>6. CASE method = "decrease" /\ x = old[item] - n
    <3>1. Lowers(old, few, new, n) BY <1>5, <2>1, <2>6, Constants, SMTT(30) DEF Minus, Lowers
    <3>2. Lowers(allowed[<<o, s>>], few, new, n) BY <1>8, <3>1, Zenon
    <3> QED BY <2>2, <2>3, <2>6, <3>2, DecreaseStep
  <2>7. CASE method = "use" /\ x = old[item] - n /\ n > 0
    <3>1. Uses(old, few, new, n) BY <1>5, <2>1, <2>7, Constants, SMTT(30) DEF Minus, Uses
    <3>2. Uses(allowed[<<o, s>>], few, new, n) BY <1>8, <3>1, Zenon
    <3> QED BY <2>2, <2>3, <2>7, <3>2, UseStep
  <2> QED BY <1>2, <2>4, <2>5, <2>6, <2>7
<1> QED BY <1>2, <1>3, <1>7 DEF Good

(* Every call of the ERC-20 precompile.                                    *)
LEMMA Erc20Step == ASSUME Valid, E!Erc20Next, jailed' = jailed PROVE Good
<1>1. PICK o \in Granters, s \in Grantees, d \in Tokens, n \in Amounts :
        \/ E!Approve(o, s, d, n) \/ E!IncreaseAllowance(o, s, d, n)
        \/ E!DecreaseAllowance(o, s, d, n) \/ E!TransferFrom(o, s, d, n)
  BY Same DEF E!Erc20Next
<1> DEFINE L(x) == [SendLimits(o, s) EXCEPT ![d] = x]
           all == E!Allowance(o, s, d)
<1>2. /\ SendLimits(o, s) \in [Tokens -> Amounts]
      /\ E!HasSend(o, s) => /\ E!Live(o, s).auth.limit = SendLimits(o, s)
                            /\ E!Live(o, s).exp \in Nat /\ E!Live(o, s).exp >= now
      /\ ~E!HasSend(o, s) => SendLimits(o, s) = E!NoCoins
  BY SendFacts
<1>3. all \in Amounts /\ SendLimits(o, s)[d] = all /\ (~E!HasSend(o, s) => all = 0)
  BY <1>2 DEF SendLimits, E!NoCoins
<1>4. E!HasSend(o, s) => E!HasGrant(o, s) BY SendGuards
<1>5. n \in 0..MaxInt /\ all \in 0..MaxInt BY <1>3, Constants
<1>6. ASSUME NEW x \in Amounts
      PROVE  /\ E!createAuthorization(o, s, d, x) /\ x > 0 /\ ~E!HasSend(o, s) => Limits(o, s, L(x))
             /\ E!updateAuthorization(o, s, d, x) /\ x > 0 /\ E!HasSend(o, s) => Limits(o, s, L(x))
             /\ E!removeSpendLimitOrDeleteAuthorization(o, s, d) => Limits(o, s, L(0))
  BY SendWrites, Zenon
<1> HIDE DEF all
<1>7. CASE E!Approve(o, s, d, n)
  <2>1. Limits(o, s, L(n))
    <3>1. CASE ~E!HasGrant(o, s) /\ n = 0 /\ UNCHANGED grants
      <4>1. L(n) = SendLimits(o, s) BY <1>2, <1>4, <3>1 DEF E!NoCoins
      <4> QED BY <3>1, <4>1 DEF Limits
    <3>2. CASE ~E!HasGrant(o, s) /\ n > 0 /\ E!createAuthorization(o, s, d, n)
      BY <1>4, <1>6, <3>2, Zenon
    <3>3. CASE n = 0 /\ E!removeSpendLimitOrDeleteAuthorization(o, s, d)
      BY <1>6, <3>3, Zenon
    <3>4. CASE E!HasSend(o, s) /\ n > 0 /\ E!updateAuthorization(o, s, d, n)
      BY <1>6, <3>4, Zenon
    <3> QED BY <1>7, <3>1, <3>2, <3>3, <3>4 DEF E!Approve
  <2>2. E!Emits("approve", o, s, d, n, n) BY <1>7 DEF E!Approve
  <2> QED BY <2>1, <2>2, SendStep
<1>8. CASE E!IncreaseAllowance(o, s, d, n)
  <2>1. n > 0 /\ E!Emits("increase", o, s, d, n, all + n) BY <1>8 DEF E!IncreaseAllowance, all
  <2>2. all + n \in Amounts /\ Limits(o, s, L(all + n))
    <3>1. CASE ~E!HasGrant(o, s) /\ E!createAuthorization(o, s, d, n)
      <4>1. all + n = n BY <1>3, <1>4, <1>5, <3>1
      <4> QED BY <1>4, <1>6, <2>1, <3>1, <4>1, Zenon
    <3>2. CASE E!HasGrant(o, s) /\ E!increaseAllowance(o, s, d, n)
      <4>1. E!HasSend(o, s) /\ all + n <= MaxInt /\ E!updateAuthorization(o, s, d, all + n)
        BY <3>2 DEF E!increaseAllowance, all
      <4>2. all + n \in Amounts /\ all + n > 0 BY <1>5, <2>1, <4>1, Constants
      <4> QED BY <1>6, <4>1, <4>2, Zenon
    <3> QED BY <1>8, <3>1, <3>2 DEF E!IncreaseAllowance
  <2> QED BY <2>1, <2>2, SendStep DEF all
<1>9. CASE E!DecreaseAllowance(o, s, d, n)
  <2>1. n > 0 /\ E!HasSend(o, s) /\ E!Emits("decrease", o, s, d, n, all - n)
    BY <1>9 DEF E!DecreaseAllowance, all
  <2>2. all - n \in Amounts /\ Limits(o, s, L(all - n))
    <3>1. CASE n < all /\ E!decreaseAllowance(o, s, d, n)
      <4>1. E!updateAuthorization(o, s, d, all - n) BY <3>1 DEF E!decreaseAllowance, all
      <4>2. all - n \in Amounts /\ all - n > 0 BY <1>5, <3>1, Constants
      <4> QED BY <1>6, <2>1, <4>1, <4>2, Zenon
    <3>2. CASE n = all /\ E!removeSpendLimitOrDeleteAuthorization(o, s, d)
      <4>1. all - n = 0 BY <1>5, <3>2
      <4>2. Limits(o, s, L(0)) BY <1>6, <3>2, Zenon
      <4>3. all - n \in Amounts BY <4>1, Constants
      <4>4. L(all - n) = L(0) BY <4>1, Zenon
      <4> HIDE DEF L
      <4> QED BY <4>2, <4>3, <4>4
    <3> QED BY <1>9, <3>1, <3>2 DEF E!DecreaseAllowance, all
  <2> QED BY <2>1, <2>2, SendStep DEF all
<1>10. CASE E!TransferFrom(o, s, d, n)
  <2> DEFINE left == L(all - n)
             exp == E!Live(o, s).exp
  <2>1. n > 0 /\ E!HasSend(o, s) /\ E!Emits("use", o, s, d, n, all - n)
    BY <1>10, SMTT(30) DEF E!TransferFrom, all
  <2>2. n <= all BY <1>2, <1>3, <1>10, <2>1 DEF E!TransferFrom
  <2>3. all - n \in Amounts BY <1>5, <2>2, Constants
  <2>4. grants' = [grants EXCEPT ![SendKey(o, s)] =
                     IF left = E!NoCoins THEN NoGrant
                     ELSE [auth |-> E!SendAuthorization(left), exp |-> exp]]
    BY <1>2, <1>3, <1>10, <2>1, Zenon DEF E!TransferFrom, SendKey, E!SendMsgURL, E!Grant
  <2>5. DOMAIN grants = Keys BY DEF Valid, StoredGrantsAreValid
  <2> HIDE DEF left, exp
  <2>6. CASE left = E!NoCoins
    <3>1. Puts({SendKey(o, s)}, NoGrant) BY <2>4, <2>5, <2>6, Zenon DEF Puts
    <3> QED BY <2>1, <2>3, <2>6, <3>1, SendStep DEF Limits, all, left
  <2>7. CASE left # E!NoCoins
    <3>1. Puts({SendKey(o, s)}, [auth |-> E!SendAuthorization(left), exp |-> exp])
      BY <2>4, <2>5, <2>7, Zenon DEF Puts
    <3>2. exp \in Nat /\ exp >= now BY <1>2, <2>1 DEF exp
    <3>3. Limits(o, s, left) BY <2>7, <3>1, <3>2 DEF Limits
    <3> QED BY <2>1, <2>3, <3>3, SendStep DEF all, left
  <2> QED BY <2>6, <2>7, SMTT(30)
<1> QED BY <1>1, <1>7, <1>8, <1>9, <1>10

=============================================================================
