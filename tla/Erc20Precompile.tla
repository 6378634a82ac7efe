--------------------------- MODULE Erc20Precompile ---------------------------
(***************************************************************************)
(* Allowances of the ERC-20 precompiles (precompiles/erc20).  Every token  *)
(* has a precompile of its own, yet the allowances of all tokens between   *)
(* an owner and a spender are the spend limits of one SendAuthorization    *)
(* with one expiration.  A token without a limit has amount 0 here.        *)
(***************************************************************************)
EXTENDS Authz

CONSTANT Tokens     \* denoms with an ERC-20 precompile

SendMsgURL == "MsgSend"
SendItem(d) == <<SendMsgURL, d>>
SendAuthorization(limit) == [kind |-> "send", limit |-> limit]
NoCoins == [d \in Tokens |-> 0]

Live(owner, spender) == GetAuthorization(spender, owner, SendMsgURL)
HasGrant(owner, spender) == Live(owner, spender) # NoGrant
HasSend(owner, spender) == CheckAuthzExists(spender, owner, SendMsgURL, "send")

(* GetAuthzExpirationAndAllowance, as the query Allowance reports it. *)
Allowance(owner, spender, d) ==
  IF HasSend(owner, spender) THEN Live(owner, spender).auth.limit[d] ELSE 0

createAuthorization(owner, spender, d, amount) ==
  SaveGrant(spender, owner, SendMsgURL,
            SendAuthorization([NoCoins EXCEPT ![d] = amount]), Approval)

(* Mutants: the grant is made anew for the token; its coin is added to the *)
(* one there is.                                                           *)
replaceAuthorization(owner, spender, d, amount) ==
  createAuthorization(owner, spender, d, amount)

addToAuthorization(owner, spender, d, amount) ==
  LET g == Live(owner, spender)
  IN SaveGrant(spender, owner, SendMsgURL,
               SendAuthorization([g.auth.limit EXCEPT ![d] = @ + amount]), g.exp)

(* The grant keeps its expiration. *)
updateAuthorization(owner, spender, d, amount) ==
  LET g == Live(owner, spender)
  IN SaveGrant(spender, owner, SendMsgURL,
               SendAuthorization([g.auth.limit EXCEPT ![d] = amount]), g.exp)

(* Mutant: an authorization without limits is saved. *)
removeSpendLimit(owner, spender, d) ==
  updateAuthorization(owner, spender, d, 0)

removeSpendLimitOrDeleteAuthorization(owner, spender, d) ==
  LET g == Live(owner, spender)
      left == [g.auth.limit EXCEPT ![d] = 0]
  IN /\ HasSend(owner, spender)
     /\ g.auth.limit[d] > 0
     /\ \/ left = NoCoins /\ DeleteGrant(spender, owner, SendMsgURL)
        \/ /\ left # NoCoins
           /\ SaveGrant(spender, owner, SendMsgURL, SendAuthorization(left), g.exp)

Emits(method, owner, spender, d, n, value) ==
  /\ op' = Call(method, owner, spender, {SendItem(d)}, n, value)
  /\ UNCHANGED now

Approve(owner, spender, d, amount) ==
  /\ owner # spender
  /\ \/ ~HasGrant(owner, spender) /\ amount = 0 /\ UNCHANGED grants
     \/ /\ ~HasGrant(owner, spender) /\ amount > 0
        /\ createAuthorization(owner, spender, d, amount)
     \/ /\ HasGrant(owner, spender) /\ amount = 0
        /\ removeSpendLimitOrDeleteAuthorization(owner, spender, d)
     \/ /\ HasSend(owner, spender) /\ amount > 0
        /\ updateAuthorization(owner, spender, d, amount)
  /\ Emits("approve", owner, spender, d, amount, amount)

increaseAllowance(owner, spender, d, added) ==
  LET amount == Allowance(owner, spender, d) + added
  IN /\ HasSend(owner, spender)
     /\ amount <= MaxInt
     /\ updateAuthorization(owner, spender, d, amount)

IncreaseAllowance(owner, spender, d, added) ==
  /\ owner # spender /\ added > 0
  /\ \/ ~HasGrant(owner, spender) /\ createAuthorization(owner, spender, d, added)
     \/ HasGrant(owner, spender) /\ increaseAllowance(owner, spender, d, added)
  /\ Emits("increase", owner, spender, d, added, Allowance(owner, spender, d) + added)

decreaseAllowance(owner, spender, d, subtracted) ==
  LET allowance == Allowance(owner, spender, d)
  IN allowance > 0 /\ updateAuthorization(owner, spender, d, allowance - subtracted)

DecreaseAllowance(owner, spender, d, subtracted) ==
  LET allowance == Allowance(owner, spender, d)
  IN /\ owner # spender /\ subtracted > 0
     /\ HasSend(owner, spender)
     /\ \/ subtracted < allowance /\ decreaseAllowance(owner, spender, d, subtracted)
        \/ /\ subtracted = allowance
           /\ removeSpendLimitOrDeleteAuthorization(owner, spender, d)
     /\ Emits("decrease", owner, spender, d, subtracted, allowance - subtracted)

(* transferFrom by a spender who is not the owner: DispatchActions lets    *)
(* the authorization accept the MsgSend, deletes it when nothing is left,  *)
(* and writes what is left under the same expiration.  Whether the bank    *)
(* then executes the message is not the precompile's.                      *)
TransferFrom(owner, spender, d, amount) ==
  LET g == Live(owner, spender)
      left == [g.auth.limit EXCEPT ![d] = @ - amount]
  IN /\ owner # spender /\ amount > 0
     /\ HasSend(owner, spender)
     /\ g.auth.limit[d] >= amount
     /\ grants' = [grants EXCEPT ![<<owner, spender, SendMsgURL>>] =
                     IF left = NoCoins THEN NoGrant
                     ELSE Grant(SendAuthorization(left), g.exp)]
     /\ Emits("use", owner, spender, d, amount, Allowance(owner, spender, d) - amount)

Erc20Next ==
  \E o \in Granters, s \in Grantees, d \in Tokens, n \in Amounts :
    \/ Approve(o, s, d, n)
    \/ IncreaseAllowance(o, s, d, n)
    \/ DecreaseAllowance(o, s, d, n)
    \/ TransferFrom(o, s, d, n)

=============================================================================
