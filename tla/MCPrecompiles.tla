---------------------------- MODULE MCPrecompiles ----------------------------
(***************************************************************************)
(* A behaviour keeps to two items: two tokens, two denoms of a channel, a  *)
(* denom on two channels, or at most two staking messages.                 *)
(***************************************************************************)
EXTENDS Precompiles

CONSTANTS Channel, Denom,   \* the channel and the denom that both scopes share
          Jailable          \* the validators that may be jailed

VARIABLE scope

Scopes == {SendItems, {<<S!DelegateMsg>>, <<S!CancelUnbondingDelegationMsg>>},
           {<<S!UndelegateMsg>>}, {<<S!RedelegateMsg>>},
           {i \in TransferItems : i[2] = Channel}, {i \in TransferItems : i[3] = Denom}}

MCInit == Init /\ scope \in Scopes

InScope ==
  /\ jailed' \subseteq Jailable
  /\ \A k \in Keys : grants'[k] # grants[k] =>
       /\ k[3] \in {i[1] : i \in scope}
       /\ \A i \in Items \ scope : allowed'[<<k[1], k[2]>>][i] = 0

MCNext ==
  /\ UNCHANGED scope
  /\ \/ scope = SendItems /\ E!Erc20Next /\ UNCHANGED jailed
     \/ scope \subseteq TransferItems /\ I!Ics20Next /\ UNCHANGED jailed
     \/ scope \subseteq StakeItems /\ S!StakingNext
     \/ OwnTransaction /\ UNCHANGED jailed
     \/ Block /\ UNCHANGED jailed
  /\ InScope

(* Nothing depends on the last call. *)
View == <<grants, now, jailed, scope>>

MCSpec == MCInit /\ [][MCNext]_<<vars, scope>>

=============================================================================
