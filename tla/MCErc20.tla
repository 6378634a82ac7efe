------------------------------ MODULE MCErc20 ------------------------------
(***************************************************************************)
(* Erc20 with one contract.  A behaviour exercises the registry with all   *)
(* its denoms, or conversions.  Where the contract may answer anything,    *)
(* accounts other than Fickle and Escrow hold nothing, and one packet is   *)
(* in flight.                                                              *)
(***************************************************************************)
EXTENDS Erc20, FiniteSetsExt

VARIABLE scope

MCInit == Init /\ (scope = "conversions" \/ (scope = "registry" /\ standard = {}))

InScope ==
  standard # Contracts =>
    /\ \A c \in Contracts, a \in Accts \ (Fickle \cup {Escrow}) :
         token'[c][a] = 0 /\ coin'[c][a] = 0
    /\ \A s \in Seqs \ {1} : packets'[s] = NoPacket

MCNext ==
  /\ \/ scope = "registry" /\ PairNext /\ UNCHANGED convVars
     \/ scope = "conversions" /\ Next /\ InScope
  /\ UNCHANGED scope

MCSpec == MCInit /\ [][MCNext]_<<vars, scope>> /\ Relayers

Outstanding(c) ==
  MapThenSumSet(LAMBDA s : packets[s].amount,
                {s \in Seqs : InFlight(s) /\ packets[s].contract = c})

(* ConvertERC20, Transfer and the IBC callbacks: every coin of a contract  *)
(* that keeps to ERC-20 and still exists is backed by a token in the       *)
(* module's account, whatever governance and relayers do and in whichever  *)
(* order; and the channel's escrow account covers what is in flight and    *)
(* what the other chain may send back of any contract's coin: no           *)
(* conversion takes from it, if it is never a packet's recipient.          *)
CoinsAreBacked ==
  /\ TypeOK
  /\ \A c \in standard \ destroyed : supply[c] <= token[c][ModuleAcct]
  /\ \A c \in Contracts : coin[c][Escrow] >= remote[c] + Outstanding(c)

=============================================================================
