------------------------------ MODULE MCStateDB ------------------------------
EXTENDS StateDBHistory, TLC, FiniteSets

CONSTANTS k1, k2, c1

(* An EOA, an account that holds coins only, a contract with storage.      *)
EOA(units) == [NoAccount EXCEPT !.exists = TRUE, !.units = units]
Contract(units, v) ==
  [exists |-> TRUE, nonce |-> 1, codeHash |-> c1, units |-> units,
   storage |-> [k \in Keys |-> IF k = k1 THEN v ELSE 0]]

StoreOf(accts) ==
  [acct |-> accts,
   code |-> {accts[a].codeHash : a \in Addrs} \ {EmptyCode},
   modules |-> CHOOSE m \in ModuleStates : TRUE]

(* Sender 1 is an EOA, 2 is a contract, holds coins only or does not       *)
(* exist; the precompile's account 3 does not exist.                       *)
MCInitStores ==
  {StoreOf([a \in Addrs |-> CASE a = Sender -> EOA(1)
                              [] a = Precompile -> NoAccount
                              [] OTHER -> acct]) :
     acct \in {NoAccount, EOA(1), Contract(1, 1)}}

MCLists == {<< >>,
            <<[addr |-> 1, slot |-> Nil]>>,
            <<[addr |-> 1, slot |-> Nil], [addr |-> 2, slot |-> Nil],
              [addr |-> 2, slot |-> Nil], [addr |-> 2, slot |-> k1]>>}

-----------------------------------------------------------------------------
(* A behaviour has one of three scopes, chosen at its start: changes of    *)
(* accounts 1 and 2; the access list, refunds and logs; a precompile that  *)
(* moves coins of itself and of account 2, which the EVM changes as well.  *)
VARIABLE scope

Scopes == {"accounts", "lists", "precompile"}
Limit == [accounts |-> 3, lists |-> 5, precompile |-> 3]

Appends == Len(journal') > Len(journal)
Last == journal'[Len(journal')]

ScopeStarts ==
  /\ scope = "lists" <=> todo # << >>
  /\ scope = "lists" => ~ctx.acct[2].exists

InScope ==
  /\ phase = "running" /\ (Appends \/ phase' = "method" \/ cache' # cache) =>
       Len(journal) < Limit[scope]
  /\ scope = "accounts" =>
       /\ txState' = txState /\ writeCache' = writeCache
       /\ \A a \in {1, 2} : obj'[a] # Nil => obj'[a].state[k2] = 0
       /\ dirties'[Sender] < 2
  /\ scope = "lists" => obj' = obj /\ dirties' = dirties /\ writeCache' = writeCache
  /\ scope = "precompile" =>
       /\ refund' = refund /\ accessList' = accessList /\ Len(logs') < 2
       /\ dirties'[1] = dirties[1] /\ cache'.acct[1] = cache.acct[1]
       /\ obj'[2] # Nil => obj'[2].state[k2] = 0
       /\ Appends /\ phase = "running" => /\ Last.type \notin {"balance", "code", "addLog"}
                                          /\ Last.type = "nonce" => Len(journal') > Len(journal) + 1

MCInit == HInit /\ scope \in Scopes /\ ScopeStarts
MCNext == HNext /\ InScope /\ UNCHANGED scope
MCSpec == MCInit /\ [][MCNext]_<<hvars, scope>>

=============================================================================
