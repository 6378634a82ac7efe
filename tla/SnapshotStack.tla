---------------------------- MODULE SnapshotStack ----------------------------
(***************************************************************************)
(* What the EVM expects of a StateDB: a value that changes freely and a    *)
(* stack of identified copies of it.  Going back to a copy brings exactly  *)
(* that value back and drops the copy and every later one; the value does  *)
(* not move until the StateDB says that it is back.                        *)
(***************************************************************************)
EXTENDS Naturals, Sequences

CONSTANT Ids

VARIABLES state,     \* the value
          copies,    \* sequence of [id, state]
          restoring  \* the value has been brought back, the StateDB is not ready

Init == copies = << >> /\ restoring = FALSE

Mutate == ~restoring /\ UNCHANGED <<copies, restoring>>

Snapshot ==
  /\ ~restoring
  /\ \E id \in Ids :
       /\ \A i \in DOMAIN copies : copies[i].id < id
       /\ copies' = Append(copies, [id |-> id, state |-> state])
  /\ UNCHANGED <<state, restoring>>

RevertToSnapshot ==
  /\ ~restoring
  /\ restoring' = TRUE
  /\ \E i \in DOMAIN copies :
       /\ state' = copies[i].state
       /\ copies' = SubSeq(copies, 1, i - 1)

Restored == restoring /\ restoring' = FALSE /\ UNCHANGED <<state, copies>>

Next == Mutate \/ Snapshot \/ RevertToSnapshot \/ Restored

Spec == Init /\ [][Next]_<<state, copies, restoring>>

=============================================================================
