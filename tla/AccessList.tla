----------------------------- MODULE AccessList -----------------------------
(***************************************************************************)
(* The EIP-2929 access list (x/vm/statedb/access_list.go): a map from      *)
(* addresses to an index into a list of slot sets.  The index is 1-based   *)
(* here, NoSlots stands for the code's -1 and Absent for an address that   *)
(* is not in the map.                                                      *)
(***************************************************************************)
EXTENDS Integers, Sequences

CONSTANTS Addrs, Keys

Absent == -1
NoSlots == 0

accessList == [addresses : [Addrs -> Int], slots : Seq(SUBSET Keys)]

newAccessList == [addresses |-> [a \in Addrs |-> Absent], slots |-> << >>]

ContainsAddress(al, a) == al.addresses[a] # Absent

Contains(al, a, slot) ==
  /\ al.addresses[a] \notin {Absent, NoSlots}
  /\ slot \in al.slots[al.addresses[a]]

AddAddress(al, a) ==
  IF ContainsAddress(al, a) THEN al ELSE [al EXCEPT !.addresses[a] = NoSlots]

AddSlot(al, a, slot) ==
  LET idx == al.addresses[a]
  IN  IF idx \in {Absent, NoSlots}
      THEN [addresses |-> [al.addresses EXCEPT ![a] = Len(al.slots) + 1],
            slots     |-> Append(al.slots, {slot})]
      ELSE [al EXCEPT !.slots[idx] = @ \cup {slot}]

(* DeleteSlot that leaves the emptied slot set in the list. *)
DeleteSlotShort(al, a, slot) ==
  LET idx  == al.addresses[a]
      left == al.slots[idx] \ {slot}
  IN  IF left = {}
      THEN [addresses |-> [al.addresses EXCEPT ![a] = NoSlots],
            slots     |-> [al.slots EXCEPT ![idx] = left]]
      ELSE [al EXCEPT !.slots[idx] = left]

(* DeleteSlot that forgets the address with its last slot. *)
DeleteSlotForgets(al, a, slot) ==
  LET idx  == al.addresses[a]
      left == al.slots[idx] \ {slot}
  IN  IF left = {}
      THEN [addresses |-> [al.addresses EXCEPT ![a] = Absent],
            slots     |-> SubSeq(al.slots, 1, idx - 1)]
      ELSE [al EXCEPT !.slots[idx] = left]

(* Removing the last slot of an address cuts the list at that address's    *)
(* index: right only if every later index is gone already.                 *)
DeleteSlot(al, a, slot) ==
  LET idx  == al.addresses[a]
      left == al.slots[idx] \ {slot}
  IN  IF left = {}
      THEN [addresses |-> [al.addresses EXCEPT ![a] = NoSlots],
            slots     |-> SubSeq(al.slots, 1, idx - 1)]
      ELSE [al EXCEPT !.slots[idx] = left]

DeleteAddress(al, a) == [al EXCEPT !.addresses[a] = Absent]

=============================================================================
