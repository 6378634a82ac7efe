------------------------------ MODULE Allowances ------------------------------
(***************************************************************************)
(* What the precompiles promise of allowances: every granter, grantee and  *)
(* item (a token, a denom on a channel, a staking message) has an amount   *)
(* of its own.  Only the granter's calls set, raise or lower it, in the    *)
(* items they name and by the amount they name; the grantee uses at most   *)
(* what is left, and that much is gone; time only takes away.              *)
(***************************************************************************)
EXTENDS Integers

CONSTANTS Granters, Grantees, Items,
          MaxInt,
          Replaced,     \* items that one call replaces together
          Unbounded     \* items of which MaxInt stands for no bound

VARIABLES allowed,
          op            \* the call that was made: method, granter, grantee, items, n

NoLimit == MaxInt + 1
Pairs == Granters \X Grantees

(* The items of the call take the values New gives, nothing else changes. *)
Change(c, New(_)) ==
  allowed' = [allowed EXCEPT ![<<c.granter, c.grantee>>] =
                [i \in Items |-> IF i \in c.items THEN New(@[i]) ELSE @[i]]]

Approve(c) == c.method = "approve" /\ Change(c, LAMBDA old : c.n)

Revoke(c) == c.method = "revoke" /\ Change(c, LAMBDA old : 0)

Increase(c) ==
  /\ c.method = "increase"
  /\ \A i \in c.items :
       allowed[<<c.granter, c.grantee>>][i] \in {NoLimit} \cup 0..(MaxInt - c.n)
  /\ Change(c, LAMBDA old : IF old = NoLimit THEN old ELSE old + c.n)

Decrease(c) ==
  /\ c.method = "decrease"
  /\ \A i \in c.items : c.n <= allowed[<<c.granter, c.grantee>>][i]
  /\ Change(c, LAMBDA old : IF old = NoLimit THEN old ELSE old - c.n)

Use(c) ==
  /\ c.method = "use"
  /\ \A i \in c.items : 0 < c.n /\ c.n <= allowed[<<c.granter, c.grantee>>][i]
  /\ Change(c, LAMBDA old :
       IF old = NoLimit \/ (c.items \subseteq Unbounded /\ old = MaxInt)
       THEN old ELSE old - c.n)

(* The granter replaces the whole of an allocation, or acts on the grants  *)
(* without a precompile.                                                   *)
Replace(c) ==
  /\ c.method \in {"replace", "grant"}
  /\ LET items == IF c.method = "replace" THEN Replaced ELSE Items
     IN \E new \in {allowed'[<<c.granter, c.grantee>>]} :
          allowed' = [allowed EXCEPT ![<<c.granter, c.grantee>>] =
                        [i \in Items |-> IF i \in items THEN new[i] ELSE @[i]]]

Lapse(c) ==
  /\ c.method = "block"
  /\ \A p \in Pairs, i \in Items : allowed'[p][i] \in {0, allowed[p][i]}

Init == allowed = [p \in Pairs |-> [i \in Items |-> 0]]

Next == \/ Approve(op') \/ Revoke(op') \/ Increase(op') \/ Decrease(op')
        \/ Use(op') \/ Replace(op') \/ Lapse(op')

Spec == Init /\ [][Next]_<<allowed, op>>

=============================================================================
