------------------------ MODULE StateDBJournalProofs ------------------------
(***************************************************************************)
(* Proofs about StateDB, for every choice of its constants.                *)
(*                                                                         *)
(* The inductive invariant is IInv of StateDBHistory.  A step that writes  *)
(* to the journal is shown to be a step of Grows: one or two entries that  *)
(* undo, one after the other, exactly what the step did.                   *)
(***************************************************************************)
EXTENDS StateDBHistory, TLAPS

-----------------------------------------------------------------------------
(* Decimals *)

(* Conversions between the bank's decimals and 18 decimals stay in Nat. *)
LEMMA DecimalsNat ==
  ASSUME NEW x \in Nat
  PROVE  /\ To18Decimals(x) \in Nat
         /\ From18Decimals(x) \in Nat
         /\ AdjustExtraDecimals(x) \in Nat
BY FactorAssumption DEF FactorAssumption, To18Decimals, From18Decimals, AdjustExtraDecimals

(* A burn never takes more units than the account has. *)
LEMMA BurnBounded ==
  ASSUME NEW u \in Nat, NEW m \in Nat, m <= To18Decimals(u)
  PROVE  From18Decimals(To18Decimals(u) - m) <= u
<1> DEFINE c == ConversionFactor
           x == u * c - m
           q == x \div c
<1>1. c \in Nat /\ c > 0 /\ x \in Nat /\ x <= u * c
  BY FactorAssumption DEF FactorAssumption, To18Decimals
<1>2. q \in Nat /\ c * q <= x
  BY <1>1
<1>3. c * q <= c * u
  BY <1>1, <1>2
<1>4. q <= u
  BY <1>1, <1>2, <1>3
<1> QED BY <1>4 DEF To18Decimals, From18Decimals

-----------------------------------------------------------------------------
(* Undoing one entry *)

(* Undoing an entry takes back its count in dirties. *)
LEMMA CountedDiscounted ==
  ASSUME NEW d \in [Addrs -> Nat], NEW e, Dirtied(e) \in Addrs \cup {Nil}
  PROVE  /\ Counted(d, e) \in [Addrs -> Nat]
         /\ Discounted(Counted(d, e), e) = d
<1>1. CASE Dirtied(e) = Nil
  BY <1>1 DEF Counted, Discounted
<1>2. CASE Dirtied(e) # Nil
  <2> DEFINE a == Dirtied(e)
             f == [d EXCEPT ![a] = @ + 1]
  <2>1. a \in Addrs
    BY <1>2
  <2>2. f \in [Addrs -> Nat] /\ f[a] - 1 = d[a]
    BY <2>1
  <2>3. [f EXCEPT ![a] = @ - 1] = d
    BY <2>1, <2>2
  <2> QED BY <1>2, <2>2, <2>3 DEF Counted, Discounted
<1> QED BY <1>1, <1>2

ObjectTypes == {"createObject", "resetObject", "suicide", "balance", "nonce", "code",
                "storage", "precompileCall"}

(* An entry about an object leaves the rest of the state alone. *)
LEMMA UndoObjectEntry ==
  ASSUME NEW e, e.type \in ObjectTypes, NEW s
  PROVE  Undo(e, s) = [obj |-> UndoObj(e, s.obj), dirties |-> Discounted(s.dirties, e),
                       refund |-> s.refund, logs |-> s.logs, accessList |-> s.accessList]
BY DEF Undo, UndoAccessList, ObjectTypes

LEMMA UndoObjectStep ==
  ASSUME NEW e, e.type \in ObjectTypes
  PROVE  Undo(e, StateOf') =
           [obj |-> UndoObj(e, obj'), dirties |-> Discounted(dirties', e),
            refund |-> refund', logs |-> logs', accessList |-> accessList']
<1>1. /\ StateOf'.obj = obj' /\ StateOf'.dirties = dirties' /\ StateOf'.refund = refund'
      /\ StateOf'.logs = logs' /\ StateOf'.accessList = accessList'
  BY DEF StateOf
<1>2. \A s : Undo(e, s) = [obj |-> UndoObj(e, s.obj), dirties |-> Discounted(s.dirties, e),
                       refund |-> s.refund, logs |-> s.logs, accessList |-> s.accessList]
  BY UndoObjectEntry
<1>3. Undo(e, StateOf') = [obj |-> UndoObj(e, StateOf'.obj),
                           dirties |-> Discounted(StateOf'.dirties, e),
                           refund |-> StateOf'.refund, logs |-> StateOf'.logs,
                           accessList |-> StateOf'.accessList]
  BY <1>2
<1> QED BY <1>1, <1>3

(* Undoing each kind of change of an object brings the object back. *)
LEMMA UndoCreate ==
  ASSUME NEW o \in [Addrs -> Object \cup {Nil}], NEW a \in Addrs, NEW x, o[a] = Nil
  PROVE  UndoObj(createObjectChange(a), [o EXCEPT ![a] = x]) = o
BY DEF UndoObj, createObjectChange

LEMMA UndoBalance ==
  ASSUME NEW o \in [Addrs -> Object \cup {Nil}], NEW a \in Addrs, NEW x \in Object, NEW b
  PROVE  UndoObj(balanceChange(a, x.balance), [o EXCEPT ![a] = [x EXCEPT !.balance = b]])
         = [o EXCEPT ![a] = x]
BY DEF UndoObj, balanceChange, Object

LEMMA UndoNonce ==
  ASSUME NEW o \in [Addrs -> Object \cup {Nil}], NEW a \in Addrs, NEW x \in Object, NEW n
  PROVE  UndoObj(nonceChange(a, x.nonce), [o EXCEPT ![a] = [x EXCEPT !.nonce = n]])
         = [o EXCEPT ![a] = x]
BY DEF UndoObj, nonceChange, Object

LEMMA UndoCode ==
  ASSUME NEW o \in [Addrs -> Object \cup {Nil}], NEW a \in Addrs, NEW x \in Object, NEW c
  PROVE  UndoObj(codeChange(a, x.code), [o EXCEPT ![a] = [x EXCEPT !.code = c]])
         = [o EXCEPT ![a] = x]
BY DEF UndoObj, codeChange, Object

LEMMA UndoStorage ==
  ASSUME NEW o \in [Addrs -> Object \cup {Nil}], NEW a \in Addrs, NEW x \in Object,
         NEW k \in Keys, NEW v
  PROVE  UndoObj(storageChange(a, k, x.state[k]),
                 [o EXCEPT ![a] = [x EXCEPT !.state[k] = v]]) = [o EXCEPT ![a] = x]
<1> DEFINE y == [x EXCEPT !.state[k] = v]
<1>1. [y.state EXCEPT ![k] = x.state[k]] = x.state
  BY DEF Object
<1>2. [y EXCEPT !.state = x.state] = x
  BY DEF Object
<1>3. [y EXCEPT !.state[k] = x.state[k]] = x
  BY <1>1, <1>2
<1>4. UndoObj(storageChange(a, k, x.state[k]), [o EXCEPT ![a] = y])
      = [[o EXCEPT ![a] = y] EXCEPT ![a].state[k] = x.state[k]]
  BY DEF UndoObj, storageChange
<1> QED BY <1>3, <1>4

-----------------------------------------------------------------------------
(* The access list *)

(* DeleteAddress undoes the AddAddress that was journaled. *)
LEMMA AddAddressUndone ==
  ASSUME NEW al \in AL!accessList, SoundList(al), NEW a \in Addrs,
         ~AL!ContainsAddress(al, a)
  PROVE  /\ AL!AddAddress(al, a) \in AL!accessList
         /\ SoundList(AL!AddAddress(al, a))
         /\ AL!ContainsAddress(AL!AddAddress(al, a), a)
         /\ \A slot : ~AL!Contains(AL!AddAddress(al, a), a, slot)
         /\ AL!DeleteAddress(AL!AddAddress(al, a), a) = al
<1> DEFINE new == [al EXCEPT !.addresses[a] = 0]
<1>1. al.addresses \in [Addrs -> Int] /\ al.addresses[a] = -1 /\ al.slots \in Seq(SUBSET Keys)
      /\ al = [addresses |-> al.addresses, slots |-> al.slots]
  BY DEF AL!accessList, AL!ContainsAddress, AL!Absent
<1>2. AL!AddAddress(al, a) = new
  BY DEF AL!AddAddress, AL!NoSlots
<1>3. new.addresses = [al.addresses EXCEPT ![a] = 0] /\ new.slots = al.slots
      /\ new \in AL!accessList
  <2>1. new = [addresses |-> [al.addresses EXCEPT ![a] = 0], slots |-> al.slots]
    <3>1. \A f, t : [[addresses |-> f, slots |-> t] EXCEPT !.addresses[a] = 0]
                    = [addresses |-> [f EXCEPT ![a] = 0], slots |-> t]
      OBVIOUS
    <3>2. new = [[addresses |-> al.addresses, slots |-> al.slots] EXCEPT !.addresses[a] = 0]
      BY <1>1, Zenon
    <3> QED BY <3>1, <3>2
  <2>2. [al.addresses EXCEPT ![a] = 0] \in [Addrs -> Int]
    BY <1>1
  <2> QED BY <1>1, <2>1, <2>2 DEF AL!accessList
<1>4. SoundList(new)
  BY <1>1, <1>3 DEF SoundList, AL!Absent, AL!NoSlots
<1>5. AL!DeleteAddress(new, a) = al
  <2>1. [new.addresses EXCEPT ![a] = -1] = al.addresses
    BY <1>1, <1>3
  <2>2. [new EXCEPT !.addresses = al.addresses] = al
    BY <1>3 DEF AL!accessList
  <2> QED BY <2>1, <2>2 DEF AL!DeleteAddress, AL!Absent
<1> QED BY <1>1, <1>2, <1>3, <1>4, <1>5
        DEF AL!ContainsAddress, AL!Contains, AL!Absent, AL!NoSlots

(* DeleteSlot undoes the AddSlot that was journaled: the index it cuts at  *)
(* is the last one.                                                        *)
LEMMA AddSlotUndone ==
  ASSUME NEW al \in AL!accessList, SoundList(al), NEW a \in Addrs, NEW slot \in Keys,
         AL!ContainsAddress(al, a), ~AL!Contains(al, a, slot)
  PROVE  /\ AL!AddSlot(al, a, slot) \in AL!accessList
         /\ SoundList(AL!AddSlot(al, a, slot))
         /\ AL!DeleteSlot(AL!AddSlot(al, a, slot), a, slot) = al
<1> DEFINE idx == al.addresses[a]
           n   == Len(al.slots)
           new == AL!AddSlot(al, a, slot)
<1>1. al.addresses \in [Addrs -> Int] /\ al.slots \in Seq(SUBSET Keys) /\ n \in Nat
      /\ al = [addresses |-> al.addresses, slots |-> al.slots]
  BY DEF AL!accessList
<1>2. idx = 0 \/ idx \in 1..n
  BY DEF SoundList, AL!ContainsAddress, AL!Absent, AL!NoSlots
<1>3. CASE idx = 0
  <2> DEFINE fa == [al.addresses EXCEPT ![a] = n + 1]
             fs == Append(al.slots, {slot})
  <2>1. new = [addresses |-> fa, slots |-> fs]
    BY <1>3 DEF AL!AddSlot, AL!Absent, AL!NoSlots
  <2>2. fa \in [Addrs -> Int] /\ fs \in Seq(SUBSET Keys) /\ Len(fs) = n + 1
        /\ (\A i \in 1..n : fs[i] = al.slots[i]) /\ fs[n + 1] = {slot}
    BY <1>1
  <2>3. SoundList([addresses |-> fa, slots |-> fs])
    BY <1>1, <2>2 DEF SoundList, AL!Absent, AL!NoSlots
  <2>4. SubSeq(fs, 1, n) = al.slots
    BY <1>1, <2>2
  <2>5. [fa EXCEPT ![a] = 0] = al.addresses
    BY <1>1, <1>3
  <2>6. AL!DeleteSlot(new, a, slot) = [addresses |-> [fa EXCEPT ![a] = 0],
                                      slots |-> SubSeq(fs, 1, n)]
    <3>1. fa[a] = n + 1 /\ fs[n + 1] \ {slot} = {} /\ (n + 1) - 1 = n
      BY <1>1, <2>2
    <3>2. new.addresses = fa /\ new.slots = fs
      BY <2>1
    <3> HIDE DEF new, fa, fs
    <3> QED BY <3>1, <3>2 DEF AL!DeleteSlot, AL!NoSlots
  <2> QED BY <1>1, <2>1, <2>2, <2>3, <2>4, <2>5, <2>6 DEF AL!accessList
<1>4. CASE idx \in 1..n
  <2> DEFINE fs == [al.slots EXCEPT ![idx] = @ \cup {slot}]
  <2>1. new = [addresses |-> al.addresses, slots |-> fs]
    <3>1. new = [al EXCEPT !.slots[idx] = @ \cup {slot}]
      BY <1>1, <1>4 DEF AL!AddSlot, AL!Absent, AL!NoSlots
    <3> QED BY <3>1 DEF AL!accessList
  <2>2. slot \notin al.slots[idx] /\ al.slots[idx] # {} /\ al.slots[idx] \subseteq Keys
    BY <1>1, <1>4 DEF SoundList, AL!Contains, AL!Absent, AL!NoSlots
  <2>3. fs \in Seq(SUBSET Keys) /\ Len(fs) = n /\ fs[idx] = al.slots[idx] \cup {slot}
        /\ \A i \in 1..n : i # idx => fs[i] = al.slots[i]
    BY <1>1, <1>4, <2>2
  <2>4. SoundList([addresses |-> al.addresses, slots |-> fs])
    BY <1>1, <1>4, <2>3 DEF SoundList
  <2>5. fs[idx] \ {slot} = al.slots[idx]
    BY <2>2, <2>3
  <2>6. [fs EXCEPT ![idx] = al.slots[idx]] = al.slots
    <3>1. al.slots \in [1..n -> SUBSET Keys]
      BY <1>1
    <3> QED BY <1>4, <3>1
  <2>7. AL!DeleteSlot(new, a, slot) = [addresses |-> al.addresses,
                                      slots |-> [fs EXCEPT ![idx] = al.slots[idx]]]
    BY <2>1, <2>2, <2>5 DEF AL!DeleteSlot
  <2> QED BY <1>1, <2>1, <2>3, <2>4, <2>6, <2>7 DEF AL!accessList
<1> QED BY <1>2, <1>3, <1>4

(* For an address that is not in the list yet, AddSlot is AddAddress       *)
(* followed by AddSlot: the two entries it journals.                       *)
LEMMA AddSlotSplits ==
  ASSUME NEW al \in AL!accessList, NEW a \in Addrs, NEW slot \in Keys,
         ~AL!ContainsAddress(al, a)
  PROVE  AL!AddSlot(al, a, slot) = AL!AddSlot(AL!AddAddress(al, a), a, slot)
BY DEF AL!AddSlot, AL!AddAddress, AL!ContainsAddress, AL!Absent, AL!NoSlots, AL!accessList

-----------------------------------------------------------------------------
(* Steps that write to the journal *)

GoodState(s) == s \in State /\ SoundList(s.accessList) /\ Backed(s)

Grows1(e) ==
  /\ e \in Entry
  /\ journal' = Append(journal, e)
  /\ GoodState(StateOf')
  /\ Undo(e, StateOf') = StateOf

Grows2(e1, e2, m) ==
  /\ e1 \in Entry /\ e2 \in Entry
  /\ journal' = Append(Append(journal, e1), e2)
  /\ GoodState(m) /\ GoodState(StateOf')
  /\ Undo(e2, StateOf') = m
  /\ Undo(e1, m) = StateOf

(* A step that adds one or two entries, each of which undoes its part.     *)
Grows == (\E e : Grows1(e)) \/ (\E e1, e2, m : Grows2(e1, e2, m))

(* A step that leaves the journal and what it restores alone. *)
Still == journal' = journal /\ StateOf' = StateOf

HistStep ==
  hist' = CASE Len(journal') > Len(journal) -> Extended
            [] Len(journal') < Len(journal) -> SubSeq(hist, 1, Len(hist) - 1)
            [] OTHER -> hist

(* What a step that grows the journal does to the history: the old states  *)
(* stay and undoing remains exact.                                         *)
LEMMA GrowsHistory ==
  ASSUME IInv, Grows, HistStep, cache' \in MultiStore
  PROVE  /\ journal' \in Seq(Entry)
         /\ Len(journal') > Len(journal)
         /\ HistoryOK'
         /\ UndoIsExact'
         /\ \A i \in 1..Len(hist) : hist'[i] = hist[i]
<1> DEFINE n  == Len(journal)
           HS == [st : State, cache : MultiStore]
           c0 == hist[Len(hist)].cache
           c1 == IF journal'[Len(journal')].type = "precompileCall" THEN cache' ELSE c0
           now == [st |-> StateOf', cache |-> c1]
<1>1. /\ journal \in Seq(Entry) /\ n \in Nat
      /\ hist \in Seq(HS) /\ Len(hist) = n + 1
      /\ \A i \in 1..(n + 1) : hist[i] \in HS /\ GoodState(hist[i].st)
      /\ hist[n + 1].st = StateOf
      /\ \A i \in 1..n : Undo(journal[i], hist[i + 1].st) = hist[i].st
  <2>1. journal \in Seq(Entry) /\ hist \in Seq(HS) /\ Len(hist) = n + 1
        /\ hist[Len(hist)].st = StateOf
    BY DEF IInv, TypeOK, HistoryOK, UndoIsExact
  <2>2. \A i \in 1..Len(hist) : SoundList(hist[i].st.accessList) /\ Backed(hist[i].st)
    BY DEF IInv, HistoryOK
  <2>3. \A i \in 1..n : Undo(journal[i], hist[i + 1].st) = hist[i].st
    BY DEF IInv, UndoIsExact
  <2>4. \A x \in HS : x.st \in State
    OBVIOUS
  <2> HIDE DEF HS
  <2>5. n \in Nat /\ \A i \in 1..Len(hist) : hist[i] \in HS
    BY <2>1
  <2> QED BY <2>1, <2>2, <2>3, <2>4, <2>5 DEF GoodState
<1>2. c0 \in MultiStore /\ c1 \in MultiStore
  BY <1>1
<1> HIDE DEF HS, c1
<1>3. ASSUME NEW e, Grows1(e)
      PROVE  /\ journal' \in Seq(Entry)
             /\ Len(journal') > Len(journal)
             /\ HistoryOK'
             /\ UndoIsExact'
             /\ \A i \in 1..Len(hist) : hist'[i] = hist[i]
  <2>1. /\ journal' \in Seq(Entry) /\ Len(journal') = n + 1
        /\ \A i \in 1..n : journal'[i] = journal[i]
        /\ journal'[n + 1] = e
    BY <1>1, <1>3 DEF Grows1
  <2>2. hist' = Append(hist, now)
    <3>1. hist' = Extended
      BY <1>1, <2>1 DEF HistStep
    <3> QED BY <1>1, <2>1, <3>1 DEF Extended, c1
  <2>3. now \in HS /\ now.st = StateOf' /\ GoodState(now.st)
    BY <1>2, <1>3 DEF Grows1, GoodState, HS
  <2> HIDE DEF now
  <2>4. /\ hist' \in Seq(HS) /\ Len(hist') = n + 2 /\ hist'[n + 2] = now
        /\ \A i \in 1..(n + 1) : hist'[i] = hist[i]
    BY <1>1, <2>2, <2>3
  <2>5. \A i \in 1..(n + 1) : Undo(journal'[i], hist'[i + 1].st) = hist'[i].st
    <3> SUFFICES ASSUME NEW i \in 1..(n + 1)
                 PROVE  Undo(journal'[i], hist'[i + 1].st) = hist'[i].st
      OBVIOUS
    <3>1. CASE i \in 1..n
      <4>1. i + 1 \in 1..(n + 1) /\ i \in 1..(n + 1)
        BY <1>1, <3>1
      <4>2. hist'[i + 1] = hist[i + 1] /\ hist'[i] = hist[i] /\ journal'[i] = journal[i]
        BY <2>1, <2>4, <3>1, <4>1
      <4> QED BY <1>1, <3>1, <4>2
    <3>2. CASE i = n + 1
      BY <1>1, <1>3, <2>1, <2>3, <2>4, <3>2 DEF Grows1
    <3> QED BY <1>1, <3>1, <3>2
  <2>6. UndoIsExact'
    BY <1>1, <2>1, <2>3, <2>4, <2>5 DEF UndoIsExact
  <2>7. \A i \in 1..(n + 2) : GoodState(hist'[i].st)
    BY <1>1, <2>3, <2>4
  <2>8. HistoryOK'
    BY <2>4, <2>7 DEF HistoryOK, GoodState, HS
  <2> QED BY <1>1, <2>1, <2>4, <2>6, <2>8
<1>4. ASSUME NEW e1, NEW e2, NEW m, Grows2(e1, e2, m)
      PROVE  /\ journal' \in Seq(Entry)
             /\ Len(journal') > Len(journal)
             /\ HistoryOK'
             /\ UndoIsExact'
             /\ \A i \in 1..Len(hist) : hist'[i] = hist[i]
  <2> DEFINE mid == [st |-> m, cache |-> c0]
  <2>1. /\ journal' \in Seq(Entry) /\ Len(journal') = n + 2
        /\ \A i \in 1..n : journal'[i] = journal[i]
        /\ journal'[n + 1] = e1 /\ journal'[n + 2] = e2
    BY <1>1, <1>4 DEF Grows2
  <2>2. hist' = Append(Append(hist, mid), now)
    <3>1. hist' = Extended
      BY <1>1, <2>1 DEF HistStep
    <3>2. Undo(journal'[Len(journal')], StateOf') = m
      BY <1>4, <2>1 DEF Grows2
    <3> QED BY <1>1, <2>1, <3>1, <3>2 DEF Extended, c1
  <2>3. /\ now \in HS /\ now.st = StateOf' /\ GoodState(now.st)
        /\ mid \in HS /\ mid.st = m /\ GoodState(mid.st)
    BY <1>2, <1>4 DEF Grows2, GoodState, HS
  <2> HIDE DEF now, mid
  <2>4. /\ hist' \in Seq(HS) /\ Len(hist') = n + 3
        /\ hist'[n + 2] = mid /\ hist'[n + 3] = now
        /\ \A i \in 1..(n + 1) : hist'[i] = hist[i]
    BY <1>1, <2>2, <2>3
  <2>5. \A i \in 1..(n + 2) : Undo(journal'[i], hist'[i + 1].st) = hist'[i].st
    <3> SUFFICES ASSUME NEW i \in 1..(n + 2)
                 PROVE  Undo(journal'[i], hist'[i + 1].st) = hist'[i].st
      OBVIOUS
    <3>1. CASE i \in 1..n
      <4>1. i + 1 \in 1..(n + 1) /\ i \in 1..(n + 1)
        BY <1>1, <3>1
      <4>2. hist'[i + 1] = hist[i + 1] /\ hist'[i] = hist[i] /\ journal'[i] = journal[i]
        BY <2>1, <2>4, <3>1, <4>1
      <4> QED BY <1>1, <3>1, <4>2
    <3>2. CASE i = n + 1
      BY <1>1, <1>4, <2>1, <2>3, <2>4, <3>2 DEF Grows2
    <3>3. CASE i = n + 2
      BY <1>1, <1>4, <2>1, <2>3, <2>4, <3>3 DEF Grows2
    <3> QED BY <1>1, <3>1, <3>2, <3>3
  <2>6. UndoIsExact'
    BY <1>1, <2>1, <2>3, <2>4, <2>5 DEF UndoIsExact
  <2>7. \A i \in 1..(n + 3) : GoodState(hist'[i].st)
    BY <1>1, <2>3, <2>4
  <2>8. HistoryOK'
    BY <2>4, <2>7 DEF HistoryOK, GoodState, HS
  <2> QED BY <1>1, <2>1, <2>4, <2>6, <2>8
<1> QED BY <1>3, <1>4 DEF Grows

-----------------------------------------------------------------------------
(* The operations grow the journal *)

(* The parts of the type invariant the setters need. *)
LEMMA TypeParts ==
  ASSUME TypeOK
  PROVE  /\ obj \in [Addrs -> Object \cup {Nil}]
         /\ dirties \in [Addrs -> Nat]
         /\ refund \in Nat
         /\ logs \in Seq([data : LogData, index : Nat])
         /\ accessList \in AL!accessList
         /\ ctx \in MultiStore
BY DEF TypeOK, StateOf, State

LEMMA ListParts ==
  ASSUME GoodState(StateOf)
  PROVE  SoundList(accessList)
BY DEF GoodState, StateOf

(* A new object, and the object of any address, is well formed. *)
LEMMA NewObjectType ==
  ASSUME TypeOK, NEW a \in Addrs
  PROVE  newObject(a) \in Object /\ getOrNewStateObject(a) \in Object
<1>1. ctx.acct[a].storage \in [Keys -> Values]
  BY TypeParts DEF MultiStore, Account
<1>2. newObject(a) \in Object
  BY <1>1 DEF newObject, Object
<1> QED BY <1>2, TypeParts DEF getOrNewStateObject

(* One journaled change of the objects. *)
LEMMA OneObjectEntry ==
  ASSUME TypeOK, GoodState(StateOf), NEW e \in Entry,
         e.type \in ObjectTypes, Dirtied(e) \in Addrs \cup {Nil},
         append(e), obj' \in [Addrs -> Object \cup {Nil}], UndoObj(e, obj') = obj,
         \A b \in Addrs : obj[b] # Nil \/ Dirtied(e) = b => obj'[b] # Nil,
         UNCHANGED txState
  PROVE  Grows
<1>1. refund' = refund /\ logs' = logs /\ accessList' = accessList
  BY DEF txState
<1>2. journal' = Append(journal, e) /\ dirties' = Counted(dirties, e)
  BY DEF append
<1>3. dirties' \in [Addrs -> Nat] /\ Discounted(dirties', e) = dirties
  BY <1>2, TypeParts, CountedDiscounted
<1>4. GoodState(StateOf')
  <2>1. StateOf' \in State /\ SoundList(accessList')
    BY <1>1, <1>3, TypeParts DEF GoodState, StateOf, State
  <2>2. Backed(StateOf')
    BY <1>2, TypeParts, NilAssumption
       DEF NilAssumption, GoodState, Backed, StateOf, Counted
  <2> QED BY <2>1, <2>2 DEF GoodState, StateOf
<1>5. Undo(e, StateOf') = StateOf
  BY <1>1, <1>3, UndoObjectStep DEF StateOf
<1> QED BY <1>2, <1>4, <1>5 DEF Grows, Grows1

(* Two journaled changes of the objects, o1 the objects between them. *)
LEMMA TwoObjectEntries ==
  ASSUME TypeOK, GoodState(StateOf), NEW e1 \in Entry, NEW e2 \in Entry,
         e1.type \in ObjectTypes, Dirtied(e1) \in Addrs \cup {Nil},
         e2.type \in ObjectTypes, Dirtied(e2) \in Addrs \cup {Nil},
         append2(e1, e2), obj' \in [Addrs -> Object \cup {Nil}],
         NEW o1 \in [Addrs -> Object \cup {Nil}],
         UndoObj(e2, obj') = o1, UndoObj(e1, o1) = obj,
         \A b \in Addrs : obj[b] # Nil \/ Dirtied(e1) = b => o1[b] # Nil,
         \A b \in Addrs : o1[b] # Nil \/ Dirtied(e2) = b => obj'[b] # Nil,
         UNCHANGED txState
  PROVE  Grows
<1> DEFINE d1 == Counted(dirties, e1)
           m  == [obj |-> o1, dirties |-> d1, refund |-> refund, logs |-> logs,
                  accessList |-> accessList]
<1>1. refund' = refund /\ logs' = logs /\ accessList' = accessList
  BY DEF txState
<1>2. journal' = Append(Append(journal, e1), e2) /\ dirties' = Counted(d1, e2)
  BY DEF append2
<1>3. d1 \in [Addrs -> Nat] /\ Discounted(d1, e1) = dirties
  BY TypeParts, CountedDiscounted
<1>4. dirties' \in [Addrs -> Nat] /\ Discounted(dirties', e2) = d1
  BY <1>2, <1>3, CountedDiscounted
<1>5. GoodState(StateOf') /\ GoodState(m)
  <2>1. /\ StateOf' \in State /\ SoundList(accessList')
        /\ m \in State /\ SoundList(accessList)
    BY <1>1, <1>3, <1>4, TypeParts DEF GoodState, StateOf, State
  <2>2. \A b \in Addrs : d1[b] > 0 => o1[b] # Nil
    BY <1>3, TypeParts, NilAssumption
       DEF NilAssumption, GoodState, Backed, StateOf, Counted
  <2> HIDE DEF d1
  <2>3. \A b \in Addrs : dirties'[b] > 0 => obj'[b] # Nil
    BY <1>2, <1>3, <2>2, NilAssumption DEF NilAssumption, Counted
  <2> QED BY <2>1, <2>2, <2>3 DEF GoodState, Backed, StateOf
<1>6. Undo(e2, StateOf') = m
  BY <1>1, <1>4, UndoObjectStep
<1>7. Undo(e1, m) = StateOf
  <2>1. /\ m.obj = o1 /\ m.dirties = d1 /\ m.refund = refund
        /\ m.logs = logs /\ m.accessList = accessList
    OBVIOUS
  <2> HIDE DEF m, d1
  <2>2. Undo(e1, m) = [obj |-> UndoObj(e1, m.obj), dirties |-> Discounted(m.dirties, e1),
                       refund |-> m.refund, logs |-> m.logs, accessList |-> m.accessList]
    BY UndoObjectEntry
  <2> QED BY <1>3, <2>1, <2>2 DEF StateOf
<1> HIDE DEF m
<1> QED BY <1>2, <1>5, <1>6, <1>7 DEF Grows, Grows2

LEMMA ObjectIsNotNil == \A x \in Object : x # Nil
BY ObjectAssumption DEF ObjectAssumption

LEMMA CreateEntry ==
  ASSUME NEW a \in Addrs
  PROVE  /\ createObjectChange(a) \in Entry
         /\ createObjectChange(a).type \in ObjectTypes
         /\ Dirtied(createObjectChange(a)) \in Addrs \cup {Nil}
BY DEF createObjectChange, Entry, ObjectTypes, Dirtied

(* getOrNewStateObject and one journaled change of the object. *)
LEMMA SetObjectGrows ==
  ASSUME TypeOK, GoodState(StateOf),
         NEW a \in Addrs, NEW x \in Object, NEW e \in Entry,
         e.type \in ObjectTypes, Dirtied(e) \in {a, Nil},
         UndoObj(e, [obj EXCEPT ![a] = x]) = [obj EXCEPT ![a] = getOrNewStateObject(a)],
         SetObject(a, x, e), UNCHANGED txState
  PROVE  Grows
<1> DEFINE o1 == [obj EXCEPT ![a] = getOrNewStateObject(a)]
           ce == createObjectChange(a)
<1>1. obj' = [obj EXCEPT ![a] = x]
  BY DEF SetObject
<1>2. obj' \in [Addrs -> Object \cup {Nil}] /\ UndoObj(e, obj') = o1
  BY <1>1, TypeParts
<1>3. CASE obj[a] # Nil
  <2>1. o1 = obj
    BY <1>3, TypeParts DEF getOrNewStateObject
  <2>2. append(e)
    BY <1>3 DEF SetObject
  <2>3. \A b \in Addrs : obj[b] # Nil \/ Dirtied(e) = b => obj'[b] # Nil
    BY <1>1, ObjectIsNotNil, TypeParts, NilAssumption DEF NilAssumption
  <2> QED BY <1>2, <2>1, <2>2, <2>3, OneObjectEntry
<1>4. CASE obj[a] = Nil
  <2>1. append2(ce, e)
    BY <1>4 DEF SetObject
  <2>2. getOrNewStateObject(a) \in Object
    BY NewObjectType
  <2>3. o1 \in [Addrs -> Object \cup {Nil}] /\ UndoObj(ce, o1) = obj
    BY <1>4, <2>2, TypeParts, UndoCreate
  <2>4. ce \in Entry /\ ce.type \in ObjectTypes /\ Dirtied(ce) \in Addrs \cup {Nil}
    BY CreateEntry
  <2>5. \A b \in Addrs : obj[b] # Nil \/ Dirtied(ce) = b => o1[b] # Nil
    BY <2>2, ObjectIsNotNil, TypeParts DEF createObjectChange, Dirtied
  <2>6. \A b \in Addrs : o1[b] # Nil \/ Dirtied(e) = b => obj'[b] # Nil
    BY <1>1, ObjectIsNotNil, TypeParts, NilAssumption DEF NilAssumption
  <2> HIDE DEF o1, ce
  <2> QED BY <1>2, <2>1, <2>3, <2>4, <2>5, <2>6, TwoObjectEntries
<1> QED BY <1>3, <1>4

(* getOrNewStateObject that creates the object and changes nothing else. *)
LEMMA CreateObjectGrows ==
  ASSUME TypeOK, GoodState(StateOf), NEW a \in Addrs, NEW x \in Object,
         obj[a] = Nil, obj' = [obj EXCEPT ![a] = x],
         append(createObjectChange(a)), UNCHANGED txState
  PROVE  Grows
<1> DEFINE ce == createObjectChange(a)
<1>1. obj' \in [Addrs -> Object \cup {Nil}] /\ UndoObj(ce, obj') = obj
  BY TypeParts, UndoCreate
<1>2. ce \in Entry /\ ce.type \in ObjectTypes /\ Dirtied(ce) \in Addrs \cup {Nil}
  BY CreateEntry
<1>3. \A b \in Addrs : obj[b] # Nil \/ Dirtied(ce) = b => obj'[b] # Nil
  BY ObjectIsNotNil, TypeParts DEF createObjectChange, Dirtied
<1>4. append(ce)
  OBVIOUS
<1> HIDE DEF ce
<1> QED BY <1>1, <1>2, <1>3, <1>4, OneObjectEntry

(* CreateAccount of evm.create: the object is created or replaced. *)
LEMMA CreateContractGrows ==
  ASSUME TypeOK, GoodState(StateOf), NEW a \in Addrs, CreateContract(a)
  PROVE  Grows
<1> DEFINE prev == getOrNewStateObject(a)
           new  == [newObject(a) EXCEPT !.balance = prev.balance]
           e1   == IF obj[a] = Nil THEN createObjectChange(a) ELSE resetObjectChange(a)
           e2   == nonceChange(a, 0)
           o1   == [obj EXCEPT ![a] = new]
           x    == [new EXCEPT !.nonce = 1]
<1>1. prev \in Object /\ newObject(a) \in Object
  BY NewObjectType
<1>2. new \in Object /\ new.nonce = 0
  BY <1>1 DEF Object, newObject
<1> HIDE DEF new
<1>3. x \in Object
  BY <1>2 DEF Object
<1>4. obj' = [obj EXCEPT ![a] = x] /\ append2(e1, e2) /\ UNCHANGED txState
  BY DEF CreateContract, new
<1>5. o1 \in [Addrs -> Object \cup {Nil}] /\ obj' \in [Addrs -> Object \cup {Nil}]
  BY <1>2, <1>3, <1>4, TypeParts
<1>6. UndoObj(e2, obj') = o1
  BY <1>2, <1>4, TypeParts, UndoNonce
<1>7. UndoObj(e1, o1) = obj
  BY TypeParts DEF UndoObj, createObjectChange, resetObjectChange
<1>8. e1 \in Entry /\ e1.type \in ObjectTypes /\ Dirtied(e1) \in Addrs \cup {Nil}
  <2>1. CASE obj[a] = Nil
    BY <2>1, CreateEntry
  <2>2. CASE obj[a] # Nil
    <3>1. obj[a] \in Object /\ dirtyStorage[a] \in SUBSET Keys /\ dirtyCode[a] \in BOOLEAN
      BY <2>2, TypeParts DEF TypeOK
    <3>2. resetObjectChange(a) \in [type : {"resetObject"}, addr : Addrs, prev : Object,
                                    prevKeys : SUBSET Keys, prevDirtyCode : BOOLEAN]
      BY <3>1 DEF resetObjectChange
    <3> QED BY <2>2, <3>2 DEF resetObjectChange, Entry, ObjectTypes, Dirtied
  <2> QED BY <2>1, <2>2
<1>9. e2 \in Entry /\ e2.type \in ObjectTypes /\ Dirtied(e2) \in Addrs \cup {Nil}
  BY DEF nonceChange, Entry, ObjectTypes, Dirtied
<1>10. /\ \A b \in Addrs : obj[b] # Nil \/ Dirtied(e1) = b => o1[b] # Nil
       /\ \A b \in Addrs : o1[b] # Nil \/ Dirtied(e2) = b => obj'[b] # Nil
  <2>1. Dirtied(e1) \in {a, Nil} /\ Dirtied(e2) \in {a, Nil}
    BY DEF createObjectChange, resetObjectChange, nonceChange, Dirtied
  <2> HIDE DEF e1, e2, x
  <2> QED BY <1>2, <1>3, <1>4, <2>1, ObjectIsNotNil, TypeParts, NilAssumption
          DEF NilAssumption
<1> HIDE DEF e1, e2, o1, x
<1>11. append2(e1, e2) /\ UNCHANGED txState
  BY <1>4
<1> QED BY <1>5, <1>6, <1>7, <1>8, <1>9, <1>10, <1>11, TwoObjectEntries

(* A balance change, of the EVM or mirrored from a precompile. *)
LEMMA ChangeBalanceGrows ==
  ASSUME TypeOK, GoodState(StateOf), NEW a \in Addrs, NEW adj, NEW b \in Int,
         ChangeBalance(a, adj, b), UNCHANGED txState
  PROVE  Grows \/ Still
<1> DEFINE o == getOrNewStateObject(a)
           x == [o EXCEPT !.balance = b]
           e == balanceChange(a, o.balance)
<1>1. o \in Object
  BY NewObjectType
<1>2. CASE adj # 0
  <2>1. x \in Object /\ e \in Entry /\ e.type \in ObjectTypes
        /\ Dirtied(e) \in {a, Nil}
    BY <1>1 DEF Object, balanceChange, Entry, ObjectTypes, Dirtied
  <2>2. UndoObj(e, [obj EXCEPT ![a] = x]) = [obj EXCEPT ![a] = o]
    BY <1>1, TypeParts, UndoBalance
  <2>3. SetObject(a, x, e)
    BY <1>2 DEF ChangeBalance
  <2> HIDE DEF x, e
  <2> QED BY <2>1, <2>2, <2>3, SetObjectGrows
<1>3. CASE adj = 0 /\ obj[a] = Nil
  BY <1>1, <1>3, CreateObjectGrows DEF ChangeBalance
<1>4. CASE adj = 0 /\ obj[a] # Nil
  <2>1. obj' = obj
    BY <1>4, TypeParts DEF ChangeBalance, getOrNewStateObject
  <2> QED BY <1>4, <2>1 DEF ChangeBalance, Still, StateOf, journals, txState
<1> QED BY <1>2, <1>3, <1>4

LEMMA SetNonceGrows ==
  ASSUME TypeOK, GoodState(StateOf), NEW a \in Addrs, NEW n \in Nat, SetNonce(a, n)
  PROVE  Grows
<1> DEFINE o == getOrNewStateObject(a)
           x == [o EXCEPT !.nonce = n]
           e == nonceChange(a, o.nonce)
<1>1. o \in Object
  BY NewObjectType
<1>2. x \in Object /\ e \in Entry /\ e.type \in ObjectTypes
      /\ Dirtied(e) \in {a, Nil}
  BY <1>1 DEF Object, nonceChange, Entry, ObjectTypes, Dirtied
<1>3. UndoObj(e, [obj EXCEPT ![a] = x]) = [obj EXCEPT ![a] = o]
  BY <1>1, TypeParts, UndoNonce
<1>4. SetObject(a, x, e) /\ UNCHANGED txState
  BY DEF SetNonce
<1> HIDE DEF x, e
<1> QED BY <1>2, <1>3, <1>4, SetObjectGrows

LEMMA SetCodeGrows ==
  ASSUME TypeOK, GoodState(StateOf), NEW a \in Addrs,
         NEW code \in Codes \cup {EmptyCode}, SetCode(a, code)
  PROVE  Grows
<1> DEFINE o == obj[a]
           x == [o EXCEPT !.code = code]
           e == codeChange(a, o.code)
<1>1. o \in Object /\ o = getOrNewStateObject(a)
  BY TypeParts DEF SetCode, Executing, getOrNewStateObject
<1>2. x \in Object /\ e \in Entry /\ e.type \in ObjectTypes
      /\ Dirtied(e) \in {a, Nil}
  BY <1>1 DEF Object, codeChange, Entry, ObjectTypes, Dirtied
<1>3. UndoObj(e, [obj EXCEPT ![a] = x]) = [obj EXCEPT ![a] = o]
  BY <1>1, TypeParts, UndoCode
<1>4. SetObject(a, x, e) /\ UNCHANGED txState
  BY DEF SetCode
<1> HIDE DEF x, e
<1> QED BY <1>1, <1>2, <1>3, <1>4, SetObjectGrows

LEMMA SetStateGrows ==
  ASSUME TypeOK, GoodState(StateOf), NEW a \in Addrs, NEW k \in Keys, NEW v \in Values,
         SetState(a, k, v)
  PROVE  Grows
<1> DEFINE o == obj[a]
           x == [o EXCEPT !.state[k] = v]
           e == storageChange(a, k, o.state[k])
<1>1. o \in Object /\ o = getOrNewStateObject(a)
  BY TypeParts DEF SetState, Executing, getOrNewStateObject
<1>2. x \in Object /\ e \in Entry /\ e.type \in ObjectTypes
      /\ Dirtied(e) \in {a, Nil}
  BY <1>1 DEF Object, storageChange, Entry, ObjectTypes, Dirtied
<1>3. UndoObj(e, [obj EXCEPT ![a] = x]) = [obj EXCEPT ![a] = o]
  <2>1. \A p \in Object : \A w : UndoObj(storageChange(a, k, p.state[k]),
                                    [obj EXCEPT ![a] = [p EXCEPT !.state[k] = w]])
                            = [obj EXCEPT ![a] = p]
    BY TypeParts, UndoStorage
  <2> QED BY <1>1, <2>1
<1>4. SetObject(a, x, e) /\ UNCHANGED txState
  BY DEF SetState
<1> HIDE DEF x, e
<1> QED BY <1>1, <1>2, <1>3, <1>4, SetObjectGrows

LEMMA SuicideGrows ==
  ASSUME TypeOK, GoodState(StateOf), NEW a \in Addrs, Suicide(a)
  PROVE  Grows
<1> DEFINE o == obj[a]
           x == [o EXCEPT !.suicided = TRUE, !.balance = 0]
           e == suicideChange(a)
<1>1. o \in Object /\ o = getOrNewStateObject(a)
  BY TypeParts DEF Suicide, Executing, getOrNewStateObject
<1>2. x \in Object /\ e \in Entry /\ e.type \in ObjectTypes
      /\ Dirtied(e) \in {a, Nil}
  <2>1. o.suicided \in BOOLEAN /\ o.balance \in Int
    BY <1>1 DEF Object
  <2>2. e \in [type : {"suicide"}, addr : Addrs, prev : BOOLEAN, prevbalance : Int]
    BY <2>1 DEF suicideChange
  <2>3. x \in Object
    <3> DEFINE y == [o EXCEPT !.suicided = TRUE]
    <3>1. x = [y EXCEPT !.balance = 0]
      OBVIOUS
    <3>2. y \in Object
      BY <1>1 DEF Object
    <3> HIDE DEF x, y
    <3> QED BY <3>1, <3>2 DEF Object
  <2> QED BY <2>2, <2>3 DEF suicideChange, Entry, ObjectTypes, Dirtied
<1>3. UndoObj(e, [obj EXCEPT ![a] = x]) = [obj EXCEPT ![a] = o]
  <2>1. [x EXCEPT !.suicided = o.suicided, !.balance = o.balance] = o
    BY <1>1 DEF Object
  <2>2. UndoObj(e, [obj EXCEPT ![a] = x])
        = [[obj EXCEPT ![a] = x] EXCEPT ![a].suicided = o.suicided, ![a].balance = o.balance]
    BY DEF UndoObj, suicideChange
  <2> HIDE DEF x
  <2> QED BY <2>1, <2>2, TypeParts
<1>4. SetObject(a, x, e) /\ UNCHANGED txState
  BY DEF Suicide
<1> HIDE DEF x, e
<1> QED BY <1>1, <1>2, <1>3, <1>4, SetObjectGrows

(* AddAddressToAccessList *)
LEMMA AddAddressGrows ==
  ASSUME TypeOK, GoodState(StateOf), NEW a \in Addrs,
         JournaledAddAddress(a), UNCHANGED <<obj, refund, logs>>
  PROVE  Grows \/ Still
<1> DEFINE e == accessListAddAccountChange(a)
<1>1. CASE AL!ContainsAddress(accessList, a)
  BY <1>1 DEF JournaledAddAddress, AL!AddAddress, AL!ContainsAddress, journals, Still, StateOf
<1>2. CASE ~AL!ContainsAddress(accessList, a)
  <2>1. journal' = Append(journal, e) /\ dirties' = Counted(dirties, e)
        /\ accessList' = AL!AddAddress(accessList, a)
    BY <1>2 DEF JournaledAddAddress, append
  <2>2. e \in Entry /\ Dirtied(e) = Nil /\ e.type = "accessListAddAccount" /\ e.addr = a
    BY DEF accessListAddAccountChange, Entry, Dirtied
  <2>3. dirties' = dirties
    BY <2>1, <2>2 DEF Counted
  <2>4. GoodState(StateOf')
    BY <1>2, <2>1, <2>3, TypeParts, ListParts, AddAddressUndone
       DEF GoodState, Backed, StateOf, State
  <2>5. Undo(e, StateOf') = StateOf
    <3>1. AL!DeleteAddress(accessList', a) = accessList
      BY <1>2, <2>1, TypeParts, ListParts, AddAddressUndone
    <3> QED BY <2>2, <2>3, <3>1 DEF Undo, UndoObj, UndoAccessList, Discounted, StateOf
  <2> QED BY <2>1, <2>2, <2>4, <2>5 DEF Grows, Grows1
<1> QED BY <1>1, <1>2

(* AddSlotToAccessList: one entry, or two for an address that is new. *)
LEMMA AddSlotGrows ==
  ASSUME TypeOK, GoodState(StateOf), NEW a \in Addrs, NEW k \in Keys,
         JournaledAddSlot(a, k), UNCHANGED <<obj, refund, logs>>
  PROVE  Grows \/ Still
<1> DEFINE ea == accessListAddAccountChange(a)
           es == accessListAddSlotChange(a, k)
           l1 == AL!AddAddress(accessList, a)
<1>1. /\ ea \in Entry /\ Dirtied(ea) = Nil /\ ea.type = "accessListAddAccount" /\ ea.addr = a
      /\ es \in Entry /\ Dirtied(es) = Nil /\ es.type = "accessListAddSlot"
      /\ es.addr = a /\ es.slot = k
  BY DEF accessListAddAccountChange, accessListAddSlotChange, Entry, Dirtied
<1>2. accessList \in AL!accessList
  BY TypeParts
<1>3. CASE AL!Contains(accessList, a, k)
  <2>1. accessList' = accessList
    <3>1. accessList.addresses[a] \notin {-1, 0}
          /\ k \in accessList.slots[accessList.addresses[a]]
      BY <1>3 DEF AL!Contains, AL!Absent, AL!NoSlots
    <3>2. AL!AddSlot(accessList, a, k) = accessList
      BY <1>2, <3>1 DEF AL!AddSlot, AL!accessList, AL!Absent, AL!NoSlots
    <3> QED BY <3>2 DEF JournaledAddSlot
  <2> QED BY <1>3, <2>1 DEF JournaledAddSlot, journals, Still, StateOf
<1>4. CASE ~AL!Contains(accessList, a, k) /\ AL!ContainsAddress(accessList, a)
  <2>1. journal' = Append(journal, es) /\ dirties' = dirties
        /\ accessList' = AL!AddSlot(accessList, a, k)
    BY <1>1, <1>4 DEF JournaledAddSlot, append, Counted
  <2>2. accessList' \in AL!accessList /\ SoundList(accessList')
        /\ AL!DeleteSlot(accessList', a, k) = accessList
    BY <1>2, <1>4, <2>1, ListParts, AddSlotUndone
  <2>3. GoodState(StateOf')
    BY <2>1, <2>2, TypeParts DEF GoodState, Backed, StateOf, State
  <2>4. Undo(es, StateOf') = StateOf
    <3> HIDE DEF es
    <3> QED BY <1>1, <2>1, <2>2 DEF Undo, UndoObj, UndoAccessList, Discounted, StateOf
  <2> QED BY <1>1, <2>1, <2>3, <2>4 DEF Grows, Grows1
<1>5. CASE ~AL!Contains(accessList, a, k) /\ ~AL!ContainsAddress(accessList, a)
  <2> DEFINE m == [obj |-> obj, dirties |-> dirties, refund |-> refund, logs |-> logs,
                   accessList |-> l1]
  <2>1. journal' = Append(Append(journal, ea), es) /\ dirties' = dirties
        /\ accessList' = AL!AddSlot(accessList, a, k)
    BY <1>1, <1>5 DEF JournaledAddSlot, append2, Counted
  <2>2. /\ l1 \in AL!accessList /\ SoundList(l1)
        /\ AL!ContainsAddress(l1, a) /\ ~AL!Contains(l1, a, k)
        /\ AL!DeleteAddress(l1, a) = accessList
    BY <1>2, <1>5, ListParts, AddAddressUndone
  <2>3. accessList' = AL!AddSlot(l1, a, k)
    BY <1>2, <1>5, <2>1, AddSlotSplits
  <2> HIDE DEF l1, ea, es
  <2>4. accessList' \in AL!accessList /\ SoundList(accessList')
        /\ AL!DeleteSlot(accessList', a, k) = l1
    BY <2>2, <2>3, AddSlotUndone
  <2>5. GoodState(StateOf') /\ GoodState(m)
    BY <2>1, <2>2, <2>4, TypeParts DEF GoodState, Backed, StateOf, State
  <2>6. Undo(es, StateOf') = m
    BY <1>1, <2>1, <2>4 DEF Undo, UndoObj, UndoAccessList, Discounted, StateOf
  <2>7. Undo(ea, m) = StateOf
    BY <1>1, <2>2 DEF Undo, UndoObj, UndoAccessList, Discounted, StateOf
  <2> HIDE DEF m
  <2> QED BY <1>1, <2>1, <2>5, <2>6, <2>7 DEF Grows, Grows2
<1> QED BY <1>3, <1>4, <1>5

(* AddRefund and SubRefund *)
LEMMA RefundGrows ==
  ASSUME TypeOK, GoodState(StateOf), append(refundChange), refund' \in Nat,
         UNCHANGED <<obj, logs, accessList>>
  PROVE  Grows
<1> DEFINE e == refundChange
<1>1. e \in Entry /\ Dirtied(e) = Nil /\ e.type = "refund" /\ e.prev = refund
  BY TypeParts DEF refundChange, Entry, Dirtied
<1>2. journal' = Append(journal, e) /\ dirties' = dirties
  BY <1>1 DEF append, Counted
<1>3. GoodState(StateOf')
  BY <1>2, TypeParts DEF GoodState, Backed, StateOf, State
<1>4. Undo(e, StateOf') = StateOf
  <2> HIDE DEF e
  <2> QED BY <1>1, <1>2 DEF Undo, UndoObj, UndoAccessList, Discounted, StateOf
<1> QED BY <1>1, <1>2, <1>3, <1>4 DEF Grows, Grows1

LEMMA AddLogGrows ==
  ASSUME TypeOK, GoodState(StateOf), NEW data \in LogData, AddLog(data)
  PROVE  Grows
<1> DEFINE e == addLogChange
           l == [data |-> data, index |-> Len(logs)]
           L == [data : LogData, index : Nat]
<1>1. e \in Entry /\ Dirtied(e) = Nil /\ e.type = "addLog"
  BY DEF addLogChange, Entry, Dirtied
<1>2. journal' = Append(journal, e) /\ dirties' = dirties /\ logs' = Append(logs, l)
      /\ UNCHANGED <<obj, refund, accessList>>
  BY <1>1 DEF AddLog, append, Counted, objects
<1>3. logs \in Seq(L)
  BY TypeParts
<1>4. l \in L
  BY <1>3
<1> HIDE DEF l, L
<1>5. logs' \in Seq(L) /\ SubSeq(logs', 1, Len(logs') - 1) = logs
  BY <1>2, <1>3, <1>4
<1>6. GoodState(StateOf')
  BY <1>2, <1>5, TypeParts DEF GoodState, Backed, StateOf, State, L
<1>7. Undo(e, StateOf') = StateOf
  <2> HIDE DEF e
  <2> QED BY <1>1, <1>2, <1>5 DEF Undo, UndoObj, UndoAccessList, Discounted, StateOf
<1> QED BY <1>1, <1>2, <1>6, <1>7 DEF Grows, Grows1

(* The precompileCall entry undoes nothing of the objects. *)
LEMMA PrecompileFnGrows ==
  ASSUME TypeOK, GoodState(StateOf), CallOK, AddPrecompileFn
  PROVE  Grows
<1> DEFINE e == precompileCallChange(call.snapshot, call.events)
           x == getOrNewStateObject(Precompile)
<1>1. Precompile \in Addrs /\ call.snapshot \in MultiStore /\ call.events \in Seq(Nat)
  BY AddressAssumption DEF AddressAssumption, CallOK, AddPrecompileFn, TypeOK, PrecompileCall
<1>2. x \in Object
  BY <1>1, NewObjectType
<1>3. e \in Entry /\ e.type \in ObjectTypes /\ Dirtied(e) \in {Precompile, Nil}
      /\ e.type = "precompileCall"
  <2>1. e \in [type : {"precompileCall"}, multiStore : MultiStore, events : Seq(Nat)]
    BY <1>1 DEF precompileCallChange
  <2> QED BY <2>1 DEF Entry, ObjectTypes, Dirtied, precompileCallChange
<1>4. SetObject(Precompile, x, e) /\ UNCHANGED txState
  BY DEF AddPrecompileFn
<1> HIDE DEF e
<1>5. UndoObj(e, [obj EXCEPT ![Precompile] = x]) = [obj EXCEPT ![Precompile] = x]
  BY <1>3 DEF UndoObj
<1> QED BY <1>1, <1>2, <1>3, <1>4, <1>5, SetObjectGrows

=============================================================================
