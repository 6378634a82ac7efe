---------------------------- MODULE StateDBProofs ----------------------------
(***************************************************************************)
(* IInv is an inductive invariant of StateDB, for every choice of the      *)
(* constants, and what follows from it.  The steps that write to the       *)
(* journal are covered by the lemmas of StateDBJournalProofs: they Grow it *)
(* or leave it and the state it restores Still.                            *)
(***************************************************************************)
EXTENDS StateDBJournalProofs

StoresOK == ctx \in MultiStore /\ cache \in MultiStore /\ cacheEvents \in Seq(Nat)

ObjectsOK == dirtyStorage \in [Addrs -> SUBSET Keys] /\ dirtyCode \in [Addrs -> BOOLEAN]

RevisionTypes ==
  /\ validRevisions \in Seq([id : Nat, journalIndex : Nat])
  /\ nextRevisionID \in Nat
  /\ revertTo \in Nat
  /\ phase \in Phases

CallTypes ==
  /\ calls \in 0..255
  /\ todo \in Seq([addr : Addrs, slot : Keys \cup {Nil}])
  /\ call \in PrecompileCall

LEMMA NoMove == << >> \in Moves
<1>1. << >> \in {<< >>}
  OBVIOUS
<1> QED BY <1>1 DEF Moves

LEMMA NoCallType == NoCall \in PrecompileCall
<1>1. << >> \in Moves /\ << >> \in Seq(Nat) /\ Nil \in MultiStore \cup {Nil}
  BY NoMove
<1> QED BY <1>1 DEF NoCall, PrecompileCall

LEMMA TypeSplit ==
  TypeOK <=> /\ StateOf \in State /\ journal \in Seq(Entry)
             /\ StoresOK /\ ObjectsOK /\ RevisionTypes /\ CallTypes
BY DEF TypeOK, StoresOK, ObjectsOK, RevisionTypes, CallTypes

(* The present state is the last one of the history. *)
LEMMA PresentIsGood ==
  ASSUME IInv
  PROVE  GoodState(StateOf)
<1>1. /\ StateOf \in State /\ Len(hist) = Len(journal) + 1 /\ hist[Len(hist)].st = StateOf
      /\ journal \in Seq(Entry)
  BY DEF IInv, TypeOK, UndoIsExact
<1>2. Len(hist) \in 1..Len(hist)
  BY <1>1
<1>3. SoundList(hist[Len(hist)].st.accessList) /\ Backed(hist[Len(hist)].st)
  BY <1>2 DEF IInv, HistoryOK
<1> QED BY <1>1, <1>3 DEF GoodState

-----------------------------------------------------------------------------
(* Steps by what they do to the journal *)

LEMMA GrowsIInv ==
  ASSUME IInv, Grows, HistStep,
         StoresOK', ObjectsOK', RevisionTypes', CallTypes', RevisionsOK', CallOK'
  PROVE  IInv'
<1>1. StateOf' \in State
  BY DEF Grows, Grows1, Grows2, GoodState
<1>2. cache' \in MultiStore
  BY DEF StoresOK
<1>3. journal' \in Seq(Entry) /\ HistoryOK' /\ UndoIsExact'
  BY <1>2, GrowsHistory
<1>4. TypeOK'
  BY <1>1, <1>3 DEF TypeOK, StoresOK, ObjectsOK, RevisionTypes, CallTypes
<1> QED BY <1>3, <1>4 DEF IInv

LEMMA StillIInv ==
  ASSUME IInv, Still, HistStep,
         StoresOK', ObjectsOK', RevisionTypes', CallTypes', RevisionsOK', CallOK'
  PROVE  IInv'
<1>1. StateOf \in State /\ journal \in Seq(Entry) /\ HistoryOK /\ UndoIsExact
  BY DEF IInv, TypeOK
<1>2. StateOf' = StateOf /\ journal' = journal /\ hist' = hist
  BY <1>1 DEF Still, HistStep
<1>3. HistoryOK' /\ UndoIsExact'
  BY <1>1, <1>2 DEF HistoryOK, UndoIsExact
<1>4. TypeOK'
  BY <1>1, <1>2 DEF TypeOK, StoresOK, ObjectsOK, RevisionTypes, CallTypes
<1> QED BY <1>3, <1>4 DEF IInv

LEMMA JournalGrows ==
  ASSUME IInv, Grows \/ Still
  PROVE  Len(journal) \in Nat /\ Len(journal') \in Nat /\ Len(journal') >= Len(journal)
<1>1. journal \in Seq(Entry)
  BY DEF IInv, TypeOK
<1>2. CASE Still
  BY <1>1, <1>2 DEF Still
<1>3. CASE Grows
  <2>1. ASSUME NEW e, Grows1(e) PROVE Len(journal') = Len(journal) + 1
    BY <1>1, <2>1 DEF Grows1
  <2>2. ASSUME NEW e1, NEW e2, NEW m, Grows2(e1, e2, m)
        PROVE  Len(journal') = Len(journal) + 2
    BY <1>1, <2>2 DEF Grows2
  <2> QED BY <1>1, <1>3, <2>1, <2>2 DEF Grows
<1> QED BY <1>2, <1>3

LEMMA RevisionParts ==
  ASSUME IInv
  PROVE  \A i \in 1..Len(validRevisions) :
           validRevisions[i].id \in Nat /\ validRevisions[i].journalIndex \in Nat
<1> DEFINE R == [id : Nat, journalIndex : Nat]
<1>1. validRevisions \in Seq(R) /\ \A r \in R : r.id \in Nat /\ r.journalIndex \in Nat
  BY DEF IInv, TypeOK
<1> HIDE DEF R
<1> QED BY <1>1

(* More journal above the revisions does not disturb them. *)
LEMMA RevisionsStay ==
  ASSUME IInv, Grows \/ Still, UNCHANGED revisions,
         phase # "reverting", phase' # "reverting"
  PROVE  RevisionsOK'
<1>1. Len(journal) \in Nat /\ Len(journal') \in Nat /\ Len(journal') >= Len(journal)
  BY JournalGrows
<1>2. \A i \in 1..Len(validRevisions) : validRevisions[i].journalIndex \in Nat
  BY RevisionParts
<1> QED BY <1>1, <1>2 DEF IInv, RevisionsOK, revisions

(* StartRevert cuts the revisions at the one it goes back to. *)
LEMMA StartRevertOK ==
  ASSUME IInv, Grows \/ Still, NEW i \in DOMAIN validRevisions, StartRevert(i),
         nextRevisionID' = nextRevisionID
  PROVE  RevisionTypes' /\ RevisionsOK' /\ CallOK' /\ call' \in PrecompileCall
<1> DEFINE R == [id : Nat, journalIndex : Nat]
<1>1. Len(journal) \in Nat /\ Len(journal') \in Nat /\ Len(journal') >= Len(journal)
  BY JournalGrows
<1>2. validRevisions \in Seq(R) /\ i \in 1..Len(validRevisions)
      /\ nextRevisionID \in Nat
  BY DEF IInv, TypeOK
<1>3. \A j \in 1..Len(validRevisions) :
        validRevisions[j].id \in Nat /\ validRevisions[j].journalIndex \in Nat
  BY RevisionParts
<1>4. /\ validRevisions' = SubSeq(validRevisions, 1, i - 1)
      /\ revertTo' = validRevisions[i].journalIndex
      /\ phase' = "reverting" /\ call' = NoCall
  BY DEF StartRevert
<1> HIDE DEF R
<1>5. /\ validRevisions' \in Seq(R) /\ Len(validRevisions') = i - 1
      /\ \A j \in 1..(i - 1) : validRevisions'[j] = validRevisions[j]
  BY <1>2, <1>4
<1>6. \A j \in 1..(i - 1) : j \in 1..Len(validRevisions) /\ j < i
  BY <1>2
<1>7. /\ \A j \in 1..Len(validRevisions) :
           /\ validRevisions[j].id < nextRevisionID
           /\ validRevisions[j].journalIndex <= Len(journal)
      /\ \A j, k \in 1..Len(validRevisions) :
           j < k => /\ validRevisions[j].id < validRevisions[k].id
                    /\ validRevisions[j].journalIndex <= validRevisions[k].journalIndex
  BY DEF IInv, RevisionsOK
<1>8. RevisionTypes'
  BY <1>2, <1>3, <1>4, <1>5 DEF RevisionTypes, Phases, R
<1>9. RevisionsOK'
  <2>1. \A j \in 1..(i - 1) :
          /\ validRevisions'[j].id < nextRevisionID'
          /\ validRevisions'[j].journalIndex <= Len(journal')
          /\ validRevisions'[j].journalIndex <= revertTo'
    BY <1>1, <1>2, <1>3, <1>4, <1>5, <1>6, <1>7
  <2>2. \A j, k \in 1..(i - 1) :
          j < k => /\ validRevisions'[j].id < validRevisions'[k].id
                   /\ validRevisions'[j].journalIndex <= validRevisions'[k].journalIndex
    BY <1>5, <1>6, <1>7
  <2>3. revertTo' <= Len(journal')
    BY <1>1, <1>2, <1>3, <1>4, <1>7
  <2> QED BY <1>5, <2>1, <2>2, <2>3 DEF RevisionsOK
<1>10. CallOK' /\ call' \in PrecompileCall
  BY <1>4, NoCallType DEF CallOK
<1> QED BY <1>8, <1>9, <1>10

(* The steps of the EVM on the StateDB: the stores, the revisions and the  *)
(* control do not change.                                                  *)
LEMMA SetterIInv ==
  ASSUME IInv, Grows \/ Still, HistStep, phase # "reverting", ObjectsOK',
         UNCHANGED <<stores, revisions, calls, control>>
  PROVE  IInv'
<1>1. StoresOK' /\ CallTypes' /\ RevisionTypes' /\ CallOK'
  <2>1. StoresOK /\ CallTypes /\ RevisionTypes /\ CallOK
    BY TypeSplit DEF IInv
  <2>2. StoresOK'
    BY <2>1 DEF StoresOK, stores
  <2>3. CallTypes'
    BY <2>1 DEF CallTypes, control
  <2>4. RevisionTypes' /\ CallOK'
    BY <2>1 DEF RevisionTypes, CallOK, revisions, control
  <2> QED BY <2>2, <2>3, <2>4
<1>2. RevisionsOK'
  BY RevisionsStay DEF control
<1> QED BY <1>1, <1>2, GrowsIInv, StillIInv

-----------------------------------------------------------------------------
(* The stores *)

LEMMA SetAccountType ==
  ASSUME NEW acct \in Account, NEW nonce \in Nat, NEW balance \in Nat,
         NEW codeHash \in Codes \cup {EmptyCode}
  PROVE  SetAccount(acct, nonce, balance, codeHash) \in Account
<1> DEFINE x == [acct EXCEPT !.exists = TRUE, !.nonce = nonce, !.codeHash = codeHash]
           u == IF balance >= GetBalance(x)
                THEN x.units + From18Decimals(balance - GetBalance(x))
                ELSE x.units - From18Decimals(GetBalance(x) - balance)
<1>1. x \in Account
  <2> DEFINE x1 == [acct EXCEPT !.exists = TRUE]
             x2 == [x1 EXCEPT !.nonce = nonce]
  <2>1. x = [x2 EXCEPT !.codeHash = codeHash]
    OBVIOUS
  <2>2. x1 \in Account
    BY DEF Account
  <2> HIDE DEF x1
  <2>3. x2 \in Account
    BY <2>2 DEF Account
  <2> HIDE DEF x2
  <2> QED BY <2>1, <2>3 DEF Account
<1> HIDE DEF x
<1>2. x.units \in Nat
  BY <1>1 DEF Account
<1>3. GetBalance(x) \in Nat /\ GetBalance(x) = To18Decimals(x.units)
  BY <1>2, DecimalsNat DEF GetBalance
<1>4. u \in Nat
  <2>1. CASE balance >= GetBalance(x)
    <3>1. balance - GetBalance(x) \in Nat
      BY <1>3, <2>1
    <3> QED BY <1>2, <2>1, <3>1, DecimalsNat
  <2>2. CASE ~(balance >= GetBalance(x))
    <3>1. balance <= To18Decimals(x.units)
      BY <1>3, <2>2
    <3>2. From18Decimals(GetBalance(x) - balance) <= x.units
      BY <1>2, <1>3, <3>1, BurnBounded
    <3>3. GetBalance(x) - balance \in Nat
      BY <1>3, <2>2
    <3>4. From18Decimals(GetBalance(x) - balance) \in Nat
      BY <3>3, DecimalsNat
    <3> QED BY <1>2, <2>2, <3>2, <3>4
  <2> QED BY <2>1, <2>2
<1>5. SetAccount(acct, nonce, balance, codeHash) = [x EXCEPT !.units = u]
  BY DEF SetAccount, SetBalance, x
<1> HIDE DEF u
<1> QED BY <1>1, <1>4, <1>5 DEF Account

(* commitWithCtx writes a well-formed multistore: it finds an object for   *)
(* every dirty address and burns no more than there is.                    *)
LEMMA CommitType ==
  ASSUME TypeOK, GoodState(StateOf), NEW ms \in MultiStore
  PROVE  commitWithCtx(ms) \in MultiStore
<1> DEFINE written == {a \in Dirty : \A b \in Refused(ms) : a < b}
           accts == [a \in Addrs |-> IF a \in written THEN commitObject(ms.acct[a], a)
                                                      ELSE ms.acct[a]]
           codes == {obj[a].code : a \in {b \in written :
                       ~obj[b].suicided /\ dirtyCode[b] /\ obj[b].code # EmptyCode}}
<1>1. ms.acct \in [Addrs -> Account] /\ ms.code \in SUBSET Codes /\ ms.modules \in ModuleStates
      /\ ms = [acct |-> ms.acct, code |-> ms.code, modules |-> ms.modules]
  BY DEF MultiStore
<1>2. \A a \in written : a \in Addrs /\ obj[a] \in Object /\ a \notin Refused(ms)
  <2> SUFFICES ASSUME NEW a \in written
               PROVE  a \in Addrs /\ obj[a] \in Object /\ a \notin Refused(ms)
    OBVIOUS
  <2>1. a \in Addrs /\ dirties[a] > 0
    BY DEF Dirty
  <2>2. obj[a] # Nil
    BY <2>1 DEF GoodState, Backed, StateOf
  <2>3. ~(a < a)
    BY <2>1, AddrsAssumption DEF AddrsAssumption
  <2> QED BY <2>1, <2>2, <2>3, TypeParts
<1>3. \A a \in written : commitObject(ms.acct[a], a) \in Account
  <2> SUFFICES ASSUME NEW a \in written
               PROVE  commitObject(ms.acct[a], a) \in Account
    OBVIOUS
  <2>1. a \in Addrs /\ obj[a] \in Object /\ a \notin Refused(ms) /\ a \in Dirty
    BY <1>2
  <2>2. ms.acct[a] \in Account
    BY <1>1, <2>1
  <2>3. CASE obj[a].suicided
    <3>1. NoAccount \in Account
      BY ValuesAssumption DEF ValuesAssumption, NoAccount, Account, ZeroStorage
    <3> QED BY <2>2, <2>3, <3>1 DEF commitObject, DeleteAccount
  <2>4. CASE ~obj[a].suicided
    <3> DEFINE x == SetAccount(ms.acct[a], obj[a].nonce, obj[a].balance, obj[a].code)
    <3>1. obj[a].balance \in Nat
      BY <2>1, <2>4 DEF Refused, Object
    <3>2. obj[a].nonce \in Nat /\ obj[a].code \in Codes \cup {EmptyCode}
          /\ obj[a].state \in [Keys -> Values]
      BY <2>1 DEF Object
    <3>3. x \in Account
      BY <2>2, <3>1, <3>2, SetAccountType
    <3> HIDE DEF x
    <3>4. keeperSetState(x, dirtyStorage[a], obj[a].state) \in Account
      BY <3>2, <3>3 DEF keeperSetState, Account
    <3> QED BY <2>4, <3>4 DEF commitObject, x
  <2> QED BY <2>3, <2>4
<1>4. accts \in [Addrs -> Account]
  BY <1>1, <1>3
<1>5. codes \subseteq Codes
  BY <1>2 DEF Object
<1>6. commitWithCtx(ms) = [acct |-> accts, code |-> ms.code \cup codes, modules |-> ms.modules]
  BY DEF commitWithCtx
<1> HIDE DEF accts, codes, written
<1> QED BY <1>1, <1>4, <1>5, <1>6 DEF MultiStore

(* What a method leaves in the cache. *)
LEMMA MovedType ==
  ASSUME NEW ms \in MultiStore, NEW m \in ModuleStates, NEW move \in Moves,
         MovePossible(ms, move)
  PROVE  Moved([ms EXCEPT !.modules = m], move) \in MultiStore
<1> DEFINE ms1 == [ms EXCEPT !.modules = m]
<1>1. ms1 \in MultiStore /\ ms1.acct = ms.acct
  BY DEF MultiStore
<1>2. CASE move = << >>
  BY <1>1, <1>2 DEF Moved
<1>3. CASE move # << >>
  <2>1. PICK op \in {"Sub", "Add"}, a \in Addrs, u \in UnitAmounts :
          move = <<[op |-> op, addr |-> a, units |-> u]>>
    BY <1>3 DEF Moves
  <2>2. move[1].op = op /\ move[1].addr = a /\ move[1].units = u /\ u \in Nat
    BY <2>1, AmountsAssumption DEF AmountsAssumption
  <2> DEFINE x  == ms1.acct[a]
             n  == IF op = "Sub" THEN x.units - u ELSE x.units + u
             y  == [x EXCEPT !.exists = TRUE]
             z  == [y EXCEPT !.units = n]
  <2>3. x \in Account /\ x.units \in Nat
    BY <1>1 DEF MultiStore, Account
  <2>4. n \in Nat
    BY <1>1, <1>3, <2>2, <2>3 DEF MovePossible
  <2>5. z \in Account
    <3>1. y \in Account
      BY <2>3 DEF Account
    <3> HIDE DEF y, n
    <3> QED BY <2>4, <3>1 DEF Account
  <2> DEFINE w == [x EXCEPT !.exists = TRUE, !.units = IF op = "Sub" THEN @ - u ELSE @ + u]
  <2>6. w = z
    BY <2>3 DEF Account
  <2>7. Moved(ms1, move) = [ms1 EXCEPT !.acct[a] = w]
    BY <1>3, <2>2 DEF Moved
  <2>8. Moved(ms1, move) = [ms1 EXCEPT !.acct[a] = z]
    <3> HIDE DEF w, z
    <3> QED BY <2>6, <2>7
  <2> HIDE DEF z, ms1
  <2>9. [ms1 EXCEPT !.acct[a] = z] \in MultiStore
    BY <1>1, <2>5 DEF MultiStore
  <2> QED BY <2>8, <2>9 DEF ms1
<1> QED BY <1>2, <1>3

-----------------------------------------------------------------------------
(* Undoing the last entry *)

LEMMA EntryParts ==
  ASSUME NEW e \in Entry
  PROVE  /\ e.type = "createObject" => e.addr \in Addrs
         /\ e.type = "resetObject" => /\ e.addr \in Addrs /\ e.prevKeys \in SUBSET Keys
                                      /\ e.prevDirtyCode \in BOOLEAN
         /\ e.type = "storage" => e.addr \in Addrs /\ e.key \in Keys
         /\ e.type = "code" => e.addr \in Addrs
         /\ e.type = "precompileCall" => e.multiStore \in MultiStore
BY DEF Entry

LEMMA PrefixParts ==
  ASSUME NEW S, NEW q \in Seq(S), NEW k \in Nat, k <= Len(q)
  PROVE  /\ SubSeq(q, 1, k) \in Seq(S) /\ Len(SubSeq(q, 1, k)) = k
         /\ \A i \in 1..k : SubSeq(q, 1, k)[i] = q[i]
OBVIOUS

LEMMA UndoEntryIInv ==
  ASSUME IInv, UndoEntry, HistStep
  PROVE  IInv'
<1> DEFINE n  == Len(journal)
           e  == journal[n]
           HS == [st : State, cache : MultiStore]
<1>1. /\ journal \in Seq(Entry) /\ n \in Nat /\ n > revertTo /\ revertTo \in Nat
      /\ phase = "reverting"
  BY DEF IInv, TypeOK, UndoEntry
<1>2. n \in 1..n /\ n - 1 \in Nat /\ e \in Entry
  BY <1>1
<1>3. /\ hist \in Seq(HS) /\ Len(hist) = n + 1 /\ hist[n + 1].st = StateOf
      /\ Undo(e, hist[n + 1].st) = hist[n].st
  BY <1>1, <1>2 DEF IInv, HistoryOK, UndoIsExact
<1>4. hist[n].st \in State
  <2>1. \A x \in HS : x.st \in State
    OBVIOUS
  <2> HIDE DEF HS
  <2> QED BY <1>2, <1>3, <2>1
<1>5. journal' = SubSeq(journal, 1, n - 1)
  BY DEF UndoEntry
<1>6. /\ journal' \in Seq(Entry) /\ Len(journal') = n - 1
      /\ \A i \in 1..(n - 1) : journal'[i] = journal[i]
  <2> DEFINE k == n - 1
  <2>1. k \in Nat /\ k <= Len(journal)
    BY <1>1, <1>2
  <2> HIDE DEF k
  <2>2. SubSeq(journal, 1, k) \in Seq(Entry) /\ Len(SubSeq(journal, 1, k)) = k
        /\ \A i \in 1..k : SubSeq(journal, 1, k)[i] = journal[i]
    BY <1>1, <2>1, PrefixParts
  <2> QED BY <1>5, <2>1, <2>2 DEF k
<1>7. hist' = SubSeq(hist, 1, n)
  BY <1>1, <1>3, <1>6 DEF HistStep
<1> HIDE DEF HS
<1>8. /\ hist' \in Seq(HS) /\ Len(hist') = n
      /\ \A i \in 1..n : hist'[i] = hist[i]
  BY <1>1, <1>2, <1>3, <1>7
<1> HIDE DEF e
<1>9. StateOf' = hist[n].st
  <2>1. StateOf' = Undo(e, StateOf)
    BY DEF UndoEntry, Undo, StateOf, e
  <2> QED BY <1>3, <2>1
<1>10. HistoryOK'
  <2>1. \A i \in 1..(n + 1) : SoundList(hist[i].st.accessList) /\ Backed(hist[i].st)
    BY <1>3 DEF IInv, HistoryOK
  <2>2. \A i \in 1..n : i \in 1..(n + 1)
    BY <1>1
  <2>3. \A i \in 1..n : SoundList(hist'[i].st.accessList) /\ Backed(hist'[i].st)
    BY <1>8, <2>1, <2>2
  <2> QED BY <1>8, <2>3 DEF HistoryOK, HS
<1>11. UndoIsExact'
  <2>1. \A i \in 1..(n - 1) : i \in 1..n /\ i + 1 \in 1..n
    BY <1>1
  <2>2. \A i \in 1..n : Undo(journal[i], hist[i + 1].st) = hist[i].st
    BY DEF IInv, UndoIsExact
  <2>3. \A i \in 1..(n - 1) : Undo(journal'[i], hist'[i + 1].st) = hist'[i].st
    BY <1>6, <1>8, <2>1, <2>2
  <2> QED BY <1>1, <1>2, <1>6, <1>8, <1>9, <2>3 DEF UndoIsExact
<1>12. ObjectsOK'
  <2>1. ObjectsOK
    BY TypeSplit DEF IInv
  <2>2. dirtyStorage' = CASE e.type = "createObject" -> [dirtyStorage EXCEPT ![e.addr] = {}]
                          [] e.type = "resetObject" -> [dirtyStorage EXCEPT ![e.addr] = e.prevKeys]
                          [] e.type = "storage" -> [dirtyStorage EXCEPT ![e.addr] = @ \cup {e.key}]
                          [] OTHER -> dirtyStorage
    BY DEF UndoEntry, e
  <2>3. dirtyCode' = CASE e.type = "createObject" -> [dirtyCode EXCEPT ![e.addr] = FALSE]
                       [] e.type = "resetObject" -> [dirtyCode EXCEPT ![e.addr] = e.prevDirtyCode]
                       [] e.type = "code" -> [dirtyCode EXCEPT ![e.addr] = TRUE]
                       [] OTHER -> dirtyCode
    BY DEF UndoEntry, e
  <2>4. dirtyStorage' \in [Addrs -> SUBSET Keys]
    BY <1>2, <2>1, <2>2, EntryParts DEF ObjectsOK
  <2>5. dirtyCode' \in [Addrs -> BOOLEAN]
    BY <1>2, <2>1, <2>3, EntryParts DEF ObjectsOK
  <2> QED BY <2>4, <2>5 DEF ObjectsOK
<1>13. StoresOK'
  <2>1. StoresOK
    BY TypeSplit DEF IInv
  <2>2. UNCHANGED <<ctx, cacheEvents>>
    BY DEF UndoEntry
  <2>3. IF e.type = "precompileCall" THEN cache' = e.multiStore ELSE cache' = cache
    BY DEF UndoEntry, e
  <2> QED BY <1>2, <2>1, <2>2, <2>3, EntryParts DEF StoresOK
<1>14. UNCHANGED <<revisions, calls, control>>
  BY DEF UndoEntry
<1>15. RevisionTypes' /\ CallTypes' /\ CallOK'
  <2>1. RevisionTypes /\ CallTypes /\ CallOK
    BY TypeSplit DEF IInv
  <2>2. RevisionTypes'
    BY <1>14, <2>1 DEF RevisionTypes, revisions, control
  <2>3. CallTypes'
    BY <1>14, <2>1 DEF CallTypes, control
  <2> QED BY <1>14, <2>1, <2>2, <2>3 DEF CallOK, revisions, control
<1>16. RevisionsOK'
  <2>1. /\ validRevisions' = validRevisions /\ nextRevisionID' = nextRevisionID
        /\ phase' = phase /\ revertTo' = revertTo
    BY <1>14 DEF revisions, control
  <2>2. revertTo <= n - 1
    BY <1>1
  <2>3. \A i \in 1..Len(validRevisions) : validRevisions[i].journalIndex <= n - 1
    BY <1>1, <2>2, RevisionParts DEF IInv, RevisionsOK
  <2> QED BY <1>1, <1>6, <2>1, <2>2, <2>3 DEF IInv, RevisionsOK
<1>17. TypeOK'
  BY <1>4, <1>6, <1>9, <1>12, <1>13, <1>15
     DEF TypeOK, StoresOK, ObjectsOK, RevisionTypes, CallTypes
<1> QED BY <1>10, <1>11, <1>15, <1>16, <1>17 DEF IInv

-----------------------------------------------------------------------------
(* One lemma per group of actions *)

LEMMA AccountStep ==
  ASSUME IInv, HistStep, NEW a \in Addrs,
         \/ \E amount \in Amounts : AddBalance(a, amount) \/ SubBalance(a, amount)
         \/ \E n \in 0..MaxNonce : SetNonce(a, n)
         \/ \E code \in Codes \cup {EmptyCode} : SetCode(a, code)
         \/ \E k \in Keys, v \in Values : SetState(a, k, v)
         \/ Suicide(a)
         \/ CreateAccount(a)
         \/ CreateContract(a)
  PROVE  IInv'
<1>1. TypeOK /\ GoodState(StateOf) /\ ObjectsOK
  BY PresentIsGood, TypeSplit DEF IInv
<1>2. getOrNewStateObject(a).balance \in Int
  BY <1>1, NewObjectType DEF Object
<1>3. ASSUME NEW amount \in Amounts, AddBalance(a, amount) \/ SubBalance(a, amount)
      PROVE  IInv'
  <2> DEFINE adj == AdjustExtraDecimals(amount)
             bal == getOrNewStateObject(a).balance
  <2>1. adj \in Int
    BY AmountsAssumption, DecimalsNat DEF AmountsAssumption
  <2>2. bal + adj \in Int /\ bal - adj \in Int
    BY <1>2, <2>1
  <2>3. ChangeBalance(a, adj, bal + adj) \/ ChangeBalance(a, adj, bal - adj)
    BY <1>3 DEF AddBalance, SubBalance, JournaledAdd, JournaledSub
  <2>4. /\ phase # "reverting" /\ UNCHANGED txState
        /\ UNCHANGED <<stores, revisions, calls, control>>
        /\ UNCHANGED <<dirtyStorage, dirtyCode>>
    BY <1>3 DEF AddBalance, SubBalance, Active, Running
  <2> HIDE DEF adj, bal
  <2>5. Grows \/ Still
    BY <1>1, <2>2, <2>3, <2>4, ChangeBalanceGrows
  <2> QED BY <1>1, <2>4, <2>5, SetterIInv DEF ObjectsOK
<1>4. ASSUME NEW n \in 0..MaxNonce, SetNonce(a, n) PROVE IInv'
  <2>1. n \in Nat
    BY BoundsAssumption DEF BoundsAssumption
  <2>2. Grows
    BY <1>1, <1>4, <2>1, SetNonceGrows
  <2>3. phase # "reverting" /\ UNCHANGED <<stores, revisions, calls, control>> /\ ObjectsOK'
    BY <1>1, <1>4 DEF SetNonce, Active, Running, ObjectsOK
  <2> QED BY <2>2, <2>3, SetterIInv
<1>5. ASSUME NEW code \in Codes \cup {EmptyCode}, SetCode(a, code) PROVE IInv'
  <2>1. Grows
    BY <1>1, <1>5, SetCodeGrows
  <2>2. phase # "reverting" /\ UNCHANGED <<stores, revisions, calls, control>>
    BY <1>5 DEF SetCode, Active, Running
  <2>3. ObjectsOK'
    BY <1>1, <1>5 DEF SetCode, ObjectsOK
  <2> QED BY <2>1, <2>2, <2>3, SetterIInv
<1>6. ASSUME NEW k \in Keys, NEW v \in Values, SetState(a, k, v) PROVE IInv'
  <2>1. Grows
    BY <1>1, <1>6, SetStateGrows
  <2>2. phase # "reverting" /\ UNCHANGED <<stores, revisions, calls, control>>
    BY <1>6 DEF SetState, Active, Running
  <2>3. ObjectsOK'
    BY <1>1, <1>6 DEF SetState, ObjectsOK
  <2> QED BY <2>1, <2>2, <2>3, SetterIInv
<1>7. CASE Suicide(a)
  <2>1. Grows
    BY <1>1, <1>7, SuicideGrows
  <2>2. phase # "reverting" /\ UNCHANGED <<stores, revisions, calls, control>> /\ ObjectsOK'
    BY <1>1, <1>7 DEF Suicide, Active, Running, ObjectsOK
  <2> QED BY <2>1, <2>2, SetterIInv
<1>8. CASE CreateAccount(a)
  <2>1. newObject(a) \in Object
    BY <1>1, NewObjectType
  <2>2. /\ obj[a] = Nil /\ obj' = [obj EXCEPT ![a] = newObject(a)]
        /\ append(createObjectChange(a)) /\ UNCHANGED txState
    BY <1>8 DEF CreateAccount
  <2>3. Grows
    BY <1>1, <2>1, <2>2, CreateObjectGrows
  <2>4. phase # "reverting" /\ UNCHANGED <<stores, revisions, calls, control>> /\ ObjectsOK'
    BY <1>1, <1>8 DEF CreateAccount, Active, Running, ObjectsOK
  <2> QED BY <2>3, <2>4, SetterIInv
<1>9. CASE CreateContract(a)
  <2>1. Grows
    BY <1>1, <1>9, CreateContractGrows
  <2>2. phase # "reverting" /\ UNCHANGED <<stores, revisions, calls, control>>
    BY <1>9 DEF CreateContract, Active, Running
  <2>3. dirtyStorage' = [dirtyStorage EXCEPT ![a] = {}]
        /\ dirtyCode' = [dirtyCode EXCEPT ![a] = FALSE]
    BY <1>9 DEF CreateContract
  <2>4. ObjectsOK'
    BY <1>1, <2>3 DEF ObjectsOK
  <2> QED BY <2>1, <2>2, <2>4, SetterIInv
<1> QED BY <1>3, <1>4, <1>5, <1>6, <1>7, <1>8, <1>9

LEMMA TxStateStep ==
  ASSUME IInv, HistStep,
         \/ \E a \in Accessed : \/ AddAddressToAccessList(a)
                                \/ \E k \in Keys : AddSlotToAccessList(a, k)
         \/ \E gas \in 1..MaxRefund : AddRefund(gas) \/ SubRefund(gas)
         \/ \E data \in LogData : AddLog(data)
  PROVE  IInv'
<1>1. TypeOK /\ GoodState(StateOf) /\ ObjectsOK /\ refund \in Nat
  BY PresentIsGood, TypeSplit, TypeParts DEF IInv
<1>2. ASSUME NEW a \in Accessed, AddAddressToAccessList(a) PROVE IInv'
  <2>1. a \in Addrs
    BY AddressAssumption DEF AddressAssumption
  <2>2. JournaledAddAddress(a) /\ UNCHANGED <<obj, refund, logs>>
    BY <1>2 DEF AddAddressToAccessList, objects
  <2>3. Grows \/ Still
    BY <1>1, <2>1, <2>2, AddAddressGrows
  <2>4. phase # "reverting" /\ UNCHANGED <<stores, revisions, calls, control>> /\ ObjectsOK'
    BY <1>1, <1>2 DEF AddAddressToAccessList, Active, Running, ObjectsOK, objects
  <2> QED BY <2>3, <2>4, SetterIInv
<1>3. ASSUME NEW a \in Accessed, NEW k \in Keys, AddSlotToAccessList(a, k) PROVE IInv'
  <2>1. a \in Addrs
    BY AddressAssumption DEF AddressAssumption
  <2>2. JournaledAddSlot(a, k) /\ UNCHANGED <<obj, refund, logs>>
    BY <1>3 DEF AddSlotToAccessList, objects
  <2>3. Grows \/ Still
    BY <1>1, <2>1, <2>2, AddSlotGrows
  <2>4. phase # "reverting" /\ UNCHANGED <<stores, revisions, calls, control>> /\ ObjectsOK'
    BY <1>1, <1>3 DEF AddSlotToAccessList, Active, Running, ObjectsOK, objects
  <2> QED BY <2>3, <2>4, SetterIInv
<1>4. ASSUME NEW gas \in 1..MaxRefund, AddRefund(gas) \/ SubRefund(gas) PROVE IInv'
  <2>1. gas \in Nat
    BY BoundsAssumption DEF BoundsAssumption
  <2>2. refund' \in Nat
    BY <1>1, <1>4, <2>1 DEF AddRefund, SubRefund
  <2>3. append(refundChange) /\ UNCHANGED <<obj, logs, accessList>>
    BY <1>4 DEF AddRefund, SubRefund, objects
  <2>4. Grows
    BY <1>1, <2>2, <2>3, RefundGrows
  <2>5. phase # "reverting" /\ UNCHANGED <<stores, revisions, calls, control>> /\ ObjectsOK'
    BY <1>1, <1>4 DEF AddRefund, SubRefund, Active, Running, ObjectsOK, objects
  <2> QED BY <2>4, <2>5, SetterIInv
<1>5. ASSUME NEW data \in LogData, AddLog(data) PROVE IInv'
  <2>1. Grows
    BY <1>1, <1>5, AddLogGrows
  <2>2. phase # "reverting" /\ UNCHANGED <<stores, revisions, calls, control>> /\ ObjectsOK'
    BY <1>1, <1>5 DEF AddLog, Active, Running, ObjectsOK, objects
  <2> QED BY <2>1, <2>2, SetterIInv
<1> QED BY <1>2, <1>3, <1>4, <1>5

LEMMA PrepareStep ==
  ASSUME IInv, HistStep, PrepareAccessList \/ Prepared
  PROVE  IInv'
<1>1. /\ TypeOK /\ GoodState(StateOf) /\ ObjectsOK /\ StoresOK /\ RevisionTypes /\ CallTypes
      /\ CallOK
  BY PresentIsGood, TypeSplit DEF IInv
<1>2. CASE PrepareAccessList
  <2> DEFINE T == [addr : Addrs, slot : Keys \cup {Nil}]
  <2>1. todo \in Seq(T) /\ todo # << >> /\ todo' = Tail(todo)
    BY <1>1, <1>2 DEF CallTypes, PrepareAccessList
  <2>2. \A t \in T : t.addr \in Addrs /\ t.slot \in Keys \cup {Nil}
    OBVIOUS
  <2> HIDE DEF T
  <2>3. Head(todo) \in T /\ todo' \in Seq(T)
    BY <2>1
  <2>4. Head(todo).addr \in Addrs /\ Head(todo).slot \in Keys \cup {Nil}
    BY <2>2, <2>3
  <2>5. UNCHANGED <<obj, refund, logs>>
    BY <1>2 DEF PrepareAccessList, objects
  <2>6. Grows \/ Still
    <3>1. CASE Head(todo).slot = Nil
      <4>1. JournaledAddAddress(Head(todo).addr)
        BY <1>2, <3>1 DEF PrepareAccessList
      <4> QED BY <1>1, <2>4, <2>5, <4>1, AddAddressGrows
    <3>2. CASE Head(todo).slot # Nil
      <4>1. JournaledAddSlot(Head(todo).addr, Head(todo).slot) /\ Head(todo).slot \in Keys
        BY <1>2, <2>4, <3>2 DEF PrepareAccessList
      <4> QED BY <1>1, <2>4, <2>5, <4>1, AddSlotGrows
    <3> QED BY <3>1, <3>2
  <2>7. /\ UNCHANGED <<stores, objects, revisions, calls, phase, revertTo, call>>
        /\ phase = "prepare"
    BY <1>2 DEF PrepareAccessList
  <2>8. StoresOK' /\ ObjectsOK'
    BY <1>1, <2>7 DEF StoresOK, ObjectsOK, stores, objects
  <2>9. RevisionTypes' /\ CallOK'
    BY <1>1, <2>7 DEF RevisionTypes, CallOK, revisions
  <2>10. CallTypes'
    BY <1>1, <2>3, <2>7 DEF CallTypes, T
  <2>11. RevisionsOK'
    BY <2>6, <2>7, RevisionsStay
  <2> QED BY <2>6, <2>8, <2>9, <2>10, <2>11, GrowsIInv, StillIInv
<1>3. CASE Prepared
  <2>1. /\ UNCHANGED <<stores, objects, journals, revisions, txState, calls, todo, revertTo, call>>
        /\ phase = "prepare" /\ phase' = "running"
    BY <1>3 DEF Prepared
  <2>2. Still
    BY <2>1 DEF Still, StateOf, journals, objects, txState
  <2>3. StoresOK' /\ ObjectsOK'
    BY <1>1, <2>1 DEF StoresOK, ObjectsOK, stores, objects
  <2>4. RevisionTypes' /\ CallOK' /\ CallTypes'
    BY <1>1, <2>1 DEF RevisionTypes, CallOK, CallTypes, revisions, Phases
  <2>5. RevisionsOK'
    BY <2>1, <2>2, RevisionsStay
  <2> QED BY <2>2, <2>3, <2>4, <2>5, StillIInv
<1> QED BY <1>2, <1>3

LEMMA SnapshotStep ==
  ASSUME IInv, HistStep, Snapshot
  PROVE  IInv'
<1> DEFINE R == [id : Nat, journalIndex : Nat]
           r == [id |-> nextRevisionID, journalIndex |-> Len(journal)]
           n == Len(validRevisions)
<1>1. /\ ObjectsOK /\ StoresOK /\ RevisionTypes /\ CallTypes /\ CallOK
      /\ Len(journal) \in Nat
  BY TypeSplit DEF IInv, TypeOK
<1>2. /\ UNCHANGED <<stores, objects, journals, txState, calls, control>>
      /\ validRevisions' = Append(validRevisions, r)
      /\ nextRevisionID' = nextRevisionID + 1 /\ phase = "running"
  BY DEF Snapshot, Running
<1>3. Still
  BY <1>2 DEF Still, StateOf, journals, objects, txState
<1>4. /\ validRevisions \in Seq(R) /\ r \in R /\ n \in Nat /\ nextRevisionID \in Nat
      /\ r.id = nextRevisionID /\ r.journalIndex = Len(journal)
  BY <1>1 DEF RevisionTypes
<1>5. \A i \in 1..n : validRevisions[i].id \in Nat /\ validRevisions[i].journalIndex \in Nat
  BY RevisionParts
<1> HIDE DEF R, r
<1>6. /\ validRevisions' \in Seq(R) /\ Len(validRevisions') = n + 1
      /\ validRevisions'[n + 1] = r
      /\ \A i \in 1..n : validRevisions'[i] = validRevisions[i]
  BY <1>2, <1>4
<1>7. RevisionTypes' /\ CallOK' /\ CallTypes'
  <2>1. UNCHANGED control /\ phase = "running" /\ calls' = calls
    BY <1>2
  <2>2. RevisionTypes'
    BY <1>1, <1>2, <1>4, <1>6 DEF RevisionTypes, R, control
  <2>3. CallTypes' /\ CallOK'
    BY <1>1, <2>1 DEF CallTypes, CallOK, control
  <2> QED BY <2>2, <2>3
<1>8. StoresOK' /\ ObjectsOK'
  BY <1>1, <1>2 DEF StoresOK, ObjectsOK, stores, objects
<1>9. RevisionsOK'
  <2>1. journal' = journal /\ phase' = "running"
    BY <1>2 DEF journals, control
  <2>2. \A i \in 1..n : /\ validRevisions[i].id < nextRevisionID
                        /\ validRevisions[i].journalIndex <= Len(journal)
    BY DEF IInv, RevisionsOK
  <2>3. \A i, j \in 1..n :
          i < j => /\ validRevisions[i].id < validRevisions[j].id
                   /\ validRevisions[i].journalIndex <= validRevisions[j].journalIndex
    BY DEF IInv, RevisionsOK
  <2>4. \A i \in 1..(n + 1) : i \in 1..n \/ i = n + 1
    BY <1>4
  <2>5. \A i \in 1..(n + 1) : /\ validRevisions'[i].id < nextRevisionID'
                              /\ validRevisions'[i].journalIndex <= Len(journal')
    BY <1>1, <1>2, <1>4, <1>5, <1>6, <2>1, <2>2, <2>4
  <2>6. \A i, j \in 1..(n + 1) :
          i < j => /\ validRevisions'[i].id < validRevisions'[j].id
                   /\ validRevisions'[i].journalIndex <= validRevisions'[j].journalIndex
    <3> SUFFICES ASSUME NEW i \in 1..(n + 1), NEW j \in 1..(n + 1), i < j
                 PROVE  /\ validRevisions'[i].id < validRevisions'[j].id
                        /\ validRevisions'[i].journalIndex <= validRevisions'[j].journalIndex
      OBVIOUS
    <3>1. i \in 1..n
      BY <1>4
    <3>2. CASE j \in 1..n
      BY <1>6, <2>3, <3>1, <3>2
    <3>3. CASE j = n + 1
      BY <1>4, <1>6, <2>2, <3>1, <3>3
    <3> QED BY <2>4, <3>2, <3>3
  <2> QED BY <1>6, <2>1, <2>5, <2>6 DEF RevisionsOK
<1> QED BY <1>3, <1>7, <1>8, <1>9, StillIInv

LEMMA RevertStep ==
  ASSUME IInv, HistStep, (\E revid \in 0..MaxRevisions : RevertToSnapshot(revid)) \/ Reverted
  PROVE  IInv'
<1>1. /\ ObjectsOK /\ StoresOK /\ RevisionTypes /\ CallTypes /\ CallOK
  BY TypeSplit DEF IInv
<1>2. ASSUME NEW revid, RevertToSnapshot(revid) PROVE IInv'
  <2>1. PICK i \in DOMAIN validRevisions : StartRevert(i)
    BY <1>2 DEF RevertToSnapshot
  <2>2. UNCHANGED <<stores, objects, journals, nextRevisionID, txState, calls, todo>>
    BY <1>2 DEF RevertToSnapshot
  <2>3. Still
    BY <2>2 DEF Still, StateOf, journals, objects, txState
  <2>4. RevisionTypes' /\ RevisionsOK' /\ CallOK' /\ call' \in PrecompileCall
    BY <2>1, <2>2, <2>3, StartRevertOK
  <2>5. StoresOK' /\ ObjectsOK'
    BY <1>1, <2>2 DEF StoresOK, ObjectsOK, stores, objects
  <2>6. CallTypes'
    BY <1>1, <2>2, <2>4 DEF CallTypes
  <2> QED BY <2>3, <2>4, <2>5, <2>6, StillIInv
<1>3. CASE Reverted
  <2>1. /\ UNCHANGED <<stores, objects, journals, revisions, txState, calls, todo, revertTo, call>>
        /\ phase' = "running"
    BY <1>3 DEF Reverted
  <2>2. Still
    BY <2>1 DEF Still, StateOf, journals, objects, txState
  <2>3. StoresOK' /\ ObjectsOK'
    BY <1>1, <2>1 DEF StoresOK, ObjectsOK, stores, objects
  <2>4. RevisionTypes' /\ CallOK' /\ CallTypes'
    BY <1>1, <2>1 DEF RevisionTypes, CallOK, CallTypes, revisions, Phases
  <2>5. RevisionsOK'
    BY <2>1 DEF IInv, RevisionsOK, revisions, journals
  <2> QED BY <2>2, <2>3, <2>4, <2>5, StillIInv
<1> QED BY <1>2, <1>3

LEMMA EvmCallFailsOK ==
  ASSUME IInv, Grows \/ Still, EvmCallFails, validRevisions # << >>,
         nextRevisionID' = nextRevisionID
  PROVE  RevisionTypes' /\ RevisionsOK' /\ CallOK' /\ call' \in PrecompileCall
<1>1. validRevisions \in Seq([id : Nat, journalIndex : Nat])
  BY DEF IInv, TypeOK
<1>2. Len(validRevisions) \in DOMAIN validRevisions
  <2> DEFINE R == [id : Nat, journalIndex : Nat]
  <2>1. validRevisions \in Seq(R)
    BY <1>1
  <2> HIDE DEF R
  <2> QED BY <2>1
<1> QED BY <1>2, StartRevertOK DEF EvmCallFails

LEMMA RunSetupStep ==
  ASSUME IInv, HistStep, RunSetup
  PROVE  IInv'
<1>1. /\ TypeOK /\ GoodState(StateOf) /\ ObjectsOK /\ StoresOK /\ RevisionTypes /\ CallTypes
  BY PresentIsGood, TypeSplit DEF IInv
<1>2. /\ UNCHANGED <<ctx, cacheEvents, objects, journals, nextRevisionID, txState, calls, todo>>
      /\ cache' = commitWithCtx(cache) /\ phase = "running" /\ validRevisions # << >>
      /\ Precompile # Nil
  BY DEF RunSetup, Active, Running
<1>3. Still
  BY <1>2 DEF Still, StateOf, journals, objects, txState
<1>4. StoresOK'
  BY <1>1, <1>2, CommitType DEF StoresOK
<1>5. ObjectsOK'
  BY <1>1, <1>2 DEF ObjectsOK, objects
<1>6. CASE EvmCallFails
  <2>1. RevisionTypes' /\ RevisionsOK' /\ CallOK' /\ call' \in PrecompileCall
    BY <1>2, <1>3, <1>6, EvmCallFailsOK
  <2>2. CallTypes'
    BY <1>1, <1>2, <2>1 DEF CallTypes
  <2> QED BY <1>3, <1>4, <1>5, <2>1, <2>2, StillIInv
<1>7. CASE /\ phase' = "method"
           /\ call' = [snapshot |-> cache, events |-> cacheEvents, entries |-> << >>]
           /\ UNCHANGED <<validRevisions, revertTo>>
  <2>1. RevisionTypes'
    BY <1>1, <1>2, <1>7 DEF RevisionTypes, Phases
  <2>2. CallTypes'
    <3>1. << >> \in Moves /\ cache \in MultiStore \cup {Nil} /\ cacheEvents \in Seq(Nat)
      BY <1>1, NoMove, Zenon DEF StoresOK
    <3>2. call' \in PrecompileCall
      BY <1>7, <3>1 DEF PrecompileCall
    <3> QED BY <1>1, <1>2, <3>2 DEF CallTypes
  <2>3. CallOK'
    BY <1>1, <1>2, <1>7 DEF CallOK, StoresOK
  <2>4. RevisionsOK'
    BY <1>2, <1>3, <1>7, RevisionsStay DEF revisions
  <2> QED BY <1>3, <1>4, <1>5, <2>1, <2>2, <2>3, <2>4, StillIInv
<1> QED BY <1>6, <1>7 DEF RunSetup

LEMMA RunMethodStep ==
  ASSUME IInv, HistStep, NEW m \in ModuleStates, NEW move \in Moves, RunMethod(m, move)
  PROVE  IInv'
<1>1. /\ TypeOK /\ ObjectsOK /\ StoresOK /\ RevisionTypes /\ CallTypes /\ CallOK
  BY TypeSplit DEF IInv
<1>2. /\ UNCHANGED <<ctx, objects, journals, nextRevisionID, txState, calls, todo>>
      /\ cache' = Moved([cache EXCEPT !.modules = m], move) /\ phase = "method"
      /\ cacheEvents' = Append(cacheEvents, Len(cacheEvents) + 1)
      /\ MovePossible(cache, move)
  BY DEF RunMethod
<1>3. Still
  BY <1>2 DEF Still, StateOf, journals, objects, txState
<1>4. StoresOK'
  <2>1. cache' \in MultiStore
    BY <1>1, <1>2, MovedType DEF StoresOK
  <2>2. cacheEvents' \in Seq(Nat)
    BY <1>1, <1>2 DEF StoresOK
  <2> QED BY <1>1, <1>2, <2>1, <2>2 DEF StoresOK
<1>5. ObjectsOK'
  BY <1>1, <1>2 DEF ObjectsOK, objects
<1>6. CASE EvmCallFails
  <2>1. validRevisions # << >>
    BY <1>1, <1>2 DEF CallOK
  <2>2. RevisionTypes' /\ RevisionsOK' /\ CallOK' /\ call' \in PrecompileCall
    BY <1>2, <1>3, <1>6, <2>1, EvmCallFailsOK
  <2>3. CallTypes'
    BY <1>1, <1>2, <2>2 DEF CallTypes
  <2> QED BY <1>3, <1>4, <1>5, <2>2, <2>3, StillIInv
<1>7. CASE /\ phase' = "journal"
           /\ call' = [call EXCEPT !.entries = move]
           /\ UNCHANGED <<validRevisions, revertTo>>
  <2>1. RevisionTypes'
    BY <1>1, <1>2, <1>7 DEF RevisionTypes, Phases
  <2>2. call' \in PrecompileCall /\ call'.snapshot = call.snapshot
    BY <1>1, <1>7 DEF CallTypes, PrecompileCall
  <2>3. CallTypes'
    BY <1>1, <1>2, <2>2 DEF CallTypes
  <2>4. CallOK'
    BY <1>1, <1>2, <1>7, <2>2 DEF CallOK
  <2>5. RevisionsOK'
    BY <1>2, <1>3, <1>7, RevisionsStay DEF revisions
  <2> QED BY <1>3, <1>4, <1>5, <2>1, <2>3, <2>4, <2>5, StillIInv
<1> QED BY <1>6, <1>7 DEF RunMethod

LEMMA JournalEntriesStep ==
  ASSUME IInv, HistStep, AddBalanceChangeEntry \/ AddPrecompileFn
  PROVE  IInv'
<1>1. /\ TypeOK /\ GoodState(StateOf)
      /\ ObjectsOK /\ StoresOK /\ RevisionTypes /\ CallTypes /\ CallOK
  BY PresentIsGood, TypeSplit DEF IInv
<1>2. CASE AddBalanceChangeEntry
  <2>1. /\ phase = "journal" /\ call.entries # << >> /\ call.entries \in Moves
        /\ call' = [call EXCEPT !.entries = Tail(@)]
        /\ UNCHANGED <<stores, dirtyStorage, dirtyCode, revisions, txState, calls,
                       phase, todo, revertTo>>
    BY <1>1, <1>2 DEF AddBalanceChangeEntry, CallTypes, PrecompileCall
  <2>2. PICK op \in {"Sub", "Add"}, a \in Addrs, u \in UnitAmounts :
          call.entries = <<[op |-> op, addr |-> a, units |-> u]>>
    BY <2>1 DEF Moves
  <2>3. /\ Head(call.entries).addr = a /\ Head(call.entries).units = u
        /\ Tail(call.entries) = << >> /\ u \in Nat
    <3>1. u \in Nat
      BY AmountsAssumption, Zenon DEF AmountsAssumption
    <3> DEFINE e == [op |-> op, addr |-> a, units |-> u]
    <3>2. e.addr = a /\ e.units = u
      OBVIOUS
    <3>3. call.entries = <<e>>
      BY <2>2
    <3> HIDE DEF e
    <3>4. Head(<<e>>) = e /\ Tail(<<e>>) = << >>
      OBVIOUS
    <3> QED BY <3>1, <3>2, <3>3, <3>4
  <2> DEFINE adj == AdjustExtraDecimals(To18Decimals(u))
             bal == getOrNewStateObject(a).balance
  <2>4. adj \in Int
    BY <2>3, DecimalsNat
  <2>5. bal \in Int
    BY <1>1, NewObjectType DEF Object
  <2>6. bal + adj \in Int /\ bal - adj \in Int
    BY <2>4, <2>5
  <2>7. ChangeBalance(a, adj, bal + adj) \/ ChangeBalance(a, adj, bal - adj)
    BY <1>2, <2>3 DEF AddBalanceChangeEntry, JournaledAdd, JournaledSub
  <2> HIDE DEF adj, bal
  <2>8. Grows \/ Still
    BY <1>1, <2>1, <2>6, <2>7, ChangeBalanceGrows
  <2>9. StoresOK' /\ ObjectsOK'
    BY <1>1, <2>1 DEF StoresOK, ObjectsOK, stores
  <2>10. call' \in PrecompileCall /\ call'.snapshot = call.snapshot
    <3>1. << >> \in Moves
      BY NoMove
    <3>2. call' = [call EXCEPT !.entries = << >>]
      BY <1>1, <2>1, <2>3 DEF CallTypes, PrecompileCall
    <3> QED BY <1>1, <3>1, <3>2 DEF CallTypes, PrecompileCall
  <2>11. RevisionTypes' /\ CallTypes'
    BY <1>1, <2>1, <2>10 DEF RevisionTypes, CallTypes, revisions
  <2>12. CallOK'
    BY <1>1, <2>1, <2>10 DEF CallOK, revisions
  <2>13. RevisionsOK'
    BY <2>1, <2>8, RevisionsStay
  <2> QED BY <2>8, <2>9, <2>11, <2>12, <2>13, GrowsIInv, StillIInv
<1>3. CASE AddPrecompileFn
  <2>1. /\ phase = "journal" /\ calls' = (calls + 1) % 256
        /\ UNCHANGED <<stores, dirtyStorage, dirtyCode, nextRevisionID, txState, todo>>
    BY <1>3 DEF AddPrecompileFn
  <2>2. calls' \in 0..255
    BY <1>1, <2>1 DEF CallTypes
  <2>3. Grows
    BY <1>1, <1>3, PrecompileFnGrows
  <2>4. StoresOK' /\ ObjectsOK'
    BY <1>1, <2>1 DEF StoresOK, ObjectsOK, stores
  <2>5. CASE EvmCallFails
    <3>1. validRevisions # << >>
      BY <1>1, <2>1 DEF CallOK
    <3>2. RevisionTypes' /\ RevisionsOK' /\ CallOK' /\ call' \in PrecompileCall
      BY <2>1, <2>3, <2>5, <3>1, EvmCallFailsOK
    <3>3. CallTypes'
      BY <1>1, <2>1, <2>2, <3>2 DEF CallTypes
    <3> QED BY <2>3, <2>4, <3>2, <3>3, GrowsIInv
  <2>6. CASE phase' = "running" /\ call' = NoCall /\ UNCHANGED <<validRevisions, revertTo>>
    <3>1. RevisionTypes'
      BY <1>1, <2>1, <2>6 DEF RevisionTypes, Phases
    <3>2. CallTypes'
      BY <1>1, <2>1, <2>2, <2>6, NoCallType DEF CallTypes
    <3>3. CallOK'
      BY <2>6 DEF CallOK
    <3>4. RevisionsOK'
      BY <2>1, <2>3, <2>6, RevisionsStay DEF revisions
    <3> QED BY <2>3, <2>4, <3>1, <3>2, <3>3, <3>4, GrowsIInv
  <2> QED BY <1>3, <2>5, <2>6 DEF AddPrecompileFn
<1> QED BY <1>2, <1>3

LEMMA CommitStep ==
  ASSUME IInv, HistStep, Commit
  PROVE  IInv'
<1>1. /\ TypeOK /\ GoodState(StateOf)
      /\ ObjectsOK /\ StoresOK /\ RevisionTypes /\ CallTypes
  BY PresentIsGood, TypeSplit DEF IInv
<1>2. /\ phase = "running" /\ phase' \in {"committed", "commitFailed"}
      /\ ctx' = commitWithCtx(ctx) \/ ctx' = commitWithCtx(cache)
      /\ UNCHANGED <<cache, cacheEvents, objects, journals, revisions, txState, calls, todo,
                     revertTo, call>>
  BY DEF Commit, Running
<1>3. Still
  BY <1>2 DEF Still, StateOf, journals, objects, txState
<1>4. StoresOK'
  BY <1>1, <1>2, CommitType DEF StoresOK
<1>5. ObjectsOK'
  BY <1>1, <1>2 DEF ObjectsOK, objects
<1>6. RevisionTypes' /\ CallTypes' /\ CallOK'
  BY <1>1, <1>2 DEF RevisionTypes, CallTypes, CallOK, Phases, revisions
<1>7. RevisionsOK'
  BY <1>2, <1>3, RevisionsStay
<1> QED BY <1>3, <1>4, <1>5, <1>6, <1>7, StillIInv

LEMMA StutterStep ==
  ASSUME IInv, UNCHANGED <<vars, hist>>
  PROVE  IInv'
<1>1. /\ UNCHANGED <<ctx, cache, cacheEvents, obj, dirtyStorage, dirtyCode>>
      /\ UNCHANGED <<journal, dirties, validRevisions, nextRevisionID, refund, logs, accessList>>
      /\ UNCHANGED <<calls, phase, todo, revertTo, call, hist>>
  BY DEF vars, stores, objects, journals, revisions, txState, control
<1>2. StateOf' = StateOf
  BY <1>1 DEF StateOf
<1>3. TypeOK'
  BY <1>1, <1>2 DEF IInv, TypeOK
<1>4. HistoryOK' /\ UndoIsExact'
  BY <1>1, <1>2 DEF IInv, HistoryOK, UndoIsExact
<1>5. RevisionsOK' /\ CallOK'
  BY <1>1 DEF IInv, RevisionsOK, CallOK
<1> QED BY <1>3, <1>4, <1>5 DEF IInv

-----------------------------------------------------------------------------
(* IInv is inductive *)

LEMMA InitIInv == HInit => IInv
<1> SUFFICES ASSUME HInit PROVE IInv
  OBVIOUS
<1>1. Init /\ hist = <<[st |-> StateOf, cache |-> cache]>>
  BY DEF HInit
<1> DEFINE Empty == /\ cacheEvents = << >> /\ journal = << >> /\ validRevisions = << >>
                    /\ nextRevisionID = 0 /\ calls = 0 /\ revertTo = 0
                    /\ phase = "prepare" /\ call = NoCall
<1>0. Empty
  BY <1>1, Zenon DEF Init
<1> HIDE DEF Empty
<1>2. ctx \in MultiStore /\ cache = ctx
  BY <1>1, StoresAssumption, Zenon DEF Init, StoresAssumption
<1>3. obj \in [Addrs -> Object \cup {Nil}]
  <2>1. \A a \in Addrs : loadObject(a) \in Object \cup {Nil}
    <3> SUFFICES ASSUME NEW a \in Addrs PROVE loadObject(a) \in Object \cup {Nil}
      OBVIOUS
    <3>1. ctx.acct[a] \in Account
      BY <1>2 DEF MultiStore
    <3>2. GetBalance(ctx.acct[a]) \in Int
      BY <3>1, DecimalsNat DEF GetBalance, Account
    <3> QED BY <3>1, <3>2 DEF loadObject, Account, Object
  <2> QED BY <1>1, <2>1 DEF Init
<1>4. accessList \in AL!accessList /\ SoundList(accessList)
  <2>1. accessList = AL!newAccessList
    BY <1>1 DEF Init
  <2>2. AL!newAccessList.addresses = [a \in Addrs |-> -1] /\ AL!newAccessList.slots = << >>
    BY DEF AL!newAccessList, AL!Absent
  <2>3. AL!newAccessList \in AL!accessList
    BY DEF AL!newAccessList, AL!accessList, AL!Absent
  <2>4. SoundList(AL!newAccessList)
    BY <2>2 DEF SoundList, AL!Absent, AL!NoSlots
  <2> QED BY <2>1, <2>3, <2>4
<1>5. dirties \in [Addrs -> Nat] /\ Backed(StateOf)
  <2>1. dirties = [a \in Addrs |-> 0]
    BY <1>1, Zenon DEF Init
  <2>2. StateOf.dirties = dirties
    BY DEF StateOf
  <2> QED BY <2>1, <2>2 DEF Backed
<1>6. StateOf \in State /\ StateOf.accessList = accessList
  <2>1. refund = 0 /\ logs = << >>
    BY <1>1, Zenon DEF Init
  <2>2. refund \in Nat /\ logs \in Seq([data : LogData, index : Nat])
    BY <2>1
  <2> QED BY <1>3, <1>4, <1>5, <2>2 DEF State, StateOf
<1>7. TypeOK
  <2>1. journal \in Seq(Entry) /\ ObjectsOK /\ StoresOK
    <3>1. dirtyStorage = [a \in Addrs |-> {}] /\ dirtyCode = [a \in Addrs |-> FALSE]
      BY <1>1, Zenon DEF Init
    <3>2. ObjectsOK
      BY <3>1 DEF ObjectsOK
    <3>3. StoresOK
      BY <1>0, <1>2 DEF Empty, StoresOK
    <3> QED BY <1>0, <3>2, <3>3 DEF Empty
  <2>2. RevisionTypes
    BY <1>0 DEF Empty, RevisionTypes, Phases
  <2>3. CallTypes
    <3>1. call \in PrecompileCall
      BY <1>0, NoCallType, Zenon DEF Empty
    <3>2. todo \in Seq([addr : Addrs, slot : Keys \cup {Nil}])
      BY <1>1, ListsAssumption, Zenon DEF Init, ListsAssumption
    <3>3. calls \in 0..255
      BY <1>0 DEF Empty
    <3> QED BY <3>1, <3>2, <3>3 DEF CallTypes
  <2> QED BY <1>6, <2>1, <2>2, <2>3, TypeSplit
<1>8. HistoryOK
  <2> DEFINE HS == [st : State, cache : MultiStore]
             h == [st |-> StateOf, cache |-> cache]
  <2>1. h \in HS /\ h.st = StateOf
    BY <1>2, <1>6
  <2> HIDE DEF HS, h
  <2>2. hist \in Seq(HS) /\ Len(hist) = 1 /\ hist[1] = h
    BY <1>1, <2>1 DEF h
  <2>3. \A i \in 1..Len(hist) : SoundList(hist[i].st.accessList) /\ Backed(hist[i].st)
    BY <1>4, <1>5, <1>6, <2>1, <2>2
  <2> QED BY <2>2, <2>3 DEF HistoryOK, HS
<1>9. UndoIsExact
  <2>1. Len(hist) = 1 /\ hist[1].st = StateOf
    BY <1>1
  <2> QED BY <1>0, <2>1 DEF Empty, UndoIsExact
<1>10. RevisionsOK /\ CallOK
  BY <1>0 DEF Empty, RevisionsOK, CallOK
<1> QED BY <1>7, <1>8, <1>9, <1>10 DEF IInv

LEMMA NextIInv ==
  ASSUME IInv, [HNext]_hvars
  PROVE  IInv'
<1>1. CASE UNCHANGED hvars
  BY <1>1, StutterStep DEF hvars
<1>2. CASE HNext
  <2>1. Next /\ HistStep
    BY <1>2 DEF HNext, HistStep
  <2>2. ASSUME NEW a \in Touched,
               \/ \E amount \in Amounts : AddBalance(a, amount) \/ SubBalance(a, amount)
               \/ \E n \in 0..MaxNonce : SetNonce(a, n)
               \/ \E code \in Codes \cup {EmptyCode} : SetCode(a, code)
               \/ \E k \in Keys, v \in Values : SetState(a, k, v)
               \/ Suicide(a)
               \/ CreateAccount(a)
               \/ CreateContract(a)
        PROVE  IInv'
    <3>1. a \in Addrs
      BY AddressAssumption DEF AddressAssumption
    <3> QED BY <2>1, <2>2, <3>1, AccountStep
  <2>3. CASE \/ \E a \in Accessed : \/ AddAddressToAccessList(a)
                                   \/ \E k \in Keys : AddSlotToAccessList(a, k)
             \/ \E gas \in 1..MaxRefund : AddRefund(gas) \/ SubRefund(gas)
             \/ \E data \in LogData : AddLog(data)
    BY <2>1, <2>3, TxStateStep
  <2>4. CASE PrepareAccessList \/ Prepared
    BY <2>1, <2>4, PrepareStep
  <2>5. CASE Snapshot
    BY <2>1, <2>5, SnapshotStep
  <2>6. CASE (\E revid \in 0..MaxRevisions : RevertToSnapshot(revid)) \/ Reverted
    BY <2>1, <2>6, RevertStep
  <2>7. CASE UndoEntry
    BY <2>1, <2>7, UndoEntryIInv
  <2>8. CASE RunSetup
    BY <2>1, <2>8, RunSetupStep
  <2>9. ASSUME NEW m \in ModuleStates, NEW move \in Moves, RunMethod(m, move) PROVE IInv'
    BY <2>1, <2>9, RunMethodStep
  <2>10. CASE AddBalanceChangeEntry \/ AddPrecompileFn
    BY <2>1, <2>10, JournalEntriesStep
  <2>11. CASE Commit
    BY <2>1, <2>11, CommitStep
  <2>12. CASE Discarded
    <3>1. UNCHANGED vars /\ journal' = journal
      BY <2>12 DEF Discarded, vars, journals
    <3>2. hist' = hist
      BY <2>1, <3>1 DEF HistStep, IInv, TypeOK
    <3> QED BY <3>1, <3>2, StutterStep
  <2> QED BY <2>1, <2>2, <2>3, <2>4, <2>5, <2>6, <2>7, <2>8, <2>9, <2>10, <2>11, <2>12
          DEF Next
<1> QED BY <1>1, <1>2

(* The inductive invariant holds of every behaviour of the StateDB: every  *)
(* operation of statedb.go keeps journal, revisions and history in step.   *)
THEOREM InductiveInvariant == HSpec => []IInv
BY InitIInv, NextIInv, PTL DEF HSpec

(* The values of StateDB, journal entries and multistores have the types   *)
(* the code gives them; in particular no balance the bank keeps is         *)
(* negative.                                                               *)
THEOREM TypeCorrect == HSpec => []TypeOK
<1>1. IInv => TypeOK
  BY DEF IInv
<1> QED BY <1>1, InductiveInvariant, PTL

(* journal.Revert is exact: entry by entry, it goes back through the       *)
(* states that the operations of the StateDB went through.                 *)
THEOREM RevertIsExact == HSpec => []UndoIsExact
<1>1. IInv => UndoIsExact
  BY DEF IInv
<1> QED BY <1>1, InductiveInvariant, PTL

(* The access list's index structure survives every order of AddAddress,   *)
(* AddSlot and their undos.                                                *)
THEOREM ListIsSound == HSpec => []AccessListSound
<1>1. IInv => AccessListSound
  BY PresentIsGood, ListParts DEF AccessListSound
<1> QED BY <1>1, InductiveInvariant, PTL

(* commitWithCtx finds an object for every address the journal says is     *)
(* dirty.                                                                  *)
THEOREM DirtyHasObject == HSpec => []DirtyObjectsExist
<1>1. IInv => DirtyObjectsExist
  BY PresentIsGood DEF IInv, GoodState, DirtyObjectsExist
<1> QED BY <1>1, InductiveInvariant, PTL

=============================================================================
