------------------------------- MODULE StateDB -------------------------------
(***************************************************************************)
(* One Ethereum transaction over x/vm/statedb: the journaled StateDB that  *)
(* the EVM mutates, its snapshots, and the calls into stateful precompiles *)
(* (precompiles/common) that run on a cache of the transaction's store.    *)
(*                                                                         *)
(* ctx does not change before Commit and objects are loaded from ctx only, *)
(* so an account's object is loaded from the start; Nil is the account     *)
(* that does not exist.  RevertToSnapshot undoes one journal entry per     *)
(* step; nothing else can happen until it is through.                      *)
(***************************************************************************)
EXTENDS EvmKeeper, Sequences

CONSTANTS Nil,                 \* no object, no address
          Sender,              \* the sender of the message, Nil if it is none of Addrs
          Precompile,          \* the address of a stateful precompile, Nil if none is active
          Touched,             \* the addresses whose accounts the EVM changes
          Accessed,            \* the addresses it adds to the access list
          Amounts,             \* amounts in 18 decimals the EVM moves
          UnitAmounts,         \* amounts in bank decimals a precompile moves
          LogData,             \* contents of logs
          AccessLists,         \* the calls PrepareAccessList makes, per message
          InitStores,          \* what the store may hold before the transaction
          MaxPrecompileCalls,  \* types.MaxPrecompileCalls
          MaxBalance, MaxNonce, MaxRefund, MaxLogs, MaxJournal, MaxRevisions \* bounds

ASSUME NilAssumption == Nil \notin Addrs
ASSUME AddressAssumption == /\ {Sender, Precompile} \subseteq Addrs \cup {Nil}
                            /\ Touched \subseteq Addrs
                            /\ Accessed \subseteq Addrs
ASSUME AmountsAssumption == Amounts \subseteq Nat /\ UnitAmounts \subseteq Nat
ASSUME CallsAssumption == MaxPrecompileCalls \in Nat
ASSUME StoresAssumption == InitStores \subseteq MultiStore
ASSUME ListsAssumption ==
  AccessLists \subseteq Seq([addr : Addrs, slot : Keys \cup {Nil}])
ASSUME BoundsAssumption ==
  /\ MaxBalance \in Nat /\ MaxNonce \in Nat /\ MaxRefund \in Nat
  /\ MaxLogs \in Nat /\ MaxJournal \in Nat /\ MaxRevisions \in Nat

VARIABLES
  ctx,             \* the transaction's multistore
  cache,           \* the multistore of cacheCtx (equal to ctx until it is used)
  cacheEvents,     \* the events of cacheCtx's event manager
  writeCache,      \* which events writeCache emits: none yet ("nil"), those of cacheCtx
                   \* ("live"), or those a reverted call found ("snapshot")
  ctxEvents,       \* the events emitted to ctx's event manager
  obj,             \* stateObjects
  dirtyStorage,    \* per object, the keys of its dirtyStorage
  dirtyCode,       \* per object, its dirtyCode flag
  journal,         \* journal.entries
  dirties,         \* journal.dirties, 0 for an address that is not in the map
  validRevisions, nextRevisionID,
  refund, logs, accessList,
  calls,           \* precompileCallsCounter
  phase,           \* where the transaction is
  todo,            \* calls PrepareAccessList has still to make
  revertTo,        \* journal index a running RevertToSnapshot goes back to
  call             \* the precompile call that is running

stores == <<ctx, cache, cacheEvents, writeCache, ctxEvents>>
objects == <<obj, dirtyStorage, dirtyCode>>
journals == <<journal, dirties>>
revisions == <<validRevisions, nextRevisionID>>
txState == <<refund, logs, accessList>>
control == <<phase, todo, revertTo, call>>
vars == <<stores, objects, journals, revisions, txState, calls, control>>

AL == INSTANCE AccessList

NoCall == [snapshot |-> Nil, events |-> << >>, entries |-> << >>]

-----------------------------------------------------------------------------
(* stateObject *)

Object == [balance : Int, nonce : Nat, code : Codes \cup {EmptyCode},
           state : [Keys -> Values], suicided : BOOLEAN]

ASSUME ObjectAssumption == Nil \notin Object

newObject(a) == [balance |-> 0, nonce |-> 0, code |-> EmptyCode,
                 state |-> ctx.acct[a].storage, suicided |-> FALSE]

loadObject(a) ==
  IF ctx.acct[a].exists
  THEN [balance |-> GetBalance(ctx.acct[a]), nonce |-> ctx.acct[a].nonce,
        code |-> ctx.acct[a].codeHash, state |-> ctx.acct[a].storage,
        suicided |-> FALSE]
  ELSE Nil

getOrNewStateObject(a) == IF obj[a] = Nil THEN newObject(a) ELSE obj[a]

-----------------------------------------------------------------------------
(* journal *)

createObjectChange(a) == [type |-> "createObject", addr |-> a]
resetObjectChange(a) ==
  [type |-> "resetObject", addr |-> a, prev |-> obj[a],
   prevKeys |-> dirtyStorage[a], prevDirtyCode |-> dirtyCode[a]]
suicideChange(a) == [type |-> "suicide", addr |-> a, prev |-> obj[a].suicided,
                     prevbalance |-> obj[a].balance]
balanceChange(a, prev) == [type |-> "balance", addr |-> a, prev |-> prev]
nonceChange(a, prev) == [type |-> "nonce", addr |-> a, prev |-> prev]
codeChange(a, prev) == [type |-> "code", addr |-> a, prev |-> prev]
storageChange(a, k, prev) == [type |-> "storage", addr |-> a, key |-> k, prev |-> prev]
refundChange == [type |-> "refund", prev |-> refund]
addLogChange == [type |-> "addLog"]
accessListAddAccountChange(a) == [type |-> "accessListAddAccount", addr |-> a]
accessListAddSlotChange(a, slot) ==
  [type |-> "accessListAddSlot", addr |-> a, slot |-> slot]
precompileCallChange(ms, events) ==
  [type |-> "precompileCall", multiStore |-> ms, events |-> events]

(* Dirtied without the nonce changes. *)
DirtiedButNonce(e) ==
  IF e.type \in {"createObject", "suicide", "balance", "code", "storage"}
  THEN e.addr ELSE Nil

Dirtied(e) ==
  IF e.type \in {"createObject", "suicide", "balance", "nonce", "code", "storage"}
  THEN e.addr ELSE Nil

(* The journal's part of appending and of undoing an entry. *)
Counted(d, e) == IF Dirtied(e) = Nil THEN d ELSE [d EXCEPT ![Dirtied(e)] = @ + 1]
Discounted(d, e) == IF Dirtied(e) = Nil THEN d ELSE [d EXCEPT ![Dirtied(e)] = @ - 1]

append(e) ==
  /\ journal' = Append(journal, e)
  /\ dirties' = Counted(dirties, e)

append2(e1, e2) ==
  /\ journal' = Append(Append(journal, e1), e2)
  /\ dirties' = Counted(Counted(dirties, e1), e2)

(* What RevertToSnapshot brings back. *)
StateOf == [obj |-> obj, dirties |-> dirties, refund |-> refund, logs |-> logs,
            accessList |-> accessList]

(* UndoObj that does not give a suicided account its balance back. *)
UndoObjPoor(e, o) ==
  CASE e.type = "createObject" -> [o EXCEPT ![e.addr] = Nil]
    [] e.type = "resetObject"  -> [o EXCEPT ![e.addr] = e.prev]
    [] e.type = "suicide"      -> [o EXCEPT ![e.addr].suicided = e.prev]
    [] e.type = "balance"      -> [o EXCEPT ![e.addr].balance = e.prev]
    [] e.type = "nonce"        -> [o EXCEPT ![e.addr].nonce = e.prev]
    [] e.type = "code"         -> [o EXCEPT ![e.addr].code = e.prev]
    [] e.type = "storage"      -> [o EXCEPT ![e.addr].state[e.key] = e.prev]
    [] OTHER                   -> o

UndoObj(e, o) ==
  CASE e.type = "createObject" -> [o EXCEPT ![e.addr] = Nil]
    [] e.type = "resetObject"  -> [o EXCEPT ![e.addr] = e.prev]
    [] e.type = "suicide"      -> [o EXCEPT ![e.addr].suicided = e.prev,
                                            ![e.addr].balance = e.prevbalance]
    [] e.type = "balance"      -> [o EXCEPT ![e.addr].balance = e.prev]
    [] e.type = "nonce"        -> [o EXCEPT ![e.addr].nonce = e.prev]
    [] e.type = "code"         -> [o EXCEPT ![e.addr].code = e.prev]
    [] e.type = "storage"      -> [o EXCEPT ![e.addr].state[e.key] = e.prev]
    [] OTHER                   -> o

UndoAccessList(e, al) ==
  CASE e.type = "accessListAddAccount" -> AL!DeleteAddress(al, e.addr)
    [] e.type = "accessListAddSlot"    -> AL!DeleteSlot(al, e.addr, e.slot)
    [] OTHER                           -> al

Undo(e, s) ==
  [obj        |-> UndoObj(e, s.obj),
   dirties    |-> Discounted(s.dirties, e),
   refund     |-> IF e.type = "refund" THEN e.prev ELSE s.refund,
   logs       |-> IF e.type = "addLog" THEN SubSeq(s.logs, 1, Len(s.logs) - 1) ELSE s.logs,
   accessList |-> UndoAccessList(e, s.accessList)]

-----------------------------------------------------------------------------
Init ==
  /\ ctx \in InitStores
  /\ cache = ctx
  /\ cacheEvents = << >>
  /\ writeCache = [kind |-> "nil", events |-> << >>]
  /\ ctxEvents = << >>
  /\ obj = [a \in Addrs |-> loadObject(a)]
  /\ dirtyStorage = [a \in Addrs |-> {}]
  /\ dirtyCode = [a \in Addrs |-> FALSE]
  /\ journal = << >>
  /\ dirties = [a \in Addrs |-> 0]
  /\ validRevisions = << >>
  /\ nextRevisionID = 0
  /\ refund = 0
  /\ logs = << >>
  /\ accessList = AL!newAccessList
  /\ calls = 0
  /\ phase = "prepare"
  /\ todo \in AccessLists
  /\ revertTo = 0
  /\ call = NoCall

-----------------------------------------------------------------------------
(* The setters of accounts.  SetObject is getOrNewStateObject followed by  *)
(* one journaled change of the object.                                     *)

SetObject(a, newObj, e) ==
  /\ obj' = [obj EXCEPT ![a] = newObj]
  /\ IF obj[a] = Nil THEN append2(createObjectChange(a), e) ELSE append(e)

(* AddBalance and SubBalance on the object: an amount that rounds to zero  *)
(* changes nothing but may have created the object.                        *)
ChangeBalance(a, adjusted, newBalance) ==
  LET o == getOrNewStateObject(a)
  IN  IF adjusted # 0
      THEN SetObject(a, [o EXCEPT !.balance = newBalance], balanceChange(a, o.balance))
      ELSE /\ obj' = [obj EXCEPT ![a] = o]
           /\ IF obj[a] = Nil THEN append(createObjectChange(a)) ELSE UNCHANGED journals

JournaledAdd(a, amount) ==
  LET adj == AdjustExtraDecimals(amount)
      bal == getOrNewStateObject(a).balance
  IN  ChangeBalance(a, adj, bal + adj)

JournaledSub(a, amount) ==
  LET adj == AdjustExtraDecimals(amount)
      bal == getOrNewStateObject(a).balance
  IN  ChangeBalance(a, adj, bal - adj)

(* The EVM is running; MaxJournal bounds how much it does. *)
Running == phase = "running"
Active == Running /\ Len(journal) < MaxJournal

AddBalance(a, amount) ==
  /\ Active
  /\ getOrNewStateObject(a).balance + amount <= MaxBalance
  /\ JournaledAdd(a, amount)
  /\ UNCHANGED <<stores, dirtyStorage, dirtyCode, revisions, txState, calls, control>>

(* The EVM subtracts only what CanTransfer found in the account. *)
SubBalance(a, amount) ==
  /\ Active
  /\ amount <= getOrNewStateObject(a).balance
  /\ JournaledSub(a, amount)
  /\ UNCHANGED <<stores, dirtyStorage, dirtyCode, revisions, txState, calls, control>>

(* The EVM increments the nonce of a creating account; ApplyMessage sets   *)
(* the sender's to any value.                                              *)
SetNonce(a, n) ==
  LET o == getOrNewStateObject(a)
  IN  /\ Active
      /\ n <= MaxNonce
      /\ n = o.nonce + 1 \/ a = Sender
      /\ SetObject(a, [o EXCEPT !.nonce = n], nonceChange(a, o.nonce))
      /\ UNCHANGED <<stores, dirtyStorage, dirtyCode, revisions, txState, calls, control>>

(* Only a contract's own code, or its constructor, touches its code and    *)
(* storage: an account with code, or with the nonce creation gave it.      *)
Executing(a) == /\ a \notin {Sender, Precompile}
                /\ obj[a] # Nil
                /\ obj[a].code # EmptyCode \/ obj[a].nonce > 0

SetCode(a, code) ==
  /\ Active
  /\ Executing(a)
  /\ SetObject(a, [obj[a] EXCEPT !.code = code], codeChange(a, obj[a].code))
  /\ dirtyCode' = [dirtyCode EXCEPT ![a] = TRUE]
  /\ UNCHANGED <<stores, dirtyStorage, revisions, txState, calls, control>>

SetState(a, k, v) ==
  /\ Active
  /\ Executing(a)
  /\ obj[a].state[k] # v
  /\ SetObject(a, [obj[a] EXCEPT !.state[k] = v], storageChange(a, k, obj[a].state[k]))
  /\ dirtyStorage' = [dirtyStorage EXCEPT ![a] = @ \cup {k}]
  /\ UNCHANGED <<stores, dirtyCode, revisions, txState, calls, control>>

Suicide(a) ==
  /\ Active
  /\ Executing(a)
  /\ SetObject(a, [obj[a] EXCEPT !.suicided = TRUE, !.balance = 0], suicideChange(a))
  /\ UNCHANGED <<stores, dirtyStorage, dirtyCode, revisions, txState, calls, control>>

(* CreateAccount as evm.Call uses it: the callee does not exist yet. *)
CreateAccount(a) ==
  /\ Active
  /\ obj[a] = Nil
  /\ obj' = [obj EXCEPT ![a] = newObject(a)]
  /\ append(createObjectChange(a))
  /\ UNCHANGED <<stores, dirtyStorage, dirtyCode, revisions, txState, calls, control>>

(* CreateAccount as evm.create uses it: the address has neither nonce nor  *)
(* code, and SetNonce(a, 1) follows.  An object that is there already is   *)
(* replaced and its balance carried over, without a journal entry of its   *)
(* own.                                                                    *)
CreateContract(a) ==
  LET prev == getOrNewStateObject(a)
      new  == [newObject(a) EXCEPT !.balance = prev.balance]
  IN  /\ Active
      /\ a \notin {Sender, Precompile}
      /\ prev.nonce = 0 /\ prev.code = EmptyCode
      /\ obj' = [obj EXCEPT ![a] = [new EXCEPT !.nonce = 1]]
      /\ append2(IF obj[a] = Nil THEN createObjectChange(a) ELSE resetObjectChange(a),
                 nonceChange(a, 0))
      /\ dirtyStorage' = [dirtyStorage EXCEPT ![a] = {}]
      /\ dirtyCode' = [dirtyCode EXCEPT ![a] = FALSE]
      /\ UNCHANGED <<stores, revisions, txState, calls, control>>

-----------------------------------------------------------------------------
(* The transaction's other journaled state: refund counter, logs, access   *)
(* list.                                                                   *)

AddRefund(gas) ==
  /\ Active
  /\ refund + gas <= MaxRefund
  /\ append(refundChange)
  /\ refund' = refund + gas
  /\ UNCHANGED <<stores, objects, revisions, logs, accessList, calls, control>>

(* SubRefund panics when gas > refund. *)
SubRefund(gas) ==
  /\ Active
  /\ gas <= refund
  /\ append(refundChange)
  /\ refund' = refund - gas
  /\ UNCHANGED <<stores, objects, revisions, logs, accessList, calls, control>>

(* Logs come from the EVM and, as its events, from a running precompile. *)
AddLog(data) ==
  /\ Active \/ phase = "method"
  /\ Len(logs) < MaxLogs
  /\ append(addLogChange)
  /\ logs' = Append(logs, [data |-> data, index |-> Len(logs)])
  /\ UNCHANGED <<stores, objects, revisions, refund, accessList, calls, control>>

JournaledAddAddress(a) ==
  /\ accessList' = AL!AddAddress(accessList, a)
  /\ IF AL!ContainsAddress(accessList, a)
     THEN UNCHANGED journals
     ELSE append(accessListAddAccountChange(a))

JournaledAddSlot(a, slot) ==
  /\ accessList' = AL!AddSlot(accessList, a, slot)
  /\ IF AL!Contains(accessList, a, slot) THEN UNCHANGED journals
     ELSE IF AL!ContainsAddress(accessList, a)
          THEN append(accessListAddSlotChange(a, slot))
          ELSE append2(accessListAddAccountChange(a), accessListAddSlotChange(a, slot))

AddAddressToAccessList(a) ==
  /\ Active
  /\ ~AL!ContainsAddress(accessList, a)
  /\ JournaledAddAddress(a)
  /\ UNCHANGED <<stores, objects, revisions, refund, logs, calls, control>>

AddSlotToAccessList(a, slot) ==
  /\ Active
  /\ ~AL!Contains(accessList, a, slot)
  /\ JournaledAddSlot(a, slot)
  /\ UNCHANGED <<stores, objects, revisions, refund, logs, calls, control>>

(* PrepareAccessList, one of its calls at a time, before the EVM runs. *)
PrepareAccessList ==
  /\ phase = "prepare"
  /\ todo # << >>
  /\ todo' = Tail(todo)
  /\ IF Head(todo).slot = Nil THEN JournaledAddAddress(Head(todo).addr)
     ELSE JournaledAddSlot(Head(todo).addr, Head(todo).slot)
  /\ UNCHANGED <<stores, objects, revisions, refund, logs, calls, phase, revertTo, call>>

Prepared ==
  /\ phase = "prepare"
  /\ todo = << >>
  /\ phase' = "running"
  /\ UNCHANGED <<stores, objects, journals, revisions, txState, calls, todo, revertTo, call>>

-----------------------------------------------------------------------------
(* Snapshots *)

Snapshot ==
  /\ Running
  /\ nextRevisionID < MaxRevisions
  /\ nextRevisionID' = nextRevisionID + 1
  /\ validRevisions' = Append(validRevisions,
                              [id |-> nextRevisionID, journalIndex |-> Len(journal)])
  /\ UNCHANGED <<stores, objects, journals, txState, calls, control>>

(* StartRevert that keeps the revision it goes back to. *)
StartRevertKeeps(i) ==
  /\ phase' = "reverting"
  /\ revertTo' = validRevisions[i].journalIndex
  /\ validRevisions' = SubSeq(validRevisions, 1, i)
  /\ call' = NoCall

StartRevert(i) ==
  /\ phase' = "reverting"
  /\ revertTo' = validRevisions[i].journalIndex
  /\ validRevisions' = SubSeq(validRevisions, 1, i - 1)
  /\ call' = NoCall

RevertToSnapshot(revid) ==
  /\ Running
  /\ \E i \in DOMAIN validRevisions : validRevisions[i].id = revid /\ StartRevert(i)
  /\ UNCHANGED <<stores, objects, journals, nextRevisionID, txState, calls, todo>>

(* One round of the loop of journal.Revert, for the last entry. *)
UndoEntry ==
  LET e == journal[Len(journal)]
      s == Undo(e, StateOf)
  IN  /\ phase = "reverting"
      /\ Len(journal) > revertTo
      /\ journal' = SubSeq(journal, 1, Len(journal) - 1)
      /\ dirties' = s.dirties
      /\ obj' = s.obj
      /\ refund' = s.refund
      /\ logs' = s.logs
      /\ accessList' = s.accessList
      /\ dirtyStorage' = CASE e.type = "createObject" -> [dirtyStorage EXCEPT ![e.addr] = {}]
                           [] e.type = "resetObject" -> [dirtyStorage EXCEPT ![e.addr] = e.prevKeys]
                           [] e.type = "storage" -> [dirtyStorage EXCEPT ![e.addr] = @ \cup {e.key}]
                           [] OTHER -> dirtyStorage
      /\ dirtyCode' = CASE e.type = "createObject" -> [dirtyCode EXCEPT ![e.addr] = FALSE]
                        [] e.type = "resetObject" -> [dirtyCode EXCEPT ![e.addr] = e.prevDirtyCode]
                        [] e.type = "code" -> [dirtyCode EXCEPT ![e.addr] = TRUE]
                        [] OTHER -> dirtyCode
      /\ IF e.type = "precompileCall"
         THEN /\ cache' = e.multiStore
              /\ writeCache' = [kind |-> "snapshot", events |-> e.events]
         ELSE UNCHANGED <<cache, writeCache>>
      /\ UNCHANGED <<ctx, cacheEvents, ctxEvents, revisions, calls, control>>

Reverted ==
  /\ phase = "reverting"
  /\ Len(journal) = revertTo
  /\ phase' = "running"
  /\ UNCHANGED <<stores, objects, journals, revisions, txState, calls, todo, revertTo, call>>

-----------------------------------------------------------------------------
(* commitWithCtx on the multistore ms: the dirty objects in the order of   *)
(* their addresses, up to the first one the keeper refuses.                *)

Dirty == {a \in Addrs : dirties[a] > 0}

Refused(ms) ==
  {a \in Dirty : IF obj[a].suicided THEN DeleteAccountFails(ms.acct[a])
                                    ELSE obj[a].balance < 0}

commitObject(acct, a) ==
  IF obj[a].suicided THEN DeleteAccount(acct)
  ELSE keeperSetState(SetAccount(acct, obj[a].nonce, obj[a].balance, obj[a].code),
                      dirtyStorage[a], obj[a].state)

commitWithCtx(ms) ==
  LET written == {a \in Dirty : \A b \in Refused(ms) : a < b}
  IN  [acct    |-> [a \in Addrs |-> IF a \in written THEN commitObject(ms.acct[a], a)
                                                    ELSE ms.acct[a]],
       code    |-> ms.code \cup {obj[a].code : a \in {b \in written :
                     ~obj[b].suicided /\ dirtyCode[b] /\ obj[b].code # EmptyCode}},
       modules |-> ms.modules]

-----------------------------------------------------------------------------
(* A call into a stateful precompile, inside the frame evm.Call opened     *)
(* with its Snapshot.  An error makes evm.Call revert to that snapshot.    *)

EvmCallFails == StartRevert(Len(validRevisions))

(* RunSetup that copies the cache after the journal's changes went in. *)
RunSetupLate ==
  /\ Active
  /\ Precompile # Nil
  /\ validRevisions # << >>
  /\ cache' = commitWithCtx(cache)
  /\ writeCache' = IF writeCache.kind = "nil" THEN [writeCache EXCEPT !.kind = "live"]
                                              ELSE writeCache
  /\ \/ EvmCallFails
     \/ /\ Refused(cache) = {}
        /\ phase' = "method"
        /\ call' = [snapshot |-> cache', events |-> cacheEvents, entries |-> << >>]
        /\ UNCHANGED <<validRevisions, revertTo>>
  /\ UNCHANGED <<ctx, cacheEvents, ctxEvents, objects, journals, nextRevisionID,
                 txState, calls, todo>>

(* RunSetup: the cache context is created if need be, copied, and brought  *)
(* up to date with the journal's changes.  It can still fail afterwards:   *)
(* unknown method, write in a static call, bad arguments, out of gas.      *)
RunSetup ==
  /\ Active
  /\ Precompile # Nil
  /\ validRevisions # << >>
  /\ cache' = commitWithCtx(cache)
  /\ writeCache' = IF writeCache.kind = "nil" THEN [writeCache EXCEPT !.kind = "live"]
                                              ELSE writeCache
  /\ \/ EvmCallFails
     \/ /\ Refused(cache) = {}
        /\ phase' = "method"
        /\ call' = [snapshot |-> cache, events |-> cacheEvents, entries |-> << >>]
        /\ UNCHANGED <<validRevisions, revertTo>>
  /\ UNCHANGED <<ctx, cacheEvents, ctxEvents, objects, journals, nextRevisionID,
                 txState, calls, todo>>

(* What a method may move in the bank: at most one amount of the EVM coin, *)
(* out of or into an account.                                              *)
Moves == {<< >>} \cup {<<[op |-> op, addr |-> a, units |-> u]>> :
                        op \in {"Sub", "Add"}, a \in Addrs, u \in UnitAmounts}

Moved(ms, move) ==
  IF move = << >> THEN ms
  ELSE LET m == move[1]
           acct == ms.acct[m.addr]
       IN  [ms EXCEPT !.acct[m.addr] =
              [acct EXCEPT !.exists = TRUE,
                           !.units = IF m.op = "Sub" THEN @ - m.units ELSE @ + m.units]]

MovePossible(ms, move) ==
  move # << >> =>
    LET acct == ms.acct[move[1].addr]
    IN  IF move[1].op = "Sub" THEN acct.units >= move[1].units
        ELSE To18Decimals(acct.units + move[1].units) <= MaxBalance

(* The method itself: it leaves some state of the other modules, a move of *)
(* coins and an event in the cache.  It may fail with any part of that     *)
(* done, or succeed and then run out of gas.  On success the move is what  *)
(* SetBalanceChangeEntries mirrors.                                        *)
RunMethod(m, move) ==
  /\ phase = "method"
  /\ MovePossible(cache, move)
  /\ cache' = Moved([cache EXCEPT !.modules = m], move)
  /\ cacheEvents' = Append(cacheEvents, Len(cacheEvents) + 1)
  /\ \/ EvmCallFails
     \/ /\ phase' = "journal"
        /\ call' = [call EXCEPT !.entries = move]
        /\ UNCHANGED <<validRevisions, revertTo>>
  /\ UNCHANGED <<ctx, writeCache, ctxEvents, objects, journals, nextRevisionID,
                 txState, calls, todo>>

(* AddJournalEntries without the balance changes. *)
AddNoBalanceChangeEntry ==
  /\ phase = "journal"
  /\ call.entries # << >>
  /\ call' = [call EXCEPT !.entries = Tail(@)]
  /\ UNCHANGED <<stores, objects, journals, revisions, txState, calls,
                 phase, todo, revertTo>>

(* AddJournalEntries: first the balance changes ... *)
AddBalanceChangeEntry ==
  /\ phase = "journal"
  /\ call.entries # << >>
  /\ LET m == Head(call.entries)
     IN  IF m.op = "Sub" THEN JournaledSub(m.addr, To18Decimals(m.units))
                         ELSE JournaledAdd(m.addr, To18Decimals(m.units))
  /\ call' = [call EXCEPT !.entries = Tail(@)]
  /\ UNCHANGED <<stores, dirtyStorage, dirtyCode, revisions, txState, calls,
                 phase, todo, revertTo>>

(* ... then the call itself.  The counter is a uint8 and is never undone.  *)
AddPrecompileFn ==
  /\ phase = "journal"
  /\ call.entries = << >>
  /\ SetObject(Precompile, getOrNewStateObject(Precompile),
               precompileCallChange(call.snapshot, call.events))
  /\ calls' = (calls + 1) % 256
  /\ IF calls' > MaxPrecompileCalls
     THEN EvmCallFails
     ELSE phase' = "running" /\ call' = NoCall /\ UNCHANGED <<validRevisions, revertTo>>
  /\ UNCHANGED <<stores, dirtyStorage, dirtyCode, nextRevisionID, txState, todo>>

-----------------------------------------------------------------------------
(* Commit: what the precompiles left in the cache, then the dirty objects. *)
Commit ==
  LET base == IF writeCache.kind = "nil" THEN ctx ELSE cache
  IN  /\ Running
      /\ ctx' = commitWithCtx(base)
      /\ ctxEvents' = CASE writeCache.kind = "nil" -> << >>
                         [] writeCache.kind = "live" -> cacheEvents
                         [] writeCache.kind = "snapshot" -> writeCache.events
      /\ phase' = IF Refused(base) = {} THEN "committed" ELSE "commitFailed"
      /\ UNCHANGED <<cache, cacheEvents, writeCache, objects, journals, revisions,
                     txState, calls, todo, revertTo, call>>

(* The StateDB is discarded once it is committed. *)
Discarded == phase \in {"committed", "commitFailed"} /\ UNCHANGED vars

Next ==
  \/ \E a \in Touched :
       \/ \E amount \in Amounts : AddBalance(a, amount) \/ SubBalance(a, amount)
       \/ \E n \in 0..MaxNonce : SetNonce(a, n)
       \/ \E code \in Codes \cup {EmptyCode} : SetCode(a, code)
       \/ \E k \in Keys, v \in Values : SetState(a, k, v)
       \/ Suicide(a)
       \/ CreateAccount(a)
       \/ CreateContract(a)
  \/ \E a \in Accessed : \/ AddAddressToAccessList(a)
                         \/ \E k \in Keys : AddSlotToAccessList(a, k)
  \/ \E gas \in 1..MaxRefund : AddRefund(gas) \/ SubRefund(gas)
  \/ \E data \in LogData : AddLog(data)
  \/ PrepareAccessList \/ Prepared
  \/ Snapshot
  \/ \E revid \in 0..MaxRevisions : RevertToSnapshot(revid)
  \/ UndoEntry \/ Reverted
  \/ RunSetup
  \/ \E m \in ModuleStates, move \in Moves : RunMethod(m, move)
  \/ AddBalanceChangeEntry \/ AddPrecompileFn
  \/ Commit
  \/ Discarded

Spec == Init /\ [][Next]_vars

=============================================================================
