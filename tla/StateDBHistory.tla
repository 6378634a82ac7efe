--------------------------- MODULE StateDBHistory ---------------------------
(***************************************************************************)
(* StateDB with a history of the states its journal has gone through, and  *)
(* the properties that are stated with it.                                 *)
(*                                                                         *)
(* hist[i] is what the StateDB (st) and the precompiles' cache (cache)     *)
(* were after the first i - 1 journal entries.  Cached effects of a        *)
(* precompile call belong to the entry of the call.  callFailed remembers  *)
(* that some call returned an error after it had started to use the cache. *)
(* message is the access list the transaction came with.                   *)
(***************************************************************************)
EXTENDS StateDB

VARIABLES hist, callFailed, message

hvars == <<vars, hist, callFailed, message>>

HInit ==
  /\ Init
  /\ hist = <<[st |-> StateOf, cache |-> cache]>>
  /\ callFailed = FALSE
  /\ message = todo

(* The history of a step that appended entries: a call is in effect from   *)
(* its precompileCall entry on.                                            *)
Extended ==
  LET before == hist[Len(hist)].cache
      after  == IF journal'[Len(journal')].type = "precompileCall" THEN cache' ELSE before
      now    == [st |-> StateOf', cache |-> after]
      middle == [st |-> Undo(journal'[Len(journal')], StateOf'), cache |-> before]
  IN  IF Len(journal') = Len(journal) + 1
      THEN Append(hist, now)
      ELSE Append(Append(hist, middle), now)

HNext ==
  /\ Next
  /\ hist' = CASE Len(journal') > Len(journal) -> Extended
               [] Len(journal') < Len(journal) -> SubSeq(hist, 1, Len(hist) - 1)
               [] OTHER -> hist
  /\ callFailed' = (callFailed \/ (phase' = "reverting" /\ (phase = "method" \/ cache' # cache)
                                   /\ phase # "reverting"))
  /\ UNCHANGED message

HSpec == HInit /\ [][HNext]_hvars

-----------------------------------------------------------------------------
Entry ==
       [type : {"createObject", "accessListAddAccount"}, addr : Addrs]
  \cup [type : {"resetObject"}, addr : Addrs, prev : Object,
        prevKeys : SUBSET Keys, prevDirtyCode : BOOLEAN]
  \cup [type : {"suicide"}, addr : Addrs, prev : BOOLEAN, prevbalance : Int]
  \cup [type : {"balance"}, addr : Addrs, prev : Int]
  \cup [type : {"nonce"}, addr : Addrs, prev : Nat]
  \cup [type : {"code"}, addr : Addrs, prev : Codes \cup {EmptyCode}]
  \cup [type : {"storage"}, addr : Addrs, key : Keys, prev : Values]
  \cup [type : {"refund"}, prev : Nat]
  \cup [type : {"addLog"}]
  \cup [type : {"accessListAddSlot"}, addr : Addrs, slot : Keys]
  \cup [type : {"precompileCall"}, multiStore : MultiStore, events : Seq(Nat)]

State == [obj : [Addrs -> Object \cup {Nil}], dirties : [Addrs -> Nat], refund : Nat,
          logs : Seq([data : LogData, index : Nat]), accessList : AL!accessList]

PrecompileCall ==
  [snapshot : MultiStore \cup {Nil}, events : Seq(Nat), entries : Moves]

Phases == {"prepare", "running", "method", "journal", "reverting", "committed",
           "commitFailed"}

(* Type invariant of the StateDB and of the precompile call it runs. *)
TypeOK ==
  /\ ctx \in MultiStore
  /\ cache \in MultiStore
  /\ StateOf \in State
  /\ dirtyStorage \in [Addrs -> SUBSET Keys]
  /\ dirtyCode \in [Addrs -> BOOLEAN]
  /\ journal \in Seq(Entry)
  /\ validRevisions \in Seq([id : Nat, journalIndex : Nat])
  /\ nextRevisionID \in Nat
  /\ calls \in 0..255
  /\ revertTo \in Nat
  /\ phase \in Phases
  /\ todo \in Seq([addr : Addrs, slot : Keys \cup {Nil}])
  /\ call \in PrecompileCall
  /\ cacheEvents \in Seq(Nat)

-----------------------------------------------------------------------------
SoundList(al) ==
  /\ \A a \in Addrs : al.addresses[a] \in {AL!Absent, AL!NoSlots} \cup (1..Len(al.slots))
  /\ \A a, b \in Addrs : a # b /\ al.addresses[a] > 0 => al.addresses[a] # al.addresses[b]
  /\ \A i \in 1..Len(al.slots) : al.slots[i] # {}

(* The access list's indices are sound whatever is undone: every index is  *)
(* in range, no two addresses share one and no slot set is empty, so that  *)
(* DeleteSlot's cut never takes another address's slots.                   *)
AccessListSound == SoundList(accessList)

Backed(s) == \A a \in Addrs : s.dirties[a] > 0 => s.obj[a] # Nil

(* The state is well typed and every dirty address has its object, so that *)
(* commitWithCtx, which takes the addresses from the journal and the       *)
(* objects from stateObjects, never finds a nil object.                    *)
DirtyObjectsExist == TypeOK /\ Backed(StateOf)

(* Undoing the journal entry by entry goes back through exactly the states *)
(* the StateDB had: objects, dirty counters, refund, logs and access list. *)
UndoIsExact ==
  /\ Len(hist) = Len(journal) + 1
  /\ hist[Len(hist)].st = StateOf
  /\ \A i \in 1..Len(journal) : Undo(journal[i], hist[i + 1].st) = hist[i].st

(* The states RevertToSnapshot can come back to, and the present one. *)
Stable == {hist[validRevisions[i].journalIndex + 1] : i \in DOMAIN validRevisions}
          \cup (IF phase = "reverting" THEN {hist[revertTo + 1]} ELSE {hist[Len(hist)]})

(* sortedDirties misses no change: an account that is not dirty is the     *)
(* account the store holds, also in every state a revert can come back to, *)
(* so commitWithCtx loses no write; and a slot of an object that is not in *)
(* dirtyStorage is as in the store, so commit may skip it.                 *)
NoLostWrites ==
  phase \notin {"committed", "commitFailed"} =>
    /\ \A s \in Stable : \A a \in Addrs :
         s.st.dirties[a] = 0 => s.st.obj[a] = loadObject(a)
    /\ \A a \in Addrs : obj[a] # Nil =>
         \A k \in Keys \ dirtyStorage[a] : obj[a].state[k] = ctx.acct[a].storage[k]

(* The cache is what the calls in effect left there: reverting past a call *)
(* takes its effects, and the flush that preceded it, out of the cache.    *)
CacheIsExact ==
  ~callFailed /\ phase \in {"running", "prepare"} => cache = hist[Len(hist)].cache

(* What the store holds of account a is what the EVM saw of it last, and   *)
(* the code store has its code.                                            *)
Persisted(a) ==
  LET acct == ctx.acct[a]
      o    == obj[a]
  IN  IF o = Nil THEN ~acct.exists
      ELSE IF o.suicided THEN acct = NoAccount
      ELSE /\ acct.exists
           /\ acct.nonce = o.nonce
           /\ acct.codeHash = o.code
           /\ IsContract(acct) => acct.codeHash \in ctx.code
           /\ GetBalance(acct) = o.balance
           /\ acct.storage = o.state

(* The call journaled with n earlier events emitted event n + 1. *)
EventsEmitted ==
  \A i \in DOMAIN journal : journal[i].type = "precompileCall" =>
    \E j \in DOMAIN ctxEvents : ctxEvents[j] = Len(journal[i].events) + 1

(* Commit writes what the EVM saw last, account by account, whatever was   *)
(* flushed to the cache and reverted in between, and the module state of   *)
(* the precompile calls in effect, unless a call failed.  It emits the     *)
(* events of the calls in effect, unless one was undone: writeCache then   *)
(* emits only what that call had found, and later calls' events are lost.  *)
CommitIsExact ==
  phase = "committed" /\ ~callFailed =>
    /\ \A a \in Addrs : Persisted(a)
    /\ ctx.modules = hist[Len(hist)].cache.modules
    /\ writeCache.kind # "snapshot" => EventsEmitted

(* What PrepareAccessList made warm stays warm: no revert, whatever the    *)
(* frames added and removed, takes an address or slot of the message's     *)
(* list away.                                                              *)
PreparedStaysWarm ==
  phase # "prepare" =>
    \A i \in DOMAIN message :
      /\ AL!ContainsAddress(accessList, message[i].addr)
      /\ message[i].slot # Nil => AL!Contains(accessList, message[i].addr, message[i].slot)

(* A call that returned an error has no effect on what is committed:       *)
(* "This allows to revert the call changes within an evm tx".              *)
FailedCallsLeaveNothing ==
  phase = "committed" =>
    /\ \A a \in Addrs : Persisted(a)
    /\ ctx.modules = hist[Len(hist)].cache.modules

-----------------------------------------------------------------------------
(* What makes the properties inductive. *)

HistoryOK ==
  /\ hist \in Seq([st : State, cache : MultiStore])
  /\ \A i \in 1..Len(hist) : SoundList(hist[i].st.accessList) /\ Backed(hist[i].st)

RevisionsOK ==
  /\ \A i \in 1..Len(validRevisions) :
       /\ validRevisions[i].id < nextRevisionID
       /\ validRevisions[i].journalIndex <= Len(journal)
       /\ phase = "reverting" => validRevisions[i].journalIndex <= revertTo
  /\ \A i, j \in 1..Len(validRevisions) :
       i < j => /\ validRevisions[i].id < validRevisions[j].id
                /\ validRevisions[i].journalIndex <= validRevisions[j].journalIndex
  /\ phase = "reverting" => revertTo <= Len(journal)

CallOK ==
  phase \in {"method", "journal"} =>
    /\ call.snapshot \in MultiStore
    /\ Precompile # Nil
    /\ validRevisions # << >>

IInv == TypeOK /\ HistoryOK /\ UndoIsExact /\ RevisionsOK /\ CallOK

(* StateDB implements the stack of copies: while RevertToSnapshot runs,    *)
(* the state is the one it is on its way to.                               *)
Copies == [i \in DOMAIN validRevisions |->
             [id    |-> validRevisions[i].id,
              state |-> hist[validRevisions[i].journalIndex + 1].st]]

Stack == INSTANCE SnapshotStack
           WITH Ids       <- 0..MaxRevisions,
                state     <- IF phase = "reverting" THEN hist[revertTo + 1].st ELSE StateOf,
                copies    <- Copies,
                restoring <- phase = "reverting"

ImplementsStack == Stack!Spec

=============================================================================
