--------------------------- MODULE IndexerService ---------------------------
(***************************************************************************)
(* The index of Ethereum transactions: EVMIndexerService of a running node *)
(* and the command index-eth-tx of a stopped one, over one database.       *)
(*                                                                         *)
(* IndexBlock writes a block's entries in one batch, and nothing for a     *)
(* block without Ethereum transactions; db is the set of blocks with       *)
(* entries.  Module EthTx is about what the entries are.  The node stops   *)
(* or is killed between any two steps.                                     *)
(***************************************************************************)
EXTENDS Integers

CONSTANTS MaxHeight,       \* bound: blocks of the chain
          MaxStops,        \* bound: stops of the node or of the command
          DbErrors         \* whether IndexBlock may return an error

ASSUME IndexerAssumption == MaxHeight \in Nat \ {0} /\ MaxStops \in Nat /\ DbErrors \in BOOLEAN

NoBlock == -1

VARIABLES height,       \* of the block store
          ethBlocks,    \* the blocks with Ethereum transactions to index
          db,
          pc,           \* of OnStart, or of the command
          latestBlock,  \* OnStart's latestBlock, set by the goroutine of headers
          lastBlock,    \* OnStart's lastBlock
          i,            \* the block the service or the command is at
          signal,       \* how many values newBlockSignal holds
          seen,         \* the last header that was delivered
          stops

vars == <<height, ethBlocks, db, pc, latestBlock, lastBlock, i, signal, seen, stops>>

Off == {"off"}
Commands == {"backward", "forward"}
Following == {"last", "check", "wait", "fetch", "index"}

Init ==
  /\ height = 1
  /\ ethBlocks \in SUBSET {1}
  /\ db = {}
  /\ pc = "off"
  /\ latestBlock = 0 /\ lastBlock = 0 /\ i = 0
  /\ signal = 0
  /\ seen = 0
  /\ stops = 0

\* LastIndexedBlock and FirstIndexedBlock, read from the ends of the key range.
IsLastIndexed(b) == \/ db = {} /\ b = NoBlock
                    \/ b \in db /\ \A h \in db : h <= b
IsFirstIndexed(b) == \/ db = {} /\ b = NoBlock
                     \/ b \in db /\ \A h \in db : b <= h

\* IndexBlock when it succeeds.
IndexBlock(h) == db' = db \cup ({h} \cap ethBlocks)

-----------------------------------------------------------------------------
(* The node: consensus adds blocks, and OnStart follows. *)

ProduceBlock ==
  /\ pc \notin Off \cup Commands
  /\ height < MaxHeight
  /\ height' = height + 1
  /\ \E new \in SUBSET {height + 1} : ethBlocks' = ethBlocks \cup new
  /\ UNCHANGED <<db, pc, latestBlock, lastBlock, i, signal, seen, stops>>

\* OnStart: client.Status.
Status ==
  /\ pc = "off"
  /\ pc' = "subscribe"
  /\ latestBlock' = height
  /\ signal' = 0
  /\ UNCHANGED <<height, ethBlocks, db, lastBlock, i, seen, stops>>

\* client.Subscribe; headers of later blocks are delivered from here on.
SubscribeHeaders ==
  /\ pc = "subscribe"
  /\ pc' = "last"
  /\ seen' = height
  /\ UNCHANGED <<height, ethBlocks, db, latestBlock, lastBlock, i, signal, stops>>

\* The goroutine that receives headers.
NewHeader ==
  /\ pc \in Following
  /\ seen < height
  /\ seen' = seen + 1
  /\ IF seen + 1 > latestBlock
     THEN latestBlock' = seen + 1 /\ signal' = 1
     ELSE UNCHANGED <<latestBlock, signal>>
  /\ UNCHANGED <<height, ethBlocks, db, pc, lastBlock, i, stops>>

ResumeAtLatest ==
  /\ pc = "last"
  /\ lastBlock' = latestBlock
  /\ pc' = "check"
  /\ UNCHANGED <<height, ethBlocks, db, latestBlock, i, signal, seen, stops>>

\* An empty database starts at the latest block known by now.
LastIndexedBlock ==
  /\ pc = "last"
  /\ \E b \in db \cup {NoBlock} :
       IsLastIndexed(b) /\ lastBlock' = IF b = NoBlock THEN latestBlock ELSE b
  /\ pc' = "check"
  /\ UNCHANGED <<height, ethBlocks, db, latestBlock, i, signal, seen, stops>>

CheckTooLate ==
  /\ pc = "check"
  /\ IF latestBlock <= lastBlock + 1
     THEN pc' = "wait" /\ UNCHANGED i
     ELSE pc' = "fetch" /\ i' = lastBlock + 1
  /\ UNCHANGED <<height, ethBlocks, db, latestBlock, lastBlock, signal, seen, stops>>

CheckLatest ==
  /\ pc = "check"
  /\ IF latestBlock <= lastBlock
     THEN pc' = "wait" /\ UNCHANGED i
     ELSE pc' = "fetch" /\ i' = lastBlock + 1
  /\ UNCHANGED <<height, ethBlocks, db, latestBlock, lastBlock, signal, seen, stops>>

\* The signal arrives, or NewBlockWaitTimeout passes.
Wait ==
  /\ pc = "wait"
  /\ pc' = "check"
  /\ signal' = 0
  /\ UNCHANGED <<height, ethBlocks, db, latestBlock, lastBlock, i, seen, stops>>

\* The head of the inner loop, client.Block and client.BlockResults.
FetchBlock ==
  /\ pc = "fetch"
  /\ pc' = IF i <= latestBlock THEN "index" ELSE "check"
  /\ UNCHANGED <<height, ethBlocks, db, latestBlock, lastBlock, i, signal, seen, stops>>

FetchFails ==
  /\ pc = "fetch"
  /\ i <= latestBlock
  /\ pc' = "check"
  /\ UNCHANGED <<height, ethBlocks, db, latestBlock, lastBlock, i, signal, seen, stops>>

\* lastBlock moves on whether or not IndexBlock succeeds.
IndexNext ==
  /\ pc = "index"
  /\ \/ IndexBlock(i)
     \/ DbErrors /\ UNCHANGED db
  /\ lastBlock' = i
  /\ i' = i + 1
  /\ pc' = "fetch"
  /\ UNCHANGED <<height, ethBlocks, latestBlock, signal, seen, stops>>

OnStart ==
  \/ Status \/ SubscribeHeaders \/ LastIndexedBlock
  \/ CheckLatest \/ Wait \/ FetchBlock \/ FetchFails \/ IndexNext

-----------------------------------------------------------------------------
(* index-eth-tx, and the end of a process. *)

StartBackward ==
  /\ pc = "off"
  /\ pc' = "backward"
  /\ \E b \in db \cup {NoBlock} :
       IsFirstIndexed(b) /\ i' = (IF b = NoBlock THEN height ELSE b) - 1
  /\ UNCHANGED <<height, ethBlocks, db, latestBlock, lastBlock, signal, seen, stops>>

StartForwardAtLatest ==
  /\ pc = "off"
  /\ pc' = "forward"
  /\ i' = height
  /\ UNCHANGED <<height, ethBlocks, db, latestBlock, lastBlock, signal, seen, stops>>

StartForward ==
  /\ pc = "off"
  /\ pc' = "forward"
  /\ \E b \in db \cup {NoBlock} :
       IsLastIndexed(b) /\ i' = (IF b = NoBlock THEN 0 ELSE b) + 1
  /\ UNCHANGED <<height, ethBlocks, db, latestBlock, lastBlock, signal, seen, stops>>

BackwardStep ==
  /\ pc = "backward" /\ i > 0
  /\ IndexBlock(i)
  /\ i' = i - 1
  /\ UNCHANGED <<height, ethBlocks, pc, latestBlock, lastBlock, signal, seen, stops>>

ForwardStep ==
  /\ pc = "forward" /\ i <= height
  /\ IndexBlock(i)
  /\ i' = i + 1
  /\ UNCHANGED <<height, ethBlocks, pc, latestBlock, lastBlock, signal, seen, stops>>

CommandEnds ==
  /\ \/ pc = "backward" /\ i <= 0
     \/ pc = "forward" /\ i > height
  /\ pc' = "off"
  /\ UNCHANGED <<height, ethBlocks, db, latestBlock, lastBlock, i, signal, seen, stops>>

\* The node stops, or the command ends early, killed or by an error.
Stop ==
  /\ pc # "off"
  /\ stops < MaxStops
  /\ stops' = stops + 1
  /\ pc' = "off"
  /\ UNCHANGED <<height, ethBlocks, db, latestBlock, lastBlock, i, signal, seen>>

Command == BackwardStep \/ ForwardStep \/ CommandEnds

Next ==
  \/ ProduceBlock \/ NewHeader \/ OnStart
  \/ StartBackward \/ StartForward \/ Command \/ Stop

Spec == Init /\ [][Next]_vars

\* The goroutines run, an operator starts the node again, and a block that
\* can be fetched is fetched some time.
FairSpec ==
  /\ Spec
  /\ WF_vars(NewHeader)
  /\ WF_vars(SubscribeHeaders \/ LastIndexedBlock \/ CheckLatest \/ Wait \/ IndexNext)
  /\ SF_vars(FetchBlock)
  /\ SF_vars(Status)
  /\ WF_vars(Command)

-----------------------------------------------------------------------------
TypeOK ==
  /\ height \in 1 .. MaxHeight
  /\ ethBlocks \subseteq 1 .. height
  /\ db \subseteq ethBlocks
  /\ pc \in Off \cup Commands \cup {"subscribe"} \cup Following
  /\ latestBlock \in 0 .. height /\ lastBlock \in 0 .. height
  /\ i \in 0 .. height + 1
  /\ signal \in 0 .. 1
  /\ seen \in 0 .. height
  /\ stops \in 0 .. MaxStops

\* The blocks with entries have no gap: what index-eth-tx says it keeps up
\* by its two directions, and the service by starting after the last one.
NoGaps == \A a, b \in db : \A h \in ethBlocks : a <= h /\ h <= b => h \in db

\* A backward run that comes to its end leaves no block unindexed below the
\* last indexed one, whatever stopped and started before.
BackwardCompletes ==
  [][pc = "backward" /\ CommandEnds =>
       \A b \in db : \A h \in ethBlocks : h <= b => h \in db]_vars

\* A block after an indexed one, of which the service has heard, is indexed in
\* the end, through errors of the RPC client, lost wake-ups and restarts.
EventuallyIndexed ==
  \A h \in 1 .. MaxHeight :
    (h \in ethBlocks /\ h <= latestBlock /\ \E b \in db : b <= h) ~> (h \in db)
=============================================================================
