---------------------------- MODULE IndexerProofs ----------------------------
(***************************************************************************)
(* The index keeps no gap for a chain of any height and any number of      *)
(* stops, as long as IndexBlock itself does not fail.                      *)
(***************************************************************************)
EXTENDS IndexerService, TLAPS

Running == {"check", "wait", "fetch", "index"}

\* The service has passed everything up to lastBlock; a command has indexed
\* from where it began to where it is, and the database ends there.
IndexInv ==
  /\ TypeOK
  /\ NoGaps
  /\ pc \in Running =>
       /\ \A b \in db : b <= lastBlock
       /\ \A b \in db : \A h \in ethBlocks : b <= h /\ h <= lastBlock => h \in db
  /\ pc \in {"fetch", "index"} => i = lastBlock + 1
  /\ pc = "index" => i <= latestBlock
  /\ pc = "backward" =>
       /\ \A b \in db : i < b
       /\ \A b \in db : \A h \in ethBlocks : i < h /\ h <= b => h \in db
  /\ pc = "forward" =>
       /\ \A b \in db : b < i
       /\ \A b \in db : \A h \in ethBlocks : b <= h /\ h < i => h \in db

\* The invariant holds at the start.
LEMMA IndexInit == Init => IndexInv
BY IndexerAssumption DEF Init, IndexInv, TypeOK, NoGaps, Running, Off, Commands, Following,
   IndexerAssumption

\* New blocks lie above all that was indexed.
LEMMA IndexProduce == IndexInv /\ ProduceBlock => IndexInv'
BY IndexerAssumption
   DEF IndexInv, TypeOK, NoGaps, Running, Off, Commands, Following, ProduceBlock,
       IndexerAssumption

\* The steps of the service that leave the database as it is.
LEMMA IndexFollow ==
  IndexInv /\ (NewHeader \/ Status \/ SubscribeHeaders \/ CheckLatest \/ Wait
               \/ FetchBlock \/ FetchFails \/ Stop) => IndexInv'
<1> SUFFICES ASSUME IndexInv,
                    NewHeader \/ Status \/ SubscribeHeaders \/ CheckLatest \/ Wait
                    \/ FetchBlock \/ FetchFails \/ Stop
             PROVE  IndexInv'
  OBVIOUS
<1> USE IndexerAssumption
    DEF IndexInv, TypeOK, NoGaps, Running, Off, Commands, Following, IndexerAssumption
<1>1. CASE NewHeader
  BY <1>1 DEF NewHeader
<1>2. CASE Status
  BY <1>2 DEF Status
<1>3. CASE SubscribeHeaders
  BY <1>3 DEF SubscribeHeaders
<1>4. CASE CheckLatest
  BY <1>4 DEF CheckLatest
<1>5. CASE Wait
  BY <1>5 DEF Wait
<1>6. CASE FetchBlock
  BY <1>6 DEF FetchBlock
<1>7. CASE FetchFails
  BY <1>7 DEF FetchFails
<1>8. CASE Stop
  BY <1>8 DEF Stop
<1> QED
  BY <1>1, <1>2, <1>3, <1>4, <1>5, <1>6, <1>7, <1>8

\* Reading the end of the database where a scan begins.
LEMMA IndexBegin ==
  IndexInv /\ (LastIndexedBlock \/ StartBackward \/ StartForward \/ CommandEnds)
  => IndexInv'
<1> SUFFICES ASSUME IndexInv,
                    LastIndexedBlock \/ StartBackward \/ StartForward \/ CommandEnds
             PROVE  IndexInv'
  OBVIOUS
<1> USE IndexerAssumption
    DEF IndexInv, TypeOK, NoGaps, Running, Off, Commands, Following, IndexerAssumption,
        IsLastIndexed, IsFirstIndexed, NoBlock
<1>1. CASE LastIndexedBlock
  BY <1>1 DEF LastIndexedBlock
<1>2. CASE StartBackward
  BY <1>2 DEF StartBackward
<1>3. CASE StartForward
  BY <1>3 DEF StartForward
<1>4. CASE CommandEnds
  BY <1>4 DEF CommandEnds
<1> QED
  BY <1>1, <1>2, <1>3, <1>4

\* Indexing the block next to those indexed leaves no gap.
LEMMA IndexStep ==
  ASSUME ~DbErrors
  PROVE  IndexInv /\ (IndexNext \/ BackwardStep \/ ForwardStep) => IndexInv'
<1> SUFFICES ASSUME IndexInv, IndexNext \/ BackwardStep \/ ForwardStep
             PROVE  IndexInv'
  OBVIOUS
<1> USE IndexerAssumption
    DEF IndexInv, TypeOK, NoGaps, Running, Off, Commands, Following, IndexerAssumption,
        IndexBlock
<1>1. CASE IndexNext
  <2>1. IndexBlock(i) /\ lastBlock' = i /\ i' = i + 1 /\ pc = "index" /\ pc' = "fetch"
    BY <1>1, Zenon DEF IndexNext
  <2>2. UNCHANGED <<height, ethBlocks, latestBlock, signal, seen, stops>>
    BY <1>1, Zenon DEF IndexNext
  <2> QED
    BY <2>1, <2>2
<1>2. CASE BackwardStep
  BY <1>2 DEF BackwardStep
<1>3. CASE ForwardStep
  BY <1>3 DEF ForwardStep
<1> QED
  BY <1>1, <1>2, <1>3

\* Every step keeps the invariant.
LEMMA IndexInductive == ASSUME ~DbErrors PROVE IndexInv /\ [Next]_vars => IndexInv'
<1> SUFFICES ASSUME IndexInv, [Next]_vars
             PROVE  IndexInv'
  OBVIOUS
<1>1. CASE UNCHANGED vars
  BY <1>1 DEF vars, IndexInv, TypeOK, NoGaps
<1>2. CASE Next
  BY <1>2, IndexProduce, IndexFollow, IndexBegin, IndexStep DEF Next, OnStart, Command
<1> QED
  BY <1>1, <1>2

\* Nothing that the service, a command, a stop or a restart does makes a gap
\* between indexed blocks, if no write to the index fails.
THEOREM IndexHasNoGaps == ASSUME ~DbErrors PROVE Spec => []NoGaps
<1>1. Init => IndexInv
  BY IndexInit
<1>2. IndexInv /\ [Next]_vars => IndexInv'
  BY IndexInductive
<1>3. IndexInv => NoGaps
  BY DEF IndexInv
<1> QED
  BY <1>1, <1>2, <1>3, PTL DEF Spec

\* When a backward run ends, everything below the last indexed block is in the
\* index.
THEOREM BackwardLeavesNothing == ASSUME ~DbErrors PROVE Spec => BackwardCompletes
<1>1. Init => IndexInv
  BY IndexInit
<1>2. IndexInv /\ [Next]_vars => IndexInv'
  BY IndexInductive
<1>3. IndexInv => (pc = "backward" /\ CommandEnds =>
                     \A b \in db : \A h \in ethBlocks : h <= b => h \in db)
  BY DEF IndexInv, TypeOK, CommandEnds
<1> QED
  BY <1>1, <1>2, <1>3, PTL DEF Spec, BackwardCompletes
=============================================================================
