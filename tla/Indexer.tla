------------------------------ MODULE Indexer ------------------------------
(***************************************************************************)
(* The indexer of one chain: it reads confirmed blocks ahead of time, saves *)
(* them one by one into two transaction tables that take turns, and starts *)
(* again from the database when it ends.                                   *)
(*                                                                         *)
(* Chains whose blocks need no validation (validateBlockBeforeProcess is   *)
(* false). The time of a block is its number, so the two limits of a table *)
(* are one.                                                                *)
(***************************************************************************)
EXTENDS Integers, Sequences, FiniteSets, FiniteSetsExt

CONSTANTS
  Confirmations,  \* numberOfConfirmations
  TableRange,     \* the larger of minimalStorageHistoryDays and ...Blocks
  ReadAhead,      \* syncReadAhead
  FirstHeight,    \* height of the chain in the beginning
  MaxHeight,      \* bound: height of the chain
  MaxForks,       \* bound: reorganisations
  MaxCrashes,     \* bound: crashes
  EmptyBlocks,    \* the numbers of the blocks without transactions
  None

ASSUMPTION IndexerAssumption ==
  /\ Confirmations \in Nat /\ TableRange \in Nat \ {0} /\ ReadAhead \in Nat
  /\ FirstHeight \in Nat /\ MaxHeight \in Nat /\ FirstHeight <= MaxHeight
  /\ EmptyBlocks \subseteq 1..MaxHeight /\ MaxForks \in Nat /\ MaxCrashes \in Nat

VARIABLES
  chain,       \* the version of the block at each height
  forks,       \* reorganisations so far
  pc,          \* where the main loop is
  syncing,     \* isSyncing
  N,           \* the last block saved
  T,           \* the height of the chain, as last read
  np1,         \* blockNp1hash: the block N + 1, as last read
  waitNp1,     \* trySaveNp1Block waits for a processor
  prepared,    \* preparedBlocks
  processors,  \* blockProcessors
  cleared,     \* processors that are destroyed but have not completed
  fetching,    \* blocks that are being read from the node
  saves,       \* the calls of blockSave that are going on
  index,       \* the table that is written to
  endBlock,    \* the block at which the tables take turns; 0 is undefined
  tables,      \* the transactions of which blocks are in the two tables
  dbN,         \* N in the database
  bottom,      \* Nbottom in the database; 0 is undefined
  crashes

chainVars == <<chain, forks>>
loopVars == <<pc, syncing, N, T, np1, waitNp1>>
workVars == <<prepared, processors, cleared, fetching>>
tableVars == <<saves, index, endBlock, tables, dbN, bottom>>
vars == <<chainVars, loopVars, workVars, tableVars, crashes>>

Blocks == [number : 1..MaxHeight, version : 0..MaxForks]
BlockAt(h) == [number |-> h, version |-> chain[h]]
States == {"active", "paused", "completed"}
Stages == {"write", "drop", "bottom", "end"}

Init ==
  /\ chain = [h \in 1..FirstHeight |-> 0]
  /\ forks = 0
  /\ pc = "sync" /\ syncing = TRUE
  /\ N = 0 /\ T = FirstHeight /\ np1 = None /\ waitNp1 = FALSE
  /\ prepared = {} /\ processors = {} /\ cleared = {} /\ fetching = {}
  /\ saves = {} /\ index = 0 /\ endBlock = 0
  /\ tables = [i \in 0..1 |-> {}] /\ dbN = 0 /\ bottom = 0
  /\ crashes = 0

-----------------------------------------------------------------------------
(* The chain.                                                                *)

Grow ==
  /\ Len(chain) < MaxHeight
  /\ chain' = Append(chain, forks)
  /\ UNCHANGED <<forks, loopVars, workVars, tableVars, crashes>>

\* Blocks that are not confirmed are replaced.
Reorganise ==
  /\ forks < MaxForks
  /\ \E h \in 1..Len(chain) :
       /\ h > Len(chain) - Confirmations
       /\ chain' = [i \in DOMAIN chain |-> IF i >= h THEN forks + 1 ELSE chain[i]]
  /\ forks' = forks + 1
  /\ UNCHANGED <<loopVars, workVars, tableVars, crashes>>

-----------------------------------------------------------------------------
(* Block processors.                                                         *)

\* Mutation of IsNp1: any block after the last one saved.
IsNp1ByNumber(block, hash) == block.number = N + 1

IsNp1(block, hash) == block.number = N + 1 /\ block = hash

\* The block after the next one is read as soon as the next one is prepared.
WithNp2(block, hash, rest) ==
  rest \cup (IF ~syncing /\ IsNp1(block, hash)
             THEN {[number |-> N + 2, sync |-> FALSE]} ELSE {})

\* pause() of all processors but those of the block, which are resumed.
Switched(block) ==
  {IF p.state = "completed" THEN p
   ELSE [p EXCEPT !.state = IF p.block = block THEN "active" ELSE "paused"]
     : p \in processors}

WithProcessor(block, others) ==
  IF \E p \in others : p.block = block THEN others
  ELSE others \cup {[block |-> block, state |-> "active"]}

\* process: the processor of the block is started or resumed, the others are
\* paused; if it has completed, blockAlreadyCompleted. hash is the next block
\* as last read, rest what is being read from the node.
Process(block, hash, rest) ==
  IF [block |-> block, state |-> "completed"] \in processors
  THEN /\ fetching' = WithNp2(block, hash, rest)
       /\ UNCHANGED processors
  ELSE /\ fetching' = rest
       /\ processors' = WithProcessor(block, Switched(block))

\* A block that was being read arrives; processSync while syncing.
FetchReturns(f) ==
  /\ f.number <= Len(chain)
  /\ IF f.sync
     THEN /\ processors' = WithProcessor(BlockAt(f.number), processors)
          /\ fetching' = fetching \ {f}
     ELSE Process(BlockAt(f.number), np1, fetching \ {f})
  /\ UNCHANGED <<chainVars, loopVars, prepared, cleared, tableVars, crashes>>

\* Mutation of BlockCompleted: the next block is saved at once.
BlockCompletedAtOnce(block) ==
  IF IsNp1(block, np1)
  THEN /\ saves' = saves \cup {[block |-> block, by |-> "processor",
                                table |-> index, stage |-> "write"]}
       /\ UNCHANGED <<prepared, fetching>>
  ELSE /\ prepared' = prepared \cup {block}
       /\ UNCHANGED <<saves, fetching>>

Saving(block, by) == [block |-> block, by |-> by, table |-> index, stage |-> "write"]

\* blockCompleted: saved if the main loop waits for it, else kept.
BlockCompleted(block) ==
  IF IsNp1(block, np1) /\ waitNp1
  THEN /\ saves' = saves \cup {Saving(block, "processor")}
       /\ UNCHANGED <<prepared, fetching>>
  ELSE /\ prepared' = prepared \cup {block}
       /\ fetching' = WithNp2(block, np1, fetching)
       /\ UNCHANGED saves

\* A processor has all transactions of its block; a paused one may still get
\* the answers to the calls it has made.
Complete(p) ==
  /\ p.state # "completed"
  /\ processors' = (processors \ {p}) \cup {[p EXCEPT !.state = "completed"]}
  /\ BlockCompleted(p.block)
  /\ UNCHANGED <<chainVars, loopVars, cleared, index, endBlock, tables, dbN, bottom, crashes>>

CompleteCleared(block) ==
  /\ cleared' = cleared \ {block}
  /\ BlockCompleted(block)
  /\ UNCHANGED <<chainVars, loopVars, processors, index, endBlock, tables, dbN, bottom, crashes>>

-----------------------------------------------------------------------------
(* Saving a block.                                                           *)

Stored == tables[0] \cup tables[1]
Numbers(blocks) == {b.number : b \in blocks}

OtherTable == 1 - index

\* The transaction of blockSave, and what follows up to the next wait: when the
\* limit is reached (Interlacing.update) the other table is dropped.
WriteBlock(s) ==
  LET n == s.block.number
      turn == endBlock # 0 /\ n >= endBlock
      gone == {p \in processors : p.block.number <= n}
  IN  /\ s \in saves /\ s.stage = "write"
      /\ tables' = [tables EXCEPT ![s.table] = @ \cup {s.block}]
      /\ dbN' = n /\ N' = n
      /\ bottom' = IF bottom = 0 THEN Min(Numbers(Stored \cup {s.block})) ELSE bottom
      /\ processors' = processors \ gone
      /\ cleared' = cleared \cup {p.block : p \in {g \in gone : g.state # "completed"}}
      /\ endBlock' = IF endBlock = 0 \/ turn THEN n + TableRange ELSE endBlock
      /\ index' = IF turn THEN OtherTable ELSE index
      /\ saves' = (saves \ {s}) \cup
           {[s EXCEPT !.stage = IF turn THEN "drop" ELSE "end"]}
      /\ UNCHANGED <<chainVars, pc, syncing, T, np1, waitNp1, prepared, fetching, crashes>>

DropTable(s) ==
  /\ s \in saves /\ s.stage = "drop"
  /\ tables' = [tables EXCEPT ![index] = {}]
  /\ saves' = (saves \ {s}) \cup {[s EXCEPT !.stage = "bottom"]}
  /\ UNCHANGED <<chainVars, loopVars, workVars, index, endBlock, dbN, bottom, crashes>>

Lowest(blocks) == IF blocks = {} THEN 0 ELSE Min(Numbers(blocks))

SaveBottomState(s) ==
  /\ s \in saves /\ s.stage = "bottom"
  /\ bottom' = Lowest(Stored)
  /\ saves' = (saves \ {s}) \cup {[s EXCEPT !.stage = "end"]}
  /\ UNCHANGED <<chainVars, loopVars, workVars, index, endBlock, tables, dbN, crashes>>

AfterSave == IF syncing THEN "sync" ELSE "refresh"

\* blockSave returns to trySaveNp1Block or to blockCompleted.
EndSave(s) ==
  /\ s \in saves /\ s.stage = "end"
  /\ saves' = saves \ {s}
  /\ IF s.by = "loop"
     THEN /\ prepared' = {b \in prepared : b.number # s.block.number}
          /\ pc' = AfterSave
          /\ UNCHANGED waitNp1
     ELSE /\ waitNp1' = FALSE
          /\ UNCHANGED <<prepared, pc>>
  /\ UNCHANGED <<chainVars, syncing, N, T, np1, processors, cleared, fetching,
                 index, endBlock, tables, dbN, bottom, crashes>>

-----------------------------------------------------------------------------
(* The main loop.                                                            *)

Confirmed(height) == N < height - Confirmations

\* One round of runSyncRaw: the next block and a few more are processed, until
\* all confirmed blocks are saved. T is read again now and then.
SyncRound ==
  /\ pc = "sync"
  /\ T' \in {T, Len(chain)}
  /\ IF Confirmed(T')
     THEN /\ processors' = WithProcessor(BlockAt(N + 1), processors)
          /\ fetching' = fetching \cup
               {[number |-> h, sync |-> TRUE] :
                  h \in {h \in N + 2..N + ReadAhead - 1 :
                           /\ h <= T' - Confirmations
                           /\ h \notin Numbers({p.block : p \in processors})}}
          /\ np1' = BlockAt(N + 1)
          /\ pc' = "save"
          /\ UNCHANGED syncing
     ELSE /\ syncing' = FALSE
          /\ pc' = "height"
          /\ UNCHANGED <<processors, fetching, np1>>
  /\ UNCHANGED <<chainVars, N, waitNp1, prepared, cleared, tableVars, crashes>>

\* trySaveNp1Block. If there is no such block it is called again while syncing.
TrySaveNp1Block ==
  /\ pc = "save"
  /\ IF np1 \in prepared
     THEN /\ saves' = saves \cup {Saving(np1, "loop")}
          /\ pc' = "saving"
          /\ UNCHANGED waitNp1
     ELSE IF \E p \in processors : p.block = np1
     THEN /\ waitNp1' = TRUE
          /\ pc' = "waiting"
          /\ UNCHANGED saves
     ELSE /\ ~syncing
          /\ pc' = "refresh"
          /\ UNCHANGED <<waitNp1, saves>>
  /\ UNCHANGED <<chainVars, syncing, N, T, np1, workVars, index, endBlock, tables,
                 dbN, bottom, crashes>>

Waited ==
  /\ pc = "waiting" /\ ~waitNp1
  /\ pc' = AfterSave
  /\ UNCHANGED <<chainVars, syncing, N, T, np1, waitNp1, workVars, tableVars, crashes>>

ReadHeight ==
  /\ pc = "height"
  /\ T' = Len(chain)
  /\ pc' = "block"
  /\ UNCHANGED <<chainVars, syncing, N, np1, waitNp1, workVars, tableVars, crashes>>

\* Block N + 1 is read, again and again until there is one. If it is not
\* confirmed it is processed when it is new.
ReadNp1 ==
  LET block == BlockAt(N + 1)
  IN  /\ pc = "block" /\ N + 1 <= Len(chain)
      /\ np1' = block
      /\ IF Confirmed(T)
         THEN pc' = "save" /\ UNCHANGED <<processors, fetching>>
         ELSE /\ pc' = "height"
              /\ IF np1 = block THEN UNCHANGED <<processors, fetching>>
                 ELSE Process(block, block, fetching)
      /\ UNCHANGED <<chainVars, syncing, N, T, waitNp1, prepared, cleared, tableVars, crashes>>

\* After trySaveNp1Block, whether it saved a block or not.
RefreshNp1 ==
  LET block == BlockAt(N + 1)
  IN  /\ pc = "refresh" /\ N + 1 <= Len(chain)
      /\ np1' = block
      /\ pc' = "height"
      /\ Process(block, block, fetching)
      /\ UNCHANGED <<chainVars, syncing, N, T, waitNp1, prepared, cleared, tableVars, crashes>>

-----------------------------------------------------------------------------
(* The end of the process, and its next start.                               *)

\* What is in memory is lost.
Exit ==
  /\ pc' = "down" /\ syncing' = TRUE
  /\ N' = 0 /\ T' = 0 /\ np1' = None /\ waitNp1' = FALSE
  /\ prepared' = {} /\ processors' = {} /\ cleared' = {} /\ fetching' = {}
  /\ saves' = {} /\ index' = 0 /\ endBlock' = 0
  /\ UNCHANGED <<chainVars, tables, dbN, bottom>>

Crash ==
  /\ pc # "down" /\ crashes < MaxCrashes
  /\ crashes' = crashes + 1
  /\ Exit

\* Mutation of TimesOut: a paused processor is waited for.
TimesOutCleared ==
  /\ cleared # {}
  /\ Exit
  /\ UNCHANGED crashes

\* initializeJobs of a processor that is paused or destroyed runs out of retries.
TimesOut ==
  /\ cleared # {} \/ \E p \in processors : p.state = "paused"
  /\ Exit
  /\ UNCHANGED crashes

\* The timestamp of the first row of a table; the row that stands for a block
\* without transactions has none.
FirstTime(table) ==
  LET n == Lowest(table) IN IF n \in EmptyBlocks THEN 0 ELSE n

\* Mutation of WriteTable: the table with the first block is written to.
WriteTableFirst ==
  IF tables[0] # {} /\ tables[1] # {}
  THEN IF FirstTime(tables[0]) < FirstTime(tables[1]) THEN 0 ELSE 1
  ELSE IF tables[1] # {} THEN 1 ELSE 0

\* Interlacing.initialize: the table with the last blocks is written to.
WriteTable ==
  IF tables[0] # {} /\ tables[1] # {}
  THEN IF FirstTime(tables[0]) < FirstTime(tables[1]) THEN 1 ELSE 0
  ELSE IF tables[1] # {} THEN 1 ELSE 0

\* runIndexer up to runSync.
Start ==
  /\ pc = "down"
  /\ pc' = "sync"
  /\ N' = dbN /\ T' = Len(chain)
  /\ bottom' = IF Stored = {} THEN bottom ELSE Lowest(Stored)
  /\ index' = WriteTable
  /\ endBlock' = IF Stored = {} THEN 0 ELSE Lowest(tables[WriteTable]) + TableRange
  /\ UNCHANGED <<chainVars, syncing, np1, waitNp1, workVars, saves, tables, dbN, crashes>>

-----------------------------------------------------------------------------
LoopStep ==
  \/ SyncRound \/ TrySaveNp1Block \/ Waited \/ ReadHeight \/ ReadNp1 \/ RefreshNp1

SaveStep(s) == WriteBlock(s) \/ DropTable(s) \/ SaveBottomState(s) \/ EndSave(s)

Next ==
  \/ Grow \/ Reorganise
  \/ LoopStep
  \/ \E s \in saves : SaveStep(s)
  \/ \E p \in processors : Complete(p)
  \/ \E b \in cleared : CompleteCleared(b)
  \/ \E f \in fetching : FetchReturns(f)
  \/ Crash \/ TimesOut \/ Start

Spec == Init /\ [][Next]_vars

\* What has been started goes on; a processor that is active completes, one that
\* is not completes or ends the process, which is started again.
Fairness ==
  /\ WF_vars(Grow) /\ WF_vars(LoopStep) /\ WF_vars(Start)
  /\ WF_vars(\E s \in saves : SaveStep(s))
  /\ \A b \in Blocks : WF_vars([block |-> b, state |-> "active"] \in processors
                               /\ Complete([block |-> b, state |-> "active"]))
  /\ \A n \in 1..MaxHeight : \A sync \in BOOLEAN :
       WF_vars([number |-> n, sync |-> sync] \in fetching
               /\ FetchReturns([number |-> n, sync |-> sync]))
  /\ WF_vars(TimesOut)

FairSpec == Spec /\ Fairness

-----------------------------------------------------------------------------
(* What the indexer promises.                                                *)

\* The types of the variables; blocks are saved one at a time.
TypeOK ==
  /\ chain \in Seq(0..MaxForks) /\ forks \in 0..MaxForks
  /\ pc \in {"sync", "height", "block", "save", "saving", "waiting", "refresh", "down"}
  /\ syncing \in BOOLEAN /\ waitNp1 \in BOOLEAN
  /\ N \in 0..MaxHeight /\ T \in 0..MaxHeight /\ np1 \in Blocks \cup {None}
  /\ prepared \subseteq Blocks /\ cleared \subseteq Blocks
  /\ processors \subseteq [block : Blocks, state : States]
  /\ fetching \subseteq [number : 1..MaxHeight + 1, sync : BOOLEAN]
  /\ saves \subseteq [block : Blocks, by : {"loop", "processor"}, table : 0..1, stage : Stages]
  /\ index \in 0..1 /\ endBlock \in 0..MaxHeight + TableRange
  /\ tables \in [0..1 -> SUBSET Blocks]
  /\ dbN \in 0..MaxHeight /\ bottom \in 0..MaxHeight /\ crashes \in 0..MaxCrashes

\* blockSave is never called while it runs.
OneSaveAtATime == Cardinality(saves) <= 1

\* A saved block is on the chain and stays there.
SavedIsFinal == \A b \in Stored : b.number <= Len(chain) /\ b = BlockAt(b.number)

\* checkDatabaseContinuous, whenever it runs, never resets the database, and
\* nothing is missing between the tables.
TablesContinuous ==
  /\ \A i \in 0..1 : Numbers(tables[i]) = {n \in 1..MaxHeight :
       \E a, b \in Numbers(tables[i]) : a <= n /\ n <= b}
  /\ Numbers(Stored) = {n \in 1..dbN : \E a \in Numbers(Stored) : a <= n}
  /\ Numbers(tables[0]) \cap Numbers(tables[1]) = {}

\* The blocks of a whole range are kept, once there are so many.
HistoryKept == dbN >= TableRange => \A n \in dbN - TableRange + 1..dbN : n \in Numbers(Stored)

\* The database never steps over a block, and never goes back.
NextBlockOnly == [][dbN' # dbN => dbN' = dbN + 1]_vars

Indexed == INSTANCE IndexedChain WITH saved <- Stored, last <- dbN, Versions <- 0..MaxForks

\* Whatever is read ahead, completes late or is lost in a crash, the two tables
\* and N in the database do what IndexedChain says: they get the confirmed
\* blocks one by one, and lose only blocks before the last TableRange ones.
ImplementsIndexedChain == Indexed!Spec

\* While no table is being dropped and the indexer runs, everything from the
\* bottom state to N is there.
BottomIsTrue ==
  (pc # "down" /\ \A s \in saves : s.stage # "bottom") => bottom = Lowest(Stored)

\* All blocks that are confirmed in the end are saved.
CatchesUp == <>[](dbN = MaxHeight - Confirmations)
=============================================================================
