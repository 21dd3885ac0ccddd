------------------------------ MODULE Headers ------------------------------
(***************************************************************************)
(* The header collector of an indexer on a chain with forks: it keeps rows *)
(* of the blocks that are not confirmed yet, with their confirmations, in  *)
(* the table in which the main loop saves the confirmed ones.              *)
(*                                                                         *)
(* How the main loop comes to save a block is in Indexer; here it saves the *)
(* next one as soon as it is confirmed.                                    *)
(***************************************************************************)
EXTENDS Integers, FiniteSets

CONSTANTS
  Parent,         \* external: the blocks there can be, each with the one before
  Number,         \* external: their numbers
  Root,           \* the parent of the lowest block
  Confirmations,  \* numberOfConfirmations
  MaxCrashes,     \* bound on crashes
  Null,           \* NULL in the table
  Undefined       \* a field of an entity that is not set

Blocks == DOMAIN Parent

\* The blocks are above their parents, up to the root.
ASSUME HeadersAssumption ==
  /\ Parent \in [Blocks -> Blocks \cup {Root}] /\ Number \in [Blocks -> Nat]
  /\ \A b \in Blocks : Parent[b] # Root => Number[Parent[b]] < Number[b]
  /\ {Root, Null, Undefined} \cap Blocks = {} /\ {Null, Undefined} \cap Nat = {}
  /\ Null # Undefined

VARIABLES
  mined,      \* external: the blocks the node has
  head,       \* external: the last block of the main branch
  rows,       \* the block table: hash to [prev, confs, confirmed]
  dbN,        \* N in the database
  N,          \* the collector's N
  collector,  \* where runBlockHeaderCollectingTips is
  cached,     \* blockHeaderHash
  listed,     \* the list that saveHeadersOnNewTips works on, or has worked on
  tips,       \* the blocks of the list that are still to be looked at
  active,     \* those of the list that are on the main branch
  manager,    \* blockHashToEntity of the UnconfirmedBlockManager
  changed,    \* its changed blocks
  crashes

nodeVars == <<mined, head>>
tableVars == <<rows, dbN>>
collectorVars == <<cached, collector, listed, tips, active, manager, changed>>
headersVars == <<nodeVars, tableVars, N, collectorVars, crashes>>

Before[b \in Blocks \cup {Root}] ==
  IF b = Root THEN {} ELSE {b} \cup Before[Parent[b]]

Descendants(b) == {d \in mined : b \in Before[d]} \ {b}

HeadersInit ==
  /\ \E b \in Blocks : Parent[b] = Root /\ head = b /\ mined = {b}
  /\ rows = <<>> /\ dbN = 0 /\ N = 0
  /\ cached = {} /\ collector = "idle" /\ listed = {} /\ tips = {} /\ active = {}
  /\ manager = <<>> /\ changed = {}
  /\ crashes = 0

-----------------------------------------------------------------------------
(* The node and the main loop.                                               *)

\* The main branch is the longest one; the deepest fork is not confirmed.
NodeMines ==
  \E b \in Blocks \ mined :
    /\ Parent[b] \in mined
    /\ dbN > 0 => \E c \in Before[b] : Number[c] = dbN /\ c \in DOMAIN rows /\ c \in Before[head]
    /\ mined' = mined \cup {b}
    /\ head' = IF Number[b] > Number[head] THEN b ELSE head
    /\ UNCHANGED <<tableVars, N, collectorVars, crashes>>

Updated(row, entity) ==
  [c \in DOMAIN row |-> IF entity[c] = Undefined THEN row[c] ELSE entity[c]]

Inserted == [prev |-> Null, confs |-> Null, confirmed |-> Null]

\* save of the entities of a set of blocks: a field that is not set leaves the
\* column as it is, one that was loaded as null writes it.
SavedRows(blocks, entity) ==
  [b \in DOMAIN rows \cup blocks |->
     IF b \in blocks
     THEN Updated(IF b \in DOMAIN rows THEN rows[b] ELSE Inserted, entity[b])
     ELSE rows[b]]

\* The transaction of blockSave commits.
BlockSave ==
  \E b \in Before[head] :
    /\ Number[b] = dbN + 1 /\ N = dbN
    /\ Number[b] <= Number[head] - Confirmations
    /\ rows' = SavedRows({b}, [c \in {b} |-> [prev |-> Parent[b], confs |-> Undefined,
                                              confirmed |-> TRUE]])
    /\ dbN' = dbN + 1
    /\ UNCHANGED <<nodeVars, N, collectorVars, crashes>>

\* N is set when the call of the transaction returns.
UpdateN ==
  /\ N # dbN
  /\ N' = dbN
  /\ UNCHANGED <<nodeVars, tableVars, collectorVars, crashes>>

\* The bottom block has changed: onUpdateBottomBlockNumber.
ClearOlderBlocksInCache ==
  \E bottom \in 1..dbN :
    /\ \E b \in cached : Number[b] < bottom
    /\ cached' = {b \in cached : Number[b] >= bottom}
    /\ UNCHANGED <<nodeVars, tableVars, N, collector, listed, tips, active, manager, changed,
                   crashes>>

-----------------------------------------------------------------------------
(* The collector.                                                            *)

\* getTopLiteBlocks has returned the last blocks of all branches, and
\* saveHeadersOnNewTips starts to load the rows above N.
ListTips ==
  /\ collector = "idle"
  /\ listed' = {b \in mined : Number[b] > Number[head] - Confirmations}
  /\ tips' = listed'
  /\ active' = listed' \cap Before[head]
  /\ collector' = "loading"
  /\ UNCHANGED <<nodeVars, tableVars, N, cached, manager, changed, crashes>>

\* The query of UnconfirmedBlockManager.initialize is answered.
LoadRows ==
  /\ collector = "loading"
  /\ manager' = [b \in {c \in DOMAIN rows : Number[c] > N} |-> rows[b]]
  /\ changed' = {}
  /\ collector' = "walking"
  /\ UNCHANGED <<nodeVars, tableVars, N, cached, listed, tips, active, crashes>>

\* Mutation of IsBlockCached: cached by its number.
IsNumberCached(b) == Number[b] \in {Number[c] : c \in cached}

IsBlockCached(b) == b \in cached

\* The known blocks below one with the previous block prev.
Above[prev \in Blocks \cup {Root, Null, Undefined}] ==
  IF prev \notin DOMAIN manager THEN {} ELSE {prev} \cup Above[manager[prev].prev]

\* Mutation of HasEntity: it is added and counted again.
NeverHasEntity(b) == FALSE

HasEntity(b) == b \in DOMAIN manager

\* addNewBlock: the block has one confirmation, those below get one more.
AddNewBlock(b, prev) ==
  IF HasEntity(b) THEN UNCHANGED <<manager, changed>>
  ELSE LET above == Above[prev]
       IN  /\ manager' = [c \in DOMAIN manager \cup {b} |->
                            IF c = b THEN [prev |-> prev, confs |-> 1, confirmed |-> Undefined]
                            ELSE IF c \in above
                            THEN [manager[c] EXCEPT !.confs = IF @ = Null THEN 1 ELSE @ + 1]
                            ELSE manager[c]]
           /\ changed' = changed \cup {b} \cup above

\* One turn of the loop of saveHeadersOnNewTips, for any order of the list. The
\* node has only the headers of blocks that are on no main branch.
Walk(b) ==
  /\ collector = "walking" /\ b \in tips
  /\ tips' = tips \ {b}
  /\ IF Number[b] <= N \/ IsBlockCached(b)
     THEN UNCHANGED <<cached, manager, changed>>
     ELSE /\ cached' = cached \cup {b}
          /\ AddNewBlock(b, IF b \in active THEN Parent[b] ELSE Undefined)
  /\ UNCHANGED <<nodeVars, tableVars, N, collector, listed, active, crashes>>

\* The blocks up to N are left out, and the others are given to save.
StartSave ==
  /\ collector = "walking" /\ tips = {}
  /\ changed' = {b \in changed : Number[b] > N}
  /\ collector' = IF changed' = {} THEN "idle" ELSE "saving"
  /\ UNCHANGED <<nodeVars, tableVars, N, cached, listed, tips, active, manager, crashes>>

\* save compares the entities with the rows and writes what differs.
SaveRows ==
  /\ collector = "saving"
  /\ rows' = SavedRows(changed, manager)
  /\ collector' = "idle"
  /\ manager' = <<>> /\ changed' = {}
  /\ UNCHANGED <<nodeVars, dbN, N, cached, listed, tips, active, crashes>>

\* The process ends and starts again from the database.
Crash ==
  /\ crashes < MaxCrashes
  /\ crashes' = crashes + 1
  /\ N' = dbN
  /\ cached' = {} /\ collector' = "idle" /\ listed' = {} /\ tips' = {} /\ active' = {}
  /\ manager' = <<>> /\ changed' = {}
  /\ UNCHANGED <<nodeVars, tableVars>>

HeadersNext ==
  \/ NodeMines \/ BlockSave \/ UpdateN \/ ClearOlderBlocksInCache
  \/ ListTips \/ LoadRows \/ (\E b \in tips : Walk(b)) \/ StartSave \/ SaveRows
  \/ Crash

HeadersSpec == HeadersInit /\ [][HeadersNext]_headersVars

-----------------------------------------------------------------------------
\* However lists overlap, forks grow and the process starts again, no block
\* gets more confirmations than the node has blocks above it: every block counts
\* once (addNewBlock).
ConfirmationsBounded ==
  \A b \in DOMAIN rows :
    rows[b].confs # Null => rows[b].confs <= 1 + Cardinality(Descendants(b))

\* However the main loop goes on meanwhile, every block of a list, on whatever
\* branch, has its row when the list has been gone through, unless N has passed
\* it: the cache stands for rows that are there (saveHeadersOnNewTips).
ListedHaveRows ==
  collector = "idle" => \A b \in listed : b \in DOMAIN rows \/ Number[b] <= N

\* "the function is not subject to race conditions with processing of confirmed
\* blocks since only blockNumber, blockHash and timestamp are updated"
\* (headerCollector.ts): a confirmed block stays confirmed.
ConfirmedStays ==
  [][\A b \in DOMAIN rows : rows[b].confirmed = TRUE => rows'[b].confirmed = TRUE]_headersVars
=============================================================================
