---------------------------- MODULE IndexedQueries ----------------------------
(***************************************************************************)
(* Queries on the database of an indexer: IndexedQueryManager of the       *)
(* verifiers and IndexerEngineService of the verifier server.              *)
(*                                                                         *)
(* A database is a record: blocks is the block table, tables are the two   *)
(* transaction tables.  A query made of several statements is one operator *)
(* for each, as the indexer writes between them.                           *)
(***************************************************************************)
EXTENDS AttestationTypes, FiniteSets

CONSTANT None   \* null or undefined

\* Rows: blocks are [blockNumber, timestamp, confirmed], transactions are
\* [transactionId, blockNumber, timestamp, paymentReference, response].
Lowest(rows) == IF rows = {} THEN None
                ELSE CHOOSE b \in rows : \A c \in rows : b.blockNumber <= c.blockNumber
Highest(rows) == IF rows = {} THEN None
                 ELSE CHOOSE b \in rows : \A c \in rows : b.blockNumber >= c.blockNumber
Confirmed(db) == {b \in db.blocks : b.confirmed}

-----------------------------------------------------------------------------
(* IndexedQueryManager.                                                      *)

\* getLastConfirmedBlockNumber: N in the state table, 0 before the first save.
getLastConfirmedBlockNumber(db) ==
  IF Confirmed(db) = {} THEN 0 ELSE Highest(Confirmed(db)).blockNumber

\* queryBlock with confirmed = true; block 0 is taken for no number.
queryBlock(db, blockNumber) ==
  IF blockNumber = 0 THEN Throws
  ELSE Lowest({b \in Confirmed(db) : b.blockNumber = blockNumber})

\* The statement of queryTransactions for one table: a parameter that is
\* missing, 0 or empty is no condition.
TransactionsIn(db, table, params) ==
  {tx \in db.tables[table] :
    /\ params.startBlockNumber \in {None, 0} \/ tx.blockNumber >= params.startBlockNumber
    /\ params.endBlockNumber \in {None, 0} \/ tx.blockNumber <= params.endBlockNumber
    /\ params.paymentReference = None \/ tx.paymentReference = params.paymentReference
    /\ params.transactionId = None \/ tx.transactionId = params.transactionId}

\* getFirstConfirmedBlockAfterTime.
getFirstConfirmedBlockAfterTime(db, timestamp) ==
  Lowest({b \in Confirmed(db) : b.timestamp >= timestamp})

\* Mutation of getLastConfirmedBlockStrictlyBeforeTime: or equal.
LastConfirmedBlockBeforeTime(db, timestamp) ==
  Highest({b \in Confirmed(db) : b.timestamp <= timestamp})

getLastConfirmedBlockStrictlyBeforeTime(db, timestamp) ==
  Highest({b \in Confirmed(db) : b.timestamp < timestamp})

hasIndexerConfirmedBlockStrictlyBeforeTime(db, timestamp) ==
  \E b \in Confirmed(db) : b.timestamp < timestamp

\* Mutation of getFirstConfirmedOverflowBlock: the time is enough.
FirstConfirmedAfterTime(db, timestamp, blockNumber) ==
  Lowest({b \in Confirmed(db) : b.timestamp > timestamp})

getFirstConfirmedOverflowBlock(db, timestamp, blockNumber) ==
  Lowest({b \in Confirmed(db) : b.timestamp > timestamp /\ b.blockNumber > blockNumber})

-----------------------------------------------------------------------------
(* IndexerEngineService: what the server answers about the database.         *)

\* getBlockRange: MIN and MAX of a table without rows are null, which Math.min
\* and Math.max take for 0.
getBlockRange(db) ==
  LET number(b) == IF b = None THEN 0 ELSE b.blockNumber
      least == {number(Lowest(db.tables[i])) : i \in 0..1}
      greatest == {number(Highest(db.tables[i])) : i \in 0..1}
  IN  [first |-> Min(least), last |-> Max(greatest)]

\* getTransaction.
getTransaction(db, txHash) ==
  LET rows == {tx \in db.tables[0] \cup db.tables[1] : tx.transactionId = txHash}
  IN  Lowest(rows)

\* confirmedBlockAt.
confirmedBlockAt(db, blockNumber) ==
  Lowest({b \in Confirmed(db) : b.blockNumber = blockNumber})

\* getBlockHeight: confirmed or not.
getBlockHeight(db) == IF db.blocks = {} THEN None ELSE Highest(db.blocks).blockNumber

\* getTransactionBlock.
getTransactionBlock(db, txHash) ==
  LET tx == getTransaction(db, txHash)
  IN  IF tx = None THEN None ELSE confirmedBlockAt(db, tx.blockNumber)

\* The order of rows: by block number, then by transaction id.
InOrder(a, b) == \/ a.blockNumber < b.blockNumber
                 \/ a.blockNumber = b.blockNumber /\ a.transactionId < b.transactionId

\* The rows of a table in a range, in order: the place of one is the number of
\* those before it.  (SortSeq says the same, but it has no definition in TLA+.)
Page(db, table, from, to) ==
  LET rows == {tx \in db.tables[table] : from <= tx.blockNumber /\ tx.blockNumber <= to}
      before(row) == Cardinality({tx \in rows : InOrder(tx, row)})
  IN  [i \in 1..Cardinality(rows) |-> CHOOSE row \in rows : before(row) = i - 1]

LimitOffset(rows, limit, offset) ==
  SubSeq(rows, offset + 1, IF offset + limit < Len(rows) THEN offset + limit ELSE Len(rows))

\* Mutation of getTransactionsWithinBlockRange: the tables are not put in order.
TransactionsInTableOrder(db, from, to, limit, offset) ==
  LET a == Page(db, 0, from, to)
      b == Page(db, 1, from, to)
  IN  IF offset < Len(a) THEN LimitOffset(a, limit, offset)
      ELSE LimitOffset(b, limit, offset - Len(a))

\* The tables in the order of their first blocks; the second is read when the
\* offset is beyond the first, so that no page goes over both.
getTransactionsWithinBlockRange(db, from, to, limit, offset) ==
  LET zero == Page(db, 0, from, to)
      one == Page(db, 1, from, to)
      swap == zero # <<>> /\ one # <<>> /\ Head(zero).blockNumber > Head(one).blockNumber
      a == IF swap THEN one ELSE zero
      b == IF swap THEN zero ELSE one
  IN  IF offset < Len(a) THEN LimitOffset(a, limit, offset)
      ELSE LimitOffset(b, limit, offset - Len(a))
=============================================================================
