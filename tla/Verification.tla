----------------------------- MODULE Verification -----------------------------
(***************************************************************************)
(* The verification of one request by two verifiers: the first prepares    *)
(* it (the verifier server's prepareAttestation, or the generator of       *)
(* random requests), the second answers an attestation client.  Each reads *)
(* the database of its own indexer, statement by statement, while that     *)
(* indexer saves blocks and drops old transactions.                        *)
(***************************************************************************)
EXTENDS IndexedQueries

CONSTANTS
  Chains,         \* sequences of blocks [timestamp, transactions]
  Orphans,        \* blocks of forks: rows that are never confirmed
  Sources,        \* the sources the verifiers may be for
  Requests,       \* for a source, the requests given in JSON
  SupportedTypes, \* config.attestationTypes of both verifiers
  FirstSaved,     \* per verifier, the block its indexer starts with
  FirstN,         \* per verifier, the last block saved in the beginning
  FirstTable,     \* per verifier, the table it is in
  KeepBlocks,     \* blocks a table holds before the tables take turns
  Confirmations,  \* numberOfConfirmations
  OverflowOffset, \* OVERFLOW_BLOCK_OFFSET of random requests
  QueryWindow,    \* queryWindow of random requests
  Text            \* a value in JSON that is no number

Server == INSTANCE VerifierServerTypes

Verifiers == {1, 2}

\* The numbers of a request: a byte string of 32 bytes stands for one of them, too.
Numbers == {n \in Nat : n <= 2147483647}

\* Transactions as the library reads them: of outputs, the address is a hash.
Transactions ==
  [id : Numbers, paymentReference : Numbers, isNativePayment : BOOLEAN, inputs : Nat,
   outputs : Seq([address : Nat, amount : Nat]), source : Nat, status : 0..2]

\* Times do not decrease, as those of chains with outputs are medians, and no
\* other transaction has the same hash.
IsChainOfBlocks(c) ==
  /\ c \in Seq([timestamp : Numbers, transactions : SUBSET Transactions]) /\ Len(c) \in Numbers
  /\ \A m \in DOMAIN c : \A n \in m..Len(c) : c[m].timestamp <= c[n].timestamp
  /\ \A m, n \in DOMAIN c : \A tx \in c[m].transactions, other \in c[n].transactions :
       tx.id = other.id => m = n /\ tx = other

\* A payment on a chain of accounts has one address that receives.
PaysOneAddress(tx) == \A o, p \in DOMAIN tx.outputs : tx.outputs[o].address = tx.outputs[p].address

ASSUME VerificationAssumption ==
  /\ Sources \subseteq DOMAIN SourceIds
  /\ \A c \in Chains : IsChainOfBlocks(c)
  /\ Sources \cap {"XRP", "ALGO"} # {} =>
       \A c \in Chains : \A n \in DOMAIN c : \A tx \in c[n].transactions : PaysOneAddress(tx)
  /\ Orphans \subseteq [blockNumber : Numbers, timestamp : Nat, confirmed : {FALSE}]
  /\ DOMAIN Requests = Sources
  /\ \A s \in Sources : \A r \in Requests[s] : \A key \in DOMAIN r : r[key] \in Numbers \/ r[key] = Text
  /\ SupportedTypes \subseteq DOMAIN AttestationType
  /\ FirstSaved \in [Verifiers -> Nat \ {0}]
  /\ FirstN \in [Verifiers -> Nat]
  /\ \A v \in Verifiers : FirstSaved[v] <= FirstN[v] + 1 /\ \A c \in Chains : FirstN[v] <= Len(c)
  /\ FirstTable \in [Verifiers -> 0..1]
  /\ KeepBlocks \in Nat \ {0}
  /\ {Confirmations, OverflowOffset} \subseteq Nat /\ QueryWindow \in Numbers
  /\ Text \notin Nat /\ None \notin Nat /\ Throws \notin Seq(Nat)
  /\ None \notin [blockNumber : Nat, timestamp : Nat, confirmed : BOOLEAN]
  /\ None \notin [transactionId : Nat, blockNumber : Nat, timestamp : Nat,
                  paymentReference : Nat, response : Transactions]

VARIABLES
  chain,     \* the chain
  source,    \* its source
  state,     \* of each indexer: N, first, tables (blocks saved in them), active
  origin,    \* who prepares the request: "server" or "random"
  request,   \* the request in JSON
  bytes,     \* the request in bytes
  parsed,    \* the request as the verifier parsed it
  who,       \* the verifier at work
  pc,        \* where it is
  todo,      \* the statements it has yet to execute
  got,       \* what it has read
  answer,    \* the answer of each verifier
  verdict    \* the attestation client's on the second

work == <<origin, request, bytes, parsed, who, pc, todo, got, answer, verdict>>
vars == <<chain, source, state, work>>

Unread == [s \in {"block", "lower", "overflow", "table0", "table1", "start", "end"} |-> None]
NoMic == 0

-----------------------------------------------------------------------------
(* The databases.                                                            *)

Row(n, confirmed) ==
  [blockNumber |-> n, timestamp |-> chain[n].timestamp, confirmed |-> confirmed]

\* augmentTransactionBase.
TxRow(n, tx) ==
  [transactionId |-> tx.id, blockNumber |-> n, timestamp |-> chain[n].timestamp,
   paymentReference |-> tx.paymentReference, response |-> tx]

\* Headers are in the block table before their block is confirmed, and for good.
Database(v) ==
  [blocks |-> {Row(n, n <= state[v].N) : n \in state[v].first..Len(chain)} \cup Orphans,
   tables |-> [i \in 0..1 |-> UNION {{TxRow(n, tx) : tx \in chain[n].transactions}
                                     : n \in state[v].tables[i]}]]

\* blockSave, as far as the database shows it.
SaveBlock(v) ==
  /\ state[v].N < Len(chain)
  /\ state' = [state EXCEPT ![v].N = @ + 1,
                            ![v].tables[state[v].active] = @ \cup {state[v].N + 1}]
  /\ UNCHANGED <<chain, source, work>>

\* Interlacing.update: the tables take turns.
DropTable(v) ==
  /\ Cardinality(state[v].tables[state[v].active]) >= KeepBlocks
  /\ state' = [state EXCEPT ![v].active = 1 - @,
                            ![v].tables[1 - state[v].active] = {}]
  /\ UNCHANGED <<chain, source, work>>

-----------------------------------------------------------------------------
(* The library the transactions are read with (flare-mcc).                   *)

Utxo == {"BtcTransaction", "LtcTransaction", "DogeTransaction"}

\* The amounts of some outputs.
Amount(tx, outputs) ==
  LET sum[i \in 0..Len(tx.outputs)] ==
        IF i = 0 THEN 0 ELSE sum[i - 1] + IF i \in outputs THEN tx.outputs[i].amount ELSE 0
  IN  sum[Len(tx.outputs)]

\* What goes to an address in all outputs.
AmountTo(tx, address) == Amount(tx, {i \in DOMAIN tx.outputs : tx.outputs[i].address = address})

\* paymentSummary: on UTXO chains the input and the output must exist.
PaymentSummary(class, tx, inUtxo, utxo) ==
  LET out == IF class \in Utxo THEN utxo + 1 ELSE 1
  IN  IF ~tx.isNativePayment \/ out > Len(tx.outputs) \/ (class \in Utxo /\ inUtxo >= tx.inputs)
      THEN [status |-> "Failure"]
      ELSE [status |-> "Success",
            receivingAddressHash |-> tx.outputs[out].address,
            receivedAmount |-> AmountTo(tx, tx.outputs[out].address),
            sourceAddressHash |-> tx.source]

\* balanceDecreasingSummary: an input on UTXO chains, the source address on the
\* others; 0 is taken for either.
BalanceDecreasingSummary(class, tx, indicator) ==
  IF (class \in Utxo /\ indicator >= tx.inputs) \/ (class \notin Utxo /\ indicator \notin {0, tx.source})
  THEN [status |-> "Failure"]
  ELSE [status |-> "Success", sourceAddressHash |-> tx.source,
        spentAmount |-> Amount(tx, DOMAIN tx.outputs)]

-----------------------------------------------------------------------------
(* Responses: generic-chain-verifications.ts.                                *)

Status(status) == [status |-> status]
Response(response) == [status |-> "OK", response |-> response]

responsePayment(class, req, row) ==
  LET s == PaymentSummary(class, row.response, req.inUtxo, req.utxo)
  IN  IF s.status # "Success" THEN Status("NOT_CONFIRMED")
      ELSE Response(
        [stateConnectorRound |-> 0, blockNumber |-> row.blockNumber,
         blockTimestamp |-> row.timestamp, transactionHash |-> row.transactionId,
         inUtxo |-> req.inUtxo, utxo |-> req.utxo,
         sourceAddressHash |-> s.sourceAddressHash,
         intendedSourceAddressHash |-> s.sourceAddressHash,
         receivingAddressHash |-> s.receivingAddressHash,
         intendedReceivingAddressHash |-> s.receivingAddressHash,
         paymentReference |-> row.paymentReference, spentAmount |-> s.receivedAmount,
         intendedSpentAmount |-> s.receivedAmount, receivedAmount |-> s.receivedAmount,
         intendedReceivedAmount |-> s.receivedAmount, oneToOne |-> 1,
         status |-> row.response.status])

responseBalanceDecreasingTransaction(class, req, row) ==
  LET s == BalanceDecreasingSummary(class, row.response, req.sourceAddressIndicator)
  IN  IF s.status # "Success" THEN Status("NOT_CONFIRMED")
      ELSE Response(
        [stateConnectorRound |-> 0, blockNumber |-> row.blockNumber,
         blockTimestamp |-> row.timestamp, transactionHash |-> row.transactionId,
         sourceAddressIndicator |-> req.sourceAddressIndicator,
         sourceAddressHash |-> s.sourceAddressHash, spentAmount |-> s.spentAmount,
         paymentReference |-> row.paymentReference])

responseConfirmedBlockHeightExists(block, lower) ==
  Response([stateConnectorRound |-> 0, blockNumber |-> block.blockNumber,
            blockTimestamp |-> block.timestamp, numberOfConfirmations |-> Confirmations,
            lowestQueryWindowBlockNumber |-> lower.blockNumber,
            lowestQueryWindowBlockTimestamp |-> lower.timestamp])

SENDER_FAILURE == 1   \* TransactionSuccessStatus: 0 success, 2 receiver failure

\* The first output to the address decides.
PaysAsAsked(class, tx, req) ==
  \E o \in DOMAIN tx.outputs :
    LET s == PaymentSummary(class, tx, 0, o - 1)
    IN  /\ tx.outputs[o].address = req.destinationAddressHash
        /\ \A p \in 1..(o - 1) : tx.outputs[p].address # req.destinationAddressHash
        /\ s.status = "Success"
        /\ s.receivedAmount >= req.amount
        /\ tx.status # SENDER_FAILURE

responseReferencedPaymentNonExistence(class, req, rows, overflow, lower) ==
  IF \E row \in rows : PaysAsAsked(class, row.response, req)
  THEN Status("REFERENCED_TRANSACTION_EXISTS")
  ELSE Response(
    [stateConnectorRound |-> 0, deadlineBlockNumber |-> req.deadlineBlockNumber,
     deadlineTimestamp |-> req.deadlineTimestamp,
     destinationAddressHash |-> req.destinationAddressHash,
     paymentReference |-> req.paymentReference, amount |-> req.amount,
     lowerBoundaryBlockNumber |-> lower.blockNumber,
     lowerBoundaryBlockTimestamp |-> lower.timestamp,
     firstOverflowBlockNumber |-> overflow.blockNumber,
     firstOverflowBlockTimestamp |-> overflow.timestamp])

-----------------------------------------------------------------------------
(* What has been read decides: verification-utils.ts and the verify          *)
(* functions of generic-chain-verifications.ts.                              *)

verifyWorkflowForTransaction(rows) ==
  IF rows # {} THEN "NEEDS_MORE_CHECKS" ELSE "NON_EXISTENT_TRANSACTION"
verifyWorkflowForBlockAvailability(block) ==
  IF block # None THEN "NEEDS_MORE_CHECKS" ELSE "DATA_AVAILABILITY_ISSUE"
verifyWorkflowForBlock(block) ==
  IF block # None THEN "NEEDS_MORE_CHECKS" ELSE "NON_EXISTENT_BLOCK"
verifyWorkflowForReferencedTransactions(overflow, start) ==
  IF overflow # None /\ start # None THEN "NEEDS_MORE_CHECKS" ELSE "DATA_AVAILABILITY_ISSUE"

Row1(g) == CHOOSE row \in g.table0 \cup g.table1 : TRUE

\* The response, when the block and in it the transaction were found.
InBlock(g, response) ==
  LET block == verifyWorkflowForBlockAvailability(g.block)
      transaction == verifyWorkflowForTransaction(g.table0 \cup g.table1)
  IN  IF block # "NEEDS_MORE_CHECKS" THEN Status(block)
      ELSE IF transaction # "NEEDS_MORE_CHECKS" THEN Status(transaction)
      ELSE IF Row1(g).blockNumber # g.block.blockNumber THEN Status("NON_EXISTENT_TRANSACTION")
      ELSE response

verifyPayment(class, req, g) == InBlock(g, responsePayment(class, req, Row1(g)))

verifyBalanceDecreasingTransaction(class, req, g) ==
  InBlock(g, responseBalanceDecreasingTransaction(class, req, Row1(g)))

verifyConfirmedBlockHeightExists(g) ==
  LET block == verifyWorkflowForBlock(g.block)
  IN  IF block # "NEEDS_MORE_CHECKS" THEN Status(block)
      ELSE IF g.lower = None THEN Status("DATA_AVAILABILITY_ISSUE")
      ELSE responseConfirmedBlockHeightExists(g.block, g.lower)

\* Bytes are always a standard reference.
verifyReferencedPaymentNonExistence(class, req, g) ==
  LET blocks == verifyWorkflowForReferencedTransactions(g.overflow, g.start)
  IN  IF req.paymentReference = 0 THEN Status("ZERO_PAYMENT_REFERENCE_UNSUPPORTED")
      ELSE IF blocks # "NEEDS_MORE_CHECKS" THEN Status(blocks)
      ELSE IF req.minimalBlockNumber >= g.overflow.blockNumber THEN Status("NOT_CONFIRMED")
      ELSE responseReferencedPaymentNonExistence(class, req, g.table0 \cup g.table1,
                                                 g.overflow, g.start)

-----------------------------------------------------------------------------
(* The verifiers of each source and type, and the routing to them.           *)

\* A verification: what the verifier adds to the response.
Verification(req, result) ==
  IF result.status # "OK" THEN result
  ELSE LET hash == dataHash(req, result.response, NoSalt)
       IN  IF hash = Throws THEN Throws
           ELSE [status |-> "OK", request |-> req, response |-> result.response, hash |-> hash]

verifyPaymentBTC(req, g) == Verification(req, verifyPayment("BtcTransaction", req, g))
verifyBalanceDecreasingTransactionBTC(req, g) ==
  Verification(req, verifyBalanceDecreasingTransaction("BtcTransaction", req, g))
verifyConfirmedBlockHeightExistsBTC(req, g) ==
  Verification(req, verifyConfirmedBlockHeightExists(g))
verifyReferencedPaymentNonexistenceBTC(req, g) ==
  Verification(req, verifyReferencedPaymentNonExistence("BtcTransaction", req, g))

verifyPaymentLTC(req, g) == Verification(req, verifyPayment("LtcTransaction", req, g))
verifyBalanceDecreasingTransactionLTC(req, g) ==
  Verification(req, verifyBalanceDecreasingTransaction("LtcTransaction", req, g))
verifyConfirmedBlockHeightExistsLTC(req, g) ==
  Verification(req, verifyConfirmedBlockHeightExists(g))
verifyReferencedPaymentNonexistenceLTC(req, g) ==
  Verification(req, verifyReferencedPaymentNonExistence("LtcTransaction", req, g))

verifyPaymentDOGE(req, g) == Verification(req, verifyPayment("DogeTransaction", req, g))
verifyBalanceDecreasingTransactionDOGE(req, g) ==
  Verification(req, verifyBalanceDecreasingTransaction("DogeTransaction", req, g))
verifyConfirmedBlockHeightExistsDOGE(req, g) ==
  Verification(req, verifyConfirmedBlockHeightExists(g))
verifyReferencedPaymentNonexistenceDOGE(req, g) ==
  Verification(req, verifyReferencedPaymentNonExistence("DogeTransaction", req, g))

verifyPaymentXRP(req, g) == Verification(req, verifyPayment("XrpTransaction", req, g))
verifyBalanceDecreasingTransactionXRP(req, g) ==
  Verification(req, verifyBalanceDecreasingTransaction("XrpTransaction", req, g))
verifyConfirmedBlockHeightExistsXRP(req, g) ==
  Verification(req, verifyConfirmedBlockHeightExists(g))
verifyReferencedPaymentNonexistenceXRP(req, g) ==
  Verification(req, verifyReferencedPaymentNonExistence("XrpTransaction", req, g))

verifyPaymentALGO(req, g) == Verification(req, verifyPayment("AlgoTransaction", req, g))
verifyBalanceDecreasingTransactionALGO(req, g) ==
  Verification(req, verifyBalanceDecreasingTransaction("AlgoTransaction", req, g))
verifyConfirmedBlockHeightExistsALGO(req, g) ==
  Verification(req, verifyConfirmedBlockHeightExists(g))
verifyReferencedPaymentNonexistenceALGO(req, g) ==
  Verification(req, verifyReferencedPaymentNonExistence("AlgoTransaction", req, g))

verifyBTC(req, g) ==
  IF req.sourceId # SourceIds.BTC THEN Throws
  ELSE CASE req.attestationType = AttestationType.Payment -> verifyPaymentBTC(req, g)
         [] req.attestationType = AttestationType.BalanceDecreasingTransaction ->
              verifyBalanceDecreasingTransactionBTC(req, g)
         [] req.attestationType = AttestationType.ConfirmedBlockHeightExists ->
              verifyConfirmedBlockHeightExistsBTC(req, g)
         [] req.attestationType = AttestationType.ReferencedPaymentNonexistence ->
              verifyReferencedPaymentNonexistenceBTC(req, g)

verifyLTC(req, g) ==
  IF req.sourceId # SourceIds.LTC THEN Throws
  ELSE CASE req.attestationType = AttestationType.Payment -> verifyPaymentLTC(req, g)
         [] req.attestationType = AttestationType.BalanceDecreasingTransaction ->
              verifyBalanceDecreasingTransactionLTC(req, g)
         [] req.attestationType = AttestationType.ConfirmedBlockHeightExists ->
              verifyConfirmedBlockHeightExistsLTC(req, g)
         [] req.attestationType = AttestationType.ReferencedPaymentNonexistence ->
              verifyReferencedPaymentNonexistenceLTC(req, g)

verifyDOGE(req, g) ==
  IF req.sourceId # SourceIds.DOGE THEN Throws
  ELSE CASE req.attestationType = AttestationType.Payment -> verifyPaymentDOGE(req, g)
         [] req.attestationType = AttestationType.BalanceDecreasingTransaction ->
              verifyBalanceDecreasingTransactionDOGE(req, g)
         [] req.attestationType = AttestationType.ConfirmedBlockHeightExists ->
              verifyConfirmedBlockHeightExistsDOGE(req, g)
         [] req.attestationType = AttestationType.ReferencedPaymentNonexistence ->
              verifyReferencedPaymentNonexistenceDOGE(req, g)

verifyXRP(req, g) ==
  IF req.sourceId # SourceIds.XRP THEN Throws
  ELSE CASE req.attestationType = AttestationType.Payment -> verifyPaymentXRP(req, g)
         [] req.attestationType = AttestationType.BalanceDecreasingTransaction ->
              verifyBalanceDecreasingTransactionXRP(req, g)
         [] req.attestationType = AttestationType.ConfirmedBlockHeightExists ->
              verifyConfirmedBlockHeightExistsXRP(req, g)
         [] req.attestationType = AttestationType.ReferencedPaymentNonexistence ->
              verifyReferencedPaymentNonexistenceXRP(req, g)

verifyALGO(req, g) ==
  IF req.sourceId # SourceIds.ALGO THEN Throws
  ELSE CASE req.attestationType = AttestationType.Payment -> verifyPaymentALGO(req, g)
         [] req.attestationType = AttestationType.BalanceDecreasingTransaction ->
              verifyBalanceDecreasingTransactionALGO(req, g)
         [] req.attestationType = AttestationType.ConfirmedBlockHeightExists ->
              verifyConfirmedBlockHeightExistsALGO(req, g)
         [] req.attestationType = AttestationType.ReferencedPaymentNonexistence ->
              verifyReferencedPaymentNonexistenceALGO(req, g)

\* _verifyAttestation: parseRequest has refused every other type.
verifyAttestation(req, g) ==
  CASE SourceName(req.sourceId) = "BTC" -> verifyBTC(req, g)
    [] SourceName(req.sourceId) = "LTC" -> verifyLTC(req, g)
    [] SourceName(req.sourceId) = "DOGE" -> verifyDOGE(req, g)
    [] SourceName(req.sourceId) = "XRP" -> verifyXRP(req, g)
    [] SourceName(req.sourceId) = "ALGO" -> verifyALGO(req, g)
    [] SourceName(req.sourceId) = "null" -> Throws

-----------------------------------------------------------------------------
(* The verifier server.                                                      *)

assertIsSupported(b) ==
  LET head == getAttestationTypeAndSource(b)
  IN  /\ head # Throws
      /\ source = SourceName(head.sourceId)
      /\ getAttestationTypeName(head.attestationType) \in SupportedTypes

\* AttestationRequestValidationPipe: the class for the type, and its validators.
\* Keys it does not have are let through.
Validated(req) ==
  /\ DOMAIN req # {} /\ "attestationType" \in DOMAIN req
  /\ req.attestationType \in DOMAIN Server!ARTypeArray
  /\ LET class == Server!ARTypeArray[req.attestationType]
     IN  \A key \in DOMAIN class :
           key \in DOMAIN req /\ Server!Accepts(class[key], key, req[key])

\* verify of the processor for the source, once everything has been read.
BTCProcessorService(req, g) == verifyBTC(req, g)
LTCProcessorService(req, g) == verifyLTC(req, g)
DOGEProcessorService(req, g) == verifyDOGE(req, g)
XRPProcessorService(req, g) == verifyXRP(req, g)
ALGOProcessorService(req, g) == verifyALGO(req, g)

Processed(req, g) ==
  CASE source = "BTC" -> BTCProcessorService(req, g)
    [] source = "LTC" -> LTCProcessorService(req, g)
    [] source = "DOGE" -> DOGEProcessorService(req, g)
    [] source = "XRP" -> XRPProcessorService(req, g)
    [] source = "ALGO" -> ALGOProcessorService(req, g)

-----------------------------------------------------------------------------
(* The statements of a verification, in their order.                         *)

Statements(req) ==
  CASE req.attestationType \in {AttestationType.Payment,
                                AttestationType.BalanceDecreasingTransaction} ->
         <<"block", "table0", "table1">>
    [] req.attestationType = AttestationType.ConfirmedBlockHeightExists -> <<"block", "lower">>
    [] req.attestationType = AttestationType.ReferencedPaymentNonexistence ->
         IF req.paymentReference = 0 THEN <<>>
         ELSE <<"overflow", "table0", "table1", "start", "end">>

\* What queryTransactions asks for.
TransactionQueryParams(req, g) ==
  IF req.attestationType = AttestationType.ReferencedPaymentNonexistence
  THEN [startBlockNumber |-> req.minimalBlockNumber,
        endBlockNumber |-> g.overflow.blockNumber - 1,
        paymentReference |-> req.paymentReference, transactionId |-> None]
  ELSE [startBlockNumber |-> None, endBlockNumber |-> None,
        paymentReference |-> None, transactionId |-> req.id]

Query(statement, req, g, db) ==
  CASE statement = "block" -> queryBlock(db, req.blockNumber)
    [] statement = "lower" ->
         getLastConfirmedBlockStrictlyBeforeTime(db, g.block.timestamp - req.queryWindow)
    [] statement = "overflow" ->
         getFirstConfirmedOverflowBlock(db, req.deadlineTimestamp, req.deadlineBlockNumber)
    [] statement = "table0" -> TransactionsIn(db, 0, TransactionQueryParams(req, g))
    [] statement = "table1" -> TransactionsIn(db, 1, TransactionQueryParams(req, g))
    [] statement = "start" -> queryBlock(db, req.minimalBlockNumber)
    [] statement = "end" -> queryBlock(db, g.overflow.blockNumber - 1)

\* The verification starts: supported says what is asserted before it is parsed.
Verify(b, supported) ==
  \E req \in {parseRequest(b)} :
    /\ got' = [Unread EXCEPT !.table0 = {}, !.table1 = {}]
    /\ parsed' = req
    /\ IF ~supported \/ req = Throws
       THEN answer' = [answer EXCEPT ![who] = Throws] /\ pc' = "answered" /\ todo' = <<>>
       ELSE todo' = Statements(req) /\ pc' = "read" /\ UNCHANGED answer

\* One statement; without the first block there is no other.
Read ==
  /\ pc = "read" /\ todo # <<>>
  /\ LET value == Query(Head(todo), parsed, got, Database(who))
     IN  /\ got' = [got EXCEPT ![Head(todo)] = value]
         /\ todo' = IF value = Throws \/ (value = None /\ Head(todo) \in {"block", "overflow"})
                    THEN <<>> ELSE Tail(todo)
  /\ UNCHANGED <<chain, source, state, origin, request, bytes, parsed, who, pc, answer, verdict>>

Answer ==
  /\ pc = "read" /\ todo = <<>>
  /\ pc' = "answered"
  /\ answer' = [answer EXCEPT ![who] =
       IF \E s \in DOMAIN got : got[s] = Throws THEN Throws
       ELSE IF who = 1 /\ origin = "random" THEN verifyAttestation(parsed, got)
       ELSE Processed(parsed, got)]
  /\ got' = Unread
  /\ UNCHANGED <<chain, source, state, origin, request, bytes, parsed, who, todo, verdict>>

-----------------------------------------------------------------------------
(* The request is prepared.                                                  *)

\* prepareAttestation: getAttestationData, up to the verification.  A request
\* that is refused ends here.
PrepareAttestation ==
  /\ pc = "prepare" /\ origin = "server"
  /\ Validated(request)
  /\ \E b \in {encodeRequest(request)} :
       b # Throws /\ bytes' = b /\ Verify(b, assertIsSupported(b))
  /\ UNCHANGED <<chain, source, state, origin, request, who, verdict>>

RandomBase(type) ==
  [attestationType |-> type, sourceId |-> SourceIds[source], messageIntegrityCode |-> NoMic]

RandomRequest(type, values) ==
  LET base == RandomBase(type)
  IN  [key \in DOMAIN base \cup DOMAIN values |->
         IF key \in DOMAIN base THEN base[key] ELSE values[key]]

NewValue == 99   \* randomHex: a value that is nowhere on the chain
RandomIds(row) == {row.transactionId, NewValue}

prepareRandomizedRequestPayment(row) ==
  {RandomRequest(AttestationType.Payment,
     [id |-> id, blockNumber |-> row.blockNumber, inUtxo |-> 0, utxo |-> 0]) : id \in RandomIds(row)}

prepareRandomizedRequestBalanceDecreasingTransaction(row) ==
  {RandomRequest(AttestationType.BalanceDecreasingTransaction,
     [id |-> id, blockNumber |-> row.blockNumber, sourceAddressIndicator |-> 0])
   : id \in RandomIds(row)}

prepareRandomizedRequestConfirmedBlockHeightExists(block) ==
  {RandomRequest(AttestationType.ConfirmedBlockHeightExists,
     [blockNumber |-> block.blockNumber, queryWindow |-> QueryWindow])}

\* The deadline is the last block with a time before that of the overflow block;
\* the search throws where there is no confirmed block.
prepareRandomizedRequestReferencedPaymentNonexistence(row, db) ==
  LET overflow == queryBlock(db, row.blockNumber + OverflowOffset)
      before == {n \in 1..(overflow.blockNumber - 1) :
                   chain[n].timestamp # overflow.timestamp}
      deadline == queryBlock(db, Max(before))
  IN  IF overflow = None \/ before = {} \/ deadline = None THEN {}
      ELSE {RandomRequest(AttestationType.ReferencedPaymentNonexistence,
              [minimalBlockNumber |-> deadline.blockNumber - QueryWindow,
               deadlineBlockNumber |-> deadline.blockNumber,
               deadlineTimestamp |-> deadline.timestamp,
               destinationAddressHash |-> NewValue, amount |-> NewValue,
               paymentReference |-> reference]) : reference \in {NewValue, row.paymentReference}}

\* fetchRandomTransactions for the generators of a type.  The rows are kept in
\* the generator, where they may outlive their table.
fetchRandomTransactions(type) ==
  LET rows == UNION {{TxRow(n, tx) : tx \in chain[n].transactions} : n \in state[1].first..state[1].N}
  IN  CASE type = AttestationType.Payment -> {row \in rows : row.response.isNativePayment}
        [] type = AttestationType.BalanceDecreasingTransaction -> rows
        [] type = AttestationType.ReferencedPaymentNonexistence ->
             {row \in rows : row.response.isNativePayment /\ row.paymentReference # 0}

fetchRandomConfirmedBlocks == Confirmed(Database(1))

RandomRequests ==
  LET rows(type) == fetchRandomTransactions(type)
  IN  UNION ({prepareRandomizedRequestPayment(row) : row \in rows(1)}
       \cup {prepareRandomizedRequestBalanceDecreasingTransaction(row) : row \in rows(2)}
       \cup {prepareRandomizedRequestConfirmedBlockHeightExists(b) : b \in fetchRandomConfirmedBlocks}
       \cup {prepareRandomizedRequestReferencedPaymentNonexistence(row, Database(1)) : row \in rows(4)})

\* getRandomAttestationRequest; with the choice WRONG_MIC nothing is verified.
getRandomAttestationRequest ==
  /\ pc = "prepare" /\ origin = "random"
  /\ \E r \in RandomRequests, wrong \in BOOLEAN : \E b \in {encodeRequest(r)} :
       /\ b # Throws
       /\ request' = r /\ bytes' = b
       /\ IF wrong THEN pc' = "answered" /\ UNCHANGED <<parsed, todo, got, answer>>
          ELSE Verify(b, TRUE)
  /\ UNCHANGED <<chain, source, state, origin, who, verdict>>

\* The request with its code: getAttestationData, after the verification.
WithCode(req, verification) ==
  [req EXCEPT !.messageIntegrityCode = dataHash(req, verification.response, MIC_SALT)]

\* The random request gets its code, and for XRP then the address of the sender.
RandomWithCode(req, verification) ==
  LET coded == WithCode(req, verification)
  IN  IF source = "XRP" /\ req.attestationType = AttestationType.BalanceDecreasingTransaction
      THEN [coded EXCEPT !.sourceAddressIndicator = verification.response.sourceAddressHash]
      ELSE coded

-----------------------------------------------------------------------------
(* The request is submitted and answered.                                    *)

\* What users may submit: the request as prepared, too short, with another code,
\* source, type or last field.  Random requests are submitted as they are.
Submissions(b) ==
  {b} \cup IF origin = "random" THEN {} ELSE
    {Front(b), [b EXCEPT ![38] = (@ + 1) % 256], [b EXCEPT ![6] = 9],
     [b EXCEPT ![2] = 7], [b EXCEPT ![Len(b)] = (@ + 1) % 256]}

Submit ==
  /\ pc = "answered" /\ who = 1
  /\ LET prepared == IF answer[1] \notin {None, Throws} /\ answer[1].status = "OK"
                     THEN IF origin = "random" THEN RandomWithCode(request, answer[1])
                          ELSE WithCode(request, answer[1])
                     ELSE request
     IN  /\ request' = prepared
         /\ \E b \in {encodeRequest(prepared)} : bytes' \in Submissions(b)
  /\ who' = 2 /\ pc' = "submitted" /\ todo' = <<>> /\ got' = Unread /\ parsed' = None
  /\ UNCHANGED <<chain, source, state, origin, answer, verdict>>

\* What a controller answers, and what VerifierRouter.verifyAttestation makes of it.
handleApiResponse(result) ==
  IF result = Throws THEN [status |-> "ERROR"] ELSE [status |-> "OK", data |-> result]

Data(response) == IF response.status = "OK" THEN response.data ELSE Throws

\* query of the verifier controller.
VerifyAttestation ==
  /\ pc = "submitted"
  /\ Verify(bytes, assertIsSupported(bytes))
  /\ UNCHANGED <<chain, source, state, origin, request, bytes, who, verdict>>

\* Mutation of Verdict: the code is not compared.
VerdictWithoutCode(b, verification) ==
  IF verification = Throws THEN "error"
  ELSE CASE getSummarizedVerificationStatus(verification.status) = "valid" -> "valid"
         [] getSummarizedVerificationStatus(verification.status) = "indeterminate" -> "error"
         [] getSummarizedVerificationStatus(verification.status) = "invalid" -> "invalid"

\* SourceManager.process, when the verifier has answered.
Verdict(b, verification) ==
  IF verification = Throws THEN "error"
  ELSE LET req == getAttestationTypeAndSource(b)
           summary == getSummarizedVerificationStatus(verification.status)
       IN  CASE summary = "valid" ->
                  IF dataHash(req, verification.response, MIC_SALT) = req.messageIntegrityCode
                  THEN "valid" ELSE "invalid"
             [] summary = "indeterminate" -> "error"
             [] summary = "invalid" -> "invalid"

Judge ==
  /\ pc = "answered" /\ who = 2
  /\ pc' = "judged" /\ verdict' = Verdict(bytes, Data(handleApiResponse(answer[2])))
  /\ UNCHANGED <<chain, source, state, origin, request, bytes, parsed, who, todo, got, answer>>

-----------------------------------------------------------------------------
Init ==
  /\ chain \in Chains /\ source \in Sources
  /\ state = [v \in Verifiers |->
       [N |-> FirstN[v], first |-> FirstSaved[v], active |-> FirstTable[v],
        tables |-> [i \in 0..1 |-> IF i = FirstTable[v] THEN FirstSaved[v]..FirstN[v] ELSE {}]]]
  /\ \/ origin = "server" /\ request \in Requests[source]
     \/ origin = "random" /\ request = None
  /\ bytes = <<>> /\ parsed = None /\ who = 1 /\ pc = "prepare" /\ todo = <<>> /\ got = Unread
  /\ answer = [v \in Verifiers |-> None] /\ verdict = None

\* An indexer moves while its verifier is the one at work: before, what it does
\* can as well be done later, and after the answer nobody sees it.
Next ==
  \/ \E v \in Verifiers :
       who = v /\ pc \in {"prepare", "submitted", "read"} /\ (SaveBlock(v) \/ DropTable(v))
  \/ PrepareAttestation
  \/ getRandomAttestationRequest
  \/ Read
  \/ Answer
  \/ Submit
  \/ VerifyAttestation
  \/ Judge

Spec == Init /\ [][Next]_vars

-----------------------------------------------------------------------------
(* Properties.                                                               *)

Blocks == DOMAIN chain
Definite(v) == pc = "answered" /\ who = v /\ answer[v] \notin {None, Throws}

\* The transactions of these blocks are in the tables of the verifier, as they
\* were when it read them: block rows outlive the transactions.
Held(v, numbers) == numbers \subseteq state[v].tables[0] \cup state[v].tables[1]

\* A block in which a transaction is found.
HasTransaction(n, id) == n \in Blocks /\ \E tx \in chain[n].transactions : tx.id = id

\* The first block after the deadline, in number and in time.
Overflow(req) ==
  {n \in Blocks : /\ n > req.deadlineBlockNumber /\ chain[n].timestamp > req.deadlineTimestamp
                  /\ \A m \in Blocks : m > req.deadlineBlockNumber
                                       /\ chain[m].timestamp > req.deadlineTimestamp => n <= m}

\* A payment as asked: native, referenced, not failed by the sender, and with
\* enough for the address in all.
IsPayment(tx, req) ==
  LET to == {o \in DOMAIN tx.outputs : tx.outputs[o].address = req.destinationAddressHash}
  IN  /\ tx.isNativePayment /\ tx.paymentReference = req.paymentReference
      /\ to # {} /\ tx.status # SENDER_FAILURE /\ AmountTo(tx, req.destinationAddressHash) >= req.amount
      /\ source \in {"XRP", "ALGO"} => 1 \in to
      /\ source \notin {"XRP", "ALGO"} => tx.inputs > 0

Window(req) == req.minimalBlockNumber..(CHOOSE n \in Overflow(req) : TRUE) - 1
Paid(req) == \E n \in Window(req) \cap Blocks : \E tx \in chain[n].transactions : IsPayment(tx, req)

TransactionAnswerIsTrue(v, req, a) ==
  LET n == req.blockNumber
  IN  /\ a.status = "OK" =>
           /\ HasTransaction(n, req.id) /\ n <= state[v].N
           /\ a.response.transactionHash = req.id
           /\ a.response.blockNumber = n /\ a.response.blockTimestamp = chain[n].timestamp
      /\ a.status = "NON_EXISTENT_TRANSACTION" /\ Held(v, {n}) => ~HasTransaction(n, req.id)
      /\ a.status = "NOT_CONFIRMED" => HasTransaction(n, req.id)

BlockHeightAnswerIsTrue(v, req, a) ==
  LET n == req.blockNumber
      low == a.response.lowestQueryWindowBlockNumber
      from == chain[n].timestamp - req.queryWindow
  IN  a.status = "OK" =>
        /\ n <= state[v].N /\ a.response.blockTimestamp = chain[n].timestamp
        /\ chain[low].timestamp < from
        /\ \A m \in Blocks : m > low => chain[m].timestamp >= from

NonexistenceAnswerIsTrue(v, req, a) ==
  /\ a.status = "OK" =>
       /\ a.response.firstOverflowBlockNumber \in Overflow(req)
       /\ a.response.lowerBoundaryBlockNumber = req.minimalBlockNumber
       /\ Held(v, Window(req)) => ~Paid(req)
  /\ a.status = "REFERENCED_TRANSACTION_EXISTS" => Paid(req)

\* What a verifier answers is so on the chain, whatever its indexer saved and
\* dropped between its statements: a confirmed transaction is in its block, a
\* missing one is not, a block height has its window, a payment that was made is
\* not attested as missing; and the response is of the class generated for its
\* type, here and in the server.  (generic-chain-verifications.ts, over
\* IndexedQueryManager's statements.)
AnswerIsTrue ==
  \A v \in Verifiers :
    Definite(v) =>
      LET req == parsed
          a == answer[v]
          type == req.attestationType
      IN  /\ a.status = "OK" =>
               DOMAIN a.response = DHType[type] /\ DHType[type] = Server!DHTypeArray[type]
          /\ CASE type \in {1, 2} -> TransactionAnswerIsTrue(v, req, a)
               [] type = 3 -> BlockHeightAnswerIsTrue(v, req, a)
               [] type = 4 -> NonexistenceAnswerIsTrue(v, req, a)

\* The blocks a request is about.
Needed(req) ==
  CASE req.attestationType \in {1, 2} -> {req.blockNumber}
    [] req.attestationType = 3 -> {}
    [] req.attestationType = 4 -> Window(req)

\* A request that one verifier prepared is never rejected through another one,
\* whose indexer is behind or ahead and has another history: it is valid, or the
\* verifier cannot tell.  (getAttestationData and SourceManager.process.)  Not
\* so the random requests for XRP whose sender is set after the code is made.
PreparedIsConfirmed ==
  LET resent == origin = "random" /\ source = "XRP" /\ request.attestationType = 2
  IN
  /\ pc = "judged" /\ bytes = encodeRequest(request) /\ ~resent
  /\ answer[1] \notin {None, Throws} /\ answer[1].status = "OK"
  /\ request.attestationType = 4 => Held(1, Needed(request))
  /\ Held(2, Needed(request))
  => verdict # "invalid"

\* A request is valid only if a verifier gave just this response when it was
\* prepared: its code binds a changed or forged request to the response.
\* (SourceManager.process.)
ValidWasPrepared ==
  pc = "judged" /\ verdict = "valid" =>
    /\ answer[1] \notin {None, Throws} /\ answer[1].status = "OK"
    /\ answer[2].response = answer[1].response

\* What a request says survives its bytes, it parses to its class, and bytes that
\* are too short or too long are no request.  (AttestationDefinitionStore.)
RoundTrip ==
  pc = "prepare" /\ origin = "server" =>
    LET b == encodeRequest(request)
    IN  Validated(request) /\ b # Throws =>
          /\ equalsRequest(parseRequest(b), request)
          /\ DOMAIN parseRequest(b) = ARType[request.attestationType]
          /\ parseRequest(Front(b)) = Throws /\ parseRequest(Append(b, 0)) = Throws

\* (The databases go through all their states before a verification starts.)

\* The rows of a range, page by page, as a client asks for them that goes on
\* after what it got.
Pages(db, limit) ==
  LET from[offset \in Nat] ==
        LET page == getTransactionsWithinBlockRange(db, 1, Len(chain), limit, offset)
        IN  IF page = <<>> THEN <<>> ELSE page \o from[offset + Len(page)]
  IN  from[0]

\* Pages that follow one another give every transaction stored once, by block
\* number, over both tables.  (IndexerEngineService.getTransactionsWithinBlockRange.)
PagesAreComplete ==
  pc \in {"prepare", "submitted"} => \A v \in Verifiers, limit \in 1..3 :
    LET db == Database(v)
        pages == Pages(db, limit)
    IN  /\ ToSet(pages) = db.tables[0] \cup db.tables[1]
        /\ Len(pages) = Cardinality(db.tables[0] \cup db.tables[1])
        /\ \A i \in 1..(Len(pages) - 1) : pages[i].blockNumber <= pages[i + 1].blockNumber

\* The engine agrees with itself: a transaction it finds is in its block range
\* and in a confirmed block it finds, not above its height; and the last block
\* before a time is next to the first one from it.  (IndexerEngineService and
\* IndexedQueryManager.)
EngineAgrees ==
  pc \in {"prepare", "submitted"} => \A v \in Verifiers :
    LET db == Database(v)
    IN  /\ \A row \in db.tables[0] \cup db.tables[1] :
             LET block == getTransactionBlock(db, row.transactionId)
             IN  /\ block # None /\ block.blockNumber = row.blockNumber
                 /\ block.blockNumber \in getBlockRange(db).first..getBlockRange(db).last
                 /\ block.blockNumber <= getLastConfirmedBlockNumber(db)
                 /\ block.blockNumber <= getBlockHeight(db)
        /\ \A b \in Confirmed(db) :
             LET before == getLastConfirmedBlockStrictlyBeforeTime(db, b.timestamp)
                 from == getFirstConfirmedBlockAfterTime(db, b.timestamp)
             IN  /\ hasIndexerConfirmedBlockStrictlyBeforeTime(db, b.timestamp) <=> before # None
                 /\ before # None => from.blockNumber = before.blockNumber + 1
=============================================================================
