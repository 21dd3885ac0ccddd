--------------------------- MODULE AttestationTypes ---------------------------
(***************************************************************************)
(* Attestation types, requests and responses: the definitions of           *)
(* src/src/verification/attestation-types and what is generated from them. *)
(*                                                                         *)
(* A request or response is a record of numbers; hashes, addresses and     *)
(* amounts are small numbers, too.  A request in bytes is a sequence of    *)
(* numbers below 256, as in AttestationDefinitionStore.                    *)
(***************************************************************************)
EXTENDS Integers, Sequences, SequencesExt

CONSTANT Throws   \* the value of a call that throws

-----------------------------------------------------------------------------
(* Verification statuses.                                                    *)

Indeterminate ==
  {"DATA_AVAILABILITY_ISSUE", "NEEDS_MORE_CHECKS", "SYSTEM_FAILURE", "NON_EXISTENT_BLOCK"}

Invalid ==
  {"NOT_CONFIRMED", "NON_EXISTENT_TRANSACTION", "NOT_PAYMENT",
   "REFERENCED_TRANSACTION_EXISTS", "ZERO_PAYMENT_REFERENCE_UNSUPPORTED",
   "NOT_STANDARD_PAYMENT_REFERENCE", "PAYMENT_SUMMARY_ERROR"}

VerificationStatus == {"OK"} \cup Indeterminate \cup Invalid

\* Mutation of getSummarizedVerificationStatus: a block that is not there is
\* taken for a definite answer.
SummarizedMissingInvalid(status) ==
  CASE status = "OK" -> "valid"
    [] status \in Invalid \cup {"NON_EXISTENT_BLOCK"} -> "invalid"
    [] status \in Indeterminate -> "indeterminate"

getSummarizedVerificationStatus(status) ==
  CASE status = "OK" -> "valid"
    [] status \in Invalid -> "invalid"
    [] status \in Indeterminate -> "indeterminate"

-----------------------------------------------------------------------------
(* Sources and types.                                                        *)

SourceIds == [BTC |-> 0, LTC |-> 1, DOGE |-> 2, XRP |-> 3, ALGO |-> 4]

\* toSourceId and getSourceName.
SourceName(id) ==
  IF \E n \in DOMAIN SourceIds : SourceIds[n] = id
  THEN CHOOSE n \in DOMAIN SourceIds : SourceIds[n] = id ELSE "null"

AttestationType ==
  [Payment |-> 1, BalanceDecreasingTransaction |-> 2,
   ConfirmedBlockHeightExists |-> 3, ReferencedPaymentNonexistence |-> 4]

getAttestationTypeName(id) ==
  IF \E n \in DOMAIN AttestationType : AttestationType[n] = id
  THEN CHOOSE n \in DOMAIN AttestationType : AttestationType[n] = id ELSE "null"

-----------------------------------------------------------------------------
(* The definitions: keys with the number of bytes in a request, and with the *)
(* number of bytes of the Solidity type in the hash of a response.           *)

Field(key, size) == [key |-> key, size |-> size]

RequestBase ==
  <<Field("attestationType", 2), Field("sourceId", 4), Field("messageIntegrityCode", 32)>>

ResponseBase == <<Field("stateConnectorRound", 32)>>

PaymentDefinition ==
  [id |-> AttestationType.Payment,
   supportedSources |-> DOMAIN SourceIds,
   request |-> <<Field("id", 32), Field("blockNumber", 4), Field("inUtxo", 1),
                 Field("utxo", 1)>>,
   dataHash |->
     <<Field("blockNumber", 8), Field("blockTimestamp", 8), Field("transactionHash", 32),
       Field("inUtxo", 1), Field("utxo", 1), Field("sourceAddressHash", 32),
       Field("intendedSourceAddressHash", 32), Field("receivingAddressHash", 32),
       Field("intendedReceivingAddressHash", 32), Field("spentAmount", 32),
       Field("intendedSpentAmount", 32), Field("receivedAmount", 32),
       Field("intendedReceivedAmount", 32), Field("paymentReference", 32),
       Field("oneToOne", 1), Field("status", 1)>>]

BalanceDecreasingDefinition ==
  [id |-> AttestationType.BalanceDecreasingTransaction,
   supportedSources |-> DOMAIN SourceIds,
   request |-> <<Field("id", 32), Field("blockNumber", 4),
                 Field("sourceAddressIndicator", 32)>>,
   dataHash |->
     <<Field("blockNumber", 8), Field("blockTimestamp", 8), Field("transactionHash", 32),
       Field("sourceAddressIndicator", 32), Field("sourceAddressHash", 32),
       Field("spentAmount", 32), Field("paymentReference", 32)>>]

BlockHeightDefinition ==
  [id |-> AttestationType.ConfirmedBlockHeightExists,
   supportedSources |-> DOMAIN SourceIds,
   request |-> <<Field("blockNumber", 4), Field("queryWindow", 4)>>,
   dataHash |->
     <<Field("blockNumber", 8), Field("blockTimestamp", 8),
       Field("numberOfConfirmations", 1), Field("lowestQueryWindowBlockNumber", 8),
       Field("lowestQueryWindowBlockTimestamp", 8)>>]

NonexistenceDefinition ==
  [id |-> AttestationType.ReferencedPaymentNonexistence,
   supportedSources |-> DOMAIN SourceIds,
   request |-> <<Field("minimalBlockNumber", 4), Field("deadlineBlockNumber", 4),
                 Field("deadlineTimestamp", 4), Field("destinationAddressHash", 32),
                 Field("amount", 16), Field("paymentReference", 32)>>,
   dataHash |->
     <<Field("deadlineBlockNumber", 8), Field("deadlineTimestamp", 8),
       Field("destinationAddressHash", 32), Field("paymentReference", 32),
       Field("amount", 16), Field("lowerBoundaryBlockNumber", 8),
       Field("lowerBoundaryBlockTimestamp", 8), Field("firstOverflowBlockNumber", 8),
       Field("firstOverflowBlockTimestamp", 8)>>]

\* readAttestationTypeSchemes.
Definitions ==
  {PaymentDefinition, BalanceDecreasingDefinition, BlockHeightDefinition,
   NonexistenceDefinition}

Defined(type) == \E d \in Definitions : d.id = type
Definition(type) == CHOOSE d \in Definitions : d.id = type
RequestFields(type) == RequestBase \o Definition(type).request
HashFields(type) == ResponseBase \o Definition(type).dataHash

Keys(fields) == {fields[i].key : i \in DOMAIN fields}
RequestKeys(type) == Keys(RequestFields(type))

-----------------------------------------------------------------------------
(* The classes generated from the definitions: the keys they require.        *)

ARBase == {"attestationType", "sourceId", "messageIntegrityCode"}

ARPayment ==
  ARBase \cup {"id", "blockNumber", "inUtxo", "utxo"}

ARBalanceDecreasingTransaction ==
  ARBase \cup {"id", "blockNumber", "sourceAddressIndicator"}

ARConfirmedBlockHeightExists ==
  ARBase \cup {"blockNumber", "queryWindow"}

ARReferencedPaymentNonexistence ==
  ARBase \cup {"minimalBlockNumber", "deadlineBlockNumber", "deadlineTimestamp",
   "destinationAddressHash", "amount", "paymentReference"}

DHPayment ==
  {"stateConnectorRound", "blockNumber", "blockTimestamp", "transactionHash", "inUtxo",
   "utxo", "sourceAddressHash", "intendedSourceAddressHash", "receivingAddressHash",
   "intendedReceivingAddressHash", "spentAmount", "intendedSpentAmount",
   "receivedAmount", "intendedReceivedAmount", "paymentReference", "oneToOne", "status"}

DHBalanceDecreasingTransaction ==
  {"stateConnectorRound", "blockNumber", "blockTimestamp", "transactionHash",
   "sourceAddressIndicator", "sourceAddressHash", "spentAmount", "paymentReference"}

DHConfirmedBlockHeightExists ==
  {"stateConnectorRound", "blockNumber", "blockTimestamp", "numberOfConfirmations",
   "lowestQueryWindowBlockNumber", "lowestQueryWindowBlockTimestamp"}

DHReferencedPaymentNonexistence ==
  {"stateConnectorRound", "deadlineBlockNumber", "deadlineTimestamp",
   "destinationAddressHash", "paymentReference", "amount", "lowerBoundaryBlockNumber",
   "lowerBoundaryBlockTimestamp", "firstOverflowBlockNumber",
   "firstOverflowBlockTimestamp"}

\* The unions of the classes, by the type of attestation.
ARType == <<ARPayment, ARBalanceDecreasingTransaction, ARConfirmedBlockHeightExists,
            ARReferencedPaymentNonexistence>>

DHType == <<DHPayment, DHBalanceDecreasingTransaction, DHConfirmedBlockHeightExists,
            DHReferencedPaymentNonexistence>>

-----------------------------------------------------------------------------
(* Bytes.                                                                    *)

\* What a byte counts, from the last one: model numbers are below 2^31.
Weight == <<1, 256, 65536, 16777216>>

\* A number fits, unless it is negative or has more bytes than the field.
Fits(v, size) == v >= 0 /\ (size < 4 => v < Weight[size + 1])

\* toUnprefixedBytes, fromUnprefixedBytes.
toUnprefixedBytes(v, size) ==
  [i \in 1..size |-> IF size - i > 3 THEN 0 ELSE (v \div Weight[size - i + 1]) % 256]

fromUnprefixedBytes(bytes) ==
  LET value[i \in 0..Len(bytes)] == IF i = 0 THEN 0 ELSE 256 * value[i - 1] + bytes[i]
  IN  value[Len(bytes)]

\* The first n fields, in bytes.
Bytes(fields, n) ==
  LET length[i \in 0..Len(fields)] == IF i = 0 THEN 0 ELSE length[i - 1] + fields[i].size
  IN  length[n]
TotalLength(fields) == Bytes(fields, Len(fields))

\* Mutation of encodeRequest: a value that is too long is not refused.
EncodeUnchecked(request) ==
  LET fields == RequestFields(request.attestationType)
  IN  IF ~Defined(request.attestationType) \/ ~Keys(fields) \subseteq DOMAIN request
      THEN Throws
      ELSE FlattenSeq([i \in DOMAIN fields |->
             toUnprefixedBytes(request[fields[i].key], fields[i].size)])

encodeRequest(request) ==
  LET fields == RequestFields(request.attestationType)
  IN  IF \/ ~Defined(request.attestationType)
         \/ \E i \in DOMAIN fields :
              \/ fields[i].key \notin DOMAIN request
              \/ ~Fits(request[fields[i].key], fields[i].size)
      THEN Throws
      ELSE FlattenSeq([i \in DOMAIN fields |->
             toUnprefixedBytes(request[fields[i].key], fields[i].size)])

\* The type, source and message integrity code at the head of a request: 12
\* characters are "0x" and five bytes.
getAttestationTypeAndSource(bytes) ==
  LET slice(from, to) == fromUnprefixedBytes(SubSeq(bytes, from, IF to < Len(bytes) THEN to ELSE Len(bytes)))
  IN  IF Len(bytes) < 5 THEN Throws
      ELSE [attestationType |-> slice(1, 2), sourceId |-> slice(3, 6),
            messageIntegrityCode |-> slice(7, 38)]

parseRequest(bytes) ==
  LET type == fromUnprefixedBytes(SubSeq(bytes, 1, 2))
      fields == RequestFields(type)
      at(key) == CHOOSE i \in DOMAIN fields : fields[i].key = key
  IN  IF Len(bytes) < 2 \/ ~Defined(type) \/ Len(bytes) # TotalLength(fields)
      THEN Throws
      ELSE [key \in Keys(fields) |->
              fromUnprefixedBytes(SubSeq(bytes, Bytes(fields, at(key) - 1) + 1,
                                         Bytes(fields, at(key))))]

\* equalsRequest.
equalsRequest(r, s) ==
  /\ r.attestationType = s.attestationType
  /\ \A key \in RequestKeys(r.attestationType) : r[key] = s[key]

-----------------------------------------------------------------------------
(* Hashes.                                                                   *)

NoSalt == 0
MIC_SALT == 1   \* "Flare"
NoHash == -1    \* undefined

\* web3.utils.soliditySha3 of the encoded values: a number that tells apart the
\* few values of an instance.
soliditySha3(values) ==
  LET hash[i \in 0..Len(values)] ==
        IF i = 0 THEN 1 ELSE (31 * hash[i - 1] + values[i] + 7) % 1000003
  IN  hash[Len(values)]

\* The types of the values hashed, as the ABI coder checks them.
Encodable(fields, response) ==
  \A i \in DOMAIN fields :
    /\ fields[i].key \in DOMAIN response
    /\ Fits(response[fields[i].key], fields[i].size)

\* dataHash.  The test for a missing value looks for undefined with find, which
\* returns undefined in either case; the ABI coder then throws for a missing
\* value, as it does for one that its type cannot hold.
dataHash(request, response, salt) ==
  LET fields == HashFields(request.attestationType)
  IN  IF ~Defined(request.attestationType) THEN NoHash
      ELSE IF ~Encodable(fields, response) THEN Throws
      ELSE soliditySha3(<<request.attestationType, request.sourceId>>
                        \o [i \in DOMAIN fields |-> response[fields[i].key]] \o <<salt>>)
=============================================================================
