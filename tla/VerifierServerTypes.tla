-------------------------- MODULE VerifierServerTypes --------------------------
(***************************************************************************)
(* The classes of the verifier server for requests and responses,          *)
(* generated from the attestation type definitions.  A class of requests   *)
(* has the validator of each key, one of responses the keys it requires.   *)
(***************************************************************************)
EXTENDS Integers

CONSTANT Text   \* a value in JSON that is neither a number nor hexadecimal

IsInt == "IsInt"
IsHash32 == "IsHash32"
IsNumberLike == "IsNumberLike"

\* What the validators accept; the least type is 1.
Accepts(validator, key, value) ==
  CASE validator = IsInt -> value # Text /\ value >= (IF key = "attestationType" THEN 1 ELSE 0)
    [] validator = IsHash32 -> value # Text
    [] validator = IsNumberLike -> value # Text

ARPayment ==
  [attestationType |-> IsInt, sourceId |-> IsInt, messageIntegrityCode |-> IsHash32,
   id |-> IsHash32, blockNumber |-> IsNumberLike, inUtxo |-> IsNumberLike,
   utxo |-> IsNumberLike]

ARBalanceDecreasingTransaction ==
  [attestationType |-> IsInt, sourceId |-> IsInt, messageIntegrityCode |-> IsHash32,
   id |-> IsHash32, blockNumber |-> IsNumberLike, sourceAddressIndicator |-> IsHash32]

ARConfirmedBlockHeightExists ==
  [attestationType |-> IsInt, sourceId |-> IsInt, messageIntegrityCode |-> IsHash32,
   blockNumber |-> IsNumberLike, queryWindow |-> IsNumberLike]

ARReferencedPaymentNonexistence ==
  [attestationType |-> IsInt, sourceId |-> IsInt, messageIntegrityCode |-> IsHash32,
   minimalBlockNumber |-> IsNumberLike, deadlineBlockNumber |-> IsNumberLike,
   deadlineTimestamp |-> IsNumberLike, destinationAddressHash |-> IsHash32,
   amount |-> IsNumberLike, paymentReference |-> IsHash32]

DHPayment ==
  {"stateConnectorRound", "blockNumber", "blockTimestamp", "transactionHash", "inUtxo",
   "utxo", "sourceAddressHash", "intendedSourceAddressHash", "receivingAddressHash",
   "intendedReceivingAddressHash", "spentAmount", "intendedSpentAmount",
   "receivedAmount", "intendedReceivedAmount", "paymentReference", "oneToOne", "status"}

DHBalanceDecreasingTransaction ==
  {"stateConnectorRound", "blockNumber", "blockTimestamp", "transactionHash",
   "sourceAddressIndicator", "sourceAddressHash", "spentAmount", "paymentReference"}

DHConfirmedBlockHeightExists ==
  {"stateConnectorRound", "blockNumber", "blockTimestamp", "numberOfConfirmations",
   "lowestQueryWindowBlockNumber", "lowestQueryWindowBlockTimestamp"}

DHReferencedPaymentNonexistence ==
  {"stateConnectorRound", "deadlineBlockNumber", "deadlineTimestamp",
   "destinationAddressHash", "paymentReference", "amount", "lowerBoundaryBlockNumber",
   "lowerBoundaryBlockTimestamp", "firstOverflowBlockNumber",
   "firstOverflowBlockTimestamp"}

ARTypeArray == <<ARPayment, ARBalanceDecreasingTransaction, ARConfirmedBlockHeightExists,
                 ARReferencedPaymentNonexistence>>

DHTypeArray == <<DHPayment, DHBalanceDecreasingTransaction, DHConfirmedBlockHeightExists,
                 DHReferencedPaymentNonexistence>>
=============================================================================
