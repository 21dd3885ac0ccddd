---------------------------- MODULE WebServerTypes ----------------------------
(***************************************************************************)
(* The classes the web server documents its answers with, generated from   *)
(* the attestation type definitions: the keys they require.                *)
(***************************************************************************)

ARBase == {"attestationType", "sourceId", "messageIntegrityCode"}

ARPayment ==
  ARBase \cup {"id", "blockNumber", "inUtxo", "utxo"}

ARBalanceDecreasingTransaction ==
  ARBase \cup {"id", "blockNumber", "sourceAddressIndicator"}

ARConfirmedBlockHeightExists ==
  ARBase \cup {"blockNumber", "queryWindow"}

ARReferencedPaymentNonexistence ==
  ARBase \cup {"minimalBlockNumber", "deadlineBlockNumber", "deadlineTimestamp",
   "destinationAddressHash", "amount", "paymentReference"}

DHPayment ==
  {"stateConnectorRound", "blockNumber", "blockTimestamp", "transactionHash", "inUtxo",
   "utxo", "sourceAddressHash", "intendedSourceAddressHash", "receivingAddressHash",
   "intendedReceivingAddressHash", "spentAmount", "intendedSpentAmount",
   "receivedAmount", "intendedReceivedAmount", "paymentReference", "oneToOne", "status"}

DHBalanceDecreasingTransaction ==
  {"stateConnectorRound", "blockNumber", "blockTimestamp", "transactionHash",
   "sourceAddressIndicator", "sourceAddressHash", "spentAmount", "paymentReference"}

DHConfirmedBlockHeightExists ==
  {"stateConnectorRound", "blockNumber", "blockTimestamp", "numberOfConfirmations",
   "lowestQueryWindowBlockNumber", "lowestQueryWindowBlockTimestamp"}

DHReferencedPaymentNonexistence ==
  {"stateConnectorRound", "deadlineBlockNumber", "deadlineTimestamp",
   "destinationAddressHash", "paymentReference", "amount", "lowerBoundaryBlockNumber",
   "lowerBoundaryBlockTimestamp", "firstOverflowBlockNumber",
   "firstOverflowBlockTimestamp"}

ARTypeArray == <<ARPayment, ARBalanceDecreasingTransaction, ARConfirmedBlockHeightExists,
                 ARReferencedPaymentNonexistence>>

DHTypeArray == <<DHPayment, DHBalanceDecreasingTransaction, DHConfirmedBlockHeightExists,
                 DHReferencedPaymentNonexistence>>
=============================================================================
