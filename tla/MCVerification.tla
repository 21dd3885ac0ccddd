---------------------------- MODULE MCVerification ----------------------------
(* An instance of Verification: chains of five blocks, for every source. *)
EXTENDS Verification

Tx(id, reference, outputs, status) ==
  [id |-> id, paymentReference |-> reference, isNativePayment |-> TRUE, inputs |-> 1,
   outputs |-> outputs, source |-> 5, status |-> status]
Out(address, amount) == [address |-> address, amount |-> amount]

\* A payment of 7 to address 8 with reference 3: made, made in two outputs, or
\* failed by the sender in block 3.
MCChains ==
  {<<[timestamp |-> 10, transactions |-> {}],
     [timestamp |-> 20, transactions |-> {Tx(21, 0, <<Out(9, 4)>>, 0)}],
     [timestamp |-> 20, transactions |-> payments],
     [timestamp |-> 30, transactions |-> {[Tx(41, 3, <<Out(8, 7)>>, 0) EXCEPT !.isNativePayment = FALSE]}],
     [timestamp |-> 40, transactions |-> {Tx(51, 3, <<Out(8, 7)>>, 0)}]>>
   : payments \in {{Tx(31, 3, <<Out(8, 4), Out(8, 3)>>, 0)}, {Tx(31, 3, <<Out(8, 7)>>, 1)}}}

MCOrphans == {[blockNumber |-> 4, timestamp |-> 25, confirmed |-> FALSE]}

Base(s, type) ==
  [attestationType |-> type, sourceId |-> SourceIds[s], messageIntegrityCode |-> 0]

Payment(s, n, i, u) == Base(s, 1) @@ [id |-> 31, blockNumber |-> n, inUtxo |-> i, utxo |-> u]
Nonexistence(s, m, t, r) ==
  Base(s, 4) @@ [minimalBlockNumber |-> m, deadlineBlockNumber |-> 3, deadlineTimestamp |-> t,
                 destinationAddressHash |-> 8, amount |-> 7, paymentReference |-> r]

\* For every source one request of each type; for one with outputs and one with
\* accounts the cases of each, too.
MCRequests ==
  [s \in Sources |->
     {Payment(s, 3, 0, 0), Base(s, 2) @@ [id |-> 31, blockNumber |-> 3, sourceAddressIndicator |-> 5],
      Base(s, 3) @@ [blockNumber |-> 4, queryWindow |-> 5], Nonexistence(s, 2, 20, 3)}
     \cup IF s \notin {"BTC", "XRP"} THEN {} ELSE
       {Payment(s, 0, 0, 0), Payment(s, 4, 0, 0), Payment(s, 3, 0, 1), Payment(s, 3, 0, 256),
        Payment(s, 3, 255, 0), Payment(s, 3, 256, 0),
        Base(s, 2) @@ [id |-> 31, blockNumber |-> 3, sourceAddressIndicator |-> 6],
        Base(s, 3) @@ [blockNumber |-> 4, queryWindow |-> 10],
        Nonexistence(s, 0, 20, 3), Nonexistence(s, 2, 20, 0), Nonexistence(s, 2, 30, 3), Nonexistence(s, 1, 10, 3),
        Base(s, 9), [attestationType |-> 1], [Payment(s, 3, 0, 0) EXCEPT !.id = Text]}]

MCFirstSaved == <<1, 2>>
MCFirstN == <<3, 3>>
MCFirstTable == <<0, 1>>
=============================================================================
