--------------------------- MODULE IndexedChain ---------------------------
(***************************************************************************)
(* What the indexer of a chain promises to those that query its database:  *)
(* the blocks saved are the confirmed ones of the chain, one after another, *)
(* never changed, and the last ones, TableRange of them, are never missing. *)
(* How they are read, saved in two tables, and found again after a crash is *)
(* not seen.                                                                *)
(***************************************************************************)
EXTENDS Integers, Sequences

CONSTANTS
  Confirmations,  \* a block with so many blocks above it is confirmed
  TableRange,     \* how many blocks are kept
  Versions        \* the versions of a block, one on each fork

VARIABLES
  chain,  \* the version of the block at each height
  saved,  \* the blocks that can be queried
  last    \* the number of the last block saved

vars == <<chain, saved, last>>

Init == chain \in Seq(Versions) /\ saved = {} /\ last = 0

Extend ==
  /\ \E v \in Versions : chain' = Append(chain, v)
  /\ UNCHANGED <<saved, last>>

\* The chain replaces blocks that are not confirmed.
Replace ==
  /\ chain' \in Seq(Versions) /\ Len(chain') = Len(chain)
  /\ \A h \in 1..Len(chain) - Confirmations : chain'[h] = chain[h]
  /\ UNCHANGED <<saved, last>>

\* The next block, as soon as it is confirmed.
Save ==
  /\ last + 1 <= Len(chain) - Confirmations
  /\ saved' = saved \cup {[number |-> last + 1, version |-> chain[last + 1]]}
  /\ last' = last + 1
  /\ UNCHANGED chain

\* Blocks before the last ones are forgotten.
Forget ==
  /\ \E n \in 1..last + 1 - TableRange : saved' = {b \in saved : b.number >= n}
  /\ UNCHANGED <<chain, last>>

Next == Extend \/ Replace \/ Save \/ Forget

Spec == Init /\ [][Next]_vars
=============================================================================
