----------------------------- MODULE MCIndexer -----------------------------
(***************************************************************************)
(* Instances of Indexer for TLC.                                           *)
(***************************************************************************)
EXTENDS Indexer
=============================================================================
