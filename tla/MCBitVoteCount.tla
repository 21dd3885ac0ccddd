--------------------------- MODULE MCBitVoteCount ---------------------------
(***************************************************************************)
(* Instances of BitVoteCount for TLC.                                      *)
(***************************************************************************)
EXTENDS BitVoteCount, TLC

\* The providers are alike.
ProviderSymmetry == Permutations(Providers)
=============================================================================
