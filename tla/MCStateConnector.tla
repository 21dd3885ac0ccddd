-------------------------- MODULE MCStateConnector --------------------------
(***************************************************************************)
(* Instances of StateConnector for TLC.                                    *)
(***************************************************************************)
EXTENDS StateConnector, TLC

\* The signers are alike.
SignerSymmetry == Permutations(Signers)
=============================================================================
