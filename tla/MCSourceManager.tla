--------------------------- MODULE MCSourceManager ---------------------------
(***************************************************************************)
(* Instances of SourceManager for TLC.                                     *)
(***************************************************************************)
EXTENDS SourceManager, TLC

\* The attestations are interchangeable.
AttestationSymmetry == Permutations(Attestations)
=============================================================================
