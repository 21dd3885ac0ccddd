------------------------- MODULE MCAttestationRound -------------------------
(***************************************************************************)
(* Instances of AttestationRound for TLC.                                  *)
(***************************************************************************)
EXTENDS AttestationRound

Empty(r, i) == rd[r].att[i] = "absent" /\ i \notin rd[r].tally

\* Nobody makes a request in the last round, and it has no votes.
LastRoundEmpty == \A i \in Requests : Empty(LastRound, i)

OthersEmpty == \A r \in 1..LastRound, i \in Requests : Empty(r, i)

TwoRequests == \E i \in Requests : i > 1 /\ ~Empty(0, i)

\* Bound: only the first round has more than one request, and then it is the
\* only one that has any.
FewRequests ==
  /\ LastRoundEmpty
  /\ \A r \in 1..LastRound, i \in Requests : i > 1 => Empty(r, i)
  /\ TwoRequests => OthersEmpty
=============================================================================
