---------------------------- MODULE BitVoteCount ----------------------------
(***************************************************************************)
(* The bit vote of one round: the providers of the default set each read   *)
(* the requests from the chain, vote for those they could verify, read the *)
(* votes back, and choose a set of requests.                               *)
(*                                                                         *)
(* A bit mask is its number of bytes and the positions of its ones, where  *)
(* position 0 is the highest bit of the first byte (BitmaskAccumulator).   *)
(***************************************************************************)
EXTENDS Integers, Sequences, FiniteSets, FiniteSetsExt

CONSTANTS
  Providers,    \* defaultSetAssignerAddresses
  NumRequests,  \* requests of the round on the chain
  ReadAtFirst,  \* bound: requests every provider has read when the vote begins
  ByteBits,     \* bits of a byte: 8
  NumberBase,   \* the base numbers are written in: 10
  Deadline,     \* BIT_VOTE_DEADLINE, in the units of block times
  MaxBlocks,    \* bound: blocks of the window
  None,         \* no vote, no result
  Exit          \* the process has ended

ASSUMPTION VoteAssumption ==
  /\ IsFiniteSet(Providers)
  /\ NumRequests \in Nat /\ ByteBits \in Nat \ {0} /\ NumberBase \in Nat \ {0}
  /\ ReadAtFirst \in 0..NumRequests
  /\ NumRequests < NumberBase * NumberBase
  /\ Deadline \in Nat /\ MaxBlocks \in Nat
  /\ None \notin Providers \cup {Exit}
  /\ \A ones \in SUBSET (0..(NumRequests - 1)) : ones \notin {None, Exit}

VARIABLES
  now,     \* block.timestamp, relative to the window
  mined,   \* the votes in the block that is being built
  chain,   \* the blocks before it
  listed,  \* how many requests each provider has read
  cast,    \* the mask each provider has sent
  read,    \* how many blocks each provider has read
  result,  \* the indices each provider has chosen
  forced   \* whether it had to count before it read the end of the voting

vars == <<now, mined, chain, listed, cast, read, result, forced>>

Indices == 0..(NumRequests - 1)
Masks == [bytes : Nat, ones : SUBSET Nat]
Votes == [by : Providers, mask : Masks]
Blocks == [time : Nat, votes : SUBSET Votes]

Init ==
  /\ now = 0
  /\ mined = {}
  /\ chain = <<>>
  /\ listed = [p \in Providers |-> ReadAtFirst]
  /\ cast = [p \in Providers |-> None]
  /\ read = [p \in Providers |-> 0]
  /\ result = [p \in Providers |-> None]
  /\ forced = [p \in Providers |-> FALSE]

Bytes(n) == (n + ByteBits - 1) \div ByteBits
NoVote == [bytes |-> 1, ones |-> {}]

-----------------------------------------------------------------------------
(* The count.                                                                *)

\* padStart: the shorter of two masks is filled up on the left.
Shift(mask, bytes) == {i + (bytes - mask.bytes) * ByteBits : i \in mask.ones}

\* hexStringAnd of the votes of a group.
And(votes, group) ==
  LET bytes == Max({votes[p].bytes : p \in group})
  IN  [bytes |-> bytes,
       ones |-> {i \in UNION {Shift(votes[p], bytes) : p \in group} :
                   \A p \in group : i \in Shift(votes[p], bytes)}]

\* The digits of the count of ones, the first first; a comma, which comes
\* before every digit, follows.
Digits(n) == IF n < NumberBase THEN <<n, -1>> ELSE <<n \div NumberBase, n % NumberBase>>

NumberBefore(m, n) ==
  LET d == Digits(m)
      e == Digits(n)
  IN  d[1] < e[1] \/ (d[1] = e[1] /\ d[2] < e[2])

\* Hexadecimal strings compare by the first position in which they differ; of
\* two that do not differ the shorter comes first.
MaskBefore(a, b) ==
  LET differ == (a.ones \ b.ones) \cup (b.ones \ a.ones)
  IN  IF differ = {} THEN a.bytes < b.bytes ELSE Min(differ) \in b.ones

\* candidates.sort() of the pairs, as strings.
Before(a, b) ==
  LET m == Cardinality(a.ones)
      n == Cardinality(b.ones)
  IN  IF m = n THEN MaskBefore(a, b) ELSE NumberBefore(m, n)

\* Mutation of LastInOrder: the candidate sorted first is taken.
FirstInOrder(candidates) == CHOOSE c \in candidates : \A d \in candidates : ~Before(d, c)

LastInOrder(candidates) == CHOOSE c \in candidates : \A d \in candidates : ~Before(c, d)

\* Mutation of MinVoters: half of the default set, rounded down.
MinVotersDown == Cardinality(Providers) \div 2

MinVoters == (Cardinality(Providers) + 1) \div 2

ChooseCandidate(votes) ==
  LastInOrder({And(votes, group) : group \in kSubset(MinVoters, Providers)})

\* Mutation of ActiveBitsBeyond: the last index counts as beyond.
ActiveBitsBeyondLast(mask, n) == \E i \in mask.ones : i + 1 >= n

\* hasActiveBitsBeyond
ActiveBitsBeyond(mask, n) == n < mask.bytes * ByteBits /\ \E i \in mask.ones : i >= n

\* calculateBitVotingResult, and the indices taken from it.
Outcome(votes, n) ==
  LET voted == {p \in Providers : votes[p].ones # {}}
      candidate == ChooseCandidate(votes)
  IN  IF Cardinality(voted) < MinVoters THEN {}
      ELSE IF ActiveBitsBeyond(candidate, n) THEN Exit
      ELSE candidate.ones \cap 0..(n - 1)

VotesIn(blocks) == UNION {chain[i].votes : i \in blocks}

\* A default set member that has not voted has the mask NO_VOTE. The providers
\* of the model send one vote each.
MaskOf(votes, q) ==
  IF \E v \in votes : v.by = q THEN (CHOOSE v \in votes : v.by = q).mask ELSE NoVote

\* Mutation of VotesRead: a provider takes its own vote as it sent it.
VotesReadOwn(p) ==
  [q \in Providers |-> IF q = p /\ cast[p] # None THEN cast[p]
                      ELSE MaskOf(VotesIn(1..read[p]), q)]

\* The bitVoteMap of a provider.
VotesRead(p) == [q \in Providers |-> MaskOf(VotesIn(1..read[p]), q)]

-----------------------------------------------------------------------------
(* The chain.                                                                *)

\* BitVoting.submitVote; a provider's transaction may also come too late.
MineVote(p) ==
  /\ cast[p] # None
  /\ p \notin {v.by : v \in mined \cup VotesIn(DOMAIN chain)}
  /\ now <= Deadline
  /\ mined' = mined \cup {[by |-> p, mask |-> cast[p]]}
  /\ UNCHANGED <<now, chain, listed, cast, read, result, forced>>

\* The end of a block; the next one may have the same time.
EndBlock ==
  /\ Len(chain) < MaxBlocks
  /\ chain' = Append(chain, [time |-> now, votes |-> mined])
  /\ mined' = {}
  /\ now' \in {now, now + 1}
  /\ UNCHANGED <<listed, cast, read, result, forced>>

-----------------------------------------------------------------------------
(* A provider.                                                               *)

Running(p) == result[p] # Exit

\* addAttestation. The requests come before the votes on the chain.
ReadRequest(p) ==
  /\ Running(p)
  /\ listed[p] < NumRequests
  /\ listed' = [listed EXCEPT ![p] = @ + 1]
  /\ UNCHANGED <<now, mined, chain, cast, read, result, forced>>

\* onSubmitBitVote: the requests read so far, any of them verified; a mask
\* without ones is not sent. The clocks agree with the times of the blocks.
SubmitBitVote(p) ==
  /\ Running(p)
  /\ now <= Deadline
  /\ cast[p] = None
  /\ \E valid \in SUBSET (0..(listed[p] - 1)) \ {{}} :
       cast' = [cast EXCEPT ![p] = [bytes |-> Bytes(listed[p]), ones |-> valid]]
  /\ UNCHANGED <<now, mined, chain, listed, read, result, forced>>

\* getEpochIdForBitVoteTimeSec is undefined.
PastVoting(time) == time > Deadline

\* The collector hands over a whole block: its votes are registered, then the
\* end of a block past the deadline closes the voting (onBitVoteEvent,
\* onLastFlareNetworkTimestamp), and the provider counts.
ReadBlock(p) ==
  LET block == chain[read[p] + 1]
  IN  /\ result[p] = None
      /\ listed[p] = NumRequests
      /\ read[p] < Len(chain)
      /\ read' = [read EXCEPT ![p] = @ + 1]
      /\ result' = [result EXCEPT ![p] =
                      IF PastVoting(block.time) THEN Outcome(VotesRead(p), listed[p])
                      ELSE None]
      /\ UNCHANGED <<now, mined, chain, listed, cast, forced>>

\* The timer that closes the voting in the commit phase, whatever has been read.
ForceClose(p) ==
  /\ now > Deadline
  /\ result[p] = None
  /\ result' = [result EXCEPT ![p] = Outcome(VotesRead(p), listed[p])]
  /\ forced' = [forced EXCEPT ![p] = TRUE]
  /\ UNCHANGED <<now, mined, chain, listed, cast, read>>

-----------------------------------------------------------------------------
ProviderStep(p) ==
  \/ ReadRequest(p)
  \/ SubmitBitVote(p)
  \/ MineVote(p)
  \/ ReadBlock(p)
  \/ ForceClose(p)

Next ==
  \/ EndBlock
  \/ \E p \in Providers : ProviderStep(p)

Spec == Init /\ [][Next]_vars

-----------------------------------------------------------------------------
(* What the vote promises.                                                   *)

\* Providers that count when the chain tells them to (onLastFlareNetworkTimestamp)
\* choose the same requests, in whatever order votes are sent, mined and read.
ResultsAgree ==
  \A p, q \in Providers :
    (result[p] # None /\ result[q] # None /\ ~forced[p] /\ ~forced[q])
      => result[p] = result[q]

\* No provider ever finds ones beyond the requests it has read and ends
\* (calculateBitVotingResult: "Local and all indices do not match"): whoever has
\* read a vote has read every request it is about, even with the timer.
NoExit == \A p \in Providers : result[p] # Exit

\* All votes sent have the same number of bytes.
SameLength == \A p, q \in Providers :
  cast[p] # None /\ cast[q] # None => cast[p].bytes = cast[q].bytes

\* The providers whose vote has a one for a request.
ConfirmedBy(i) == {p \in Providers : cast[p] # None /\ i \in cast[p].ones}

\* A chosen request has been verified by half of the default set, as long as
\* all masks have the same number of bytes (hexStringAnd shifts shorter ones).
ChosenAreConfirmed ==
  SameLength =>
    \A p \in Providers : result[p] \notin {None, Exit} =>
      \A i \in result[p] : 2 * Cardinality(ConfirmedBy(i)) >= Cardinality(Providers)

\* No half of the default set agrees on more requests than are chosen
\* (chooseCandidate), as long as the counts have one digit: sort() takes 9 ones
\* for more than 10.
BestCandidateChosen ==
  \A p \in Providers :
    (SameLength /\ NumRequests < NumberBase /\ ~forced[p] /\ result[p] \notin {None, Exit})
      => \A group \in kSubset(MinVoters, Providers) :
           LET agreed == {i \in Indices : \A q \in group : i \in VotesRead(p)[q].ones}
           IN  Cardinality(agreed) <= Cardinality(result[p])
=============================================================================
