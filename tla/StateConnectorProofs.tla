------------------------ MODULE StateConnectorProofs ------------------------
(***************************************************************************)
(* Theorems about StateConnector, for any number of providers, any sizes   *)
(* of the ring of roots and any number of windows.                         *)
(***************************************************************************)
EXTENDS StateConnector, FiniteSetTheorems, TLAPS

USE ConnectorAssumption

\* The remainder is what a multiple of n leaves.
LEMMA Division ==
  ASSUME NEW n \in Nat \ {0}, NEW c \in Nat
  PROVE  \E p \in Int : c % n = c - n * p
<1>1. c % n = c - n * (c \div n)
  OBVIOUS
<1>2. (c \div n) \in Int
  OBVIOUS
<1> QED
  BY <1>1, <1>2, Zenon

\* Two rounds fewer than StoredProofs apart have different slots.
LEMMA DistinctSlots ==
  ASSUME NEW n \in Nat \ {0}, NEW a \in Nat, NEW b \in Nat, a < b, b < a + n
  PROVE  a % n # b % n
<1> SUFFICES ASSUME a % n = b % n PROVE FALSE
  OBVIOUS
<1>1. PICK p \in Int : a % n = a - n * p
  BY Division
<1>2. PICK q \in Int : b % n = b - n * q
  BY Division
<1>3. a - n * p = b - n * q
  BY <1>1, <1>2
<1>4. b - a = n * (q - p)
  BY <1>3
<1>5. CASE q - p >= 1
  <2>1. n * (q - p) >= n
    BY <1>5
  <2> QED
    BY <1>4, <2>1
<1>6. CASE q - p <= 0
  <2>1. n * (q - p) <= 0
    BY <1>6
  <2> QED
    BY <1>4, <2>1
<1> QED
  BY <1>5, <1>6

\* Buffers one and two before a buffer have other places in the ring.
LEMMA ThirdSlots ==
  ASSUME NEW b \in Int
  PROVE  /\ b % TotalStoredBuffers \in 0..(TotalStoredBuffers - 1)
         /\ (b - 1) % TotalStoredBuffers # b % TotalStoredBuffers
         /\ (b - 2) % TotalStoredBuffers # b % TotalStoredBuffers
BY DEF TotalStoredBuffers

-----------------------------------------------------------------------------
(* Types.                                                                    *)

\* A vote of a buffer is a vote.
LEMMA VoteType ==
  ASSUME TypeOK, NEW s \in Signers, NEW b \in Int
  PROVE  Vote(s, b) \in VoteRecord
<1>1. buffers[s].votes \in [0..(TotalStoredBuffers - 1) -> VoteRecord]
  BY DEF TypeOK
<1>2. b % TotalStoredBuffers \in 0..(TotalStoredBuffers - 1)
  BY ThirdSlots
<1> QED
  BY <1>1, <1>2 DEF Vote

\* What is revealed is a commit or nothing.
LEMMA RevealType ==
  ASSUME TypeOK, NEW s \in Signers, NEW b \in Int
  PROVE  Reveal(s, b) \in Commits \cup {None}
BY VoteType DEF Reveal, VoteRecord

\* What getAttestation returns is a root or zero.
LEMMA GetAttestationType ==
  ASSUME TypeOK, NEW s \in Signers, NEW b \in Int
  PROVE  GetAttestation(s, b) \in Roots \cup {Zero}
<1>1. Vote(s, b - 2) \in VoteRecord /\ Vote(s, b - 1) \in VoteRecord
  BY VoteType
<1>2. Attests(s, b) => Vote(s, b - 1).reveal \in Commits
  BY <1>1 DEF Attests, VoteRecord
<1> QED
  BY <1>2 DEF GetAttestation, Commits

\* The place of a round's root.
LEMMA SlotType ==
  ASSUME NEW b \in Nat, b > 3
  PROVE  Slot(b) \in 0..(StoredProofs - 1)
BY DEF Slot

\* What finaliseRound changes.
LEMMA FinaliseRoundType ==
  ASSUME TypeOK, NEW b \in Nat, NEW root \in Roots \cup {Zero}, FinaliseRound(b, root)
  PROVE  /\ buffers' = buffers
         /\ totalBuffers' \in Nat
         /\ merkleRoots' \in [0..(StoredProofs - 1) -> Roots \cup {Zero}]
         /\ finalised' \in [Rounds -> Roots \cup {Zero, None}]
BY SlotType DEF TypeOK, FinaliseRound, contract

\* The variables of the contract and of the bots have their types in every state.
THEOREM TypeCorrect == Spec => []TypeOK
<1>1. Init => TypeOK
  BY DEF Init, TypeOK, Idle, NoVote, VoteRecord, BotRecord
<1>2. TypeOK /\ [Next]_vars => TypeOK'
  <2> SUFFICES ASSUME TypeOK, [Next]_vars PROVE TypeOK'
    OBVIOUS
  <2> USE DEF contract
  <2>0. window \in Nat /\ window <= LastBuffer /\ Idle \in BotRecord
    BY DEF TypeOK, Idle, BotRecord
  <2>1. CASE NextWindow
    <3>1. window' \in FirstBuffer..LastBuffer
      BY <2>0, <2>1 DEF TypeOK, NextWindow
    <3>2. bot' \in BotRecord
      BY <2>1 DEF TypeOK, NextWindow, BotRecord
    <3> QED
      BY <2>1, <3>1, <3>2 DEF TypeOK, NextWindow
  <2>2. ASSUME NEW s \in Signers, ProviderStep(s) PROVE TypeOK'
    <3>1. PICK commitHash \in Commits \cup {None} : SubmitAttestation(s, commitHash)
      BY <2>2 DEF ProviderStep, Commits, TypeOK
    <3>2. window % TotalStoredBuffers \in 0..(TotalStoredBuffers - 1) /\ window \in Nat
      BY <2>0, ThirdSlots
    <3>3. [commitHash |-> commitHash, reveal |-> Reveal(s, window)] \in VoteRecord
      BY <3>2, RevealType DEF VoteRecord
    <3> QED
      BY <3>1, <3>2, <3>3 DEF TypeOK, SubmitAttestation
  <2>3. CASE BotWakes
    <3>1. bot' \in BotRecord
      BY <2>0, <2>3 DEF BotWakes, BotRecord
    <3> QED
      BY <2>3, <3>1 DEF TypeOK, BotWakes
  <2>4. ASSUME NEW s \in Signers, BotReads(s) PROVE TypeOK'
    <3>1. GetAttestation(s, bot.round) \in Roots \cup {Zero}
      BY GetAttestationType DEF TypeOK, BotRecord
    <3>2. bot' \in BotRecord
      BY <2>4, <3>1 DEF TypeOK, BotReads, BotRecord
    <3> QED
      BY <2>4, <3>2 DEF TypeOK, BotReads
  <2>5. CASE BotSends
    <3>1. PICK root \in Roots \cup {Zero} :
            pending' = pending \cup {[round |-> bot.round, root |-> root]}
      BY <2>5 DEF BotSends
    <3>2. bot' \in BotRecord /\ bot.round \in Nat
      BY <2>0, <2>5 DEF TypeOK, BotSends, BotRecord
    <3>3. pending' \subseteq [round : Nat, root : Roots \cup {Zero}]
      BY <3>1, <3>2 DEF TypeOK
    <3> QED
      BY <2>5, <3>2, <3>3 DEF TypeOK, BotSends
  <2>6. CASE BotReturns
    <3>1. bot' \in BotRecord
      BY <2>0, <2>6 DEF BotReturns, BotRecord
    <3> QED
      BY <2>6, <3>1 DEF TypeOK, BotReturns
  <2>7. CASE BotRestarts
    <3>1. bot' \in BotRecord
      BY <2>0, <2>7 DEF BotRestarts, BotRecord
    <3> QED
      BY <2>7, <3>1 DEF TypeOK, BotRestarts
  <2>8. ASSUME NEW t \in pending, TransactionMined(t) PROVE TypeOK'
    <3>1. t.round \in Nat /\ t.root \in Roots \cup {Zero}
      BY DEF TypeOK
    <3>2. FinaliseRound(t.round, t.root)
      BY <2>8 DEF TransactionMined
    <3> QED
      BY <2>8, <3>1, <3>2, FinaliseRoundType DEF TypeOK, TransactionMined
  <2>9. ASSUME NEW t \in pending, TransactionLost(t) PROVE TypeOK'
    BY <2>9 DEF TypeOK, TransactionLost
  <2>10. CASE UNCHANGED vars
    BY <2>10 DEF TypeOK, vars
  <2> QED
    BY <2>1, <2>2, <2>3, <2>4, <2>5, <2>6, <2>7, <2>8, <2>9, <2>10 DEF Next, BotStep
<1> QED
  BY <1>1, <1>2, PTL DEF Spec

-----------------------------------------------------------------------------
(* Finalised roots: none is ahead of totalBuffers, so each transaction that  *)
(* takes effect finalises a new round, and overwrites a slot whose root is   *)
(* a week old.                                                               *)

NoneAhead == \A r \in Rounds : finalised[r] # None => r + 3 <= totalBuffers

RootsInv == TypeOK /\ NoneAhead /\ RecentRootsReadable

\* Only a transaction that takes effect changes what the contract has proven.
ProvenUnchanged == UNCHANGED <<totalBuffers, merkleRoots, finalised>>

\* Only a transaction that the contract accepts finalises a round.
LEMMA WhatFinalises ==
  ASSUME TypeOK, [Next]_vars
  PROVE  \/ ProvenUnchanged
         \/ \E t \in pending : TransactionMined(t) /\ Accepts(t.round)
<1>1. ASSUME NEW t \in pending, TransactionMined(t), ~Accepts(t.round)
      PROVE  ProvenUnchanged
  BY <1>1 DEF TransactionMined, FinaliseRound, ProvenUnchanged, contract
<1>2. ASSUME NEW s \in Signers, ProviderStep(s) PROVE ProvenUnchanged
  BY <1>2 DEF ProviderStep, SubmitAttestation, ProvenUnchanged
<1> QED
  BY <1>1, <1>2 DEF Next, BotStep, NextWindow, BotWakes, BotReads, BotSends, BotReturns,
     BotRestarts, TransactionLost, ProvenUnchanged, contract, vars

\* What a transaction that takes effect does.
LEMMA Finalises ==
  ASSUME TypeOK, NEW t \in pending, TransactionMined(t), Accepts(t.round)
  PROVE  /\ t.round \in Nat /\ t.round = window /\ t.round - 3 \in Rounds
         /\ t.round > 3 /\ t.round > totalBuffers
         /\ t.root \in Roots \cup {Zero}
         /\ totalBuffers' = t.round
         /\ merkleRoots' = [merkleRoots EXCEPT ![(t.round - 3) % StoredProofs] = t.root]
         /\ finalised' = [finalised EXCEPT ![t.round - 3] = t.root]
         /\ UNCHANGED <<window, buffers>>
<1>1. FinaliseRound(t.round, t.root) /\ UNCHANGED window
  BY DEF TransactionMined
<1>2. t.round \in Nat /\ t.root \in Roots \cup {Zero} /\ window \in 0..LastBuffer
  BY DEF TypeOK
<1> QED
  BY <1>1, <1>2 DEF FinaliseRound, Accepts, Slot, Rounds

\* Every step keeps the invariant of the roots.
LEMMA RootsInvStep ==
  ASSUME RootsInv, [Next]_vars, TypeOK'
  PROVE  RootsInv'
<1> USE DEF RootsInv
<1>1. CASE ProvenUnchanged
  BY <1>1 DEF ProvenUnchanged, NoneAhead, RecentRootsReadable, Readable, MerkleRoot
<1>2. ASSUME NEW t \in pending, TransactionMined(t), Accepts(t.round)
      PROVE  RootsInv'
  <2> DEFINE q == t.round - 3
  <2>1. /\ q \in Rounds /\ q \in Nat /\ q + 3 > totalBuffers /\ q > 0
        /\ t.root \in Roots \cup {Zero}
        /\ totalBuffers' = q + 3
        /\ merkleRoots' = [merkleRoots EXCEPT ![q % StoredProofs] = t.root]
        /\ finalised' = [finalised EXCEPT ![q] = t.root]
    BY <1>2, Finalises
  <2>2. totalBuffers \in Nat /\ StoredProofs \in Nat \ {0} /\ Rounds \subseteq Nat
    BY DEF TypeOK, Rounds
  <2>3. /\ finalised \in [Rounds -> Roots \cup {Zero, None}]
        /\ merkleRoots \in [0..(StoredProofs - 1) -> Roots \cup {Zero}]
    BY DEF TypeOK
  <2> HIDE DEF q
  <2>4. NoneAhead'
    BY <2>1, <2>2, <2>3 DEF NoneAhead
  <2>5. ASSUME NEW r \in Rounds, finalised'[r] # None, r > totalBuffers' - 3 - StoredProofs
        PROVE  (Readable(r) /\ MerkleRoot(r) = finalised[r])'
    <3>1. CASE r = q
      <4>1. q % StoredProofs \in 0..(StoredProofs - 1)
        BY <2>1, <2>2
      <4> QED
        BY <2>1, <2>2, <2>3, <2>5, <3>1, <4>1 DEF Readable, MerkleRoot
    <3>2. CASE r # q
      <4>1. finalised'[r] = finalised[r] /\ finalised[r] # None
        BY <2>1, <2>3, <2>5, <3>2
      <4>2. r \in Nat /\ r + 3 <= totalBuffers /\ r < q /\ q < r + StoredProofs
        BY <2>1, <2>2, <2>5, <4>1 DEF NoneAhead
      <4>3. r > totalBuffers - 3 - StoredProofs
        BY <2>1, <2>2, <4>2
      <4>4. merkleRoots[r % StoredProofs] = finalised[r]
        BY <4>1, <4>3 DEF RecentRootsReadable, MerkleRoot
      <4>5. r % StoredProofs # q % StoredProofs
        BY <2>1, <2>2, <4>2, DistinctSlots
      <4>6. r % StoredProofs \in 0..(StoredProofs - 1)
        BY <2>2, <4>2
      <4>7. merkleRoots'[r % StoredProofs] = finalised'[r]
        BY <2>1, <2>3, <4>1, <4>4, <4>5, <4>6
      <4> QED
        BY <2>1, <2>2, <2>5, <4>2, <4>7 DEF Readable, MerkleRoot
    <3> QED
      BY <3>1, <3>2
  <2> QED
    BY <2>4, <2>5 DEF RecentRootsReadable
<1> QED
  BY <1>1, <1>2, WhatFinalises

\* The invariant of the roots holds in every state.
LEMMA RootsInvariant == Spec => []RootsInv
<1>1. Init => NoneAhead /\ RecentRootsReadable
  BY DEF Init, NoneAhead, RecentRootsReadable
<1>2. RootsInv /\ [Next]_vars /\ TypeOK' => RootsInv'
  BY RootsInvStep
<1> QED
  BY <1>1, <1>2, TypeCorrect, PTL DEF Spec, RootsInv

\* For a week a finalised root is read back as it was finalised.
THEOREM RecentRootsAreReadable == Spec => []RecentRootsReadable
BY RootsInvariant, PTL DEF RootsInv

\* The root of a round never changes once it is finalised.
THEOREM RoundsFinalisedOnce == Spec => FinalisedOnce
<1>1. RootsInv /\ [Next]_vars =>
        [\A r \in Rounds : finalised[r] # None => finalised'[r] = finalised[r]]_vars
  <2> SUFFICES ASSUME RootsInv, [Next]_vars, NEW r \in Rounds, finalised[r] # None
               PROVE  finalised'[r] = finalised[r]
    OBVIOUS
  <2>1. CASE ProvenUnchanged
    BY <2>1 DEF ProvenUnchanged
  <2>2. ASSUME NEW t \in pending, TransactionMined(t), Accepts(t.round)
        PROVE  finalised'[r] = finalised[r]
    <3>1. t.round > totalBuffers /\ t.round \in Nat
          /\ finalised' = [finalised EXCEPT ![t.round - 3] = t.root]
      BY <2>2, Finalises DEF RootsInv
    <3>2. r + 3 <= totalBuffers /\ totalBuffers \in Nat /\ r \in Nat
      BY DEF RootsInv, NoneAhead, TypeOK, Rounds
    <3>3. r # t.round - 3
      BY <3>1, <3>2
    <3> QED
      BY <3>1, <3>3 DEF RootsInv, TypeOK
  <2> QED
    BY <2>1, <2>2, WhatFinalises DEF RootsInv
<1> QED
  BY <1>1, RootsInvariant, PTL DEF Spec, FinalisedOnce

-----------------------------------------------------------------------------
(* Majorities.  What the bot has read of a window, and what its transactions *)
(* of that window say, still holds of the votes: within a window a vote only *)
(* adds to what opens, since it takes the slot of three windows ago.         *)

Attesters(root) == {s \in Signers : GetAttestation(s, window) = root}

Majority(S) == 2 * Cardinality(S) > Cardinality(Signers)

ReadHolds ==
  bot.stage = "reading" /\ bot.round = window =>
    \A s \in Signers : bot.read[s] \in Roots => GetAttestation(s, window) = bot.read[s]

PendingHolds ==
  \A t \in pending : t.round = window /\ t.root \in Roots => Majority(Attesters(t.root))

NoneEarly == bot.round <= window /\ \A t \in pending : t.round <= window

VotesInv == TypeOK /\ ReadHolds /\ PendingHolds /\ NoneEarly

\* What has a majority in it is a majority.
LEMMA LargerMajority ==
  ASSUME NEW S, NEW T \in SUBSET Signers, S \subseteq T, Majority(S)
  PROVE  Majority(T)
<1>1. IsFiniteSet(T) /\ IsFiniteSet(S) /\ Cardinality(S) <= Cardinality(T)
  BY FS_Subset
<1>2. Cardinality(S) \in Nat /\ Cardinality(T) \in Nat /\ Cardinality(Signers) \in Nat
  BY <1>1, FS_CardinalityType
<1> QED
  BY <1>1, <1>2 DEF Majority

\* A root is confirmed by a majority.
LEMMA ConfirmedIsMajority ==
  ASSUME NEW root, Confirmed(root)
  PROVE  Majority(Candidates(root))
<1>1. Candidates(root) \subseteq Signers
  BY DEF Candidates
<1>2. Cardinality(Candidates(root)) \in Nat /\ Cardinality(Signers) \in Nat
  BY <1>1, FS_Subset, FS_CardinalityType
<1>3. \A c \in Nat, n \in Nat : c - 1 >= (n + 1) \div 2 => 2 * c > n
  OBVIOUS
<1> QED
  BY <1>2, <1>3 DEF Majority, Confirmed, VoteThreshold

\* Nothing but a vote or a new window changes what getAttestation returns.
LEMMA SameVotes ==
  ASSUME UNCHANGED <<window, buffers>>, NEW s \in Signers
  PROVE  GetAttestation(s, window)' = GetAttestation(s, window)
BY DEF GetAttestation, Attests, VotedFor, Vote

\* A vote takes away nothing that opens in its window.
LEMMA VotesAdd ==
  ASSUME TypeOK, NEW a \in Signers, ProviderStep(a), NEW s \in Signers,
         GetAttestation(s, window) \in Roots
  PROVE  GetAttestation(s, window)' = GetAttestation(s, window)
<1>1. PICK vote :
        /\ buffers' = [buffers EXCEPT
             ![a].latestVote = window, ![a].votes[window % TotalStoredBuffers] = vote]
        /\ window' = window
  BY DEF ProviderStep, SubmitAttestation
<1>2. window \in Nat
  BY DEF TypeOK
<1>3. /\ buffers[s].votes \in [0..(TotalStoredBuffers - 1) -> VoteRecord]
      /\ buffers \in [Signers ->
           [votes : [0..(TotalStoredBuffers - 1) -> VoteRecord], latestVote : Nat]]
  BY DEF TypeOK
<1>4. ASSUME NEW b \in Int, b % TotalStoredBuffers # window % TotalStoredBuffers
      PROVE  Vote(s, b)' = Vote(s, b)
  <2>1. b % TotalStoredBuffers \in 0..(TotalStoredBuffers - 1)
    BY ThirdSlots
  <2> QED
    BY <1>1, <1>3, <1>4, <2>1 DEF Vote
<1>5. Vote(s, window - 1)' = Vote(s, window - 1) /\ Vote(s, window - 2)' = Vote(s, window - 2)
  <2>1. /\ (window - 1) % TotalStoredBuffers # window % TotalStoredBuffers
        /\ (window - 2) % TotalStoredBuffers # window % TotalStoredBuffers
    BY <1>2, ThirdSlots
  <2> QED
    BY <1>1, <1>2, <1>4, <2>1
<1>6. Attests(s, window)
  BY DEF GetAttestation
<1>7. VotedFor(s, window)'
  <2>1. buffers'[s].latestVote \in {buffers[s].latestVote, window}
    BY <1>1, <1>3
  <2> QED
    BY <1>1, <1>2, <1>6, <2>1 DEF Attests, VotedFor
<1>8. Attests(s, window)'
  BY <1>1, <1>5, <1>6, <1>7 DEF Attests
<1> QED
  BY <1>1, <1>5, <1>6, <1>8 DEF GetAttestation

\* While nothing opened is taken away, reads and transactions stay good.
LEMMA StillHolds ==
  ASSUME VotesInv, window' = window,
         \A s \in Signers : GetAttestation(s, window) \in Roots =>
                              GetAttestation(s, window)' = GetAttestation(s, window)
  PROVE  /\ bot' = bot => ReadHolds'
         /\ pending' \subseteq pending => PendingHolds'
<1> USE DEF VotesInv
<1>1. bot' = bot => ReadHolds'
  BY DEF ReadHolds
<1>2. ASSUME pending' \subseteq pending PROVE PendingHolds'
  <2> SUFFICES ASSUME NEW t \in pending', t.round = window, t.root \in Roots
               PROVE  Majority(Attesters(t.root)')
    BY DEF PendingHolds, Majority
  <2>1. Majority(Attesters(t.root))
    BY <1>2 DEF PendingHolds
  <2>2. Attesters(t.root) \subseteq Attesters(t.root)' /\ Attesters(t.root)' \subseteq Signers
    BY DEF Attesters
  <2> QED
    BY <2>1, <2>2, LargerMajority
<1> QED
  BY <1>1, <1>2

\* Every step keeps the invariant of the votes.
LEMMA VotesInvStep ==
  ASSUME VotesInv, [Next]_vars, TypeOK'
  PROVE  VotesInv'
<1> USE DEF VotesInv
<1>0. /\ window \in Nat /\ bot.round \in Nat
      /\ \A t \in pending : t.round \in Nat
  BY DEF TypeOK, BotRecord
<1>1. CASE NextWindow
  <2>1. /\ window' = window + 1 /\ pending' = pending
        /\ bot'.round = bot.round
    BY <1>1 DEF NextWindow, TypeOK, BotRecord
  <2>2. NoneEarly'
    BY <1>0, <2>1 DEF NoneEarly
  <2>3. bot'.round # window' /\ \A t \in pending' : t.round # window'
    BY <1>0, <2>1 DEF NoneEarly
  <2> QED
    BY <2>2, <2>3 DEF ReadHolds, PendingHolds
<1>2. ASSUME NEW a \in Signers, ProviderStep(a) PROVE VotesInv'
  <2>1. UNCHANGED <<window, bot, pending>>
    BY <1>2 DEF ProviderStep, SubmitAttestation
  <2>2. ReadHolds' /\ PendingHolds'
    BY <1>2, <2>1, VotesAdd, StillHolds
  <2> QED
    BY <2>1, <2>2 DEF NoneEarly
<1>3. ASSUME UNCHANGED <<window, contract, pending>>, bot' = bot \/ bot'.stage # "reading",
             bot'.round \in {0, bot.round}
      PROVE  VotesInv'
  <2>1. ReadHolds' /\ PendingHolds'
    BY <1>3, SameVotes, StillHolds DEF contract, ReadHolds
  <2> QED
    BY <1>0, <1>3, <2>1 DEF NoneEarly
<1>4. CASE BotWakes
  <2>1. UNCHANGED <<window, contract, pending>> /\ bot'.round = window
        /\ \A s \in Signers : bot'.read[s] = None
    BY <1>4 DEF BotWakes, Idle
  <2>2. PendingHolds'
    BY <2>1, SameVotes, StillHolds DEF contract
  <2> QED
    BY <1>0, <2>1, <2>2 DEF ReadHolds, NoneEarly
<1>5. ASSUME NEW a \in Signers, BotReads(a) PROVE VotesInv'
  <2>1. /\ UNCHANGED <<window, contract, pending>>
        /\ bot.stage = "reading" /\ bot'.round = bot.round
        /\ bot'.read = [bot.read EXCEPT ![a] = GetAttestation(a, bot.round)]
    BY <1>5 DEF BotReads, TypeOK, BotRecord
  <2>2. PendingHolds'
    BY <2>1, SameVotes, StillHolds DEF contract
  <2>3. ASSUME bot.round = window, NEW s \in Signers, bot'.read[s] \in Roots
        PROVE  GetAttestation(s, window)' = bot'.read[s]
    <3>1. GetAttestation(s, window)' = GetAttestation(s, window)
      BY <2>1, SameVotes DEF contract
    <3>2. bot.read \in [Signers -> Roots \cup {Zero, None}]
      BY DEF TypeOK, BotRecord
    <3> QED
      BY <2>1, <2>3, <3>1, <3>2 DEF ReadHolds
  <2>4. ReadHolds'
    BY <2>1, <2>3 DEF ReadHolds
  <2> QED
    BY <2>1, <2>2, <2>4 DEF NoneEarly
<1>6. CASE BotSends
  <2>1. PICK root \in Roots \cup {Zero} :
          /\ root \in Roots => Confirmed(root)
          /\ pending' = pending \cup {[round |-> bot.round, root |-> root]}
    BY <1>6 DEF BotSends
  <2>2. /\ UNCHANGED <<window, contract>> /\ bot.stage = "reading"
        /\ bot'.stage = "sent" /\ bot'.round = bot.round
    BY <1>6 DEF BotSends, Idle
  <2>3. ASSUME NEW t \in pending', t.round = window, t.root \in Roots
        PROVE  Majority(Attesters(t.root)')
    <3>1. Majority(Attesters(t.root))
      <4>1. CASE t \in pending
        BY <2>3, <4>1 DEF PendingHolds
      <4>2. CASE t = [round |-> bot.round, root |-> root]
        <5>1. Candidates(root) \subseteq Attesters(root)
          BY <2>2, <2>3, <4>2 DEF ReadHolds, Candidates, Attesters
        <5>2. Majority(Candidates(root)) /\ Attesters(root) \subseteq Signers
          BY <2>1, <2>3, <4>2, ConfirmedIsMajority DEF Attesters
        <5> QED
          BY <4>2, <5>1, <5>2, LargerMajority
      <4> QED
        BY <2>1, <4>1, <4>2
    <3>2. Attesters(t.root)' = Attesters(t.root)
      BY <2>2, SameVotes DEF Attesters, contract
    <3> QED
      BY <3>1, <3>2
  <2>4. PendingHolds'
    BY <2>2, <2>3 DEF PendingHolds, Majority
  <2> QED
    BY <2>1, <2>2, <2>4 DEF ReadHolds, NoneEarly
<1>7. ASSUME UNCHANGED <<window, buffers, bot>>, pending' \subseteq pending
      PROVE  VotesInv'
  <2>1. ReadHolds' /\ PendingHolds'
    BY <1>7, SameVotes, StillHolds
  <2> QED
    BY <1>7, <2>1 DEF NoneEarly
<1>8. ASSUME NEW t \in pending, TransactionMined(t) PROVE VotesInv'
  BY <1>7, <1>8 DEF TransactionMined, FinaliseRound, contract
<1>9. ASSUME NEW t \in pending, TransactionLost(t) PROVE VotesInv'
  BY <1>7, <1>9 DEF TransactionLost, contract
<1>10. CASE UNCHANGED vars
  BY <1>7, <1>10 DEF vars, contract
<1>11. CASE BotReturns \/ BotRestarts
  BY <1>3, <1>11 DEF BotReturns, BotRestarts, Idle
<1> QED
  BY <1>1, <1>2, <1>4, <1>5, <1>6, <1>8, <1>9, <1>10, <1>11 DEF Next, BotStep

\* The invariant of the votes holds in every state.
LEMMA VotesInvariant == Spec => []VotesInv
<1>1. Init => ReadHolds /\ PendingHolds /\ NoneEarly
  BY DEF Init, Idle, ReadHolds, PendingHolds, NoneEarly
<1>2. VotesInv /\ [Next]_vars /\ TypeOK' => VotesInv'
  BY VotesInvStep
<1> QED
  BY <1>1, <1>2, TypeCorrect, PTL DEF Spec, VotesInv

\* A root that is not zero is finalised only while the votes of more than half
\* of the signers open it.
THEOREM FinalisedRootsHaveMajority == Spec => FinalisedByMajority
<1>1. VotesInv /\ [Next]_vars =>
        [\A r \in Rounds :
           (finalised[r] = None /\ finalised'[r] \in Roots) =>
             2 * Cardinality({s \in Signers : GetAttestation(s, r + 3) = finalised'[r]})
               > Cardinality(Signers)]_vars
  <2> SUFFICES ASSUME VotesInv, [Next]_vars, NEW r \in Rounds,
                      finalised[r] = None, finalised'[r] \in Roots
               PROVE  2 * Cardinality({s \in Signers : GetAttestation(s, r + 3) = finalised'[r]})
                        > Cardinality(Signers)
    OBVIOUS
  <2>1. finalised'[r] # finalised[r]
    OBVIOUS
  <2>2. PICK t \in pending : TransactionMined(t) /\ Accepts(t.round)
    BY <2>1, WhatFinalises DEF VotesInv, ProvenUnchanged
  <2>3. /\ t.round = window /\ t.round \in Nat
        /\ finalised' = [finalised EXCEPT ![t.round - 3] = t.root]
    BY <2>2, Finalises DEF VotesInv
  <2>4. r = t.round - 3 /\ finalised'[r] = t.root
    BY <2>1, <2>3 DEF VotesInv, TypeOK
  <2>5. r + 3 = window
    BY <2>3, <2>4
  <2>6. Majority(Attesters(t.root))
    BY <2>3, <2>4 DEF VotesInv, PendingHolds
  <2> QED
    BY <2>4, <2>5, <2>6 DEF Majority, Attesters
<1> QED
  BY <1>1, VotesInvariant, PTL DEF Spec, FinalisedByMajority

-----------------------------------------------------------------------------
(* Stale votes.  A commit is kept in the slot of the buffer it was sent in,  *)
(* and what a provider revealed last is its commit of the buffer before.     *)

CommitsInSlots ==
  \A s \in Signers, i \in 0..(TotalStoredBuffers - 1) :
    LET commit == buffers[s].votes[i].commitHash
    IN  commit # None =>
          /\ commit.buffer % TotalStoredBuffers = i
          /\ commit.buffer <= buffers[s].latestVote

LatestReveal ==
  \A s \in Signers :
    LET latest == buffers[s].latestVote
        reveal == Vote(s, latest).reveal
    IN  /\ latest <= window
        /\ reveal # None => reveal.buffer = latest - 1

StaleInv == TypeOK /\ CommitsInSlots /\ LatestReveal

\* Of the commits that the slot of b - 2 can hold, the one of b - 2 is the last.
LEMMA EarlierInSlot ==
  ASSUME NEW b \in Nat, NEW c \in Nat, c <= b,
         c % TotalStoredBuffers = (b - 2) % TotalStoredBuffers
  PROVE  c = b - 2 \/ c <= b - 5
BY DEF TotalStoredBuffers

\* A vote of provider a fills the slot of the window and leaves the others.
LEMMA VoteFills ==
  ASSUME TypeOK, NEW a \in Signers, NEW commit \in Commits \cup {None},
         SubmitAttestation(a, commit)
  PROVE  /\ window \in Nat /\ window' = window
         /\ \A s \in Signers \ {a} : buffers'[s] = buffers[s]
         /\ buffers'[a].latestVote = window
         /\ \A i \in 0..(TotalStoredBuffers - 1) :
              buffers'[a].votes[i] =
                IF i = window % TotalStoredBuffers
                THEN [commitHash |-> commit, reveal |-> Reveal(a, window)]
                ELSE buffers[a].votes[i]
<1>1. buffers \in [Signers ->
        [votes : [0..(TotalStoredBuffers - 1) -> VoteRecord], latestVote : Nat]]
      /\ window \in Nat
  BY DEF TypeOK
<1>2. window' = window /\ buffers' = [buffers EXCEPT
        ![a].latestVote = window,
        ![a].votes[window % TotalStoredBuffers] =
           [commitHash |-> commit, reveal |-> Reveal(a, window)]]
  BY DEF SubmitAttestation
<1> QED
  BY <1>1, <1>2

\* Every step keeps the invariant of stale votes.
LEMMA StaleInvStep ==
  ASSUME StaleInv, [Next]_vars, TypeOK'
  PROVE  StaleInv'
<1> USE DEF StaleInv
<1>0. /\ window \in Nat
      /\ \A s \in Signers : buffers[s].latestVote \in Nat
  BY DEF TypeOK
<1>1. CASE UNCHANGED buffers /\ window' >= window
  <2>1. CommitsInSlots'
    BY <1>1 DEF CommitsInSlots
  <2>2. LatestReveal'
    <3> SUFFICES ASSUME NEW s \in Signers
                 PROVE  /\ buffers[s].latestVote <= window'
                        /\ Vote(s, buffers[s].latestVote).reveal # None =>
                             Vote(s, buffers[s].latestVote).reveal.buffer
                               = buffers[s].latestVote - 1
      BY <1>1 DEF LatestReveal, Vote
    <3> QED
      BY <1>0, <1>1, TypeOK' DEF LatestReveal, TypeOK
  <2> QED
    BY <2>1, <2>2
<1>2. ASSUME NEW a \in Signers, NEW commit \in {None} \cup [root : Roots, buffer : {window}],
             SubmitAttestation(a, commit)
      PROVE  StaleInv'
  <2>0. commit \in Commits \cup {None}
    BY <1>0 DEF Commits
  <2>1. /\ window' = window /\ buffers'[a].latestVote = window
        /\ \A s \in Signers \ {a} : buffers'[s] = buffers[s]
        /\ \A i \in 0..(TotalStoredBuffers - 1) :
             buffers'[a].votes[i] =
               IF i = window % TotalStoredBuffers
               THEN [commitHash |-> commit, reveal |-> Reveal(a, window)]
               ELSE buffers[a].votes[i]
    BY <1>2, <2>0, VoteFills
  <2>2. ASSUME NEW s \in Signers, NEW i \in 0..(TotalStoredBuffers - 1),
               buffers'[s].votes[i].commitHash # None
        PROVE  /\ buffers'[s].votes[i].commitHash.buffer % TotalStoredBuffers = i
               /\ buffers'[s].votes[i].commitHash.buffer <= buffers'[s].latestVote
    <3>1. CASE s # a
      BY <2>1, <2>2, <3>1 DEF CommitsInSlots
    <3>2. CASE s = a /\ i # window % TotalStoredBuffers
      <4>1. buffers'[a].votes[i].commitHash = buffers[a].votes[i].commitHash
        BY <2>1, <3>2
      <4>2. /\ buffers[a].votes[i].commitHash \in Commits
            /\ buffers[a].votes[i].commitHash.buffer % TotalStoredBuffers = i
            /\ buffers[a].votes[i].commitHash.buffer <= buffers[a].latestVote
        <5>1. buffers[a].votes[i].commitHash # None
          BY <2>2, <3>2, <4>1
        <5>2. buffers[a].votes \in [0..(TotalStoredBuffers - 1) -> VoteRecord]
          BY DEF TypeOK
        <5> QED
          BY <5>1, <5>2 DEF CommitsInSlots, VoteRecord
      <4>3. buffers[a].latestVote <= window
        BY DEF LatestReveal
      <4>4. buffers[a].votes[i].commitHash.buffer \in Nat
        BY <4>2 DEF Commits
      <4> QED
        BY <1>0, <2>1, <3>2, <4>1, <4>2, <4>3, <4>4
    <3>3. CASE s = a /\ i = window % TotalStoredBuffers
      <4>1. buffers'[a].votes[i].commitHash = commit /\ commit.buffer = window
        BY <2>1, <2>2, <3>3
      <4> QED
        BY <1>0, <2>1, <3>3, <4>1
    <3> QED
      BY <3>1, <3>2, <3>3
  <2>3. ASSUME NEW s \in Signers
        PROVE  /\ buffers'[s].latestVote <= window
               /\ LET reveal == buffers'[s].votes[buffers'[s].latestVote
                                                    % TotalStoredBuffers].reveal
                  IN  reveal # None => reveal.buffer = buffers'[s].latestVote - 1
    <3>1. CASE s # a
      BY <2>1, <3>1 DEF LatestReveal, Vote
    <3>2. CASE s = a
      <4>1. window % TotalStoredBuffers \in 0..(TotalStoredBuffers - 1)
        BY <1>0, ThirdSlots
      <4>2. buffers'[a].votes[window % TotalStoredBuffers].reveal = Reveal(a, window)
        BY <2>1, <4>1
      <4>3. Reveal(a, window) # None => Reveal(a, window).buffer = window - 1
        BY DEF Reveal
      <4> QED
        BY <1>0, <2>1, <3>2, <4>2, <4>3
    <3> QED
      BY <3>1, <3>2
  <2>4. CommitsInSlots'
    BY <2>2 DEF CommitsInSlots
  <2>5. LatestReveal'
    BY <2>1, <2>3 DEF LatestReveal, Vote
  <2> QED
    BY <2>4, <2>5
<1>3. ASSUME NEW a \in Signers, ProviderStep(a) PROVE StaleInv'
  BY <1>2, <1>3 DEF ProviderStep
<1>4. CASE NextWindow
  BY <1>0, <1>1, <1>4 DEF NextWindow, contract
<1>5. ASSUME NEW t \in pending, TransactionMined(t) PROVE StaleInv'
  BY <1>0, <1>1, <1>5 DEF TransactionMined, FinaliseRound, contract
<1>6. ASSUME NEW t \in pending, TransactionLost(t) PROVE StaleInv'
  BY <1>0, <1>1, <1>6 DEF TransactionLost, contract
<1>7. CASE BotStep \/ UNCHANGED vars
  BY <1>0, <1>1, <1>7 DEF BotStep, BotWakes, BotReads, BotSends, BotReturns, BotRestarts,
                          contract, vars
<1> QED
  BY <1>3, <1>4, <1>5, <1>6, <1>7 DEF Next

\* The invariant of stale votes holds in every state.
LEMMA StaleInvariant == Spec => []StaleInv
<1>1. Init => CommitsInSlots /\ LatestReveal
  <2> SUFFICES ASSUME Init PROVE CommitsInSlots /\ LatestReveal
    OBVIOUS
  <2>1. \A s \in Signers : /\ buffers[s].latestVote = 0
                           /\ \A i \in 0..(TotalStoredBuffers - 1) : buffers[s].votes[i] = NoVote
    BY DEF Init
  <2>2. 0 % TotalStoredBuffers \in 0..(TotalStoredBuffers - 1)
    BY ThirdSlots
  <2>3. window \in Nat
    BY DEF Init
  <2> QED
    BY <2>1, <2>2, <2>3 DEF CommitsInSlots, LatestReveal, Vote, NoVote
<1>2. StaleInv /\ [Next]_vars /\ TypeOK' => StaleInv'
  BY StaleInvStep
<1> QED
  BY <1>1, <1>2, TypeCorrect, PTL DEF Spec, StaleInv

\* The vote that counts in a window is the commit of two windows ago, but for a
\* provider that votes again in that window after two missed ones.
THEOREM StaleVotesOnlyAfterGap == Spec => []StaleOnlyAfterGap
<1>1. StaleInv => StaleOnlyAfterGap
  <2> SUFFICES ASSUME StaleInv, NEW s \in Signers, Attests(s, window)
               PROVE  LET committed == Vote(s, window - 2).commitHash.buffer
                      IN  \/ committed = window - 2
                          \/ committed <= window - 5 /\ buffers[s].latestVote = window
    BY DEF StaleOnlyAfterGap
  <2> USE DEF StaleInv
  <2> DEFINE commit == Vote(s, window - 2).commitHash
             latest == buffers[s].latestVote
  <2>1. window \in Nat /\ latest \in Nat /\ latest <= window /\ latest >= window - 1
    BY DEF TypeOK, LatestReveal, Attests, VotedFor
  <2>2. /\ commit # None /\ commit = Vote(s, window - 1).reveal
        /\ commit \in Commits
    BY <2>1, VoteType DEF Attests, VoteRecord
  <2>3. /\ commit.buffer \in Nat
        /\ commit.buffer % TotalStoredBuffers = (window - 2) % TotalStoredBuffers
        /\ commit.buffer <= latest
    <3>1. (window - 2) % TotalStoredBuffers \in 0..(TotalStoredBuffers - 1)
      BY <2>1, ThirdSlots
    <3> QED
      BY <2>2, <3>1 DEF Commits, CommitsInSlots, Vote
  <2>4. latest = window - 1 => commit.buffer = window - 2
    BY <2>1, <2>2 DEF LatestReveal
  <2> HIDE DEF commit, latest
  <2>5. commit.buffer <= window
    BY <2>1, <2>3
  <2>6. commit.buffer = window - 2 \/ commit.buffer <= window - 5
    BY <2>1, <2>3, <2>5, EarlierInSlot
  <2>7. \/ commit.buffer = window - 2
        \/ commit.buffer <= window - 5 /\ latest = window
    BY <2>1, <2>3, <2>4, <2>6
  <2> QED
    BY <2>7 DEF commit, latest
<1> QED
  BY <1>1, StaleInvariant, PTL
=============================================================================
