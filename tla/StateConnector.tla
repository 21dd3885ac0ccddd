--------------------------- MODULE StateConnector ---------------------------
(***************************************************************************)
(* The StateConnector contract, which keeps the votes of each attestation  *)
(* provider in a ring of three and the finalised Merkle roots in a ring of *)
(* a week, and the bot that reads the revealed roots and finalises a round *)
(* in each window.                                                         *)
(*                                                                         *)
(* A commit hash is the root and the buffer it was sent in, which stands   *)
(* for its random number; the hash of an abstention, which nothing opens,  *)
(* is None.                                                                *)
(***************************************************************************)
EXTENDS Integers, FiniteSets

CONSTANTS
  Signers,      \* the attestation providers, each voting from its own address
  Roots,        \* the Merkle roots that are not zero
  Zero,         \* ZERO_ROOT
  None,         \* no commit, no reveal, not finalised, not read
  StoredProofs, \* TOTAL_STORED_PROOFS
  FirstBuffer,  \* the window in which the contract is deployed
  LastBuffer,   \* bound: the last window
  MaxPending    \* bound: the transactions of the bot that are not mined

ASSUMPTION ConnectorAssumption ==
  /\ IsFiniteSet(Signers)
  /\ Zero \notin Roots /\ None \notin Roots \cup {Zero}
  /\ StoredProofs \in Nat \ {0}
  /\ LastBuffer \in Nat /\ FirstBuffer \in 0..LastBuffer

VARIABLES
  window,       \* (block.timestamp - BUFFER_TIMESTAMP_OFFSET) / BUFFER_WINDOW
  buffers,      \* the votes of each signer and its latest one
  totalBuffers, \* the buffer proven last
  merkleRoots,  \* the ring of proven roots
  finalised,    \* ghost: the root each round was finalised with
  bot,          \* what the bot is doing
  pending       \* its transactions that are not mined

contract == <<buffers, totalBuffers, merkleRoots, finalised>>
vars == <<window, contract, bot, pending>>

TotalStoredBuffers == 3
Commits == [root : Roots, buffer : Nat]
Rounds == 0..LastBuffer

NoVote == [commitHash |-> None, reveal |-> None]
Idle == [stage |-> "idle", done |-> FALSE, round |-> 0, read |-> [s \in Signers |-> None]]

Init ==
  /\ window = FirstBuffer
  /\ buffers = [s \in Signers |->
       [votes |-> [i \in 0..(TotalStoredBuffers - 1) |-> NoVote], latestVote |-> 0]]
  /\ totalBuffers = 0
  /\ merkleRoots = [i \in 0..(StoredProofs - 1) |-> Zero]
  /\ finalised = [r \in Rounds |-> None]
  /\ bot = Idle
  /\ pending = {}

Vote(s, b) == buffers[s].votes[b % TotalStoredBuffers]

-----------------------------------------------------------------------------
(* Votes.                                                                    *)

\* What a provider reveals in buffer b: what it has committed in b-1.  A commit
\* it would not open is as good as an abstention.
Reveal(s, b) ==
  LET commit == Vote(s, b - 1).commitHash
  IN  IF commit # None /\ commit.buffer = b - 1 THEN commit ELSE None

\* submitAttestation in the current window.
SubmitAttestation(s, commitHash) ==
  /\ buffers' = [buffers EXCEPT
       ![s].latestVote = window,
       ![s].votes[window % TotalStoredBuffers] =
          [commitHash |-> commitHash, reveal |-> Reveal(s, window)]]
  /\ UNCHANGED <<window, totalBuffers, merkleRoots, finalised, bot, pending>>

\* Mutation of VotedFor: any vote is relevant.
VotedForEver(s, b) == buffers[s].latestVote > 0

\* latestVote >= prevBufferNumber
VotedFor(s, b) == buffers[s].latestVote >= b - 1

\* getAttestation does not revert: the commit opens.
Attests(s, b) ==
  /\ b > 1
  /\ VotedFor(s, b)
  /\ Vote(s, b - 2).commitHash # None
  /\ Vote(s, b - 2).commitHash = Vote(s, b - 1).reveal

\* What the bot makes of getAttestation: the zero root when it reverts.
GetAttestation(s, b) == IF Attests(s, b) THEN Vote(s, b - 1).reveal.root ELSE Zero

-----------------------------------------------------------------------------
(* Finalised roots.                                                          *)

\* Mutation of Accepts: a second time.
AcceptsAgain(b) == b > 3 /\ b = window

Accepts(b) ==
  /\ b > 3
  /\ b = window
  /\ b > totalBuffers

\* Mutation of Slot: by the buffer number.
SlotOfBuffer(b) == b % StoredProofs

\* Where the root of the round that buffer b finalises is stored.
Slot(b) == (b - 3) % StoredProofs

\* finaliseRound from the finalizing bot: it takes effect or reverts.
FinaliseRound(b, root) ==
  IF Accepts(b)
  THEN /\ totalBuffers' = b
       /\ merkleRoots' = [merkleRoots EXCEPT ![Slot(b)] = root]
       /\ finalised' = [finalised EXCEPT ![b - 3] = root]
       /\ UNCHANGED buffers
  ELSE UNCHANGED contract

\* The requirements of merkleRoot, and its result.
Readable(r) ==
  /\ totalBuffers >= 3
  /\ r <= totalBuffers - 3
  /\ r < StoredProofs \/ r > totalBuffers - 3 - StoredProofs

MerkleRoot(r) == merkleRoots[r % StoredProofs]

-----------------------------------------------------------------------------
(* The bot.                                                                  *)

\* done: latestFinalizedRound is the current round.
BotSleeps == bot.stage = "idle"

\* A new window: the bot starts to ask for the votes.
BotWakes ==
  /\ BotSleeps
  /\ ~bot.done
  /\ bot' = [Idle EXCEPT !.stage = "reading", !.round = window]
  /\ UNCHANGED <<window, contract, pending>>

\* One awaited call of getAttestation.
BotReads(s) ==
  /\ bot.stage = "reading"
  /\ bot.read[s] = None
  /\ bot' = [bot EXCEPT !.read[s] = GetAttestation(s, bot.round)]
  /\ UNCHANGED <<window, contract, pending>>

Candidates(root) == {s \in Signers : bot.read[s] = root}

\* Math.ceil(signers.length / 2)
VoteThreshold == (Cardinality(Signers) + 1) \div 2

\* Mutation of Confirmed: half of the signers will do.
ConfirmedByHalf(root) == 2 * Cardinality(Candidates(root)) >= Cardinality(Signers)

\* The counter of a root is one less than its votes.
Confirmed(root) == Cardinality(Candidates(root)) - 1 >= VoteThreshold

\* All votes are read: the transaction is sent, with the confirmed root.
BotSends ==
  /\ bot.stage = "reading"
  /\ \A s \in Signers : bot.read[s] # None
  /\ Cardinality(pending) < MaxPending
  /\ \E root \in Roots \cup {Zero} :
       /\ IF \E r \in Roots : Confirmed(r) THEN root \in Roots /\ Confirmed(root)
          ELSE root = Zero
       /\ pending' = pending \cup {[round |-> bot.round, root |-> root]}
  /\ bot' = [Idle EXCEPT !.stage = "sent", !.round = bot.round]
  /\ UNCHANGED <<window, contract>>

\* A receipt or an error: the round counts as finalised either way.
BotReturns ==
  /\ bot.stage = "sent"
  /\ bot' = [Idle EXCEPT !.done = (bot.round = window)]
  /\ UNCHANGED <<window, contract, pending>>

\* The bot is started again at any moment.
BotRestarts ==
  /\ bot # Idle
  /\ bot' = Idle
  /\ UNCHANGED <<window, contract, pending>>

TransactionMined(t) ==
  /\ FinaliseRound(t.round, t.root)
  /\ pending' = pending \ {t}
  /\ UNCHANGED <<window, bot>>

TransactionLost(t) ==
  /\ pending' = pending \ {t}
  /\ UNCHANGED <<window, contract, bot>>

NextWindow ==
  /\ window < LastBuffer
  /\ window' = window + 1
  /\ bot' = [bot EXCEPT !.done = FALSE]
  /\ UNCHANGED <<contract, pending>>

-----------------------------------------------------------------------------
ProviderStep(s) ==
  \E commitHash \in {None} \cup [root : Roots, buffer : {window}] :
    SubmitAttestation(s, commitHash)

BotStep ==
  \/ BotWakes
  \/ \E s \in Signers : BotReads(s)
  \/ BotSends
  \/ BotReturns
  \/ BotRestarts

Next ==
  \/ NextWindow
  \/ \E s \in Signers : ProviderStep(s)
  \/ BotStep
  \/ \E t \in pending : TransactionMined(t)
  \/ \E t \in pending : TransactionLost(t)

Spec == Init /\ [][Next]_vars

-----------------------------------------------------------------------------
(* What the contract and the bot promise.                                    *)

VoteRecord == [commitHash : Commits \cup {None}, reveal : Commits \cup {None}]

BotRecord ==
  [stage : {"idle", "reading", "sent"}, done : BOOLEAN, round : Nat,
   read : [Signers -> Roots \cup {Zero, None}]]

\* The types of the variables.
TypeOK ==
  /\ window \in FirstBuffer..LastBuffer
  /\ buffers \in [Signers ->
       [votes : [0..(TotalStoredBuffers - 1) -> VoteRecord], latestVote : Nat]]
  /\ totalBuffers \in Nat
  /\ merkleRoots \in [0..(StoredProofs - 1) -> Roots \cup {Zero}]
  /\ finalised \in [Rounds -> Roots \cup {Zero, None}]
  /\ bot \in BotRecord
  /\ pending \subseteq [round : Nat, root : Roots \cup {Zero}]

\* For a week a finalised root is read back as it was finalised, whatever
\* rounds around it are missed: merkleRoot over the ring.
RecentRootsReadable ==
  \A r \in Rounds :
    finalised[r] # None /\ r > totalBuffers - 3 - StoredProofs =>
      Readable(r) /\ MerkleRoot(r) = finalised[r]

\* The root of a round never changes: restarts of the bot, late transactions
\* and second transactions for a window do not finalise it again.
FinalisedOnce ==
  [][\A r \in Rounds : finalised[r] # None => finalised'[r] = finalised[r]]_vars

\* A root that is not zero is finalised only while the votes of more than half
\* of the signers open it, however late it is mined after the bot has read.
FinalisedByMajority ==
  [][\A r \in Rounds :
       (finalised[r] = None /\ finalised'[r] \in Roots) =>
         2 * Cardinality({s \in Signers : GetAttestation(s, r + 3) = finalised'[r]})
           > Cardinality(Signers)]_vars

\* The vote that counts in a window is the commit of two windows ago, but for a
\* provider that has missed the last two windows and votes again: the slots of
\* its ring still hold a commit of an earlier round, and what opened it.
StaleOnlyAfterGap ==
  \A s \in Signers :
    Attests(s, window) =>
      LET committed == Vote(s, window - 2).commitHash.buffer
      IN  \/ committed = window - 2
          \/ committed <= window - 5 /\ buffers[s].latestVote = window
=============================================================================
