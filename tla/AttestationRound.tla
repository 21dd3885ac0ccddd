-------------------------- MODULE AttestationRound --------------------------
(***************************************************************************)
(* The life of the attestation rounds of one attestation client:           *)
(* src/src/attester/AttestationRound.ts, driven by the timers that         *)
(* AttestationRoundManager.getRoundOrCreateIt schedules.                   *)
(*                                                                         *)
(* Round r collects requests in voting window r, chooses by bit votes and  *)
(* prepares and sends its commit in window r+1 (buffer r+1), and reveals   *)
(* in window r+2 (buffer r+2).  One submitAttestation call carries the     *)
(* commit of a round and the reveal of the round before it.                *)
(*                                                                         *)
(* JavaScript runs one handler at a time up to its next await.  Each       *)
(* handler is therefore an action that makes the whole synchronous part,   *)
(* and a counter in the round's state for each await a run can be in       *)
(* (saving, drawing, abstaining); the continuation is an action of its     *)
(* own, and everything else may happen in between.                         *)
(***************************************************************************)
EXTENDS Integers, FiniteSets

CONSTANTS
  LastRound,    \* rounds 0..LastRound are followed
  NumRequests,  \* bound on the attestation requests of a round
  None,         \* no hash, no transaction, no record
  Prompt,       \* preparations end before the submission timers fire
  ChainInStep,  \* the local clock and the Flare blocks read agree
  MaxRestarts   \* bound on the restarts of the process

Rounds  == 0..LastRound
Buffers == 1..(LastRound + 1)
Requests == 1..NumRequests   \* the indices in AttestationRound.attestations
Roots   == SUBSET Requests   \* a Merkle root stands for its leaves; {} is ZERO_HASH
Hash    == [root : Roots, random : Nat]   \* commitHash, injective
Zero    == {}

\* The commit of one round and the reveal of the round before it.
Transaction == [masked : Hash, root : Roots, random : Nat]

ASSUME RoundAssumption ==
  /\ LastRound \in Nat
  /\ NumRequests \in Nat
  /\ Prompt \in BOOLEAN
  /\ ChainInStep \in BOOLEAN
  /\ MaxRestarts \in Nat
  /\ None \notin Hash \cup Transaction

\* AttestationRoundStatus, in the order of the enum.
Collecting         == 0
BitVotingClosed    == 1
Chosen             == 2
CommitDataPrepared == 3
Committed          == 4
Revealed           == 5
Error              == 6

VARIABLES
  clock,       \* due time of the timers now firing, StagesPerWindow to a window
  up,          \* the process runs
  startRound,  \* the first round of this process
  restarts,    \* number of restarts so far (bounds the model)
  timer,       \* the next timer of each round, 0 before the round is created
  rd,          \* the AttestationRound objects
  sub,         \* the submission that carries each round's commit
  db,          \* DBRoundResult: the saved root and random of each round
  dbWrites,    \* saveRound calls that have not completed
  tx,          \* submitAttestation transactions sent, by buffer
  board,       \* StateConnector: the vote stored for each buffer
  drawn,       \* number of randoms drawn: each is new (getCryptoSafeRandom)
  confirmed    \* history: requests whose verification ever succeeded

storage == <<db, dbWrites>>
chain   == <<tx, board>>
process == <<up, startRound, restarts>>
vars    == <<clock, up, startRound, restarts, timer, rd, sub, db, dbWrites, tx,
             board, drawn, confirmed>>

-----------------------------------------------------------------------------
(* Time.  A window has five instants: its start, the sending of the bit      *)
(* vote, the end of the choose phase, the forced close and the submission.   *)

StagesPerWindow == 5
Window == clock \div StagesPerWindow
EndOfTime == StagesPerWindow * (LastRound + 2) - 1

ChooseTimer == 1
BitVoteTimer == 2
CommitTimer == 3
CloseTimer == 4
FirstCommitTimer == 5
RevealTimer == 6
SubmitTimer == 7
CompleteTimer == 8

\* When the timer t of round r is due.
Due(r, t) ==
  CASE t \in ChooseTimer..FirstCommitTimer -> StagesPerWindow * (r + 1) + t - 1
    [] t = RevealTimer                     -> StagesPerWindow * (r + 2)
    [] t = SubmitTimer                     -> StagesPerWindow * (r + 2) + 4
    [] OTHER                               -> StagesPerWindow * (r + 3)

\* The round before r is known to this process (prevRound).
Linked(r) == r > startRound

\* Only a round without prevRound has a timer for onFirstCommit.
NextTimer(r, t) == IF t = CloseTimer /\ Linked(r) THEN RevealTimer ELSE t + 1

Fires(r, t) == up /\ timer[r] = t /\ Due(r, t) = clock
Rearmed(r, t) == [timer EXCEPT ![r] = NextTimer(r, t)]

Live(r) == up /\ timer[r] # 0

-----------------------------------------------------------------------------
(* The synchronous methods of a round, as functions from its state s.        *)

Verdicts == {"ok", "badMIC", "notConfirmed", "indeterminate"}

\* Mutation of StatusOf: the message integrity code is not compared.
StatusOfAnyMIC(verdict) ==
  CASE verdict \in {"ok", "badMIC"} -> "valid"
    [] verdict = "notConfirmed"     -> "invalid"
    [] OTHER                        -> "undetermined"

\* AttestationStatus after SourceManager.process has the verifier's answer.
StatusOf(verdict) ==
  CASE verdict = "ok"                         -> "valid"
    [] verdict \in {"badMIC", "notConfirmed"} -> "invalid"
    [] OTHER                                  -> "undetermined"

\* "invalid" also stands for overLimit, "undetermined" for failed, tooLate and
\* error, "processing" for queued; "absent" requests have not been read yet.
RequestStatus == {"absent", "processing", "valid", "invalid", "undetermined"}

NewRound ==
  [phase |-> "collect", status |-> Collecting,
   att |-> [i \in Requests |-> "absent"], tally |-> {}, vote |-> {},
   chosen |-> {}, isReject |-> FALSE, isEmpty |-> FALSE,
   root |-> Zero, random |-> 0, masked |-> None,
   saving |-> 0, drawing |-> 0, abstaining |-> 0]

ValidIn(s) == {i \in Requests : s.att[i] = "valid"}

CanCount(s) == s.phase = "commit" /\ s.status = BitVotingClosed

\* hasActiveBitsBeyond: the votes name a request this client has not got.
BeyondLocal(s) == \E i \in s.tally : s.att[i] = "absent"

\* tryCalculateBitVotingResults: a chosen request is neither valid nor under
\* way (the result is then empty), or one is still under way (retried later).
Unprovable(s) == \E i \in s.tally : s.att[i] \notin {"valid", "processing"}
Outstanding(s) == \E i \in s.tally : s.att[i] = "processing"

\* Mutation of TryCount: the result is cut down to what could be verified.
TryCountPartial(s) ==
  IF ~CanCount(s) THEN s
  ELSE [s EXCEPT !.chosen = s.tally \cap ValidIn(s), !.status = Chosen]

TryCount(s) ==
  IF ~CanCount(s) \/ (Outstanding(s) /\ ~Unprovable(s)) THEN s
  ELSE [s EXCEPT !.chosen = IF Unprovable(s) THEN {} ELSE s.tally,
                 !.status = Chosen]

\* The synchronous part of abstainVoteRound.
Abstain(s) ==
  [s EXCEPT !.status = CommitDataPrepared, !.root = Zero, !.random = 0]

NotValid(s) == {i \in s.chosen : s.att[i] # "valid"}
FirstNotValid(s) == CHOOSE i \in NotValid(s) : \A j \in NotValid(s) : i <= j

\* tryPrepareCommitData up to its first await.
TryPrepare(s) ==
  IF s.status # Chosen \/ s.phase # "commit" \/ s.isReject THEN s
  ELSE IF NotValid(s) # {}
       THEN [s EXCEPT !.isReject = s.att[FirstNotValid(s)] = "invalid"]
  ELSE IF s.chosen = {}
       THEN [Abstain(s) EXCEPT !.abstaining = @ + 1]
  ELSE [s EXCEPT !.saving = @ + 1]

CanCommit(s) == s.phase = "commit" /\ s.status = CommitDataPrepared

\* The round's pending continuations.
Quiet(s) == s.saving = 0 /\ s.drawing = 0 /\ s.abstaining = 0

-----------------------------------------------------------------------------
NoSubmission == [stage |-> "none", canReveal |-> FALSE, write |-> None]

Init ==
  /\ clock = 0
  /\ up = TRUE
  /\ startRound = 0
  /\ restarts = 0
  /\ timer = [r \in Rounds |-> 0]
  /\ rd = [r \in Rounds |-> NewRound]
  /\ sub = [r \in Rounds |-> NoSubmission]
  /\ db = [r \in Rounds |-> [root |-> Zero, random |-> 0]]
  /\ dbWrites = [r \in Rounds |-> {}]
  /\ tx = [b \in Buffers |-> None]
  /\ board = [b \in Buffers |-> None]
  /\ drawn = 0
  /\ confirmed = [r \in Rounds |-> {}]

\* process.exit, an exception in criticalAsync or a crash: everything in memory
\* is lost, a transaction already sent is not.
ProcessExit ==
  /\ up' = FALSE
  /\ timer' = [r \in Rounds |-> 0]
  /\ rd' = [r \in Rounds |-> NewRound]
  /\ sub' = [r \in Rounds |-> NoSubmission]
  /\ dbWrites' = [r \in Rounds |-> {}]
  /\ UNCHANGED <<clock, startRound, restarts, tx, board, drawn>>

Crash ==
  /\ up
  /\ restarts < MaxRestarts
  /\ ProcessExit
  /\ UNCHANGED <<db, confirmed>>

\* AttestationRoundManager.initialize: the rounds before the present one are
\* left alone by the new process.
Restart ==
  /\ ~up
  /\ restarts < MaxRestarts
  /\ Window \in Rounds
  /\ up' = TRUE
  /\ startRound' = Window
  /\ restarts' = restarts + 1
  /\ UNCHANGED <<clock, timer, rd, sub, storage, chain, drawn, confirmed>>

\* getRoundOrCreateIt, from startRoundUpdate or from the first request.
CreateRound(r) ==
  /\ up
  /\ r = Window
  /\ timer[r] = 0
  /\ timer' = [timer EXCEPT ![r] = ChooseTimer]
  /\ rd' = [rd EXCEPT ![r] = NewRound]
  /\ UNCHANGED <<clock, process, sub, storage, chain, drawn, confirmed>>

\* The stages at which a submission has sent nothing yet.
Preparing == {"abstaining", "rejecting", "storing", "lookup"}

\* Time goes on when the timers due have fired and the round of the window has
\* been created (startRoundUpdate looks every five seconds).
AdvanceClock ==
  /\ clock < EndOfTime
  /\ \A r \in Rounds : Live(r) /\ timer[r] <= CompleteTimer => Due(r, timer[r]) > clock
  /\ up /\ Window \in Rounds => timer[Window] # 0
  /\ Prompt => /\ \A r \in Rounds : sub[r].stage \notin Preparing
               /\ \A r \in Rounds : dbWrites[r] = {}
  /\ clock' = clock + 1
  /\ UNCHANGED <<process, timer, rd, sub, storage, chain, drawn, confirmed>>

-----------------------------------------------------------------------------
(* Requests, votes and the closing of the vote.                              *)

SetRound(r, s) ==
  /\ rd' = [rd EXCEPT ![r] = s]
  /\ UNCHANGED <<clock, process, sub, storage, chain, drawn>>

\* tryCalculateBitVotingResults and tryPrepareCommitData run one after the
\* other on round r, whose state has just become s.  Without a voting result
\* (BeyondLocal) votingResult.toHex() throws and criticalAsync ends the process.
CountAndPrepare(r, s, timers) ==
  IF CanCount(s) /\ BeyondLocal(s)
  THEN ProcessExit /\ UNCHANGED db
  ELSE SetRound(r, TryPrepare(TryCount(s))) /\ timer' = timers

Listed(r) == {i \in Requests : rd[r].att[i] # "absent"}

\* addAttestation of the next request read from the chain; a failed or over
\* limit one is processed at once.
AddAttestation(r) ==
  /\ Live(r)
  /\ Window <= r + 1
  /\ \E i \in Requests \ Listed(r) :
       /\ \A j \in Requests : j < i => j \in Listed(r)
       /\ \/ SetRound(r, [rd[r] EXCEPT !.att[i] = "processing"]) /\ UNCHANGED timer
          \/ \E status \in {"invalid", "undetermined"} :
               CountAndPrepare(r, [rd[r] EXCEPT !.att[i] = status], timer)
  /\ UNCHANGED confirmed

\* SourceManager.process has the verifier's answer: onAttestationProcessed.
AttestationProcessed(r, i, verdict) ==
  /\ Live(r)
  /\ rd[r].att[i] = "processing"
  /\ CountAndPrepare(r, [rd[r] EXCEPT !.att[i] = StatusOf(verdict)], timer)
  /\ confirmed' = IF verdict = "ok"
                  THEN [confirmed EXCEPT ![r] = @ \cup {i}]
                  ELSE confirmed

\* registerBitVote changes what the votes read so far result in (after the
\* count nothing reads them).  When the chain is in step, every vote has been
\* read when the vote is closed.
RegisterBitVote(r) ==
  /\ Live(r)
  /\ clock >= Due(r, ChooseTimer)
  /\ rd[r].status < IF ChainInStep THEN BitVotingClosed ELSE Chosen
  /\ \E tally \in Roots : SetRound(r, [rd[r] EXCEPT !.tally = tally])
  /\ UNCHANGED <<timer, confirmed>>

\* Mutation of CloseBitVoting: the vote is closed, and left uncounted.
CloseBitVotingOnly(r, timers) ==
  /\ SetRound(r, [rd[r] EXCEPT !.status = IF @ < BitVotingClosed THEN BitVotingClosed ELSE @])
  /\ timer' = timers

CloseBitVoting(r, timers) ==
  IF rd[r].status < BitVotingClosed
  THEN CountAndPrepare(r, [rd[r] EXCEPT !.status = BitVotingClosed], timers)
  ELSE SetRound(r, rd[r]) /\ timer' = timers

\* onLastFlareNetworkTimestamp: a Flare block is past the choose phase.  Out of
\* step, its timestamp may be ahead of the local clock.
CloseByBlock(r) ==
  /\ Live(r)
  /\ rd[r].status < BitVotingClosed
  /\ IF ChainInStep THEN timer[r] > CommitTimer ELSE clock >= Due(r, BitVoteTimer)
  /\ CloseBitVoting(r, timer)
  /\ UNCHANGED confirmed

-----------------------------------------------------------------------------
(* The timers of a round.                                                    *)

OnChoosePhaseStart(r) ==
  /\ Fires(r, ChooseTimer)
  /\ SetRound(r, [rd[r] EXCEPT !.phase = "choose"])
  /\ timer' = Rearmed(r, ChooseTimer)
  /\ UNCHANGED confirmed

\* The snapshot bitVoteRecord, sent to BitVoting unless it is all zero.
OnSubmitBitVote(r) ==
  /\ Fires(r, BitVoteTimer)
  /\ SetRound(r, [rd[r] EXCEPT !.vote = ValidIn(rd[r])])
  /\ timer' = Rearmed(r, BitVoteTimer)
  /\ UNCHANGED confirmed

\* Only the preparation is tried here, not the count.
OnCommitPhaseStart(r) ==
  /\ Fires(r, CommitTimer)
  /\ SetRound(r, TryPrepare([rd[r] EXCEPT !.phase = "commit"]))
  /\ timer' = Rearmed(r, CommitTimer)
  /\ UNCHANGED confirmed

ForceClose(r) ==
  /\ Fires(r, CloseTimer)
  /\ CloseBitVoting(r, Rearmed(r, CloseTimer))
  /\ UNCHANGED confirmed

OnRevealPhaseStart(r) ==
  /\ Fires(r, RevealTimer)
  /\ SetRound(r, [rd[r] EXCEPT !.phase = "reveal"])
  /\ timer' = Rearmed(r, RevealTimer)
  /\ UNCHANGED confirmed

OnFinalisePhaseStart(r) ==
  /\ Fires(r, CompleteTimer)
  /\ SetRound(r, [rd[r] EXCEPT !.phase = "finalise"])
  /\ timer' = Rearmed(r, CompleteTimer)
  /\ UNCHANGED confirmed

-----------------------------------------------------------------------------
(* The continuations of a round's preparation.  Each saveRound call takes    *)
(* its values when it is made.                                               *)

Draw == drawn + 1

\* What saveRound stores of a round.
Stored(s) == [root |-> s.root, random |-> s.random]

SaveRound(r, s) == dbWrites' = [dbWrites EXCEPT ![r] = @ \cup {Stored(s)}]

\* entityManager.save(dbVoteResults) is done or has failed: the Merkle tree is
\* built and a random is asked for.
VotesSaved(r) ==
  /\ rd[r].saving > 0
  /\ rd' = [rd EXCEPT ![r].saving = @ - 1,
                      ![r].drawing = @ + 1,
                      ![r].root = rd[r].chosen]
  /\ UNCHANGED <<clock, process, timer, sub, storage, chain, drawn, confirmed>>

\* The commit data of the root: a new random, and both hashed.
Committing(s) ==
  [s EXCEPT !.random = Draw, !.masked = [root |-> s.root, random |-> Draw]]

\* getCryptoSafeRandom() in tryPrepareCommitData: the commit data are set.
CommitPrepared(r) ==
  /\ rd[r].drawing > 0
  /\ LET s == [Committing(rd[r]) EXCEPT !.drawing = @ - 1, !.status = CommitDataPrepared]
     IN  /\ rd' = [rd EXCEPT ![r] = s]
         /\ SaveRound(r, s)
  /\ drawn' = Draw
  /\ UNCHANGED <<clock, process, timer, sub, db, chain, confirmed>>

\* Mutation of Abstained: the random that is revealed is hashed.
AbstainedOpenly(s) ==
  [s EXCEPT !.masked = [root |-> Zero, random |-> s.random], !.isEmpty = TRUE]

\* The masked root of an abstention hides another random than the one that
\* would be revealed.
Abstained(s) ==
  [s EXCEPT !.masked = [root |-> Zero, random |-> Draw], !.isEmpty = TRUE]

\* getCryptoSafeRandom() in abstainVoteRound called by tryPrepareCommitData.
AbstentionPrepared(r) ==
  /\ rd[r].abstaining > 0
  /\ LET s == [Abstained(rd[r]) EXCEPT !.abstaining = @ - 1]
     IN  /\ rd' = [rd EXCEPT ![r] = s]
         /\ SaveRound(r, s)
  /\ drawn' = Draw
  /\ UNCHANGED <<clock, process, timer, sub, db, chain, confirmed>>

\* A saveRound call completes, or fails and is only logged.
RoundSaved(r) ==
  /\ \E w \in dbWrites[r] :
       /\ dbWrites' = [dbWrites EXCEPT ![r] = @ \ {w}]
       /\ \/ db' = [db EXCEPT ![r] = w]
          \/ UNCHANGED db
  /\ UNCHANGED <<clock, process, timer, rd, sub, chain, drawn, confirmed>>

-----------------------------------------------------------------------------
(* The submission that carries the commit of round r: onFirstCommit of r, or *)
(* onSubmitAttestation of r-1.                                               *)

\* Prompt preparations: none is under way when the submission starts, and the
\* submission before it has returned (signAndFinalize3Sequenced).
Ready(r) ==
  Prompt => /\ Quiet(rd[r])
            /\ \A q \in Rounds \ {r} : sub[q].stage # "sent"

\* The round cannot commit: it rejects, or abstains.
GiveUpCommit(r, reject, canReveal, timers) ==
  /\ rd' = [rd EXCEPT ![r] =
              IF reject THEN [@ EXCEPT !.status = CommitDataPrepared, !.root = Zero]
              ELSE Abstain(@)]
  /\ sub' = [sub EXCEPT ![r] =
              [stage |-> IF reject THEN "rejecting" ELSE "abstaining",
               canReveal |-> canReveal, write |-> None]]
  /\ timer' = timers
  /\ UNCHANGED <<clock, process, dbWrites, chain, drawn>>

Skippable(r) == r \in Rounds /\ Live(r) /\ rd[r].isEmpty

\* shouldSubmitAttestation of r-1: not when it, the round before and the round
\* after are all empty.
ShouldSubmit(r) == ~(Skippable(r - 2) /\ Linked(r - 1) /\ Skippable(r - 1) /\ Skippable(r))

\* submitAttestation with the commit of r and the given reveal.  Without a
\* masked root checkHex64 throws and criticalAsync ends the process.
Submit(r, root, random, timers) ==
  IF rd[r].masked = None
  THEN ProcessExit
  ELSE /\ tx' = [tx EXCEPT ![r + 1] =
                  [masked |-> rd[r].masked, root |-> root, random |-> random]]
       /\ sub' = [sub EXCEPT ![r].stage = "sent"]
       /\ timer' = timers
       /\ UNCHANGED <<clock, process, rd, dbWrites, board, drawn>>

\* Mutation of SubmitLinked: the data of the committed round are revealed.
SubmitLinkedOwn(r, canReveal, timers) ==
  Submit(r, IF canReveal THEN rd[r].root ELSE Zero,
         IF canReveal THEN rd[r].random ELSE 0, timers)

\* The rest of onSubmitAttestation of r-1 once the commit data are there.
SubmitLinked(r, canReveal, timers) ==
  IF ShouldSubmit(r)
  THEN Submit(r, IF canReveal THEN rd[r - 1].root ELSE Zero,
              IF canReveal THEN rd[r - 1].random ELSE 0, timers)
  ELSE /\ rd' = [rd EXCEPT ![r - 1].status = Revealed]
       /\ sub' = [sub EXCEPT ![r].stage = "done"]
       /\ timer' = timers
       /\ UNCHANGED <<clock, process, dbWrites, chain, drawn>>

OnFirstCommit(r) ==
  /\ Fires(r, FirstCommitTimer)
  /\ Ready(r)
  /\ LET timers == Rearmed(r, FirstCommitTimer)
     IN  IF CanCommit(rd[r])
         THEN /\ sub' = [sub EXCEPT ![r].stage = "lookup"]
              /\ timer' = timers
              /\ UNCHANGED <<clock, process, rd, dbWrites, chain, drawn>>
         ELSE GiveUpCommit(r, FALSE, FALSE, timers)
  /\ UNCHANGED <<db, confirmed>>

\* commitPreparedOrCommitted of the revealed round p is read here, its root and
\* random when the transaction is sent.  nextRound is there: startRoundUpdate
\* has created it a window ago.
OnSubmitAttestation(p) ==
  /\ p < LastRound
  /\ Fires(p, SubmitTimer)
  /\ Live(p + 1)
  /\ Ready(p + 1)
  /\ LET timers == Rearmed(p, SubmitTimer)
         canReveal == rd[p].status \in {CommitDataPrepared, Committed}
     IN  IF CanCommit(rd[p + 1])
         THEN SubmitLinked(p + 1, canReveal, timers)
         ELSE GiveUpCommit(p + 1, rd[p + 1].isReject, canReveal, timers)
  /\ UNCHANGED <<db, confirmed>>

\* getCryptoSafeRandom() in the awaited abstainVoteRound or rejectVoteRound.
RandomDrawn(r) ==
  /\ sub[r].stage \in {"abstaining", "rejecting"}
  /\ LET s == IF sub[r].stage = "abstaining" THEN Abstained(rd[r])
              ELSE Committing(rd[r])
     IN  /\ rd' = [rd EXCEPT ![r] = s]
         /\ sub' = [sub EXCEPT ![r].stage = "storing", ![r].write = Stored(s)]
  /\ drawn' = Draw
  /\ UNCHANGED <<clock, process, timer, storage, chain, confirmed>>

\* The awaited saveRound is done or has failed, which is only logged.
GiveUpStored(r) ==
  /\ sub[r].stage = "storing"
  /\ db' \in {db, [db EXCEPT ![r] = sub[r].write]}
  /\ IF Linked(r) THEN SubmitLinked(r, sub[r].canReveal, timer)
     ELSE /\ sub' = [sub EXCEPT ![r].stage = "lookup"]
          /\ UNCHANGED <<clock, process, timer, rd, dbWrites, chain, drawn>>
  /\ UNCHANGED confirmed

\* attesterState.getRound: the first commit reveals what the database has of
\* the round before.
PreviousRoundRead(r) ==
  /\ sub[r].stage = "lookup"
  /\ LET previous == IF r = 0 THEN [root |-> Zero, random |-> 0] ELSE db[r - 1]
     IN  Submit(r, previous.root, previous.random, timer)
  /\ UNCHANGED <<db, confirmed>>

\* StateConnector.submitAttestation accepts a transaction in its own window.
TransactionMined(b) ==
  /\ tx[b] # None
  /\ board[b] = None
  /\ Window = b
  /\ board' = [board EXCEPT ![b] = tx[b]]
  /\ UNCHANGED <<clock, process, timer, rd, sub, storage, tx, drawn, confirmed>>

\* The receipt has come, or none will: the status of the round that commits
\* and of the round that reveals.
SubmissionReturned(r) ==
  /\ sub[r].stage = "sent"
  /\ \/ /\ board[r + 1] # None
        /\ rd' = IF Linked(r)
                 THEN [rd EXCEPT ![r].status = Committed, ![r - 1].status = Revealed]
                 ELSE [rd EXCEPT ![r].status = Committed]
     \/ rd' = [rd EXCEPT ![IF Linked(r) THEN r - 1 ELSE r].status = Error]
  /\ sub' = [sub EXCEPT ![r].stage = "done"]
  /\ UNCHANGED <<clock, process, timer, storage, chain, drawn, confirmed>>

-----------------------------------------------------------------------------
TimerStep(r) ==
  \/ OnChoosePhaseStart(r)
  \/ OnSubmitBitVote(r)
  \/ OnCommitPhaseStart(r)
  \/ ForceClose(r)
  \/ OnFirstCommit(r)
  \/ OnRevealPhaseStart(r)
  \/ OnSubmitAttestation(r)
  \/ OnFinalisePhaseStart(r)

EventStep(r) ==
  \/ AddAttestation(r)
  \/ \E i \in Requests, verdict \in Verdicts : AttestationProcessed(r, i, verdict)
  \/ RegisterBitVote(r)
  \/ CloseByBlock(r)

Continuation(r) ==
  \/ VotesSaved(r)
  \/ CommitPrepared(r)
  \/ AbstentionPrepared(r)
  \/ RoundSaved(r)
  \/ RandomDrawn(r)
  \/ GiveUpStored(r)
  \/ PreviousRoundRead(r)
  \/ SubmissionReturned(r)

Next ==
  \/ AdvanceClock
  \/ Crash
  \/ Restart
  \/ \E r \in Rounds : CreateRound(r)
  \/ \E r \in Rounds : TimerStep(r)
  \/ \E r \in Rounds : EventStep(r)
  \/ \E r \in Rounds : Continuation(r)
  \/ \E b \in Buffers : TransactionMined(b)

Spec == Init /\ [][Next]_vars

-----------------------------------------------------------------------------
(* What the rounds promise.                                                  *)

RoundRecord ==
  [phase : {"collect", "choose", "commit", "reveal", "finalise"},
   status : Collecting..Error,
   att : [Requests -> RequestStatus], tally : Roots, vote : Roots,
   chosen : Roots, isReject : BOOLEAN, isEmpty : BOOLEAN,
   root : Roots, random : Nat, masked : Hash \cup {None},
   saving : Nat, drawing : Nat, abstaining : Nat]

SubmissionRecord ==
  [stage : Preparing \cup {"none", "sent", "done"},
   canReveal : BOOLEAN, write : Hash \cup {None}]

\* The types of the variables.
TypeOK ==
  /\ clock \in 0..EndOfTime
  /\ up \in BOOLEAN
  /\ startRound \in Rounds
  /\ restarts \in 0..MaxRestarts
  /\ timer \in [Rounds -> 0..(CompleteTimer + 1)]
  /\ rd \in [Rounds -> RoundRecord]
  /\ sub \in [Rounds -> SubmissionRecord]
  /\ db \in [Rounds -> Hash]
  /\ dbWrites \in [Rounds -> SUBSET Hash]
  /\ tx \in [Buffers -> Transaction \cup {None}]
  /\ board \in [Buffers -> Transaction \cup {None}]
  /\ drawn \in Nat
  /\ confirmed \in [Rounds -> SUBSET Requests]

\* Nothing is voted for, committed, revealed or saved whose verification, with
\* its message integrity code, has not succeeded: whatever the preparations
\* interleave with, and across restarts.
OnlyVerifiedSubmitted ==
  /\ \A r \in Rounds : rd[r].vote \cup db[r].root \subseteq confirmed[r]
  /\ \A b \in Buffers : tx[b] # None =>
       /\ tx[b].masked.root \subseteq confirmed[b - 1]
       /\ tx[b].root # Zero => b > 1 /\ tx[b].root \subseteq confirmed[b - 2]

\* A commit takes the whole result of the bit vote or nothing of it: a part of
\* it would fork the client from the other providers.
WholeVoteOrNothing ==
  \A r \in Rounds :
    sub[r].stage = "sent" => tx[r + 1].masked.root \in {Zero, rd[r].tally}

\* What was committed for round r is opened by what is revealed for it.
Opens(r) ==
  /\ board[r + 1] # None
  /\ board[r + 2] # None
  /\ board[r + 1].masked = [root |-> board[r + 2].root, random |-> board[r + 2].random]

\* The reveal data match the commit data: a round revealed with anything but
\* the two zeros of an abstention opens its commit, after a failed save or a
\* give-up as well.  A process that has started since the round reveals what the
\* database has of it: the record may be of another of two preparations that
\* overlapped than the one committed, with another random, never with another
\* root.
RevealMatchesCommit ==
  \A r \in 0..(LastRound - 1) :
    (/\ board[r + 1] # None /\ board[r + 2] # None
     /\ board[r + 2].root # Zero \/ board[r + 2].random # 0) =>
       \/ Opens(r)
       \/ r < startRound /\ board[r + 1].masked.root = board[r + 2].root

\* A round this client abstains from never counts as a vote of its own.
AbstentionNeverCounts ==
  \A r \in 0..(LastRound - 1) : rd[r].isEmpty => ~Opens(r)

\* Once the voting is closed in the commit phase, only requests still being
\* verified keep the votes from being counted: no round waits for a count that
\* nothing will try again.
CountWaitsOnlyForVerification ==
  \A r \in Rounds : Live(r) /\ CanCount(rd[r]) => Outstanding(rd[r])
=============================================================================
