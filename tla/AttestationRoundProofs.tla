----------------------- MODULE AttestationRoundProofs -----------------------
(***************************************************************************)
(* Proofs about AttestationRound, for every number of rounds, requests and *)
(* restarts, prompt preparations or not, blocks in step or not.            *)
(***************************************************************************)
EXTENDS AttestationRound, TLAPS

\* What is true of the state s of a round whose confirmed requests are c: what
\* it votes for, has prepared or has masked is confirmed, and what it has
\* prepared is the whole result of the vote, which can no longer change.
Sound(s, c) ==
  /\ ValidIn(s) \subseteq c
  /\ s.vote \subseteq c
  /\ s.root \subseteq c
  /\ s.masked # None => s.masked.root \subseteq c

Whole(s) ==
  /\ s.root # Zero => s.status >= Chosen /\ s.root = s.tally
  /\ s.masked # None /\ s.masked.root # Zero =>
       s.status >= Chosen /\ s.masked.root = s.tally
  /\ s.saving > 0 => /\ s.status >= Chosen
                     /\ s.chosen = s.tally
                     /\ s.chosen \subseteq ValidIn(s)
  /\ s.status = Chosen => s.chosen \in {Zero, s.tally}

SafeRound(s, c) == s \in RoundRecord /\ Sound(s, c) /\ Whole(s)

\* The round state t may follow s: a counted vote stays as it is.
Settled(s, t) == s.status >= Chosen => t.status >= Chosen /\ t.tally = s.tally

-----------------------------------------------------------------------------
(* The synchronous methods of a round keep it safe.                          *)

\* The statuses are the numbers of the enum.
LEMMA Statuses ==
  /\ Collecting = 0 /\ BitVotingClosed = 1 /\ Chosen = 2
  /\ CommitDataPrepared = 3 /\ Committed = 4 /\ Revealed = 5 /\ Error = 6
  BY DEF Collecting, BitVotingClosed, Chosen, CommitDataPrepared, Committed,
         Revealed, Error

\* Each status is one a record may have.
LEMMA StatusRange ==
  /\ BitVotingClosed \in Collecting..Error /\ Chosen \in Collecting..Error
  /\ CommitDataPrepared \in Collecting..Error /\ Committed \in Collecting..Error
  /\ Revealed \in Collecting..Error /\ Error \in Collecting..Error
  BY Statuses

\* A round starts safe, whatever has been confirmed.
LEMMA NewRoundSafe ==
  ASSUME NEW c
  PROVE  SafeRound(NewRound, c)
  <1>1. NewRound \in RoundRecord
    BY Statuses DEF NewRound, RoundRecord, RequestStatus, Roots, Zero
  <1>2. ValidIn(NewRound) = {}
    BY DEF ValidIn, NewRound
  <1>3. /\ NewRound.vote = {} /\ NewRound.root = {} /\ NewRound.masked = None
        /\ NewRound.saving = 0 /\ NewRound.status = Collecting
    BY DEF NewRound, Zero
  <1> QED
    BY <1>1, <1>2, <1>3, Statuses DEF SafeRound, Sound, Whole, Zero

\* tryCalculateBitVotingResults changes a round before the count only.
LEMMA TryCountSafe ==
  ASSUME NEW c, NEW s, SafeRound(s, c)
  PROVE  SafeRound(TryCount(s), c) /\ Settled(s, TryCount(s))
  <1> DEFINE t == [s EXCEPT !.chosen = IF Unprovable(s) THEN {} ELSE s.tally,
                            !.status = Chosen]
  <1>1. CASE TryCount(s) = s
    BY <1>1 DEF Settled
  <1>2. CASE CanCount(s) /\ TryCount(s) = t
    <2> s \in RoundRecord
      BY DEF SafeRound
    <2>0. (IF Unprovable(s) THEN {} ELSE s.tally) \in Roots
      BY DEF RoundRecord, Roots
    <2>1. t \in RoundRecord
      BY <2>0, StatusRange DEF RoundRecord
    <2>2. /\ t.status = Chosen /\ t.chosen \in {{}, s.tally}
          /\ t.att = s.att /\ t.tally = s.tally /\ t.vote = s.vote
          /\ t.root = s.root /\ t.masked = s.masked /\ t.saving = s.saving
      BY DEF SafeRound, RoundRecord
    <2>3. ValidIn(t) = ValidIn(s)
      BY <2>2 DEF ValidIn
    <2>4. s.status = BitVotingClosed /\ s.saving = 0
      BY <1>2, Statuses DEF CanCount, SafeRound, Whole, RoundRecord
    <2> QED
      BY <1>2, <2>1, <2>2, <2>3, <2>4, Statuses
      DEF SafeRound, Sound, Whole, Settled, Zero
  <1> QED
    BY <1>1, <1>2 DEF TryCount

\* More confirmed requests do no harm.
LEMMA SafeGrows ==
  ASSUME NEW c, NEW d, c \subseteq d, NEW s, SafeRound(s, c)
  PROVE  SafeRound(s, d)
  BY DEF SafeRound, Sound

\* What a method may change without a thought for the votes.
LEMMA FrameSafe ==
  ASSUME NEW c, NEW s, SafeRound(s, c), NEW t \in RoundRecord,
         t.att = s.att, t.vote = s.vote, t.tally = s.tally, t.chosen = s.chosen,
         t.root = s.root \/ (t.root = Zero /\ t.status >= Chosen),
         t.masked = s.masked \/ (t.masked # None /\ t.masked.root \in {Zero, t.root}),
         t.saving = s.saving,
         \/ t.status = s.status
         \/ t.status > Chosen
         \/ s.status < Chosen /\ t.status < Chosen
  PROVE  SafeRound(t, c) /\ Settled(s, t)
  <1>1. s.status \in 0..6 /\ t.status \in 0..6 /\ Chosen = 2 /\ s.saving \in Nat
    BY Statuses DEF SafeRound, RoundRecord
  <1>2. ValidIn(t) = ValidIn(s)
    BY DEF ValidIn
  <1>3. s.status >= Chosen => t.status >= Chosen
    BY <1>1
  <1>4. Sound(t, c)
    BY <1>2 DEF SafeRound, Sound, Zero
  <1>5. t.status = Chosen => s.status = Chosen
    BY <1>1
  <1>6. Whole(t)
    BY <1>1, <1>2, <1>3, <1>5 DEF SafeRound, Whole
  <1> QED
    BY <1>3, <1>4, <1>6 DEF SafeRound, Settled

\* The synchronous part of abstainVoteRound.
LEMMA AbstainSafe ==
  ASSUME NEW c, NEW s, SafeRound(s, c)
  PROVE  SafeRound(Abstain(s), c) /\ Settled(s, Abstain(s))
  <1> s \in RoundRecord
    BY DEF SafeRound
  <1>1. Abstain(s) \in RoundRecord
    <2>1. Zero \in Roots
      BY DEF Zero, Roots
    <2> QED
      BY <2>1, StatusRange DEF Abstain, RoundRecord
  <1>2. /\ Abstain(s).status = CommitDataPrepared /\ Abstain(s).root = Zero
        /\ Abstain(s).att = s.att /\ Abstain(s).tally = s.tally
        /\ Abstain(s).vote = s.vote /\ Abstain(s).chosen = s.chosen
        /\ Abstain(s).masked = s.masked /\ Abstain(s).saving = s.saving
    BY DEF Abstain, RoundRecord
  <1> QED
    BY <1>1, <1>2, FrameSafe, Statuses

\* A commit hash is a hash, and not None.
LEMMA HashTyped ==
  ASSUME NEW a \in Roots, NEW n \in Nat
  PROVE  /\ [root |-> a, random |-> n] \in Hash
         /\ [root |-> a, random |-> n] # None
         /\ [root |-> a, random |-> n].root = a
  BY RoundAssumption DEF Hash

\* The rest of abstainVoteRound, even when a root has come in between.
LEMMA AbstainedSafe ==
  ASSUME drawn \in Nat, NEW c, NEW s, SafeRound(s, c)
  PROVE  /\ SafeRound(Abstained(s), c) /\ Settled(s, Abstained(s))
         /\ Abstained(s).root = s.root /\ Abstained(s).random = s.random
  <1> DEFINE h == [root |-> Zero, random |-> Draw]
             t == Abstained(s)
  <1> s \in RoundRecord
    BY DEF SafeRound
  <1>1. Zero \in Roots /\ Draw \in Nat
    BY DEF Zero, Roots, Draw
  <1>2. h \in Hash /\ h # None /\ h.root = Zero
    BY <1>1, HashTyped
  <1> HIDE DEF h
  <1>3. t = [s EXCEPT !.masked = h, !.isEmpty = TRUE]
    BY DEF Abstained, h
  <1>4. t \in RoundRecord
    BY <1>2, <1>3 DEF RoundRecord
  <1>5. /\ t.status = s.status /\ t.root = s.root /\ t.masked = h
        /\ t.att = s.att /\ t.tally = s.tally /\ t.random = s.random
        /\ t.vote = s.vote /\ t.chosen = s.chosen /\ t.saving = s.saving
    BY <1>3 DEF RoundRecord
  <1> HIDE DEF t
  <1>6. SafeRound(t, c) /\ Settled(s, t)
    BY <1>2, <1>4, <1>5, FrameSafe
  <1> QED
    BY <1>5, <1>6 DEF t

\* The commit data hash the round's own root.
LEMMA CommittingSafe ==
  ASSUME drawn \in Nat, NEW c, NEW s, SafeRound(s, c)
  PROVE  /\ SafeRound(Committing(s), c) /\ Settled(s, Committing(s))
         /\ Committing(s).root = s.root /\ Committing(s).random = Draw
  <1> DEFINE h == [root |-> s.root, random |-> Draw]
             t == Committing(s)
  <1> s \in RoundRecord
    BY DEF SafeRound
  <1>1. s.root \in Roots /\ Draw \in Nat
    BY DEF RoundRecord, Draw
  <1>2. h \in Hash /\ h # None /\ h.root = s.root
    BY <1>1, HashTyped
  <1> HIDE DEF h
  <1>3. t = [s EXCEPT !.random = Draw, !.masked = h]
    BY DEF Committing, h
  <1>4. t \in RoundRecord
    BY <1>1, <1>2, <1>3 DEF RoundRecord
  <1>5. /\ t.status = s.status /\ t.root = s.root /\ t.masked = h
        /\ t.att = s.att /\ t.tally = s.tally /\ t.random = Draw
        /\ t.vote = s.vote /\ t.chosen = s.chosen /\ t.saving = s.saving
    BY <1>3 DEF RoundRecord
  <1> HIDE DEF t
  <1>6. SafeRound(t, c) /\ Settled(s, t)
    BY <1>2, <1>4, <1>5, FrameSafe
  <1> QED
    BY <1>5, <1>6 DEF t

\* tryPrepareCommitData starts to save a nonempty result only, all of it valid.
LEMMA TryPrepareSafe ==
  ASSUME NEW c, NEW s, SafeRound(s, c)
  PROVE  SafeRound(TryPrepare(s), c) /\ Settled(s, TryPrepare(s))
  <1> s \in RoundRecord
    BY DEF SafeRound
  <1> DEFINE a == s.att[FirstNotValid(s)] = "invalid"
             rejected == [s EXCEPT !.isReject = a]
             empty == [Abstain(s) EXCEPT !.abstaining = @ + 1]
             saved == [s EXCEPT !.saving = @ + 1]
  <1>1. CASE TryPrepare(s) = s
    BY <1>1 DEF Settled
  <1>2. CASE TryPrepare(s) = rejected
    <2>1. a \in BOOLEAN
      OBVIOUS
    <2> HIDE DEF a
    <2>2. rejected \in RoundRecord
      BY <2>1 DEF RoundRecord
    <2>3. /\ rejected.status = s.status /\ rejected.root = s.root
          /\ rejected.att = s.att /\ rejected.tally = s.tally
          /\ rejected.vote = s.vote /\ rejected.chosen = s.chosen
          /\ rejected.masked = s.masked /\ rejected.saving = s.saving
      BY DEF RoundRecord
    <2> QED
      BY <1>2, <2>2, <2>3, FrameSafe
  <1>3. CASE TryPrepare(s) = empty
    <2> DEFINE b == Abstain(s)
    <2>1. SafeRound(b, c) /\ Settled(s, b)
      BY AbstainSafe
    <2>2. b \in RoundRecord
      BY <2>1 DEF SafeRound
    <2> HIDE DEF b
    <2>3. [b EXCEPT !.abstaining = @ + 1] \in RoundRecord
      BY <2>2 DEF RoundRecord
    <2> DEFINE t == [b EXCEPT !.abstaining = @ + 1]
    <2>4. /\ t.status = b.status /\ t.root = b.root /\ t.masked = b.masked
          /\ t.att = b.att /\ t.tally = b.tally
          /\ t.vote = b.vote /\ t.chosen = b.chosen /\ t.saving = b.saving
      BY <2>2 DEF RoundRecord
    <2> HIDE DEF t
    <2>5. SafeRound(t, c) /\ Settled(b, t)
      BY <2>1, <2>3, <2>4, FrameSafe DEF t
    <2> QED
      BY <1>3, <2>1, <2>5 DEF Settled, t, b
  <1>4. CASE /\ TryPrepare(s) = saved /\ s.status = Chosen
             /\ NotValid(s) = {} /\ s.chosen # {}
    <2>1. s.saving \in Nat /\ saved \in RoundRecord
      BY DEF RoundRecord
    <2>2. /\ saved.status = s.status /\ saved.root = s.root
          /\ saved.att = s.att /\ saved.tally = s.tally
          /\ saved.vote = s.vote /\ saved.chosen = s.chosen
          /\ saved.masked = s.masked /\ saved.saving = s.saving + 1
      BY DEF RoundRecord
    <2>3. ValidIn(saved) = ValidIn(s)
      BY <2>2 DEF ValidIn
    <2>4. s.chosen = s.tally
      BY <1>4 DEF SafeRound, Whole, Zero
    <2>5. s.chosen \subseteq ValidIn(s)
      BY <1>4 DEF NotValid, ValidIn, RoundRecord, Roots
    <2> HIDE DEF saved
    <2>6. Sound(saved, c)
      BY <2>2, <2>3 DEF SafeRound, Sound
    <2>7. Whole(saved)
      BY <1>4, <2>2, <2>3, <2>4, <2>5, Statuses DEF SafeRound, Whole
    <2> QED
      BY <1>4, <2>1, <2>2, <2>6, <2>7 DEF SafeRound, Settled
  <1> QED
    BY <1>1, <1>2, <1>3, <1>4 DEF TryPrepare

\* A request changes its status: it becomes valid only when it is confirmed,
\* and a valid one stays as it is.
LEMMA RequestSafe ==
  ASSUME NEW c, NEW d, c \subseteq d, NEW s, SafeRound(s, c),
         NEW i \in Requests, s.att[i] # "valid",
         NEW v \in RequestStatus, v = "valid" => i \in d
  PROVE  /\ SafeRound([s EXCEPT !.att[i] = v], d)
         /\ Settled(s, [s EXCEPT !.att[i] = v])
  <1> DEFINE t == [s EXCEPT !.att[i] = v]
  <1> s \in RoundRecord
    BY DEF SafeRound
  <1>1. t \in RoundRecord
    BY DEF RoundRecord
  <1>2. /\ t.status = s.status /\ t.root = s.root /\ t.masked = s.masked
        /\ t.att = [s.att EXCEPT ![i] = v] /\ t.tally = s.tally
        /\ t.vote = s.vote /\ t.chosen = s.chosen /\ t.saving = s.saving
    BY DEF RoundRecord
  <1>3. s.att \in [Requests -> RequestStatus]
    BY DEF RoundRecord
  <1> HIDE DEF t
  <1>4. ValidIn(s) \subseteq ValidIn(t) /\ ValidIn(t) \subseteq ValidIn(s) \cup {i}
    BY <1>2, <1>3 DEF ValidIn
  <1>5. ValidIn(t) \subseteq d
    <2>1. CASE v = "valid"
      BY <1>4, <2>1 DEF SafeRound, Sound
    <2>2. CASE v # "valid"
      BY <1>2, <1>3, <2>2 DEF SafeRound, Sound, ValidIn
    <2> QED
      BY <2>1, <2>2
  <1>6. Sound(t, d)
    BY <1>2, <1>5 DEF SafeRound, Sound
  <1>7. Whole(t)
    BY <1>2, <1>4 DEF SafeRound, Whole
  <1> QED
    BY <1>1, <1>2, <1>6, <1>7 DEF SafeRound, Settled, t

\* The two methods that run after every event.
LEMMA CountedSafe ==
  ASSUME NEW c, NEW s, SafeRound(s, c)
  PROVE  /\ SafeRound(TryPrepare(TryCount(s)), c)
         /\ Settled(s, TryPrepare(TryCount(s)))
  <1>1. SafeRound(TryCount(s), c) /\ Settled(s, TryCount(s))
    BY TryCountSafe
  <1>2. /\ SafeRound(TryPrepare(TryCount(s)), c)
        /\ Settled(TryCount(s), TryPrepare(TryCount(s)))
    BY <1>1, TryPrepareSafe
  <1> QED
    BY <1>1, <1>2 DEF Settled

-----------------------------------------------------------------------------
(* The inductive invariant.                                                  *)

\* TypeOK without the rounds, whose records SafeRound types.
OtherTypes ==
  /\ clock \in 0..EndOfTime
  /\ up \in BOOLEAN
  /\ startRound \in Rounds
  /\ restarts \in 0..MaxRestarts
  /\ timer \in [Rounds -> 0..(CompleteTimer + 1)]
  /\ sub \in [Rounds -> SubmissionRecord]
  /\ db \in [Rounds -> Hash]
  /\ dbWrites \in [Rounds -> SUBSET Hash]
  /\ tx \in [Buffers -> Transaction \cup {None}]
  /\ board \in [Buffers -> Transaction \cup {None}]
  /\ drawn \in Nat
  /\ confirmed \in [Rounds -> SUBSET Requests]

RoundsSafe ==
  /\ rd \in [Rounds -> RoundRecord]
  /\ \A r \in Rounds : SafeRound(rd[r], confirmed[r])

\* What is saved, and what is being saved.
StorageSafe ==
  \A r \in Rounds :
    /\ db[r].root \subseteq confirmed[r]
    /\ \A w \in dbWrites[r] : w.root \subseteq confirmed[r]
    /\ sub[r].stage = "storing" =>
         sub[r].write \in Hash /\ sub[r].write.root \subseteq confirmed[r]

TxSafe ==
  \A b \in Buffers : tx[b] # None =>
    /\ tx[b].masked.root \subseteq confirmed[b - 1]
    /\ tx[b].root # Zero => b > 1 /\ tx[b].root \subseteq confirmed[b - 2]

\* A commit that has been sent is still the counted vote of its round.
SentSafe ==
  \A r \in Rounds : sub[r].stage = "sent" =>
    /\ tx[r + 1] # None
    /\ tx[r + 1].masked.root # Zero =>
         rd[r].status >= Chosen /\ tx[r + 1].masked.root = rd[r].tally

\* Nothing is submitted for a round that does not exist.
IdleSafe == \A r \in Rounds : timer[r] = 0 => sub[r].stage = "none"

Inv == OtherTypes /\ RoundsSafe /\ StorageSafe /\ TxSafe /\ SentSafe /\ IdleSafe

\* The requests confirmed so far stay confirmed.
Grows ==
  /\ confirmed' \in [Rounds -> SUBSET Requests]
  /\ \A r \in Rounds : confirmed[r] \subseteq confirmed'[r]

\* Rounds and the buffers of their commits and reveals.
LEMMA RoundsAndBuffers ==
  /\ \A r \in Rounds : r \in Nat /\ r + 1 \in Buffers /\ (r > 0 => r - 1 \in Rounds)
  /\ \A b \in Buffers : b \in Nat /\ b - 1 \in Rounds /\ (b > 1 => b - 2 \in Rounds)
  BY RoundAssumption DEF Rounds, Buffers

\* The invariant holds at the start.
LEMMA InvInit == Init => Inv
  <1> SUFFICES ASSUME Init PROVE Inv
    OBVIOUS
  <1> USE DEF Init
  <1>1. [root |-> Zero, random |-> 0] \in Hash
    BY DEF Hash, Roots, Zero
  <1>2. NoSubmission \in SubmissionRecord
    BY DEF NoSubmission, SubmissionRecord
  <1>3. OtherTypes
    BY <1>1, <1>2, RoundAssumption
    DEF OtherTypes, Rounds, EndOfTime, StagesPerWindow, CompleteTimer
  <1>4. RoundsSafe
    BY NewRoundSafe DEF RoundsSafe, SafeRound
  <1>5. StorageSafe
    BY DEF StorageSafe, NoSubmission, Zero
  <1>6. TxSafe
    BY DEF TxSafe
  <1>7. SentSafe /\ IdleSafe
    BY DEF SentSafe, IdleSafe, NoSubmission
  <1> QED
    BY <1>3, <1>4, <1>5, <1>6, <1>7 DEF Inv

\* The rounds move on, and the rest of what is safe grows or stays.
LEMMA RoundsMove ==
  ASSUME Inv, Grows, rd' \in [Rounds -> RoundRecord],
         \A q \in Rounds : SafeRound(rd'[q], confirmed'[q]) /\ Settled(rd[q], rd'[q])
  PROVE  /\ RoundsSafe'
         /\ UNCHANGED tx => TxSafe'
         /\ UNCHANGED <<sub, tx>> => SentSafe'
         /\ UNCHANGED <<sub, db, dbWrites>> => StorageSafe'
  <1>1. RoundsSafe'
    BY DEF RoundsSafe
  <1>2. ASSUME UNCHANGED tx PROVE TxSafe'
    BY <1>2, RoundsAndBuffers DEF Inv, TxSafe, Grows
  <1>3. ASSUME UNCHANGED <<sub, tx>> PROVE SentSafe'
    BY <1>3 DEF Inv, SentSafe, Settled
  <1>4. ASSUME UNCHANGED <<sub, db, dbWrites>> PROVE StorageSafe'
    BY <1>4 DEF Inv, StorageSafe, Grows
  <1> QED
    BY <1>1, <1>2, <1>3, <1>4

\* One round moves on.
LEMMA OneRoundMoves ==
  ASSUME Inv, Grows, NEW r \in Rounds, NEW s, rd' = [rd EXCEPT ![r] = s],
         SafeRound(s, confirmed'[r]), Settled(rd[r], s)
  PROVE  /\ RoundsSafe'
         /\ UNCHANGED tx => TxSafe'
         /\ UNCHANGED <<sub, tx>> => SentSafe'
         /\ UNCHANGED <<sub, db, dbWrites>> => StorageSafe'
  <1>1. rd' \in [Rounds -> RoundRecord]
    BY DEF Inv, RoundsSafe, SafeRound
  <1>2. ASSUME NEW q \in Rounds
        PROVE  SafeRound(rd'[q], confirmed'[q]) /\ Settled(rd[q], rd'[q])
    <2>1. CASE q = r
      BY <2>1 DEF Inv, RoundsSafe
    <2>2. CASE q # r
      <3>1. rd'[q] = rd[q]
        BY <2>2 DEF Inv, RoundsSafe
      <3>2. SafeRound(rd[q], confirmed'[q])
        BY SafeGrows DEF Inv, RoundsSafe, Grows
      <3> QED
        BY <3>1, <3>2 DEF Settled
    <2> QED
      BY <2>1, <2>2
  <1> QED
    BY <1>1, <1>2, RoundsMove

\* The process stops, whatever it was saving.
LEMMA ExitSafe ==
  ASSUME Inv, Grows, ProcessExit, db' \in [Rounds -> Hash],
         \A r \in Rounds : db'[r].root \subseteq confirmed'[r]
  PROVE  Inv'
  <1> USE DEF ProcessExit
  <1>1. NoSubmission \in SubmissionRecord
    BY DEF NoSubmission, SubmissionRecord
  <1>2. OtherTypes'
    <2>1. timer' \in [Rounds -> 0..(CompleteTimer + 1)]
      BY DEF CompleteTimer
    <2>2. /\ sub' \in [Rounds -> SubmissionRecord]
          /\ dbWrites' \in [Rounds -> SUBSET Hash]
      BY <1>1
    <2>3. confirmed' \in [Rounds -> SUBSET Requests]
      BY DEF Grows
    <2> QED
      BY <2>1, <2>2, <2>3 DEF Inv, OtherTypes
  <1>3. RoundsSafe'
    BY NewRoundSafe DEF RoundsSafe, SafeRound
  <1>4. StorageSafe'
    BY DEF StorageSafe, NoSubmission
  <1>5. TxSafe'
    BY RoundsAndBuffers DEF Inv, TxSafe, Grows
  <1>6. SentSafe' /\ IdleSafe'
    BY DEF SentSafe, IdleSafe, NoSubmission
  <1> QED
    BY <1>2, <1>3, <1>4, <1>5, <1>6 DEF Inv

-----------------------------------------------------------------------------
(* The steps keep the invariant.  First the actions' common parts.           *)

\* No round loses its timer.
TimersOk(timers) ==
  /\ timers \in [Rounds -> 0..(CompleteTimer + 1)]
  /\ \A r \in Rounds : timers[r] = 0 => timer[r] = 0

\* Arming the next timer of a round keeps every round's timer.
LEMMA RearmedOk ==
  ASSUME Inv, NEW r \in Rounds, NEW t \in 1..8
  PROVE  TimersOk(Rearmed(r, t))
  <1>1. NextTimer(r, t) \in 1..9
    BY DEF NextTimer, CloseTimer, RevealTimer
  <1>2. CompleteTimer + 1 = 9
    BY DEF CompleteTimer
  <1> QED
    BY <1>1, <1>2 DEF TimersOk, Rearmed, Inv, OtherTypes

\* Steps that verify nothing.
LEMMA Unconfirmed ==
  ASSUME Inv, UNCHANGED confirmed
  PROVE  Grows
  BY DEF Inv, OtherTypes, Grows

\* A handler that changes one round and nothing else.
LEMMA SetRoundSafe ==
  ASSUME Inv, Grows, NEW r \in Rounds, NEW s, SetRound(r, s), TimersOk(timer'),
         SafeRound(s, confirmed'[r]), Settled(rd[r], s)
  PROVE  Inv'
  <1> USE DEF SetRound, process, storage, chain
  <1>1. OtherTypes'
    BY DEF Inv, OtherTypes, Grows, TimersOk
  <1>2. RoundsSafe' /\ TxSafe' /\ SentSafe' /\ StorageSafe'
    BY OneRoundMoves
  <1>3. IdleSafe'
    BY DEF Inv, IdleSafe, TimersOk
  <1> QED
    BY <1>1, <1>2, <1>3 DEF Inv

\* The count and the preparation after an event, or the exit they end in.
LEMMA CountAndPrepareSafe ==
  ASSUME Inv, Grows, NEW r \in Rounds, NEW s, NEW timers, TimersOk(timers),
         SafeRound(s, confirmed'[r]), Settled(rd[r], s),
         CountAndPrepare(r, s, timers)
  PROVE  Inv'
  <1>1. CASE ProcessExit /\ UNCHANGED db
    BY <1>1, ExitSafe DEF Inv, OtherTypes, StorageSafe, Grows
  <1>2. CASE SetRound(r, TryPrepare(TryCount(s))) /\ timer' = timers
    <2>1. /\ SafeRound(TryPrepare(TryCount(s)), confirmed'[r])
          /\ Settled(rd[r], TryPrepare(TryCount(s)))
      BY CountedSafe DEF Settled
    <2> QED
      BY <1>2, <2>1, SetRoundSafe
  <1> QED
    BY <1>1, <1>2 DEF CountAndPrepare

\* Steps that arm nothing.
LEMMA SameTimers == ASSUME Inv PROVE TimersOk(timer)
  BY DEF Inv, OtherTypes, TimersOk

\* What the invariant says of one round.
LEMMA SafeNow ==
  ASSUME Inv, NEW r \in Rounds
  PROVE  /\ SafeRound(rd[r], confirmed[r]) /\ rd[r] \in RoundRecord
         /\ UNCHANGED confirmed => SafeRound(rd[r], confirmed'[r])
         /\ Settled(rd[r], rd[r])
  BY DEF Inv, RoundsSafe, Settled

-----------------------------------------------------------------------------
(* Requests, votes, phases.                                                  *)

\* A new request, processed at once or sent to a verifier.
LEMMA AddAttestationSafe ==
  ASSUME Inv, NEW r \in Rounds, AddAttestation(r)
  PROVE  Inv'
  <1>1. Grows
    BY Unconfirmed DEF AddAttestation
  <1>2. SafeRound(rd[r], confirmed[r]) /\ confirmed[r] \subseteq confirmed'[r]
    BY <1>1, SafeNow DEF Grows
  <1>3. PICK i \in Requests \ Listed(r) :
          \/ SetRound(r, [rd[r] EXCEPT !.att[i] = "processing"]) /\ UNCHANGED timer
          \/ \E status \in {"invalid", "undetermined"} :
               CountAndPrepare(r, [rd[r] EXCEPT !.att[i] = status], timer)
    BY DEF AddAttestation
  <1>4. i \in Requests /\ rd[r].att[i] = "absent"
    BY DEF Listed
  <1>5. ASSUME NEW v \in {"processing", "invalid", "undetermined"}
        PROVE  /\ SafeRound([rd[r] EXCEPT !.att[i] = v], confirmed'[r])
               /\ Settled(rd[r], [rd[r] EXCEPT !.att[i] = v])
    <2>1. v \in RequestStatus /\ v # "valid"
      BY DEF RequestStatus
    <2> QED
      BY <1>2, <1>4, <2>1, RequestSafe
  <1>6. CASE SetRound(r, [rd[r] EXCEPT !.att[i] = "processing"]) /\ UNCHANGED timer
    BY <1>1, <1>5, <1>6, SameTimers, SetRoundSafe
  <1>7. CASE \E status \in {"invalid", "undetermined"} :
               CountAndPrepare(r, [rd[r] EXCEPT !.att[i] = status], timer)
    BY <1>1, <1>5, <1>7, SameTimers, CountAndPrepareSafe
  <1> QED
    BY <1>3, <1>6, <1>7

\* A verifier's answer confirms the request it makes valid.
LEMMA AttestationProcessedSafe ==
  ASSUME Inv, NEW r \in Rounds, NEW i \in Requests, NEW verdict \in Verdicts,
         AttestationProcessed(r, i, verdict)
  PROVE  Inv'
  <1> DEFINE v == StatusOf(verdict)
             t == [rd[r] EXCEPT !.att[i] = v]
  <1>1. /\ Grows
        /\ v = "valid" => i \in confirmed'[r]
    BY DEF AttestationProcessed, Grows, Inv, OtherTypes, StatusOf, Verdicts
  <1>2. v \in RequestStatus
    BY DEF StatusOf, RequestStatus
  <1>3. SafeRound(rd[r], confirmed[r]) /\ confirmed[r] \subseteq confirmed'[r]
    BY <1>1, SafeNow DEF Grows
  <1>4. rd[r].att[i] # "valid" /\ CountAndPrepare(r, t, timer)
    BY DEF AttestationProcessed
  <1> HIDE DEF v
  <1>5. SafeRound(t, confirmed'[r]) /\ Settled(rd[r], t)
    BY <1>1, <1>2, <1>3, <1>4, RequestSafe
  <1> HIDE DEF t
  <1> QED
    BY <1>1, <1>4, <1>5, SameTimers, CountAndPrepareSafe

\* Votes change the tally of a round that has not counted them.
LEMMA RegisterBitVoteSafe ==
  ASSUME Inv, NEW r \in Rounds, RegisterBitVote(r)
  PROVE  Inv'
  <1>1. Grows /\ TimersOk(timer')
    BY Unconfirmed, SameTimers DEF RegisterBitVote
  <1>2. PICK tally \in Roots : SetRound(r, [rd[r] EXCEPT !.tally = tally])
    BY DEF RegisterBitVote
  <1> DEFINE s == rd[r]
             t == [s EXCEPT !.tally = tally]
  <1>3. s.status < Chosen
    BY Statuses, SafeNow DEF RegisterBitVote, RoundRecord
  <1>4. s \in RoundRecord /\ SafeRound(s, confirmed'[r])
    BY SafeNow DEF RegisterBitVote
  <1> HIDE DEF s
  <1>5. t \in RoundRecord
    BY <1>4 DEF RoundRecord
  <1>6. /\ t.status = s.status /\ t.root = s.root /\ t.masked = s.masked
        /\ t.att = s.att /\ t.vote = s.vote /\ t.saving = s.saving
    BY <1>4 DEF RoundRecord
  <1> HIDE DEF t
  <1>7. ~(s.status >= Chosen) /\ s.status # Chosen
    BY <1>3, <1>4, Statuses DEF RoundRecord
  <1>8. ValidIn(t) = ValidIn(s)
    BY <1>6 DEF ValidIn
  <1>9. SafeRound(t, confirmed'[r]) /\ Settled(s, t)
    BY <1>4, <1>5, <1>6, <1>7, <1>8 DEF SafeRound, Sound, Whole, Settled
  <1> QED
    BY <1>1, <1>2, <1>9, SetRoundSafe DEF s, t

\* Closing the vote, and the count it starts.
LEMMA CloseBitVotingSafe ==
  ASSUME Inv, UNCHANGED confirmed, NEW r \in Rounds, NEW timers, TimersOk(timers),
         CloseBitVoting(r, timers)
  PROVE  Inv'
  <1> DEFINE s == rd[r]
             t == [s EXCEPT !.status = BitVotingClosed]
  <1>1. Grows
    BY Unconfirmed
  <1>2. s \in RoundRecord /\ SafeRound(s, confirmed'[r]) /\ Settled(s, s)
    BY SafeNow
  <1>3. CASE s.status < BitVotingClosed
    <2>1. CountAndPrepare(r, t, timers)
      BY <1>3 DEF CloseBitVoting
    <2> HIDE DEF s
    <2>2. t \in RoundRecord
      BY <1>2, StatusRange DEF RoundRecord
    <2>3. /\ t.status = BitVotingClosed /\ t.root = s.root /\ t.masked = s.masked
          /\ t.att = s.att /\ t.tally = s.tally
          /\ t.vote = s.vote /\ t.chosen = s.chosen /\ t.saving = s.saving
      BY <1>2 DEF RoundRecord
    <2> HIDE DEF t
    <2>4. s.status < Chosen /\ t.status < Chosen
      BY <1>2, <1>3, <2>3, Statuses DEF RoundRecord
    <2>5. SafeRound(t, confirmed'[r]) /\ Settled(s, t)
      BY <1>2, <2>2, <2>3, <2>4, FrameSafe
    <2> QED
      BY <1>1, <2>1, <2>5, CountAndPrepareSafe DEF s
  <1>4. CASE ~(s.status < BitVotingClosed)
    <2>1. SetRound(r, s) /\ timer' = timers
      BY <1>4 DEF CloseBitVoting
    <2> QED
      BY <1>1, <1>2, <2>1, SetRoundSafe
  <1> QED
    BY <1>3, <1>4

\* The two callers of closeBitVoting.
LEMMA ClosingSafe ==
  ASSUME Inv, NEW r \in Rounds, CloseByBlock(r) \/ ForceClose(r)
  PROVE  Inv'
  <1>1. CASE CloseByBlock(r)
    BY <1>1, SameTimers, CloseBitVotingSafe DEF CloseByBlock
  <1>2. CASE ForceClose(r)
    <2>1. TimersOk(Rearmed(r, CloseTimer))
      BY RearmedOk DEF CloseTimer
    <2> QED
      BY <1>2, <2>1, CloseBitVotingSafe DEF ForceClose
  <1> QED
    BY <1>1, <1>2

\* Setting the phase changes nothing else.
LEMMA PhaseSafe ==
  ASSUME NEW c, NEW s, SafeRound(s, c),
         NEW p \in {"collect", "choose", "commit", "reveal", "finalise"}
  PROVE  /\ SafeRound([s EXCEPT !.phase = p], c)
         /\ Settled(s, [s EXCEPT !.phase = p])
  <1> DEFINE t == [s EXCEPT !.phase = p]
  <1>1. s \in RoundRecord /\ t \in RoundRecord
    BY DEF SafeRound, RoundRecord
  <1>2. /\ t.status = s.status /\ t.root = s.root /\ t.masked = s.masked
        /\ t.att = s.att /\ t.tally = s.tally
        /\ t.vote = s.vote /\ t.chosen = s.chosen /\ t.saving = s.saving
    BY <1>1 DEF RoundRecord
  <1> HIDE DEF t
  <1>3. SafeRound(t, c) /\ Settled(s, t)
    BY <1>1, <1>2, FrameSafe
  <1> QED
    BY <1>3 DEF t

\* The timers that set the phase of a round.
LEMMA PhaseTimersSafe ==
  ASSUME Inv, NEW r \in Rounds,
         \/ OnChoosePhaseStart(r) \/ OnCommitPhaseStart(r)
         \/ OnRevealPhaseStart(r) \/ OnFinalisePhaseStart(r)
  PROVE  Inv'
  <1>1. Grows
    BY Unconfirmed
    DEF OnChoosePhaseStart, OnCommitPhaseStart, OnRevealPhaseStart, OnFinalisePhaseStart
  <1>2. SafeRound(rd[r], confirmed'[r])
    BY <1>1, SafeNow, SafeGrows DEF Grows
  <1>3. CASE OnChoosePhaseStart(r)
    <2> DEFINE s == [rd[r] EXCEPT !.phase = "choose"]
    <2>1. SafeRound(s, confirmed'[r]) /\ Settled(rd[r], s)
      BY <1>2, PhaseSafe
    <2>2. SetRound(r, s) /\ TimersOk(timer')
      BY <1>3, RearmedOk DEF OnChoosePhaseStart, ChooseTimer
    <2> QED
      BY <1>1, <2>1, <2>2, SetRoundSafe
  <1>4. CASE OnRevealPhaseStart(r)
    <2> DEFINE s == [rd[r] EXCEPT !.phase = "reveal"]
    <2>1. SafeRound(s, confirmed'[r]) /\ Settled(rd[r], s)
      BY <1>2, PhaseSafe
    <2>2. SetRound(r, s) /\ TimersOk(timer')
      BY <1>4, RearmedOk DEF OnRevealPhaseStart, RevealTimer
    <2> QED
      BY <1>1, <2>1, <2>2, SetRoundSafe
  <1>5. CASE OnFinalisePhaseStart(r)
    <2> DEFINE s == [rd[r] EXCEPT !.phase = "finalise"]
    <2>1. SafeRound(s, confirmed'[r]) /\ Settled(rd[r], s)
      BY <1>2, PhaseSafe
    <2>2. SetRound(r, s) /\ TimersOk(timer')
      BY <1>5, RearmedOk DEF OnFinalisePhaseStart, CompleteTimer
    <2> QED
      BY <1>1, <2>1, <2>2, SetRoundSafe
  <1>6. CASE OnCommitPhaseStart(r)
    <2> DEFINE s == [rd[r] EXCEPT !.phase = "commit"]
    <2>1. SafeRound(s, confirmed'[r]) /\ Settled(rd[r], s)
      BY <1>2, PhaseSafe
    <2>2. SetRound(r, TryPrepare(s)) /\ TimersOk(timer')
      BY <1>6, RearmedOk DEF OnCommitPhaseStart, CommitTimer
    <2> HIDE DEF s
    <2>3. SafeRound(TryPrepare(s), confirmed'[r]) /\ Settled(rd[r], TryPrepare(s))
      BY <2>1, TryPrepareSafe DEF Settled
    <2> QED
      BY <1>1, <2>2, <2>3, SetRoundSafe
  <1> QED
    BY <1>3, <1>4, <1>5, <1>6

\* The bit vote is a snapshot of the valid requests.
LEMMA OnSubmitBitVoteSafe ==
  ASSUME Inv, NEW r \in Rounds, OnSubmitBitVote(r)
  PROVE  Inv'
  <1> DEFINE s == rd[r]
             t == [s EXCEPT !.vote = ValidIn(s)]
  <1>1. Grows /\ TimersOk(timer') /\ SetRound(r, t)
    BY Unconfirmed, RearmedOk DEF OnSubmitBitVote, BitVoteTimer
  <1>2. s \in RoundRecord /\ SafeRound(s, confirmed'[r])
    BY SafeNow DEF OnSubmitBitVote
  <1> HIDE DEF s
  <1>3. ValidIn(s) \in Roots
    BY DEF ValidIn, Roots
  <1>4. t \in RoundRecord
    BY <1>2, <1>3 DEF RoundRecord
  <1>5. /\ t.status = s.status /\ t.root = s.root /\ t.masked = s.masked
        /\ t.att = s.att /\ t.tally = s.tally
        /\ t.vote = ValidIn(s) /\ t.chosen = s.chosen /\ t.saving = s.saving
    BY <1>2 DEF RoundRecord
  <1> HIDE DEF t
  <1>6. ValidIn(t) = ValidIn(s)
    BY <1>5 DEF ValidIn
  <1>7. SafeRound(t, confirmed'[r]) /\ Settled(s, t)
    BY <1>2, <1>4, <1>5, <1>6 DEF SafeRound, Sound, Whole, Settled
  <1> QED
    BY <1>1, <1>7, SetRoundSafe DEF s

-----------------------------------------------------------------------------
(* The continuations of a preparation, and what is saved.                    *)

\* A continuation of round r that saves what the round is now.
LEMMA SavingSafe ==
  ASSUME Inv, NEW r \in Rounds, NEW s,
         SafeRound(s, confirmed[r]), Settled(rd[r], s),
         rd' = [rd EXCEPT ![r] = s], SaveRound(r, s), drawn' = Draw,
         UNCHANGED <<clock, process, timer, sub, db, chain, confirmed>>
  PROVE  Inv'
  <1> USE DEF process, chain
  <1>1. Grows
    BY Unconfirmed
  <1>2. Stored(s) \in Hash /\ Stored(s).root = s.root
    BY HashTyped DEF Stored, SafeRound, RoundRecord
  <1>3. RoundsSafe' /\ TxSafe' /\ SentSafe'
    BY <1>1, OneRoundMoves
  <1>4. OtherTypes'
    BY <1>2 DEF Inv, OtherTypes, SaveRound, Draw
  <1>5. StorageSafe'
    BY <1>2 DEF Inv, OtherTypes, StorageSafe, SaveRound, SafeRound, Sound
  <1>6. IdleSafe'
    BY DEF Inv, IdleSafe
  <1> QED
    BY <1>3, <1>4, <1>5, <1>6 DEF Inv

\* The root of the Merkle tree is the whole chosen set.
LEMMA VotesSavedSafe ==
  ASSUME Inv, NEW r \in Rounds, VotesSaved(r)
  PROVE  Inv'
  <1> DEFINE s == rd[r]
             t == [s EXCEPT !.saving = @ - 1, !.drawing = @ + 1, !.root = s.chosen]
  <1> USE DEF process, chain, storage
  <1>1. Grows
    BY Unconfirmed DEF VotesSaved
  <1>2. s \in RoundRecord /\ SafeRound(s, confirmed[r]) /\ s.saving > 0
    BY SafeNow DEF VotesSaved
  <1>3. rd' = [rd EXCEPT ![r] = t]
    BY DEF VotesSaved, Inv, RoundsSafe, RoundRecord
  <1> HIDE DEF s
  <1>4. s.saving - 1 \in Nat /\ s.saving \in Nat /\ s.drawing + 1 \in Nat /\ s.chosen \in Roots
    BY <1>2 DEF RoundRecord
  <1>5. t \in RoundRecord
    BY <1>2, <1>4 DEF RoundRecord
  <1>6. /\ t.status = s.status /\ t.root = s.chosen /\ t.masked = s.masked
        /\ t.att = s.att /\ t.tally = s.tally
        /\ t.vote = s.vote /\ t.chosen = s.chosen /\ t.saving = s.saving - 1
    BY <1>2 DEF RoundRecord
  <1> HIDE DEF t
  <1>7. ValidIn(t) = ValidIn(s)
    BY <1>6 DEF ValidIn
  <1>8. s.status >= Chosen /\ s.chosen = s.tally /\ s.chosen \subseteq ValidIn(s)
    BY <1>2 DEF SafeRound, Whole
  <1>9. SafeRound(t, confirmed[r]) /\ Settled(s, t)
    <2>1. Sound(t, confirmed[r])
      BY <1>2, <1>6, <1>7, <1>8 DEF SafeRound, Sound
    <2>2. Whole(t)
      BY <1>2, <1>4, <1>6, <1>7, <1>8 DEF SafeRound, Whole
    <2> QED
      BY <1>5, <1>6, <2>1, <2>2 DEF SafeRound, Settled
  <1>10. UNCHANGED confirmed
    BY DEF VotesSaved
  <1>11. RoundsSafe' /\ TxSafe' /\ SentSafe' /\ StorageSafe'
    BY <1>1, <1>3, <1>9, <1>10, OneRoundMoves DEF VotesSaved, s
  <1>12. OtherTypes' /\ IdleSafe'
    BY DEF Inv, OtherTypes, IdleSafe, VotesSaved
  <1> QED
    BY <1>11, <1>12 DEF Inv

\* The commit data are ready.
LEMMA CommitPreparedSafe ==
  ASSUME Inv, NEW r \in Rounds, CommitPrepared(r)
  PROVE  Inv'
  <1> DEFINE b == Committing(rd[r])
             t == [b EXCEPT !.drawing = @ - 1, !.status = CommitDataPrepared]
  <1>1. SafeRound(b, confirmed[r]) /\ Settled(rd[r], b)
    BY SafeNow, CommittingSafe DEF Inv, OtherTypes
  <1>2. b \in RoundRecord /\ b.drawing = rd[r].drawing
    BY <1>1, SafeNow DEF SafeRound, Committing, RoundRecord
  <1>3. /\ rd[r].drawing > 0 /\ rd' = [rd EXCEPT ![r] = t] /\ SaveRound(r, t)
        /\ drawn' = Draw
        /\ UNCHANGED <<clock, process, timer, sub, db, chain, confirmed>>
    BY DEF CommitPrepared
  <1> HIDE DEF b
  <1>4. b.drawing - 1 \in Nat
    BY <1>2, <1>3 DEF RoundRecord
  <1>5. t \in RoundRecord
    BY <1>2, <1>4, StatusRange DEF RoundRecord
  <1>6. /\ t.status = CommitDataPrepared /\ t.root = b.root /\ t.masked = b.masked
        /\ t.att = b.att /\ t.tally = b.tally
        /\ t.vote = b.vote /\ t.chosen = b.chosen /\ t.saving = b.saving
    BY <1>2 DEF RoundRecord
  <1> HIDE DEF t
  <1>7. t.status > Chosen
    BY <1>6, Statuses
  <1>8. SafeRound(t, confirmed[r]) /\ Settled(b, t)
    BY <1>1, <1>5, <1>6, <1>7, FrameSafe
  <1>9. Settled(rd[r], t)
    BY <1>1, <1>8 DEF Settled
  <1> QED
    BY <1>3, <1>8, <1>9, SavingSafe

\* An abstention of tryPrepareCommitData is ready.
LEMMA AbstentionPreparedSafe ==
  ASSUME Inv, NEW r \in Rounds, AbstentionPrepared(r)
  PROVE  Inv'
  <1> DEFINE b == Abstained(rd[r])
             t == [b EXCEPT !.abstaining = @ - 1]
  <1>1. SafeRound(b, confirmed[r]) /\ Settled(rd[r], b)
    BY SafeNow, AbstainedSafe DEF Inv, OtherTypes
  <1>2. b \in RoundRecord /\ b.abstaining = rd[r].abstaining
    BY <1>1, SafeNow DEF SafeRound, Abstained, RoundRecord
  <1>3. /\ rd[r].abstaining > 0 /\ rd' = [rd EXCEPT ![r] = t] /\ SaveRound(r, t)
        /\ drawn' = Draw
        /\ UNCHANGED <<clock, process, timer, sub, db, chain, confirmed>>
    BY DEF AbstentionPrepared
  <1> HIDE DEF b
  <1>4. b.abstaining - 1 \in Nat
    BY <1>2, <1>3 DEF RoundRecord
  <1>5. t \in RoundRecord
    BY <1>2, <1>4 DEF RoundRecord
  <1>6. /\ t.status = b.status /\ t.root = b.root /\ t.masked = b.masked
        /\ t.att = b.att /\ t.tally = b.tally
        /\ t.vote = b.vote /\ t.chosen = b.chosen /\ t.saving = b.saving
    BY <1>2 DEF RoundRecord
  <1> HIDE DEF t
  <1>7. SafeRound(t, confirmed[r]) /\ Settled(b, t)
    BY <1>1, <1>5, <1>6, FrameSafe
  <1>8. Settled(rd[r], t)
    BY <1>1, <1>7 DEF Settled
  <1> QED
    BY <1>3, <1>7, <1>8, SavingSafe

\* A write that completes, completes or fails: in any order.
LEMMA RoundSavedSafe ==
  ASSUME Inv, NEW r \in Rounds, RoundSaved(r)
  PROVE  Inv'
  <1> USE DEF process, chain
  <1>1. PICK w \in dbWrites[r] :
          /\ dbWrites' = [dbWrites EXCEPT ![r] = @ \ {w}]
          /\ db' = [db EXCEPT ![r] = w] \/ UNCHANGED db
    BY DEF RoundSaved
  <1>2. w \in Hash /\ w.root \subseteq confirmed[r]
    BY DEF Inv, OtherTypes, StorageSafe
  <1>3. UNCHANGED <<clock, process, timer, rd, sub, chain, drawn, confirmed>>
    BY DEF RoundSaved
  <1>4. OtherTypes'
    BY <1>1, <1>2, <1>3 DEF Inv, OtherTypes
  <1>5. StorageSafe'
    BY <1>1, <1>2, <1>3 DEF Inv, OtherTypes, StorageSafe
  <1>6. RoundsSafe' /\ TxSafe' /\ SentSafe' /\ IdleSafe'
    BY <1>3 DEF Inv, RoundsSafe, TxSafe, SentSafe, IdleSafe
  <1> QED
    BY <1>4, <1>5, <1>6 DEF Inv

-----------------------------------------------------------------------------
(* The submissions.                                                          *)

\* The database may have taken a write, and all it holds is confirmed.
DbSafe ==
  /\ db' \in [Rounds -> Hash]
  /\ \A r \in Rounds : db'[r].root \subseteq confirmed[r]

\* A new status past Chosen.
LEMMA StatusSafe ==
  ASSUME NEW c, NEW s, SafeRound(s, c),
         NEW v \in {CommitDataPrepared, Committed, Revealed, Error}
  PROVE  /\ SafeRound([s EXCEPT !.status = v], c)
         /\ Settled(s, [s EXCEPT !.status = v])
  <1> DEFINE t == [s EXCEPT !.status = v]
  <1>1. v > Chosen /\ v \in Collecting..Error
    BY Statuses
  <1>2. s \in RoundRecord /\ t \in RoundRecord
    BY <1>1 DEF SafeRound, RoundRecord
  <1>3. /\ t.status = v /\ t.root = s.root /\ t.masked = s.masked
        /\ t.att = s.att /\ t.tally = s.tally
        /\ t.vote = s.vote /\ t.chosen = s.chosen /\ t.saving = s.saving
    BY <1>2 DEF RoundRecord
  <1> HIDE DEF t
  <1>4. SafeRound(t, c) /\ Settled(s, t)
    BY <1>1, <1>2, <1>3, FrameSafe
  <1> QED
    BY <1>4 DEF t

\* The synchronous part of rejectVoteRound.
LEMMA RejectSafe ==
  ASSUME NEW c, NEW s, SafeRound(s, c)
  PROVE  /\ SafeRound([s EXCEPT !.status = CommitDataPrepared, !.root = Zero], c)
         /\ Settled(s, [s EXCEPT !.status = CommitDataPrepared, !.root = Zero])
  <1> DEFINE t == [s EXCEPT !.status = CommitDataPrepared, !.root = Zero]
  <1>1. Zero \in Roots
    BY DEF Zero, Roots
  <1>2. s \in RoundRecord /\ t \in RoundRecord
    BY <1>1, StatusRange DEF SafeRound, RoundRecord
  <1>3. /\ t.status = CommitDataPrepared /\ t.root = Zero /\ t.masked = s.masked
        /\ t.att = s.att /\ t.tally = s.tally
        /\ t.vote = s.vote /\ t.chosen = s.chosen /\ t.saving = s.saving
    BY <1>2 DEF RoundRecord
  <1> HIDE DEF t
  <1>4. SafeRound(t, c) /\ Settled(s, t)
    BY <1>2, <1>3, FrameSafe, Statuses
  <1> QED
    BY <1>4 DEF t

\* A transaction carries the commit the round has prepared.
LEMMA SubmitSafe ==
  ASSUME Inv, NEW r \in Rounds, NEW root \in Roots, NEW random \in Nat,
         root # Zero => r > 0 /\ root \subseteq confirmed[r - 1],
         NEW timers, TimersOk(timers), timers[r] # 0,
         Submit(r, root, random, timers), UNCHANGED confirmed, DbSafe
  PROVE  Inv'
  <1>1. Grows
    BY Unconfirmed
  <1>2. CASE rd[r].masked = None
    BY <1>1, <1>2, ExitSafe DEF Submit, DbSafe
  <1>3. CASE rd[r].masked # None
    <2> DEFINE t == [masked |-> rd[r].masked, root |-> root, random |-> random]
    <2> USE DEF process
    <2>1. /\ tx' = [tx EXCEPT ![r + 1] = t]
          /\ sub' = [sub EXCEPT ![r].stage = "sent"]
          /\ timer' = timers
          /\ UNCHANGED <<clock, process, rd, dbWrites, board, drawn>>
      BY <1>3 DEF Submit
    <2>2. /\ SafeRound(rd[r], confirmed[r]) /\ rd[r].masked \in Hash
      BY <1>3, SafeNow DEF RoundRecord
    <2>4. r + 1 \in Buffers /\ r \in Nat /\ (r > 0 => r - 1 \in Rounds)
      BY RoundsAndBuffers
    <2>5. \A q \in Rounds : sub'[q] \in SubmissionRecord
      BY <2>1 DEF Inv, OtherTypes, SubmissionRecord
    <2>6. sub' \in [Rounds -> SubmissionRecord]
      BY <2>1, <2>5 DEF Inv, OtherTypes
    <2>7. t \in Transaction
      BY <2>2 DEF Transaction
    <2>8. /\ t.masked = rd[r].masked /\ t.root = root
      OBVIOUS
    <2> HIDE DEF t
    <2>9. OtherTypes'
      BY <2>1, <2>4, <2>6, <2>7 DEF Inv, OtherTypes, DbSafe, TimersOk
    <2>10. RoundsSafe'
      BY <2>1 DEF Inv, RoundsSafe
    <2>11. StorageSafe'
      BY <2>1 DEF Inv, OtherTypes, StorageSafe, DbSafe, SubmissionRecord
    <2>12. TxSafe'
      <3> SUFFICES ASSUME NEW b \in Buffers, tx'[b] # None
                   PROVE  /\ tx'[b].masked.root \subseteq confirmed[b - 1]
                          /\ tx'[b].root # Zero => b > 1 /\ tx'[b].root \subseteq confirmed[b - 2]
        BY DEF TxSafe
      <3>1. CASE b = r + 1
        <4>1. tx'[b] = t /\ b - 1 = r /\ b - 2 = r - 1
          BY <2>1, <2>4, <3>1 DEF Inv, OtherTypes
        <4>2. t.masked.root \subseteq confirmed[r]
          BY <1>3, <2>2, <2>8 DEF SafeRound, Sound
        <4> QED
          BY <2>4, <2>8, <3>1, <4>1, <4>2
      <3>2. CASE b # r + 1
        BY <2>1, <3>2 DEF Inv, OtherTypes, TxSafe
      <3> QED
        BY <3>1, <3>2
    <2>13. SentSafe'
      <3> SUFFICES ASSUME NEW q \in Rounds, sub'[q].stage = "sent"
                   PROVE  /\ tx'[q + 1] # None
                          /\ tx'[q + 1].masked.root # Zero =>
                               rd[q].status >= Chosen /\ tx'[q + 1].masked.root = rd[q].tally
        BY <2>1 DEF SentSafe
      <3>1. CASE q = r
        <4>1. tx'[q + 1] = t
          BY <2>1, <2>4, <3>1 DEF Inv, OtherTypes
        <4>2. t # None
          BY <2>7, RoundAssumption
        <4> QED
          BY <1>3, <2>2, <2>8, <3>1, <4>1, <4>2 DEF SafeRound, Whole
      <3>2. CASE q # r
        <4>1. q + 1 # r + 1 /\ q + 1 \in Buffers
          BY <2>4, <3>2, RoundsAndBuffers
        <4>2. tx'[q + 1] = tx[q + 1] /\ sub'[q] = sub[q]
          BY <2>1, <3>2, <4>1 DEF Inv, OtherTypes
        <4> QED
          BY <4>2 DEF Inv, SentSafe
      <3> QED
        BY <3>1, <3>2
    <2>14. IdleSafe'
      BY <2>1 DEF Inv, OtherTypes, IdleSafe, TimersOk
    <2> QED
      BY <2>9, <2>10, <2>11, <2>12, <2>13, <2>14 DEF Inv
  <1> QED
    BY <1>2, <1>3

\* A submission goes on to another stage, and takes up to one round with it.
LEMMA StageSafe ==
  ASSUME Inv, NEW r \in Rounds, NEW x \in SubmissionRecord,
         x.stage # "sent",
         x.stage = "storing" => x.write \in Hash /\ x.write.root \subseteq confirmed[r],
         sub' = [sub EXCEPT ![r] = x],
         TimersOk(timer'), timer'[r] # 0, DbSafe,
         NEW q \in Rounds, NEW s, SafeRound(s, confirmed[q]), Settled(rd[q], s),
         rd' = [rd EXCEPT ![q] = s],
         UNCHANGED <<clock, process, dbWrites, chain, confirmed>>,
         drawn' \in Nat
  PROVE  Inv'
  <1> USE DEF process, chain
  <1>1. Grows
    BY Unconfirmed
  <1>2. RoundsSafe' /\ TxSafe'
    BY <1>1, OneRoundMoves
  <1>3. OtherTypes'
    BY DEF Inv, OtherTypes, TimersOk, DbSafe
  <1>4. StorageSafe'
    BY DEF Inv, OtherTypes, StorageSafe, DbSafe
  <1>5. SentSafe'
    <2> SUFFICES ASSUME NEW z \in Rounds, sub'[z].stage = "sent"
                 PROVE  /\ tx[z + 1] # None
                        /\ tx[z + 1].masked.root # Zero =>
                             rd'[z].status >= Chosen /\ tx[z + 1].masked.root = rd'[z].tally
      BY DEF SentSafe
    <2>1. sub[z].stage = "sent"
      BY DEF Inv, OtherTypes
    <2>2. Settled(rd[z], rd'[z])
      BY DEF Inv, RoundsSafe, Settled
    <2> QED
      BY <2>1, <2>2 DEF Inv, SentSafe, Settled
  <1>6. IdleSafe'
    BY DEF Inv, OtherTypes, IdleSafe, TimersOk
  <1> QED
    BY <1>2, <1>3, <1>4, <1>5, <1>6 DEF Inv

\* A submission with another stage.
LEMMA StageTyped ==
  ASSUME Inv, NEW r \in Rounds, NEW v \in Preparing \cup {"none", "sent", "done"}
  PROVE  /\ [sub[r] EXCEPT !.stage = v] \in SubmissionRecord
         /\ [sub[r] EXCEPT !.stage = v].stage = v
         /\ [sub EXCEPT ![r].stage = v] = [sub EXCEPT ![r] = [sub[r] EXCEPT !.stage = v]]
  BY DEF Inv, OtherTypes, SubmissionRecord

\* What is saved already is safe.
LEMMA DbUnchanged == ASSUME Inv, UNCHANGED db PROVE DbSafe
  BY DEF Inv, OtherTypes, StorageSafe, DbSafe

\* A submission under way belongs to a round that exists.
LEMMA StageAlive ==
  ASSUME Inv, NEW r \in Rounds, sub[r].stage # "none"
  PROVE  timer[r] # 0
  BY DEF Inv, IdleSafe

\* The reveal of the round before goes out with the commit, or is skipped.
LEMMA SubmitLinkedSafe ==
  ASSUME Inv, NEW r \in Rounds, r > 0, NEW canReveal, NEW timers,
         TimersOk(timers), timers[r] # 0,
         SubmitLinked(r, canReveal, timers), UNCHANGED confirmed, DbSafe
  PROVE  Inv'
  <1> USE DEF process, chain
  <1>1. r - 1 \in Rounds
    BY RoundsAndBuffers
  <1>2. /\ rd[r - 1].root \in Roots /\ rd[r - 1].root \subseteq confirmed[r - 1]
        /\ rd[r - 1].random \in Nat /\ Zero \in Roots /\ Zero \subseteq confirmed[r - 1]
    BY <1>1, SafeNow DEF SafeRound, Sound, RoundRecord, Zero, Roots
  <1>3. CASE ShouldSubmit(r)
    <2> DEFINE root == IF canReveal THEN rd[r - 1].root ELSE Zero
               random == IF canReveal THEN rd[r - 1].random ELSE 0
    <2>1. root \in Roots /\ random \in Nat /\ root \subseteq confirmed[r - 1]
      BY <1>2
    <2>2. Submit(r, root, random, timers)
      BY <1>3 DEF SubmitLinked
    <2> HIDE DEF root, random
    <2> QED
      BY <2>1, <2>2, SubmitSafe
  <1>4. CASE ~ShouldSubmit(r)
    <2> DEFINE s == [rd[r - 1] EXCEPT !.status = Revealed]
               x == [sub[r] EXCEPT !.stage = "done"]
    <2>1. SafeRound(s, confirmed[r - 1]) /\ Settled(rd[r - 1], s)
      BY <1>1, SafeNow, StatusSafe
    <2>2. /\ rd' = [rd EXCEPT ![r - 1] = s] /\ sub' = [sub EXCEPT ![r] = x]
          /\ timer' = timers /\ drawn' = drawn
          /\ UNCHANGED <<clock, process, dbWrites, chain>>
      BY <1>4, StageTyped DEF SubmitLinked
    <2>3. x \in SubmissionRecord /\ x.stage = "done"
      BY StageTyped
    <2> HIDE DEF s, x
    <2> QED
      BY <1>1, <2>1, <2>2, <2>3, StageSafe DEF Inv, OtherTypes
  <1> QED
    BY <1>3, <1>4

\* A round that cannot commit abstains or rejects.
LEMMA GiveUpCommitSafe ==
  ASSUME Inv, NEW r \in Rounds, NEW reject \in BOOLEAN, NEW canReveal \in BOOLEAN,
         NEW timers, TimersOk(timers), timers[r] # 0,
         GiveUpCommit(r, reject, canReveal, timers), UNCHANGED <<db, confirmed>>
  PROVE  Inv'
  <1> USE DEF process, chain
  <1> DEFINE s == IF reject
                  THEN [rd[r] EXCEPT !.status = CommitDataPrepared, !.root = Zero]
                  ELSE Abstain(rd[r])
             x == [stage |-> IF reject THEN "rejecting" ELSE "abstaining",
                   canReveal |-> canReveal, write |-> None]
  <1>1. SafeRound(s, confirmed[r]) /\ Settled(rd[r], s)
    BY SafeNow, RejectSafe, AbstainSafe
  <1>2. rd' = [rd EXCEPT ![r] = s]
    BY DEF GiveUpCommit, Inv, RoundsSafe
  <1>3. /\ sub' = [sub EXCEPT ![r] = x] /\ timer' = timers /\ drawn' = drawn
        /\ UNCHANGED <<clock, process, dbWrites, chain>>
    BY DEF GiveUpCommit
  <1>4. x \in SubmissionRecord /\ x.stage \notin {"sent", "storing"}
    BY DEF SubmissionRecord, Preparing
  <1>5. DbSafe
    BY DbUnchanged
  <1> HIDE DEF s, x
  <1> QED
    BY <1>1, <1>2, <1>3, <1>4, <1>5, StageSafe DEF Inv, OtherTypes

\* The first commit of a process.
LEMMA OnFirstCommitSafe ==
  ASSUME Inv, NEW r \in Rounds, OnFirstCommit(r)
  PROVE  Inv'
  <1> USE DEF process, chain
  <1>1. /\ TimersOk(Rearmed(r, FirstCommitTimer))
        /\ Rearmed(r, FirstCommitTimer)[r] # 0
    <2>1. FirstCommitTimer \in 1..8 /\ NextTimer(r, FirstCommitTimer) # 0
      BY DEF FirstCommitTimer, NextTimer, CloseTimer, RevealTimer
    <2>2. Rearmed(r, FirstCommitTimer)[r] = NextTimer(r, FirstCommitTimer)
      BY DEF Rearmed, Inv, OtherTypes
    <2> QED
      BY <2>1, <2>2, RearmedOk
  <1>2. UNCHANGED <<db, confirmed>> /\ DbSafe
    BY DbUnchanged DEF OnFirstCommit
  <1>3. CASE CanCommit(rd[r])
    <2> DEFINE x == [sub[r] EXCEPT !.stage = "lookup"]
               s == rd[r]
    <2>1. /\ sub' = [sub EXCEPT ![r] = x] /\ timer' = Rearmed(r, FirstCommitTimer)
          /\ rd' = [rd EXCEPT ![r] = s] /\ drawn' = drawn
          /\ UNCHANGED <<clock, process, dbWrites, chain>>
      BY <1>3, StageTyped DEF OnFirstCommit, Preparing, Inv, RoundsSafe
    <2>2. x \in SubmissionRecord /\ x.stage = "lookup"
      BY StageTyped DEF Preparing
    <2>3. SafeRound(s, confirmed[r]) /\ Settled(rd[r], s)
      BY SafeNow
    <2> HIDE DEF x, s
    <2> QED
      BY <1>1, <1>2, <2>1, <2>2, <2>3, StageSafe DEF Inv, OtherTypes
  <1>4. CASE ~CanCommit(rd[r])
    BY <1>1, <1>2, <1>4, GiveUpCommitSafe DEF OnFirstCommit
  <1> QED
    BY <1>3, <1>4

\* The commit of a round and the reveal of the one before.
LEMMA OnSubmitAttestationSafe ==
  ASSUME Inv, NEW p \in Rounds, OnSubmitAttestation(p)
  PROVE  Inv'
  <1> DEFINE timers == Rearmed(p, SubmitTimer)
             canReveal == rd[p].status \in {CommitDataPrepared, Committed}
  <1>1. p + 1 \in Rounds /\ p + 1 > 0 /\ p + 1 # p
    BY RoundAssumption DEF OnSubmitAttestation, Rounds
  <1>2. TimersOk(timers)
    BY RearmedOk DEF SubmitTimer
  <1>3. timers[p + 1] # 0
    BY <1>1 DEF OnSubmitAttestation, Live, Rearmed, Inv, OtherTypes
  <1>4. UNCHANGED <<db, confirmed>> /\ DbSafe
    BY DbUnchanged DEF OnSubmitAttestation
  <1>5. rd[p + 1].isReject \in BOOLEAN /\ canReveal \in BOOLEAN
    BY <1>1, SafeNow DEF RoundRecord
  <1>6. \/ SubmitLinked(p + 1, canReveal, timers)
        \/ GiveUpCommit(p + 1, rd[p + 1].isReject, canReveal, timers)
    BY DEF OnSubmitAttestation
  <1> HIDE DEF timers, canReveal
  <1> QED
    BY <1>1, <1>2, <1>3, <1>4, <1>5, <1>6, SubmitLinkedSafe, GiveUpCommitSafe

\* A round that gives up has its commit data.
LEMMA RandomDrawnSafe ==
  ASSUME Inv, NEW r \in Rounds, RandomDrawn(r)
  PROVE  Inv'
  <1> USE DEF process, chain, storage
  <1> DEFINE s == IF sub[r].stage = "abstaining" THEN Abstained(rd[r])
                  ELSE Committing(rd[r])
             x == [sub[r] EXCEPT !.stage = "storing", !.write = Stored(s)]
  <1>1. SafeRound(s, confirmed[r]) /\ Settled(rd[r], s)
    BY SafeNow, AbstainedSafe, CommittingSafe DEF Inv, OtherTypes
  <1>2. /\ rd' = [rd EXCEPT ![r] = s]
        /\ sub' = [sub EXCEPT ![r].stage = "storing", ![r].write = Stored(s)]
        /\ drawn' = Draw /\ sub[r].stage # "none"
        /\ UNCHANGED <<clock, process, timer, storage, chain, confirmed>>
    BY DEF RandomDrawn
  <1> HIDE DEF s
  <1>3. Stored(s) \in Hash /\ Stored(s).root = s.root /\ s.root \subseteq confirmed[r]
    BY <1>1, HashTyped DEF Stored, SafeRound, Sound, RoundRecord
  <1>4. sub[r] \in SubmissionRecord
    BY DEF Inv, OtherTypes
  <1>5. x \in SubmissionRecord /\ x.stage = "storing" /\ x.write = Stored(s)
    BY <1>3, <1>4 DEF SubmissionRecord, Preparing
  <1>6. sub' = [sub EXCEPT ![r] = x]
    BY <1>2, <1>4 DEF Inv, OtherTypes, SubmissionRecord
  <1> HIDE DEF x
  <1>7. drawn' \in Nat /\ TimersOk(timer') /\ DbSafe /\ timer'[r] # 0
    BY <1>2, StageAlive, SameTimers, DbUnchanged DEF Draw, Inv, OtherTypes
  <1> QED
    BY <1>1, <1>2, <1>3, <1>5, <1>6, <1>7, StageSafe

\* A round that gives up goes on to the submission.
LEMMA GiveUpStoredSafe ==
  ASSUME Inv, NEW r \in Rounds, GiveUpStored(r)
  PROVE  Inv'
  <1> USE DEF process, chain
  <1>1. sub[r].stage = "storing" /\ timer[r] # 0 /\ TimersOk(timer)
    BY StageAlive, SameTimers DEF GiveUpStored
  <1>2. DbSafe
    BY <1>1 DEF GiveUpStored, DbSafe, Inv, OtherTypes, StorageSafe
  <1>3. UNCHANGED confirmed
    BY DEF GiveUpStored
  <1>4. CASE Linked(r)
    <2>1. startRound \in Rounds /\ r > startRound
      BY <1>4 DEF Linked, Inv, OtherTypes
    <2>2. r > 0
      BY <2>1, RoundsAndBuffers
    <2> QED
      BY <1>1, <1>2, <1>3, <1>4, <2>2, SubmitLinkedSafe DEF GiveUpStored
  <1>5. CASE ~Linked(r)
    <2> DEFINE x == [sub[r] EXCEPT !.stage = "lookup"]
               s == rd[r]
    <2>1. /\ sub' = [sub EXCEPT ![r] = x]
          /\ rd' = [rd EXCEPT ![r] = s] /\ drawn' = drawn
          /\ UNCHANGED <<clock, process, timer, dbWrites, chain, confirmed>>
      BY <1>5, StageTyped DEF GiveUpStored, Preparing, Inv, RoundsSafe
    <2>2. x \in SubmissionRecord /\ x.stage = "lookup"
      BY StageTyped DEF Preparing
    <2>3. SafeRound(s, confirmed[r]) /\ Settled(rd[r], s)
      BY SafeNow
    <2> HIDE DEF x, s
    <2> QED
      BY <1>1, <1>2, <2>1, <2>2, <2>3, StageSafe DEF Inv, OtherTypes
  <1> QED
    BY <1>4, <1>5

\* The first commit reveals what the database holds.
LEMMA PreviousRoundReadSafe ==
  ASSUME Inv, NEW r \in Rounds, PreviousRoundRead(r)
  PROVE  Inv'
  <1> DEFINE previous == IF r = 0 THEN [root |-> Zero, random |-> 0] ELSE db[r - 1]
  <1>1. r \in Nat /\ (r # 0 => r > 0 /\ r - 1 \in Rounds)
    BY RoundsAndBuffers
  <1>2. /\ previous.root \in Roots /\ previous.random \in Nat
        /\ previous.root # Zero => r > 0 /\ previous.root \subseteq confirmed[r - 1]
    BY <1>1 DEF Inv, OtherTypes, StorageSafe, Hash, Zero, Roots
  <1>3. /\ Submit(r, previous.root, previous.random, timer)
        /\ UNCHANGED <<db, confirmed>> /\ DbSafe
        /\ timer[r] # 0 /\ TimersOk(timer)
    BY StageAlive, SameTimers, DbUnchanged DEF PreviousRoundRead
  <1> HIDE DEF previous
  <1> QED
    BY <1>2, <1>3, SubmitSafe

\* The receipt changes the status of one round or of two.
LEMMA SubmissionReturnedSafe ==
  ASSUME Inv, NEW r \in Rounds, SubmissionReturned(r)
  PROVE  Inv'
  <1> USE DEF process, chain, storage
  <1> DEFINE x == [sub[r] EXCEPT !.stage = "done"]
             With(q, v) == [rd[q] EXCEPT !.status = v]
  <1>1. ASSUME NEW q \in Rounds,
               NEW v \in {CommitDataPrepared, Committed, Revealed, Error}
        PROVE  /\ SafeRound(With(q, v), confirmed[q]) /\ Settled(rd[q], With(q, v))
               /\ With(q, v) \in RoundRecord
    BY SafeNow, StatusSafe DEF SafeRound
  <1>2. /\ sub' = [sub EXCEPT ![r] = x] /\ sub[r].stage = "sent"
        /\ UNCHANGED <<clock, process, timer, storage, chain, drawn, confirmed>>
    BY StageTyped DEF SubmissionReturned
  <1>3. x \in SubmissionRecord /\ x.stage = "done"
    BY StageTyped
  <1>4. Linked(r) => r - 1 \in Rounds /\ r - 1 # r
    <2>1. startRound \in Rounds
      BY DEF Inv, OtherTypes
    <2> QED
      BY <2>1, RoundsAndBuffers DEF Linked
  <1>5. \/ rd' = [rd EXCEPT ![r] = With(r, Committed), ![r - 1] = With(r - 1, Revealed)]
           /\ Linked(r)
        \/ \E q \in Rounds, v \in {Committed, Error} : rd' = [rd EXCEPT ![q] = With(q, v)]
    <2>1. CASE /\ board[r + 1] # None
               /\ rd' = IF Linked(r)
                        THEN [rd EXCEPT ![r].status = Committed, ![r - 1].status = Revealed]
                        ELSE [rd EXCEPT ![r].status = Committed]
      BY <1>4, <2>1 DEF Inv, RoundsSafe, RoundRecord
    <2>2. CASE rd' = [rd EXCEPT ![IF Linked(r) THEN r - 1 ELSE r].status = Error]
      BY <1>4, <2>2 DEF Inv, RoundsSafe, RoundRecord
    <2> QED
      BY <2>1, <2>2 DEF SubmissionReturned
  <1> HIDE DEF With, x
  <1>6. \A q \in Rounds :
          /\ rd'[q] \in RoundRecord
          /\ SafeRound(rd'[q], confirmed[q]) /\ Settled(rd[q], rd'[q])
    <2>1. CASE /\ Linked(r)
               /\ rd' = [rd EXCEPT ![r] = With(r, Committed), ![r - 1] = With(r - 1, Revealed)]
      BY <1>1, <1>4, <2>1, SafeNow DEF Inv, RoundsSafe
    <2>2. ASSUME NEW z \in Rounds, NEW v \in {Committed, Error},
                 rd' = [rd EXCEPT ![z] = With(z, v)]
          PROVE  \A q \in Rounds :
                   /\ rd'[q] \in RoundRecord
                   /\ SafeRound(rd'[q], confirmed[q]) /\ Settled(rd[q], rd'[q])
      BY <1>1, <2>2, SafeNow DEF Inv, RoundsSafe
    <2> QED
      BY <1>5, <2>1, <2>2
  <1>7. rd' \in [Rounds -> RoundRecord]
    BY <1>5, <1>6 DEF Inv, RoundsSafe
  <1>8. RoundsSafe' /\ TxSafe'
    BY <1>2, <1>6, <1>7, Unconfirmed, RoundsMove
  <1>9. OtherTypes' /\ IdleSafe'
    BY <1>2, <1>3, StageAlive DEF Inv, OtherTypes, IdleSafe
  <1>10. StorageSafe'
    BY <1>2, <1>3 DEF Inv, OtherTypes, StorageSafe
  <1>11. SentSafe'
    BY <1>2, <1>3, <1>6 DEF Inv, OtherTypes, SentSafe, Settled
  <1> QED
    BY <1>8, <1>9, <1>10, <1>11 DEF Inv

-----------------------------------------------------------------------------
(* The clock, the process and the chain.                                     *)

\* Time goes on.
LEMMA AdvanceClockSafe ==
  ASSUME Inv, AdvanceClock
  PROVE  Inv'
  <1> USE DEF process, chain, storage
  <1>1. clock + 1 \in 0..EndOfTime
    BY RoundAssumption DEF AdvanceClock, Inv, OtherTypes, EndOfTime, StagesPerWindow
  <1> QED
    BY <1>1 DEF AdvanceClock, Inv, OtherTypes, RoundsSafe, StorageSafe, TxSafe,
                SentSafe, IdleSafe

\* The process crashes.
LEMMA CrashSafe == ASSUME Inv, Crash PROVE Inv'
  <1>1. Grows /\ ProcessExit /\ UNCHANGED db
    BY Unconfirmed DEF Crash
  <1> QED
    BY <1>1, ExitSafe DEF Inv, OtherTypes, StorageSafe, Crash

\* The process starts again.
LEMMA RestartSafe == ASSUME Inv, Restart PROVE Inv'
  <1> USE DEF chain, storage
  <1>1. restarts + 1 \in 0..MaxRestarts
    BY RoundAssumption DEF Restart, Inv, OtherTypes
  <1> QED
    BY <1>1 DEF Restart, Inv, OtherTypes, RoundsSafe, StorageSafe, TxSafe,
                SentSafe, IdleSafe

\* A round is created without a submission and without a vote.
LEMMA CreateRoundSafe == ASSUME Inv, NEW r \in Rounds, CreateRound(r) PROVE Inv'
  <1> USE DEF process, chain, storage
  <1>1. /\ timer[r] = 0 /\ timer' = [timer EXCEPT ![r] = 1]
        /\ rd' = [rd EXCEPT ![r] = NewRound]
        /\ UNCHANGED <<clock, process, sub, storage, chain, drawn, confirmed>>
    BY DEF CreateRound, ChooseTimer
  <1>2. SafeRound(NewRound, confirmed[r])
    BY NewRoundSafe
  <1>3. OtherTypes'
    BY <1>1 DEF Inv, OtherTypes, CompleteTimer
  <1>4. RoundsSafe'
    BY <1>1, <1>2 DEF Inv, RoundsSafe, SafeRound
  <1>5. StorageSafe' /\ TxSafe'
    BY <1>1 DEF Inv, StorageSafe, TxSafe
  <1>6. sub[r].stage = "none"
    BY <1>1 DEF Inv, IdleSafe
  <1>7. SentSafe' /\ IdleSafe'
    BY <1>1, <1>6 DEF Inv, OtherTypes, RoundsSafe, SentSafe, IdleSafe
  <1> QED
    BY <1>3, <1>4, <1>5, <1>7 DEF Inv

\* The chain takes a transaction.
LEMMA TransactionMinedSafe == ASSUME Inv, NEW b \in Buffers, TransactionMined(b) PROVE Inv'
  <1> USE DEF process, storage
  <1>1. board' \in [Buffers -> Transaction \cup {None}]
    BY DEF TransactionMined, Inv, OtherTypes
  <1> QED
    BY <1>1 DEF TransactionMined, Inv, OtherTypes, RoundsSafe, StorageSafe, TxSafe,
                SentSafe, IdleSafe

-----------------------------------------------------------------------------
\* Every step of the rounds keeps the invariant.
LEMMA InvStep == Inv /\ [Next]_vars => Inv'
  <1> SUFFICES ASSUME Inv, [Next]_vars PROVE Inv'
    OBVIOUS
  <1>1. CASE AdvanceClock \/ Crash \/ Restart
    BY <1>1, AdvanceClockSafe, CrashSafe, RestartSafe
  <1>2. ASSUME NEW r \in Rounds, CreateRound(r) PROVE Inv'
    BY <1>2, CreateRoundSafe
  <1>3. ASSUME NEW r \in Rounds, TimerStep(r) PROVE Inv'
    BY <1>3, PhaseTimersSafe, OnSubmitBitVoteSafe, ClosingSafe, OnFirstCommitSafe,
       OnSubmitAttestationSafe DEF TimerStep
  <1>4. ASSUME NEW r \in Rounds, EventStep(r) PROVE Inv'
    BY <1>4, AddAttestationSafe, AttestationProcessedSafe, RegisterBitVoteSafe,
       ClosingSafe DEF EventStep
  <1>5. ASSUME NEW r \in Rounds, Continuation(r) PROVE Inv'
    BY <1>5, VotesSavedSafe, CommitPreparedSafe, AbstentionPreparedSafe,
       RoundSavedSafe, RandomDrawnSafe, GiveUpStoredSafe, PreviousRoundReadSafe,
       SubmissionReturnedSafe DEF Continuation
  <1>6. ASSUME NEW b \in Buffers, TransactionMined(b) PROVE Inv'
    BY <1>6, TransactionMinedSafe
  <1>7. CASE UNCHANGED vars
    BY <1>7 DEF vars, Inv, OtherTypes, RoundsSafe, StorageSafe, TxSafe, SentSafe, IdleSafe
  <1> QED
    BY <1>1, <1>2, <1>3, <1>4, <1>5, <1>6, <1>7 DEF Next

\* The invariant holds throughout: nothing the round prepares, saves or sends
\* holds an unconfirmed request or a part of a voting result.
THEOREM Invariance == Spec => []Inv
  BY InvInit, InvStep, PTL DEF Spec

\* Type correctness of the rounds.
THEOREM TypeCorrect == Spec => []TypeOK
  <1>1. Inv => TypeOK
    BY DEF Inv, OtherTypes, RoundsSafe, TypeOK
  <1> QED
    BY <1>1, Invariance, PTL

\* Whatever preparations, writes, timers, crashes and restarts interleave,
\* only requests verified with their message integrity code are voted for,
\* committed, revealed or saved.
THEOREM OnlyVerifiedIsSubmitted == Spec => []OnlyVerifiedSubmitted
  <1>1. Inv => OnlyVerifiedSubmitted
    BY DEF Inv, RoundsSafe, SafeRound, Sound, StorageSafe, TxSafe, OnlyVerifiedSubmitted
  <1> QED
    BY <1>1, Invariance, PTL

\* A commit is never a part of the voting result, however late the requests
\* are verified and however often the preparation is tried.
THEOREM CommitsAreWholeVotes == Spec => []WholeVoteOrNothing
  <1>1. Inv => WholeVoteOrNothing
    BY DEF Inv, SentSafe, WholeVoteOrNothing
  <1> QED
    BY <1>1, Invariance, PTL

-----------------------------------------------------------------------------
(* Waiting for the count.  In step, the vote is closed in the commit phase   *)
(* only, and every event of a round whose vote is closed tries the count.    *)

Waits(s, t) ==
  /\ t <= CommitTimer => s.status # BitVotingClosed
  /\ CanCount(s) => Outstanding(s)

WaitInv == \A r \in Rounds : Waits(rd[r], timer[r])

\* The round state t may follow s when the count is not tried again.
StillWaits(s, t) ==
  t.status = BitVotingClosed =>
    /\ s.status = BitVotingClosed
    /\ CanCount(t) => CanCount(s)
    /\ Outstanding(s) => Outstanding(t)

\* No timer goes back, but for those of rounds that start anew.
LaterTimers(timers) == \A q \in Rounds : timers[q] <= CommitTimer => timer[q] <= CommitTimer

\* The numbers of the timers.
LEMMA TimerNumbers ==
  /\ ChooseTimer = 1 /\ BitVoteTimer = 2 /\ CommitTimer = 3 /\ CloseTimer = 4
  /\ FirstCommitTimer = 5 /\ RevealTimer = 6 /\ SubmitTimer = 7 /\ CompleteTimer = 8
  BY DEF ChooseTimer, BitVoteTimer, CommitTimer, CloseTimer, FirstCommitTimer,
         RevealTimer, SubmitTimer, CompleteTimer

\* The count and the preparation leave a closed vote only while they wait.
LEMMA CountedWaits ==
  ASSUME NEW s \in RoundRecord
  PROVE  LET t == TryPrepare(TryCount(s))
         IN  /\ t.status = BitVotingClosed => s.status = BitVotingClosed
             /\ CanCount(t) => Outstanding(t)
  <1> DEFINE u == TryCount(s)
             t == TryPrepare(u)
  <1>1. /\ u = s \/ u.status = Chosen
        /\ CanCount(u) => u = s /\ Outstanding(u)
    <2>1. CASE ~CanCount(s) \/ (Outstanding(s) /\ ~Unprovable(s))
      BY <2>1 DEF TryCount
    <2>2. CASE ~(~CanCount(s) \/ (Outstanding(s) /\ ~Unprovable(s)))
      <3>1. u.status = Chosen
        BY <2>2 DEF TryCount, RoundRecord
      <3> QED
        BY <3>1, Statuses DEF CanCount
    <2> QED
      BY <2>1, <2>2
  <1>2. u.status # Chosen => t = u
    BY DEF TryPrepare
  <1>3. u.status = Chosen => t.status \in {Chosen, CommitDataPrepared}
    <2> SUFFICES ASSUME u.status = Chosen PROVE t.status \in {Chosen, CommitDataPrepared}
      OBVIOUS
    <2>1. u \in RoundRecord
      <3>1. (IF Unprovable(s) THEN {} ELSE s.tally) \in Roots
        BY DEF RoundRecord, Roots
      <3> QED
        BY <3>1, StatusRange DEF TryCount, RoundRecord
    <2> HIDE DEF u
    <2> QED
      BY <2>1 DEF TryPrepare, Abstain, RoundRecord
  <1> HIDE DEF u, t
  <1>4. t.status = BitVotingClosed => u.status = BitVotingClosed /\ t = u
    BY <1>2, <1>3, Statuses
  <1>5. CanCount(t) => t = u
    BY <1>4 DEF CanCount
  <1>6. u.status = BitVotingClosed => s.status = BitVotingClosed
    BY <1>1, Statuses
  <1>7. /\ t.status = BitVotingClosed => s.status = BitVotingClosed
        /\ CanCount(t) => Outstanding(t)
    BY <1>1, <1>4, <1>5, <1>6
  <1> QED
    BY <1>7 DEF t, u

\* A step that counts nothing.
LEMMA WaitsStill ==
  ASSUME Inv, WaitInv, LaterTimers(timer'),
         \A q \in Rounds : StillWaits(rd[q], rd'[q])
  PROVE  WaitInv'
  BY DEF WaitInv, Waits, StillWaits, LaterTimers, CanCount

\* The process stops.
LEMMA ExitWaits == ASSUME ProcessExit PROVE WaitInv'
  BY Statuses DEF ProcessExit, WaitInv, Waits, NewRound, CanCount

\* An event, with the count that follows.
LEMMA CountAndPrepareWaits ==
  ASSUME Inv, WaitInv, NEW r \in Rounds, NEW s \in RoundRecord, NEW timers,
         LaterTimers(timers), CountAndPrepare(r, s, timers),
         timers[r] <= CommitTimer => s.status # BitVotingClosed
  PROVE  WaitInv'
  <1>1. CASE ProcessExit
    BY <1>1, ExitWaits
  <1>2. CASE SetRound(r, TryPrepare(TryCount(s))) /\ timer' = timers
    <2> SUFFICES ASSUME NEW q \in Rounds PROVE Waits(rd'[q], timer'[q])
      BY DEF WaitInv
    <2>1. CASE q = r
      <3>1. rd'[q] = TryPrepare(TryCount(s))
        BY <1>2, <2>1 DEF SetRound, Inv, RoundsSafe
      <3> QED
        BY <1>2, <2>1, <3>1, CountedWaits DEF Waits
    <2>2. CASE q # r
      BY <1>2, <2>2 DEF SetRound, Inv, RoundsSafe, WaitInv, Waits, LaterTimers
    <2> QED
      BY <2>1, <2>2
  <1> QED
    BY <1>1, <1>2 DEF CountAndPrepare

\* The next timer of a round is a later one.
LEMMA RearmedLater ==
  ASSUME Inv, NEW r \in Rounds, NEW t \in 1..8, timer[r] = t
  PROVE  /\ LaterTimers(Rearmed(r, t))
         /\ Rearmed(r, t)[r] \in {t + 1, 6} /\ Rearmed(r, t)[r] > t
         /\ \A q \in Rounds \ {r} : Rearmed(r, t)[q] = timer[q]
  <1>1. NextTimer(r, t) \in {t + 1, 6} /\ NextTimer(r, t) > t
    BY TimerNumbers DEF NextTimer
  <1>2. /\ Rearmed(r, t)[r] = NextTimer(r, t)
        /\ \A q \in Rounds \ {r} : Rearmed(r, t)[q] = timer[q]
    BY DEF Rearmed, Inv, OtherTypes
  <1> QED
    BY <1>1, <1>2, TimerNumbers DEF LaterTimers

\* Requests and votes.
LEMMA EventWaits ==
  ASSUME Inv, WaitInv, ChainInStep, NEW r \in Rounds, EventStep(r)
  PROVE  WaitInv'
  <1> USE DEF Inv, RoundsSafe
  <1>0. LaterTimers(timer) /\ rd[r] \in RoundRecord
    BY DEF LaterTimers
  <1>1. CASE AddAttestation(r)
    <2>1. PICK i \in Requests \ Listed(r) :
            \/ SetRound(r, [rd[r] EXCEPT !.att[i] = "processing"]) /\ UNCHANGED timer
            \/ \E status \in {"invalid", "undetermined"} :
                 CountAndPrepare(r, [rd[r] EXCEPT !.att[i] = status], timer)
      BY <1>1 DEF AddAttestation
    <2>2. ASSUME NEW v \in {"processing", "invalid", "undetermined"}
          PROVE  /\ [rd[r] EXCEPT !.att[i] = v] \in RoundRecord
                 /\ [rd[r] EXCEPT !.att[i] = v].status = rd[r].status
      BY <1>0 DEF RoundRecord, RequestStatus
    <2>3. CASE SetRound(r, [rd[r] EXCEPT !.att[i] = "processing"]) /\ UNCHANGED timer
      <3> DEFINE t == [rd[r] EXCEPT !.att[i] = "processing"]
      <3>1. /\ t.status = rd[r].status /\ t.phase = rd[r].phase /\ t.tally = rd[r].tally
            /\ t.att = [rd[r].att EXCEPT ![i] = "processing"]
            /\ rd[r].att \in [Requests -> RequestStatus] /\ rd[r].tally \subseteq Requests
        BY <1>0 DEF RoundRecord, Roots
      <3>2. StillWaits(rd[r], t)
        BY <3>1 DEF StillWaits, CanCount, Outstanding
      <3>3. \A q \in Rounds : StillWaits(rd[q], rd'[q])
        BY <2>3, <3>2 DEF SetRound, StillWaits
      <3> QED
        BY <1>0, <2>3, <3>3, WaitsStill DEF LaterTimers
    <2>4. CASE \E status \in {"invalid", "undetermined"} :
                 CountAndPrepare(r, [rd[r] EXCEPT !.att[i] = status], timer)
      BY <1>0, <2>2, <2>4, CountAndPrepareWaits DEF WaitInv, Waits
    <2> QED
      BY <2>1, <2>3, <2>4
  <1>2. ASSUME NEW i \in Requests, NEW verdict \in Verdicts, AttestationProcessed(r, i, verdict)
        PROVE  WaitInv'
    <2> DEFINE t == [rd[r] EXCEPT !.att[i] = StatusOf(verdict)]
    <2>1. t \in RoundRecord /\ t.status = rd[r].status
      BY <1>0 DEF RoundRecord, RequestStatus, StatusOf
    <2>2. CountAndPrepare(r, t, timer)
      BY <1>2 DEF AttestationProcessed
    <2> HIDE DEF t
    <2> QED
      BY <1>0, <2>1, <2>2, CountAndPrepareWaits DEF WaitInv, Waits
  <1>3. CASE RegisterBitVote(r)
    <2>1. PICK tally \in Roots : SetRound(r, [rd[r] EXCEPT !.tally = tally])
      BY <1>3 DEF RegisterBitVote
    <2>2. [rd[r] EXCEPT !.tally = tally].status < BitVotingClosed
      BY <1>0, <1>3 DEF RegisterBitVote, RoundRecord
    <2>3. \A q \in Rounds : StillWaits(rd[q], rd'[q])
      BY <2>1, <2>2, Statuses DEF SetRound, StillWaits
    <2> QED
      BY <1>0, <1>3, <2>3, WaitsStill DEF RegisterBitVote, LaterTimers
  <1>4. CASE CloseByBlock(r)
    <2>1. /\ timer[r] > CommitTimer
          /\ CountAndPrepare(r, [rd[r] EXCEPT !.status = BitVotingClosed], timer)
      BY <1>4 DEF CloseByBlock, CloseBitVoting
    <2>2. [rd[r] EXCEPT !.status = BitVotingClosed] \in RoundRecord
      BY <1>0, StatusRange DEF RoundRecord
    <2>3. ~(timer[r] <= CommitTimer)
      BY <2>1, TimerNumbers DEF OtherTypes
    <2> QED
      BY <1>0, <2>1, <2>2, <2>3, CountAndPrepareWaits
  <1> QED
    BY <1>1, <1>2, <1>3, <1>4 DEF EventStep

\* The timers that only set a field of their round.
LEMMA TimerWaits ==
  ASSUME Inv, WaitInv, NEW r \in Rounds,
         \/ OnChoosePhaseStart(r) \/ OnSubmitBitVote(r) \/ OnCommitPhaseStart(r)
         \/ ForceClose(r) \/ OnRevealPhaseStart(r) \/ OnFinalisePhaseStart(r)
  PROVE  WaitInv'
  <1> USE DEF Inv, RoundsSafe
  <1>0. rd[r] \in RoundRecord /\ Waits(rd[r], timer[r])
    BY DEF WaitInv
  <1>1. ASSUME NEW t \in 1..8, timer[r] = t, NEW s, SetRound(r, s),
               timer' = Rearmed(r, t), StillWaits(rd[r], s)
        PROVE  WaitInv'
    <2>1. LaterTimers(timer')
      BY <1>1, RearmedLater
    <2>2. \A q \in Rounds : StillWaits(rd[q], rd'[q])
      BY <1>1 DEF SetRound, StillWaits
    <2> QED
      BY <2>1, <2>2, WaitsStill
  <1>2. ASSUME NEW p \in {"choose", "reveal", "finalise"}
        PROVE  StillWaits(rd[r], [rd[r] EXCEPT !.phase = p])
    <2>1. /\ [rd[r] EXCEPT !.phase = p].phase # "commit"
          /\ [rd[r] EXCEPT !.phase = p].status = rd[r].status
          /\ [rd[r] EXCEPT !.phase = p].att = rd[r].att
          /\ [rd[r] EXCEPT !.phase = p].tally = rd[r].tally
      BY <1>0 DEF RoundRecord
    <2> QED
      BY <2>1 DEF StillWaits, CanCount, Outstanding
  <1>3. CASE OnChoosePhaseStart(r)
    BY <1>1, <1>2, <1>3, TimerNumbers DEF OnChoosePhaseStart, Fires
  <1>4. CASE OnSubmitBitVote(r)
    <2> DEFINE t == [rd[r] EXCEPT !.vote = ValidIn(rd[r])]
    <2>1. /\ t.phase = rd[r].phase /\ t.status = rd[r].status
          /\ t.att = rd[r].att /\ t.tally = rd[r].tally
      BY <1>0 DEF RoundRecord
    <2>2. StillWaits(rd[r], t)
      BY <2>1 DEF StillWaits, CanCount, Outstanding
    <2> QED
      BY <1>1, <1>4, <2>2, TimerNumbers DEF OnSubmitBitVote, Fires
  <1>5. CASE OnCommitPhaseStart(r)
    <2> DEFINE s == [rd[r] EXCEPT !.phase = "commit"]
    <2>1. s \in RoundRecord /\ s.status = rd[r].status
      BY <1>0 DEF RoundRecord
    <2>2. s.status # BitVotingClosed
      BY <1>0, <1>5, <2>1, TimerNumbers DEF OnCommitPhaseStart, Fires, Waits
    <2> HIDE DEF s
    <2>3. TryPrepare(s).status \in {s.status, CommitDataPrepared}
      BY <2>1 DEF TryPrepare, Abstain, RoundRecord
    <2>4. StillWaits(rd[r], TryPrepare(s))
      BY <2>2, <2>3, Statuses DEF StillWaits
    <2> QED
      BY <1>1, <1>5, <2>4, TimerNumbers DEF OnCommitPhaseStart, Fires, s
  <1>6. CASE ForceClose(r)
    <2>1. /\ LaterTimers(Rearmed(r, CloseTimer))
          /\ ~(Rearmed(r, CloseTimer)[r] <= CommitTimer)
      BY <1>6, RearmedLater, TimerNumbers DEF ForceClose, Fires
    <2>2. CASE rd[r].status < BitVotingClosed
      <3>1. [rd[r] EXCEPT !.status = BitVotingClosed] \in RoundRecord
        BY <1>0, StatusRange DEF RoundRecord
      <3> QED
        BY <1>6, <2>1, <2>2, <3>1, CountAndPrepareWaits DEF ForceClose, CloseBitVoting
    <2>3. CASE ~(rd[r].status < BitVotingClosed)
      BY <1>1, <1>6, <2>3, TimerNumbers DEF ForceClose, CloseBitVoting, Fires, StillWaits
    <2> QED
      BY <2>2, <2>3
  <1>7. CASE OnRevealPhaseStart(r)
    BY <1>1, <1>2, <1>7, TimerNumbers DEF OnRevealPhaseStart, Fires
  <1>8. CASE OnFinalisePhaseStart(r)
    BY <1>1, <1>2, <1>8, TimerNumbers DEF OnFinalisePhaseStart, Fires
  <1> QED
    BY <1>3, <1>4, <1>5, <1>6, <1>7, <1>8

\* The round state t is not waiting for the count.
LEMMA NotWaiting ==
  ASSUME NEW s, NEW t,
         \/ t.status # BitVotingClosed
         \/ t.status = s.status /\ t.phase = s.phase /\ t.tally = s.tally /\ t.att = s.att
  PROVE  StillWaits(s, t)
  BY DEF StillWaits, CanCount, Outstanding

\* The submission of a transaction leaves the rounds alone.
LEMMA SubmitWaits ==
  ASSUME Inv, WaitInv, NEW r \in Rounds, NEW root, NEW random, NEW timers,
         LaterTimers(timers), Submit(r, root, random, timers)
  PROVE  WaitInv'
  <1>1. CASE rd[r].masked = None
    BY <1>1, ExitWaits DEF Submit
  <1>2. CASE rd[r].masked # None
    BY <1>2, WaitsStill DEF Submit, StillWaits
  <1> QED
    BY <1>1, <1>2

\* So does the rest of onSubmitAttestation, but for a status.
LEMMA SubmitLinkedWaits ==
  ASSUME Inv, WaitInv, NEW r \in Rounds, NEW canReveal, NEW timers,
         LaterTimers(timers), SubmitLinked(r, canReveal, timers)
  PROVE  WaitInv'
  <1>1. CASE ShouldSubmit(r)
    BY <1>1, SubmitWaits DEF SubmitLinked
  <1>2. CASE ~ShouldSubmit(r)
    <2>1. /\ rd' = [rd EXCEPT ![r - 1].status = Revealed] /\ timer' = timers
      BY <1>2 DEF SubmitLinked
    <2>2. \A q \in Rounds : rd'[q] = rd[q] \/ rd'[q].status = Revealed
      BY <2>1 DEF Inv, RoundsSafe, RoundRecord
    <2>3. \A q \in Rounds : StillWaits(rd[q], rd'[q])
      BY <2>2, NotWaiting, Statuses
    <2> QED
      BY <2>1, <2>3, WaitsStill
  <1> QED
    BY <1>1, <1>2

\* A round that gives its commit up waits for nothing.
LEMMA GiveUpCommitWaits ==
  ASSUME Inv, WaitInv, NEW r \in Rounds, NEW reject, NEW canReveal, NEW timers,
         LaterTimers(timers), GiveUpCommit(r, reject, canReveal, timers)
  PROVE  WaitInv'
  <1>1. /\ timer' = timers
        /\ rd' = [rd EXCEPT ![r] =
                    IF reject THEN [@ EXCEPT !.status = CommitDataPrepared, !.root = Zero]
                    ELSE Abstain(@)]
    BY DEF GiveUpCommit
  <1>2. \A q \in Rounds : rd'[q] = rd[q] \/ rd'[q].status = CommitDataPrepared
    BY <1>1 DEF Inv, RoundsSafe, RoundRecord, Abstain
  <1>3. \A q \in Rounds : StillWaits(rd[q], rd'[q])
    BY <1>2, NotWaiting, Statuses
  <1> QED
    BY <1>1, <1>3, WaitsStill

\* The submissions.
LEMMA SubmissionWaits ==
  ASSUME Inv, WaitInv, NEW r \in Rounds,
         \/ OnFirstCommit(r) \/ OnSubmitAttestation(r) \/ RandomDrawn(r)
         \/ GiveUpStored(r) \/ PreviousRoundRead(r) \/ SubmissionReturned(r)
  PROVE  WaitInv'
  <1> USE DEF Inv, RoundsSafe, process, storage, chain
  <1>0. LaterTimers(timer) /\ rd[r] \in RoundRecord
    BY DEF LaterTimers
  <1>1. CASE OnFirstCommit(r)
    <2>1. LaterTimers(Rearmed(r, FirstCommitTimer))
      BY <1>1, RearmedLater, TimerNumbers DEF OnFirstCommit, Fires
    <2>2. CASE CanCommit(rd[r])
      BY <1>1, <2>1, <2>2, WaitsStill DEF OnFirstCommit, StillWaits
    <2>3. CASE ~CanCommit(rd[r])
      BY <1>1, <2>1, <2>3, GiveUpCommitWaits DEF OnFirstCommit
    <2> QED
      BY <2>2, <2>3
  <1>2. CASE OnSubmitAttestation(r)
    <2>1. LaterTimers(Rearmed(r, SubmitTimer)) /\ r + 1 \in Rounds
      BY <1>2, RearmedLater, TimerNumbers, RoundAssumption DEF OnSubmitAttestation, Fires, Rounds
    <2> QED
      BY <1>2, <2>1, SubmitLinkedWaits, GiveUpCommitWaits DEF OnSubmitAttestation
  <1>3. CASE RandomDrawn(r)
    <2>1. /\ rd' = [rd EXCEPT ![r] = IF sub[r].stage = "abstaining" THEN Abstained(rd[r])
                                     ELSE Committing(rd[r])]
          /\ timer' = timer
      BY <1>3 DEF RandomDrawn
    <2>2. ASSUME NEW s \in {Abstained(rd[r]), Committing(rd[r])}
          PROVE  /\ s.status = rd[r].status /\ s.phase = rd[r].phase
                 /\ s.tally = rd[r].tally /\ s.att = rd[r].att
      BY <1>0 DEF Abstained, Committing, RoundRecord
    <2>3. \A q \in Rounds :
            /\ rd'[q].status = rd[q].status /\ rd'[q].phase = rd[q].phase
            /\ rd'[q].tally = rd[q].tally /\ rd'[q].att = rd[q].att
      BY <2>1, <2>2
    <2> QED
      BY <1>0, <2>1, <2>3, WaitsStill, NotWaiting
  <1>4. CASE GiveUpStored(r)
    BY <1>0, <1>4, SubmitLinkedWaits, WaitsStill DEF GiveUpStored, StillWaits
  <1>5. CASE PreviousRoundRead(r)
    BY <1>0, <1>5, SubmitWaits DEF PreviousRoundRead
  <1>6. CASE SubmissionReturned(r)
    <2>1. \A q \in Rounds : rd'[q] = rd[q] \/ rd'[q].status \in {Committed, Revealed, Error}
      BY <1>6 DEF SubmissionReturned, RoundRecord
    <2> QED
      BY <1>0, <1>6, <2>1, WaitsStill, NotWaiting, Statuses DEF SubmissionReturned
  <1> QED
    BY <1>1, <1>2, <1>3, <1>4, <1>5, <1>6

\* The continuations of a preparation.
LEMMA PreparationWaits ==
  ASSUME Inv, WaitInv, NEW r \in Rounds,
         \/ VotesSaved(r) \/ CommitPrepared(r) \/ AbstentionPrepared(r) \/ RoundSaved(r)
  PROVE  WaitInv'
  <1> USE DEF Inv, RoundsSafe, process, storage, chain
  <1>0. LaterTimers(timer) /\ rd[r] \in RoundRecord
    BY DEF LaterTimers
  <1>1. CASE VotesSaved(r)
    <2>1. \A q \in Rounds :
            /\ rd'[q].status = rd[q].status /\ rd'[q].phase = rd[q].phase
            /\ rd'[q].tally = rd[q].tally /\ rd'[q].att = rd[q].att
      BY <1>1 DEF VotesSaved, RoundRecord
    <2>2. \A q \in Rounds : StillWaits(rd[q], rd'[q])
      BY <2>1, NotWaiting
    <2> QED
      BY <1>0, <1>1, <2>2, WaitsStill DEF VotesSaved
  <1>2. CASE CommitPrepared(r)
    <2> DEFINE s == [Committing(rd[r]) EXCEPT !.drawing = @ - 1, !.status = CommitDataPrepared]
    <2>1. s.status = CommitDataPrepared
      BY <1>0 DEF Committing, RoundRecord
    <2>2. rd' = [rd EXCEPT ![r] = s] /\ timer' = timer
      BY <1>2 DEF CommitPrepared
    <2> HIDE DEF s
    <2>3. \A q \in Rounds : rd'[q] = rd[q] \/ rd'[q].status = CommitDataPrepared
      BY <2>1, <2>2
    <2> QED
      BY <1>0, <2>2, <2>3, WaitsStill, NotWaiting, Statuses
  <1>3. CASE AbstentionPrepared(r)
    <2> DEFINE s == [Abstained(rd[r]) EXCEPT !.abstaining = @ - 1]
    <2>1. /\ s.status = rd[r].status /\ s.phase = rd[r].phase
          /\ s.tally = rd[r].tally /\ s.att = rd[r].att
      BY <1>0 DEF Abstained, RoundRecord
    <2>2. rd' = [rd EXCEPT ![r] = s] /\ timer' = timer
      BY <1>3 DEF AbstentionPrepared
    <2> HIDE DEF s
    <2>3. \A q \in Rounds :
            /\ rd'[q].status = rd[q].status /\ rd'[q].phase = rd[q].phase
            /\ rd'[q].tally = rd[q].tally /\ rd'[q].att = rd[q].att
      BY <2>1, <2>2
    <2> QED
      BY <1>0, <2>2, <2>3, WaitsStill, NotWaiting
  <1>4. CASE RoundSaved(r)
    BY <1>0, <1>4, WaitsStill DEF RoundSaved, StillWaits
  <1> QED
    BY <1>1, <1>2, <1>3, <1>4

\* Every step keeps the closed votes waiting for a verification only.
LEMMA WaitInvStep ==
  ASSUME Inv, WaitInv, ChainInStep, [Next]_vars
  PROVE  WaitInv'
  <1> USE DEF process, storage, chain
  <1>0. LaterTimers(timer)
    BY DEF LaterTimers
  <1>1. CASE AdvanceClock \/ Restart \/ UNCHANGED vars
    BY <1>0, <1>1, WaitsStill DEF AdvanceClock, Restart, vars, StillWaits
  <1>2. CASE Crash
    BY <1>2, ExitWaits DEF Crash
  <1>3. ASSUME NEW r \in Rounds, CreateRound(r) PROVE WaitInv'
    <2> SUFFICES ASSUME NEW q \in Rounds PROVE Waits(rd'[q], timer'[q])
      BY DEF WaitInv
    <2>1. CASE q = r
      BY <1>3, <2>1, Statuses DEF CreateRound, NewRound, Waits, CanCount, Inv, RoundsSafe
    <2>2. CASE q # r
      BY <1>3, <2>2 DEF CreateRound, WaitInv, Inv, RoundsSafe, OtherTypes
    <2> QED
      BY <2>1, <2>2
  <1>4. ASSUME NEW r \in Rounds, TimerStep(r) PROVE WaitInv'
    BY <1>4, TimerWaits, SubmissionWaits DEF TimerStep
  <1>5. ASSUME NEW r \in Rounds, EventStep(r) PROVE WaitInv'
    BY <1>5, EventWaits
  <1>6. ASSUME NEW r \in Rounds, Continuation(r) PROVE WaitInv'
    BY <1>6, PreparationWaits, SubmissionWaits DEF Continuation
  <1>7. ASSUME NEW b \in Buffers, TransactionMined(b) PROVE WaitInv'
    BY <1>0, <1>7, WaitsStill DEF TransactionMined, StillWaits
  <1> QED
    BY <1>1, <1>2, <1>3, <1>4, <1>5, <1>6, <1>7 DEF Next

\* When the local clock and the blocks agree, a closed vote waits for nothing
\* but the verification of a request it names.
THEOREM CountOnlyWaitsForVerification ==
  ASSUME ChainInStep
  PROVE  Spec => []CountWaitsOnlyForVerification
  <1>1. Init => WaitInv
    BY Statuses DEF Init, NewRound, WaitInv, Waits, CanCount
  <1>2. Inv /\ WaitInv /\ [Next]_vars => WaitInv'
    BY WaitInvStep
  <1>3. WaitInv => CountWaitsOnlyForVerification
    BY DEF WaitInv, Waits, CountWaitsOnlyForVerification
  <1> QED
    BY <1>1, <1>2, <1>3, Invariance, PTL DEF Spec

-----------------------------------------------------------------------------
(* Timers.  Every round the process follows has the timers that are not yet  *)
(* due, no round is left out, and the submission with the commit of a round  *)
(* starts when its own timer, or that of the round before it, fires.         *)

CommitDue(r) == StagesPerWindow * (r + 1) + 4

\* The timer that starts the submission with the commit of r has fired.
Fired(r) ==
  \/ r = startRound /\ timer[r] > FirstCommitTimer
  \/ r > startRound /\ timer[r - 1] > SubmitTimer

TimersInStep ==
  \A r \in Rounds : timer[r] # 0 =>
    /\ up /\ startRound <= r /\ StagesPerWindow * r <= clock
    /\ timer[r] <= CompleteTimer => clock <= Due(r, timer[r])
    /\ timer[r] = FirstCommitTimer => r = startRound

NoGaps ==
  up => /\ StagesPerWindow * startRound <= clock
        /\ \A r \in Rounds :
             startRound <= r /\ StagesPerWindow * (r + 1) <= clock => timer[r] # 0

StagesInStep ==
  \A r \in Rounds :
    /\ sub[r].stage # "none" <=> Fired(r)
    /\ sub[r].stage # "none" => clock >= CommitDue(r)
    /\ sub[r].stage = "lookup" => r = startRound

\* A transaction with the commit of a round of this process is that of its
\* submission, and what is on the board has been sent.
TxInStep ==
  /\ \A r \in Rounds : tx[r + 1] # None =>
       /\ clock >= CommitDue(r)
       /\ up /\ startRound <= r => sub[r].stage \in {"sent", "done"}
  /\ \A b \in Buffers : board[b] # None => board[b] = tx[b]

TimeInv == TimersInStep /\ NoGaps /\ StagesInStep /\ TxInStep

\* When the timers of a round are due.
LEMMA DueTimes ==
  ASSUME NEW r \in Nat
  PROVE  /\ Due(r, 1) = 5 * r + 5 /\ Due(r, 2) = 5 * r + 6 /\ Due(r, 3) = 5 * r + 7
         /\ Due(r, 4) = 5 * r + 8 /\ Due(r, 5) = 5 * r + 9 /\ Due(r, 6) = 5 * r + 10
         /\ Due(r, 7) = 5 * r + 14 /\ Due(r, 8) = 5 * r + 15
         /\ CommitDue(r) = 5 * r + 9 /\ StagesPerWindow = 5
  BY TimerNumbers DEF Due, CommitDue, StagesPerWindow

\* The next timer is never due earlier.
LEMMA DueLater ==
  ASSUME NEW r \in Nat, NEW t \in 1..7
  PROVE  /\ Due(r, t) <= Due(r, t + 1)
         /\ t <= 6 => Due(r, t) <= Due(r, 6)
         /\ Due(r, t) \in Nat /\ Due(r, t + 1) \in Nat /\ Due(r, 6) \in Nat
  <1>1. /\ Due(r, t) = IF t <= 5 THEN 5 * (r + 1) + t - 1
                       ELSE IF t = 6 THEN 5 * (r + 2) ELSE 5 * (r + 2) + 4
        /\ Due(r, t + 1) = IF t + 1 <= 5 THEN 5 * (r + 1) + t
                           ELSE IF t + 1 = 6 THEN 5 * (r + 2)
                           ELSE IF t + 1 = 7 THEN 5 * (r + 2) + 4 ELSE 5 * (r + 3)
    BY TimerNumbers DEF Due, StagesPerWindow
  <1>2. Due(r, 6) = 5 * (r + 2)
    BY DueTimes
  <1> QED
    BY <1>1, <1>2

\* A timer that fires arms one that is due now or later.
LEMMA RearmedInStep ==
  ASSUME Inv, TimersInStep, NoGaps, NEW r \in Rounds, NEW t \in 1..8, Fires(r, t),
         timer' = Rearmed(r, t), UNCHANGED <<clock, up, startRound>>
  PROVE  /\ TimersInStep' /\ NoGaps'
         /\ timer[r] = t /\ timer'[r] = NextTimer(r, t)
         /\ \A q \in Rounds \ {r} : timer'[q] = timer[q]
         /\ up /\ startRound <= r /\ clock = Due(r, t)
  <1>1. /\ timer[r] = t /\ timer'[r] = NextTimer(r, t)
        /\ \A q \in Rounds \ {r} : timer'[q] = timer[q]
    BY DEF Fires, Rearmed, Inv, OtherTypes
  <1>2. up /\ startRound <= r /\ clock = Due(r, t) /\ StagesPerWindow * r <= clock
    BY <1>1 DEF TimersInStep, Fires
  <1>3. r \in Nat /\ clock \in Nat /\ startRound \in Nat
    BY RoundsAndBuffers DEF Inv, OtherTypes
  <1>4. TimersInStep'
    <2> SUFFICES ASSUME NEW q \in Rounds, timer'[q] # 0
                 PROVE  /\ up /\ startRound <= q /\ StagesPerWindow * q <= clock
                        /\ timer'[q] <= CompleteTimer => clock <= Due(q, timer'[q])
                        /\ timer'[q] = FirstCommitTimer => q = startRound
      BY DEF TimersInStep
    <2>1. CASE q # r
      BY <1>1, <2>1 DEF TimersInStep
    <2>2. CASE q = r
      <3>1. ASSUME t <= 7 PROVE clock <= Due(r, t + 1)
        <4>1. t \in 1..7
          BY <3>1
        <4> QED
          BY <1>2, <1>3, <4>1, DueLater
      <3>2. t = 4 => clock <= Due(r, 6)
        BY <1>2, <1>3, DueLater
      <3>3. NextTimer(r, t) = 5 => ~Linked(r)
        BY TimerNumbers DEF NextTimer
      <3>4. NextTimer(r, t) = t + 1 \/ (t = 4 /\ NextTimer(r, t) = 6)
        BY TimerNumbers DEF NextTimer
      <3>5. ~Linked(r) => r = startRound
        BY <1>2, <1>3 DEF Linked
      <3> QED
        BY <1>1, <1>2, <2>2, <3>1, <3>2, <3>3, <3>4, <3>5, TimerNumbers
    <2> QED
      BY <2>1, <2>2
  <1>5. NextTimer(r, t) # 0
    BY TimerNumbers DEF NextTimer
  <1>6. NoGaps'
    BY <1>1, <1>5 DEF NoGaps
  <1> QED
    BY <1>1, <1>2, <1>4, <1>6

\* The process stops.
LEMMA ExitInStep ==
  ASSUME Inv, TimeInv, ProcessExit
  PROVE  TimeInv'
  <1> USE DEF ProcessExit
  <1>1. TimersInStep' /\ NoGaps'
    BY DEF TimersInStep, NoGaps
  <1>2. StagesInStep'
    <2> SUFFICES ASSUME NEW r \in Rounds
                 PROVE  sub'[r].stage = "none" /\ ~Fired(r)'
      BY DEF StagesInStep
    <2>1. startRound \in Rounds /\ r \in Nat /\ (r > 0 => r - 1 \in Rounds)
          /\ startRound \in Nat
      BY RoundsAndBuffers DEF Inv, OtherTypes
    <2> QED
      BY <2>1, TimerNumbers DEF Fired, NoSubmission
  <1>3. TxInStep'
    BY DEF TimeInv, TxInStep
  <1> QED
    BY <1>1, <1>2, <1>3 DEF TimeInv

\* A step that neither fires a timer nor sends anything.
LEMMA SameInStep ==
  ASSUME Inv, TimeInv, UNCHANGED <<clock, up, startRound, timer, sub, tx, board>>
  PROVE  TimeInv'
  BY DEF TimeInv, TimersInStep, NoGaps, StagesInStep, TxInStep, Fired

\* What a timer that starts no submission leaves alone.
LEMMA TimerInStep ==
  ASSUME Inv, TimeInv, NEW r \in Rounds, NEW t \in {1, 2, 3, 4, 6, 8}, Fires(r, t),
         timer' = Rearmed(r, t), UNCHANGED <<clock, up, startRound, sub, tx, board>>
  PROVE  TimeInv'
  <1>1. /\ TimersInStep' /\ NoGaps'
        /\ timer[r] = t /\ timer'[r] = NextTimer(r, t)
        /\ \A q \in Rounds \ {r} : timer'[q] = timer[q]
    BY RearmedInStep DEF TimeInv
  <1>2. NextTimer(r, t) = IF t = 4 /\ Linked(r) THEN 6 ELSE t + 1
    BY TimerNumbers DEF NextTimer
  <1>3. ASSUME NEW q \in Rounds PROVE Fired(q)' <=> Fired(q)
    <2>1. q \in Nat /\ startRound \in Nat /\ r \in Nat /\ (q > 0 => q - 1 \in Rounds)
      BY RoundsAndBuffers DEF Inv, OtherTypes
    <2>2. ~(Linked(r) /\ r = startRound)
      BY <2>1 DEF Linked
    <2>3. (timer'[r] > 7 <=> timer[r] > 7) /\ (~Linked(r) => (timer'[r] > 5 <=> timer[r] > 5))
      BY <1>1, <1>2
    <2> QED
      BY <1>1, <2>1, <2>2, <2>3, TimerNumbers DEF Fired
  <1>4. StagesInStep' /\ TxInStep'
    BY <1>3 DEF TimeInv, StagesInStep, TxInStep, CommitDue
  <1> QED
    BY <1>1, <1>4 DEF TimeInv

\* What a step of the submission with the commit of r does.
Proceeds(r) ==
  /\ UNCHANGED <<clock, up, startRound, board>>
  /\ \E x \in SubmissionRecord :
       /\ sub' = [sub EXCEPT ![r] = x]
       /\ x.stage # "none"
       /\ x.stage = "lookup" => ~Linked(r)
       /\ \/ tx' = tx /\ (x.stage \in {"sent", "done"} \/ sub[r].stage \notin {"sent", "done"})
          \/ /\ x.stage = "sent" /\ sub[r].stage \notin {"sent", "done"}
             /\ \E t \in Transaction : tx' = [tx EXCEPT ![r + 1] = t]

\* A step of a submission whose timer has fired keeps everything in step.
LEMMA ProceedsInStep ==
  ASSUME Inv, TimeInv, NEW r \in Rounds, Proceeds(r), TimersInStep', NoGaps',
         up, startRound <= r, clock >= CommitDue(r),
         \A q \in Rounds : Fired(q)' <=> Fired(q) \/ q = r
  PROVE  TimeInv'
  <1>1. PICK x \in SubmissionRecord :
          /\ sub' = [sub EXCEPT ![r] = x]
          /\ x.stage # "none"
          /\ x.stage = "lookup" => ~Linked(r)
          /\ \/ tx' = tx /\ (x.stage \in {"sent", "done"} \/ sub[r].stage \notin {"sent", "done"})
             \/ /\ x.stage = "sent" /\ sub[r].stage \notin {"sent", "done"}
                /\ \E t \in Transaction : tx' = [tx EXCEPT ![r + 1] = t]
    BY DEF Proceeds
  <1>2. UNCHANGED <<clock, up, startRound, board>>
    BY DEF Proceeds
  <1>3. sub'[r] = x /\ \A q \in Rounds \ {r} : sub'[q] = sub[q]
    BY <1>1 DEF Inv, OtherTypes
  <1>4. r \in Nat /\ startRound \in Nat /\ r + 1 \in Buffers
    BY RoundsAndBuffers DEF Inv, OtherTypes
  <1>5. StagesInStep'
    <2> SUFFICES ASSUME NEW q \in Rounds
                 PROVE  /\ sub'[q].stage # "none" <=> Fired(q)'
                        /\ sub'[q].stage # "none" => clock >= CommitDue(q)
                        /\ sub'[q].stage = "lookup" => q = startRound
      BY <1>2 DEF StagesInStep, CommitDue
    <2>1. CASE q = r
      <3>1. x.stage = "lookup" => r = startRound
        BY <1>1, <1>4 DEF Linked
      <3> QED
        BY <1>1, <1>3, <2>1, <3>1
    <2>2. CASE q # r
      BY <1>3, <2>2 DEF TimeInv, StagesInStep
    <2> QED
      BY <2>1, <2>2
  <1>6. \A q \in Rounds : tx'[q + 1] # None =>
          /\ clock >= CommitDue(q)
          /\ up /\ startRound <= q => sub'[q].stage \in {"sent", "done"}
    <2> SUFFICES ASSUME NEW q \in Rounds, tx'[q + 1] # None
                 PROVE  /\ clock >= CommitDue(q)
                        /\ up /\ startRound <= q => sub'[q].stage \in {"sent", "done"}
      OBVIOUS
    <2>1. CASE q = r
      <3>1. CASE tx' = tx
        BY <1>1, <1>3, <2>1, <3>1 DEF TimeInv, TxInStep
      <3>2. CASE x.stage = "sent"
        BY <1>3, <2>1, <3>2
      <3> QED
        BY <1>1, <3>1, <3>2
    <2>2. CASE q # r
      <3>1. q + 1 # r + 1 /\ q + 1 \in Buffers
        BY <1>4, <2>2, RoundsAndBuffers
      <3>2. tx'[q + 1] = tx[q + 1]
        BY <1>1, <3>1 DEF Inv, OtherTypes
      <3> QED
        BY <1>3, <2>2, <3>2 DEF TimeInv, TxInStep
    <2> QED
      BY <2>1, <2>2
  <1>7. \A b \in Buffers : board'[b] # None => board'[b] = tx'[b]
    <2> SUFFICES ASSUME NEW b \in Buffers, board[b] # None PROVE board[b] = tx'[b]
      BY <1>2
    <2>1. board[b] = tx[b]
      BY DEF TimeInv, TxInStep
    <2>2. CASE b # r + 1 \/ tx' = tx
      BY <1>1, <2>1, <2>2 DEF Inv, OtherTypes
    <2>3. CASE b = r + 1 /\ sub[r].stage \notin {"sent", "done"}
      BY <2>1, <2>3 DEF TimeInv, TxInStep
    <2> QED
      BY <1>1, <2>2, <2>3
  <1>8. TxInStep'
    BY <1>2, <1>6, <1>7 DEF TxInStep, CommitDue
  <1> QED
    BY <1>5, <1>8 DEF TimeInv

\* A submission goes on.
LEMMA ContinuesInStep ==
  ASSUME Inv, TimeInv, NEW r \in Rounds, Proceeds(r), timer' = timer,
         sub[r].stage # "none"
  PROVE  TimeInv'
  <1>1. UNCHANGED <<clock, up, startRound>>
    BY DEF Proceeds
  <1>2. timer[r] # 0 /\ Fired(r) /\ clock >= CommitDue(r)
    BY StageAlive DEF TimeInv, StagesInStep
  <1>3. up /\ startRound <= r
    BY <1>2 DEF TimeInv, TimersInStep
  <1>4. TimersInStep' /\ NoGaps'
    BY <1>1 DEF TimeInv, TimersInStep, NoGaps
  <1>5. \A q \in Rounds : Fired(q)' <=> Fired(q) \/ q = r
    BY <1>1, <1>2 DEF Fired
  <1> QED
    BY <1>2, <1>3, <1>4, <1>5, ProceedsInStep

\* A submission starts: with its own timer in the first round of the process.
LEMMA FirstStartsInStep ==
  ASSUME Inv, TimeInv, NEW r \in Rounds, Proceeds(r),
         Fires(r, FirstCommitTimer), timer' = Rearmed(r, FirstCommitTimer)
  PROVE  TimeInv'
  <1>1. UNCHANGED <<clock, up, startRound>>
    BY DEF Proceeds
  <1>2. /\ TimersInStep' /\ NoGaps' /\ timer[r] = 5 /\ timer'[r] = 6
        /\ \A q \in Rounds \ {r} : timer'[q] = timer[q]
        /\ up /\ startRound <= r /\ clock = Due(r, 5)
    BY <1>1, RearmedInStep, TimerNumbers DEF TimeInv, NextTimer
  <1>3. r = startRound
    BY <1>2, TimerNumbers DEF TimeInv, TimersInStep
  <1>4. clock >= CommitDue(r)
    <2>1. r \in Nat
      BY RoundsAndBuffers
    <2> QED
      BY <1>2, <2>1, DueTimes
  <1>5. ASSUME NEW q \in Rounds PROVE Fired(q)' <=> Fired(q) \/ q = r
    <2>1. q \in Nat /\ r \in Nat /\ (q > 0 => q - 1 \in Rounds)
      BY RoundsAndBuffers
    <2> QED
      BY <1>1, <1>2, <1>3, <2>1, TimerNumbers DEF Fired
  <1> QED
    BY <1>2, <1>4, <1>5, ProceedsInStep

\* In the others, with the timer of the round before.
LEMMA NextStartsInStep ==
  ASSUME Inv, TimeInv, NEW p \in Rounds, p + 1 \in Rounds, Proceeds(p + 1),
         Fires(p, SubmitTimer), timer' = Rearmed(p, SubmitTimer)
  PROVE  TimeInv'
  <1>1. UNCHANGED <<clock, up, startRound>>
    BY DEF Proceeds
  <1>2. /\ TimersInStep' /\ NoGaps' /\ timer[p] = 7 /\ timer'[p] = 8
        /\ \A q \in Rounds \ {p} : timer'[q] = timer[q]
        /\ up /\ startRound <= p /\ clock = Due(p, 7)
    BY <1>1, RearmedInStep, TimerNumbers DEF TimeInv, NextTimer
  <1>3. p \in Nat /\ startRound \in Nat
    BY RoundsAndBuffers DEF Inv, OtherTypes
  <1>4. clock >= CommitDue(p + 1) /\ startRound <= p + 1
    <2>1. clock = 5 * p + 14 /\ CommitDue(p + 1) = 5 * (p + 1) + 9
      BY <1>2, <1>3, DueTimes
    <2> QED
      BY <1>2, <1>3, <2>1
  <1>5. ASSUME NEW q \in Rounds PROVE Fired(q)' <=> Fired(q) \/ q = p + 1
    <2>1. q \in Nat /\ (q > 0 => q - 1 \in Rounds)
      BY RoundsAndBuffers
    <2> QED
      BY <1>1, <1>2, <1>3, <2>1, TimerNumbers DEF Fired
  <1> QED
    BY <1>2, <1>4, <1>5, ProceedsInStep

\* The steps of a submission.
LEMMA SubmitProceeds ==
  ASSUME Inv, NEW r \in Rounds, NEW root \in Roots, NEW random \in Nat, NEW timers,
         sub[r].stage \notin {"sent", "done"}, Submit(r, root, random, timers)
  PROVE  ProcessExit \/ (Proceeds(r) /\ timer' = timers)
  <1> USE DEF process
  <1>1. CASE rd[r].masked = None
    BY <1>1 DEF Submit
  <1>2. CASE rd[r].masked # None
    <2> DEFINE x == [sub[r] EXCEPT !.stage = "sent"]
               t == [masked |-> rd[r].masked, root |-> root, random |-> random]
    <2>1. t \in Transaction
      BY <1>2, SafeNow DEF RoundRecord, Transaction
    <2>2. x \in SubmissionRecord /\ x.stage = "sent" /\ sub' = [sub EXCEPT ![r] = x]
      BY <1>2, StageTyped DEF Submit
    <2>3. tx' = [tx EXCEPT ![r + 1] = t] /\ UNCHANGED <<clock, up, startRound, board>>
          /\ timer' = timers
      BY <1>2 DEF Submit
    <2> HIDE DEF x, t
    <2> QED
      BY <2>1, <2>2, <2>3 DEF Proceeds
  <1> QED
    BY <1>1, <1>2

\* The submission of any round but the first.
LEMMA SubmitLinkedProceeds ==
  ASSUME Inv, NEW r \in Rounds, r > 0, NEW canReveal, NEW timers,
         sub[r].stage \notin {"sent", "done"}, SubmitLinked(r, canReveal, timers)
  PROVE  ProcessExit \/ (Proceeds(r) /\ timer' = timers)
  <1> USE DEF process, chain
  <1>1. CASE ShouldSubmit(r)
    <2> DEFINE root == IF canReveal THEN rd[r - 1].root ELSE Zero
               random == IF canReveal THEN rd[r - 1].random ELSE 0
    <2>1. root \in Roots /\ random \in Nat
      BY RoundsAndBuffers, SafeNow DEF RoundRecord, Zero, Roots
    <2>2. Submit(r, root, random, timers)
      BY <1>1 DEF SubmitLinked
    <2> HIDE DEF root, random
    <2> QED
      BY <2>1, <2>2, SubmitProceeds
  <1>2. CASE ~ShouldSubmit(r)
    <2> DEFINE x == [sub[r] EXCEPT !.stage = "done"]
    <2>1. /\ sub' = [sub EXCEPT ![r] = x] /\ x \in SubmissionRecord /\ x.stage = "done"
          /\ timer' = timers /\ tx' = tx /\ UNCHANGED <<clock, up, startRound, board>>
      BY <1>2, StageTyped DEF SubmitLinked
    <2> HIDE DEF x
    <2> QED
      BY <2>1 DEF Proceeds
  <1> QED
    BY <1>1, <1>2

\* Giving up the commit starts a submission.
LEMMA GiveUpCommitProceeds ==
  ASSUME Inv, NEW r \in Rounds, NEW reject, NEW canReveal \in BOOLEAN, NEW timers,
         sub[r].stage \notin {"sent", "done"},
         GiveUpCommit(r, reject, canReveal, timers)
  PROVE  Proceeds(r) /\ timer' = timers
  <1> DEFINE x == [stage |-> IF reject THEN "rejecting" ELSE "abstaining",
                   canReveal |-> canReveal, write |-> None]
  <1>1. x \in SubmissionRecord /\ x.stage \notin {"none", "lookup"}
    BY DEF SubmissionRecord, Preparing
  <1>2. /\ sub' = [sub EXCEPT ![r] = x] /\ timer' = timers /\ tx' = tx
        /\ UNCHANGED <<clock, up, startRound, board>>
    BY DEF GiveUpCommit, process, chain
  <1> HIDE DEF x
  <1> QED
    BY <1>1, <1>2 DEF Proceeds

\* Every step of a submission.
LEMMA SubmissionInStep ==
  ASSUME Inv, TimeInv, NEW r \in Rounds,
         \/ OnFirstCommit(r) \/ OnSubmitAttestation(r) \/ RandomDrawn(r)
         \/ GiveUpStored(r) \/ PreviousRoundRead(r) \/ SubmissionReturned(r)
  PROVE  TimeInv'
  <1> USE DEF process, storage, chain
  <1>0. r \in Nat /\ startRound \in Nat /\ sub[r] \in SubmissionRecord
    BY RoundsAndBuffers DEF Inv, OtherTypes
  <1>1. CASE OnFirstCommit(r)
    <2>1. Fires(r, FirstCommitTimer) /\ timer[r] = 5 /\ up
      BY <1>1, TimerNumbers DEF OnFirstCommit, Fires
    <2>2. r = startRound
      BY <2>1, TimerNumbers DEF TimeInv, TimersInStep
    <2>3. sub[r].stage = "none"
      <3>1. ~Fired(r)
        BY <1>0, <2>1, <2>2, TimerNumbers DEF Fired
      <3> QED
        BY <3>1 DEF TimeInv, StagesInStep
    <2>4. CASE CanCommit(rd[r])
      <3> DEFINE x == [sub[r] EXCEPT !.stage = "lookup"]
      <3>1. /\ sub' = [sub EXCEPT ![r] = x] /\ x \in SubmissionRecord /\ x.stage = "lookup"
            /\ timer' = Rearmed(r, FirstCommitTimer) /\ tx' = tx
            /\ UNCHANGED <<clock, up, startRound, board>>
        BY <1>1, <2>4, StageTyped DEF OnFirstCommit, Preparing
      <3> HIDE DEF x
      <3>2. ~Linked(r)
        BY <1>0, <2>2 DEF Linked
      <3>3. Proceeds(r)
        BY <2>3, <3>1, <3>2 DEF Proceeds
      <3> QED
        BY <2>1, <3>1, <3>3, FirstStartsInStep
    <2>5. CASE ~CanCommit(rd[r])
      <3>1. Proceeds(r) /\ timer' = Rearmed(r, FirstCommitTimer)
        BY <1>1, <2>3, <2>5, GiveUpCommitProceeds DEF OnFirstCommit
      <3> QED
        BY <2>1, <3>1, FirstStartsInStep
    <2> QED
      BY <2>4, <2>5
  <1>2. CASE OnSubmitAttestation(r)
    <2>1. /\ Fires(r, SubmitTimer) /\ timer[r] = 7 /\ up /\ r + 1 \in Rounds /\ r + 1 > 0
          /\ timer[r + 1] # 0
      BY <1>0, <1>2, TimerNumbers, RoundAssumption DEF OnSubmitAttestation, Fires, Rounds, Live
    <2>2. startRound <= r
      BY <2>1 DEF TimeInv, TimersInStep
    <2>3. sub[r + 1].stage = "none"
      <3>1. ~Fired(r + 1)
        BY <1>0, <2>1, <2>2, TimerNumbers DEF Fired
      <3> QED
        BY <2>1, <3>1 DEF TimeInv, StagesInStep
    <2>4. ProcessExit \/ (Proceeds(r + 1) /\ timer' = Rearmed(r, SubmitTimer))
      <3> DEFINE canReveal == rd[r].status \in {CommitDataPrepared, Committed}
      <3>1. canReveal \in BOOLEAN
        OBVIOUS
      <3>2. \/ SubmitLinked(r + 1, canReveal, Rearmed(r, SubmitTimer))
            \/ GiveUpCommit(r + 1, rd[r + 1].isReject, canReveal, Rearmed(r, SubmitTimer))
        BY <1>2 DEF OnSubmitAttestation
      <3> HIDE DEF canReveal
      <3> QED
        BY <2>1, <2>3, <3>1, <3>2, SubmitLinkedProceeds, GiveUpCommitProceeds
    <2> QED
      BY <2>1, <2>4, ExitInStep, NextStartsInStep
  <1>3. CASE RandomDrawn(r)
    <2> DEFINE s == IF sub[r].stage = "abstaining" THEN Abstained(rd[r])
                    ELSE Committing(rd[r])
               x == [sub[r] EXCEPT !.stage = "storing", !.write = Stored(s)]
    <2>1. SafeRound(s, confirmed[r])
      BY SafeNow, AbstainedSafe, CommittingSafe DEF Inv, OtherTypes
    <2>2. /\ sub' = [sub EXCEPT ![r].stage = "storing", ![r].write = Stored(s)]
          /\ sub[r].stage \in {"abstaining", "rejecting"}
          /\ timer' = timer /\ tx' = tx /\ UNCHANGED <<clock, up, startRound, board>>
      BY <1>3 DEF RandomDrawn
    <2> HIDE DEF s
    <2>3. Stored(s) \in Hash
      BY <2>1, HashTyped DEF Stored, SafeRound, RoundRecord
    <2>4. x \in SubmissionRecord /\ x.stage = "storing"
      BY <1>0, <2>3 DEF SubmissionRecord, Preparing
    <2>5. sub' = [sub EXCEPT ![r] = x]
      BY <1>0, <2>2 DEF Inv, OtherTypes, SubmissionRecord
    <2> HIDE DEF x
    <2>6. Proceeds(r)
      BY <2>2, <2>4, <2>5 DEF Proceeds
    <2> QED
      BY <2>2, <2>6, ContinuesInStep
  <1>4. CASE GiveUpStored(r)
    <2>1. sub[r].stage = "storing"
      BY <1>4 DEF GiveUpStored
    <2>2. CASE Linked(r)
      <3>1. r > 0
        BY <1>0, <2>2 DEF Linked
      <3>2. ProcessExit \/ (Proceeds(r) /\ timer' = timer)
        BY <1>4, <2>1, <2>2, <3>1, SubmitLinkedProceeds DEF GiveUpStored
      <3> QED
        BY <2>1, <3>2, ExitInStep, ContinuesInStep
    <2>3. CASE ~Linked(r)
      <3> DEFINE x == [sub[r] EXCEPT !.stage = "lookup"]
      <3>1. /\ sub' = [sub EXCEPT ![r] = x] /\ x \in SubmissionRecord /\ x.stage = "lookup"
            /\ timer' = timer /\ tx' = tx /\ UNCHANGED <<clock, up, startRound, board>>
        BY <1>4, <2>3, StageTyped DEF GiveUpStored, Preparing
      <3> HIDE DEF x
      <3>2. Proceeds(r)
        BY <2>1, <2>3, <3>1 DEF Proceeds
      <3> QED
        BY <2>1, <3>1, <3>2, ContinuesInStep
    <2> QED
      BY <2>2, <2>3
  <1>5. CASE PreviousRoundRead(r)
    <2> DEFINE previous == IF r = 0 THEN [root |-> Zero, random |-> 0] ELSE db[r - 1]
    <2>1. sub[r].stage = "lookup" /\ Submit(r, previous.root, previous.random, timer)
      BY <1>5 DEF PreviousRoundRead
    <2>2. previous.root \in Roots /\ previous.random \in Nat
      BY RoundsAndBuffers DEF Inv, OtherTypes, Hash, Zero, Roots
    <2> HIDE DEF previous
    <2>3. ProcessExit \/ (Proceeds(r) /\ timer' = timer)
      BY <2>1, <2>2, SubmitProceeds
    <2> QED
      BY <2>1, <2>3, ExitInStep, ContinuesInStep
  <1>6. CASE SubmissionReturned(r)
    <2> DEFINE x == [sub[r] EXCEPT !.stage = "done"]
    <2>1. /\ sub' = [sub EXCEPT ![r] = x] /\ x \in SubmissionRecord /\ x.stage = "done"
          /\ sub[r].stage = "sent"
          /\ timer' = timer /\ tx' = tx /\ UNCHANGED <<clock, up, startRound, board>>
      BY <1>6, StageTyped DEF SubmissionReturned
    <2> HIDE DEF x
    <2>2. Proceeds(r)
      BY <2>1 DEF Proceeds
    <2> QED
      BY <2>1, <2>2, ContinuesInStep
  <1> QED
    BY <1>1, <1>2, <1>3, <1>4, <1>5, <1>6

\* Time goes on.
LEMMA ClockInStep ==
  ASSUME Inv, TimeInv, AdvanceClock
  PROVE  TimeInv'
  <1> USE DEF process, storage, chain
  <1>1. /\ clock' = clock + 1
        /\ UNCHANGED <<up, startRound, timer, sub, tx, board>>
        /\ clock \in Nat /\ startRound \in Nat
    BY RoundsAndBuffers DEF AdvanceClock, Inv, OtherTypes
  <1>2. TimersInStep'
    <2> SUFFICES ASSUME NEW r \in Rounds, timer[r] # 0
                 PROVE  /\ up /\ startRound <= r /\ StagesPerWindow * r <= clock + 1
                        /\ timer[r] <= CompleteTimer => clock + 1 <= Due(r, timer[r])
                        /\ timer[r] = FirstCommitTimer => r = startRound
      BY <1>1 DEF TimersInStep, Due
    <2>1. /\ up /\ startRound <= r /\ StagesPerWindow * r <= clock
          /\ timer[r] = FirstCommitTimer => r = startRound
      BY DEF TimeInv, TimersInStep
    <2>2. timer[r] <= CompleteTimer => Due(r, timer[r]) > clock
      BY <2>1 DEF AdvanceClock, Live
    <2>3. r \in Nat /\ timer[r] \in 0..9
      BY RoundsAndBuffers, TimerNumbers DEF Inv, OtherTypes
    <2>4. timer[r] <= CompleteTimer => Due(r, timer[r]) \in Nat
      <3>1. ASSUME NEW t \in 1..7 PROVE Due(r, t) \in Nat
        BY <2>3, DueLater
      <3>2. r \in Nat /\ Due(r, 8) = 5 * r + 15
        BY <2>3, DueTimes
      <3>3. timer[r] <= CompleteTimer => timer[r] \in 1..7 \/ timer[r] = 8
        BY <2>3, TimerNumbers, timer[r] # 0
      <3> QED
        BY <3>1, <3>2, <3>3
    <2> QED
      BY <1>1, <2>1, <2>2, <2>3, <2>4 DEF StagesPerWindow
  <1>3. NoGaps'
    <2> SUFFICES ASSUME up
                 PROVE  /\ StagesPerWindow * startRound <= clock + 1
                        /\ \A r \in Rounds :
                             startRound <= r /\ StagesPerWindow * (r + 1) <= clock + 1 =>
                               timer[r] # 0
      BY <1>1 DEF NoGaps
    <2>1. /\ StagesPerWindow * startRound <= clock
          /\ \A r \in Rounds :
               startRound <= r /\ StagesPerWindow * (r + 1) <= clock => timer[r] # 0
      BY DEF TimeInv, NoGaps
    <2>2. ASSUME NEW r \in Rounds, 5 * (r + 1) = clock + 1 PROVE timer[r] # 0
      <3>1. r \in Nat
        BY RoundsAndBuffers
      <3>2. clock \div 5 = r
        BY <1>1, <2>2, <3>1
      <3>3. Window = r
        BY <3>2 DEF Window, StagesPerWindow
      <3> QED
        BY <3>3 DEF AdvanceClock
    <2> QED
      BY <1>1, <2>1, <2>2, RoundsAndBuffers DEF StagesPerWindow
  <1>4. StagesInStep' /\ TxInStep'
    <2>1. \A r \in Rounds : CommitDue(r) \in Nat
      BY RoundsAndBuffers DEF CommitDue, StagesPerWindow
    <2> QED
      BY <1>1, <2>1 DEF TimeInv, StagesInStep, TxInStep, Fired, CommitDue
  <1> QED
    BY <1>2, <1>3, <1>4 DEF TimeInv

\* A new process follows the rounds from the present one on.
LEMMA RestartInStep ==
  ASSUME Inv, TimeInv, Restart
  PROVE  TimeInv'
  <1> USE DEF process, storage, chain
  <1>1. /\ ~up /\ startRound' = Window /\ Window \in Rounds
        /\ UNCHANGED <<clock, timer, sub, tx, board>>
    BY DEF Restart
  <1>2. \A r \in Rounds : timer[r] = 0 /\ sub[r].stage = "none"
    BY <1>1 DEF TimeInv, TimersInStep, Inv, IdleSafe
  <1>3. clock \in Nat /\ 5 * Window <= clock /\ clock < 5 * Window + 5 /\ Window \in Nat
    <2>1. clock \in Nat
      BY DEF Inv, OtherTypes
    <2>2. 5 * (clock \div 5) <= clock /\ clock < 5 * (clock \div 5) + 5
      BY <2>1
    <2> QED
      BY <1>1, <2>1, <2>2, RoundsAndBuffers DEF Window, StagesPerWindow
  <1>4. TimersInStep'
    BY <1>1, <1>2 DEF TimersInStep
  <1>5. NoGaps'
    BY <1>1, <1>3, RoundsAndBuffers DEF NoGaps, StagesPerWindow
  <1>6. StagesInStep'
    <2> SUFFICES ASSUME NEW r \in Rounds PROVE ~Fired(r)'
      BY <1>1, <1>2 DEF StagesInStep
    <2>1. r > startRound' => r - 1 \in Rounds
      BY <1>1, <1>3, RoundsAndBuffers
    <2> QED
      BY <1>1, <1>2, <2>1, TimerNumbers DEF Fired
  <1>7. TxInStep'
    <2>1. ASSUME NEW r \in Rounds, tx[r + 1] # None PROVE clock >= CommitDue(r) /\ Window > r
      <3>1. clock >= CommitDue(r)
        BY <2>1 DEF TimeInv, TxInStep
      <3> QED
        BY <1>3, <3>1, RoundsAndBuffers DEF CommitDue, StagesPerWindow
    <2>2. \A r \in Rounds : Window > r => ~(Window <= r)
      BY <1>3, RoundsAndBuffers
    <2> QED
      BY <1>1, <2>1, <2>2 DEF TimeInv, TxInStep, CommitDue
  <1> QED
    BY <1>4, <1>5, <1>6, <1>7 DEF TimeInv

\* The round of the window is created before the window ends.
LEMMA CreateInStep ==
  ASSUME Inv, TimeInv, NEW r \in Rounds, CreateRound(r)
  PROVE  TimeInv'
  <1> USE DEF process, storage, chain
  <1>1. /\ up /\ r = Window /\ timer[r] = 0
        /\ UNCHANGED <<clock, up, startRound, sub, tx, board>>
    BY DEF CreateRound
  <1>2. timer'[r] = 1 /\ \A q \in Rounds \ {r} : timer'[q] = timer[q]
    BY TimerNumbers DEF CreateRound, Inv, OtherTypes
  <1>3. clock \in Nat /\ r \in Nat /\ startRound \in Nat /\ 5 * r <= clock /\ clock < 5 * r + 5
    <2>1. clock \in Nat /\ r \in Nat /\ startRound \in Nat
      BY RoundsAndBuffers DEF Inv, OtherTypes
    <2>2. 5 * (clock \div 5) <= clock /\ clock < 5 * (clock \div 5) + 5
      BY <2>1
    <2> QED
      BY <1>1, <2>1, <2>2 DEF Window, StagesPerWindow
  <1>4. startRound <= r
    BY <1>1, <1>3 DEF TimeInv, NoGaps, StagesPerWindow
  <1>5. clock <= Due(r, 1)
    BY <1>3, DueTimes
  <1>6. TimersInStep'
    <2> SUFFICES ASSUME NEW q \in Rounds, timer'[q] # 0
                 PROVE  /\ up /\ startRound <= q /\ StagesPerWindow * q <= clock
                        /\ timer'[q] <= CompleteTimer => clock <= Due(q, timer'[q])
                        /\ timer'[q] = FirstCommitTimer => q = startRound
      BY <1>1 DEF TimersInStep, Due
    <2>1. CASE q = r
      BY <1>1, <1>2, <1>3, <1>4, <1>5, <2>1, TimerNumbers DEF StagesPerWindow
    <2>2. CASE q # r
      BY <1>2, <2>2 DEF TimeInv, TimersInStep
    <2> QED
      BY <2>1, <2>2
  <1>7. NoGaps'
    BY <1>1, <1>2 DEF TimeInv, NoGaps
  <1>8. \A q \in Rounds : Fired(q)' <=> Fired(q)
    <2> TAKE q \in Rounds
    <2>1. q > startRound => q - 1 \in Rounds
      BY <1>3, RoundsAndBuffers
    <2> QED
      BY <1>1, <1>2, <2>1, TimerNumbers DEF Fired
  <1>9. StagesInStep' /\ TxInStep'
    BY <1>1, <1>8 DEF TimeInv, StagesInStep, TxInStep, CommitDue
  <1> QED
    BY <1>6, <1>7, <1>9 DEF TimeInv

\* An event moves no timer, or ends the process.
LEMMA EventInStep ==
  ASSUME Inv, TimeInv, NEW r \in Rounds, EventStep(r)
  PROVE  TimeInv'
  <1> USE DEF process, storage, chain
  <1>1. ASSUME NEW s, SetRound(r, s), timer' = timer PROVE TimeInv'
    BY <1>1, SameInStep DEF SetRound
  <1>2. ASSUME NEW s, CountAndPrepare(r, s, timer) PROVE TimeInv'
    BY <1>1, <1>2, ExitInStep DEF CountAndPrepare
  <1>3. CASE AddAttestation(r)
    BY <1>1, <1>2, <1>3 DEF AddAttestation
  <1>4. ASSUME NEW i \in Requests, NEW verdict \in Verdicts, AttestationProcessed(r, i, verdict)
        PROVE  TimeInv'
    BY <1>2, <1>4 DEF AttestationProcessed
  <1>5. CASE RegisterBitVote(r)
    BY <1>1, <1>5 DEF RegisterBitVote
  <1>6. CASE CloseByBlock(r)
    BY <1>1, <1>2, <1>6 DEF CloseByBlock, CloseBitVoting
  <1> QED
    BY <1>3, <1>4, <1>5, <1>6 DEF EventStep

\* The other timers of a round.
LEMMA OtherTimersInStep ==
  ASSUME Inv, TimeInv, NEW r \in Rounds,
         \/ OnChoosePhaseStart(r) \/ OnSubmitBitVote(r) \/ OnCommitPhaseStart(r)
         \/ ForceClose(r) \/ OnRevealPhaseStart(r) \/ OnFinalisePhaseStart(r)
  PROVE  TimeInv'
  <1> USE DEF process, storage, chain
  <1>1. ASSUME NEW t \in {1, 2, 3, 4, 6, 8}, Fires(r, t), NEW s, SetRound(r, s),
               timer' = Rearmed(r, t)
        PROVE  TimeInv'
    BY <1>1, TimerInStep DEF SetRound
  <1>2. CASE OnChoosePhaseStart(r)
    BY <1>1, <1>2, TimerNumbers DEF OnChoosePhaseStart
  <1>3. CASE OnSubmitBitVote(r)
    BY <1>1, <1>3, TimerNumbers DEF OnSubmitBitVote
  <1>4. CASE OnCommitPhaseStart(r)
    BY <1>1, <1>4, TimerNumbers DEF OnCommitPhaseStart
  <1>5. CASE ForceClose(r)
    BY <1>1, <1>5, ExitInStep, TimerNumbers DEF ForceClose, CloseBitVoting, CountAndPrepare
  <1>6. CASE OnRevealPhaseStart(r)
    BY <1>1, <1>6, TimerNumbers DEF OnRevealPhaseStart
  <1>7. CASE OnFinalisePhaseStart(r)
    BY <1>1, <1>7, TimerNumbers DEF OnFinalisePhaseStart
  <1> QED
    BY <1>2, <1>3, <1>4, <1>5, <1>6, <1>7

\* The timers hold what is said of them at the start.
LEMMA TimeInvInit == Init => TimeInv
  <1> SUFFICES ASSUME Init PROVE TimeInv
    OBVIOUS
  <1> USE DEF Init
  <1>1. TimersInStep /\ TxInStep
    BY RoundsAndBuffers DEF TimersInStep, TxInStep
  <1>2. NoGaps
    BY RoundsAndBuffers DEF NoGaps, StagesPerWindow
  <1>3. StagesInStep
    <2> SUFFICES ASSUME NEW r \in Rounds PROVE sub[r].stage = "none" /\ ~Fired(r)
      BY DEF StagesInStep
    <2>1. r > 0 => r - 1 \in Rounds
      BY RoundsAndBuffers
    <2> QED
      BY <2>1, TimerNumbers DEF Fired, NoSubmission
  <1> QED
    BY <1>1, <1>2, <1>3 DEF TimeInv

\* Every step keeps it.
LEMMA TimeInvStep == Inv /\ TimeInv /\ [Next]_vars => TimeInv'
  <1> SUFFICES ASSUME Inv, TimeInv, [Next]_vars PROVE TimeInv'
    OBVIOUS
  <1> USE DEF process, storage, chain
  <1>1. CASE UNCHANGED vars
    BY <1>1, SameInStep DEF vars
  <1>2. CASE AdvanceClock \/ Crash \/ Restart
    BY <1>2, ClockInStep, ExitInStep, RestartInStep DEF Crash
  <1>3. ASSUME NEW r \in Rounds, CreateRound(r) PROVE TimeInv'
    BY <1>3, CreateInStep
  <1>4. ASSUME NEW r \in Rounds, TimerStep(r) PROVE TimeInv'
    BY <1>4, OtherTimersInStep, SubmissionInStep DEF TimerStep
  <1>5. ASSUME NEW r \in Rounds, EventStep(r) PROVE TimeInv'
    BY <1>5, EventInStep
  <1>6. ASSUME NEW r \in Rounds, Continuation(r) PROVE TimeInv'
    <2>1. CASE VotesSaved(r) \/ CommitPrepared(r) \/ AbstentionPrepared(r) \/ RoundSaved(r)
      BY <2>1, SameInStep DEF VotesSaved, CommitPrepared, AbstentionPrepared, RoundSaved
    <2> QED
      BY <1>6, <2>1, SubmissionInStep DEF Continuation
  <1>7. ASSUME NEW b \in Buffers, TransactionMined(b) PROVE TimeInv'
    <2>1. \A c \in Buffers : board'[c] = board[c] \/ board'[c] = tx[c]
      BY <1>7 DEF TransactionMined, Inv, OtherTypes
    <2> QED
      BY <1>7, <2>1 DEF TransactionMined, TimeInv, TimersInStep, NoGaps, StagesInStep, TxInStep,
                     Fired, CommitDue, Due
  <1> QED
    BY <1>1, <1>2, <1>3, <1>4, <1>5, <1>6, <1>7 DEF Next

\* The timers of the rounds keep step with the clock: none is missed and none
\* is early, and a submission starts when its timer fires.
THEOREM TimersKeepStep == Spec => []TimeInv
  BY TimeInvInit, TimeInvStep, Invariance, PTL DEF Spec

-----------------------------------------------------------------------------
(* The commit data of a round.  Once the submission with its commit has      *)
(* started they are the two zeros of an abstention, or the masked root is    *)
(* the hash of the root and the random that will be revealed; and when the   *)
(* preparations are prompt they are what the transactions carry.             *)

Zeros(x) == x.root = Zero /\ x.random = 0
Hashed(s) == s.masked = [root |-> s.root, random |-> s.random]

\* The round is being abstained from, or its Merkle tree is being built.
Abstains(s, g) == s.isEmpty \/ s.abstaining > 0 \/ g = "abstaining"
Builds(s) == s.saving > 0 \/ s.drawing > 0

\* The state s of a round, and the stage g of the submission of its commit.
Consistent(s, g) ==
  /\ s.status < Chosen => Quiet(s) /\ ~s.isEmpty /\ ~s.isReject
  /\ Abstains(s, g) => Zeros(s) /\ ~Builds(s) /\ s.status >= CommitDataPrepared
  /\ s.isEmpty => s.masked # None /\ s.masked.random > 0
  /\ s.isReject => s.chosen # {}
  /\ g = "none" /\ (s.isEmpty \/ s.abstaining > 0) => s.chosen = {}
  /\ g = "rejecting" => ~s.isEmpty
  /\ Builds(s) => s.chosen # {}
  /\ s.drawing > 0 => s.root = s.chosen
  /\ Builds(s) /\ s.status >= CommitDataPrepared => s.root = s.chosen /\ Hashed(s)
  /\ /\ s.status >= CommitDataPrepared
     /\ s.abstaining = 0
     /\ g \notin {"abstaining", "rejecting"}
     => Zeros(s) \/ Hashed(s)
  /\ g # "none" => Quiet(s) /\ s.status >= CommitDataPrepared

\* A round that does not exist prepares nothing.
DataInv ==
  \A r \in Rounds :
    /\ Consistent(rd[r], sub[r].stage)
    /\ timer[r] = 0 => Quiet(rd[r]) /\ ~rd[r].isEmpty

\* Prompt preparations end when the submission is due.
PromptStages == \A r \in Rounds : sub[r].stage \in Preparing => clock = CommitDue(r)

\* The round r is one that this process commits and reveals.
Own(r) == up /\ startRound <= r

\* The transactions carry the commit data of the process's own rounds.
CarriesRound ==
  \A r \in Rounds : Own(r) =>
    /\ tx[r + 1] # None => tx[r + 1].masked = rd[r].masked
    /\ r + 1 \in Rounds /\ tx[r + 2] # None =>
         \/ Zeros(tx[r + 2])
         \/ tx[r + 2].root = rd[r].root /\ tx[r + 2].random = rd[r].random

\* What is sent to reveal a round of the process opens what was sent to commit it.
OwnReveals ==
  \A r \in Rounds :
    startRound <= r /\ r + 1 \in Rounds /\ tx[r + 1] # None /\ tx[r + 2] # None =>
      \/ Zeros(tx[r + 2])
      \/ tx[r + 1].masked = [root |-> tx[r + 2].root, random |-> tx[r + 2].random]

PromptInv == DataInv /\ PromptStages /\ CarriesRound /\ OwnReveals

\* A new round has no commit data.
LEMMA NewRoundConsistent == Consistent(NewRound, "none") /\ Quiet(NewRound) /\ ~NewRound.isEmpty
  BY Statuses DEF Consistent, NewRound, Quiet, Abstains, Builds

\* Fields that the commit data do not depend on.
LEMMA FrameConsistent ==
  ASSUME NEW s \in RoundRecord, NEW t \in RoundRecord, NEW g, Consistent(s, g),
         t.chosen = s.chosen, t.isReject = s.isReject, t.isEmpty = s.isEmpty,
         t.root = s.root, t.random = s.random, t.masked = s.masked,
         t.saving = s.saving, t.drawing = s.drawing, t.abstaining = s.abstaining,
         \/ t.status = s.status
         \/ s.status < Chosen /\ t.status < Chosen
         \/ s.status >= CommitDataPrepared /\ t.status >= CommitDataPrepared
  PROVE  Consistent(t, g)
  <1>1. s.status \in 0..6 /\ t.status \in 0..6
    BY Statuses DEF RoundRecord
  <1>2. /\ t.status < Chosen <=> s.status < Chosen
        /\ t.status >= CommitDataPrepared <=> s.status >= CommitDataPrepared
    BY <1>1, Statuses
  <1> QED
    BY <1>2 DEF Consistent, Abstains, Builds, Zeros, Hashed, Quiet

\* The stages of a submission after its commit data are there.
LEMMA StageConsistent ==
  ASSUME NEW s \in RoundRecord, NEW g, NEW h, Consistent(s, g), Quiet(s),
         s.status >= CommitDataPrepared,
         g \notin {"abstaining", "rejecting"}, h \notin {"none", "abstaining", "rejecting"}
  PROVE  Consistent(s, h)
  BY Statuses DEF Consistent, Abstains, Builds, Quiet, RoundRecord

\* tryCalculateBitVotingResults changes a round that has no commit data yet.
LEMMA TryCountConsistent ==
  ASSUME NEW s \in RoundRecord, NEW g, Consistent(s, g)
  PROVE  Consistent(TryCount(s), g) /\ TryCount(s) \in RoundRecord
  <1> DEFINE t == [s EXCEPT !.chosen = IF Unprovable(s) THEN {} ELSE s.tally,
                            !.status = Chosen]
  <1>1. CASE TryCount(s) = s
    BY <1>1
  <1>2. CASE CanCount(s) /\ TryCount(s) = t
    <2>1. (IF Unprovable(s) THEN {} ELSE s.tally) \in Roots
      BY DEF RoundRecord, Roots
    <2>2. t \in RoundRecord
      BY <2>1, StatusRange DEF RoundRecord
    <2>3. /\ t.status = Chosen
          /\ t.isReject = s.isReject /\ t.isEmpty = s.isEmpty
          /\ t.root = s.root /\ t.random = s.random /\ t.masked = s.masked
          /\ t.saving = s.saving /\ t.drawing = s.drawing /\ t.abstaining = s.abstaining
      BY DEF RoundRecord
    <2>4. s.status = 1
      BY <1>2, Statuses DEF CanCount
    <2>5. Quiet(s) /\ ~s.isEmpty /\ ~s.isReject /\ g = "none"
      BY <2>4, Statuses DEF Consistent
    <2> HIDE DEF t
    <2>6. Consistent(t, g)
      BY <2>3, <2>5, Statuses DEF Consistent, Abstains, Builds, Quiet
    <2> QED
      BY <1>2, <2>2, <2>6
  <1> QED
    BY <1>1, <1>2 DEF TryCount

\* tryPrepareCommitData starts to build a tree or to abstain, not both.
LEMMA TryPrepareConsistent ==
  ASSUME NEW s \in RoundRecord, NEW g, Consistent(s, g)
  PROVE  Consistent(TryPrepare(s), g)
  <1> DEFINE a == s.att[FirstNotValid(s)] = "invalid"
             rejected == [s EXCEPT !.isReject = a]
             empty == [Abstain(s) EXCEPT !.abstaining = @ + 1]
             saved == [s EXCEPT !.saving = @ + 1]
  <1>1. CASE TryPrepare(s) = s
    BY <1>1
  <1>2. ASSUME s.status = Chosen
        PROVE  /\ g = "none" /\ ~s.isEmpty /\ s.abstaining = 0
               /\ s.saving \in Nat /\ s.drawing \in Nat
    BY <1>2, Statuses DEF Consistent, Abstains, RoundRecord
  <1>3. CASE s.status = Chosen /\ NotValid(s) # {} /\ TryPrepare(s) = rejected
    <2>1. a \in BOOLEAN /\ s.chosen # {}
      BY <1>3 DEF NotValid
    <2> HIDE DEF a
    <2>2. /\ rejected.status = s.status /\ rejected.chosen = s.chosen
          /\ rejected.isReject = a /\ rejected.isEmpty = s.isEmpty
          /\ rejected.root = s.root /\ rejected.random = s.random
          /\ rejected.masked = s.masked /\ rejected.saving = s.saving
          /\ rejected.drawing = s.drawing /\ rejected.abstaining = s.abstaining
      BY DEF RoundRecord
    <2> HIDE DEF rejected
    <2>3. Consistent(rejected, g)
      BY <1>2, <1>3, <2>1, <2>2, Statuses DEF Consistent, Abstains, Builds, Zeros, Hashed, Quiet
    <2> QED
      BY <1>3, <2>3
  <1>4. CASE s.status = Chosen /\ s.chosen = {} /\ TryPrepare(s) = empty
    <2>1. /\ empty.status = CommitDataPrepared /\ empty.chosen = s.chosen
          /\ empty.isReject = s.isReject /\ empty.isEmpty = s.isEmpty
          /\ empty.root = Zero /\ empty.random = 0
          /\ empty.masked = s.masked /\ empty.saving = s.saving
          /\ empty.drawing = s.drawing /\ empty.abstaining = s.abstaining + 1
      BY DEF RoundRecord, Abstain
    <2> HIDE DEF empty
    <2>2. ~Builds(s)
      BY <1>4 DEF Consistent
    <2>3. ~Builds(empty) /\ Zeros(empty)
      BY <2>1, <2>2 DEF Builds, Zeros
    <2>4. Consistent(empty, g)
      BY <1>2, <1>4, <2>1, <2>3, Statuses DEF Consistent, Abstains, Builds
    <2> QED
      BY <1>4, <2>4
  <1>5. CASE s.status = Chosen /\ s.chosen # {} /\ TryPrepare(s) = saved
    <2>1. /\ saved.status = s.status /\ saved.chosen = s.chosen
          /\ saved.isReject = s.isReject /\ saved.isEmpty = s.isEmpty
          /\ saved.root = s.root /\ saved.random = s.random
          /\ saved.masked = s.masked /\ saved.saving = s.saving + 1
          /\ saved.drawing = s.drawing /\ saved.abstaining = s.abstaining
      BY DEF RoundRecord
    <2> HIDE DEF saved
    <2>2. Consistent(saved, g)
      BY <1>2, <1>5, <2>1, Statuses DEF Consistent, Abstains, Builds
    <2> QED
      BY <1>5, <2>2
  <1> QED
    BY <1>1, <1>3, <1>4, <1>5 DEF TryPrepare

\* The Merkle tree is built of the chosen requests.
LEMMA VotesSavedConsistent ==
  ASSUME NEW s \in RoundRecord, NEW g, Consistent(s, g), s.saving > 0
  PROVE  /\ Consistent([s EXCEPT !.saving = @ - 1, !.drawing = @ + 1, !.root = s.chosen], g)
         /\ g = "none"
  <1> DEFINE t == [s EXCEPT !.saving = @ - 1, !.drawing = @ + 1, !.root = s.chosen]
  <1>1. /\ t.status = s.status /\ t.chosen = s.chosen
        /\ t.isReject = s.isReject /\ t.isEmpty = s.isEmpty
        /\ t.root = s.chosen /\ t.random = s.random
        /\ t.masked = s.masked /\ t.saving = s.saving - 1
        /\ t.drawing = s.drawing + 1 /\ t.abstaining = s.abstaining
        /\ s.saving \in Nat /\ s.drawing \in Nat /\ s.abstaining \in Nat
        /\ s.status \in 0..6
    BY Statuses DEF RoundRecord
  <1> HIDE DEF t
  <1>2. Builds(s) /\ s.chosen # {} /\ g = "none" /\ ~Abstains(s, g) /\ s.status >= 2
    BY <1>1, Statuses DEF Builds, Consistent, Quiet
  <1>3. s.status >= CommitDataPrepared => s.root = s.chosen /\ Hashed(s)
    BY <1>2 DEF Consistent
  <1>4. s.status >= CommitDataPrepared => Hashed(t)
    BY <1>1, <1>3 DEF Hashed
  <1>5. Consistent(t, g) /\ g = "none"
    BY <1>1, <1>2, <1>4, Statuses DEF Consistent, Abstains, Builds
  <1> QED
    BY <1>5 DEF t

\* The root is hashed with a new random.
LEMMA CommitPreparedConsistent ==
  ASSUME NEW s \in RoundRecord, NEW g, Consistent(s, g), s.drawing > 0
  PROVE  /\ Consistent([Committing(s) EXCEPT !.drawing = @ - 1, !.status = CommitDataPrepared], g)
         /\ g = "none"
  <1> DEFINE t == [Committing(s) EXCEPT !.drawing = @ - 1, !.status = CommitDataPrepared]
  <1>1. /\ t.status = 3 /\ t.chosen = s.chosen
        /\ t.isReject = s.isReject /\ t.isEmpty = s.isEmpty
        /\ t.root = s.root /\ t.random = Draw
        /\ t.masked = [root |-> s.root, random |-> Draw] /\ t.saving = s.saving
        /\ t.drawing = s.drawing - 1 /\ t.abstaining = s.abstaining
        /\ s.saving \in Nat /\ s.drawing \in Nat /\ s.abstaining \in Nat
    BY Statuses DEF RoundRecord, Committing
  <1> HIDE DEF t
  <1>2. Builds(s) /\ s.chosen # {} /\ s.root = s.chosen /\ g = "none" /\ ~Abstains(s, g)
    BY <1>1, Statuses DEF Builds, Consistent, Quiet
  <1>3. Hashed(t)
    BY <1>1 DEF Hashed
  <1>4. Consistent(t, g) /\ g = "none"
    BY <1>1, <1>2, <1>3, Statuses DEF Consistent, Abstains, Builds
  <1> QED
    BY <1>4 DEF t

\* An abstention is masked by a random that is not revealed.
LEMMA AbstentionPreparedConsistent ==
  ASSUME drawn \in Nat, NEW s \in RoundRecord, NEW g, Consistent(s, g), s.abstaining > 0
  PROVE  /\ Consistent([Abstained(s) EXCEPT !.abstaining = @ - 1], g)
         /\ g = "none"
  <1> DEFINE t == [Abstained(s) EXCEPT !.abstaining = @ - 1]
  <1>1. /\ t.status = s.status /\ t.chosen = s.chosen
        /\ t.isReject = s.isReject /\ t.isEmpty
        /\ t.root = s.root /\ t.random = s.random
        /\ t.masked = [root |-> Zero, random |-> Draw] /\ t.saving = s.saving
        /\ t.drawing = s.drawing /\ t.abstaining = s.abstaining - 1
        /\ s.abstaining \in Nat
    BY DEF RoundRecord, Abstained
  <1> HIDE DEF t
  <1>2. Zeros(s) /\ ~Builds(s) /\ s.status >= CommitDataPrepared
    BY DEF Consistent, Abstains
  <1>3. g = "none" /\ s.chosen = {}
    BY <1>1 DEF Consistent, Quiet
  <1>4. Zero \in Roots /\ Draw \in Nat /\ Draw > 0
    BY DEF Zero, Roots, Draw
  <1>5. t.masked # None /\ t.masked.random > 0
    BY <1>1, <1>4, HashTyped
  <1>6. Zeros(t) /\ ~Builds(t)
    BY <1>1, <1>2 DEF Zeros, Builds
  <1>7. Consistent(t, g) /\ g = "none"
    BY <1>1, <1>2, <1>3, <1>5, <1>6, Statuses DEF Consistent, RoundRecord
  <1> QED
    BY <1>7 DEF t

\* A round that cannot commit gives up: it abstains, or rejects.
LEMMA AbstainConsistent ==
  ASSUME NEW s \in RoundRecord, Consistent(s, "none"), Quiet(s)
  PROVE  Consistent(Abstain(s), "abstaining")
  <1> DEFINE t == Abstain(s)
  <1>1. /\ t.status = 3 /\ t.chosen = s.chosen
        /\ t.isReject = s.isReject /\ t.isEmpty = s.isEmpty
        /\ t.root = Zero /\ t.random = 0
        /\ t.masked = s.masked /\ t.saving = 0
        /\ t.drawing = 0 /\ t.abstaining = 0
    BY Statuses DEF RoundRecord, Abstain, Quiet
  <1> HIDE DEF t
  <1>2. Consistent(t, "abstaining")
    BY <1>1, Statuses DEF Consistent, Abstains, Builds, Zeros, Quiet
  <1> QED
    BY <1>2 DEF t

\* A round that rejects has requests to choose from, and is not abstained from.
LEMMA RejectConsistent ==
  ASSUME NEW s \in RoundRecord, Consistent(s, "none"), Quiet(s), s.isReject
  PROVE  Consistent([s EXCEPT !.status = CommitDataPrepared, !.root = Zero], "rejecting")
  <1> DEFINE t == [s EXCEPT !.status = CommitDataPrepared, !.root = Zero]
  <1>1. /\ t.status = 3 /\ t.chosen = s.chosen
        /\ t.isReject = s.isReject /\ t.isEmpty = s.isEmpty
        /\ t.root = Zero /\ t.random = s.random
        /\ t.masked = s.masked /\ t.saving = 0
        /\ t.drawing = 0 /\ t.abstaining = 0
    BY Statuses DEF RoundRecord, Quiet
  <1> HIDE DEF t
  <1>2. s.chosen # {} /\ ~s.isEmpty
    BY DEF Consistent
  <1>3. Consistent(t, "rejecting")
    BY <1>1, <1>2, Statuses DEF Consistent, Abstains, Builds, Quiet
  <1> QED
    BY <1>3 DEF t

\* The random of a round that has given up.
LEMMA RandomConsistent ==
  ASSUME drawn \in Nat, NEW s \in RoundRecord, NEW g \in {"abstaining", "rejecting"},
         Consistent(s, g)
  PROVE  Consistent(IF g = "abstaining" THEN Abstained(s) ELSE Committing(s), "storing")
  <1>1. Quiet(s) /\ s.status >= CommitDataPrepared
    BY DEF Consistent
  <1>2. CASE g = "abstaining"
    <2> DEFINE t == Abstained(s)
    <2>1. /\ t.status = s.status /\ t.chosen = s.chosen
          /\ t.isReject = s.isReject /\ t.isEmpty
          /\ t.root = s.root /\ t.random = s.random
          /\ t.masked = [root |-> Zero, random |-> Draw] /\ t.saving = s.saving
          /\ t.drawing = s.drawing /\ t.abstaining = s.abstaining
      BY DEF RoundRecord, Abstained
    <2> HIDE DEF t
    <2>2. Zeros(s) /\ ~Builds(s)
      BY <1>2 DEF Consistent, Abstains
    <2>3. Zero \in Roots /\ Draw \in Nat /\ Draw > 0
      BY DEF Zero, Roots, Draw
    <2>4. t.masked # None /\ t.masked.random > 0
      BY <2>1, <2>3, HashTyped
    <2>5. Zeros(t) /\ ~Builds(t) /\ Quiet(t)
      BY <1>1, <2>1, <2>2 DEF Zeros, Builds, Quiet
    <2>6. Consistent(t, "storing")
      BY <1>1, <2>1, <2>4, <2>5, Statuses DEF Consistent, RoundRecord
    <2> QED
      BY <1>2, <2>6 DEF t
  <1>3. CASE g = "rejecting"
    <2> DEFINE t == Committing(s)
    <2>1. /\ t.status = s.status /\ t.chosen = s.chosen
          /\ t.isReject = s.isReject /\ t.isEmpty = s.isEmpty
          /\ t.root = s.root /\ t.random = Draw
          /\ t.masked = [root |-> s.root, random |-> Draw] /\ t.saving = s.saving
          /\ t.drawing = s.drawing /\ t.abstaining = s.abstaining
      BY DEF RoundRecord, Committing
    <2> HIDE DEF t
    <2>2. ~s.isEmpty /\ Hashed(t)
      BY <1>3, <2>1 DEF Consistent, Hashed
    <2>3. Quiet(t) /\ ~Builds(t) /\ ~Abstains(t, "storing")
      BY <1>1, <2>1, <2>2 DEF Quiet, Builds, Abstains
    <2>4. Consistent(t, "storing")
      BY <1>1, <2>1, <2>2, <2>3, Statuses DEF Consistent, RoundRecord
    <2> QED
      BY <1>3, <2>4 DEF t
  <1> QED
    BY <1>2, <1>3

-----------------------------------------------------------------------------
(* The steps.                                                                *)

\* What is hashed, and what is revealed, stay as they are.
Same(s, t) == t.masked = s.masked /\ t.root = s.root /\ t.random = s.random

\* A submission that has sent nothing yet.
Unsent(r) == sub[r].stage \in {"none"} \cup Preparing

\* A submission whose round exists, and is the process's own.
LEMMA StageOwn ==
  ASSUME Inv, TimeInv, NEW r \in Rounds, sub[r].stage # "none"
  PROVE  Own(r) /\ timer[r] # 0 /\ clock >= CommitDue(r)
  <1>1. timer[r] # 0 /\ clock >= CommitDue(r)
    BY StageAlive DEF TimeInv, StagesInStep
  <1> QED
    BY <1>1 DEF TimeInv, TimersInStep, Own

\* After its due time a submission has started.
LEMMA Late ==
  ASSUME Inv, TimeInv, NEW r \in Rounds, Own(r), clock > CommitDue(r)
  PROVE  sub[r].stage # "none" /\ timer[r] # 0
  <1>1. r \in Nat /\ startRound \in Nat /\ clock \in Nat /\ up /\ startRound <= r
    BY RoundsAndBuffers DEF Inv, OtherTypes, Own
  <1>2. clock > 5 * r + 9
    BY <1>1, DueTimes
  <1>3. timer[r] # 0 /\ timer[r] \in 0..9
    BY <1>1, <1>2, TimerNumbers DEF TimeInv, NoGaps, StagesPerWindow, Inv, OtherTypes
  <1>4. Fired(r)
    <2>1. CASE r = startRound
      <3>1. ASSUME timer[r] \in 1..5 PROVE FALSE
        <4>1. clock <= Due(r, timer[r])
          BY <1>3, <3>1, TimerNumbers DEF TimeInv, TimersInStep
        <4>2. /\ Due(r, 1) = 5 * r + 5 /\ Due(r, 2) = 5 * r + 6 /\ Due(r, 3) = 5 * r + 7
              /\ Due(r, 4) = 5 * r + 8 /\ Due(r, 5) = 5 * r + 9
          BY <1>1, DueTimes
        <4> QED
          BY <1>1, <1>2, <3>1, <4>1, <4>2
      <3>2. timer[r] > 5
        BY <1>3, <3>1
      <3> QED
        BY <2>1, <3>2, TimerNumbers DEF Fired
    <2>2. CASE r > startRound
      <3> DEFINE p == r - 1
      <3>1. p \in Rounds /\ p \in Nat /\ startRound <= p /\ 5 * (p + 1) <= clock
            /\ clock > 5 * p + 14
        BY <1>1, <1>2, <2>2, RoundsAndBuffers
      <3> HIDE DEF p
      <3>2. timer[p] # 0 /\ timer[p] \in 0..9
        BY <1>1, <3>1, TimerNumbers DEF TimeInv, NoGaps, StagesPerWindow, Inv, OtherTypes
      <3>3. ASSUME timer[p] \in 1..7 PROVE FALSE
        <4>1. clock <= Due(p, timer[p])
          BY <3>1, <3>2, <3>3, TimerNumbers DEF TimeInv, TimersInStep
        <4>2. /\ Due(p, 1) = 5 * p + 5 /\ Due(p, 2) = 5 * p + 6 /\ Due(p, 3) = 5 * p + 7
              /\ Due(p, 4) = 5 * p + 8 /\ Due(p, 5) = 5 * p + 9 /\ Due(p, 6) = 5 * p + 10
              /\ Due(p, 7) = 5 * p + 14
          BY <3>1, DueTimes
        <4> QED
          BY <1>1, <3>1, <3>3, <4>1, <4>2
      <3>4. timer[p] > 7
        BY <3>2, <3>3
      <3> QED
        BY <2>2, <3>4, TimerNumbers DEF Fired, p
    <2> QED
      BY <1>1, <2>1, <2>2
  <1> QED
    BY <1>3, <1>4 DEF TimeInv, StagesInStep

\* Until then nothing carries the round.
LEMMA NothingSent ==
  ASSUME Inv, TimeInv, PromptStages, NEW r \in Rounds, Own(r), Unsent(r)
  PROVE  tx[r + 1] = None /\ (r + 1 \in Rounds => tx[r + 2] = None)
  <1>1. sub[r].stage \notin {"sent", "done"}
    BY DEF Unsent, Preparing
  <1>2. tx[r + 1] = None
    BY <1>1 DEF Own, TimeInv, TxInStep
  <1>3. ASSUME r + 1 \in Rounds, tx[r + 2] # None PROVE FALSE
    <2>1. r \in Nat /\ clock \in Nat /\ (r + 1) + 1 = r + 2
      BY RoundsAndBuffers DEF Inv, OtherTypes
    <2>2. clock >= CommitDue(r + 1)
      BY <1>3, <2>1 DEF TimeInv, TxInStep
    <2>3. CommitDue(r + 1) = CommitDue(r) + 5 /\ CommitDue(r) \in Nat
      BY <2>1 DEF CommitDue, StagesPerWindow
    <2>4. clock > CommitDue(r)
      BY <2>1, <2>2, <2>3
    <2> QED
      BY <2>1, <2>3, <2>4, Late DEF Unsent, PromptStages
  <1> QED
    BY <1>2, <1>3

\* The steps that send nothing.
LEMMA KeepsPrompt ==
  ASSUME Inv, TimeInv, PromptInv, UNCHANGED <<clock, up, startRound, tx>>,
         \A q \in Rounds :
           /\ Consistent(rd'[q], sub'[q].stage)
           /\ timer'[q] = 0 => Quiet(rd'[q]) /\ ~rd'[q].isEmpty
           /\ sub'[q].stage \in Preparing =>
                sub[q].stage \in Preparing \/ clock = CommitDue(q)
           /\ Same(rd[q], rd'[q]) \/ Unsent(q)
  PROVE  PromptInv'
  <1>1. DataInv'
    BY DEF DataInv
  <1>2. PromptStages'
    BY DEF PromptInv, PromptStages, CommitDue
  <1>3. CarriesRound'
    <2> SUFFICES ASSUME NEW r \in Rounds, Own(r)
                 PROVE  /\ tx[r + 1] # None => tx[r + 1].masked = rd'[r].masked
                        /\ r + 1 \in Rounds /\ tx[r + 2] # None =>
                             \/ Zeros(tx[r + 2])
                             \/ tx[r + 2].root = rd'[r].root /\ tx[r + 2].random = rd'[r].random
      BY DEF CarriesRound, Own, Zeros
    <2>1. CASE Same(rd[r], rd'[r])
      BY <2>1 DEF PromptInv, CarriesRound, Same
    <2>2. CASE Unsent(r)
      BY <2>2, NothingSent DEF PromptInv
    <2> QED
      BY <2>1, <2>2
  <1>4. OwnReveals'
    BY DEF PromptInv, OwnReveals, Zeros
  <1> QED
    BY <1>1, <1>2, <1>3, <1>4 DEF PromptInv

\* One round moves on.
LEMMA RoundPrompt ==
  ASSUME Inv, TimeInv, PromptInv, NEW r \in Rounds, NEW s,
         Consistent(s, sub[r].stage), Same(rd[r], s) \/ Unsent(r),
         rd' = [rd EXCEPT ![r] = s], timer[r] # 0 \/ (Quiet(s) /\ ~s.isEmpty),
         \A q \in Rounds : timer'[q] = 0 => timer[q] = 0,
         UNCHANGED <<clock, up, startRound, tx, sub>>
  PROVE  PromptInv'
  <1>1. rd'[r] = s /\ \A q \in Rounds \ {r} : rd'[q] = rd[q]
    BY DEF Inv, RoundsSafe
  <1>2. ASSUME NEW q \in Rounds
        PROVE  /\ Consistent(rd'[q], sub[q].stage)
               /\ timer'[q] = 0 => Quiet(rd'[q]) /\ ~rd'[q].isEmpty
               /\ Same(rd[q], rd'[q]) \/ Unsent(q)
    BY <1>1 DEF PromptInv, DataInv, Same
  <1> QED
    BY <1>2, KeepsPrompt

\* The count changes nothing of the commit data, and the preparation does only
\* before the submission starts.
LEMMA CountedPrompt ==
  ASSUME NEW s \in RoundRecord, NEW g, Consistent(s, g)
  PROVE  /\ Consistent(TryPrepare(TryCount(s)), g)
         /\ Same(s, TryPrepare(TryCount(s))) \/ g = "none"
  <1> DEFINE u == TryCount(s)
  <1>1. Consistent(u, g) /\ u \in RoundRecord
    BY TryCountConsistent
  <1>2. Same(s, u)
    BY DEF TryCount, Same, RoundRecord
  <1> HIDE DEF u
  <1>3. Consistent(TryPrepare(u), g)
    BY <1>1, TryPrepareConsistent
  <1>4. TryPrepare(u) = u \/ g = "none"
    BY <1>1, Statuses DEF TryPrepare, Consistent
  <1> QED
    BY <1>2, <1>3, <1>4 DEF u

\* The process stops.
LEMMA ExitPrompt ==
  ASSUME Inv, PromptInv, ProcessExit
  PROVE  PromptInv'
  <1> USE DEF ProcessExit
  <1>1. DataInv'
    BY NewRoundConsistent DEF DataInv, NoSubmission
  <1>2. PromptStages'
    BY DEF PromptStages, NoSubmission, Preparing
  <1>3. CarriesRound' /\ OwnReveals'
    BY DEF PromptInv, CarriesRound, OwnReveals, Own, Zeros
  <1> QED
    BY <1>1, <1>2, <1>3 DEF PromptInv

\* An event of a round, with the count that follows.
LEMMA CountAndPreparePrompt ==
  ASSUME Inv, TimeInv, PromptInv, NEW r \in Rounds, NEW s \in RoundRecord, NEW timers,
         timer[r] # 0, \A q \in Rounds : timers[q] = 0 => timer[q] = 0,
         Consistent(s, sub[r].stage), Same(rd[r], s), CountAndPrepare(r, s, timers)
  PROVE  PromptInv'
  <1>1. CASE ProcessExit
    BY <1>1, ExitPrompt
  <1>2. CASE SetRound(r, TryPrepare(TryCount(s))) /\ timer' = timers
    <2> DEFINE t == TryPrepare(TryCount(s))
    <2>1. Consistent(t, sub[r].stage) /\ (Same(rd[r], t) \/ Unsent(r))
      BY CountedPrompt DEF Same, Unsent
    <2>2. /\ rd' = [rd EXCEPT ![r] = t] /\ timer' = timers
          /\ UNCHANGED <<clock, up, startRound, tx, sub>>
      BY <1>2 DEF SetRound, process, chain
    <2> HIDE DEF t
    <2> QED
      BY <2>1, <2>2, RoundPrompt
  <1> QED
    BY <1>1, <1>2 DEF CountAndPrepare

\* The commit data do not depend on the status of a request.
LEMMA RequestPrompt ==
  ASSUME NEW s \in RoundRecord, NEW g, Consistent(s, g),
         NEW i \in Requests, NEW v \in RequestStatus
  PROVE  LET t == [s EXCEPT !.att[i] = v]
         IN  t \in RoundRecord /\ Consistent(t, g) /\ Same(s, t)
  <1> DEFINE t == [s EXCEPT !.att[i] = v]
  <1>1. /\ t.status = s.status /\ t.chosen = s.chosen
        /\ t.isReject = s.isReject /\ t.isEmpty = s.isEmpty
        /\ t.root = s.root /\ t.random = s.random /\ t.masked = s.masked
        /\ t.saving = s.saving /\ t.drawing = s.drawing /\ t.abstaining = s.abstaining
        /\ t \in RoundRecord
    BY DEF RoundRecord
  <1> HIDE DEF t
  <1>2. Consistent(t, g) /\ Same(s, t)
    BY <1>1, FrameConsistent DEF Same
  <1> QED
    BY <1>1, <1>2 DEF t

\* The vote is closed.
LEMMA ClosedPrompt ==
  ASSUME NEW s \in RoundRecord, NEW g, Consistent(s, g), s.status < BitVotingClosed
  PROVE  LET t == [s EXCEPT !.status = BitVotingClosed]
         IN  t \in RoundRecord /\ Consistent(t, g) /\ Same(s, t)
  <1> DEFINE t == [s EXCEPT !.status = BitVotingClosed]
  <1>1. /\ t.status = 1 /\ t.chosen = s.chosen
        /\ t.isReject = s.isReject /\ t.isEmpty = s.isEmpty
        /\ t.root = s.root /\ t.random = s.random /\ t.masked = s.masked
        /\ t.saving = s.saving /\ t.drawing = s.drawing /\ t.abstaining = s.abstaining
        /\ t \in RoundRecord
    BY Statuses, StatusRange DEF RoundRecord
  <1>2. s.status < Chosen /\ t.status < Chosen
    BY <1>1, Statuses DEF RoundRecord
  <1> HIDE DEF t
  <1>3. t \in RoundRecord /\ Consistent(t, g) /\ Same(s, t)
    BY <1>1, <1>2, FrameConsistent DEF Same
  <1> QED
    BY <1>3 DEF t

\* What holds of a round before a step.
LEMMA PromptNow ==
  ASSUME Inv, PromptInv, NEW r \in Rounds
  PROVE  /\ rd[r] \in RoundRecord /\ sub[r] \in SubmissionRecord
         /\ Consistent(rd[r], sub[r].stage)
         /\ timer[r] = 0 => Quiet(rd[r]) /\ ~rd[r].isEmpty
         /\ drawn \in Nat /\ rd[r].tally \in Roots /\ rd[r].vote \in Roots
  BY DEF Inv, RoundsSafe, OtherTypes, PromptInv, DataInv, RoundRecord

\* Requests and votes.
LEMMA EventPrompt ==
  ASSUME Inv, TimeInv, PromptInv, NEW r \in Rounds, EventStep(r)
  PROVE  PromptInv'
  <1> USE DEF process, chain
  <1>0. /\ rd[r] \in RoundRecord /\ Consistent(rd[r], sub[r].stage)
        /\ rd[r].tally \in Roots /\ rd[r].vote \in Roots
    BY PromptNow
  <1>1. ASSUME NEW i \in Requests, NEW v \in RequestStatus
        PROVE  LET t == [rd[r] EXCEPT !.att[i] = v]
               IN  t \in RoundRecord /\ Consistent(t, sub[r].stage) /\ Same(rd[r], t)
    BY <1>0, RequestPrompt
  <1>2. ASSUME NEW i \in Requests, NEW v \in RequestStatus, timer[r] # 0,
               CountAndPrepare(r, [rd[r] EXCEPT !.att[i] = v], timer)
        PROVE  PromptInv'
    <2> DEFINE t == [rd[r] EXCEPT !.att[i] = v]
    <2>1. t \in RoundRecord /\ Consistent(t, sub[r].stage) /\ Same(rd[r], t)
      BY <1>1
    <2>2. CountAndPrepare(r, t, timer)
      BY <1>2
    <2> HIDE DEF t
    <2> QED
      BY <1>2, <2>1, <2>2, CountAndPreparePrompt
  <1>3. CASE AddAttestation(r)
    <2>1. timer[r] # 0
      BY <1>3 DEF AddAttestation, Live
    <2>2. PICK i \in Requests :
            \/ SetRound(r, [rd[r] EXCEPT !.att[i] = "processing"]) /\ UNCHANGED timer
            \/ \E status \in {"invalid", "undetermined"} :
                 CountAndPrepare(r, [rd[r] EXCEPT !.att[i] = status], timer)
      BY <1>3 DEF AddAttestation
    <2>3. CASE SetRound(r, [rd[r] EXCEPT !.att[i] = "processing"]) /\ UNCHANGED timer
      <3> DEFINE t == [rd[r] EXCEPT !.att[i] = "processing"]
      <3>1. t \in RoundRecord /\ Consistent(t, sub[r].stage) /\ Same(rd[r], t)
        BY <1>1 DEF RequestStatus
      <3>2. rd' = [rd EXCEPT ![r] = t] /\ UNCHANGED <<clock, up, startRound, tx, sub, timer>>
        BY <2>3 DEF SetRound
      <3> HIDE DEF t
      <3> QED
        BY <2>1, <3>1, <3>2, RoundPrompt
    <2>4. CASE \E status \in {"invalid", "undetermined"} :
                 CountAndPrepare(r, [rd[r] EXCEPT !.att[i] = status], timer)
      BY <1>2, <2>1, <2>4 DEF RequestStatus
    <2> QED
      BY <2>2, <2>3, <2>4
  <1>4. ASSUME NEW i \in Requests, NEW verdict \in Verdicts, AttestationProcessed(r, i, verdict)
        PROVE  PromptInv'
    <2>1. StatusOf(verdict) \in RequestStatus
      BY DEF StatusOf, RequestStatus
    <2> QED
      BY <1>2, <1>4, <2>1 DEF AttestationProcessed, Live
  <1>5. CASE RegisterBitVote(r)
    <2>1. PICK tally \in Roots : SetRound(r, [rd[r] EXCEPT !.tally = tally])
      BY <1>5 DEF RegisterBitVote
    <2> DEFINE t == [rd[r] EXCEPT !.tally = tally]
    <2>2. t \in RoundRecord
      BY <1>0 DEF RoundRecord
    <2>3. /\ t.status = rd[r].status /\ t.chosen = rd[r].chosen
          /\ t.isReject = rd[r].isReject /\ t.isEmpty = rd[r].isEmpty
          /\ t.root = rd[r].root /\ t.random = rd[r].random /\ t.masked = rd[r].masked
          /\ t.saving = rd[r].saving /\ t.drawing = rd[r].drawing
          /\ t.abstaining = rd[r].abstaining
      BY <1>0 DEF RoundRecord
    <2>4. timer[r] # 0 /\ timer' = timer /\ rd' = [rd EXCEPT ![r] = t]
          /\ UNCHANGED <<clock, up, startRound, tx, sub>>
      BY <1>5, <2>1 DEF RegisterBitVote, SetRound, Live
    <2> HIDE DEF t
    <2>5. Consistent(t, sub[r].stage) /\ Same(rd[r], t)
      BY <1>0, <2>2, <2>3, FrameConsistent DEF Same
    <2> QED
      BY <2>4, <2>5, RoundPrompt
  <1>6. CASE CloseByBlock(r)
    <2> DEFINE t == [rd[r] EXCEPT !.status = BitVotingClosed]
    <2>1. t \in RoundRecord /\ Consistent(t, sub[r].stage) /\ Same(rd[r], t)
      BY <1>0, <1>6, ClosedPrompt DEF CloseByBlock
    <2>2. timer[r] # 0 /\ CountAndPrepare(r, t, timer)
      BY <1>6 DEF CloseByBlock, CloseBitVoting, Live
    <2> HIDE DEF t
    <2> QED
      BY <2>1, <2>2, CountAndPreparePrompt
  <1> QED
    BY <1>3, <1>4, <1>5, <1>6 DEF EventStep

\* The timers that start no submission.
LEMMA TimerPrompt ==
  ASSUME Inv, TimeInv, PromptInv, NEW r \in Rounds,
         \/ OnChoosePhaseStart(r) \/ OnSubmitBitVote(r) \/ OnCommitPhaseStart(r)
         \/ ForceClose(r) \/ OnRevealPhaseStart(r) \/ OnFinalisePhaseStart(r)
  PROVE  PromptInv'
  <1> USE DEF process, chain
  <1>0. /\ rd[r] \in RoundRecord /\ Consistent(rd[r], sub[r].stage)
        /\ rd[r].tally \in Roots /\ rd[r].vote \in Roots
    BY PromptNow
  <1>1. ASSUME NEW t \in 1..8, timer[r] = t
        PROVE  \A q \in Rounds : Rearmed(r, t)[q] = 0 => timer[q] = 0
    BY <1>1, RearmedLater
  <1>2. ASSUME NEW t \in 1..8, timer[r] = t, NEW s, SetRound(r, s), timer' = Rearmed(r, t),
               Consistent(s, sub[r].stage), Same(rd[r], s) \/ sub[r].stage = "none"
        PROVE  PromptInv'
    <2>1. rd' = [rd EXCEPT ![r] = s] /\ UNCHANGED <<clock, up, startRound, tx, sub>>
      BY <1>2 DEF SetRound
    <2>2. timer[r] # 0 /\ \A q \in Rounds : timer'[q] = 0 => timer[q] = 0
      BY <1>1, <1>2
    <2> QED
      BY <1>2, <2>1, <2>2, RoundPrompt DEF Unsent
  <1>3. ASSUME NEW p \in {"choose", "commit", "reveal", "finalise"}
        PROVE  LET t == [rd[r] EXCEPT !.phase = p]
               IN  t \in RoundRecord /\ Consistent(t, sub[r].stage) /\ Same(rd[r], t)
    <2> DEFINE t == [rd[r] EXCEPT !.phase = p]
    <2>1. t \in RoundRecord
      BY <1>0 DEF RoundRecord
    <2>2. /\ t.status = rd[r].status /\ t.chosen = rd[r].chosen
          /\ t.isReject = rd[r].isReject /\ t.isEmpty = rd[r].isEmpty
          /\ t.root = rd[r].root /\ t.random = rd[r].random /\ t.masked = rd[r].masked
          /\ t.saving = rd[r].saving /\ t.drawing = rd[r].drawing
          /\ t.abstaining = rd[r].abstaining
      BY <1>0 DEF RoundRecord
    <2> HIDE DEF t
    <2>3. t \in RoundRecord /\ Consistent(t, sub[r].stage) /\ Same(rd[r], t)
      BY <1>0, <2>1, <2>2, FrameConsistent DEF Same
    <2> QED
      BY <2>3 DEF t
  <1>4. CASE OnChoosePhaseStart(r)
    BY <1>2, <1>3, <1>4, TimerNumbers DEF OnChoosePhaseStart, Fires
  <1>5. CASE OnSubmitBitVote(r)
    <2> DEFINE t == [rd[r] EXCEPT !.vote = ValidIn(rd[r])]
    <2>1. t \in RoundRecord
      BY <1>0 DEF RoundRecord, ValidIn, Roots
    <2>2. /\ t.status = rd[r].status /\ t.chosen = rd[r].chosen
          /\ t.isReject = rd[r].isReject /\ t.isEmpty = rd[r].isEmpty
          /\ t.root = rd[r].root /\ t.random = rd[r].random /\ t.masked = rd[r].masked
          /\ t.saving = rd[r].saving /\ t.drawing = rd[r].drawing
          /\ t.abstaining = rd[r].abstaining
      BY <1>0 DEF RoundRecord
    <2>3. SetRound(r, t) /\ timer' = Rearmed(r, 2) /\ timer[r] = 2
      BY <1>5, TimerNumbers DEF OnSubmitBitVote, Fires
    <2> HIDE DEF t
    <2>4. Consistent(t, sub[r].stage) /\ Same(rd[r], t)
      BY <1>0, <2>1, <2>2, FrameConsistent DEF Same
    <2> QED
      BY <1>2, <2>3, <2>4
  <1>6. CASE OnCommitPhaseStart(r)
    <2> DEFINE s == [rd[r] EXCEPT !.phase = "commit"]
    <2>1. s \in RoundRecord /\ Consistent(s, sub[r].stage) /\ Same(rd[r], s)
      BY <1>3
    <2>2. SetRound(r, TryPrepare(s)) /\ timer' = Rearmed(r, 3) /\ timer[r] = 3
      BY <1>6, TimerNumbers DEF OnCommitPhaseStart, Fires
    <2> HIDE DEF s
    <2>3. Consistent(TryPrepare(s), sub[r].stage)
      BY <2>1, TryPrepareConsistent
    <2>4. TryPrepare(s) = s \/ sub[r].stage = "none"
      BY <2>1, Statuses DEF TryPrepare, Consistent
    <2> QED
      BY <1>2, <2>1, <2>2, <2>3, <2>4
  <1>7. CASE ForceClose(r)
    <2>1. timer[r] = 4 /\ CloseBitVoting(r, Rearmed(r, 4))
      BY <1>7, TimerNumbers DEF ForceClose, Fires
    <2>2. CASE rd[r].status < BitVotingClosed
      <3> DEFINE t == [rd[r] EXCEPT !.status = BitVotingClosed]
      <3>1. t \in RoundRecord /\ Consistent(t, sub[r].stage) /\ Same(rd[r], t)
        BY <1>0, <2>2, ClosedPrompt
      <3>2. CountAndPrepare(r, t, Rearmed(r, 4))
        BY <2>1, <2>2 DEF CloseBitVoting
      <3> HIDE DEF t
      <3> QED
        BY <1>1, <2>1, <3>1, <3>2, CountAndPreparePrompt
    <2>3. CASE ~(rd[r].status < BitVotingClosed)
      BY <1>0, <1>2, <2>1, <2>3 DEF CloseBitVoting, Same
    <2> QED
      BY <2>2, <2>3
  <1>8. CASE OnRevealPhaseStart(r)
    BY <1>2, <1>3, <1>8, TimerNumbers DEF OnRevealPhaseStart, Fires
  <1>9. CASE OnFinalisePhaseStart(r)
    BY <1>2, <1>3, <1>9, TimerNumbers DEF OnFinalisePhaseStart, Fires
  <1> QED
    BY <1>4, <1>5, <1>6, <1>7, <1>8, <1>9

\* The continuations of a preparation: only before the submission starts.
LEMMA PreparationPrompt ==
  ASSUME Inv, TimeInv, PromptInv, NEW r \in Rounds,
         VotesSaved(r) \/ CommitPrepared(r) \/ AbstentionPrepared(r)
  PROVE  PromptInv'
  <1> USE DEF process, chain, storage
  <1>0. rd[r] \in RoundRecord /\ Consistent(rd[r], sub[r].stage) /\ drawn \in Nat
    BY PromptNow
  <1>1. timer[r] # 0
    <2>1. ~Quiet(rd[r])
      BY DEF Quiet, VotesSaved, CommitPrepared, AbstentionPrepared
    <2> QED
      BY <2>1, PromptNow
  <1>2. ASSUME NEW s, rd' = [rd EXCEPT ![r] = s], Consistent(s, sub[r].stage),
               sub[r].stage = "none", UNCHANGED <<clock, up, startRound, timer, tx, sub>>
        PROVE  PromptInv'
    BY <1>1, <1>2, RoundPrompt DEF Unsent
  <1>3. CASE VotesSaved(r)
    <2> DEFINE s == [rd[r] EXCEPT !.saving = @ - 1, !.drawing = @ + 1, !.root = rd[r].chosen]
    <2>1. rd' = [rd EXCEPT ![r] = s] /\ UNCHANGED <<clock, up, startRound, timer, tx, sub>>
      BY <1>3, PromptNow DEF VotesSaved, Inv, RoundsSafe
    <2>2. rd[r].saving > 0
      BY <1>3 DEF VotesSaved
    <2>3. Consistent(s, sub[r].stage) /\ sub[r].stage = "none"
      BY <1>0, <2>2, VotesSavedConsistent
    <2> HIDE DEF s
    <2> QED
      BY <1>2, <2>1, <2>3
  <1>4. CASE CommitPrepared(r)
    <2> DEFINE s == [Committing(rd[r]) EXCEPT !.drawing = @ - 1, !.status = CommitDataPrepared]
    <2>1. rd' = [rd EXCEPT ![r] = s] /\ UNCHANGED <<clock, up, startRound, timer, tx, sub>>
      BY <1>4 DEF CommitPrepared
    <2>2. rd[r].drawing > 0
      BY <1>4 DEF CommitPrepared
    <2>3. Consistent(s, sub[r].stage) /\ sub[r].stage = "none"
      BY <1>0, <2>2, CommitPreparedConsistent
    <2> HIDE DEF s
    <2> QED
      BY <1>2, <2>1, <2>3
  <1>5. CASE AbstentionPrepared(r)
    <2> DEFINE s == [Abstained(rd[r]) EXCEPT !.abstaining = @ - 1]
    <2>1. rd' = [rd EXCEPT ![r] = s] /\ UNCHANGED <<clock, up, startRound, timer, tx, sub>>
      BY <1>5 DEF AbstentionPrepared
    <2>2. rd[r].abstaining > 0
      BY <1>5 DEF AbstentionPrepared
    <2>3. Consistent(s, sub[r].stage) /\ sub[r].stage = "none"
      BY <1>0, <2>2, AbstentionPreparedConsistent
    <2> HIDE DEF s
    <2> QED
      BY <1>2, <2>1, <2>3
  <1> QED
    BY <1>3, <1>4, <1>5

\* A later status of a round whose submission has started.
LEMMA StatusPrompt ==
  ASSUME NEW s \in RoundRecord, NEW g, g # "none", Consistent(s, g),
         NEW v \in {Committed, Revealed, Error}
  PROVE  LET t == [s EXCEPT !.status = v]
         IN  Consistent(t, g) /\ Same(s, t) /\ Quiet(t) /\ t.isEmpty = s.isEmpty
  <1> DEFINE t == [s EXCEPT !.status = v]
  <1>1. /\ t.status \in 4..6 /\ t.chosen = s.chosen
        /\ t.isReject = s.isReject /\ t.isEmpty = s.isEmpty
        /\ t.root = s.root /\ t.random = s.random /\ t.masked = s.masked
        /\ t.saving = s.saving /\ t.drawing = s.drawing /\ t.abstaining = s.abstaining
        /\ t \in RoundRecord
    BY Statuses, StatusRange DEF RoundRecord
  <1>2. Quiet(s) /\ s.status >= CommitDataPrepared
    BY DEF Consistent
  <1> HIDE DEF t
  <1>3. Consistent(t, g)
    BY <1>1, <1>2, FrameConsistent, Statuses
  <1>4. Same(s, t) /\ Quiet(t)
    BY <1>1, <1>2 DEF Same, Quiet
  <1> QED
    BY <1>1, <1>3, <1>4 DEF t

\* When the commit of a round is due, that of the round before has been prepared.
LEMMA PreviousStarted ==
  ASSUME Inv, TimeInv, NEW r \in Rounds, Own(r), Linked(r), clock >= CommitDue(r)
  PROVE  r - 1 \in Rounds /\ Own(r - 1) /\ sub[r - 1].stage # "none" /\ timer[r - 1] # 0
  <1> DEFINE p == r - 1
  <1>1. p \in Rounds /\ p \in Nat /\ Own(p) /\ clock \in Nat /\ clock >= 5 * p + 14
    <2>1. r \in Nat /\ startRound \in Nat /\ clock \in Nat
      BY RoundsAndBuffers DEF Inv, OtherTypes
    <2>2. clock >= 5 * r + 9
      BY <2>1, DueTimes
    <2> QED
      BY <2>1, <2>2, RoundsAndBuffers DEF Linked, Own
  <1> HIDE DEF p
  <1>2. clock > CommitDue(p)
    BY <1>1, DueTimes
  <1>3. sub[p].stage # "none" /\ timer[p] # 0
    BY <1>1, <1>2, Late
  <1> QED
    BY <1>1, <1>3 DEF p

\* A transaction carries what it should.
LEMMA SubmitPrompt ==
  ASSUME Inv, TimeInv, PromptInv, NEW r \in Rounds, NEW root, NEW random, NEW timers,
         Own(r), Unsent(r), sub[r].stage \notin {"abstaining", "rejecting"},
         Quiet(rd[r]), rd[r].status >= CommitDataPrepared,
         \A q \in Rounds : timers[q] = 0 => timer[q] = 0,
         startRound < r => \/ root = Zero /\ random = 0
                           \/ root = rd[r - 1].root /\ random = rd[r - 1].random,
         Submit(r, root, random, timers)
  PROVE  PromptInv'
  <1> DEFINE t == [masked |-> rd[r].masked, root |-> root, random |-> random]
  <1>1. CASE rd[r].masked = None
    BY <1>1, ExitPrompt DEF Submit
  <1>2. CASE rd[r].masked # None
    <2>1. /\ tx' = [tx EXCEPT ![r + 1] = t]
          /\ sub' = [sub EXCEPT ![r].stage = "sent"]
          /\ timer' = timers /\ UNCHANGED <<clock, up, startRound, rd>>
      BY <1>2 DEF Submit, process
    <2>2. t.masked = rd[r].masked /\ t.root = root /\ t.random = random
      OBVIOUS
    <2> HIDE DEF t
    <2>3. /\ r \in Nat /\ startRound \in Nat /\ r + 1 \in Buffers /\ up /\ startRound <= r
          /\ (r > 0 => r - 1 \in Rounds)
      BY RoundsAndBuffers DEF Inv, OtherTypes, Own
    <2>4. tx'[r + 1] = t /\ \A b \in Buffers \ {r + 1} : tx'[b] = tx[b]
      BY <2>1, <2>3 DEF Inv, OtherTypes
    <2>5. sub'[r].stage = "sent" /\ \A q \in Rounds \ {r} : sub'[q] = sub[q]
      BY <2>1 DEF Inv, OtherTypes, SubmissionRecord
    <2>6. tx[r + 1] = None /\ (r + 1 \in Rounds => tx[r + 2] = None)
      BY NothingSent DEF PromptInv
    <2>7. DataInv'
      <3>1. Consistent(rd[r], "sent")
        BY PromptNow, StageConsistent
      <3> QED
        BY <2>1, <2>5, <3>1 DEF PromptInv, DataInv
    <2>8. PromptStages'
      BY <2>1, <2>5 DEF PromptInv, PromptStages, Preparing, CommitDue
    <2>9. \A q \in Rounds :
            /\ q \in Nat /\ q + 1 \in Buffers /\ (q + 1 \in Rounds => q + 2 \in Buffers)
            /\ (q + 1 = r + 1 <=> q = r) /\ (q + 2 = r + 1 <=> q = r - 1)
            /\ (q + 2 = r + 1 => q + 1 = r)
      BY <2>3, RoundsAndBuffers DEF Rounds, Buffers
    <2>10. CarriesRound'
      <3> SUFFICES ASSUME NEW q \in Rounds, startRound <= q
                   PROVE  /\ tx'[q + 1] # None => tx'[q + 1].masked = rd[q].masked
                          /\ q + 1 \in Rounds /\ tx'[q + 2] # None =>
                               \/ Zeros(tx'[q + 2])
                               \/ tx'[q + 2].root = rd[q].root /\ tx'[q + 2].random = rd[q].random
        BY <2>1 DEF CarriesRound, Own, Zeros
      <3>1. Own(q)
        BY <2>3 DEF Own
      <3>2. tx'[q + 1] # None => tx'[q + 1].masked = rd[q].masked
        BY <2>2, <2>4, <2>9, <3>1 DEF PromptInv, CarriesRound
      <3>3. ASSUME q + 1 \in Rounds, tx'[q + 2] # None
            PROVE  \/ Zeros(tx'[q + 2])
                   \/ tx'[q + 2].root = rd[q].root /\ tx'[q + 2].random = rd[q].random
        <4>1. CASE q + 2 = r + 1
          <5>1. q = r - 1 /\ startRound < r
            BY <2>3, <2>9, <4>1
          <5> QED
            BY <2>2, <2>4, <4>1, <5>1 DEF Zeros
        <4>2. CASE q + 2 # r + 1
          BY <2>4, <2>9, <3>1, <3>3, <4>2 DEF PromptInv, CarriesRound
        <4> QED
          BY <4>1, <4>2
      <3> QED
        BY <3>2, <3>3
    <2>11. OwnReveals'
      <3> SUFFICES ASSUME NEW q \in Rounds, startRound <= q, q + 1 \in Rounds,
                          tx'[q + 1] # None, tx'[q + 2] # None
                   PROVE  \/ Zeros(tx'[q + 2])
                          \/ tx'[q + 1].masked =
                               [root |-> tx'[q + 2].root, random |-> tx'[q + 2].random]
        BY <2>1 DEF OwnReveals, Zeros
      <3>1. CASE q = r
        <4>1. r + 2 \in Buffers /\ r + 2 # r + 1
          BY <2>3, <2>9, <3>1
        <4> QED
          BY <2>4, <2>6, <3>1, <4>1
      <3>2. CASE q = r - 1
        <4>1. startRound < r /\ q + 1 = r /\ q + 2 = r + 1 /\ r # r + 1 /\ Own(q) /\ r \in Buffers
          BY <2>3, <2>9, <3>2 DEF Own
        <4>2. tx'[q + 2] = t /\ tx'[q + 1] = tx[q + 1] /\ tx[q + 1] # None
          BY <2>4, <4>1
        <4>3. sub[q].stage \in {"sent", "done"}
          BY <4>1, <4>2 DEF TimeInv, TxInStep, Own
        <4>4. tx[q + 1].masked = rd[q].masked
          BY <4>1, <4>2 DEF PromptInv, CarriesRound
        <4>5. Consistent(rd[q], sub[q].stage)
          BY PromptNow
        <4>6. Zeros(rd[q]) \/ Hashed(rd[q])
          BY <4>3, <4>5 DEF Consistent, Quiet
        <4>7. (root = Zero /\ random = 0) \/ (root = rd[q].root /\ random = rd[q].random)
          BY <3>2, <4>1
        <4> QED
          BY <2>2, <4>2, <4>4, <4>6, <4>7 DEF Zeros, Hashed
      <3>3. CASE q # r /\ q # r - 1
        <4>1. tx'[q + 1] = tx[q + 1] /\ tx'[q + 2] = tx[q + 2]
          BY <2>4, <2>9, <3>3
        <4> QED
          BY <4>1 DEF PromptInv, OwnReveals
      <3> QED
        BY <3>1, <3>2, <3>3
    <2> QED
      BY <2>7, <2>8, <2>10, <2>11 DEF PromptInv
  <1> QED
    BY <1>1, <1>2

\* The rest of the submission of a round that has a round before it.
LEMMA SubmitLinkedPrompt ==
  ASSUME Inv, TimeInv, PromptInv, NEW r \in Rounds, NEW canReveal, NEW timers,
         Own(r), Linked(r), Unsent(r), sub[r].stage \notin {"abstaining", "rejecting"},
         clock = CommitDue(r), Quiet(rd[r]), rd[r].status >= CommitDataPrepared,
         \A q \in Rounds : timers[q] = 0 => timer[q] = 0,
         SubmitLinked(r, canReveal, timers)
  PROVE  PromptInv'
  <1>1. CASE ShouldSubmit(r)
    BY <1>1, SubmitPrompt DEF SubmitLinked
  <1>2. CASE ~ShouldSubmit(r)
    <2>1. /\ rd' = [rd EXCEPT ![r - 1].status = Revealed]
          /\ sub' = [sub EXCEPT ![r].stage = "done"]
          /\ timer' = timers /\ UNCHANGED <<clock, up, startRound, tx>>
      BY <1>2 DEF SubmitLinked, process, chain
    <2>2. r \in Nat /\ clock \in Nat
      BY RoundsAndBuffers DEF Inv, OtherTypes
    <2>3. r - 1 \in Rounds /\ sub[r - 1].stage # "none" /\ r - 1 # r
      BY <2>2, PreviousStarted
    <2> DEFINE s == [rd[r - 1] EXCEPT !.status = Revealed]
    <2>4. Consistent(s, sub[r - 1].stage) /\ Same(rd[r - 1], s) /\ Quiet(s)
          /\ s.isEmpty = rd[r - 1].isEmpty
      BY <2>3, PromptNow, StatusPrompt
    <2>5. rd'[r - 1] = s /\ \A q \in Rounds \ {r - 1} : rd'[q] = rd[q]
      BY <2>1, <2>3 DEF Inv, RoundsSafe
    <2>6. sub'[r].stage = "done" /\ \A q \in Rounds \ {r} : sub'[q] = sub[q]
      BY <2>1 DEF Inv, OtherTypes, SubmissionRecord
    <2>7. Consistent(rd[r], "done")
      BY PromptNow, StageConsistent
    <2> HIDE DEF s
    <2>8. ASSUME NEW q \in Rounds
          PROVE  /\ Consistent(rd'[q], sub'[q].stage)
                 /\ timer'[q] = 0 => Quiet(rd'[q]) /\ ~rd'[q].isEmpty
                 /\ sub'[q].stage \in Preparing => sub[q].stage \in Preparing
                 /\ Same(rd[q], rd'[q])
      <3>1. CASE q = r
        BY <2>1, <2>3, <2>5, <2>6, <2>7, <3>1, PromptNow DEF Preparing, Same
      <3>2. CASE q = r - 1
        BY <2>1, <2>3, <2>4, <2>5, <2>6, <3>2, PromptNow
      <3>3. CASE q # r /\ q # r - 1
        BY <2>1, <2>5, <2>6, <3>3, PromptNow DEF Same
      <3> QED
        BY <3>1, <3>2, <3>3
    <2> QED
      BY <2>1, <2>8, KeepsPrompt
  <1> QED
    BY <1>1, <1>2

\* Giving up the commit, when nothing is being prepared.
LEMMA GiveUpPrompt ==
  ASSUME Inv, TimeInv, PromptInv, NEW r \in Rounds, NEW reject \in BOOLEAN,
         NEW canReveal, NEW timers, sub[r].stage = "none",
         clock = CommitDue(r), Quiet(rd[r]), timer[r] # 0,
         reject => rd[r].isReject,
         \A q \in Rounds : timers[q] = 0 => timer[q] = 0,
         GiveUpCommit(r, reject, canReveal, timers)
  PROVE  PromptInv'
  <1> DEFINE s == IF reject THEN [rd[r] EXCEPT !.status = CommitDataPrepared, !.root = Zero]
                  ELSE Abstain(rd[r])
             g == IF reject THEN "rejecting" ELSE "abstaining"
  <1>1. /\ rd' = [rd EXCEPT ![r] = s]
        /\ sub' = [sub EXCEPT ![r] = [stage |-> g, canReveal |-> canReveal, write |-> None]]
        /\ timer' = timers /\ UNCHANGED <<clock, up, startRound, tx>>
    BY DEF GiveUpCommit, process, chain
  <1>2. Consistent(s, g)
    BY PromptNow, AbstainConsistent, RejectConsistent
  <1> HIDE DEF s, g
  <1>3. rd'[r] = s /\ \A q \in Rounds \ {r} : rd'[q] = rd[q]
    BY <1>1 DEF Inv, RoundsSafe
  <1>4. sub'[r].stage = g /\ \A q \in Rounds \ {r} : sub'[q] = sub[q]
    BY <1>1 DEF Inv, OtherTypes
  <1>5. ASSUME NEW q \in Rounds
        PROVE  /\ Consistent(rd'[q], sub'[q].stage)
               /\ timer'[q] = 0 => Quiet(rd'[q]) /\ ~rd'[q].isEmpty
               /\ sub'[q].stage \in Preparing =>
                    sub[q].stage \in Preparing \/ clock = CommitDue(q)
               /\ Same(rd[q], rd'[q]) \/ Unsent(q)
    <2>1. CASE q = r
      BY <1>1, <1>2, <1>3, <1>4, <2>1 DEF Unsent
    <2>2. CASE q # r
      BY <1>1, <1>3, <1>4, <2>2, PromptNow DEF Same
    <2> QED
      BY <2>1, <2>2
  <1> QED
    BY <1>1, <1>5, KeepsPrompt

\* What a prompt submission starts from.
LEMMA Started ==
  ASSUME Prompt, Inv, TimeInv, PromptInv, NEW r \in Rounds
  PROVE  /\ sub[r].stage # "none" => /\ Own(r) /\ timer[r] # 0 /\ Quiet(rd[r])
                                     /\ rd[r].status >= CommitDataPrepared
         /\ sub[r].stage \in Preparing => clock = CommitDue(r)
         /\ Ready(r) => Quiet(rd[r])
         /\ CanCommit(rd[r]) => rd[r].status >= CommitDataPrepared
  <1>1. sub[r].stage # "none" =>
          Own(r) /\ timer[r] # 0 /\ Quiet(rd[r]) /\ rd[r].status >= CommitDataPrepared
    BY StageOwn, PromptNow DEF Consistent
  <1>2. sub[r].stage \in Preparing => clock = CommitDue(r)
    BY DEF PromptInv, PromptStages
  <1> QED
    BY <1>1, <1>2, Statuses DEF Ready, CanCommit

\* The receipt changes the status of rounds whose submission has started.
LEMMA ReturnedRounds ==
  ASSUME Inv, TimeInv, NEW r \in Rounds, SubmissionReturned(r)
  PROVE  \A q \in Rounds : rd'[q] = rd[q] \/
           /\ sub[q].stage # "none"
           /\ \E v \in {Committed, Revealed, Error} : rd'[q] = [rd[q] EXCEPT !.status = v]
  <1>1. sub[r].stage = "sent" /\ r \in Nat
    BY RoundsAndBuffers DEF SubmissionReturned
  <1>2. Linked(r) => r - 1 \in Rounds /\ sub[r - 1].stage # "none" /\ r - 1 # r
    BY <1>1, StageOwn, PreviousStarted
  <1>3. CASE Linked(r)
    <2>1. \/ rd' = [rd EXCEPT ![r].status = Committed, ![r - 1].status = Revealed]
          \/ rd' = [rd EXCEPT ![r - 1].status = Error]
      BY <1>3 DEF SubmissionReturned
    <2>2. ASSUME NEW q \in Rounds
          PROVE  rd'[q] = rd[q] \/
                   /\ q = r \/ q = r - 1
                   /\ \E v \in {Committed, Revealed, Error} : rd'[q] = [rd[q] EXCEPT !.status = v]
      BY <1>2, <1>3, <2>1 DEF Inv, RoundsSafe
    <2> QED
      BY <1>1, <1>2, <1>3, <2>2
  <1>4. CASE ~Linked(r)
    <2>1. rd' = [rd EXCEPT ![r].status = Committed] \/ rd' = [rd EXCEPT ![r].status = Error]
      BY <1>4 DEF SubmissionReturned
    <2> QED
      BY <1>1, <2>1 DEF Inv, RoundsSafe
  <1> QED
    BY <1>3, <1>4

\* A submission starts, goes on, or waits for its receipt.
LEMMA SubmissionPrompt ==
  ASSUME Prompt, Inv, TimeInv, PromptInv, NEW r \in Rounds,
         \/ OnFirstCommit(r) \/ OnSubmitAttestation(r) \/ RandomDrawn(r)
         \/ GiveUpStored(r) \/ PreviousRoundRead(r) \/ SubmissionReturned(r)
  PROVE  PromptInv'
  <1> USE DEF process, storage, chain
  <1>0. r \in Nat /\ startRound \in Nat /\ rd[r] \in RoundRecord /\ clock \in Nat
    BY RoundsAndBuffers, PromptNow DEF Inv, OtherTypes
  <1>a. ASSUME NEW g \in {"storing", "lookup", "done"}, NEW s,
               rd' = [rd EXCEPT ![r] = s], sub' = [sub EXCEPT ![r].stage = g],
               Consistent(s, g), Same(rd[r], s) \/ Unsent(r), timer[r] # 0,
               g \in Preparing => clock = CommitDue(r),
               \A q \in Rounds : timer'[q] = 0 => timer[q] = 0,
               UNCHANGED <<clock, up, startRound, tx>>
        PROVE  PromptInv'
    <2>1. rd'[r] = s /\ \A q \in Rounds \ {r} : rd'[q] = rd[q]
      BY <1>a DEF Inv, RoundsSafe
    <2>2. sub'[r].stage = g /\ \A q \in Rounds \ {r} : sub'[q] = sub[q]
      BY <1>a DEF Inv, OtherTypes, SubmissionRecord
    <2>3. ASSUME NEW q \in Rounds
          PROVE  /\ Consistent(rd'[q], sub'[q].stage)
                 /\ timer'[q] = 0 => Quiet(rd'[q]) /\ ~rd'[q].isEmpty
                 /\ sub'[q].stage \in Preparing =>
                      sub[q].stage \in Preparing \/ clock = CommitDue(q)
                 /\ Same(rd[q], rd'[q]) \/ Unsent(q)
      <3>1. CASE q = r
        BY <1>a, <2>1, <2>2, <3>1
      <3>2. CASE q # r
        BY <1>a, <2>1, <2>2, <3>2, PromptNow DEF Same
      <3> QED
        BY <3>1, <3>2
    <2> QED
      BY <1>a, <2>3, KeepsPrompt
  <1>b. rd = [rd EXCEPT ![r] = rd[r]] /\ Same(rd[r], rd[r])
    BY DEF Inv, RoundsSafe, Same
  <1>1. CASE OnFirstCommit(r)
    <2>1. timer[r] = 5 /\ clock = Due(r, 5) /\ Ready(r) /\ up
      BY <1>1, TimerNumbers DEF OnFirstCommit, Fires
    <2>2. r = startRound /\ clock = CommitDue(r) /\ Quiet(rd[r])
      <3>1. r = startRound
        BY <2>1, TimerNumbers DEF TimeInv, TimersInStep
      <3>2. clock = CommitDue(r)
        BY <1>0, <2>1, DueTimes
      <3> QED
        BY <2>1, <3>1, <3>2, Started
    <2>3. sub[r].stage = "none"
      <3>1. ~Fired(r)
        BY <1>0, <2>1, <2>2, TimerNumbers DEF Fired
      <3> QED
        BY <3>1 DEF TimeInv, StagesInStep
    <2>4. \A q \in Rounds : Rearmed(r, 5)[q] = 0 => timer[q] = 0
      BY <2>1, RearmedLater
    <2>5. CASE CanCommit(rd[r])
      <3>1. /\ sub' = [sub EXCEPT ![r].stage = "lookup"] /\ timer' = Rearmed(r, 5) /\ rd' = rd
            /\ UNCHANGED <<clock, up, startRound, tx>>
        BY <1>1, <2>5, TimerNumbers DEF OnFirstCommit
      <3>2. Consistent(rd[r], "lookup")
        BY <1>0, <2>2, <2>3, <2>5, Started, PromptNow, StageConsistent
      <3> QED
        BY <1>a, <1>b, <2>1, <2>2, <2>4, <3>1, <3>2
    <2>6. CASE ~CanCommit(rd[r])
      <3> DEFINE no == FALSE
      <3>1. GiveUpCommit(r, no, no, Rearmed(r, 5)) /\ no \in BOOLEAN /\ ~no
        BY <1>1, <2>6, TimerNumbers DEF OnFirstCommit
      <3> HIDE DEF no
      <3> QED
        BY <2>1, <2>2, <2>3, <2>4, <3>1, GiveUpPrompt
    <2> QED
      BY <2>5, <2>6
  <1>2. CASE OnSubmitAttestation(r)
    <2> DEFINE n == r + 1
               canReveal == rd[r].status \in {CommitDataPrepared, Committed}
    <2>1. /\ timer[r] = 7 /\ clock = Due(r, 7) /\ up /\ Ready(n) /\ n \in Rounds
          /\ timer[n] # 0 /\ n \in Nat /\ n > 0 /\ n - 1 = r
      BY <1>0, <1>2, TimerNumbers, RoundAssumption
      DEF OnSubmitAttestation, Fires, Rounds, Live
    <2>2. startRound <= r
      BY <2>1 DEF TimeInv, TimersInStep
    <2>3. clock = CommitDue(n)
      <3>1. clock = 5 * r + 14 /\ CommitDue(n) = 5 * n + 9
        BY <1>0, <2>1, DueTimes
      <3> QED
        BY <1>0, <3>1
    <2>4. Own(n) /\ Linked(n) /\ Quiet(rd[n])
      BY <1>0, <2>1, <2>2, Started DEF Own, Linked
    <2>5. sub[n].stage = "none"
      <3>1. ~Fired(n)
        BY <1>0, <2>1, <2>2, TimerNumbers DEF Fired
      <3> QED
        BY <2>1, <3>1 DEF TimeInv, StagesInStep
    <2>6. \A q \in Rounds : Rearmed(r, 7)[q] = 0 => timer[q] = 0
      BY <2>1, RearmedLater
    <2>7. \/ CanCommit(rd[n]) /\ SubmitLinked(n, canReveal, Rearmed(r, 7))
          \/ GiveUpCommit(n, rd[n].isReject, canReveal, Rearmed(r, 7))
      BY <1>2, TimerNumbers DEF OnSubmitAttestation
    <2> HIDE DEF n, canReveal
    <2>8. CASE CanCommit(rd[n]) /\ SubmitLinked(n, canReveal, Rearmed(r, 7))
      BY <2>1, <2>3, <2>4, <2>5, <2>6, <2>8, Started, SubmitLinkedPrompt DEF Unsent
    <2>9. CASE GiveUpCommit(n, rd[n].isReject, canReveal, Rearmed(r, 7))
      <3>1. rd[n].isReject \in BOOLEAN
        BY <2>1, PromptNow DEF RoundRecord
      <3> QED
        BY <2>1, <2>3, <2>4, <2>5, <2>6, <2>9, <3>1, GiveUpPrompt
    <2> QED
      BY <2>7, <2>8, <2>9
  <1>3. CASE RandomDrawn(r)
    <2> DEFINE s == IF sub[r].stage = "abstaining" THEN Abstained(rd[r])
                    ELSE Committing(rd[r])
    <2>1. /\ sub[r].stage \in {"abstaining", "rejecting"}
          /\ rd' = [rd EXCEPT ![r] = s]
          /\ sub' = [sub EXCEPT ![r].stage = "storing", ![r].write = Stored(s)]
          /\ timer' = timer /\ UNCHANGED <<clock, up, startRound, tx>>
      BY <1>3 DEF RandomDrawn
    <2>2. Consistent(s, "storing")
      BY <2>1, PromptNow, RandomConsistent
    <2> HIDE DEF s
    <2>3. timer[r] # 0 /\ clock = CommitDue(r) /\ Unsent(r)
      BY <2>1, Started DEF Unsent, Preparing
    <2>4. rd'[r] = s /\ \A q \in Rounds \ {r} : rd'[q] = rd[q]
      BY <2>1 DEF Inv, RoundsSafe
    <2>5. sub'[r].stage = "storing" /\ \A q \in Rounds \ {r} : sub'[q] = sub[q]
      BY <2>1 DEF Inv, OtherTypes, SubmissionRecord
    <2>6. ASSUME NEW q \in Rounds
          PROVE  /\ Consistent(rd'[q], sub'[q].stage)
                 /\ timer'[q] = 0 => Quiet(rd'[q]) /\ ~rd'[q].isEmpty
                 /\ sub'[q].stage \in Preparing =>
                      sub[q].stage \in Preparing \/ clock = CommitDue(q)
                 /\ Same(rd[q], rd'[q]) \/ Unsent(q)
      <3>1. CASE q = r
        BY <2>1, <2>2, <2>3, <2>4, <2>5, <3>1
      <3>2. CASE q # r
        BY <2>1, <2>4, <2>5, <3>2, PromptNow DEF Same
      <3> QED
        BY <3>1, <3>2
    <2> QED
      BY <2>1, <2>6, KeepsPrompt
  <1>4. CASE GiveUpStored(r)
    <2>1. sub[r].stage = "storing"
      BY <1>4 DEF GiveUpStored
    <2>2. /\ Own(r) /\ timer[r] # 0 /\ Quiet(rd[r]) /\ rd[r].status >= CommitDataPrepared
          /\ clock = CommitDue(r) /\ Unsent(r)
      BY <2>1, Started DEF Preparing, Unsent
    <2>3. CASE Linked(r)
      <3>1. SubmitLinked(r, sub[r].canReveal, timer)
        BY <1>4, <2>3 DEF GiveUpStored
      <3> QED
        BY <2>1, <2>2, <2>3, <3>1, SubmitLinkedPrompt
    <2>4. CASE ~Linked(r)
      <3>1. /\ sub' = [sub EXCEPT ![r].stage = "lookup"] /\ timer' = timer /\ rd' = rd
            /\ UNCHANGED <<clock, up, startRound, tx>>
        BY <1>4, <2>4 DEF GiveUpStored
      <3>2. Consistent(rd[r], "lookup")
        BY <2>1, <2>2, PromptNow, StageConsistent
      <3> QED
        BY <1>a, <1>b, <2>2, <3>1, <3>2
    <2> QED
      BY <2>3, <2>4
  <1>5. CASE PreviousRoundRead(r)
    <2> DEFINE previous == IF r = 0 THEN [root |-> Zero, random |-> 0] ELSE db[r - 1]
    <2>1. sub[r].stage = "lookup" /\ Submit(r, previous.root, previous.random, timer)
      BY <1>5 DEF PreviousRoundRead
    <2> HIDE DEF previous
    <2>2. Own(r) /\ Quiet(rd[r]) /\ rd[r].status >= CommitDataPrepared /\ Unsent(r)
      BY <2>1, Started DEF Preparing, Unsent
    <2>3. ~(startRound < r)
      BY <1>0, <2>1 DEF TimeInv, StagesInStep
    <2> QED
      BY <2>1, <2>2, <2>3, SubmitPrompt
  <1>6. CASE SubmissionReturned(r)
    <2>1. /\ sub[r].stage = "sent" /\ sub' = [sub EXCEPT ![r].stage = "done"]
          /\ timer' = timer /\ UNCHANGED <<clock, up, startRound, tx>>
      BY <1>6 DEF SubmissionReturned
    <2>2. Own(r) /\ timer[r] # 0 /\ clock >= CommitDue(r)
      BY <2>1, StageOwn
    <2>3. \A q \in Rounds : rd'[q] = rd[q] \/
            /\ sub[q].stage # "none"
            /\ \E v \in {Committed, Revealed, Error} : rd'[q] = [rd[q] EXCEPT !.status = v]
      BY <1>6, ReturnedRounds
    <2>4. sub'[r].stage = "done" /\ \A q \in Rounds \ {r} : sub'[q] = sub[q]
      BY <2>1 DEF Inv, OtherTypes, SubmissionRecord
    <2>5. ASSUME NEW q \in Rounds
          PROVE  /\ Consistent(rd'[q], sub[q].stage) /\ Same(rd[q], rd'[q])
                 /\ timer[q] = 0 => Quiet(rd'[q]) /\ ~rd'[q].isEmpty
                 /\ sub[q].stage # "none" =>
                      Quiet(rd'[q]) /\ rd'[q].status >= CommitDataPrepared /\ rd'[q] \in RoundRecord
      <3>1. Consistent(rd'[q], sub[q].stage) /\ Same(rd[q], rd'[q])
            /\ rd'[q] \in RoundRecord
            /\ (timer[q] = 0 => Quiet(rd'[q]) /\ ~rd'[q].isEmpty)
        <4>1. CASE rd'[q] = rd[q]
          BY <4>1, PromptNow DEF Same
        <4>2. CASE /\ sub[q].stage # "none"
                   /\ \E v \in {Committed, Revealed, Error} : rd'[q] = [rd[q] EXCEPT !.status = v]
          <5>1. PICK v \in {Committed, Revealed, Error} : rd'[q] = [rd[q] EXCEPT !.status = v]
            BY <4>2
          <5>2. rd[q] \in RoundRecord /\ Consistent(rd[q], sub[q].stage)
            BY PromptNow
          <5>3. rd'[q] \in RoundRecord
            BY <5>1, <5>2, StatusRange DEF RoundRecord
          <5> DEFINE t == [rd[q] EXCEPT !.status = v]
          <5>4. /\ Consistent(t, sub[q].stage) /\ Same(rd[q], t)
                /\ Quiet(t) /\ t.isEmpty = rd[q].isEmpty
            BY <4>2, <5>2, StatusPrompt
          <5>5. rd'[q] = t
            BY <5>1
          <5> HIDE DEF t
          <5> QED
            BY <5>3, <5>4, <5>5, PromptNow
        <4> QED
          BY <2>3, <4>1, <4>2
      <3> QED
        BY <3>1 DEF Consistent
    <2>6. Consistent(rd'[r], "done")
      BY <2>1, <2>5, StageConsistent
    <2>7. ASSUME NEW q \in Rounds
          PROVE  /\ Consistent(rd'[q], sub'[q].stage)
                 /\ timer'[q] = 0 => Quiet(rd'[q]) /\ ~rd'[q].isEmpty
                 /\ sub'[q].stage \in Preparing => sub[q].stage \in Preparing
                 /\ Same(rd[q], rd'[q])
      BY <2>1, <2>4, <2>5, <2>6 DEF Preparing
    <2> QED
      BY <2>1, <2>7, KeepsPrompt
  <1> QED
    BY <1>1, <1>2, <1>3, <1>4, <1>5, <1>6

\* Time, restarts, the creation of rounds, the network and the database.
LEMMA OtherPrompt ==
  ASSUME Prompt, Inv, TimeInv, TimeInv', PromptInv,
         \/ AdvanceClock \/ Restart \/ Crash
         \/ \E r \in Rounds : CreateRound(r) \/ RoundSaved(r)
         \/ \E b \in Buffers : TransactionMined(b)
         \/ UNCHANGED vars
  PROVE  PromptInv'
  <1> USE DEF process, storage, chain
  <1>1. CASE AdvanceClock
    <2>1. DataInv' /\ OwnReveals'
      BY <1>1 DEF AdvanceClock, PromptInv, DataInv, OwnReveals, Zeros
    <2>2. PromptStages'
      BY <1>1 DEF AdvanceClock, PromptStages
    <2>3. CarriesRound'
      BY <1>1 DEF AdvanceClock, PromptInv, CarriesRound, Own, Zeros
    <2> QED
      BY <2>1, <2>2, <2>3 DEF PromptInv
  <1>2. CASE Restart
    <2>1. /\ ~up /\ UNCHANGED <<clock, timer, rd, sub, tx>>
          /\ \A r \in Rounds : sub[r].stage = "none"
      BY <1>2 DEF Restart, Inv, IdleSafe, TimeInv, TimersInStep
    <2>2. DataInv' /\ PromptStages'
      BY <2>1 DEF PromptInv, DataInv, PromptStages, Preparing
    <2>3. ASSUME NEW r \in Rounds, startRound' <= r PROVE tx'[r + 1] = None
      BY <1>2, <2>1, <2>3 DEF Restart, TimeInv, TxInStep
    <2>4. ASSUME NEW r \in Rounds, startRound' <= r, r + 1 \in Rounds PROVE tx'[r + 2] = None
      <3>1. startRound' <= r + 1 /\ (r + 1) + 1 = r + 2
        BY <1>2, <2>4, RoundsAndBuffers DEF Restart
      <3> QED
        BY <2>3, <2>4, <3>1
    <2>5. CarriesRound' /\ OwnReveals'
      BY <2>3, <2>4 DEF CarriesRound, OwnReveals, Own
    <2> QED
      BY <2>2, <2>5 DEF PromptInv
  <1>3. CASE Crash
    BY <1>3, ExitPrompt DEF Crash
  <1>4. ASSUME NEW r \in Rounds, CreateRound(r) PROVE PromptInv'
    <2>1. /\ rd' = [rd EXCEPT ![r] = NewRound] /\ timer[r] = 0
          /\ UNCHANGED <<clock, up, startRound, tx, sub>>
      BY <1>4 DEF CreateRound
    <2>2. sub[r].stage = "none"
      BY <2>1 DEF Inv, IdleSafe
    <2>3. \A q \in Rounds : timer'[q] = 0 => timer[q] = 0
      BY <1>4, TimerNumbers DEF CreateRound, Inv, OtherTypes
    <2> QED
      BY <2>1, <2>2, <2>3, NewRoundConsistent, RoundPrompt DEF Unsent
  <1>5. ASSUME UNCHANGED <<clock, up, startRound, timer, rd, sub, tx>> PROVE PromptInv'
    BY <1>5 DEF PromptInv, DataInv, PromptStages, CarriesRound, OwnReveals, Own, Zeros
  <1> QED
    BY <1>1, <1>2, <1>3, <1>4, <1>5 DEF RoundSaved, TransactionMined, vars

\* The invariant of prompt preparations holds at the start, and is kept.
LEMMA PromptInvInit == Init => PromptInv
  <1> SUFFICES ASSUME Init PROVE PromptInv
    OBVIOUS
  <1>1. DataInv /\ PromptStages
    BY NewRoundConsistent DEF Init, DataInv, PromptStages, NoSubmission, Preparing
  <1>2. CarriesRound /\ OwnReveals
    <2>1. \A r \in Rounds : tx[r + 1] = None /\ (r + 1 \in Rounds => tx[r + 2] = None)
      BY RoundAssumption DEF Init, Rounds, Buffers
    <2> QED
      BY <2>1 DEF CarriesRound, OwnReveals
  <1> QED
    BY <1>1, <1>2 DEF PromptInv

\* Each step keeps the invariant of prompt preparations.
LEMMA PromptInvStep ==
  ASSUME Prompt
  PROVE  Inv /\ TimeInv /\ TimeInv' /\ PromptInv /\ [Next]_vars => PromptInv'
  <1> SUFFICES ASSUME Inv, TimeInv, TimeInv', PromptInv, [Next]_vars PROVE PromptInv'
    OBVIOUS
  <1>1. CASE \/ AdvanceClock \/ Restart \/ Crash
             \/ \E r \in Rounds : CreateRound(r)
             \/ \E b \in Buffers : TransactionMined(b)
             \/ UNCHANGED vars
    BY <1>1, OtherPrompt
  <1>2. ASSUME NEW r \in Rounds, TimerStep(r) PROVE PromptInv'
    BY <1>2, TimerPrompt, SubmissionPrompt DEF TimerStep
  <1>3. ASSUME NEW r \in Rounds, EventStep(r) PROVE PromptInv'
    BY <1>3, EventPrompt
  <1>4. ASSUME NEW r \in Rounds, Continuation(r) PROVE PromptInv'
    <2>1. CASE RoundSaved(r)
      BY <2>1, OtherPrompt
    <2> QED
      BY <1>4, <2>1, PreparationPrompt, SubmissionPrompt DEF Continuation
  <1> QED
    BY <1>1, <1>2, <1>3, <1>4 DEF Next

\* What the invariants say of the rounds and their transactions.
THEOREM PromptInvariance ==
  ASSUME Prompt
  PROVE  Spec => []PromptInv
  <1>1. Inv /\ TimeInv /\ TimeInv' /\ PromptInv /\ [Next]_vars => PromptInv'
    BY PromptInvStep
  <1> QED
    BY <1>1, PromptInvInit, Invariance, TimersKeepStep, PTL DEF Spec

\* With prompt preparations a round this client abstains from never counts as
\* a vote of its own: its masked root hides another random than any revealed.
THEOREM AbstentionsNeverCount ==
  ASSUME Prompt
  PROVE  Spec => []AbstentionNeverCounts
  <1>1. Inv /\ TimeInv /\ PromptInv => AbstentionNeverCounts
    <2> SUFFICES ASSUME Inv, TimeInv, PromptInv, NEW r \in 0..(LastRound - 1), rd[r].isEmpty,
                        Opens(r)
                 PROVE  FALSE
      BY DEF AbstentionNeverCounts
    <2>1. r \in Rounds /\ r + 1 \in Rounds /\ r \in Nat
      BY RoundAssumption DEF Rounds
    <2>2. timer[r] # 0
      BY <2>1, PromptNow
    <2>3. Own(r)
      BY <2>1, <2>2 DEF TimeInv, TimersInStep, Own
    <2>4. Zeros(rd[r]) /\ rd[r].masked.random > 0
      BY <2>1, PromptNow DEF Consistent, Abstains
    <2>5. r + 1 \in Buffers /\ r + 2 \in Buffers
      BY <2>1, RoundAssumption DEF Rounds, Buffers
    <2>6. /\ tx[r + 1] # None /\ tx[r + 2] # None
          /\ tx[r + 1].masked = [root |-> tx[r + 2].root, random |-> tx[r + 2].random]
      BY <2>5 DEF Opens, TimeInv, TxInStep
    <2>7. tx[r + 1].masked = rd[r].masked
      BY <2>1, <2>3, <2>6 DEF PromptInv, CarriesRound
    <2>8. tx[r + 2].random = 0
      BY <2>1, <2>3, <2>4, <2>6 DEF PromptInv, CarriesRound, Zeros
    <2> QED
      BY <2>4, <2>6, <2>7, <2>8
  <1>2. Prompt => (Spec => []PromptInv)
    BY PromptInvariance
  <1> QED
    BY <1>1, <1>2, Invariance, TimersKeepStep, PTL

\* A round that this process has committed opens when it is revealed with
\* anything but the zeros of an abstention, however often it has restarted.
OwnRevealMatchesCommit ==
  \A r \in 0..(LastRound - 1) :
    (/\ startRound <= r
     /\ board[r + 1] # None
     /\ board[r + 2] # None
     /\ board[r + 2].root # Zero \/ board[r + 2].random # 0) => Opens(r)

\* No transaction of a process fails to open what it committed itself.
THEOREM OwnRevealsMatchCommits ==
  ASSUME Prompt
  PROVE  Spec => []OwnRevealMatchesCommit
  <1>1. TimeInv /\ PromptInv => OwnRevealMatchesCommit
    <2> SUFFICES ASSUME TimeInv, PromptInv, NEW r \in 0..(LastRound - 1), startRound <= r,
                        board[r + 1] # None, board[r + 2] # None,
                        board[r + 2].root # Zero \/ board[r + 2].random # 0
                 PROVE  Opens(r)
      BY DEF OwnRevealMatchesCommit
    <2>1. r \in Rounds /\ r + 1 \in Rounds /\ r + 1 \in Buffers /\ r + 2 \in Buffers
      BY RoundAssumption DEF Rounds, Buffers
    <2>2. board[r + 1] = tx[r + 1] /\ board[r + 2] = tx[r + 2]
      BY <2>1 DEF TimeInv, TxInStep
    <2> QED
      BY <2>1, <2>2 DEF PromptInv, OwnReveals, Zeros, Opens
  <1>2. Prompt => (Spec => []PromptInv)
    BY PromptInvariance
  <1> QED
    BY <1>1, <1>2, TimersKeepStep, PTL

-----------------------------------------------------------------------------
(* The records of a round.  Whichever preparation made them, they have the   *)
(* root that is committed, so that a process that starts later reveals it.   *)

\* What a process that starts later may find saved of a round.
Records(r) == {db[r]} \cup dbWrites[r] \cup ({sub[r].write} \ {None})

\* The round state s, with a submission in stage g, commits to the root of the
\* record w.
Backs(s, g, w) ==
  /\ s.status >= CommitDataPrepared
  /\ s.masked # None /\ s.masked.root = w.root
  /\ g \notin {"abstaining", "rejecting"}
  /\ g = "none" => w.root # Zero /\ s.chosen = w.root

\* Votes and phases have their time; only a submission goes past the commit data.
InPhase(r, s, t, g) ==
  /\ s.tally # {} => clock >= StagesPerWindow * (r + 1)
  /\ s.phase \in {"collect", "choose"} => t <= CommitTimer
  /\ s.phase \in {"reveal", "finalise"} => clock >= StagesPerWindow * (r + 2)
  /\ g = "none" => s.status <= CommitDataPrepared

PhaseInv == \A r \in Rounds : InPhase(r, rd[r], timer[r], sub[r].stage)

\* Records other than the zeros of an abstention have the committed root.
RecordsCommitted ==
  \A r \in Rounds : \A w \in Records(r) : ~Zeros(w) =>
    /\ clock >= StagesPerWindow * (r + 1)
    /\ Own(r) => Backs(rd[r], sub[r].stage, w)
    /\ tx[r + 1] # None => tx[r + 1].masked.root = w.root

\* What is sent to reveal a round has the root that was sent to commit it.
RootsMatch ==
  \A r \in Rounds :
    r + 1 \in Rounds /\ tx[r + 1] # None /\ tx[r + 2] # None =>
      Zeros(tx[r + 2]) \/ tx[r + 1].masked.root = tx[r + 2].root

SaveInv == PhaseInv /\ RecordsCommitted /\ RootsMatch

\* The steps of a process, round by round.
LEMMA SaveKept ==
  ASSUME Inv, PromptInv', SaveInv, RootsMatch', UNCHANGED <<clock, up, startRound>>,
         \A q \in Rounds :
           /\ InPhase(q, rd'[q], timer'[q], sub'[q].stage)
           /\ ~Own(q) => tx'[q + 1] = tx[q + 1] /\ Records(q)' \subseteq Records(q)
           /\ Own(q) => \A w \in Records(q)' : ~Zeros(w) =>
                clock >= StagesPerWindow * (q + 1) /\ Backs(rd'[q], sub'[q].stage, w)
  PROVE  SaveInv'
  <1>1. PhaseInv'
    BY DEF PhaseInv, InPhase
  <1>2. ASSUME NEW q \in Rounds, NEW w \in Records(q)', ~Zeros(w)
        PROVE  /\ clock >= StagesPerWindow * (q + 1)
               /\ Own(q) => Backs(rd'[q], sub'[q].stage, w)
               /\ tx'[q + 1] # None => tx'[q + 1].masked.root = w.root
    <2>1. CASE Own(q)
      <3>1. clock >= StagesPerWindow * (q + 1) /\ Backs(rd'[q], sub'[q].stage, w)
        BY <1>2, <2>1
      <3>2. tx'[q + 1] # None => tx'[q + 1].masked = rd'[q].masked
        BY <2>1 DEF PromptInv, CarriesRound, Own
      <3> QED
        BY <3>1, <3>2 DEF Backs
    <2>2. CASE ~Own(q)
      <3>1. w \in Records(q) /\ tx'[q + 1] = tx[q + 1]
        BY <1>2, <2>2
      <3> QED
        BY <1>2, <2>2, <3>1 DEF SaveInv, RecordsCommitted
    <2> QED
      BY <2>1, <2>2
  <1>3. RecordsCommitted'
    BY <1>2 DEF RecordsCommitted, Own, Backs, Zeros
  <1> QED
    BY <1>1, <1>3 DEF SaveInv

\* A step that changes one round and sends nothing.
LEMMA RoundSaves ==
  ASSUME Inv, PromptInv', SaveInv, NEW r \in Rounds, NEW s, Own(r),
         rd' = [rd EXCEPT ![r] = s], UNCHANGED <<clock, up, startRound, tx>>,
         \A q \in Rounds \ {r} :
           /\ timer'[q] = timer[q] /\ sub'[q] = sub[q]
           /\ db'[q] = db[q] /\ dbWrites'[q] = dbWrites[q],
         InPhase(r, s, timer'[r], sub'[r].stage),
         \A w \in Records(r)' : ~Zeros(w) =>
           clock >= StagesPerWindow * (r + 1) /\ Backs(s, sub'[r].stage, w)
  PROVE  SaveInv'
  <1>1. rd'[r] = s /\ \A q \in Rounds \ {r} : rd'[q] = rd[q]
    BY DEF Inv, RoundsSafe
  <1>2. RootsMatch'
    BY DEF SaveInv, RootsMatch, Zeros
  <1>3. ASSUME NEW q \in Rounds
        PROVE  /\ InPhase(q, rd'[q], timer'[q], sub'[q].stage)
               /\ ~Own(q) => tx'[q + 1] = tx[q + 1] /\ Records(q)' \subseteq Records(q)
               /\ Own(q) => \A w \in Records(q)' : ~Zeros(w) =>
                    clock >= StagesPerWindow * (q + 1) /\ Backs(rd'[q], sub'[q].stage, w)
    <2>1. CASE q = r
      BY <1>1, <2>1
    <2>2. CASE q # r
      <3>1. Records(q)' = Records(q)
        BY <2>2 DEF Records
      <3>2. /\ InPhase(q, rd[q], timer[q], sub[q].stage)
            /\ Own(q) => \A w \in Records(q) : ~Zeros(w) =>
                 clock >= StagesPerWindow * (q + 1) /\ Backs(rd[q], sub[q].stage, w)
        BY DEF SaveInv, PhaseInv, RecordsCommitted
      <3> QED
        BY <1>1, <2>2, <3>1, <3>2
    <2> QED
      BY <2>1, <2>2
  <1> QED
    BY <1>2, <1>3, SaveKept

\* The steps that neither record nor send anything.
LEMMA RoundKeeps ==
  ASSUME Inv, PromptInv', SaveInv, NEW r \in Rounds, NEW s, Own(r),
         rd' = [rd EXCEPT ![r] = s],
         UNCHANGED <<clock, up, startRound, tx, sub, db, dbWrites>>,
         \A q \in Rounds \ {r} : timer'[q] = timer[q],
         InPhase(r, s, timer'[r], sub[r].stage),
         rd[r].status >= CommitDataPrepared =>
           /\ s.status >= CommitDataPrepared
           /\ s.masked = rd[r].masked /\ s.chosen = rd[r].chosen
  PROVE  SaveInv'
  <1>1. Records(r)' = Records(r)
    BY DEF Records
  <1>2. ASSUME NEW w \in Records(r), ~Zeros(w)
        PROVE  clock >= StagesPerWindow * (r + 1) /\ Backs(s, sub[r].stage, w)
    <2>1. clock >= StagesPerWindow * (r + 1) /\ Backs(rd[r], sub[r].stage, w)
      BY <1>2 DEF SaveInv, RecordsCommitted
    <2> QED
      BY <2>1 DEF Backs
  <1> QED
    BY <1>1, <1>2, RoundSaves

\* The process stops; a record that was on its way may have been saved.
LEMMA ExitSaves ==
  ASSUME Inv, SaveInv, ProcessExit, \A q \in Rounds : db'[q] \in Records(q)
  PROVE  SaveInv'
  <1> USE DEF ProcessExit
  <1>1. PhaseInv'
    BY Statuses, TimerNumbers DEF PhaseInv, InPhase, NewRound
  <1>2. \A q \in Rounds : Records(q)' \subseteq Records(q)
    BY DEF Records, NoSubmission
  <1>3. RecordsCommitted'
    BY <1>2 DEF SaveInv, RecordsCommitted, Own, Zeros
  <1>4. RootsMatch'
    BY DEF SaveInv, RootsMatch, Zeros
  <1> QED
    BY <1>1, <1>3, <1>4 DEF SaveInv

\* What the invariant says of one round.
LEMMA SavedNow ==
  ASSUME Inv, TimeInv, SaveInv, NEW r \in Rounds
  PROVE  /\ InPhase(r, rd[r], timer[r], sub[r].stage)
         /\ \A w \in Records(r) : ~Zeros(w) =>
              /\ clock >= StagesPerWindow * (r + 1)
              /\ Own(r) => Backs(rd[r], sub[r].stage, w)
         /\ db[r] \in Records(r)
         /\ timer[r] # 0 => Own(r)
         /\ rd[r] \in RoundRecord /\ r \in Nat /\ clock \in Nat
  BY RoundsAndBuffers
  DEF SaveInv, PhaseInv, RecordsCommitted, Records, TimeInv, TimersInStep, Own, Inv,
      OtherTypes, RoundsSafe

\* The count and the preparation change neither the votes nor the phase, and
\* nothing once there are commit data.
LEMMA CountedPhase ==
  ASSUME NEW s \in RoundRecord
  PROVE  LET t == TryPrepare(TryCount(s))
         IN  /\ t.tally = s.tally /\ t.phase = s.phase
             /\ t.status <= CommitDataPrepared \/ t.status = s.status
             /\ s.status >= CommitDataPrepared => t = s
  <1> DEFINE u == TryCount(s)
  <1>1. /\ u.tally = s.tally /\ u.phase = s.phase
        /\ u.status = Chosen \/ u = s
        /\ s.status >= CommitDataPrepared => u = s
    BY Statuses DEF TryCount, CanCount, RoundRecord
  <1>2. u \in RoundRecord
    BY StatusRange DEF TryCount, RoundRecord, Roots
  <1> HIDE DEF u
  <1>3. /\ TryPrepare(u).tally = u.tally /\ TryPrepare(u).phase = u.phase
        /\ TryPrepare(u).status = CommitDataPrepared \/ TryPrepare(u).status = u.status
        /\ u.status # Chosen => TryPrepare(u) = u
    BY <1>2 DEF TryPrepare, Abstain, RoundRecord
  <1> QED
    BY <1>1, <1>3, Statuses DEF u

\* An event of a round, with the count that follows.
LEMMA CountAndPrepareSaves ==
  ASSUME Inv, PromptInv', SaveInv, NEW r \in Rounds, NEW s \in RoundRecord, NEW timers, Own(r),
         \A q \in Rounds \ {r} : timers[q] = timer[q],
         InPhase(r, s, timers[r], sub[r].stage),
         rd[r].status >= CommitDataPrepared =>
           /\ s.status >= CommitDataPrepared
           /\ s.masked = rd[r].masked /\ s.chosen = rd[r].chosen,
         CountAndPrepare(r, s, timers)
  PROVE  SaveInv'
  <1>1. CASE ProcessExit /\ UNCHANGED db
    BY <1>1, ExitSaves DEF Records
  <1>2. CASE SetRound(r, TryPrepare(TryCount(s))) /\ timer' = timers
    <2> DEFINE t == TryPrepare(TryCount(s))
    <2>1. /\ t.tally = s.tally /\ t.phase = s.phase
          /\ t.status <= CommitDataPrepared \/ t.status = s.status
          /\ s.status >= CommitDataPrepared => t = s
      BY CountedPhase
    <2>2. /\ rd' = [rd EXCEPT ![r] = t] /\ timer' = timers
          /\ UNCHANGED <<clock, up, startRound, tx, sub, db, dbWrites>>
      BY <1>2 DEF SetRound, process, chain, storage
    <2> HIDE DEF t
    <2>3. InPhase(r, t, timer'[r], sub[r].stage)
      BY <2>1, <2>2 DEF InPhase
    <2> QED
      BY <2>1, <2>2, <2>3, RoundKeeps
  <1> QED
    BY <1>1, <1>2 DEF CountAndPrepare

\* The fields of a round that its records depend on: they are not the status of
\* a request, a vote sent or read, or the phase.
LEMMA RecordFields ==
  ASSUME NEW s \in RoundRecord
  PROVE  /\ \A v \in Roots : LET t == [s EXCEPT !.tally = v] IN
              /\ t.tally = v /\ t.phase = s.phase
              /\ t.status = s.status /\ t.masked = s.masked /\ t.chosen = s.chosen
         /\ \A v \in Roots : LET t == [s EXCEPT !.vote = v] IN
              /\ t.tally = s.tally /\ t.phase = s.phase
              /\ t.status = s.status /\ t.masked = s.masked /\ t.chosen = s.chosen
         /\ \A v \in {"choose", "commit", "reveal", "finalise"} :
              LET t == [s EXCEPT !.phase = v] IN
              /\ t \in RoundRecord /\ t.tally = s.tally /\ t.phase = v
              /\ t.status = s.status /\ t.masked = s.masked /\ t.chosen = s.chosen
  BY DEF RoundRecord

\* They stay when a request has been processed.
LEMMA RequestFields ==
  ASSUME NEW s \in RoundRecord, NEW i \in Requests, NEW v \in RequestStatus
  PROVE  LET t == [s EXCEPT !.att[i] = v] IN
           /\ t \in RoundRecord /\ t.tally = s.tally /\ t.phase = s.phase
           /\ t.status = s.status /\ t.masked = s.masked /\ t.chosen = s.chosen
  BY DEF RoundRecord

\* They stay when the vote is closed.
LEMMA ClosedFields ==
  ASSUME NEW s \in RoundRecord
  PROVE  LET t == [s EXCEPT !.status = BitVotingClosed] IN
           /\ t \in RoundRecord /\ t.tally = s.tally /\ t.phase = s.phase
           /\ t.status = BitVotingClosed /\ t.masked = s.masked /\ t.chosen = s.chosen
  BY StatusRange DEF RoundRecord

\* Requests and votes.
LEMMA EventSaves ==
  ASSUME Inv, TimeInv, PromptInv', SaveInv, NEW r \in Rounds, EventStep(r)
  PROVE  SaveInv'
  <1> USE DEF process, chain, storage
  <1>0. /\ rd[r] \in RoundRecord /\ InPhase(r, rd[r], timer[r], sub[r].stage)
        /\ r \in Nat /\ clock \in Nat
    BY SavedNow
  <1>1. Own(r) /\ timer[r] # 0
    <2>1. timer[r] # 0
      BY DEF EventStep, AddAttestation, AttestationProcessed, RegisterBitVote, CloseByBlock, Live
    <2> QED
      BY <2>1, SavedNow
  <1>2. ASSUME NEW i \in Requests, NEW v \in RequestStatus,
               \/ CountAndPrepare(r, [rd[r] EXCEPT !.att[i] = v], timer)
               \/ SetRound(r, [rd[r] EXCEPT !.att[i] = v]) /\ UNCHANGED timer
        PROVE  SaveInv'
    <2> DEFINE s == [rd[r] EXCEPT !.att[i] = v]
    <2>1. /\ s \in RoundRecord /\ s.tally = rd[r].tally /\ s.phase = rd[r].phase
          /\ s.status = rd[r].status /\ s.masked = rd[r].masked /\ s.chosen = rd[r].chosen
      BY <1>0, RequestFields
    <2>2. \/ CountAndPrepare(r, s, timer)
          \/ rd' = [rd EXCEPT ![r] = s]
             /\ UNCHANGED <<clock, up, startRound, tx, sub, db, dbWrites, timer>>
      BY <1>2 DEF SetRound
    <2> HIDE DEF s
    <2>3. InPhase(r, s, timer[r], sub[r].stage)
      BY <1>0, <2>1 DEF InPhase
    <2> QED
      BY <1>1, <2>1, <2>2, <2>3, CountAndPrepareSaves, RoundKeeps
  <1>3. CASE AddAttestation(r)
    BY <1>2, <1>3 DEF AddAttestation, RequestStatus
  <1>4. ASSUME NEW i \in Requests, NEW verdict \in Verdicts, AttestationProcessed(r, i, verdict)
        PROVE  SaveInv'
    <2>1. StatusOf(verdict) \in RequestStatus
      BY DEF StatusOf, RequestStatus
    <2> QED
      BY <1>2, <1>4, <2>1 DEF AttestationProcessed
  <1>5. CASE RegisterBitVote(r)
    <2>1. PICK v \in Roots : SetRound(r, [rd[r] EXCEPT !.tally = v])
      BY <1>5 DEF RegisterBitVote
    <2>2. /\ UNCHANGED timer /\ clock >= StagesPerWindow * (r + 1)
          /\ ~(rd[r].status >= CommitDataPrepared)
      <3>1. clock >= 5 * r + 5 /\ rd[r].status < 3
        BY <1>0, <1>5, DueTimes, TimerNumbers, Statuses DEF RegisterBitVote, RoundRecord
      <3> QED
        BY <1>0, <1>5, <3>1, Statuses DEF RegisterBitVote, StagesPerWindow, RoundRecord
    <2> DEFINE s == [rd[r] EXCEPT !.tally = v]
    <2>3. s.phase = rd[r].phase /\ s.status = rd[r].status
      BY <1>0, RecordFields
    <2>4. rd' = [rd EXCEPT ![r] = s] /\ UNCHANGED <<clock, up, startRound, tx, sub, db, dbWrites>>
      BY <2>1 DEF SetRound
    <2> HIDE DEF s
    <2>5. InPhase(r, s, timer'[r], sub[r].stage)
      BY <1>0, <2>2, <2>3 DEF InPhase
    <2> QED
      BY <1>1, <2>2, <2>4, <2>5, RoundKeeps
  <1>6. CASE CloseByBlock(r)
    <2> DEFINE s == [rd[r] EXCEPT !.status = BitVotingClosed]
    <2>1. CountAndPrepare(r, s, timer) /\ rd[r].status < BitVotingClosed
      BY <1>6 DEF CloseByBlock, CloseBitVoting
    <2>2. /\ s \in RoundRecord /\ s.tally = rd[r].tally /\ s.phase = rd[r].phase
          /\ s.status = BitVotingClosed
      BY <1>0, ClosedFields
    <2> HIDE DEF s
    <2>3. InPhase(r, s, timer[r], sub[r].stage) /\ ~(rd[r].status >= CommitDataPrepared)
      BY <1>0, <2>1, <2>2, Statuses DEF InPhase, RoundRecord
    <2> QED
      BY <1>1, <2>1, <2>2, <2>3, CountAndPrepareSaves
  <1> QED
    BY <1>3, <1>4, <1>5, <1>6 DEF EventStep

\* The timers that start no submission.
LEMMA TimerSaves ==
  ASSUME Inv, TimeInv, PromptInv', SaveInv, NEW r \in Rounds,
         \/ OnChoosePhaseStart(r) \/ OnSubmitBitVote(r) \/ OnCommitPhaseStart(r)
         \/ ForceClose(r) \/ OnRevealPhaseStart(r) \/ OnFinalisePhaseStart(r)
  PROVE  SaveInv'
  <1> USE DEF process, chain, storage
  <1>0. /\ rd[r] \in RoundRecord /\ InPhase(r, rd[r], timer[r], sub[r].stage)
        /\ r \in Nat /\ clock \in Nat
    BY SavedNow
  <1>1. \A t \in 1..8 : Fires(r, t) =>
          /\ Own(r) /\ timer[r] = t /\ clock = Due(r, t)
          /\ Rearmed(r, t)[r] = NextTimer(r, t)
          /\ \A q \in Rounds \ {r} : Rearmed(r, t)[q] = timer[q]
    BY SavedNow DEF Fires, Rearmed, Inv, OtherTypes
  <1>2. CASE OnChoosePhaseStart(r)
    <2> DEFINE s == [rd[r] EXCEPT !.phase = "choose"]
    <2>1. /\ Fires(r, 1) /\ rd' = [rd EXCEPT ![r] = s] /\ timer' = Rearmed(r, 1)
          /\ UNCHANGED <<clock, up, startRound, tx, sub, db, dbWrites>>
      BY <1>2, TimerNumbers DEF OnChoosePhaseStart, SetRound
    <2>a. /\ Own(r) /\ timer[r] = 1 /\ timer'[r] = NextTimer(r, 1)
          /\ \A q \in Rounds \ {r} : timer'[q] = timer[q]
      BY <1>1, <2>1
    <2>2. /\ s.tally = rd[r].tally /\ s.phase = "choose" /\ s.status = rd[r].status
          /\ s.masked = rd[r].masked /\ s.chosen = rd[r].chosen
      BY <1>0, RecordFields
    <2> HIDE DEF s
    <2>3. InPhase(r, s, timer'[r], sub[r].stage)
      BY <1>0, <2>a, <2>2, TimerNumbers DEF InPhase, NextTimer
    <2> QED
      BY <2>a, <2>1, <2>2, <2>3, RoundKeeps
  <1>3. CASE OnSubmitBitVote(r)
    <2> DEFINE s == [rd[r] EXCEPT !.vote = ValidIn(rd[r])]
    <2>1. /\ Fires(r, 2) /\ rd' = [rd EXCEPT ![r] = s] /\ timer' = Rearmed(r, 2)
          /\ UNCHANGED <<clock, up, startRound, tx, sub, db, dbWrites>>
      BY <1>3, TimerNumbers DEF OnSubmitBitVote, SetRound
    <2>a. /\ Own(r) /\ timer[r] = 2 /\ timer'[r] = NextTimer(r, 2)
          /\ \A q \in Rounds \ {r} : timer'[q] = timer[q]
      BY <1>1, <2>1
    <2>2. ValidIn(rd[r]) \in Roots
      BY DEF ValidIn, Roots
    <2>3. /\ s.tally = rd[r].tally /\ s.phase = rd[r].phase /\ s.status = rd[r].status
          /\ s.masked = rd[r].masked /\ s.chosen = rd[r].chosen
      BY <1>0, <2>2, RecordFields
    <2> HIDE DEF s
    <2>4. InPhase(r, s, timer'[r], sub[r].stage)
      BY <1>0, <2>a, <2>3, TimerNumbers DEF InPhase, NextTimer
    <2> QED
      BY <2>a, <2>1, <2>3, <2>4, RoundKeeps
  <1>4. CASE OnCommitPhaseStart(r)
    <2> DEFINE u == [rd[r] EXCEPT !.phase = "commit"]
               s == TryPrepare(u)
    <2>1. /\ Fires(r, 3) /\ rd' = [rd EXCEPT ![r] = s] /\ timer' = Rearmed(r, 3)
          /\ UNCHANGED <<clock, up, startRound, tx, sub, db, dbWrites>>
      BY <1>4, TimerNumbers DEF OnCommitPhaseStart, SetRound
    <2>a. /\ Own(r) /\ timer[r] = 3 /\ timer'[r] = NextTimer(r, 3)
          /\ \A q \in Rounds \ {r} : timer'[q] = timer[q]
      BY <1>1, <2>1
    <2>2. /\ u \in RoundRecord /\ u.tally = rd[r].tally /\ u.phase = "commit"
          /\ u.status = rd[r].status /\ u.masked = rd[r].masked /\ u.chosen = rd[r].chosen
      BY <1>0, RecordFields
    <2> HIDE DEF u
    <2>3. /\ s.tally = u.tally /\ s.phase = u.phase
          /\ s.status = CommitDataPrepared \/ s.status = u.status
          /\ u.status # Chosen => s = u
      BY <2>2 DEF TryPrepare, Abstain, RoundRecord
    <2> HIDE DEF s
    <2>4. InPhase(r, s, timer'[r], sub[r].stage)
      BY <1>0, <2>a, <2>2, <2>3, Statuses DEF InPhase
    <2>5. rd[r].status >= CommitDataPrepared => s = u
      BY <2>2, <2>3, Statuses
    <2> QED
      BY <2>a, <2>1, <2>2, <2>4, <2>5, RoundKeeps
  <1>5. CASE ForceClose(r)
    <2> DEFINE s == [rd[r] EXCEPT !.status = BitVotingClosed]
               timers == Rearmed(r, 4)
    <2>1. Fires(r, 4) /\ CloseBitVoting(r, timers)
      BY <1>5, TimerNumbers DEF ForceClose
    <2>2. /\ Own(r) /\ timer[r] = 4 /\ \A q \in Rounds \ {r} : timers[q] = timer[q]
      BY <1>1, <2>1
    <2>3. /\ s \in RoundRecord /\ s.tally = rd[r].tally /\ s.phase = rd[r].phase
          /\ s.status = BitVotingClosed
      BY <1>0, ClosedFields
    <2>4. \/ rd[r].status < BitVotingClosed /\ CountAndPrepare(r, s, timers)
          \/ rd' = [rd EXCEPT ![r] = rd[r]] /\ timer' = timers
             /\ UNCHANGED <<clock, up, startRound, tx, sub, db, dbWrites>>
      BY <2>1 DEF CloseBitVoting, SetRound
    <2>5. rd[r].phase \notin {"collect", "choose"}
      BY <1>0, <2>2, TimerNumbers DEF InPhase
    <2> HIDE DEF s, timers
    <2>6. InPhase(r, s, timers[r], sub[r].stage) /\ InPhase(r, rd[r], timers[r], sub[r].stage)
      BY <1>0, <2>3, <2>5, Statuses DEF InPhase
    <2>7. rd[r].status < BitVotingClosed => ~(rd[r].status >= CommitDataPrepared)
      BY <1>0, Statuses DEF RoundRecord
    <2>8. CASE rd[r].status < BitVotingClosed /\ CountAndPrepare(r, s, timers)
      BY <2>2, <2>3, <2>6, <2>7, <2>8, CountAndPrepareSaves
    <2>9. CASE rd' = [rd EXCEPT ![r] = rd[r]] /\ timer' = timers
               /\ UNCHANGED <<clock, up, startRound, tx, sub, db, dbWrites>>
      BY <2>2, <2>6, <2>9, RoundKeeps
    <2> QED
      BY <2>4, <2>8, <2>9
  <1>6. CASE OnRevealPhaseStart(r)
    <2> DEFINE s == [rd[r] EXCEPT !.phase = "reveal"]
    <2>1. /\ Fires(r, 6) /\ rd' = [rd EXCEPT ![r] = s] /\ timer' = Rearmed(r, 6)
          /\ UNCHANGED <<clock, up, startRound, tx, sub, db, dbWrites>>
      BY <1>6, TimerNumbers DEF OnRevealPhaseStart, SetRound
    <2>a. /\ Own(r) /\ timer[r] = 6 /\ timer'[r] = NextTimer(r, 6)
          /\ \A q \in Rounds \ {r} : timer'[q] = timer[q]
      BY <1>1, <2>1
    <2>2. /\ s.tally = rd[r].tally /\ s.phase = "reveal" /\ s.status = rd[r].status
          /\ s.masked = rd[r].masked /\ s.chosen = rd[r].chosen
      BY <1>0, RecordFields
    <2>3. clock >= StagesPerWindow * (r + 2)
      <3>1. clock = 5 * r + 10
        BY <1>0, <1>1, <2>1, DueTimes
      <3> QED
        BY <1>0, <3>1 DEF StagesPerWindow
    <2> HIDE DEF s
    <2>4. InPhase(r, s, timer'[r], sub[r].stage)
      BY <1>0, <2>2, <2>3 DEF InPhase
    <2> QED
      BY <2>a, <2>1, <2>2, <2>4, RoundKeeps
  <1>7. CASE OnFinalisePhaseStart(r)
    <2> DEFINE s == [rd[r] EXCEPT !.phase = "finalise"]
    <2>1. /\ Fires(r, 8) /\ rd' = [rd EXCEPT ![r] = s] /\ timer' = Rearmed(r, 8)
          /\ UNCHANGED <<clock, up, startRound, tx, sub, db, dbWrites>>
      BY <1>7, TimerNumbers DEF OnFinalisePhaseStart, SetRound
    <2>a. /\ Own(r) /\ timer[r] = 8 /\ timer'[r] = NextTimer(r, 8)
          /\ \A q \in Rounds \ {r} : timer'[q] = timer[q]
      BY <1>1, <2>1
    <2>2. /\ s.tally = rd[r].tally /\ s.phase = "finalise" /\ s.status = rd[r].status
          /\ s.masked = rd[r].masked /\ s.chosen = rd[r].chosen
      BY <1>0, RecordFields
    <2>3. clock >= StagesPerWindow * (r + 2)
      <3>1. clock = 5 * r + 15
        BY <1>0, <1>1, <2>1, DueTimes
      <3> QED
        BY <1>0, <3>1 DEF StagesPerWindow
    <2> HIDE DEF s
    <2>4. InPhase(r, s, timer'[r], sub[r].stage)
      BY <1>0, <2>2, <2>3 DEF InPhase
    <2> QED
      BY <2>a, <2>1, <2>2, <2>4, RoundKeeps
  <1> QED
    BY <1>2, <1>3, <1>4, <1>5, <1>6, <1>7

\* The continuations of a preparation: each records the root that is chosen.
LEMMA PreparationSaves ==
  ASSUME Inv, TimeInv, PromptInv, PromptInv', SaveInv, NEW r \in Rounds,
         VotesSaved(r) \/ CommitPrepared(r) \/ AbstentionPrepared(r)
  PROVE  SaveInv'
  <1> USE DEF process, chain, storage
  <1>0. /\ rd[r] \in RoundRecord /\ InPhase(r, rd[r], timer[r], sub[r].stage)
        /\ Consistent(rd[r], sub[r].stage) /\ drawn \in Nat
    BY SavedNow, PromptNow
  <1>1. Own(r) /\ sub[r].stage = "none"
    <2>1. ~Quiet(rd[r])
      BY DEF Quiet, VotesSaved, CommitPrepared, AbstentionPrepared
    <2> QED
      BY <1>0, <2>1, PromptNow, SavedNow DEF Consistent
  <1>2. ASSUME NEW w \in Records(r), ~Zeros(w)
        PROVE  clock >= StagesPerWindow * (r + 1) /\ Backs(rd[r], "none", w)
    BY <1>1, <1>2, SavedNow
  <1>3. CASE VotesSaved(r)
    <2> DEFINE s == [rd[r] EXCEPT !.saving = @ - 1, !.drawing = @ + 1, !.root = rd[r].chosen]
    <2>1. /\ rd' = [rd EXCEPT ![r] = s]
          /\ UNCHANGED <<clock, up, startRound, tx, sub, db, dbWrites, timer>>
      BY <1>3, PromptNow DEF VotesSaved, Inv, RoundsSafe
    <2>2. /\ s.tally = rd[r].tally /\ s.phase = rd[r].phase /\ s.status = rd[r].status
          /\ s.masked = rd[r].masked /\ s.chosen = rd[r].chosen
      BY <1>0 DEF RoundRecord
    <2> HIDE DEF s
    <2>3. InPhase(r, s, timer'[r], sub[r].stage)
      BY <1>0, <2>1, <2>2 DEF InPhase
    <2> QED
      BY <1>1, <2>1, <2>2, <2>3, RoundKeeps
  <1>4. CASE CommitPrepared(r)
    <2> DEFINE s == [Committing(rd[r]) EXCEPT !.drawing = @ - 1, !.status = CommitDataPrepared]
    <2>1. /\ rd' = [rd EXCEPT ![r] = s] /\ rd[r].drawing > 0
          /\ dbWrites' = [dbWrites EXCEPT ![r] = @ \cup {Stored(s)}]
          /\ UNCHANGED <<clock, up, startRound, tx, sub, db, timer>>
      BY <1>4 DEF CommitPrepared, SaveRound
    <2>2. /\ s.tally = rd[r].tally /\ s.phase = rd[r].phase /\ s.status = CommitDataPrepared
          /\ s.masked = [root |-> rd[r].root, random |-> Draw] /\ s.chosen = rd[r].chosen
          /\ s.root = rd[r].root
      BY <1>0 DEF RoundRecord, Committing
    <2> HIDE DEF s
    <2>3. rd[r].root = rd[r].chosen /\ rd[r].chosen # {}
      <3>1. Builds(rd[r])
        BY <2>1 DEF Builds
      <3> QED
        BY <1>0, <2>1, <3>1 DEF Consistent
    <2>4. clock >= StagesPerWindow * (r + 1)
      <3>1. rd[r].root = rd[r].tally
        BY <2>3, SafeNow DEF SafeRound, Whole, Zero
      <3> QED
        BY <1>0, <2>3, <3>1 DEF InPhase
    <2>5. s.masked # None /\ s.masked.root = rd[r].chosen /\ Stored(s).root = rd[r].chosen
      <3>1. rd[r].root \in Roots /\ Draw \in Nat
        BY <1>0 DEF RoundRecord, Draw
      <3> QED
        BY <2>2, <2>3, <3>1, HashTyped DEF Stored
    <2>6. \A q \in Rounds \ {r} : dbWrites'[q] = dbWrites[q]
      BY <2>1 DEF Inv, OtherTypes
    <2>7. Records(r)' \subseteq Records(r) \cup {Stored(s)}
      BY <2>1 DEF Records, Inv, OtherTypes
    <2>8. ASSUME NEW w \in Records(r)', ~Zeros(w)
          PROVE  clock >= StagesPerWindow * (r + 1) /\ Backs(s, sub'[r].stage, w)
      <3>1. w.root = rd[r].chosen
        BY <1>2, <2>5, <2>7, <2>8 DEF Backs
      <3> QED
        BY <1>1, <2>1, <2>2, <2>3, <2>4, <2>5, <3>1, Statuses DEF Backs, Zero
    <2>9. InPhase(r, s, timer'[r], sub'[r].stage)
      BY <1>0, <2>1, <2>2, Statuses DEF InPhase
    <2> QED
      BY <1>1, <2>1, <2>6, <2>8, <2>9, RoundSaves
  <1>5. CASE AbstentionPrepared(r)
    <2> DEFINE s == [Abstained(rd[r]) EXCEPT !.abstaining = @ - 1]
    <2>1. /\ rd' = [rd EXCEPT ![r] = s] /\ rd[r].abstaining > 0
          /\ dbWrites' = [dbWrites EXCEPT ![r] = @ \cup {Stored(s)}]
          /\ UNCHANGED <<clock, up, startRound, tx, sub, db, timer>>
      BY <1>5 DEF AbstentionPrepared, SaveRound
    <2>2. /\ s.tally = rd[r].tally /\ s.phase = rd[r].phase /\ s.status = rd[r].status
          /\ s.root = rd[r].root /\ s.random = rd[r].random
      BY <1>0 DEF RoundRecord, Abstained
    <2> HIDE DEF s
    <2>3. rd[r].chosen = Zero /\ Zeros(rd[r])
      BY <1>0, <1>1, <2>1 DEF Consistent, Abstains, Zero
    <2>4. Records(r)' \subseteq Records(r) \cup {Stored(s)} /\ Zeros(Stored(s))
      BY <2>1, <2>2, <2>3 DEF Records, Inv, OtherTypes, Stored, Zeros
    <2>5. \A w \in Records(r)' : Zeros(w)
      BY <1>2, <2>3, <2>4 DEF Backs
    <2>6. \A q \in Rounds \ {r} : dbWrites'[q] = dbWrites[q]
      BY <2>1 DEF Inv, OtherTypes
    <2>7. InPhase(r, s, timer'[r], sub'[r].stage)
      BY <1>0, <2>1, <2>2 DEF InPhase
    <2> QED
      BY <1>1, <2>1, <2>5, <2>6, <2>7, RoundSaves
  <1> QED
    BY <1>3, <1>4, <1>5

\* A submission goes on without a record of its round, or with those it had.
LEMMA StageSaves ==
  ASSUME Inv, TimeInv, PromptInv', SaveInv, NEW r \in Rounds, NEW s, NEW g, Own(r),
         rd' = [rd EXCEPT ![r] = s], sub'[r].stage = g, g # "none",
         \A q \in Rounds \ {r} : sub'[q] = sub[q],
         \A q \in Rounds : timer'[q] = timer[q] \/ timer[q] > CommitTimer,
         \A q \in Rounds : db'[q] \in Records(q),
         UNCHANGED <<clock, up, startRound, tx, dbWrites>>,
         s.tally = rd[r].tally, s.phase = rd[r].phase,
         \/ \A w \in Records(r)' : Zeros(w)
         \/ /\ sub'[r].write = sub[r].write /\ g \notin {"abstaining", "rejecting"}
            /\ s = rd[r]
  PROVE  SaveInv'
  <1>1. rd'[r] = s /\ \A q \in Rounds \ {r} : rd'[q] = rd[q]
    BY DEF Inv, RoundsSafe
  <1>2. RootsMatch'
    BY DEF SaveInv, RootsMatch, Zeros
  <1>3. ASSUME NEW q \in Rounds
        PROVE  /\ InPhase(q, rd'[q], timer'[q], sub'[q].stage)
               /\ ~Own(q) => tx'[q + 1] = tx[q + 1] /\ Records(q)' \subseteq Records(q)
               /\ Own(q) => \A w \in Records(q)' : ~Zeros(w) =>
                    clock >= StagesPerWindow * (q + 1) /\ Backs(rd'[q], sub'[q].stage, w)
    <2>1. rd'[q].tally = rd[q].tally /\ rd'[q].phase = rd[q].phase
      BY <1>1
    <2>2. sub'[q].stage = "none" => sub[q].stage = "none" /\ rd'[q] = rd[q]
      BY <1>1
    <2>3. InPhase(q, rd[q], timer[q], sub[q].stage) /\ timer[q] \in 0..9
      BY SavedNow, TimerNumbers DEF Inv, OtherTypes
    <2>4. InPhase(q, rd'[q], timer'[q], sub'[q].stage)
      BY <2>1, <2>2, <2>3, TimerNumbers DEF InPhase
    <2>5. sub'[q].write = sub[q].write => Records(q)' \subseteq Records(q)
      BY DEF Records
    <2>6. \A w \in Records(q) : ~Zeros(w) /\ Own(q) =>
            clock >= StagesPerWindow * (q + 1) /\ Backs(rd[q], sub[q].stage, w)
      BY SavedNow
    <2>7. CASE q # r
      BY <1>1, <2>4, <2>5, <2>6, <2>7
    <2>8. CASE q = r /\ \A w \in Records(r)' : Zeros(w)
      BY <2>4, <2>8
    <2>9. CASE q = r /\ sub'[r].write = sub[r].write /\ g \notin {"abstaining", "rejecting"}
               /\ s = rd[r]
      BY <1>1, <2>4, <2>5, <2>6, <2>9 DEF Backs
    <2> QED
      BY <2>7, <2>8, <2>9
  <1> QED
    BY <1>2, <1>3, SaveKept

\* The receipt or a transaction that is left out changes the status of rounds
\* whose submission has started.
LEMMA StatusSaves ==
  ASSUME Inv, TimeInv, PromptInv', SaveInv, NEW r \in Rounds, Own(r),
         sub'[r].stage = "done", sub'[r].write = sub[r].write,
         sub[r].stage \notin {"abstaining", "rejecting"},
         \A q \in Rounds \ {r} : sub'[q] = sub[q],
         \A q \in Rounds : timer'[q] = timer[q] \/ timer[q] > CommitTimer,
         \A q \in Rounds : db'[q] \in Records(q),
         UNCHANGED <<clock, up, startRound, tx, dbWrites>>,
         \A q \in Rounds : rd'[q] = rd[q] \/
            /\ sub[q].stage # "none"
            /\ \E v \in {Committed, Revealed, Error} : rd'[q] = [rd[q] EXCEPT !.status = v]
  PROVE  SaveInv'
  <1>1. RootsMatch'
    BY DEF SaveInv, RootsMatch, Zeros
  <1>2. ASSUME NEW q \in Rounds
        PROVE  /\ InPhase(q, rd'[q], timer'[q], sub'[q].stage)
               /\ ~Own(q) => tx'[q + 1] = tx[q + 1] /\ Records(q)' \subseteq Records(q)
               /\ Own(q) => \A w \in Records(q)' : ~Zeros(w) =>
                    clock >= StagesPerWindow * (q + 1) /\ Backs(rd'[q], sub'[q].stage, w)
    <2>1. InPhase(q, rd[q], timer[q], sub[q].stage) /\ timer[q] \in 0..9 /\ rd[q] \in RoundRecord
      BY SavedNow, TimerNumbers DEF Inv, OtherTypes
    <2>2. /\ rd'[q].tally = rd[q].tally /\ rd'[q].phase = rd[q].phase
          /\ rd'[q].masked = rd[q].masked /\ rd'[q].chosen = rd[q].chosen
          /\ sub[q].stage = "none" => rd'[q] = rd[q]
          /\ rd'[q].status = rd[q].status \/ rd'[q].status >= CommitDataPrepared
      <3>1. CASE rd'[q] = rd[q]
        BY <3>1
      <3>2. ASSUME NEW v \in {Committed, Revealed, Error}, sub[q].stage # "none",
                   rd'[q] = [rd[q] EXCEPT !.status = v]
            PROVE  /\ rd'[q].tally = rd[q].tally /\ rd'[q].phase = rd[q].phase
                   /\ rd'[q].masked = rd[q].masked /\ rd'[q].chosen = rd[q].chosen
                   /\ rd'[q].status >= CommitDataPrepared
        <4>1. v >= CommitDataPrepared
          BY Statuses
        <4> QED
          BY <2>1, <3>2, <4>1 DEF RoundRecord
      <3> QED
        BY <3>1, <3>2
    <2>3. sub'[q].stage = "none" <=> sub[q].stage = "none" /\ q # r
      OBVIOUS
    <2>4. InPhase(q, rd'[q], timer'[q], sub'[q].stage)
      BY <2>1, <2>2, <2>3, TimerNumbers DEF InPhase
    <2>5. Records(q)' \subseteq Records(q)
      BY DEF Records
    <2>6. ASSUME NEW w \in Records(q), ~Zeros(w), Own(q)
          PROVE  clock >= StagesPerWindow * (q + 1) /\ Backs(rd'[q], sub'[q].stage, w)
      <3>1. clock >= StagesPerWindow * (q + 1) /\ Backs(rd[q], sub[q].stage, w)
        BY <2>6, SavedNow
      <3>2. sub'[q].stage \notin {"abstaining", "rejecting"}
        BY <3>1 DEF Backs
      <3>3. rd'[q].status >= CommitDataPrepared
        BY <2>2, <3>1 DEF Backs
      <3> QED
        BY <2>2, <2>3, <3>1, <3>2, <3>3 DEF Backs
    <2> QED
      BY <2>4, <2>5, <2>6
  <1> QED
    BY <1>1, <1>2, SaveKept

\* A transaction reveals the root that was committed: of a round of the process
\* itself, or the one that the database has of the round before its first.
LEMMA SubmitSaves ==
  ASSUME Inv, TimeInv, PromptInv, PromptInv', SaveInv, NEW r \in Rounds, NEW root, NEW random,
         NEW timers, Own(r), Unsent(r), sub[r].stage \notin {"abstaining", "rejecting"},
         \A q \in Rounds : timers[q] = timer[q] \/ timer[q] > CommitTimer,
         \A q \in Rounds : db'[q] \in Records(q),
         r = startRound /\ r > 0 => root = db[r - 1].root /\ random = db[r - 1].random,
         Submit(r, root, random, timers)
  PROVE  SaveInv'
  <1> DEFINE t == [masked |-> rd[r].masked, root |-> root, random |-> random]
  <1>1. CASE rd[r].masked = None
    BY <1>1, ExitSaves DEF Submit
  <1>2. CASE rd[r].masked # None
    <2>1. /\ tx' = [tx EXCEPT ![r + 1] = t]
          /\ sub' = [sub EXCEPT ![r].stage = "sent"]
          /\ timer' = timers /\ UNCHANGED <<clock, up, startRound, rd, dbWrites>>
      BY <1>2 DEF Submit, process
    <2>2. t.root = root /\ t.random = random
      OBVIOUS
    <2> HIDE DEF t
    <2>3. r \in Nat /\ startRound \in Nat /\ r + 1 \in Buffers /\ up /\ startRound <= r
      BY RoundsAndBuffers DEF Inv, OtherTypes, Own
    <2>4. tx'[r + 1] = t /\ \A b \in Buffers \ {r + 1} : tx'[b] = tx[b]
      BY <2>1, <2>3 DEF Inv, OtherTypes
    <2>5. /\ sub'[r].stage = "sent" /\ sub'[r].write = sub[r].write
          /\ \A q \in Rounds \ {r} : sub'[q] = sub[q]
      BY <2>1 DEF Inv, OtherTypes, SubmissionRecord
    <2>6. \A q \in Rounds :
            /\ q \in Nat /\ q + 1 \in Buffers /\ (q + 1 \in Rounds => q + 2 \in Buffers)
            /\ (q + 1 = r + 1 <=> q = r) /\ (q + 2 = r + 1 <=> q = r - 1)
      BY <2>3, RoundsAndBuffers DEF Rounds, Buffers
    <2>7. RootsMatch'
      <3> SUFFICES ASSUME NEW q \in Rounds, q + 1 \in Rounds,
                          tx'[q + 1] # None, tx'[q + 2] # None
                   PROVE  Zeros(tx'[q + 2]) \/ tx'[q + 1].masked.root = tx'[q + 2].root
        BY DEF RootsMatch, Zeros
      <3>1. CASE startRound <= q
        <4>1. \/ Zeros(tx'[q + 2])
              \/ tx'[q + 1].masked = [root |-> tx'[q + 2].root, random |-> tx'[q + 2].random]
          BY <2>1, <3>1 DEF PromptInv, OwnReveals, Zeros
        <4> QED
          BY <4>1
      <3>2. CASE ~(startRound <= q) /\ q = r - 1
        <4>1. r = startRound /\ r > 0
          BY <2>3, <2>6, <3>2
        <4>2. tx'[q + 1] = tx[q + 1] /\ tx'[q + 2] = t
          BY <2>3, <2>4, <2>6, <3>2
        <4>3. t.root = db[q].root /\ t.random = db[q].random
          BY <2>2, <3>2, <4>1
        <4>4. ~Zeros(db[q]) => tx[q + 1].masked.root = db[q].root
          BY <4>2 DEF SaveInv, RecordsCommitted, Records
        <4> QED
          BY <4>2, <4>3, <4>4 DEF Zeros
      <3>3. CASE ~(startRound <= q) /\ q # r - 1
        <4>1. tx'[q + 1] = tx[q + 1] /\ tx'[q + 2] = tx[q + 2]
          BY <2>3, <2>4, <2>6, <3>3
        <4> QED
          BY <4>1 DEF SaveInv, RootsMatch
      <3> QED
        BY <3>1, <3>2, <3>3
    <2>8. ASSUME NEW q \in Rounds
          PROVE  /\ InPhase(q, rd'[q], timer'[q], sub'[q].stage)
                 /\ ~Own(q) => tx'[q + 1] = tx[q + 1] /\ Records(q)' \subseteq Records(q)
                 /\ Own(q) => \A w \in Records(q)' : ~Zeros(w) =>
                      clock >= StagesPerWindow * (q + 1) /\ Backs(rd'[q], sub'[q].stage, w)
      <3>1. InPhase(q, rd[q], timer[q], sub[q].stage) /\ timer[q] \in 0..9
        BY SavedNow, TimerNumbers DEF Inv, OtherTypes
      <3>2. InPhase(q, rd'[q], timer'[q], sub'[q].stage)
        BY <2>1, <2>5, <3>1, TimerNumbers DEF InPhase
      <3>3. Records(q)' \subseteq Records(q)
        BY <2>1, <2>5 DEF Records
      <3>4. ASSUME NEW w \in Records(q), ~Zeros(w), Own(q)
            PROVE  clock >= StagesPerWindow * (q + 1) /\ Backs(rd'[q], sub'[q].stage, w)
        <4>1. clock >= StagesPerWindow * (q + 1) /\ Backs(rd[q], sub[q].stage, w)
          BY <3>4, SavedNow
        <4> QED
          BY <2>1, <2>5, <4>1 DEF Backs
      <3>5. ~Own(q) => tx'[q + 1] = tx[q + 1]
        BY <2>3, <2>4, <2>6
      <3> QED
        BY <3>2, <3>3, <3>4, <3>5
    <2> QED
      BY <2>1, <2>7, <2>8, SaveKept
  <1> QED
    BY <1>1, <1>2

\* The rest of the submission of a round that has a round before it.
LEMMA SubmitLinkedSaves ==
  ASSUME Inv, TimeInv, PromptInv, PromptInv', SaveInv, NEW r \in Rounds, NEW canReveal,
         NEW timers, Own(r), Linked(r), Unsent(r),
         sub[r].stage \notin {"abstaining", "rejecting"}, clock = CommitDue(r),
         \A q \in Rounds : timers[q] = timer[q] \/ timer[q] > CommitTimer,
         \A q \in Rounds : db'[q] \in Records(q),
         SubmitLinked(r, canReveal, timers)
  PROVE  SaveInv'
  <1>1. r \in Nat /\ startRound \in Nat /\ clock \in Nat /\ r # startRound
    BY RoundsAndBuffers DEF Inv, OtherTypes, Linked
  <1>2. CASE ShouldSubmit(r)
    BY <1>1, <1>2, SubmitSaves DEF SubmitLinked
  <1>3. CASE ~ShouldSubmit(r)
    <2>1. /\ rd' = [rd EXCEPT ![r - 1].status = Revealed]
          /\ sub' = [sub EXCEPT ![r].stage = "done"]
          /\ timer' = timers /\ UNCHANGED <<clock, up, startRound, tx, dbWrites>>
      BY <1>3 DEF SubmitLinked, process, chain
    <2>2. r - 1 \in Rounds /\ sub[r - 1].stage # "none"
      BY <1>1, PreviousStarted
    <2>3. \A q \in Rounds : rd'[q] = rd[q] \/
            /\ sub[q].stage # "none"
            /\ \E v \in {Committed, Revealed, Error} : rd'[q] = [rd[q] EXCEPT !.status = v]
      BY <2>1, <2>2 DEF Inv, RoundsSafe
    <2>4. /\ sub'[r].stage = "done" /\ sub'[r].write = sub[r].write
          /\ \A q \in Rounds \ {r} : sub'[q] = sub[q]
      BY <2>1 DEF Inv, OtherTypes, SubmissionRecord
    <2> QED
      BY <2>1, <2>3, <2>4, StatusSaves
  <1> QED
    BY <1>2, <1>3

\* A round that gives up its commit when it is due has recorded no root.
LEMMA GiveUpSaves ==
  ASSUME Inv, TimeInv, PromptInv', SaveInv, NEW r \in Rounds, NEW reject \in BOOLEAN,
         NEW canReveal, NEW timers, sub[r].stage = "none", Own(r), timer[r] # 0,
         clock = CommitDue(r), ~CanCommit(rd[r]), UNCHANGED db,
         \A q \in Rounds : timers[q] = timer[q] \/ timer[q] > CommitTimer,
         GiveUpCommit(r, reject, canReveal, timers)
  PROVE  SaveInv'
  <1> DEFINE s == IF reject THEN [rd[r] EXCEPT !.status = CommitDataPrepared, !.root = Zero]
                  ELSE Abstain(rd[r])
             g == IF reject THEN "rejecting" ELSE "abstaining"
             u == [stage |-> g, canReveal |-> canReveal, write |-> None]
  <1>1. /\ rd' = [rd EXCEPT ![r] = s] /\ sub' = [sub EXCEPT ![r] = u]
        /\ timer' = timers /\ UNCHANGED <<clock, up, startRound, tx, dbWrites>>
    BY DEF GiveUpCommit, process, chain
  <1>2. g # "none" /\ u.stage = g /\ u.write = None
    OBVIOUS
  <1>3. s.tally = rd[r].tally /\ s.phase = rd[r].phase
    BY SavedNow DEF Abstain, RoundRecord
  <1> HIDE DEF s, g, u
  <1>4. sub'[r] = u /\ \A q \in Rounds \ {r} : sub'[q] = sub[q]
    BY <1>1 DEF Inv, OtherTypes
  <1>5. Records(r)' \subseteq Records(r)
    BY <1>1, <1>2, <1>4 DEF Records
  <1>6. ASSUME NEW w \in Records(r), ~Zeros(w) PROVE FALSE
    <2>1. /\ Backs(rd[r], "none", w) /\ InPhase(r, rd[r], timer[r], "none")
          /\ rd[r] \in RoundRecord /\ r \in Nat /\ clock \in Nat
      BY <1>6, SavedNow
    <2>2. rd[r].status = CommitDataPrepared
      BY <2>1, Statuses DEF Backs, InPhase, RoundRecord
    <2>3. clock = 5 * r + 9 /\ timer[r] \in 1..9
      BY <2>1, DueTimes, TimerNumbers DEF Inv, OtherTypes
    <2>4. timer[r] > CommitTimer
      <3>1. timer[r] <= 8 => clock <= Due(r, timer[r])
        BY <2>3, TimerNumbers DEF TimeInv, TimersInStep
      <3>2. Due(r, 1) = 5 * r + 5 /\ Due(r, 2) = 5 * r + 6 /\ Due(r, 3) = 5 * r + 7
        BY <2>1, DueTimes
      <3>3. timer[r] # 1 /\ timer[r] # 2 /\ timer[r] # 3
        BY <2>1, <2>3, <3>1, <3>2
      <3> QED
        BY <2>3, <3>3, TimerNumbers
    <2>5. ~(timer[r] <= CommitTimer) /\ ~(clock >= StagesPerWindow * (r + 2))
      BY <2>1, <2>3, <2>4, TimerNumbers DEF StagesPerWindow
    <2>6. rd[r].phase = "commit"
      BY <2>1, <2>5 DEF InPhase, RoundRecord
    <2> QED
      BY <2>2, <2>6 DEF CanCommit
  <1>7. \A w \in Records(r)' : Zeros(w)
    BY <1>5, <1>6
  <1>8. \A q \in Rounds : db'[q] \in Records(q)
    BY DEF Records
  <1>9. /\ sub'[r].stage = g
        /\ \A q \in Rounds : timer'[q] = timer[q] \/ timer[q] > CommitTimer
    BY <1>1, <1>2, <1>4
  <1> QED
    BY <1>1, <1>2, <1>3, <1>4, <1>7, <1>8, <1>9, StageSaves

\* A submission starts, goes on, or waits for its receipt.
LEMMA SubmissionSaves ==
  ASSUME Prompt, Inv, TimeInv, PromptInv, PromptInv', SaveInv, NEW r \in Rounds,
         \/ OnFirstCommit(r) \/ OnSubmitAttestation(r) \/ RandomDrawn(r)
         \/ GiveUpStored(r) \/ PreviousRoundRead(r) \/ SubmissionReturned(r)
  PROVE  SaveInv'
  <1> USE DEF process, storage, chain
  <1>0. /\ r \in Nat /\ startRound \in Nat /\ clock \in Nat
        /\ rd[r] \in RoundRecord /\ Consistent(rd[r], sub[r].stage)
        /\ sub[r] \in SubmissionRecord
    BY RoundsAndBuffers, PromptNow DEF Inv, OtherTypes
  <1>1. rd = [rd EXCEPT ![r] = rd[r]]
    BY DEF Inv, RoundsSafe
  <1>2. UNCHANGED db => \A q \in Rounds : db'[q] \in Records(q)
    BY DEF Records
  <1>3. ASSUME NEW p \in Rounds, NEW t \in {5, 7}, timer[p] = t
        PROVE  \A q \in Rounds : Rearmed(p, t)[q] = timer[q] \/ timer[q] > CommitTimer
    BY <1>3, TimerNumbers DEF Rearmed, Inv, OtherTypes
  <1>4. CASE OnFirstCommit(r)
    <2>1. timer[r] = 5 /\ clock = Due(r, 5) /\ UNCHANGED db
      BY <1>4, TimerNumbers DEF OnFirstCommit, Fires
    <2>2. r = startRound /\ clock = CommitDue(r) /\ Own(r)
      <3>1. r = startRound
        BY <2>1, TimerNumbers DEF TimeInv, TimersInStep
      <3>2. clock = CommitDue(r)
        BY <1>0, <2>1, DueTimes
      <3> QED
        BY <2>1, <3>1, <3>2, SavedNow
    <2>3. sub[r].stage = "none"
      <3>1. ~Fired(r)
        BY <1>0, <2>1, <2>2, TimerNumbers DEF Fired
      <3> QED
        BY <3>1 DEF TimeInv, StagesInStep
    <2>4. \A q \in Rounds : Rearmed(r, 5)[q] = timer[q] \/ timer[q] > CommitTimer
      BY <1>3, <2>1
    <2>5. CASE CanCommit(rd[r])
      <3>1. /\ sub' = [sub EXCEPT ![r].stage = "lookup"] /\ timer' = Rearmed(r, 5) /\ rd' = rd
            /\ UNCHANGED <<clock, up, startRound, tx, dbWrites>>
        BY <1>4, <2>5, TimerNumbers DEF OnFirstCommit
      <3>2. /\ sub'[r].stage = "lookup" /\ sub'[r].write = sub[r].write
            /\ \A q \in Rounds \ {r} : sub'[q] = sub[q]
        BY <3>1 DEF Inv, OtherTypes, SubmissionRecord
      <3> QED
        BY <1>1, <1>2, <2>1, <2>2, <2>4, <3>1, <3>2, StageSaves
    <2>6. CASE ~CanCommit(rd[r])
      <3> DEFINE no == FALSE
      <3>1. GiveUpCommit(r, no, no, Rearmed(r, 5)) /\ no \in BOOLEAN
        BY <1>4, <2>6, TimerNumbers DEF OnFirstCommit
      <3> HIDE DEF no
      <3> QED
        BY <2>1, <2>2, <2>3, <2>4, <2>6, <3>1, GiveUpSaves
    <2> QED
      BY <2>5, <2>6
  <1>5. CASE OnSubmitAttestation(r)
    <2> DEFINE n == r + 1
               canReveal == rd[r].status \in {CommitDataPrepared, Committed}
    <2>1. /\ timer[r] = 7 /\ clock = Due(r, 7) /\ n \in Rounds /\ UNCHANGED db
          /\ timer[n] # 0 /\ n \in Nat /\ n > 0 /\ n - 1 = r
      BY <1>0, <1>5, TimerNumbers, RoundAssumption
      DEF OnSubmitAttestation, Fires, Rounds, Live
    <2>2. startRound <= r /\ Own(n) /\ Linked(n)
      <3>1. startRound <= r
        BY <2>1 DEF TimeInv, TimersInStep
      <3> QED
        BY <1>0, <2>1, <3>1, SavedNow DEF Linked
    <2>3. clock = CommitDue(n)
      <3>1. clock = 5 * r + 14 /\ CommitDue(n) = 5 * n + 9
        BY <1>0, <2>1, DueTimes
      <3> QED
        BY <1>0, <3>1
    <2>4. sub[n].stage = "none"
      <3>1. ~Fired(n)
        BY <1>0, <2>1, <2>2, TimerNumbers DEF Fired
      <3> QED
        BY <2>1, <3>1 DEF TimeInv, StagesInStep
    <2>5. \A q \in Rounds : Rearmed(r, 7)[q] = timer[q] \/ timer[q] > CommitTimer
      BY <1>3, <2>1
    <2>6. \/ CanCommit(rd[n]) /\ SubmitLinked(n, canReveal, Rearmed(r, 7))
          \/ ~CanCommit(rd[n]) /\ GiveUpCommit(n, rd[n].isReject, canReveal, Rearmed(r, 7))
      BY <1>5, TimerNumbers DEF OnSubmitAttestation
    <2> HIDE DEF n, canReveal
    <2>7. CASE SubmitLinked(n, canReveal, Rearmed(r, 7))
      BY <1>2, <2>1, <2>2, <2>3, <2>4, <2>5, <2>7, SubmitLinkedSaves DEF Unsent
    <2>8. CASE ~CanCommit(rd[n]) /\ GiveUpCommit(n, rd[n].isReject, canReveal, Rearmed(r, 7))
      <3>1. rd[n].isReject \in BOOLEAN
        BY <2>1, PromptNow DEF RoundRecord
      <3> QED
        BY <2>1, <2>2, <2>3, <2>4, <2>5, <2>8, <3>1, GiveUpSaves
    <2> QED
      BY <2>6, <2>7, <2>8
  <1>6. CASE RandomDrawn(r)
    <2> DEFINE s == IF sub[r].stage = "abstaining" THEN Abstained(rd[r])
                    ELSE Committing(rd[r])
    <2>1. /\ sub[r].stage \in {"abstaining", "rejecting"} /\ rd' = [rd EXCEPT ![r] = s]
          /\ sub' = [sub EXCEPT ![r].stage = "storing", ![r].write = Stored(s)]
          /\ UNCHANGED <<clock, up, startRound, tx, timer, db, dbWrites>>
      BY <1>6 DEF RandomDrawn
    <2>2. /\ Own(r) /\ rd[r].status >= CommitDataPrepared /\ clock = CommitDue(r)
          /\ InPhase(r, rd[r], timer[r], sub[r].stage)
      BY <2>1, Started, SavedNow DEF Preparing
    <2>3. clock >= StagesPerWindow * (r + 1)
      BY <1>0, <2>2, DueTimes DEF CommitDue
    <2>4. \A w \in Records(r) : Zeros(w)
      BY <2>1, <2>2, SavedNow DEF Backs
    <2>5. /\ s.tally = rd[r].tally /\ s.phase = rd[r].phase /\ s.status = rd[r].status
          /\ s.root = rd[r].root
          /\ sub[r].stage = "abstaining" => s.random = rd[r].random
          /\ sub[r].stage = "rejecting" => s.masked = [root |-> rd[r].root, random |-> Draw]
      BY <1>0, <2>1 DEF RoundRecord, Abstained, Committing
    <2> HIDE DEF s
    <2>6. /\ sub'[r].stage = "storing" /\ sub'[r].write = Stored(s)
          /\ \A q \in Rounds \ {r} : sub'[q] = sub[q]
      BY <2>1 DEF Inv, OtherTypes, SubmissionRecord
    <2>7. Records(r)' \subseteq Records(r) \cup {Stored(s)}
      BY <2>1, <2>6 DEF Records
    <2>8. Zeros(Stored(s)) \/ Backs(s, "storing", Stored(s))
      <3>1. CASE sub[r].stage = "abstaining"
        BY <1>0, <2>5, <3>1 DEF Consistent, Abstains, Zeros, Stored
      <3>2. CASE sub[r].stage = "rejecting"
        <4>1. rd[r].root \in Roots /\ Draw \in Nat
          BY <1>0, PromptNow DEF RoundRecord, Draw
        <4> QED
          BY <2>2, <2>5, <3>2, <4>1, HashTyped DEF Backs, Stored
      <3> QED
        BY <2>1, <3>1, <3>2
    <2>9. \A w \in Records(r)' : ~Zeros(w) =>
            clock >= StagesPerWindow * (r + 1) /\ Backs(s, sub'[r].stage, w)
      BY <2>3, <2>4, <2>6, <2>7, <2>8
    <2>10. InPhase(r, s, timer'[r], sub'[r].stage)
      BY <2>1, <2>2, <2>5, <2>6 DEF InPhase
    <2> QED
      BY <2>1, <2>2, <2>6, <2>9, <2>10, RoundSaves
  <1>7. CASE GiveUpStored(r)
    <2>1. /\ sub[r].stage = "storing" /\ db' \in {db, [db EXCEPT ![r] = sub[r].write]}
          /\ Own(r) /\ clock = CommitDue(r) /\ Unsent(r)
      BY <1>7, Started DEF GiveUpStored, Preparing, Unsent
    <2>2. \A q \in Rounds : db'[q] \in Records(q)
      <3>1. sub[r].write # None
        BY <2>1, HashTyped, RoundAssumption DEF Inv, StorageSafe
      <3> QED
        BY <2>1, <3>1 DEF Records, Inv, OtherTypes
    <2>3. CASE Linked(r)
      <3>1. SubmitLinked(r, sub[r].canReveal, timer)
        BY <1>7, <2>3 DEF GiveUpStored
      <3> QED
        BY <2>1, <2>2, <2>3, <3>1, SubmitLinkedSaves
    <2>4. CASE ~Linked(r)
      <3>1. /\ sub' = [sub EXCEPT ![r].stage = "lookup"] /\ timer' = timer /\ rd' = rd
            /\ UNCHANGED <<clock, up, startRound, tx, dbWrites>>
        BY <1>7, <2>4 DEF GiveUpStored
      <3>2. /\ sub'[r].stage = "lookup" /\ sub'[r].write = sub[r].write
            /\ \A q \in Rounds \ {r} : sub'[q] = sub[q]
        BY <1>0, <3>1 DEF Inv, OtherTypes, SubmissionRecord
      <3> QED
        BY <1>1, <2>1, <2>2, <3>1, <3>2, StageSaves
    <2> QED
      BY <2>3, <2>4
  <1>8. CASE PreviousRoundRead(r)
    <2> DEFINE previous == IF r = 0 THEN [root |-> Zero, random |-> 0] ELSE db[r - 1]
    <2>1. /\ sub[r].stage = "lookup" /\ Submit(r, previous.root, previous.random, timer)
          /\ UNCHANGED db
      BY <1>8 DEF PreviousRoundRead
    <2>2. r > 0 => previous = db[r - 1]
      OBVIOUS
    <2> HIDE DEF previous
    <2>3. Own(r) /\ Unsent(r)
      BY <2>1, Started DEF Preparing, Unsent
    <2> QED
      BY <1>2, <2>1, <2>2, <2>3, SubmitSaves
  <1>9. CASE SubmissionReturned(r)
    <2>1. /\ sub[r].stage = "sent" /\ sub' = [sub EXCEPT ![r].stage = "done"]
          /\ UNCHANGED <<clock, up, startRound, tx, timer, db, dbWrites>>
      BY <1>9 DEF SubmissionReturned
    <2>2. Own(r)
      BY <2>1, StageOwn
    <2>3. /\ sub'[r].stage = "done" /\ sub'[r].write = sub[r].write
          /\ \A q \in Rounds \ {r} : sub'[q] = sub[q]
      BY <2>1 DEF Inv, OtherTypes, SubmissionRecord
    <2> QED
      BY <1>2, <1>9, <2>1, <2>2, <2>3, ReturnedRounds, StatusSaves
  <1> QED
    BY <1>4, <1>5, <1>6, <1>7, <1>8, <1>9

\* Time, restarts, the creation of rounds, the network and the database.
LEMMA OtherSaves ==
  ASSUME Inv, TimeInv, PromptInv', SaveInv,
         \/ AdvanceClock \/ Restart \/ Crash
         \/ \E r \in Rounds : CreateRound(r) \/ RoundSaved(r)
         \/ \E b \in Buffers : TransactionMined(b)
         \/ UNCHANGED vars
  PROVE  SaveInv'
  <1> USE DEF process, storage, chain
  <1>0. \A q \in Rounds : q \in Nat
    BY RoundsAndBuffers
  <1>1. clock \in Nat /\ startRound \in Nat
    BY RoundsAndBuffers DEF Inv, OtherTypes
  \* The rounds of the present window and after it have no root yet.
  <1>2. ASSUME NEW q \in Rounds, Window <= q, NEW w \in Records(q) PROVE Zeros(w)
    <2>1. clock < 5 * (q + 1)
      BY <1>0, <1>1, <1>2 DEF Window, StagesPerWindow
    <2>2. ~(clock >= StagesPerWindow * (q + 1))
      BY <1>0, <1>1, <2>1 DEF StagesPerWindow
    <2> QED
      BY <1>2, <2>2, SavedNow
  <1>3. CASE AdvanceClock
    <2>1. clock' = clock + 1 /\ UNCHANGED <<up, startRound, timer, rd, sub, db, dbWrites, tx>>
      BY <1>3 DEF AdvanceClock
    <2>2. \A q \in Rounds : /\ StagesPerWindow * (q + 1) \in Nat
                            /\ StagesPerWindow * (q + 2) \in Nat
      BY <1>0 DEF StagesPerWindow
    <2>3. PhaseInv'
      BY <1>1, <2>1, <2>2 DEF SaveInv, PhaseInv, InPhase
    <2>4. RecordsCommitted'
      <3> SUFFICES ASSUME NEW q \in Rounds, NEW w \in Records(q), ~Zeros(w)
                   PROVE  /\ clock + 1 >= StagesPerWindow * (q + 1)
                          /\ Own(q) => Backs(rd[q], sub[q].stage, w)
                          /\ tx[q + 1] # None => tx[q + 1].masked.root = w.root
        BY <2>1 DEF RecordsCommitted, Records, Own, Backs, Zeros
      <3>1. /\ clock >= StagesPerWindow * (q + 1)
            /\ Own(q) => Backs(rd[q], sub[q].stage, w)
            /\ tx[q + 1] # None => tx[q + 1].masked.root = w.root
        BY DEF SaveInv, RecordsCommitted
      <3> QED
        BY <1>1, <2>2, <3>1
    <2>5. RootsMatch'
      BY <2>1 DEF SaveInv, RootsMatch, Zeros
    <2> QED
      BY <2>3, <2>4, <2>5 DEF SaveInv
  <1>4. CASE Restart
    <2>1. startRound' = Window /\ UNCHANGED <<clock, timer, rd, sub, db, dbWrites, tx>>
      BY <1>4 DEF Restart
    <2>2. PhaseInv' /\ RootsMatch'
      BY <2>1 DEF SaveInv, PhaseInv, InPhase, RootsMatch, Zeros
    <2>3. RecordsCommitted'
      <3> SUFFICES ASSUME NEW q \in Rounds, NEW w \in Records(q), ~Zeros(w)
                   PROVE  /\ clock >= StagesPerWindow * (q + 1)
                          /\ ~(Window <= q)
                          /\ tx[q + 1] # None => tx[q + 1].masked.root = w.root
        BY <2>1 DEF RecordsCommitted, Records, Own, Zeros
      <3> QED
        BY <1>2 DEF SaveInv, RecordsCommitted
    <2> QED
      BY <2>2, <2>3 DEF SaveInv
  <1>5. CASE Crash
    BY <1>5, ExitSaves DEF Crash, Records
  <1>6. ASSUME NEW r \in Rounds, CreateRound(r) PROVE SaveInv'
    <2>1. /\ r = Window /\ timer' = [timer EXCEPT ![r] = ChooseTimer]
          /\ rd' = [rd EXCEPT ![r] = NewRound] /\ up
          /\ UNCHANGED <<clock, up, startRound, sub, db, dbWrites, tx>>
      BY <1>6 DEF CreateRound
    <2>2. /\ \A q \in Rounds \ {r} : timer'[q] = timer[q] /\ rd'[q] = rd[q]
          /\ timer'[r] = 1 /\ rd'[r] = NewRound
      BY <2>1, TimerNumbers DEF Inv, OtherTypes, RoundsSafe
    <2>3. PhaseInv'
      <3>1. InPhase(r, NewRound, 1, sub[r].stage)
        BY TimerNumbers, Statuses DEF InPhase, NewRound
      <3>2. ASSUME NEW q \in Rounds PROVE InPhase(q, rd'[q], timer'[q], sub[q].stage)
        BY <2>2, <3>1, SavedNow
      <3> QED
        BY <2>1, <3>2 DEF PhaseInv, InPhase
    <2>4. RecordsCommitted'
      <3> SUFFICES ASSUME NEW q \in Rounds, NEW w \in Records(q), ~Zeros(w)
                   PROVE  /\ clock >= StagesPerWindow * (q + 1)
                          /\ Own(q) => Backs(rd'[q], sub[q].stage, w)
                          /\ tx[q + 1] # None => tx[q + 1].masked.root = w.root
        BY <2>1 DEF RecordsCommitted, Records, Own, Backs, Zeros
      <3>1. q # r
        BY <1>1, <1>2, <2>1 DEF Window, StagesPerWindow
      <3> QED
        BY <2>2, <3>1 DEF SaveInv, RecordsCommitted
    <2>5. RootsMatch'
      BY <2>1 DEF SaveInv, RootsMatch, Zeros
    <2> QED
      BY <2>3, <2>4, <2>5 DEF SaveInv
  <1>7. ASSUME UNCHANGED <<clock, up, startRound, timer, rd, sub, tx>>,
               \A q \in Rounds : Records(q)' \subseteq Records(q)
        PROVE  SaveInv'
    <2>1. PhaseInv' /\ RootsMatch'
      BY <1>7 DEF SaveInv, PhaseInv, InPhase, RootsMatch, Zeros
    <2>2. RecordsCommitted'
      BY <1>7 DEF SaveInv, RecordsCommitted, Own, Backs, Zeros
    <2> QED
      BY <2>1, <2>2 DEF SaveInv
  <1>8. ASSUME NEW r \in Rounds, RoundSaved(r) PROVE SaveInv'
    <2>1. PICK w \in dbWrites[r] :
            /\ dbWrites' = [dbWrites EXCEPT ![r] = @ \ {w}]
            /\ db' = [db EXCEPT ![r] = w] \/ UNCHANGED db
      BY <1>8 DEF RoundSaved
    <2>2. UNCHANGED <<clock, up, startRound, timer, rd, sub, tx>>
      BY <1>8 DEF RoundSaved
    <2>3. \A q \in Rounds : Records(q)' \subseteq Records(q)
      BY <2>1, <2>2 DEF Records, Inv, OtherTypes
    <2> QED
      BY <1>7, <2>2, <2>3
  <1>9. CASE UNCHANGED vars \/ \E b \in Buffers : TransactionMined(b)
    <2>1. UNCHANGED <<clock, up, startRound, timer, rd, sub, tx, db, dbWrites>>
      BY <1>9 DEF vars, TransactionMined
    <2> QED
      BY <1>7, <2>1 DEF Records
  <1> QED
    BY <1>3, <1>4, <1>5, <1>6, <1>8, <1>9

\* Nothing has been recorded or sent at the start.
LEMMA SaveInvInit == Init => SaveInv
  <1> SUFFICES ASSUME Init PROVE SaveInv
    OBVIOUS
  <1>1. PhaseInv
    BY Statuses, TimerNumbers DEF Init, PhaseInv, InPhase, NewRound
  <1>2. RecordsCommitted
    BY DEF Init, RecordsCommitted, Records, NoSubmission, Zeros
  <1>3. RootsMatch
    <2>1. \A r \in Rounds : tx[r + 1] = None
      BY RoundsAndBuffers DEF Init
    <2> QED
      BY <2>1 DEF RootsMatch
  <1> QED
    BY <1>1, <1>2, <1>3 DEF SaveInv

\* Each step keeps the invariant of the records.
LEMMA SaveInvStep ==
  ASSUME Prompt
  PROVE  Inv /\ TimeInv /\ PromptInv /\ PromptInv' /\ SaveInv /\ [Next]_vars => SaveInv'
  <1> SUFFICES ASSUME Inv, TimeInv, PromptInv, PromptInv', SaveInv, [Next]_vars PROVE SaveInv'
    OBVIOUS
  <1>1. CASE \/ AdvanceClock \/ Restart \/ Crash
             \/ \E r \in Rounds : CreateRound(r)
             \/ \E b \in Buffers : TransactionMined(b)
             \/ UNCHANGED vars
    BY <1>1, OtherSaves
  <1>2. ASSUME NEW r \in Rounds, TimerStep(r) PROVE SaveInv'
    BY <1>2, TimerSaves, SubmissionSaves DEF TimerStep
  <1>3. ASSUME NEW r \in Rounds, EventStep(r) PROVE SaveInv'
    BY <1>3, EventSaves
  <1>4. ASSUME NEW r \in Rounds, Continuation(r) PROVE SaveInv'
    <2>1. CASE RoundSaved(r)
      BY <2>1, OtherSaves
    <2> QED
      BY <1>4, <2>1, PreparationSaves, SubmissionSaves DEF Continuation
  <1> QED
    BY <1>1, <1>2, <1>3, <1>4 DEF Next

\* With prompt preparations what is saved of a round has the root that was
\* committed, whatever the writes of overlapping preparations overtake.
THEOREM RecordsAreCommitted ==
  ASSUME Prompt
  PROVE  Spec => []SaveInv
  <1>1. Inv /\ TimeInv /\ PromptInv /\ PromptInv' /\ SaveInv /\ [Next]_vars => SaveInv'
    BY SaveInvStep
  <1>2. Prompt => (Spec => []PromptInv)
    BY PromptInvariance
  <1> QED
    BY <1>1, <1>2, SaveInvInit, Invariance, TimersKeepStep, PTL DEF Spec

\* With prompt preparations every reveal with anything but the zeros of an
\* abstention opens its commit, or is of a round before the present process and
\* has the committed root: after give-ups, failed and overtaken saves and any
\* number of restarts.
THEOREM RevealsMatchCommits ==
  ASSUME Prompt
  PROVE  Spec => []RevealMatchesCommit
  <1>1. Inv /\ TimeInv /\ PromptInv /\ SaveInv => RevealMatchesCommit
    <2> SUFFICES ASSUME Inv, TimeInv, PromptInv, SaveInv, NEW r \in 0..(LastRound - 1),
                        board[r + 1] # None, board[r + 2] # None,
                        board[r + 2].root # Zero \/ board[r + 2].random # 0
                 PROVE  \/ Opens(r)
                        \/ r < startRound /\ board[r + 1].masked.root = board[r + 2].root
      BY DEF RevealMatchesCommit
    <2>1. /\ r \in Rounds /\ r + 1 \in Rounds /\ r + 1 \in Buffers /\ r + 2 \in Buffers
          /\ r \in Nat /\ startRound \in Nat
      BY RoundAssumption, RoundsAndBuffers DEF Rounds, Buffers, Inv, OtherTypes
    <2>2. board[r + 1] = tx[r + 1] /\ board[r + 2] = tx[r + 2]
      BY <2>1 DEF TimeInv, TxInStep
    <2>3. CASE startRound <= r
      BY <2>1, <2>2, <2>3 DEF PromptInv, OwnReveals, Zeros, Opens
    <2>4. CASE r < startRound
      BY <2>1, <2>2, <2>4 DEF SaveInv, RootsMatch, Zeros
    <2> QED
      BY <2>1, <2>3, <2>4
  <1>2. Prompt => (Spec => []PromptInv)
    BY PromptInvariance
  <1>3. Prompt => (Spec => []SaveInv)
    BY RecordsAreCommitted
  <1> QED
    BY <1>1, <1>2, <1>3, Invariance, TimersKeepStep, PTL
=============================================================================
