--------------------------- MODULE ServicesProofs ---------------------------
(***************************************************************************)
(* Theorems about the parts that MCServices has side by side.              *)
(*                                                                         *)
(* Client, for any length of an epoch, any Flare chain, any attestors and  *)
(* any contents of the configuration folder: what was read of the chain is *)
(* in the rounds, neighbouring rounds know each other, and a supported     *)
(* request has a source manager.                                           *)
(*                                                                         *)
(* Headers, for any tree of blocks: what a list has is in the table when   *)
(* the list has been gone through, and no block has more confirmations     *)
(* than there are blocks above it.                                         *)
(*                                                                         *)
(* ProofServer, for any hashes: every proof that is served leads to the    *)
(* root that was committed.                                                *)
(***************************************************************************)
EXTENDS Client, Headers, ProofServer, FiniteSetTheorems, WellFoundedInduction, TLAPS

-----------------------------------------------------------------------------
(* Invariants.                                                               *)

AllLogs == {<<>>} \cup UNION {Logs[i] : i \in DOMAIN Logs}
Events == UNION {{log[k] : k \in DOMAIN log} : log \in AllLogs}
FlareBlocks == [time : Nat, log : AllLogs]

RequestEvents == {e \in Events : IsRequest(e)}
RequestIds == {e.id : e \in RequestEvents}
RequestPairs == {e.pair : e \in RequestEvents}
Masks == {None} \cup {e.mask : e \in {v \in Events : IsVote(v)}}

Requests == [id : RequestIds, pair : RequestPairs, waited : BOOLEAN, at : Nat \X Nat]
Entries == [id : RequestIds, pair : RequestPairs, at : Nat \X Nat, waited : BOOLEAN,
            status : {"failed", "overLimit", "queued"}]
RoundRecords ==
  [initialized : BOOLEAN, prev : BOOLEAN, next : BOOLEAN, closed : BOOLEAN,
   listed : Seq(Entries), votes : [Members -> Masks]]

\* A map from round numbers to rounds.
Maps(rs) == DOMAIN rs \subseteq Nat /\ rs \in [DOMAIN rs -> RoundRecords]

TypeInv ==
  /\ now \in Nat
  /\ chain \in Seq(FlareBlocks) /\ chain # <<>>
  /\ pc \in {"off", "loading", "connecting", "searching", "running",
             "noRouter", "noSource", "noNode"}
  /\ startRound \in Nat
  /\ next \in Nat
  /\ Maps(rounds)
  /\ waiting \subseteq [round : Nat, request : Requests]
  /\ updating \in Nat \cup {None}

\* Blocks are mined one after the other.
TimesInv ==
  /\ \A n \in 0..Height : Block(n).time <= now
  /\ \A n \in 0..Height : \A m \in 0..n : Block(m).time <= Block(n).time

\* The rounds are those from the first one to the current one, and nothing was
\* read before the start block was found.
PhaseInv ==
  /\ pc \notin Running => waiting = {} /\ updating = None
  /\ pc \in {"off", "loading", "connecting"} => DOMAIN rounds = {}
  /\ pc = "running" => next <= Height + 1
  /\ pc \in Running => startRound <= Epoch(now)
  /\ pc = "searching" =>
       /\ waiting = {}
       /\ \A r \in DOMAIN rounds : /\ rounds[r].listed = <<>>
                                   /\ rounds[r].votes = [m \in Members |-> None]
  /\ \A r \in DOMAIN rounds : startRound <= r /\ r <= Epoch(now)

\* What is still to be read or listed is of a round that cleanup has not reached.
LagInv ==
  /\ pc \in Running =>
       \A n \in 0..Height : ~TooEarly(Epoch(Block(n).time)) /\ ~Handled(n) =>
                              Epoch(Block(n).time) > Epoch(now) - KeepRounds
  /\ \A w \in waiting : /\ w.round \in DOMAIN rounds
                        /\ w.round > Epoch(now) - KeepRounds

FromBefore(n, list) == \A k \in DOMAIN list : list[k].at[1] < n

\* What is listed or waits was read before.
ReadBefore ==
  /\ \A r \in DOMAIN rounds : FromBefore(next, rounds[r].listed)
  /\ \A w \in waiting : w.request.waited /\ w.request.at[1] < next

BaseInv == TypeInv /\ TimesInv /\ PhaseInv /\ LagInv /\ ReadBefore

\* Only requests the client knows are queued.
Supported(list) ==
  \A i \in DOMAIN list : list[i].status = "queued" => list[i].pair \in GlobalSupport

Later(p, q) == p[1] > q[1] \/ (p[1] = q[1] /\ p[2] > q[2])

\* Only requests that waited come after a later one.
Ordered(list) ==
  \A i, j \in DOMAIN list :
    i < j /\ Later(list[i].at, list[j].at) => list[j].waited

AllSources == {p.source : p \in DefinedPairs}

\* Every source has had a manager since there was a round, and only requests of
\* these sources are queued.
SourcesInv ==
  /\ pc # "noSource"
  /\ DOMAIN rounds # {} => AllSources \subseteq DOMAIN managers
  /\ \A r \in DOMAIN rounds : Supported(rounds[r].listed)

\* The round of a request that was read is in the map, and the request is in the
\* list or waits.
Registered(n, i) ==
  LET r == Epoch(Block(n).time)
  IN  /\ r \in DOMAIN rounds
      /\ \/ RequestsOf(n)[i].id \in Ids(rounds[r].listed)
         \/ \E w \in waiting : w.round = r /\ w.request.id = RequestsOf(n)[i].id

ListedInv ==
  \A n \in BlocksRead : \A i \in DOMAIN RequestsOf(n) :
    ~TooEarly(Epoch(Block(n).time)) /\ Epoch(Block(n).time) > Epoch(now) - KeepRounds =>
      Registered(n, i)

\* When calls are prompt, the map has the rounds up to the one before the current
\* one, initialised, but for those that cleanup has taken out.
SeenInv ==
  Prompt /\ pc \in Running =>
    /\ \A r \in startRound..(Epoch(now) - 1) :
         r > Epoch(now) - KeepRounds => r \in DOMAIN rounds
    /\ \A r \in DOMAIN rounds : r < Epoch(now) => rounds[r].initialized

-----------------------------------------------------------------------------
(* Lemmas about the operators.                                               *)

\* Epochs and rounds are counted in natural numbers.
LEMMA Numbers ==
  /\ Period \in Nat \ {0} /\ VoteWindow \in Nat /\ KeepRounds \in Nat \ {0}
  /\ Step \in Nat \ {0} /\ None \notin Nat
PROOF BY ClientAssumption

USE Numbers

\* An epoch has Period units of time.
LEMMA EpochBounds ==
  ASSUME NEW time \in Nat
  PROVE  /\ Epoch(time) \in Nat
         /\ Period * Epoch(time) <= time /\ time < Period * Epoch(time) + Period
PROOF
<1>1. \A a \in Nat : \A b \in Nat \ {0} :
        a \div b \in Nat /\ b * (a \div b) <= a /\ a < b * (a \div b) + b
  BY Z3T(30)
<1> QED BY <1>1 DEF Epoch

\* Times before the start of an epoch are of earlier epochs.
LEMMA BeforeEpoch ==
  ASSUME NEW time \in Nat, NEW r \in Nat
  PROVE  time < r * Period <=> Epoch(time) < r
PROOF
<1>1. \A p \in Nat \ {0} : \A e \in Nat :
        p * e <= time /\ time < p * e + p => (time < r * p <=> e < r)
  <2> SUFFICES ASSUME NEW p \in Nat \ {0}, NEW e \in Nat,
                      p * e <= time, time < p * e + p
               PROVE  time < r * p <=> e < r
    OBVIOUS
  <2>1. ASSUME e < r PROVE time < r * p
    <3>1. PICK d \in Nat : r = e + 1 + d
      <4>1. r - e - 1 \in Nat /\ r = e + 1 + (r - e - 1)
        BY <2>1
      <4> QED BY <4>1
    <3>2. r * p = p * e + p + d * p /\ d * p >= 0
      BY <3>1
    <3> QED BY <3>2
  <2>2. ASSUME r <= e PROVE r * p <= time
    <3>1. PICK d \in Nat : e = r + d
      <4>1. e - r \in Nat /\ e = r + (e - r)
        BY <2>2
      <4> QED BY <4>1
    <3>2. p * e = r * p + d * p /\ d * p >= 0
      BY <3>1
    <3> QED BY <3>2
  <2>3. r * p \in Nat
    OBVIOUS
  <2> QED BY <2>1, <2>2, <2>3
<1> QED BY <1>1, EpochBounds

\* Epochs follow each other.
LEMMA EpochMonotone ==
  ASSUME NEW a \in Nat, NEW b \in Nat, a <= b
  PROVE  Epoch(a) <= Epoch(b)
PROOF
<1>1. Epoch(a) \in Nat /\ Epoch(b) \in Nat
  BY EpochBounds
<1>2. ~(b < Epoch(a) * Period)
  <2>1. ~(a < Epoch(a) * Period)
    BY <1>1, BeforeEpoch
  <2>2. Epoch(a) * Period \in Nat
    BY <1>1
  <2> QED BY <2>1, <2>2
<1> QED BY <1>1, <1>2, BeforeEpoch

\* In a unit of time the epoch stays or is the next one.
LEMMA EpochAfter ==
  ASSUME NEW time \in Nat
  PROVE  Epoch(time + 1) \in {Epoch(time), Epoch(time) + 1}
PROOF
<1>1. Epoch(time) \in Nat /\ Epoch(time + 1) \in Nat /\ Epoch(time) <= Epoch(time + 1)
  <2>1. time + 1 \in Nat /\ time <= time + 1
    OBVIOUS
  <2> QED BY <2>1, EpochBounds, EpochMonotone
<1>2. Epoch(time) < Epoch(time) + 1 /\ Epoch(time) + 1 \in Nat
  BY <1>1
<1>3. time + 1 < (Epoch(time) + 2) * Period
  <2>1. time < (Epoch(time) + 1) * Period
    BY <1>2, BeforeEpoch
  <2>2. (Epoch(time) + 2) * Period = (Epoch(time) + 1) * Period + Period
    BY <1>1
  <2>3. (Epoch(time) + 1) * Period \in Nat
    BY <1>1
  <2> QED BY <2>1, <2>2, <2>3
<1>4. Epoch(time + 1) < Epoch(time) + 2
  BY <1>1, <1>3, BeforeEpoch
<1> QED BY <1>1, <1>4

\* The numbers and the contents of the blocks.
LEMMA BlockType ==
  ASSUME TypeInv
  PROVE  /\ Height \in Nat /\ Len(chain) = Height + 1
         /\ \A n \in 0..Height : /\ Block(n) \in FlareBlocks
                                 /\ Epoch(Block(n).time) \in Nat
PROOF
<1>1. chain \in Seq(FlareBlocks) /\ Len(chain) \in Nat \ {0}
  BY DEF TypeInv
<1>2. \A n \in 0..Height : n + 1 \in 1..Len(chain)
  BY <1>1 DEF Height
<1>3. \A n \in 0..Height : Block(n) \in FlareBlocks
  BY <1>1, <1>2 DEF Block
<1>4. \A n \in 0..Height : Block(n).time \in Nat
  BY <1>3 DEF FlareBlocks
<1>5. \A n \in 0..Height : Epoch(Block(n).time) \in Nat
  BY <1>4, EpochBounds
<1>6. Height \in Nat /\ Len(chain) = Height + 1
  BY <1>1 DEF Height
<1> QED BY <1>3, <1>5, <1>6

\* A log is a sequence of events.
LEMMA LogType ==
  ASSUME NEW log \in AllLogs
  PROVE  /\ Len(log) \in Nat /\ DOMAIN log = 1..Len(log)
         /\ \A i \in DOMAIN log : log[i] \in Events
PROOF
<1>1. CASE log = <<>>
  <2>1. Len(log) = 0 /\ DOMAIN log = 1..Len(log)
    BY <1>1
  <2> QED BY <2>1
<1>2. CASE log # <<>>
  <2>1. PICK n \in DOMAIN Logs : log \in Logs[n]
    BY <1>2 DEF AllLogs
  <2>2. log \in Seq({log[k] : k \in DOMAIN log})
    BY <2>1, ClientAssumption
  <2>3. Len(log) \in Nat /\ DOMAIN log = 1..Len(log)
    BY <2>2
  <2>4. \A i \in DOMAIN log : log[i] \in Events
    <3> SUFFICES ASSUME NEW k \in DOMAIN log PROVE log[k] \in Events
      OBVIOUS
    <3>1. log[k] \in {log[j] : j \in DOMAIN log}
      OBVIOUS
    <3> QED BY <3>1 DEF Events
  <2> QED BY <2>3, <2>4
<1> QED BY <1>1, <1>2

\* The requests of a block are those of its log.
LEMMA RequestType ==
  ASSUME TypeInv, NEW n \in 0..Height
  PROVE  /\ DOMAIN RequestsOf(n) \subseteq 1..Len(Block(n).log)
         /\ \A i \in DOMAIN RequestsOf(n) :
              /\ RequestsOf(n)[i] \in Requests
              /\ RequestsOf(n)[i].at = <<n, i>>
              /\ RequestsOf(n)[i].waited = FALSE
PROOF
<1> DEFINE log == Block(n).log
<1>1. Block(n) \in FlareBlocks
  BY BlockType
<1>2. log \in AllLogs
  BY <1>1 DEF FlareBlocks
<1>3. /\ DOMAIN log = 1..Len(log) /\ Len(log) \in Nat
      /\ \A i \in DOMAIN log : log[i] \in Events
  BY <1>2, LogType
<1>4. ASSUME NEW i \in Parsed(log)
      PROVE  /\ i \in Nat /\ i \in 1..Len(log)
             /\ log[i].id \in RequestIds /\ log[i].pair \in RequestPairs
  <2>1. i \in DOMAIN log /\ IsRequest(log[i])
    BY DEF Parsed
  <2>2. log[i] \in RequestEvents
    BY <1>3, <2>1 DEF RequestEvents
  <2> QED BY <1>3, <2>1, <2>2 DEF RequestIds, RequestPairs
<1>5. RequestsOf(n) = [i \in Parsed(log) |->
                         [id |-> log[i].id, pair |-> log[i].pair,
                          waited |-> FALSE, at |-> <<n, i>>]]
  BY DEF RequestsOf
<1> HIDE DEF log
<1>6. n \in Nat
  BY BlockType
<1>7. DOMAIN RequestsOf(n) = Parsed(log)
  BY <1>5
<1>8. \A i \in Parsed(log) :
        RequestsOf(n)[i] = [id |-> log[i].id, pair |-> log[i].pair,
                            waited |-> FALSE, at |-> <<n, i>>]
  BY <1>5
<1>9. DOMAIN RequestsOf(n) \subseteq 1..Len(log)
  BY <1>4, <1>7
<1>10. \A i \in DOMAIN RequestsOf(n) :
              /\ RequestsOf(n)[i] \in Requests
              /\ RequestsOf(n)[i].at = <<n, i>>
              /\ RequestsOf(n)[i].waited = FALSE
  <2> SUFFICES ASSUME NEW i \in Parsed(log)
               PROVE  /\ RequestsOf(n)[i] \in Requests
                      /\ RequestsOf(n)[i].at = <<n, i>>
                      /\ RequestsOf(n)[i].waited = FALSE
    BY <1>7
  <2>1. <<n, i>> \in Nat \X Nat
    BY <1>4, <1>6
  <2>2. [id |-> log[i].id, pair |-> log[i].pair, waited |-> FALSE, at |-> <<n, i>>] \in Requests
    BY <1>4, <2>1 DEF Requests
  <2> QED BY <1>8, <2>2
<1> QED BY <1>9, <1>10 DEF log
\* The library states this of a relation made from an operator.
LEMMA LessThanWellFounded == IsWellFoundedOn({ss \in Nat \X Nat : ss[1] < ss[2]}, Nat)
PROOF BY NatLessThanWellFounded DEF OpToRel

\* A set of natural numbers that is not empty has a least element.
LEMMA Least ==
  ASSUME NEW S \in SUBSET Nat, S # {}
  PROVE  \E x \in S : \A y \in S : x <= y
PROOF
<1> DEFINE R == {ss \in Nat \X Nat : ss[1] < ss[2]}
<1>1. PICK x \in S : \A y \in S : ~(<<y, x>> \in R)
  <2>1. IsWellFoundedOn(R, Nat)
    BY LessThanWellFounded
  <2> HIDE DEF R
  <2> QED BY <2>1, WFMin
<1>2. ASSUME NEW y \in S, y < x PROVE FALSE
  <2>1. <<y, x>> \in R
    BY <1>2
  <2> QED BY <1>1, <2>1
<1> QED BY <1>2

\* One with an upper bound has a greatest element.
LEMMA Greatest ==
  ASSUME NEW S \in SUBSET Nat, S # {}, NEW u \in Nat, \A s \in S : s <= u
  PROVE  \E x \in S : \A y \in S : y <= x
PROOF
<1> DEFINE T == {u - s : s \in S}
<1>1. T \in SUBSET Nat /\ T # {}
  <2>1. \A s \in S : u - s \in Nat
    OBVIOUS
  <2>2. PICK s \in S : TRUE
    OBVIOUS
  <2>3. u - s \in T
    OBVIOUS
  <2> QED BY <2>1, <2>3
<1>2. PICK d \in T : \A y \in T : d <= y
  BY <1>1, Least
<1>3. PICK x \in S : d = u - x
  BY <1>2
<1>4. \A y \in S : u - y \in T
  OBVIOUS
<1>5. \A y \in S : x >= y
  BY <1>2, <1>3, <1>4
<1> QED BY <1>5

\* A vote that counts is the mask of an event, and never None's place.
LEMMA VoteType ==
  ASSUME NEW log \in AllLogs, NEW member, NEW r
  PROVE  Vote(log, member, r) \in Masks
PROOF
<1> DEFINE cast == {i \in DOMAIN log : /\ IsVote(log[i])
                                       /\ log[i].by = member
                                       /\ log[i].round = r}
           last == CHOOSE i \in cast : \A j \in cast : j <= i
<1>1. CASE cast = {}
  BY <1>1 DEF Vote, Masks
<1>2. CASE cast # {}
  <2>1. /\ cast \in SUBSET Nat /\ Len(log) \in Nat /\ \A i \in cast : i <= Len(log)
        /\ \A i \in cast : log[i] \in Events /\ IsVote(log[i])
    BY LogType
  <2>2. Vote(log, member, r) = log[last].mask
    BY <1>2 DEF Vote
  <2> HIDE DEF cast
  <2>3. last \in cast
    <3>1. \E i \in cast : \A j \in cast : j <= i
      BY <1>2, <2>1, Greatest
    <3> QED BY <3>1
  <2>4. log[last] \in {v \in Events : IsVote(v)}
    BY <2>1, <2>3
  <2> HIDE DEF last
  <2> QED BY <2>2, <2>4 DEF Masks
<1> QED BY <1>1, <1>2

-----------------------------------------------------------------------------
(* The handlers of the votes and of the time of a block.                     *)

\* The round whose votes are in time in a block.
VotedRound(block) == BitVoteEpoch(block.time) - 1

UpdatedVotes(round, block, r) ==
  [m \in Members |-> IF Vote(block.log, m, r) = None THEN round.votes[m]
                     ELSE Vote(block.log, m, r)]

\* In the time for votes their epoch is the current one; else there is none.
LEMMA BitVoteEpochType ==
  ASSUME NEW time \in Nat
  PROVE  /\ BitVoteEpoch(time) \in Nat \cup {None}
         /\ BitVoteEpoch(time) # None <=> time % Period <= VoteWindow
         /\ BitVoteEpoch(time) # None => BitVoteEpoch(time) = Epoch(time)
PROOF BY EpochBounds DEF BitVoteEpoch

\* Votes in time are registered with a round that knows its members; nothing
\* else of a round changes.
LEMMA VotesHandled ==
  ASSUME NEW rs, Maps(rs), NEW block \in FlareBlocks
  PROVE  /\ DOMAIN WithVotes(rs, block) = DOMAIN rs
         /\ Maps(WithVotes(rs, block))
         /\ \A r \in DOMAIN rs :
              /\ WithVotes(rs, block)[r].initialized = rs[r].initialized
              /\ WithVotes(rs, block)[r].prev = rs[r].prev
              /\ WithVotes(rs, block)[r].next = rs[r].next
              /\ WithVotes(rs, block)[r].listed = rs[r].listed
              /\ WithVotes(rs, block)[r].votes =
                   IF /\ BitVoteEpoch(block.time) # None
                      /\ r = VotedRound(block) /\ rs[r].initialized
                   THEN UpdatedVotes(rs[r], block, r) ELSE rs[r].votes
PROOF
<1> DEFINE e == BitVoteEpoch(block.time)
           v == VotedRound(block)
<1>1. CASE e = None \/ v \notin DOMAIN rs
  <2>1. WithVotes(rs, block) = rs
    BY <1>1 DEF WithVotes, VotedRound
  <2> QED BY <1>1, <2>1
<1>2. CASE e # None /\ v \in DOMAIN rs /\ ~rs[v].initialized
  <2>1. WithVotes(rs, block) = rs
    BY <1>2 DEF WithVotes, VotedRound
  <2> QED BY <1>2, <2>1
<1>3. CASE e # None /\ v \in DOMAIN rs /\ rs[v].initialized
  <2> DEFINE with == [rs EXCEPT ![v].votes =
                        [m \in Members |-> LET vote == Vote(block.log, m, v)
                                           IN  IF vote = None THEN @[m] ELSE vote]]
  <2>1. WithVotes(rs, block) = with
    BY <1>3 DEF WithVotes, VotedRound
  <2>2. UpdatedVotes(rs[v], block, v) \in [Members -> Masks]
    <3>1. rs[v].votes \in [Members -> Masks]
      BY <1>3 DEF Maps, RoundRecords
    <3>2. \A m \in Members : Vote(block.log, m, v) \in Masks
      BY VoteType DEF FlareBlocks
    <3> QED BY <3>1, <3>2 DEF UpdatedVotes
  <2>3. with = [rs EXCEPT ![v].votes = UpdatedVotes(rs[v], block, v)]
    BY <1>3 DEF UpdatedVotes
  <2>4. rs \in [DOMAIN rs -> RoundRecords]
    BY DEF Maps
  <2> HIDE DEF v, with, e
  <2>5. /\ DOMAIN with = DOMAIN rs
        /\ \A r \in DOMAIN rs :
             with[r] = IF r = v THEN [rs[v] EXCEPT !.votes = UpdatedVotes(rs[v], block, v)]
                       ELSE rs[r]
    BY <1>3, <2>3, <2>4
  <2>6. rs[v] \in RoundRecords
    BY <1>3, <2>4
  <2>7. /\ [rs[v] EXCEPT !.votes = UpdatedVotes(rs[v], block, v)] \in RoundRecords
        /\ [rs[v] EXCEPT !.votes = UpdatedVotes(rs[v], block, v)].initialized = rs[v].initialized
        /\ [rs[v] EXCEPT !.votes = UpdatedVotes(rs[v], block, v)].prev = rs[v].prev
        /\ [rs[v] EXCEPT !.votes = UpdatedVotes(rs[v], block, v)].next = rs[v].next
        /\ [rs[v] EXCEPT !.votes = UpdatedVotes(rs[v], block, v)].listed = rs[v].listed
        /\ [rs[v] EXCEPT !.votes = UpdatedVotes(rs[v], block, v)].votes =
             UpdatedVotes(rs[v], block, v)
    BY <2>2, <2>6 DEF RoundRecords
  <2>8. with \in [DOMAIN rs -> RoundRecords]
    BY <2>3, <2>4, <2>5, <2>7
  <2>9. Maps(with)
    BY <2>5, <2>8 DEF Maps
  <2>10. \A r \in DOMAIN rs :
              /\ with[r].initialized = rs[r].initialized
              /\ with[r].prev = rs[r].prev
              /\ with[r].next = rs[r].next
              /\ with[r].listed = rs[r].listed
              /\ with[r].votes = IF r = v THEN UpdatedVotes(rs[r], block, r) ELSE rs[r].votes
    BY <2>5, <2>7
  <2> QED BY <1>3, <2>1, <2>5, <2>9, <2>10 DEF v, e
<1> QED BY <1>1, <1>2, <1>3

\* The time of a block closes the bit vote window of a round.
LEMMA TimeHandled ==
  ASSUME NEW rs, Maps(rs), NEW block
  PROVE  /\ DOMAIN WithClosed(rs, block) = DOMAIN rs
         /\ Maps(WithClosed(rs, block))
         /\ \A r \in DOMAIN rs :
              /\ WithClosed(rs, block)[r].initialized = rs[r].initialized
              /\ WithClosed(rs, block)[r].prev = rs[r].prev
              /\ WithClosed(rs, block)[r].next = rs[r].next
              /\ WithClosed(rs, block)[r].listed = rs[r].listed
              /\ WithClosed(rs, block)[r].votes = rs[r].votes
PROOF
<1> DEFINE v == Epoch(block.time) - 1
<1>1. CASE WithClosed(rs, block) = rs
  BY <1>1
<1>2. CASE v \in DOMAIN rs /\ WithClosed(rs, block) = [rs EXCEPT ![v].closed = TRUE]
  <2> HIDE DEF v
  <2>1. rs \in [DOMAIN rs -> RoundRecords] /\ rs[v] \in RoundRecords
    BY <1>2 DEF Maps
  <2>2. /\ [rs[v] EXCEPT !.closed = TRUE] \in RoundRecords
        /\ [rs[v] EXCEPT !.closed = TRUE].initialized = rs[v].initialized
        /\ [rs[v] EXCEPT !.closed = TRUE].prev = rs[v].prev
        /\ [rs[v] EXCEPT !.closed = TRUE].next = rs[v].next
        /\ [rs[v] EXCEPT !.closed = TRUE].listed = rs[v].listed
        /\ [rs[v] EXCEPT !.closed = TRUE].votes = rs[v].votes
    BY <2>1 DEF RoundRecords
  <2> DEFINE with == [rs EXCEPT ![v].closed = TRUE]
  <2>3. /\ DOMAIN with = DOMAIN rs
        /\ with \in [DOMAIN rs -> RoundRecords]
        /\ \A r \in DOMAIN rs :
             with[r] = IF r = v THEN [rs[v] EXCEPT !.closed = TRUE] ELSE rs[r]
    BY <1>2, <2>1, <2>2
  <2> HIDE DEF with
  <2>4. Maps(with)
    BY <2>3 DEF Maps
  <2>5. \A r \in DOMAIN rs : /\ with[r].initialized = rs[r].initialized
                             /\ with[r].prev = rs[r].prev
                             /\ with[r].next = rs[r].next
                             /\ with[r].listed = rs[r].listed
                             /\ with[r].votes = rs[r].votes
    BY <2>2, <2>3
  <2> QED BY <1>2, <2>3, <2>4, <2>5 DEF with
<1> QED BY <1>1, <1>2 DEF WithClosed
-----------------------------------------------------------------------------
(* Rounds and their lists.                                                   *)

\* A new round has no requests and no votes, and may have a previous one.
LEMMA NewRoundType ==
  ASSUME NEW linked \in BOOLEAN
  PROVE  /\ NewRound(linked) \in RoundRecords
         /\ NewRound(linked).listed = <<>>
         /\ NewRound(linked).prev = linked
         /\ NewRound(linked).votes = [m \in Members |-> None]
PROOF
<1>1. [m \in Members |-> None] \in [Members -> Masks]
  BY DEF Masks
<1>2. <<>> \in Seq(Entries)
  OBVIOUS
<1> QED BY <1>1, <1>2 DEF NewRound, RoundRecords

\* A round that is there is left as it is.
LEMMA RoundThere ==
  ASSUME NEW r \in DOMAIN rounds
  PROVE  WithRound(r) = rounds
PROOF BY DEF WithRound

\* A new round is linked with the one before it, and cleanup takes out another.
LEMMA RoundCreated ==
  ASSUME TypeInv, NEW r \in Nat, r \notin DOMAIN rounds, ~Obsolete(r)
  PROVE  /\ Maps(WithRound(r))
         /\ DOMAIN WithRound(r) = {p \in DOMAIN rounds \cup {r} : ~Obsolete(p)}
         /\ r \in DOMAIN WithRound(r)
         /\ WithRound(r)[r] = NewRound(Linked(r))
         /\ \A q \in DOMAIN WithRound(r) : q # r =>
              /\ q \in DOMAIN rounds
              /\ WithRound(r)[q].initialized = rounds[q].initialized
              /\ WithRound(r)[q].prev = rounds[q].prev
              /\ WithRound(r)[q].next = (IF q = r - 1 THEN TRUE ELSE rounds[q].next)
              /\ WithRound(r)[q].listed = rounds[q].listed
              /\ WithRound(r)[q].votes = rounds[q].votes
PROOF
<1> DEFINE D == {p \in DOMAIN rounds \cup {r} : ~Obsolete(p)}
           with == [q \in D |->
                     IF q = r THEN NewRound(Linked(r))
                     ELSE IF q = r - 1 THEN [rounds[q] EXCEPT !.next = TRUE]
                     ELSE rounds[q]]
<1>1. WithRound(r) = with
  BY DEF WithRound
<1>2. D \subseteq Nat /\ r \in D /\ \A q \in D : q # r => rounds[q] \in RoundRecords
  BY DEF TypeInv, Maps
<1>3. Linked(r) \in BOOLEAN
  BY DEF Linked
<1>4. \A x \in RoundRecords : /\ [x EXCEPT !.next = TRUE] \in RoundRecords
                              /\ [x EXCEPT !.next = TRUE].initialized = x.initialized
                              /\ [x EXCEPT !.next = TRUE].prev = x.prev
                              /\ [x EXCEPT !.next = TRUE].next = TRUE
                              /\ [x EXCEPT !.next = TRUE].listed = x.listed
                              /\ [x EXCEPT !.next = TRUE].votes = x.votes
                              /\ x.next \in BOOLEAN
  BY DEF RoundRecords
<1>5. NewRound(Linked(r)) \in RoundRecords
  BY <1>3, NewRoundType
<1>6. \A q \in D : q # r => q \in DOMAIN rounds
  OBVIOUS
<1> HIDE DEF D
<1>7. DOMAIN with = D /\ with \in [D -> RoundRecords]
  BY <1>2, <1>4, <1>5
<1>8. Maps(with)
  BY <1>2, <1>7 DEF Maps
<1>9. with[r] = NewRound(Linked(r))
  BY <1>2
<1>10. ASSUME NEW q \in D, q # r
       PROVE  /\ with[q].initialized = rounds[q].initialized
              /\ with[q].prev = rounds[q].prev
              /\ with[q].next = (IF q = r - 1 THEN TRUE ELSE rounds[q].next)
              /\ with[q].listed = rounds[q].listed
              /\ with[q].votes = rounds[q].votes
  <2>1. rounds[q] \in RoundRecords
    BY <1>2, <1>10
  <2>2. with[q] = IF q = r - 1 THEN [rounds[q] EXCEPT !.next = TRUE] ELSE rounds[q]
    BY <1>10
  <2> HIDE DEF with
  <2>3. CASE q = r - 1
    BY <1>4, <2>1, <2>2, <2>3
  <2>4. CASE q # r - 1
    BY <1>4, <2>1, <2>2, <2>4
  <2> QED BY <2>3, <2>4
<1> HIDE DEF with
<1>11. \A q \in DOMAIN with : q # r =>
              /\ q \in DOMAIN rounds
              /\ with[q].initialized = rounds[q].initialized
              /\ with[q].prev = rounds[q].prev
              /\ with[q].next = (IF q = r - 1 THEN TRUE ELSE rounds[q].next)
              /\ with[q].listed = rounds[q].listed
              /\ with[q].votes = rounds[q].votes
  BY <1>6, <1>7, <1>10
<1> QED BY <1>1, <1>2, <1>7, <1>8, <1>9, <1>11 DEF D

\* The status of a request; one that is queued has a source that is supported.
LEMMA StatusType ==
  ASSUME NEW r, NEW list, NEW pair
  PROVE  /\ StatusOf(r, list, pair) \in {"failed", "overLimit", "queued"}
         /\ StatusOf(r, list, pair) = "queued" => pair \in GlobalSupport
PROOF BY DEF StatusOf

\* A list with one more request.
IsLonger(list, more, request) ==
  /\ Len(more) = Len(list) + 1
  /\ \A i \in 1..Len(list) : more[i] = list[i]
  /\ more[Len(more)].at = request.at
  /\ more[Len(more)].waited = request.waited

\* A request is listed once, after the others.
LEMMA AddOne ==
  ASSUME NEW r, NEW list \in Seq(Entries), NEW request \in Requests
  PROVE  /\ Add(r, list, request) \in Seq(Entries)
         /\ Ids(Add(r, list, request)) = Ids(list) \cup {request.id}
         /\ Supported(list) => Supported(Add(r, list, request))
         /\ \/ Add(r, list, request) = list
            \/ IsLonger(list, Add(r, list, request), request)
PROOF
<1> DEFINE more == Add(r, list, request)
           entry == [id |-> request.id, pair |-> request.pair,
                     at |-> request.at, waited |-> request.waited,
                     status |-> StatusOf(r, list, request.pair)]
<1>1. CASE request.id \in Ids(list)
  <2>1. more = list
    BY <1>1 DEF Add
  <2> QED BY <1>1, <2>1
<1>2. CASE request.id \notin Ids(list)
  <2>1. more = Append(list, entry)
    BY <1>2 DEF Add
  <2>2. entry \in Entries
    BY StatusType DEF Entries, Requests
  <2>3. entry.status = "queued" => entry.pair \in GlobalSupport
    BY StatusType
  <2>4. entry.id = request.id /\ entry.at = request.at /\ entry.waited = request.waited
    OBVIOUS
  <2> HIDE DEF entry, more
  <2>5. /\ more \in Seq(Entries) /\ Len(list) \in Nat
        /\ DOMAIN list = 1..Len(list) /\ DOMAIN more = 1..(Len(list) + 1)
        /\ Len(more) = Len(list) + 1
        /\ \A i \in 1..Len(list) : more[i] = list[i]
        /\ more[Len(list) + 1] = entry
    BY <2>1, <2>2
  <2>6. Ids(more) = Ids(list) \cup {request.id}
    <3>1. \A i \in DOMAIN list : i \in DOMAIN more /\ more[i].id = list[i].id
      BY <2>5
    <3>2. \A i \in DOMAIN more : i \in DOMAIN list \/ more[i].id = request.id
      BY <2>4, <2>5
    <3>3. Len(list) + 1 \in DOMAIN more /\ more[Len(list) + 1].id = request.id
      BY <2>4, <2>5
    <3>4. Ids(list) \cup {request.id} \subseteq Ids(more)
      BY <3>1, <3>3 DEF Ids
    <3>5. Ids(more) \subseteq Ids(list) \cup {request.id}
      <4> SUFFICES ASSUME NEW i \in DOMAIN more
                   PROVE  more[i].id \in Ids(list) \cup {request.id}
        BY DEF Ids
      <4>1. CASE i \in DOMAIN list
        BY <3>1, <4>1 DEF Ids
      <4> QED BY <3>2, <4>1
    <3> QED BY <3>4, <3>5
  <2>7. Supported(list) => Supported(more)
    BY <2>3, <2>5 DEF Supported
  <2>8. IsLonger(list, more, request)
    BY <2>4, <2>5 DEF IsLonger
  <2> QED BY <2>5, <2>6, <2>7, <2>8 DEF more
<1> QED BY <1>1, <1>2
\* An entry of a list has a place in a log.
LEMMA PlaceType ==
  ASSUME NEW list \in Seq(Entries), NEW k \in DOMAIN list
  PROVE  list[k].at \in Nat \X Nat
PROOF
<1>1. list[k] \in Entries
  OBVIOUS
<1> QED BY <1>1 DEF Entries

\* The list while the requests of a block are added to it.
AddStep(r, list, asked, added, i) ==
  IF i = 0 THEN list
  ELSE IF i \in DOMAIN asked THEN Add(r, added[i - 1], asked[i])
  ELSE added[i - 1]

IsAdded(r, list, asked, length, added) ==
  added = [i \in 0..length |-> AddStep(r, list, asked, added, i)]

\* The recursive function of AddAll exists.
LEMMA AddedExists ==
  ASSUME NEW r, NEW list, NEW asked, NEW length \in Nat
  PROVE  \E added : IsAdded(r, list, asked, length, added)
PROOF
<1> DEFINE Is(n, f) == IsAdded(r, list, asked, n, f)
           Missing == {n \in Nat : ~ \E f : Is(n, f)}
<1>1. ASSUME Missing # {} PROVE FALSE
  <2>1. PICK n \in Missing : \A m \in Missing : n <= m
    <3>1. Missing \in SUBSET Nat
      OBVIOUS
    <3> HIDE DEF Missing
    <3> QED BY <1>1, <3>1, Least
  <2>2. CASE n = 0
    <3> DEFINE f == [i \in 0..0 |-> list]
    <3>1. \A i \in 0..0 : AddStep(r, list, asked, f, i) = list
      BY DEF AddStep
    <3>2. Is(0, f)
      BY <3>1 DEF IsAdded
    <3> HIDE DEF Is
    <3> QED BY <2>1, <2>2, <3>2
  <2>3. CASE n # 0
    <3>1. n \in Nat /\ n - 1 \in Nat /\ n - 1 \notin Missing
      BY <2>1, <2>3
    <3>2. PICK g : Is(n - 1, g)
      BY <3>1
    <3> DEFINE last == AddStep(r, list, asked, g, n)
               f == [i \in 0..n |-> IF i = n THEN last ELSE g[i]]
    <3>3. \A i \in 0..(n - 1) : f[i] = g[i]
      BY <3>1
    <3>4. ASSUME NEW i \in 0..n
          PROVE  AddStep(r, list, asked, f, i) = AddStep(r, list, asked, g, i)
      <4>1. CASE i = 0
        BY <4>1 DEF AddStep
      <4>2. CASE i # 0
        <5>1. f[i - 1] = g[i - 1]
          BY <3>1, <3>3, <4>2
        <5> QED BY <5>1 DEF AddStep
      <4> QED BY <4>1, <4>2
    <3>5. ASSUME NEW i \in 0..n PROVE f[i] = AddStep(r, list, asked, f, i)
      <4>1. CASE i = n
        BY <3>4, <4>1
      <4>2. CASE i # n
        <5>1. i \in 0..(n - 1)
          BY <3>1, <4>2
        <5>2. g[i] = AddStep(r, list, asked, g, i)
          BY <3>2, <5>1 DEF IsAdded
        <5> QED BY <3>3, <3>4, <5>1, <5>2
      <4> QED BY <4>1, <4>2
    <3>6. f = [i \in 0..n |-> f[i]]
      OBVIOUS
    <3> HIDE DEF f
    <3>7. Is(n, f)
      BY <3>5, <3>6 DEF IsAdded
    <3> HIDE DEF Is
    <3> QED BY <2>1, <3>7
  <2> QED BY <2>2, <2>3
<1>2. length \notin Missing
  BY <1>1
<1> QED BY <1>2

RequestedIds(asked) == {asked[i].id : i \in DOMAIN asked}

\* What AddAll makes of a list: it has the new requests, only those of known pairs
\* are queued, and the order is the one of the log.
LEMMA AddMany ==
  ASSUME NEW r, NEW list \in Seq(Entries), NEW length \in Nat, NEW n \in Nat,
         NEW asked, DOMAIN asked \subseteq 1..length,
         \A i \in DOMAIN asked : /\ asked[i] \in Requests
                                    /\ asked[i].at = <<n, i>>,
         FromBefore(n, list)
  PROVE  /\ AddAll(r, list, asked, length) \in Seq(Entries)
         /\ Ids(AddAll(r, list, asked, length)) = Ids(list) \cup RequestedIds(asked)
         /\ Supported(list) => Supported(AddAll(r, list, asked, length))
         /\ Ordered(list) => Ordered(AddAll(r, list, asked, length))
         /\ FromBefore(n + 1, AddAll(r, list, asked, length))
PROOF
<1> DEFINE more == AddAll(r, list, asked, length)
           added == CHOOSE f : IsAdded(r, list, asked, length, f)
<1>1. more = added[length]
  BY DEF AddAll, AddStep, IsAdded
<1>2. IsAdded(r, list, asked, length, added)
  <2>1. \E f : IsAdded(r, list, asked, length, f)
    BY AddedExists
  <2> QED BY <2>1
<1>3. \A i \in 0..length : added[i] = AddStep(r, list, asked, added, i)
  BY <1>2 DEF IsAdded
<1> HIDE DEF added, more
<1> DEFINE Good(i) ==
      /\ added[i] \in Seq(Entries)
      /\ Ids(added[i]) = Ids(list) \cup {asked[k].id : k \in DOMAIN asked \cap (1..i)}
      /\ Supported(list) => Supported(added[i])
      /\ Ordered(list) => Ordered(added[i])
      /\ \A k \in DOMAIN added[i] :
           \/ added[i][k].at[1] < n
           \/ added[i][k].at[1] = n /\ added[i][k].at[2] <= i
           Bad == {i \in 0..length : ~Good(i)}
<1>4. Good(0)
  <2>1. added[0] = list /\ FromBefore(n, added[0])
    <3>1. added[0] = AddStep(r, list, asked, added, 0)
      BY <1>3
    <3> QED BY <3>1 DEF AddStep
  <2>2. {asked[k].id : k \in DOMAIN asked \cap (1..0)} = {}
    OBVIOUS
  <2>3. Ids(added[0]) = Ids(list) \cup {asked[k].id : k \in DOMAIN asked \cap (1..0)}
    BY <2>1, <2>2
  <2>4. \A k \in DOMAIN added[0] : added[0][k].at[1] < n
    BY <2>1 DEF FromBefore
  <2> QED BY <2>1, <2>3, <2>4
<1>5. ASSUME NEW i \in 1..length, Good(i - 1) PROVE Good(i)
  <2> DEFINE before == added[i - 1]
             after == added[i]
  <2>1. /\ before \in Seq(Entries)
        /\ Ids(before) = Ids(list) \cup
                           {asked[k].id : k \in DOMAIN asked \cap (1..(i - 1))}
        /\ Supported(list) => Supported(before)
        /\ Ordered(list) => Ordered(before)
        /\ \A k \in DOMAIN before :
             \/ before[k].at[1] < n
             \/ before[k].at[1] = n /\ before[k].at[2] <= i - 1
    BY <1>5
  <2>2. after = IF i \in DOMAIN asked THEN Add(r, before, asked[i]) ELSE before
    BY <1>3 DEF AddStep
  <2>3. \A k \in DOMAIN before :
          /\ before[k].at[1] \in Nat /\ before[k].at[2] \in Nat
    <3> SUFFICES ASSUME NEW k \in DOMAIN before
                 PROVE  before[k].at[1] \in Nat /\ before[k].at[2] \in Nat
      OBVIOUS
    <3> HIDE DEF before
    <3>1. before[k].at \in Nat \X Nat
      BY <2>1, PlaceType
    <3> QED BY <3>1
  <2>4. CASE i \notin DOMAIN asked
    <3>1. DOMAIN asked \cap (1..i) = DOMAIN asked \cap (1..(i - 1))
      BY <2>4
    <3>2. after = before
      BY <2>2, <2>4
    <3> HIDE DEF before, after
    <3>3. \A k \in DOMAIN after :
             \/ after[k].at[1] < n
             \/ after[k].at[1] = n /\ after[k].at[2] <= i
      BY <2>1, <2>3, <3>2
    <3> QED BY <2>1, <3>1, <3>2, <3>3 DEF after
  <2>5. CASE i \in DOMAIN asked
    <3>1. DOMAIN asked \cap (1..i) = (DOMAIN asked \cap (1..(i - 1))) \cup {i}
      BY <2>5
    <3>2. {asked[k].id : k \in DOMAIN asked \cap (1..i)} =
            {asked[k].id : k \in DOMAIN asked \cap (1..(i - 1))} \cup {asked[i].id}
      BY <3>1
    <3>3. after = Add(r, before, asked[i]) /\ asked[i] \in Requests
      BY <2>2, <2>5
    <3> HIDE DEF before, after
    <3>4. /\ after \in Seq(Entries)
          /\ Ids(after) = Ids(before) \cup {asked[i].id}
          /\ Supported(before) => Supported(after)
          /\ \/ after = before
             \/ /\ Len(after) = Len(before) + 1
                /\ \A k \in 1..Len(before) : after[k] = before[k]
                /\ after[Len(after)].at = asked[i].at
      <4>1. PICK b : b = before
        OBVIOUS
      <4>2. b \in Seq(Entries) /\ asked[i] \in Requests
        BY <2>1, <3>3, <4>1
      <4>3. PICK q \in Requests : q = asked[i]
        BY <4>2
      <4>4. /\ Add(r, b, q) \in Seq(Entries)
            /\ Ids(Add(r, b, q)) = Ids(b) \cup {q.id}
        BY <4>2, AddOne
      <4>5. /\ Supported(b) => Supported(Add(r, b, q))
            /\ Add(r, b, q) = b \/ IsLonger(b, Add(r, b, q), q)
        BY <4>2, AddOne
      <4> QED BY <3>3, <4>1, <4>3, <4>4, <4>5 DEF IsLonger
    <3>5. asked[i].at[1] = n /\ asked[i].at[2] = i
      <4>1. asked[i].at = <<n, i>>
        BY <2>5
      <4> QED BY <4>1
    <3>6. Ids(after) = Ids(list) \cup {asked[k].id : k \in DOMAIN asked \cap (1..i)}
      BY <2>1, <3>2, <3>4
    <3>7. Supported(list) => Supported(after)
      BY <2>1, <3>4
    <3>8. CASE after = before
      <4>1. \A k \in DOMAIN after :
              \/ after[k].at[1] < n
              \/ after[k].at[1] = n /\ after[k].at[2] <= i
        BY <2>1, <2>3, <3>8
      <4> QED BY <2>1, <3>4, <3>6, <3>7, <3>8, <4>1 DEF after
    <3>9. CASE /\ Len(after) = Len(before) + 1
               /\ \A k \in 1..Len(before) : after[k] = before[k]
               /\ after[Len(after)].at = asked[i].at
      <4>1. /\ Len(before) \in Nat
            /\ DOMAIN before = 1..Len(before)
            /\ DOMAIN after = 1..(Len(before) + 1)
        BY <2>1, <3>4, <3>9
      <4>2. \A k \in DOMAIN after : k \in DOMAIN before \/ k = Len(before) + 1
        BY <4>1
      <4>3. /\ after[Len(before) + 1].at[1] = n
            /\ after[Len(before) + 1].at[2] = i
        BY <3>5, <3>9
      <4>4. \A k \in DOMAIN after :
              \/ after[k].at[1] < n
              \/ after[k].at[1] = n /\ after[k].at[2] <= i
        BY <2>1, <2>3, <3>9, <4>1, <4>2, <4>3
      <4>5. Ordered(before) => Ordered(after)
        <5> SUFFICES ASSUME Ordered(before), NEW j \in DOMAIN after, NEW k \in DOMAIN after,
                            j < k, Later(after[j].at, after[k].at)
                     PROVE  after[k].waited
          BY DEF Ordered
        <5>1. CASE k = Len(before) + 1
          <6>1. j \in DOMAIN before /\ after[j] = before[j]
            BY <3>9, <4>1, <5>1
          <6>2. \/ after[j].at[1] < n
                \/ after[j].at[1] = n /\ after[j].at[2] <= i - 1
            BY <2>1, <6>1
          <6>3. after[j].at[1] \in Nat /\ after[j].at[2] \in Nat
            BY <2>3, <6>1
          <6>4. ~Later(after[j].at, after[k].at)
            BY <4>3, <5>1, <6>2, <6>3 DEF Later
          <6> QED BY <6>4
        <5>2. CASE k \in DOMAIN before
          <6>1. j \in DOMAIN before /\ after[j] = before[j] /\ after[k] = before[k]
            BY <3>9, <4>1, <5>2
          <6>2. before[k].waited
            BY <5>2, <6>1 DEF Ordered
          <6> QED BY <6>1, <6>2
        <5> QED BY <4>2, <5>1, <5>2
      <4> QED BY <2>1, <3>4, <3>6, <3>7, <4>4, <4>5 DEF after
    <3> QED BY <3>4, <3>8, <3>9
  <2> QED BY <2>4, <2>5
<1>6. Bad = {}
  <2> SUFFICES ASSUME Bad # {} PROVE FALSE
    OBVIOUS
  <2>1. PICK i \in Bad : \A j \in Bad : i <= j
    <3>1. Bad \in SUBSET Nat
      OBVIOUS
    <3> HIDE DEF Bad
    <3> QED BY <3>1, Least
  <2> HIDE DEF Good
  <2>2. i # 0 /\ i \in 0..length
    BY <1>4, <2>1
  <2>3. i \in 1..length /\ i - 1 \in 0..length /\ ~(i <= i - 1)
    BY <2>2
  <2>4. Good(i - 1)
    BY <2>1, <2>3
  <2> QED BY <1>5, <2>1, <2>3, <2>4
<1>7. Good(length)
  <2> HIDE DEF Good
  <2> QED BY <1>6
<1>8. DOMAIN asked \cap (1..length) = DOMAIN asked
  OBVIOUS
<1>9. ASSUME NEW k \in DOMAIN more PROVE more[k].at[1] < n + 1
  <2>1. more \in Seq(Entries) /\ (more[k].at[1] < n \/ more[k].at[1] = n)
    BY <1>1, <1>7
  <2>2. more[k].at \in Nat \X Nat
    BY <2>1, PlaceType
  <2> QED BY <2>1, <2>2
<1>10. more \in Seq(Entries)
  BY <1>1, <1>7
<1>11. Ids(more) = Ids(list) \cup RequestedIds(asked)
  BY <1>1, <1>7, <1>8 DEF RequestedIds
<1>12. /\ Supported(list) => Supported(more)
       /\ Ordered(list) => Ordered(more)
  BY <1>1, <1>7
<1>13. FromBefore(n + 1, more)
  BY <1>9 DEF FromBefore
<1> QED BY <1>10, <1>11, <1>12, <1>13 DEF more
-----------------------------------------------------------------------------
(* What the steps do to the rounds.                                          *)

NoVotes == [m \in Members |-> None]

\* Round r is in the map, and nothing but links has changed in the others.
LEMMA RoundMade ==
  ASSUME TypeInv, NEW r \in Nat, ~Obsolete(r)
  PROVE  /\ Maps(WithRound(r))
         /\ r \in DOMAIN WithRound(r)
         /\ DOMAIN WithRound(r) \subseteq DOMAIN rounds \cup {r}
         /\ \A q \in DOMAIN rounds : ~Obsolete(q) => q \in DOMAIN WithRound(r)
         /\ \A q \in DOMAIN WithRound(r) :
              \/ /\ q \in DOMAIN rounds
                 /\ WithRound(r)[q].initialized = rounds[q].initialized
                 /\ WithRound(r)[q].listed = rounds[q].listed
                 /\ WithRound(r)[q].votes = rounds[q].votes
              \/ /\ q = r /\ r \notin DOMAIN rounds
                 /\ WithRound(r)[q].listed = <<>>
                 /\ WithRound(r)[q].votes = NoVotes
PROOF
<1>1. CASE r \in DOMAIN rounds
  <2>1. WithRound(r) = rounds
    BY <1>1, RoundThere
  <2>2. Maps(rounds)
    BY DEF TypeInv
  <2> QED BY <1>1, <2>1, <2>2
<1>2. CASE r \notin DOMAIN rounds
  <2>1. Linked(r) \in BOOLEAN
    BY DEF Linked
  <2>2. NewRound(Linked(r)).listed = <<>> /\ NewRound(Linked(r)).votes = NoVotes
    BY DEF NewRound, NoVotes
  <2>3. /\ Maps(WithRound(r))
        /\ DOMAIN WithRound(r) = {p \in DOMAIN rounds \cup {r} : ~Obsolete(p)}
        /\ r \in DOMAIN WithRound(r) /\ WithRound(r)[r] = NewRound(Linked(r))
    BY <1>2, RoundCreated
  <2>4. \A q \in DOMAIN WithRound(r) : q # r =>
          /\ q \in DOMAIN rounds
          /\ WithRound(r)[q].initialized = rounds[q].initialized
          /\ WithRound(r)[q].listed = rounds[q].listed
          /\ WithRound(r)[q].votes = rounds[q].votes
    <3>1. ASSUME NEW q \in DOMAIN WithRound(r), q # r
          PROVE  q \in DOMAIN rounds /\ WithRound(r)[q].initialized = rounds[q].initialized
      BY <1>2, <3>1, RoundCreated
    <3>2. ASSUME NEW q \in DOMAIN WithRound(r), q # r
          PROVE  WithRound(r)[q].listed = rounds[q].listed
      BY <1>2, <3>2, RoundCreated
    <3>3. ASSUME NEW q \in DOMAIN WithRound(r), q # r
          PROVE  WithRound(r)[q].votes = rounds[q].votes
      BY <1>2, <3>3, RoundCreated
    <3> QED BY <3>1, <3>2, <3>3
  <2>5. WithRound(r)[r].listed = <<>> /\ WithRound(r)[r].votes = NoVotes
    BY <2>2, <2>3
  <2> QED BY <1>2, <2>3, <2>4, <2>5
<1> QED BY <1>1, <1>2

\* The block that is read, its round, and what its votes and its time do.
ReadRound == Epoch(Block(next).time)
ReadRounds(rs) == WithClosed(WithVotes(rs, Block(next)), Block(next))

\* Votes of the block that is read count for round r.
VotesFor(r) ==
  BitVoteEpoch(Block(next).time) # None /\ r = VotedRound(Block(next))

\* What the votes of a block change: the latest votes of rounds that are initialized.
LEMMA ReadHandled ==
  ASSUME TypeInv, next <= Height, NEW rs, Maps(rs)
  PROVE  /\ DOMAIN ReadRounds(rs) = DOMAIN rs
         /\ Maps(ReadRounds(rs))
         /\ \A r \in DOMAIN rs :
              /\ ReadRounds(rs)[r].initialized = rs[r].initialized
              /\ ReadRounds(rs)[r].prev = rs[r].prev
              /\ ReadRounds(rs)[r].next = rs[r].next
              /\ ReadRounds(rs)[r].listed = rs[r].listed
              /\ ReadRounds(rs)[r].votes =
                   IF VotesFor(r) /\ rs[r].initialized
                   THEN UpdatedVotes(rs[r], Block(next), r) ELSE rs[r].votes
PROOF
<1>1. next \in 0..Height
  BY BlockType DEF TypeInv
<1>2. PICK block \in FlareBlocks : block = Block(next)
  BY <1>1, BlockType
<1>3. PICK voted : voted = WithVotes(rs, block)
  OBVIOUS
<1>4. /\ DOMAIN voted = DOMAIN rs
      /\ Maps(voted)
      /\ \A r \in DOMAIN rs :
              /\ voted[r].initialized = rs[r].initialized
              /\ voted[r].prev = rs[r].prev
              /\ voted[r].next = rs[r].next
              /\ voted[r].listed = rs[r].listed
              /\ voted[r].votes =
                   IF VotesFor(r) /\ rs[r].initialized
                   THEN UpdatedVotes(rs[r], block, r) ELSE rs[r].votes
  BY <1>2, <1>3, VotesHandled DEF VotesFor
<1>5. ReadRounds(rs) = WithClosed(voted, block)
  BY <1>2, <1>3 DEF ReadRounds
<1>6. /\ DOMAIN WithClosed(voted, block) = DOMAIN voted
      /\ Maps(WithClosed(voted, block))
      /\ \A r \in DOMAIN voted :
              /\ WithClosed(voted, block)[r].initialized = voted[r].initialized
              /\ WithClosed(voted, block)[r].prev = voted[r].prev
              /\ WithClosed(voted, block)[r].next = voted[r].next
              /\ WithClosed(voted, block)[r].listed = voted[r].listed
              /\ WithClosed(voted, block)[r].votes = voted[r].votes
  BY <1>4, TimeHandled
<1> QED BY <1>2, <1>4, <1>5, <1>6

SkipStep ==
  /\ pc = "running" /\ next <= Height
  /\ TooEarly(ReadRound) \/ DOMAIN RequestsOf(next) = {}
  /\ rounds' = ReadRounds(rounds)
  /\ next' = next + 1
  /\ UNCHANGED <<external, pc, startRound, waiting, updating, managers, config>>

Waiting(r, asked) ==
  {[round |-> r, request |-> [asked[i] EXCEPT !.waited = TRUE]] : i \in DOMAIN asked}

\* The list of the round of the block with the requests of the block.
ReadList ==
  AddAll(ReadRound, ReadRounds(WithRound(ReadRound))[ReadRound].listed,
         RequestsOf(next), Len(Block(next).log))

ListStep ==
  /\ pc = "running" /\ next <= Height
  /\ ~TooEarly(ReadRound)
  /\ managers' = WithSources(ReadRound)
  /\ next' = next + 1
  /\ LET rs == ReadRounds(WithRound(ReadRound))
     IN  \/ /\ rs[ReadRound].initialized
            /\ rounds' = [rs EXCEPT ![ReadRound].listed = ReadList]
            /\ waiting' = waiting
         \/ /\ ~rs[ReadRound].initialized
            /\ rounds' = rs
            /\ waiting' = waiting \cup Waiting(ReadRound, RequestsOf(next))
  /\ UNCHANGED <<external, pc, startRound, updating, config>>

\* The round has no router, or the source of a request has no manager.
LeaveStep ==
  /\ pc = "running" /\ next <= Height
  /\ \/ Exit("noRouter")
     \/ /\ ~TooEarly(ReadRound)
        /\ MissesSource(ReadList, DOMAIN WithSources(ReadRound))
        /\ Exit("noSource")

\* A block is left out, is listed for its round, or ends the process.
LEMMA ReadCases ==
  ASSUME ReadBlock
  PROVE  SkipStep \/ ListStep \/ LeaveStep
PROOF
<1> DEFINE asked == IF TooEarly(ReadRound) THEN <<>> ELSE RequestsOf(next)
<1>1. CASE DOMAIN asked = {}
  <2>1. TooEarly(ReadRound) \/ DOMAIN RequestsOf(next) = {}
    BY <1>1
  <2>2. /\ rounds' = ReadRounds(rounds)
        /\ next' = next + 1
        /\ UNCHANGED <<external, pc, startRound, waiting, updating, managers, config>>
    BY <1>1 DEF ReadBlock, ReadRound, ReadRounds
  <2> QED BY <2>1, <2>2 DEF SkipStep, ReadBlock
<1>2. CASE DOMAIN asked # {}
  <2>1. ~TooEarly(ReadRound) /\ asked = RequestsOf(next)
    <3>1. DOMAIN <<>> = {}
      OBVIOUS
    <3> QED BY <1>2, <3>1
  <2> DEFINE rs == ReadRounds(WithRound(ReadRound))
  <2>2. \/ Exit("noRouter")
        \/ /\ MissesSource(ReadList, DOMAIN WithSources(ReadRound))
           /\ Exit("noSource")
        \/ /\ managers' = WithSources(ReadRound)
           /\ next' = next + 1
           /\ rounds' = IF rs[ReadRound].initialized
                        THEN [rs EXCEPT ![ReadRound].listed = ReadList] ELSE rs
           /\ waiting' = IF rs[ReadRound].initialized THEN waiting
                         ELSE waiting \cup Waiting(ReadRound, RequestsOf(next))
           /\ UNCHANGED <<external, pc, startRound, updating, config>>
    BY <1>2, <2>1, Zenon DEF ReadBlock, ReadRound, ReadRounds, ReadList, Waiting
  <2>3. pc = "running" /\ next <= Height
    BY DEF ReadBlock
  <2> HIDE DEF rs, asked
  <2>4. CASE Exit("noRouter")
    BY <2>3, <2>4 DEF LeaveStep
  <2>5. CASE MissesSource(ReadList, DOMAIN WithSources(ReadRound)) /\ Exit("noSource")
    BY <2>1, <2>3, <2>5 DEF LeaveStep
  <2>6. CASE /\ managers' = WithSources(ReadRound)
             /\ next' = next + 1
             /\ rounds' = IF rs[ReadRound].initialized
                          THEN [rs EXCEPT ![ReadRound].listed = ReadList] ELSE rs
             /\ waiting' = IF rs[ReadRound].initialized THEN waiting
                           ELSE waiting \cup Waiting(ReadRound, RequestsOf(next))
             /\ UNCHANGED <<external, pc, startRound, updating, config>>
    BY <2>1, <2>3, <2>6 DEF ListStep, rs
  <2> QED BY <2>2, <2>4, <2>5, <2>6
<1> QED BY <1>1, <1>2
\* The block that is read is of a round that cleanup has not reached.
LEMMA ReadRoundKept ==
  ASSUME BaseInv, pc = "running", next <= Height
  PROVE  /\ next \in 0..Height
         /\ ReadRound \in Nat /\ ReadRound <= Epoch(now)
         /\ ~TooEarly(ReadRound) => /\ startRound <= ReadRound
                                    /\ ReadRound > Epoch(now) - KeepRounds
                                    /\ ~Obsolete(ReadRound)
PROOF
<1>1. next \in 0..Height
  BY BlockType DEF BaseInv, TypeInv
<1>2. ReadRound \in Nat /\ Block(next).time \in Nat /\ now \in Nat /\ Epoch(now) \in Nat
  BY <1>1, BlockType, EpochBounds DEF BaseInv, ReadRound, FlareBlocks, TypeInv
<1>3. ReadRound <= Epoch(now)
  BY <1>1, <1>2, EpochMonotone DEF BaseInv, TimesInv, ReadRound
<1>4. ASSUME ~TooEarly(ReadRound)
      PROVE  startRound <= ReadRound /\ ReadRound > Epoch(now) - KeepRounds
  <2>1. startRound \in Nat /\ next \in Nat
    BY DEF BaseInv, TypeInv
  <2>2. ~Handled(next)
    BY <2>1 DEF Handled
  <2>3. ReadRound > Epoch(now) - KeepRounds
    BY <1>1, <1>4, <2>2 DEF BaseInv, LagInv, ReadRound, Running
  <2> QED BY <1>2, <1>4, <2>1, <2>3 DEF TooEarly
<1> QED BY <1>1, <1>2, <1>3, <1>4 DEF Obsolete

\* The list of a round once the requests of the block have been put in their places.
LEMMA ReadListed ==
  ASSUME BaseInv, pc = "running", next <= Height, ~TooEarly(ReadRound)
  PROVE  /\ ReadList \in Seq(Entries)
         /\ Ids(ReadList) =
              Ids(WithRound(ReadRound)[ReadRound].listed) \cup RequestedIds(RequestsOf(next))
         /\ Supported(WithRound(ReadRound)[ReadRound].listed) => Supported(ReadList)
         /\ Ordered(WithRound(ReadRound)[ReadRound].listed) => Ordered(ReadList)
         /\ FromBefore(next + 1, ReadList)
PROOF
<1>1. PICK r \in Nat : r = ReadRound
  BY ReadRoundKept
<1>2. next \in 0..Height /\ ~Obsolete(r) /\ TypeInv
  BY <1>1, ReadRoundKept DEF BaseInv
<1>3. PICK rs : rs = WithRound(r)
  OBVIOUS
<1>4. /\ Maps(rs) /\ r \in DOMAIN rs
      /\ \/ r \in DOMAIN rounds /\ rs[r].listed = rounds[r].listed
         \/ rs[r].listed = <<>>
  BY <1>2, <1>3, RoundMade
<1>5. PICK list : list = rs[r].listed
  OBVIOUS
<1>6. list \in Seq(Entries)
  BY <1>4, <1>5 DEF Maps, RoundRecords
<1>7. FromBefore(next, list)
  <2>1. CASE r \in DOMAIN rounds /\ list = rounds[r].listed
    BY <2>1 DEF BaseInv, ReadBefore
  <2>2. CASE list = <<>>
    BY <2>2 DEF FromBefore
  <2> QED BY <1>4, <1>5, <2>1, <2>2
<1>8. ReadRounds(rs)[r].listed = list
  BY <1>2, <1>4, <1>5, ReadHandled
<1>9. PICK asked : asked = RequestsOf(next)
  OBVIOUS
<1>10. PICK length : length = Len(Block(next).log)
  OBVIOUS
<1>11. length \in Nat
  BY <1>2, <1>10, BlockType, LogType DEF FlareBlocks
<1>12. /\ DOMAIN asked \subseteq 1..length
       /\ \A i \in DOMAIN asked : asked[i] \in Requests /\ asked[i].at = <<next, i>>
  BY <1>2, <1>9, <1>10, RequestType
<1>13. PICK n \in Nat : n = next
  BY <1>2 DEF TypeInv
<1>14. ReadList = AddAll(r, list, asked, length)
  BY <1>1, <1>3, <1>8, <1>9, <1>10 DEF ReadList
<1>15. /\ AddAll(r, list, asked, length) \in Seq(Entries)
       /\ Ids(AddAll(r, list, asked, length)) = Ids(list) \cup RequestedIds(asked)
       /\ Supported(list) => Supported(AddAll(r, list, asked, length))
       /\ Ordered(list) => Ordered(AddAll(r, list, asked, length))
       /\ FromBefore(n + 1, AddAll(r, list, asked, length))
  <2>1. FromBefore(n, list)
    BY <1>7, <1>13
  <2>2. \A i \in DOMAIN asked : asked[i] \in Requests /\ asked[i].at = <<n, i>>
    BY <1>12, <1>13
  <2> QED BY <1>6, <1>11, <1>12, <2>1, <2>2, AddMany
<1> QED BY <1>1, <1>3, <1>5, <1>9, <1>13, <1>14, <1>15

\* The rounds after a block with requests for round r has been read.
LEMMA ListEffect ==
  ASSUME BaseInv, ListStep, NEW r, r = ReadRound
  PROVE  /\ Maps(rounds')
         /\ DOMAIN rounds' = DOMAIN WithRound(r)
         /\ \A q \in DOMAIN rounds' :
              /\ rounds'[q].initialized = WithRound(r)[q].initialized
              /\ rounds'[q].prev = WithRound(r)[q].prev
              /\ rounds'[q].next = WithRound(r)[q].next
              /\ rounds'[q].listed =
                   IF q = r /\ WithRound(r)[q].initialized THEN ReadList
                   ELSE WithRound(r)[q].listed
              /\ rounds'[q].votes =
                   IF VotesFor(q) /\ WithRound(r)[q].initialized
                   THEN UpdatedVotes(WithRound(r)[q], Block(next), q)
                   ELSE WithRound(r)[q].votes
         /\ waiting' = IF WithRound(r)[r].initialized THEN waiting
                       ELSE waiting \cup Waiting(r, RequestsOf(next))
PROOF
<1>1. /\ next <= Height /\ pc = "running" /\ ~TooEarly(ReadRound) /\ TypeInv
      /\ r \in Nat /\ ~Obsolete(r)
  BY ReadRoundKept DEF ListStep, BaseInv
<1>2. PICK rs : rs = WithRound(r)
  OBVIOUS
<1>3. Maps(rs) /\ r \in DOMAIN rs
  BY <1>1, <1>2, RoundMade
<1>4. PICK read : read = ReadRounds(rs)
  OBVIOUS
<1>5. /\ DOMAIN read = DOMAIN rs
      /\ Maps(read)
      /\ \A q \in DOMAIN rs :
              /\ read[q].initialized = rs[q].initialized
              /\ read[q].prev = rs[q].prev
              /\ read[q].next = rs[q].next
              /\ read[q].listed = rs[q].listed
              /\ read[q].votes =
                   IF VotesFor(q) /\ rs[q].initialized
                   THEN UpdatedVotes(rs[q], Block(next), q) ELSE rs[q].votes
  BY <1>1, <1>3, <1>4, ReadHandled
<1>6. \/ /\ read[r].initialized
         /\ rounds' = [read EXCEPT ![r].listed = ReadList]
         /\ waiting' = waiting
      \/ /\ ~read[r].initialized
         /\ rounds' = read
         /\ waiting' = waiting \cup Waiting(r, RequestsOf(next))
  BY <1>2, <1>4 DEF ListStep
<1>7. CASE /\ ~read[r].initialized
           /\ rounds' = read
           /\ waiting' = waiting \cup Waiting(r, RequestsOf(next))
  BY <1>2, <1>3, <1>5, <1>7
<1>8. CASE /\ read[r].initialized
           /\ rounds' = [read EXCEPT ![r].listed = ReadList]
           /\ waiting' = waiting
  <2>1. ReadList \in Seq(Entries)
    BY <1>1, ReadListed
  <2>2. read \in [DOMAIN read -> RoundRecords] /\ r \in DOMAIN read /\ DOMAIN read \subseteq Nat
    BY <1>3, <1>5 DEF Maps
  <2>3. /\ [read[r] EXCEPT !.listed = ReadList] \in RoundRecords
        /\ [read[r] EXCEPT !.listed = ReadList].initialized = read[r].initialized
        /\ [read[r] EXCEPT !.listed = ReadList].prev = read[r].prev
        /\ [read[r] EXCEPT !.listed = ReadList].next = read[r].next
        /\ [read[r] EXCEPT !.listed = ReadList].listed = ReadList
        /\ [read[r] EXCEPT !.listed = ReadList].votes = read[r].votes
    BY <2>1, <2>2 DEF RoundRecords
  <2>4. /\ DOMAIN rounds' = DOMAIN read
        /\ rounds' \in [DOMAIN read -> RoundRecords]
        /\ \A q \in DOMAIN read :
             rounds'[q] = IF q = r THEN [read[r] EXCEPT !.listed = ReadList] ELSE read[q]
    BY <1>8, <2>2, <2>3
  <2>5. Maps(rounds')
    BY <2>2, <2>4 DEF Maps
  <2>6. \A q \in DOMAIN read :
              /\ rounds'[q].initialized = read[q].initialized
              /\ rounds'[q].prev = read[q].prev
              /\ rounds'[q].next = read[q].next
              /\ rounds'[q].listed = IF q = r THEN ReadList ELSE read[q].listed
              /\ rounds'[q].votes = read[q].votes
    BY <2>3, <2>4
  <2>7. rs[r].initialized
    BY <1>3, <1>5, <1>8
  <2> QED BY <1>2, <1>3, <1>5, <1>8, <2>4, <2>5, <2>6, <2>7
<1> QED BY <1>6, <1>7, <1>8
\* What initialize changes in a round: that it has been initialized.
LEMMA InitializedEffect ==
  ASSUME TypeInv, NEW r \in DOMAIN rounds
  PROVE  /\ Maps(Initialized(r))
         /\ DOMAIN Initialized(r) = DOMAIN rounds
         /\ Initialized(r)[r].initialized
         /\ \A q \in DOMAIN rounds :
              /\ q # r => Initialized(r)[q].initialized = rounds[q].initialized
              /\ Initialized(r)[q].prev = rounds[q].prev
              /\ Initialized(r)[q].next = rounds[q].next
              /\ Initialized(r)[q].listed = rounds[q].listed
              /\ Initialized(r)[q].votes = rounds[q].votes
PROOF
<1> DEFINE round == [rounds[r] EXCEPT !.initialized = TRUE]
<1>1. /\ rounds \in [DOMAIN rounds -> RoundRecords] /\ DOMAIN rounds \subseteq Nat
      /\ rounds[r] \in RoundRecords
  BY DEF TypeInv, Maps
<1>2. /\ round \in RoundRecords
      /\ round.initialized = TRUE
      /\ round.prev = rounds[r].prev
      /\ round.next = rounds[r].next
      /\ round.listed = rounds[r].listed
      /\ round.votes = rounds[r].votes
  BY <1>1 DEF RoundRecords
<1>3. /\ DOMAIN Initialized(r) = DOMAIN rounds
      /\ Initialized(r) \in [DOMAIN rounds -> RoundRecords]
      /\ \A q \in DOMAIN rounds : Initialized(r)[q] = IF q = r THEN round ELSE rounds[q]
  BY <1>1, <1>2 DEF Initialized
<1> HIDE DEF round
<1>4. Maps(Initialized(r))
  BY <1>1, <1>3 DEF Maps
<1> QED BY <1>2, <1>3, <1>4

\* A request that has waited is in the list, and so are the others.
LEMMA ContinuesIds ==
  ASSUME BaseInv, NEW w \in waiting, NEW r, r = w.round, NEW list,
         list = Add(r, rounds[r].listed, w.request)
  PROVE  Ids(rounds[r].listed) \subseteq Ids(list) /\ w.request.id \in Ids(list)
PROOF
<1>1. PICK before : before = rounds[r].listed
  OBVIOUS
<1>2. PICK request : request = w.request
  OBVIOUS
<1>3. before \in Seq(Entries) /\ request \in Requests
  <2>1. r \in DOMAIN rounds
    BY DEF BaseInv, LagInv
  <2>2. rounds[r] \in RoundRecords
    BY <2>1 DEF BaseInv, TypeInv, Maps
  <2>3. w \in [round : Nat, request : Requests]
    BY DEF BaseInv, TypeInv
  <2> QED BY <1>1, <1>2, <2>2, <2>3 DEF RoundRecords
<1>4. list = Add(r, before, request)
  BY <1>1, <1>2
<1>5. Ids(Add(r, before, request)) = Ids(before) \cup {request.id}
  BY <1>3, AddOne
<1> QED BY <1>1, <1>2, <1>4, <1>5

\* A round that has been initialised and has one more request.
LEMMA ContinuesEffect ==
  ASSUME BaseInv, NEW w \in waiting, NEW r, r = w.round, NEW list,
         list = Add(r, rounds[r].listed, w.request),
         rounds' = [Initialized(r) EXCEPT ![r].listed = list]
  PROVE  /\ r \in DOMAIN rounds /\ r > Epoch(now) - KeepRounds
         /\ list \in Seq(Entries)
         /\ Supported(rounds[r].listed) => Supported(list)
         /\ Ordered(rounds[r].listed) => Ordered(list)
         /\ FromBefore(next, list)
         /\ Maps(rounds')
         /\ DOMAIN rounds' = DOMAIN rounds
         /\ rounds'[r].initialized
         /\ \A q \in DOMAIN rounds :
              /\ q # r => rounds'[q].initialized = rounds[q].initialized
              /\ rounds'[q].prev = rounds[q].prev
              /\ rounds'[q].next = rounds[q].next
              /\ rounds'[q].listed = IF q = r THEN list ELSE rounds[q].listed
              /\ rounds'[q].votes = rounds[q].votes
PROOF
<1>1. r \in DOMAIN rounds /\ r > Epoch(now) - KeepRounds /\ TypeInv
  BY DEF BaseInv, LagInv
<1>2. PICK rs : rs = Initialized(r)
  OBVIOUS
<1>3. /\ Maps(rs)
      /\ DOMAIN rs = DOMAIN rounds
      /\ rs[r].initialized
      /\ \A q \in DOMAIN rounds :
              /\ q # r => rs[q].initialized = rounds[q].initialized
              /\ rs[q].prev = rounds[q].prev
              /\ rs[q].next = rounds[q].next
              /\ rs[q].listed = rounds[q].listed
              /\ rs[q].votes = rounds[q].votes
  BY <1>1, <1>2, InitializedEffect
<1>4. PICK before : before = rounds[r].listed
  OBVIOUS
<1>5. PICK request : request = w.request
  OBVIOUS
<1>6. /\ before \in Seq(Entries) /\ request \in Requests
      /\ FromBefore(next, before) /\ request.waited /\ request.at[1] < next
  <2>1. rounds[r] \in RoundRecords
    BY <1>1 DEF TypeInv, Maps
  <2>2. w \in [round : Nat, request : Requests]
    BY <1>1 DEF TypeInv
  <2> QED BY <1>1, <1>4, <1>5, <2>1, <2>2 DEF RoundRecords, BaseInv, ReadBefore
<1>7. list = Add(r, before, request)
  BY <1>4, <1>5
<1>8. /\ Add(r, before, request) \in Seq(Entries)
      /\ Ids(Add(r, before, request)) = Ids(before) \cup {request.id}
      /\ Supported(before) => Supported(Add(r, before, request))
      /\ Add(r, before, request) = before \/ IsLonger(before, Add(r, before, request), request)
  BY <1>6, AddOne
<1>9. /\ list \in Seq(Entries)
      /\ Ids(list) = Ids(before) \cup {request.id}
      /\ Supported(before) => Supported(list)
      /\ list = before \/ IsLonger(before, list, request)
  BY <1>7, <1>8
<1>10. (Ordered(before) => Ordered(list)) /\ FromBefore(next, list)
  <2>1. CASE list = before
    BY <1>6, <2>1
  <2>2. CASE IsLonger(before, list, request)
    <3>1. /\ Len(before) \in Nat
          /\ DOMAIN before = 1..Len(before) /\ DOMAIN list = 1..(Len(before) + 1)
          /\ \A i \in DOMAIN before : list[i] = before[i]
          /\ list[Len(before) + 1].at = request.at
          /\ list[Len(before) + 1].waited = request.waited
      <4>1. Len(list) = Len(before) + 1 /\ Len(before) \in Nat
        BY <1>6, <2>2 DEF IsLonger
      <4>2. DOMAIN before = 1..Len(before) /\ DOMAIN list = 1..Len(list)
        BY <1>6, <1>9
      <4>3. \A i \in 1..Len(before) : list[i] = before[i]
        BY <2>2 DEF IsLonger
      <4>4. /\ list[Len(list)].at = request.at
            /\ list[Len(list)].waited = request.waited
        BY <2>2 DEF IsLonger
      <4> QED BY <4>1, <4>2, <4>3, <4>4
    <3>2. \A i \in DOMAIN list : i \in DOMAIN before \/ i = Len(before) + 1
      BY <3>1
    <3>3. FromBefore(next, list)
      BY <1>6, <3>1, <3>2 DEF FromBefore
    <3>4. Ordered(before) => Ordered(list)
      <4> SUFFICES ASSUME Ordered(before), NEW i \in DOMAIN list, NEW j \in DOMAIN list,
                          i < j, Later(list[i].at, list[j].at)
                   PROVE  list[j].waited
        BY DEF Ordered
      <4>1. CASE j = Len(before) + 1
        BY <1>6, <3>1, <4>1
      <4>2. CASE j \in DOMAIN before
        <5>1. i \in DOMAIN before /\ list[i] = before[i] /\ list[j] = before[j]
          BY <3>1, <4>2
        <5>2. before[j].waited
          BY <4>2, <5>1 DEF Ordered
        <5> QED BY <5>1, <5>2
      <4> QED BY <3>2, <4>1, <4>2
    <3> QED BY <3>3, <3>4
  <2> QED BY <1>9, <2>1, <2>2
<1>11. rounds' = [rs EXCEPT ![r].listed = list]
  BY <1>2
<1>12. /\ Maps(rounds')
       /\ DOMAIN rounds' = DOMAIN rounds
       /\ rounds'[r].initialized
       /\ \A q \in DOMAIN rounds :
              /\ q # r => rounds'[q].initialized = rounds[q].initialized
              /\ rounds'[q].prev = rounds[q].prev
              /\ rounds'[q].next = rounds[q].next
              /\ rounds'[q].listed = IF q = r THEN list ELSE rounds[q].listed
              /\ rounds'[q].votes = rounds[q].votes
  <2> DEFINE round == [rs[r] EXCEPT !.listed = list]
  <2>1. /\ rs \in [DOMAIN rounds -> RoundRecords] /\ DOMAIN rounds \subseteq Nat
        /\ rs[r] \in RoundRecords
    BY <1>1, <1>3 DEF Maps
  <2>2. /\ round \in RoundRecords
        /\ round.initialized = rs[r].initialized
        /\ round.prev = rs[r].prev
        /\ round.next = rs[r].next
        /\ round.listed = list
        /\ round.votes = rs[r].votes
    BY <1>9, <2>1 DEF RoundRecords
  <2>3. /\ DOMAIN rounds' = DOMAIN rounds
        /\ rounds' \in [DOMAIN rounds -> RoundRecords]
        /\ \A q \in DOMAIN rounds : rounds'[q] = IF q = r THEN round ELSE rs[q]
    <3>1. DOMAIN rs = DOMAIN rounds /\ rs \in [DOMAIN rs -> RoundRecords] /\ r \in DOMAIN rs
      BY <1>1, <1>3, <2>1
    <3>2. /\ DOMAIN rounds' = DOMAIN rs
          /\ rounds' \in [DOMAIN rs -> RoundRecords]
          /\ \A q \in DOMAIN rs : rounds'[q] = IF q = r THEN round ELSE rs[q]
      <4>1. rounds' = [rs EXCEPT ![r] = round]
        BY <1>11
      <4>2. round \in RoundRecords
        BY <2>2
      <4> HIDE DEF round
      <4> QED BY ONLY <3>1, <4>1, <4>2
    <3> QED BY <3>1, <3>2
  <2> HIDE DEF round
  <2>4. Maps(rounds')
    BY <2>1, <2>3 DEF Maps
  <2>5. rounds'[r].initialized
    <3>1. rounds'[r].initialized = rs[r].initialized
      BY <1>1, <2>2, <2>3
    <3> QED BY <1>3, <3>1
  <2>6. ASSUME NEW q \in DOMAIN rounds
        PROVE  /\ q # r => rounds'[q].initialized = rounds[q].initialized
               /\ rounds'[q].prev = rounds[q].prev
               /\ rounds'[q].next = rounds[q].next
               /\ rounds'[q].listed = IF q = r THEN list ELSE rounds[q].listed
               /\ rounds'[q].votes = rounds[q].votes
    <3>1. CASE q = r
      <4>1. rounds'[q] = round
        BY <2>3, <3>1
      <4> QED BY <1>1, <1>3, <2>2, <3>1, <4>1
    <3>2. CASE q # r
      <4>1. rounds'[q] = rs[q]
        BY <2>3, <3>2
      <4> QED BY <1>3, <3>2, <4>1
    <3> QED BY <3>1, <3>2
  <2> QED BY <2>3, <2>4, <2>5, <2>6
<1> QED BY <1>1, <1>4, <1>5, <1>9, <1>10, <1>12
-----------------------------------------------------------------------------
(* The invariant that the others rest on.                                    *)

\* The invariant holds at first.
LEMMA BaseInit ==
  ASSUME Init PROVE BaseInv
PROOF
<1>1. [time |-> 0, log |-> <<>>] \in FlareBlocks
  BY DEF FlareBlocks, AllLogs
<1>2. chain \in Seq(FlareBlocks) /\ chain # <<>> /\ Len(chain) = 1 /\ chain[1].time = 0
  BY <1>1 DEF Init
<1>3. DOMAIN rounds = {} /\ rounds \in [DOMAIN rounds -> RoundRecords]
  BY DEF Init
<1>4. TypeInv
  BY <1>2, <1>3 DEF Init, TypeInv, Maps
<1>5. TimesInv
  BY <1>2 DEF Init, TimesInv, Height, Block
<1>6. PhaseInv /\ LagInv /\ ReadBefore
  BY <1>3 DEF Init, PhaseInv, LagInv, ReadBefore, Running
<1> QED BY <1>4, <1>5, <1>6 DEF BaseInv

\* Configurations are read, or nothing happens.
LEMMA FrameKeeps ==
  ASSUME BaseInv, UNCHANGED <<now, chain, startRound, next, rounds, waiting, updating>>,
         \/ pc' = pc
         \/ pc \in {"off", "loading"} /\ pc' \in {"loading", "connecting"}
  PROVE  BaseInv'
PROOF
<1>1. UNCHANGED <<now, chain, startRound, next, rounds, waiting, updating>>
  OBVIOUS
<1>2. pc' \in {"off", "loading", "connecting", "searching", "running",
               "noRouter", "noSource", "noNode"}
  BY DEF BaseInv, TypeInv
<1>3. TypeInv'
  BY <1>1, <1>2 DEF BaseInv, TypeInv, Maps
<1>4. TimesInv'
  BY <1>1 DEF BaseInv, TimesInv, Height, Block
<1>5. PhaseInv'
  BY <1>1 DEF BaseInv, PhaseInv, Height, Running, Epoch
<1>6. LagInv'
  BY <1>1 DEF BaseInv, LagInv, TooEarly, Handled, Height, Block, Running, Epoch
<1>7. ReadBefore'
  BY <1>1 DEF BaseInv, ReadBefore, FromBefore
<1> QED BY <1>3, <1>4, <1>5, <1>6, <1>7 DEF BaseInv

\* The process ends.
LEMMA ExitKeeps ==
  ASSUME BaseInv, NEW reason \in {"noRouter", "noSource", "noNode"}, Exit(reason)
  PROVE  BaseInv'
PROOF
<1>1. /\ UNCHANGED <<now, chain, startRound, next, rounds>>
      /\ pc' = reason /\ waiting' = {} /\ updating' = None
  BY DEF Exit, external
<1>2. TypeInv'
  BY <1>1 DEF BaseInv, TypeInv, Maps
<1>3. TimesInv'
  BY <1>1 DEF BaseInv, TimesInv, Height, Block
<1>4. PhaseInv' /\ LagInv' /\ ReadBefore'
  BY <1>1 DEF BaseInv, PhaseInv, LagInv, ReadBefore, FromBefore, Running, Epoch
<1> QED BY <1>2, <1>3, <1>4 DEF BaseInv

\* A unit of time keeps the invariant.
LEMMA TickKeeps ==
  ASSUME BaseInv, Tick PROVE BaseInv'
PROOF
<1>1. /\ now' = now + 1 /\ now \in Nat
      /\ UNCHANGED <<chain, pc, startRound, next, rounds, waiting, updating>>
  BY DEF Tick, BaseInv, TypeInv
<1>2. Epoch(now) \in Nat /\ Epoch(now') \in Nat /\ Epoch(now) <= Epoch(now')
  BY <1>1, EpochBounds, EpochMonotone
<1>3. TypeInv'
  BY <1>1 DEF BaseInv, TypeInv, Maps
<1>4. \A n \in 0..Height : Block(n).time \in Nat /\ Epoch(Block(n).time) \in Nat
  BY BlockType DEF BaseInv, FlareBlocks
<1>5. TimesInv'
  <2> DEFINE time(n) == Block(n).time
             last == Height
  <2>1. /\ Height' = last /\ \A n : Block(n).time' = time(n)
    BY <1>1 DEF Height, Block
  <2>2. /\ \A n \in 0..last : time(n) \in Nat /\ time(n) <= now
        /\ \A n \in 0..last : \A m \in 0..n : time(m) <= time(n)
    BY <1>4 DEF BaseInv, TimesInv
  <2> HIDE DEF time, last
  <2>3. \A n \in 0..last : time(n) <= now'
    BY <1>1, <2>2
  <2> QED BY <2>1, <2>2, <2>3 DEF TimesInv
<1>6. PhaseInv'
  <2>1. startRound \in Nat /\ DOMAIN rounds \subseteq Nat
    BY DEF BaseInv, TypeInv, Maps
  <2>2. \A r \in DOMAIN rounds : startRound <= r /\ r <= Epoch(now')
    BY <1>2, <2>1 DEF BaseInv, PhaseInv
  <2>3. pc \in Running => startRound <= Epoch(now')
    BY <1>2, <2>1 DEF BaseInv, PhaseInv
  <2>4. Height' = Height /\ Epoch(now)' = Epoch(now')
    BY <1>1 DEF Height, Epoch
  <2> QED BY <1>1, <2>2, <2>3, <2>4 DEF BaseInv, PhaseInv, Running
<1>7. LagInv'
  <2>1. /\ \A n \in 0..Height :
             Epoch(Block(n).time) <= Epoch(now') - KeepRounds /\ pc # "off" => Handled(n)
        /\ \A w \in waiting : w.round > Epoch(now') - KeepRounds
    BY <1>1 DEF Tick
  <2>2. pc \in Running => \A n \in 0..Height :
          ~Handled(n) => Epoch(Block(n).time) > Epoch(now') - KeepRounds
    BY <1>2, <1>4, <2>1 DEF Running
  <2>3. /\ Epoch(now)' = Epoch(now') /\ Height' = Height
        /\ \A n \in 0..Height : /\ Handled(n)' = Handled(n)
                                /\ Epoch(Block(n).time)' = Epoch(Block(n).time)
    BY <1>1 DEF Height, Epoch, Handled, Block
  <2> QED BY <1>1, <2>1, <2>2, <2>3 DEF BaseInv, LagInv, Running
<1>8. ReadBefore'
  BY <1>1 DEF BaseInv, ReadBefore, FromBefore
<1> QED BY <1>3, <1>5, <1>6, <1>7, <1>8 DEF BaseInv
\* The blocks there were stay as they are.
LEMMA MinedBlock ==
  ASSUME BaseInv, MineBlock
  PROVE  /\ chain' \in Seq(FlareBlocks) /\ chain' # <<>>
         /\ Height' = Height + 1
         /\ \A n \in 0..Height : Block(n)' = Block(n)
         /\ \A n \in Nat : n = Height + 1 => Block(n)'.time = now
PROOF
<1>1. /\ chain \in Seq(FlareBlocks) /\ Len(chain) \in Nat /\ Len(chain) = Height + 1
      /\ Height \in Nat /\ now \in Nat
  BY BlockType DEF BaseInv, TypeInv
<1>2. PICK log \in Logs[Height + 1] : chain' = Append(chain, [time |-> now, log |-> log])
  BY DEF MineBlock
<1>3. log \in AllLogs
  <2>1. DOMAIN Logs = 1..Len(Logs)
    BY ClientAssumption
  <2>2. Height + 1 \in DOMAIN Logs
    BY <1>1, <2>1 DEF MineBlock
  <2> QED BY <2>2 DEF AllLogs
<1>4. PICK block \in FlareBlocks : block = [time |-> now, log |-> log]
  BY <1>1, <1>3 DEF FlareBlocks
<1>5. block.time = now
  BY <1>4
<1>6. chain' = Append(chain, block)
  BY <1>2, <1>4
<1>7. /\ chain' \in Seq(FlareBlocks) /\ Len(chain') = Len(chain) + 1
      /\ \A i \in 1..Len(chain) : chain'[i] = chain[i]
      /\ chain'[Len(chain) + 1] = block
  BY <1>1, <1>6
<1>8. Height' = Height + 1
  BY <1>1, <1>7 DEF Height
<1>9. \A n \in 0..Height : Block(n)' = Block(n)
  BY <1>1, <1>7 DEF Block
<1>10. \A n \in Nat : n = Height + 1 => Block(n)'.time = now
  BY <1>1, <1>5, <1>7 DEF Block
<1>11. chain' # <<>>
  BY <1>1, <1>7
<1> QED BY <1>7, <1>8, <1>9, <1>10, <1>11

\* A new Flare block keeps it.
LEMMA MineKeeps ==
  ASSUME BaseInv, MineBlock PROVE BaseInv'
PROOF
<1>1. /\ UNCHANGED <<now, pc, startRound, next, rounds, waiting, updating>>
      /\ now \in Nat /\ Height \in Nat
  BY BlockType DEF MineBlock, BaseInv, TypeInv
<1>2. /\ chain' \in Seq(FlareBlocks) /\ chain' # <<>>
      /\ Height' = Height + 1
      /\ \A n \in 0..Height : Block(n)' = Block(n)
      /\ \A n \in Nat : n = Height + 1 => Block(n)'.time = now
  BY MinedBlock
<1>3. /\ Epoch(now)' = Epoch(now)
      /\ \A n \in 0..Height : Epoch(Block(n).time)' = Epoch(Block(n).time)
      /\ \A n \in Nat : n = Height + 1 => Epoch(Block(n).time)' = Epoch(now)
  BY <1>1, <1>2 DEF Epoch
<1>4. \A n \in 0..(Height + 1) : n \in 0..Height \/ n = Height + 1
  BY <1>1
<1>5. TypeInv'
  BY <1>1, <1>2 DEF BaseInv, TypeInv, Maps
<1>6. TimesInv'
  <2>1. \A n \in 0..Height' : Block(n)'.time <= now'
    BY <1>1, <1>2, <1>4 DEF BaseInv, TimesInv
  <2>2. ASSUME NEW n \in 0..Height', NEW m \in 0..n PROVE Block(m)'.time <= Block(n)'.time
    <3>1. CASE n \in 0..Height
      <4>1. m \in 0..Height
        BY <1>1, <3>1
      <4> QED BY <1>2, <3>1, <4>1 DEF BaseInv, TimesInv
    <3>2. CASE n = Height + 1
      <4>1. Block(n)'.time = now /\ m \in 0..Height'
        BY <1>1, <1>2, <3>2
      <4> QED BY <1>1, <2>1, <4>1
    <3> QED BY <1>2, <1>4, <3>1, <3>2
  <2> QED BY <2>1, <2>2 DEF TimesInv
<1>7. PhaseInv'
  BY <1>1, <1>2, <1>3, BlockType DEF BaseInv, PhaseInv, Running, TypeInv
<1>8. LagInv'
  <2>1. Epoch(now) > Epoch(now) - KeepRounds
    BY <1>1, EpochBounds
  <2>2. ASSUME pc' \in Running, NEW n \in 0..Height',
               ~TooEarly(Epoch(Block(n).time))', ~Handled(n)'
        PROVE  Epoch(Block(n).time)' > Epoch(now)' - KeepRounds
    <3>1. CASE n \in 0..Height
      <4>1. ~TooEarly(Epoch(Block(n).time)) /\ ~Handled(n) /\ pc \in Running
        BY <1>1, <1>3, <2>2, <3>1 DEF TooEarly, Handled, Running
      <4> QED BY <1>3, <3>1, <4>1 DEF BaseInv, LagInv
    <3>2. CASE n = Height + 1
      BY <1>3, <2>1, <3>2
    <3> QED BY <1>2, <1>4, <3>1, <3>2
  <2>3. \A w \in waiting' : w.round \in DOMAIN rounds' /\ w.round > Epoch(now)' - KeepRounds
    BY <1>1, <1>3 DEF BaseInv, LagInv
  <2> QED BY <2>2, <2>3 DEF LagInv
<1>9. ReadBefore'
  BY <1>1 DEF BaseInv, ReadBefore, FromBefore
<1> QED BY <1>5, <1>6, <1>7, <1>8, <1>9 DEF BaseInv
\* The round of the present is not one that cleanup takes out.
LEMMA PresentRound ==
  ASSUME BaseInv
  PROVE  Epoch(now) \in Nat /\ ~Obsolete(Epoch(now)) /\ Epoch(now) > Epoch(now) - KeepRounds
PROOF
<1>1. Epoch(now) \in Nat
  BY EpochBounds DEF BaseInv, TypeInv
<1> QED BY <1>1 DEF Obsolete

\* The start of the round manager keeps it.
LEMMA InitializeKeeps ==
  ASSUME BaseInv, Initialize, HasRouter(Epoch(now)) PROVE BaseInv'
PROOF
<1>1. /\ pc = "connecting" /\ pc' = "searching"
      /\ startRound' = Epoch(now) /\ UpdateRound(Epoch(now))
      /\ UNCHANGED <<now, chain, next, waiting>>
      /\ waiting = {} /\ DOMAIN rounds = {}
  BY DEF Initialize, external, config, BaseInv, PhaseInv, Running
<1>2. PICK r \in Nat : r = Epoch(now) /\ ~Obsolete(r)
  BY PresentRound
<1>3. PICK with : with = WithRound(r)
  OBVIOUS
<1>4. /\ Maps(with) /\ DOMAIN with = {r}
      /\ with[r].listed = <<>> /\ with[r].votes = NoVotes
  <2>1. /\ Maps(with) /\ r \in DOMAIN with /\ DOMAIN with \subseteq DOMAIN rounds \cup {r}
        /\ \A q \in DOMAIN with :
              q \in DOMAIN rounds \/ (with[q].listed = <<>> /\ with[q].votes = NoVotes)
    BY <1>2, <1>3, RoundMade DEF BaseInv
  <2> QED BY <1>1, <2>1
<1>5. rounds' = with /\ updating' \in {None, r}
  BY <1>1, <1>2, <1>3 DEF UpdateRound
<1>6. TypeInv'
  BY <1>1, <1>2, <1>4, <1>5 DEF BaseInv, TypeInv, Maps
<1>7. TimesInv'
  BY <1>1 DEF BaseInv, TimesInv, Height, Block
<1>8. Epoch(now)' = Epoch(now) /\ startRound' = r
  BY <1>1, <1>2 DEF Epoch
<1>9. PhaseInv'
  BY <1>1, <1>2, <1>4, <1>5, <1>8 DEF PhaseInv, Running, NoVotes
<1>10. LagInv'
  <2>1. \A n \in 0..Height' : Epoch(Block(n).time)' \in Nat
    BY <1>1, BlockType DEF BaseInv, Height, Block, Epoch
  <2>2. \A n \in 0..Height' :
          ~TooEarly(Epoch(Block(n).time))' => Epoch(Block(n).time)' > Epoch(now)' - KeepRounds
    BY <1>2, <1>8, <2>1 DEF TooEarly
  <2> QED BY <1>1, <2>2 DEF LagInv
<1>11. ReadBefore'
  BY <1>1, <1>4, <1>5 DEF ReadBefore, FromBefore
<1> QED BY <1>6, <1>7, <1>9, <1>10, <1>11 DEF BaseInv

\* The start of a round's update keeps it.
LEMMA UpdateKeeps ==
  ASSUME BaseInv, StartRoundUpdate, HasRouter(Epoch(now)) PROVE BaseInv'
PROOF
<1>1. /\ pc \in Running /\ UpdateRound(Epoch(now))
      /\ UNCHANGED <<now, chain, pc, startRound, next, waiting>>
  BY DEF StartRoundUpdate, external, config
<1>2. PICK r \in Nat : r = Epoch(now) /\ ~Obsolete(r)
  BY PresentRound
<1>3. PICK with : with = WithRound(r)
  OBVIOUS
<1>4. /\ Maps(with)
      /\ \A q \in DOMAIN rounds : ~Obsolete(q) => q \in DOMAIN with
      /\ \A q \in DOMAIN with :
           \/ /\ q \in DOMAIN rounds
              /\ with[q].listed = rounds[q].listed
              /\ with[q].votes = rounds[q].votes
           \/ /\ q = r
              /\ with[q].listed = <<>>
              /\ with[q].votes = NoVotes
  BY <1>2, <1>3, RoundMade DEF BaseInv
<1>5. rounds' = with /\ updating' \in {None, r}
  BY <1>1, <1>2, <1>3 DEF UpdateRound
<1>6. TypeInv'
  BY <1>1, <1>2, <1>4, <1>5 DEF BaseInv, TypeInv, Maps
<1>7. TimesInv'
  BY <1>1 DEF BaseInv, TimesInv, Height, Block
<1>8. Epoch(now)' = Epoch(now) /\ Height' = Height /\ startRound <= r
  BY <1>1, <1>2 DEF Epoch, Height, BaseInv, PhaseInv
<1>9. PhaseInv'
  <2>1. \A q \in DOMAIN with : startRound <= q /\ q <= r
    BY <1>2, <1>4, <1>8 DEF BaseInv, PhaseInv
  <2>2. pc = "searching" =>
          \A q \in DOMAIN with : with[q].listed = <<>> /\ with[q].votes = NoVotes
    BY <1>4 DEF BaseInv, PhaseInv, NoVotes
  <2> QED BY <1>1, <1>2, <1>5, <1>8, <2>1, <2>2 DEF BaseInv, PhaseInv, Running, NoVotes
<1>10. LagInv'
  <2>1. \A n \in 0..Height : /\ Handled(n)' = Handled(n)
                             /\ Epoch(Block(n).time)' = Epoch(Block(n).time)
                             /\ TooEarly(Epoch(Block(n).time))' = TooEarly(Epoch(Block(n).time))
    BY <1>1 DEF Handled, Epoch, Block, TooEarly
  <2>2. \A w \in waiting : w.round \in DOMAIN with
    <3>1. Epoch(now) \in Nat /\ KeepRounds \in Nat
      BY <1>2, ClientAssumption
    <3>2. ASSUME NEW w \in waiting
          PROVE  w.round \in DOMAIN rounds /\ w.round \in Nat /\ w.round > Epoch(now) - KeepRounds
      BY DEF BaseInv, LagInv, TypeInv
    <3>3. ASSUME NEW w \in waiting PROVE ~Obsolete(w.round)
      BY <3>1, <3>2 DEF Obsolete
    <3> QED BY <1>4, <3>2, <3>3
  <2> QED BY <1>1, <1>5, <1>8, <2>1, <2>2 DEF BaseInv, LagInv, Running
<1>11. ReadBefore'
  <2>1. \A q \in DOMAIN with : FromBefore(next, with[q].listed)
    BY <1>4 DEF BaseInv, ReadBefore, FromBefore
  <2> QED BY <1>1, <1>5, <2>1 DEF BaseInv, ReadBefore, FromBefore
<1> QED BY <1>6, <1>7, <1>9, <1>10, <1>11 DEF BaseInv

\* The rest of a round's update keeps it.
LEMMA UpdatedKeeps ==
  ASSUME BaseInv, RoundUpdated PROVE BaseInv'
PROOF
<1>1. /\ UNCHANGED <<now, chain, pc, startRound, next, waiting>> /\ updating' = None
  BY DEF RoundUpdated, external, config
<1>2. /\ Maps(rounds') /\ DOMAIN rounds' = DOMAIN rounds
      /\ \A q \in DOMAIN rounds : /\ rounds'[q].listed = rounds[q].listed
                                  /\ rounds'[q].votes = rounds[q].votes
  <2>1. PICK r : r = updating
    OBVIOUS
  <2>2. CASE r \in DOMAIN rounds
    BY <2>1, <2>2, InitializedEffect DEF RoundUpdated, BaseInv
  <2>3. CASE r \notin DOMAIN rounds
    BY <2>1, <2>3 DEF RoundUpdated, BaseInv, TypeInv
  <2> QED BY <2>2, <2>3
<1>3. TypeInv'
  BY <1>1, <1>2 DEF BaseInv, TypeInv
<1>4. TimesInv'
  BY <1>1 DEF BaseInv, TimesInv, Height, Block
<1>5. Epoch(now)' = Epoch(now) /\ Height' = Height
  BY <1>1 DEF Epoch, Height
<1>6. PhaseInv'
  BY <1>1, <1>2, <1>5 DEF BaseInv, PhaseInv, Running
<1>7. LagInv'
  <2>1. \A n \in 0..Height : /\ Handled(n)' = Handled(n)
                             /\ Epoch(Block(n).time)' = Epoch(Block(n).time)
                             /\ TooEarly(Epoch(Block(n).time))' = TooEarly(Epoch(Block(n).time))
    BY <1>1 DEF Handled, Epoch, Block, TooEarly
  <2> QED BY <1>1, <1>2, <1>5, <2>1 DEF BaseInv, LagInv, Running
<1>8. ReadBefore'
  BY <1>1, <1>2 DEF BaseInv, ReadBefore, FromBefore
<1> QED BY <1>3, <1>4, <1>6, <1>7, <1>8 DEF BaseInv
\* The blocks before the start block are earlier than the time looked for.
LEMMA StartBlock ==
  ASSUME BaseInv, NEW time \in Nat
  PROVE  /\ BlockBefore(time) \in 0..Height
         /\ \A n \in 0..(BlockBefore(time) - 1) : Block(n).time < time
PROOF
<1> DEFINE tried == {n \in 0..Height : n % Step = Height % Step /\ Block(n).time < time}
           last == CHOOSE n \in tried : \A m \in tried : m <= n
<1>1. Height \in Nat /\ \A n \in 0..Height : Block(n).time \in Nat
  BY BlockType DEF BaseInv, FlareBlocks
<1>2. CASE tried = {}
  <2>1. BlockBefore(time) = 0
    BY <1>2 DEF BlockBefore
  <2> QED BY <1>1, <2>1
<1>3. CASE tried # {}
  <2>1. BlockBefore(time) = last
    BY <1>3 DEF BlockBefore
  <2>2. /\ tried \in SUBSET Nat /\ \A n \in tried : n <= Height
        /\ \A n \in tried : n \in 0..Height /\ Block(n).time < time
    BY <1>1
  <2> HIDE DEF tried
  <2>3. last \in tried
    <3>1. \E n \in tried : \A m \in tried : m <= n
      BY <1>1, <1>3, <2>2, Greatest
    <3> QED BY <3>1
  <2> HIDE DEF last
  <2>4. \A n \in 0..(last - 1) : Block(n).time <= Block(last).time /\ Block(n).time \in Nat
    <3> SUFFICES ASSUME NEW n \in 0..(last - 1)
                 PROVE  Block(n).time <= Block(last).time /\ Block(n).time \in Nat
      OBVIOUS
    <3>1. last \in 0..Height /\ n \in 0..last /\ n \in 0..Height
      BY <1>1, <2>2, <2>3
    <3> QED BY <1>1, <3>1 DEF BaseInv, TimesInv
  <2>5. last \in 0..Height /\ Block(last).time < time /\ Block(last).time \in Nat
    BY <1>1, <2>2, <2>3
  <2> QED BY <2>1, <2>4, <2>5
<1> QED BY <1>2, <1>3

\* The first block that the collector reads keeps it.
LEMMA FindKeeps ==
  ASSUME BaseInv, FindStartBlock PROVE BaseInv'
PROOF
<1>1. /\ UNCHANGED <<now, chain, startRound, rounds, waiting, updating>>
      /\ pc = "searching" /\ pc' = "running"
      /\ next' = BlockBefore(startRound * Period)
      /\ waiting = {}
      /\ \A r \in DOMAIN rounds : rounds[r].listed = <<>>
  BY DEF FindStartBlock, external, config, BaseInv, PhaseInv
<1>2. startRound * Period \in Nat
  BY DEF BaseInv, TypeInv
<1>3. next' \in 0..Height /\ Height \in Nat
  BY <1>1, <1>2, StartBlock, BlockType DEF BaseInv
<1>4. TypeInv'
  BY <1>1, <1>3 DEF BaseInv, TypeInv, Maps
<1>5. TimesInv'
  BY <1>1 DEF BaseInv, TimesInv, Height, Block
<1>6. Epoch(now)' = Epoch(now) /\ Height' = Height
  BY <1>1 DEF Epoch, Height
<1>7. PhaseInv'
  BY <1>1, <1>3, <1>6 DEF BaseInv, PhaseInv, Running
<1>8. LagInv'
  <2>1. \A n \in 0..Height : /\ ~Handled(n)
                             /\ Epoch(Block(n).time)' = Epoch(Block(n).time)
                             /\ TooEarly(Epoch(Block(n).time))' = TooEarly(Epoch(Block(n).time))
    BY <1>1 DEF Handled, Epoch, Block, TooEarly
  <2> QED BY <1>1, <1>6, <2>1 DEF BaseInv, LagInv, Running
<1>9. ReadBefore'
  BY <1>1 DEF ReadBefore, FromBefore
<1> QED BY <1>4, <1>5, <1>7, <1>8, <1>9 DEF BaseInv

\* The time and the chain when a block is read.
LEMMA ReadFrame ==
  ASSUME BaseInv, pc = "running", next <= Height, next' = next + 1,
         UNCHANGED <<now, chain, pc, startRound>>
  PROVE  /\ TimesInv'
         /\ Epoch(now)' = Epoch(now) /\ Height' = Height /\ next' <= Height + 1
         /\ next \in 0..Height /\ next' \in Nat
         /\ \A n \in 0..Height : ~TooEarly(Epoch(Block(n).time))' /\ ~Handled(n)' =>
                                   Epoch(Block(n).time)' > Epoch(now)' - KeepRounds
PROOF
<1>1. next \in 0..Height /\ Height \in Nat
  BY BlockType DEF BaseInv, TypeInv
<1>2. UNCHANGED <<now, chain, pc, startRound>> /\ next' = next + 1
  OBVIOUS
<1>3. TimesInv'
  BY <1>2 DEF BaseInv, TimesInv, Height, Block
<1>4. Epoch(now)' = Epoch(now) /\ Height' = Height
  BY <1>2 DEF Epoch, Height
<1>5. \A n \in 0..Height : /\ ~Handled(n)' => ~Handled(n)
                           /\ Epoch(Block(n).time)' = Epoch(Block(n).time)
                           /\ TooEarly(Epoch(Block(n).time))' = TooEarly(Epoch(Block(n).time))
  BY <1>1, <1>2 DEF Handled, Epoch, Block, TooEarly
<1>6. \A n \in 0..Height : ~TooEarly(Epoch(Block(n).time))' /\ ~Handled(n)' =>
                             Epoch(Block(n).time)' > Epoch(now)' - KeepRounds
  BY <1>4, <1>5 DEF BaseInv, LagInv, Running
<1> QED BY <1>1, <1>2, <1>3, <1>4, <1>6

\* What was read before is still when another block is read.
LEMMA ReadEarlier ==
  ASSUME BaseInv
  PROVE  /\ \A r \in DOMAIN rounds : FromBefore(next + 1, rounds[r].listed)
         /\ \A w \in waiting : w.request.waited /\ w.request.at[1] < next + 1
PROOF
<1>1. next \in Nat
  BY DEF BaseInv, TypeInv
<1>2. ASSUME NEW r \in DOMAIN rounds PROVE FromBefore(next + 1, rounds[r].listed)
  <2>1. PICK list : list = rounds[r].listed
    OBVIOUS
  <2>2. rounds[r] \in RoundRecords
    BY DEF BaseInv, TypeInv, Maps
  <2>3. list \in Seq(Entries)
    BY <2>1, <2>2 DEF RoundRecords
  <2>4. \A k \in DOMAIN list : list[k].at \in Nat \X Nat
    BY <2>3, PlaceType
  <2>5. \A k \in DOMAIN list : list[k].at[1] < next
    BY <2>1 DEF BaseInv, ReadBefore, FromBefore
  <2>6. \A k \in DOMAIN list : list[k].at[1] < next + 1
    BY <1>1, <2>4, <2>5
  <2> QED BY <2>1, <2>6 DEF FromBefore
<1>3. ASSUME NEW w \in waiting PROVE w.request.waited /\ w.request.at[1] < next + 1
  <2>1. w.request.waited /\ w.request.at[1] < next
    BY DEF BaseInv, ReadBefore
  <2>2. w \in [round : Nat, request : Requests]
    BY DEF BaseInv, TypeInv
  <2>3. w.request.at \in Nat \X Nat
    BY <2>2 DEF Requests
  <2> QED BY <1>1, <2>1, <2>3
<1> QED BY <1>2, <1>3

\* A block that is left out keeps it.
LEMMA SkipKeeps ==
  ASSUME BaseInv, SkipStep PROVE BaseInv'
PROOF
<1>1. /\ pc = "running" /\ next <= Height /\ next' = next + 1
      /\ UNCHANGED <<now, chain, pc, startRound, waiting, updating>>
  BY DEF SkipStep, external, config
<1>2. PICK rs : rs = rounds
  OBVIOUS
<1>3. Maps(rs) /\ TypeInv
  BY <1>2 DEF BaseInv, TypeInv
<1>4. rounds' = ReadRounds(rs)
  BY <1>2 DEF SkipStep
<1>5. /\ Maps(rounds') /\ DOMAIN rounds' = DOMAIN rs
      /\ \A q \in DOMAIN rs : rounds'[q].listed = rs[q].listed
  BY <1>1, <1>3, <1>4, ReadHandled
<1>6. /\ TimesInv'
      /\ Epoch(now)' = Epoch(now) /\ Height' = Height /\ next' <= Height + 1
      /\ next \in 0..Height /\ next' \in Nat
      /\ \A n \in 0..Height : ~TooEarly(Epoch(Block(n).time))' /\ ~Handled(n)' =>
                                Epoch(Block(n).time)' > Epoch(now)' - KeepRounds
  BY <1>1, ReadFrame
<1>7. TypeInv'
  BY <1>1, <1>5, <1>6 DEF BaseInv, TypeInv
<1>8. PhaseInv'
  BY <1>1, <1>2, <1>5, <1>6 DEF BaseInv, PhaseInv, Running
<1>9. LagInv'
  BY <1>1, <1>2, <1>5, <1>6 DEF BaseInv, LagInv
<1>10. ReadBefore'
  <2>1. /\ \A q \in DOMAIN rounds : FromBefore(next', rounds[q].listed)
        /\ \A w \in waiting : w.request.waited /\ w.request.at[1] < next'
    BY <1>1, ReadEarlier
  <2>2. \A q \in DOMAIN rounds' : FromBefore(next', rounds'[q].listed)
    BY <1>2, <1>5, <2>1
  <2> QED BY <1>1, <2>1, <2>2 DEF ReadBefore, FromBefore
<1> QED BY <1>6, <1>7, <1>8, <1>9, <1>10 DEF BaseInv
\* The requests of the block that is read, with the mark that they waited.
LEMMA WaitingType ==
  ASSUME BaseInv, next \in 0..Height, NEW r \in Nat, NEW w \in Waiting(r, RequestsOf(next))
  PROVE  /\ w \in [round : Nat, request : Requests]
         /\ w.round = r
         /\ w.request.waited /\ w.request.at[1] < next + 1
PROOF
<1>1. PICK i \in DOMAIN RequestsOf(next) :
        w = [round |-> r, request |-> [RequestsOf(next)[i] EXCEPT !.waited = TRUE]]
  BY DEF Waiting
<1>2. PICK q : q = RequestsOf(next)[i]
  OBVIOUS
<1>3. q \in Requests /\ q.at = <<next, i>> /\ next \in Nat
  BY <1>1, <1>2, RequestType DEF BaseInv, TypeInv
<1>4. PICK x : x = [q EXCEPT !.waited = TRUE]
  OBVIOUS
<1>5. x \in Requests /\ x.waited = TRUE /\ x.at = <<next, i>>
  BY <1>3, <1>4 DEF Requests
<1>6. x.at[1] = next
  BY <1>5
<1>7. w = [round |-> r, request |-> x]
  BY <1>1, <1>2, <1>4
<1>8. w.round = r /\ w.request = x
  BY <1>7
<1>9. w \in [round : Nat, request : Requests]
  BY <1>5, <1>7
<1> QED BY <1>3, <1>5, <1>6, <1>8, <1>9

\* A block of which the requests are listed keeps it.
LEMMA ListKeeps ==
  ASSUME BaseInv, ListStep PROVE BaseInv'
PROOF
<1>1. /\ pc = "running" /\ next <= Height /\ next' = next + 1 /\ ~TooEarly(ReadRound)
      /\ UNCHANGED <<now, chain, pc, startRound, updating>> /\ TypeInv
  BY DEF ListStep, external, config, BaseInv
<1>2. PICK r \in Nat : r = ReadRound
  BY <1>1, ReadRoundKept
<1>3. /\ startRound <= r /\ r <= Epoch(now) /\ r > Epoch(now) - KeepRounds /\ ~Obsolete(r)
  BY <1>1, <1>2, ReadRoundKept
<1>4. PICK with : with = WithRound(r)
  OBVIOUS
<1>5. /\ r \in DOMAIN with /\ DOMAIN with \subseteq DOMAIN rounds \cup {r}
      /\ \A q \in DOMAIN rounds : ~Obsolete(q) => q \in DOMAIN with
      /\ \A q \in DOMAIN with : \/ q \in DOMAIN rounds /\ with[q].listed = rounds[q].listed
                                \/ with[q].listed = <<>>
  BY <1>1, <1>2, <1>3, <1>4, RoundMade
<1>6. /\ Maps(rounds')
      /\ DOMAIN rounds' = DOMAIN with
      /\ \A q \in DOMAIN rounds' :
           rounds'[q].listed \in {ReadList, with[q].listed}
      /\ waiting' \subseteq waiting \cup Waiting(r, RequestsOf(next))
  BY <1>2, <1>4, ListEffect
<1>7. /\ TimesInv'
      /\ Epoch(now)' = Epoch(now) /\ Height' = Height /\ next' <= Height + 1
      /\ next \in 0..Height /\ next' \in Nat
      /\ \A n \in 0..Height : ~TooEarly(Epoch(Block(n).time))' /\ ~Handled(n)' =>
                                Epoch(Block(n).time)' > Epoch(now)' - KeepRounds
  BY <1>1, ReadFrame
<1>8. \A w \in Waiting(r, RequestsOf(next)) :
         /\ w \in [round : Nat, request : Requests]
         /\ w.round = r
         /\ w.request.waited /\ w.request.at[1] < next + 1
  BY <1>7, WaitingType
<1>9. TypeInv'
  BY <1>1, <1>6, <1>7, <1>8 DEF TypeInv
<1>10. PhaseInv'
  <2>1. \A q \in DOMAIN rounds' : startRound <= q /\ q <= Epoch(now)
    BY <1>3, <1>5, <1>6 DEF BaseInv, PhaseInv
  <2> QED BY <1>1, <1>7, <2>1 DEF BaseInv, PhaseInv, Running
<1>11. LagInv'
  <2>1. \A w \in waiting : w.round \in DOMAIN with /\ w.round > Epoch(now) - KeepRounds
    <3> SUFFICES ASSUME NEW w \in waiting
                 PROVE  w.round \in DOMAIN with /\ w.round > Epoch(now) - KeepRounds
      OBVIOUS
    <3>1. w.round \in DOMAIN rounds /\ w.round > Epoch(now) - KeepRounds
      BY DEF BaseInv, LagInv
    <3>2. w.round \in Nat /\ Epoch(now) \in Nat
      BY <3>1, PresentRound DEF BaseInv, TypeInv, Maps
    <3> QED BY <1>5, <3>1, <3>2 DEF Obsolete
  <2>2. \A w \in waiting' : w.round \in DOMAIN rounds' /\ w.round > Epoch(now) - KeepRounds
    BY <1>3, <1>5, <1>6, <1>8, <2>1
  <2> QED BY <1>1, <1>7, <2>2 DEF LagInv
<1>12. ReadBefore'
  <2>1. /\ \A q \in DOMAIN rounds : FromBefore(next', rounds[q].listed)
        /\ \A w \in waiting : w.request.waited /\ w.request.at[1] < next'
    BY <1>1, ReadEarlier
  <2>2. FromBefore(next', ReadList)
    BY <1>1, ReadListed
  <2>3. \A q \in DOMAIN rounds' : FromBefore(next', rounds'[q].listed)
    <3> SUFFICES ASSUME NEW q \in DOMAIN rounds' PROVE FromBefore(next', rounds'[q].listed)
      OBVIOUS
    <3>1. CASE rounds'[q].listed = ReadList
      BY <2>2, <3>1
    <3>2. CASE rounds'[q].listed = with[q].listed /\ with[q].listed = <<>>
      <4>1. rounds'[q].listed = <<>>
        BY <3>2
      <4> QED BY <4>1 DEF FromBefore
    <3>3. CASE /\ rounds'[q].listed = with[q].listed
               /\ q \in DOMAIN rounds /\ with[q].listed = rounds[q].listed
      BY <2>1, <3>3
    <3> QED BY <1>5, <1>6, <3>1, <3>2, <3>3
  <2>4. \A w \in waiting' : w.request.waited /\ w.request.at[1] < next'
    BY <1>1, <1>6, <1>8, <2>1
  <2> QED BY <2>3, <2>4 DEF ReadBefore, FromBefore
<1> QED BY <1>7, <1>9, <1>10, <1>11, <1>12 DEF BaseInv

\* The request that has waited is listed, and its handler ends.
ContinueStep(w) ==
  /\ waiting' = waiting \ {w}
  /\ rounds' = [Initialized(w.round) EXCEPT
                  ![w.round].listed = Add(w.round, rounds[w.round].listed, w.request)]
  /\ UNCHANGED <<external, pc, startRound, next, updating, managers, config>>

\* A request that waited for its round is listed, or the process ends.
LEMMA ContinueCases ==
  ASSUME NEW w \in waiting, RequestContinues(w)
  PROVE  \/ ContinueStep(w)
         \/ Exit("noRouter")
         \/ /\ MissesSource(Add(w.round, rounds[w.round].listed, w.request), DOMAIN managers)
            /\ Exit("noSource")
PROOF BY Zenon DEF RequestContinues, ContinueStep

\* A request that waited for its round keeps the invariant.
LEMMA ContinueKeeps ==
  ASSUME BaseInv, NEW w \in waiting, ContinueStep(w) PROVE BaseInv'
PROOF
<1>1. /\ UNCHANGED <<now, chain, pc, startRound, next, updating>> /\ waiting' = waiting \ {w}
  BY DEF ContinueStep, external, config
<1>2. PICK r : r = w.round
  OBVIOUS
<1>3. PICK list : list = Add(r, rounds[r].listed, w.request)
  OBVIOUS
<1>4. rounds' = [Initialized(r) EXCEPT ![r].listed = list]
  BY <1>2, <1>3 DEF ContinueStep
<1>5. /\ FromBefore(next, list)
      /\ Maps(rounds')
      /\ DOMAIN rounds' = DOMAIN rounds
      /\ \A q \in DOMAIN rounds :
           rounds'[q].listed = IF q = r THEN list ELSE rounds[q].listed
  <2>1. rounds' = [Initialized(r) EXCEPT ![r].listed = list]
    BY <1>4
  <2>2. FromBefore(next, list)
    BY <1>2, <1>3, <2>1, ContinuesEffect
  <2>3. Maps(rounds') /\ DOMAIN rounds' = DOMAIN rounds
    BY <1>2, <1>3, <2>1, ContinuesEffect
  <2>4. \A q \in DOMAIN rounds :
          rounds'[q].listed = IF q = r THEN list ELSE rounds[q].listed
    BY <1>2, <1>3, <2>1, ContinuesEffect
  <2> QED BY <2>2, <2>3, <2>4
<1>6. TypeInv'
  BY <1>1, <1>5 DEF BaseInv, TypeInv
<1>7. TimesInv'
  BY <1>1 DEF BaseInv, TimesInv, Height, Block
<1>8. Epoch(now)' = Epoch(now) /\ Height' = Height
  BY <1>1 DEF Epoch, Height
<1>9. PhaseInv'
  <2>1. pc # "searching"
    BY DEF BaseInv, PhaseInv
  <2> QED BY <1>1, <1>5, <1>8, <2>1 DEF BaseInv, PhaseInv, Running
<1>10. LagInv'
  <2>1. \A n \in 0..Height : /\ Handled(n)' = Handled(n)
                             /\ Epoch(Block(n).time)' = Epoch(Block(n).time)
                             /\ TooEarly(Epoch(Block(n).time))' = TooEarly(Epoch(Block(n).time))
    BY <1>1 DEF Handled, Epoch, Block, TooEarly
  <2> QED BY <1>1, <1>5, <1>8, <2>1 DEF BaseInv, LagInv, Running
<1>11. ReadBefore'
  <2>1. \A q \in DOMAIN rounds' : FromBefore(next, rounds'[q].listed)
    BY <1>5 DEF BaseInv, ReadBefore
  <2> QED BY <1>1, <2>1 DEF BaseInv, ReadBefore, FromBefore
<1> QED BY <1>6, <1>7, <1>9, <1>10, <1>11 DEF BaseInv

\* The steps, with what exits apart.
Steps ==
  \/ Tick \/ MineBlock
  \/ /\ UNCHANGED <<now, chain, startRound, next, rounds, waiting, updating, managers>>
     /\ pc' = pc \/ (pc \in {"off", "loading"} /\ pc' \in {"loading", "connecting"})
  \/ Initialize /\ HasRouter(Epoch(now))
  \/ StartRoundUpdate /\ HasRouter(Epoch(now))
  \/ RoundUpdated
  \/ FindStartBlock
  \/ SkipStep
  \/ ListStep
  \/ \E w \in waiting : ContinueStep(w)
  \/ Exit("noRouter") \/ Exit("noNode")
  \/ LeaveStep
  \/ \E w \in waiting :
       /\ MissesSource(Add(w.round, rounds[w.round].listed, w.request), DOMAIN managers)
       /\ Exit("noSource")

\* The steps of Next, as the lemmas name them.
LEMMA NextSteps ==
  ASSUME [Next]_vars PROVE Steps
PROOF
<1>1. CASE Tick \/ MineBlock \/ RoundUpdated \/ FindStartBlock
  BY <1>1 DEF Steps
<1>2. CASE EditFiles
  BY <1>2 DEF EditFiles, config, Steps
<1>3. CASE Refresh
  BY <1>3 DEF Refresh, external, Steps
<1>4. CASE \E e \in refreshing : Refreshed(e)
  BY <1>4 DEF Refreshed, external, Steps
<1>5. CASE Initialize
  BY <1>5 DEF Initialize, Steps
<1>6. CASE StartRoundUpdate
  BY <1>6 DEF StartRoundUpdate, Steps
<1>7. CASE NodeFails
  BY <1>7 DEF NodeFails, Steps
<1>8. CASE ReadBlock
  BY <1>8, ReadCases DEF Steps
<1>9. CASE \E w \in waiting : RequestContinues(w)
  <2>1. PICK w \in waiting : RequestContinues(w)
    BY <1>9
  <2> QED BY <2>1, ContinueCases DEF Steps
<1>10. CASE UNCHANGED vars
  BY <1>10 DEF vars, external, config, Steps
<1> QED
  BY <1>1, <1>2, <1>3, <1>4, <1>5, <1>6, <1>7, <1>8, <1>9, <1>10 DEF Next

\* Every step keeps the invariant.
LEMMA BaseStep ==
  ASSUME BaseInv, [Next]_vars PROVE BaseInv'
PROOF
<1>1. Steps
  BY NextSteps
<1>2. CASE Tick
  BY <1>2, TickKeeps
<1>3. CASE MineBlock
  BY <1>3, MineKeeps
<1>4. CASE /\ UNCHANGED <<now, chain, startRound, next, rounds, waiting, updating, managers>>
           /\ pc' = pc \/ (pc \in {"off", "loading"} /\ pc' \in {"loading", "connecting"})
  BY <1>4, FrameKeeps
<1>5. CASE Initialize /\ HasRouter(Epoch(now))
  BY <1>5, InitializeKeeps
<1>6. CASE StartRoundUpdate /\ HasRouter(Epoch(now))
  BY <1>6, UpdateKeeps
<1>7. CASE RoundUpdated
  BY <1>7, UpdatedKeeps
<1>8. CASE FindStartBlock
  BY <1>8, FindKeeps
<1>9. CASE SkipStep
  BY <1>9, SkipKeeps
<1>10. CASE ListStep
  BY <1>10, ListKeeps
<1>11. CASE \E w \in waiting : ContinueStep(w)
  BY <1>11, ContinueKeeps
<1>12. CASE Exit("noRouter") \/ Exit("noNode") \/ Exit("noSource")
  BY <1>12, ExitKeeps
<1> QED
  BY <1>1, <1>2, <1>3, <1>4, <1>5, <1>6, <1>7, <1>8, <1>9, <1>10, <1>11, <1>12
     DEF Steps, LeaveStep

\* The rounds of the map are those from the first to the current one, and what is
\* still to be read or listed is of a round that cleanup has not reached.
THEOREM BaseInvariant == Spec => []BaseInv
PROOF
<1>1. Init => BaseInv
  BY BaseInit
<1>2. BaseInv /\ [Next]_vars => BaseInv'
  BY BaseStep
<1> QED BY <1>1, <1>2, PTL DEF Spec
-----------------------------------------------------------------------------
(* Sources have managers.                                                    *)

\* A list of supported requests misses no source when all have their managers.
LEMMA NoSourceMissed ==
  ASSUME NEW list, Supported(list), NEW sources, AllSources \subseteq sources
  PROVE  ~MissesSource(list, sources)
PROOF BY ClientAssumption DEF Supported, AllSources, MissesSource

\* A round has managers for all sources.
LEMMA SourcesOfRound ==
  ASSUME SourcesInv, NEW r
  PROVE  /\ AllSources \subseteq DOMAIN WithSources(r)
         /\ DOMAIN managers \subseteq DOMAIN WithSources(r)
PROOF
<1>1. CASE r \in DOMAIN rounds
  BY <1>1 DEF SourcesInv, WithSources
<1>2. CASE r \notin DOMAIN rounds
  <2>1. DOMAIN WithSources(r) = DOMAIN managers \cup Sources(RouterOf(r))
    BY <1>2 DEF WithSources
  <2>2. Sources(RouterOf(r)) = AllSources
    BY DEF Sources, AllSources
  <2> QED BY <2>1, <2>2
<1> QED BY <1>1, <1>2

\* After a block has been read the lists hold supported requests alone.
LEMMA ReadSupported ==
  ASSUME BaseInv, SourcesInv, pc = "running", next <= Height, ~TooEarly(ReadRound)
  PROVE  /\ \A q \in DOMAIN WithRound(ReadRound) : Supported(WithRound(ReadRound)[q].listed)
         /\ Supported(ReadList)
PROOF
<1>1. PICK r \in Nat : r = ReadRound /\ ~Obsolete(r) /\ TypeInv
  BY ReadRoundKept DEF BaseInv
<1>2. r \in DOMAIN WithRound(r)
  BY <1>1, RoundMade
<1>3. ASSUME NEW q \in DOMAIN WithRound(r) PROVE Supported(WithRound(r)[q].listed)
  <2>1. \/ q \in DOMAIN rounds /\ WithRound(r)[q].listed = rounds[q].listed
        \/ WithRound(r)[q].listed = <<>>
    BY <1>1, RoundMade
  <2>2. CASE q \in DOMAIN rounds /\ WithRound(r)[q].listed = rounds[q].listed
    BY <2>2 DEF SourcesInv
  <2>3. CASE WithRound(r)[q].listed = <<>>
    BY <2>3 DEF Supported
  <2> QED BY <2>1, <2>2, <2>3
<1> QED BY <1>1, <1>2, <1>3, ReadListed

\* Every step keeps the invariant of the sources.
LEMMA SourcesStep ==
  ASSUME BaseInv, SourcesInv, [Next]_vars PROVE SourcesInv'
PROOF
<1>1. Steps
  BY NextSteps
<1>2. ASSUME UNCHANGED <<rounds, managers>>, pc' # "noSource" PROVE SourcesInv'
  BY <1>2 DEF SourcesInv, Supported
<1>3. CASE Tick \/ MineBlock \/ FindStartBlock
  <2>1. UNCHANGED <<rounds, managers>> /\ pc' # "noSource"
    BY <1>3 DEF Tick, MineBlock, FindStartBlock, SourcesInv
  <2> QED BY <1>2, <2>1
<1>4. CASE /\ UNCHANGED <<now, chain, startRound, next, rounds, waiting, updating, managers>>
           /\ pc' = pc \/ (pc \in {"off", "loading"} /\ pc' \in {"loading", "connecting"})
  <2>1. UNCHANGED <<rounds, managers>> /\ pc' # "noSource"
    BY <1>4 DEF SourcesInv
  <2> QED BY <1>2, <2>1
<1>5. CASE UpdateRound(Epoch(now)) /\ pc' # "noSource"
  <2>1. PICK r \in Nat : r = Epoch(now) /\ ~Obsolete(r) /\ TypeInv
    BY PresentRound DEF BaseInv
  <2>2. rounds' = WithRound(r) /\ managers' = WithSources(r)
    BY <1>5, <2>1 DEF UpdateRound
  <2>3. ASSUME NEW q \in DOMAIN rounds' PROVE Supported(rounds'[q].listed)
    <3>1. \/ q \in DOMAIN rounds /\ rounds'[q].listed = rounds[q].listed
          \/ rounds'[q].listed = <<>>
      BY <2>1, <2>2, RoundMade
    <3>2. CASE q \in DOMAIN rounds /\ rounds'[q].listed = rounds[q].listed
      BY <3>2 DEF SourcesInv
    <3>3. CASE rounds'[q].listed = <<>>
      BY <3>3 DEF Supported
    <3> QED BY <3>1, <3>2, <3>3
  <2>4. AllSources \subseteq DOMAIN managers'
    BY <2>2, SourcesOfRound
  <2> QED BY <1>5, <2>3, <2>4 DEF SourcesInv, Supported
<1>6. CASE RoundUpdated
  <2>1. PICK r : r = updating
    OBVIOUS
  <2>2. /\ DOMAIN rounds' = DOMAIN rounds
        /\ \A q \in DOMAIN rounds : rounds'[q].listed = rounds[q].listed
    <3>1. CASE r \in DOMAIN rounds
      BY <1>6, <2>1, <3>1, InitializedEffect DEF RoundUpdated, BaseInv
    <3>2. CASE r \notin DOMAIN rounds
      BY <1>6, <2>1, <3>2 DEF RoundUpdated
    <3> QED BY <3>1, <3>2
  <2>3. managers' = managers /\ pc' = pc
    BY <1>6 DEF RoundUpdated
  <2> QED BY <2>2, <2>3 DEF SourcesInv, Supported
<1>7. CASE SkipStep
  <2>1. PICK rs : rs = rounds
    OBVIOUS
  <2>2. DOMAIN rounds' = DOMAIN rs /\ \A q \in DOMAIN rs : rounds'[q].listed = rs[q].listed
    BY <1>7, <2>1, ReadHandled DEF SkipStep, BaseInv, TypeInv
  <2>3. managers' = managers /\ pc' = pc
    BY <1>7 DEF SkipStep
  <2> QED BY <2>1, <2>2, <2>3 DEF SourcesInv, Supported
<1>8. CASE ListStep
  <2>1. pc = "running" /\ next <= Height /\ ~TooEarly(ReadRound) /\ pc' = pc
        /\ managers' = WithSources(ReadRound)
    BY <1>8 DEF ListStep
  <2>2. PICK r : r = ReadRound
    OBVIOUS
  <2>3. /\ DOMAIN rounds' = DOMAIN WithRound(r)
        /\ \A q \in DOMAIN rounds' : rounds'[q].listed \in {ReadList, WithRound(r)[q].listed}
    BY <1>8, <2>2, ListEffect
  <2>4. \A q \in DOMAIN rounds' : Supported(rounds'[q].listed)
    BY <2>1, <2>2, <2>3, ReadSupported
  <2>5. AllSources \subseteq DOMAIN managers'
    BY <2>1, SourcesOfRound
  <2> QED BY <2>1, <2>4, <2>5 DEF SourcesInv, Supported
<1>9. CASE \E w \in waiting : ContinueStep(w)
  <2>1. PICK w \in waiting : ContinueStep(w)
    BY <1>9
  <2>2. PICK r : r = w.round
    OBVIOUS
  <2>3. PICK list : list = Add(r, rounds[r].listed, w.request)
    OBVIOUS
  <2>4. rounds' = [Initialized(r) EXCEPT ![r].listed = list] /\ managers' = managers /\ pc' = pc
    BY <2>1, <2>2, <2>3 DEF ContinueStep, config
  <2>5. /\ r \in DOMAIN rounds
        /\ Supported(rounds[r].listed) => Supported(list)
        /\ DOMAIN rounds' = DOMAIN rounds
        /\ \A q \in DOMAIN rounds :
             rounds'[q].listed = IF q = r THEN list ELSE rounds[q].listed
    BY <2>2, <2>3, <2>4, ContinuesEffect
  <2>6. \A q \in DOMAIN rounds' : Supported(rounds'[q].listed)
    BY <2>5 DEF SourcesInv
  <2> QED BY <2>4, <2>5, <2>6 DEF SourcesInv, Supported
<1>10. CASE Exit("noRouter") \/ Exit("noNode")
  <2>1. UNCHANGED <<rounds, managers>> /\ pc' # "noSource"
    BY <1>10 DEF Exit
  <2> QED BY <1>2, <2>1
<1>11. CASE LeaveStep /\ Exit("noSource")
  <2>1. /\ pc = "running" /\ next <= Height
        /\ \/ Exit("noRouter")
           \/ ~TooEarly(ReadRound) /\ MissesSource(ReadList, DOMAIN WithSources(ReadRound))
    BY <1>11 DEF LeaveStep
  <2>2. ~Exit("noRouter")
    BY <1>11 DEF Exit
  <2>3. PICK list : list = ReadList
    OBVIOUS
  <2>4. PICK sources : sources = DOMAIN WithSources(ReadRound)
    OBVIOUS
  <2>5. Supported(list) /\ AllSources \subseteq sources
    <3>1. PICK r : r = ReadRound
      OBVIOUS
    <3> QED BY <2>1, <2>2, <2>3, <2>4, <3>1, ReadSupported, SourcesOfRound
  <2> QED BY <2>1, <2>2, <2>3, <2>4, <2>5, NoSourceMissed
<1>12. CASE \E w \in waiting :
              /\ MissesSource(Add(w.round, rounds[w.round].listed, w.request), DOMAIN managers)
              /\ Exit("noSource")
  <2>1. PICK w \in waiting :
              MissesSource(Add(w.round, rounds[w.round].listed, w.request), DOMAIN managers)
    BY <1>12
  <2>2. PICK r : r = w.round
    OBVIOUS
  <2>3. PICK before : before = rounds[r].listed
    OBVIOUS
  <2>4. PICK request : request = w.request
    OBVIOUS
  <2>5. before \in Seq(Entries) /\ request \in Requests /\ r \in DOMAIN rounds
    <3>1. r \in DOMAIN rounds
      BY <2>2 DEF BaseInv, LagInv
    <3>2. rounds[r] \in RoundRecords
      BY <3>1 DEF BaseInv, TypeInv, Maps
    <3>3. w \in [round : Nat, request : Requests]
      BY DEF BaseInv, TypeInv
    <3> QED BY <2>3, <2>4, <3>1, <3>2, <3>3 DEF RoundRecords
  <2>6. Supported(before)
    BY <2>3, <2>5 DEF SourcesInv
  <2>7. PICK list : list = Add(r, before, request)
    OBVIOUS
  <2>8. Supported(list)
    BY <2>5, <2>6, <2>7, AddOne
  <2>9. PICK sources : sources = DOMAIN managers
    OBVIOUS
  <2>10. AllSources \subseteq sources
    BY <2>5, <2>9 DEF SourcesInv
  <2>11. ~MissesSource(list, sources)
    BY <2>8, <2>10, NoSourceMissed
  <2> QED BY <2>1, <2>2, <2>3, <2>4, <2>7, <2>9, <2>11
<1>13. Initialize /\ HasRouter(Epoch(now)) => UpdateRound(Epoch(now)) /\ pc' # "noSource"
  BY DEF Initialize
<1>14. StartRoundUpdate /\ HasRouter(Epoch(now)) => UpdateRound(Epoch(now)) /\ pc' # "noSource"
  BY DEF StartRoundUpdate, SourcesInv
<1>15. LeaveStep => Exit("noRouter") \/ (LeaveStep /\ Exit("noSource"))
  BY DEF LeaveStep
<1> QED
  BY <1>1, <1>3, <1>4, <1>5, <1>6, <1>7, <1>8, <1>9, <1>10, <1>11, <1>12, <1>13, <1>14, <1>15
     DEF Steps

\* Every supported request has a source manager, also when the configuration was
\* edited after its round was created: the client never ends for want of one
\* (getSourceManager).
THEOREM SourcesAlwaysManaged == Spec => []SupportedHasManager
PROOF
<1>1. Init => SourcesInv
  BY DEF Init, SourcesInv
<1>2. BaseInv /\ SourcesInv /\ [Next]_vars => SourcesInv'
  BY SourcesStep
<1>3. SourcesInv => SupportedHasManager
  BY DEF SourcesInv, SupportedHasManager
<1> QED BY <1>1, <1>2, <1>3, BaseInvariant, PTL DEF Spec
-----------------------------------------------------------------------------
(* The rounds when calls are prompt.                                         *)

\* No round that counts is taken out, and those there were stay initialised.
LEMMA SeenKept ==
  ASSUME BaseInv, SeenInv, UNCHANGED <<now, startRound>>, pc' \in Running => pc \in Running,
         \A q \in DOMAIN rounds : ~Obsolete(q) => q \in DOMAIN rounds',
         \A q \in DOMAIN rounds' : q < Epoch(now) =>
           q \in DOMAIN rounds /\ (rounds[q].initialized => rounds'[q].initialized)
  PROVE  SeenInv'
PROOF
<1> SUFFICES ASSUME Prompt, pc' \in Running
             PROVE  /\ \A r \in startRound'..(Epoch(now)' - 1) :
                         r > Epoch(now)' - KeepRounds => r \in DOMAIN rounds'
                    /\ \A r \in DOMAIN rounds' : r < Epoch(now)' => rounds'[r].initialized
  BY DEF SeenInv, Running
<1>1. /\ \A r \in startRound..(Epoch(now) - 1) :
           r > Epoch(now) - KeepRounds => r \in DOMAIN rounds
      /\ \A r \in DOMAIN rounds : r < Epoch(now) => rounds[r].initialized
  BY DEF SeenInv
<1>2. Epoch(now)' = Epoch(now) /\ startRound' = startRound
  BY DEF Epoch
<1>3. Epoch(now) \in Nat /\ startRound \in Nat
  BY PresentRound DEF BaseInv, TypeInv
<1>4. ASSUME NEW r \in startRound..(Epoch(now) - 1), r > Epoch(now) - KeepRounds
      PROVE  r \in DOMAIN rounds'
  <2>1. r \in DOMAIN rounds /\ ~Obsolete(r)
    BY <1>1, <1>3, <1>4 DEF Obsolete
  <2> QED BY <2>1
<1>5. \A r \in DOMAIN rounds' : r < Epoch(now) => rounds'[r].initialized
  BY <1>1
<1> QED BY <1>2, <1>4, <1>5

\* A block is read whose round is there, or is the one of the present.
LEMMA CreatesPresent ==
  ASSUME BaseInv, SeenInv, Prompt, pc = "running", next <= Height, ~TooEarly(ReadRound)
  PROVE  ReadRound \in DOMAIN rounds \/ ReadRound = Epoch(now)
PROOF
<1>1. /\ ReadRound \in Nat /\ ReadRound <= Epoch(now)
      /\ startRound <= ReadRound /\ ReadRound > Epoch(now) - KeepRounds
  BY ReadRoundKept
<1>2. startRound \in Nat /\ Epoch(now) \in Nat
  BY PresentRound DEF BaseInv, TypeInv
<1>3. ReadRound < Epoch(now) => ReadRound \in startRound..(Epoch(now) - 1)
  BY <1>1, <1>2
<1> QED BY <1>1, <1>2, <1>3 DEF SeenInv, Running

\* Every step keeps the invariant of the rounds.
LEMMA SeenStep ==
  ASSUME BaseInv, BaseInv', SeenInv, [Next]_vars PROVE SeenInv'
PROOF
<1>1. Steps
  BY NextSteps
<1>2. CASE Tick
  <2> SUFFICES ASSUME Prompt, pc' \in Running
               PROVE  /\ \A r \in startRound'..(Epoch(now)' - 1) :
                           r > Epoch(now)' - KeepRounds => r \in DOMAIN rounds'
                      /\ \A r \in DOMAIN rounds' : r < Epoch(now)' => rounds'[r].initialized
    BY DEF SeenInv, Running
  <2>1. /\ now' = now + 1 /\ now \in Nat /\ startRound \in Nat
        /\ UNCHANGED <<pc, startRound, rounds>>
        /\ ~Unseen(Epoch(now))
    BY <1>2 DEF Tick, BaseInv, TypeInv
  <2>2. /\ \A r \in startRound..(Epoch(now) - 1) :
             r > Epoch(now) - KeepRounds => r \in DOMAIN rounds
        /\ \A r \in DOMAIN rounds : r < Epoch(now) => rounds[r].initialized
    BY <2>1 DEF SeenInv
  <2>3. PICK e \in Nat : e = Epoch(now)
    BY PresentRound
  <2>4. Epoch(now)' \in {e, e + 1}
    BY <2>1, <2>3, EpochAfter DEF Epoch
  <2>5. e \in DOMAIN rounds /\ rounds[e].initialized
    BY <2>1, <2>3 DEF Unseen
  <2>6. DOMAIN rounds \subseteq Nat /\ \A r \in DOMAIN rounds : r <= e
    BY <2>3 DEF BaseInv, PhaseInv, TypeInv, Maps
  <2>7. \A r \in startRound..(Epoch(now)' - 1) :
          r > Epoch(now)' - KeepRounds => r \in DOMAIN rounds
    <3> SUFFICES ASSUME NEW r \in startRound..(Epoch(now)' - 1), r > Epoch(now)' - KeepRounds
                 PROVE  r \in DOMAIN rounds
      OBVIOUS
    <3>1. r = e \/ (r \in startRound..(e - 1) /\ r > e - KeepRounds)
      BY <2>1, <2>3, <2>4
    <3> QED BY <2>2, <2>3, <2>5, <3>1
  <2>8. \A r \in DOMAIN rounds : rounds[r].initialized
    <3> SUFFICES ASSUME NEW r \in DOMAIN rounds PROVE rounds[r].initialized
      OBVIOUS
    <3>1. r = e \/ r < e
      BY <2>3, <2>6
    <3> QED BY <2>2, <2>3, <2>5, <3>1
  <2> QED BY <2>1, <2>7, <2>8
<1>3. CASE MineBlock \/ FindStartBlock
  <2>1. UNCHANGED <<now, startRound, rounds>> /\ (pc' \in Running => pc \in Running)
    BY <1>3 DEF MineBlock, FindStartBlock, external, Running
  <2> QED BY <2>1, SeenKept
<1>4. CASE /\ UNCHANGED <<now, chain, startRound, next, rounds, waiting, updating, managers>>
           /\ pc' = pc \/ (pc \in {"off", "loading"} /\ pc' \in {"loading", "connecting"})
  <2>1. UNCHANGED <<now, startRound, rounds>> /\ (pc' \in Running => pc \in Running)
    BY <1>4 DEF Running
  <2> QED BY <2>1, SeenKept
<1>5. CASE Initialize /\ HasRouter(Epoch(now))
  <2>1. /\ startRound' = Epoch(now) /\ now' = now
    BY <1>5 DEF Initialize, external
  <2>2. Epoch(now)' = Epoch(now) /\ Epoch(now) \in Nat
    BY <2>1, PresentRound DEF Epoch
  <2>3. DOMAIN rounds' \subseteq Nat /\ \A r \in DOMAIN rounds' : startRound' <= r
    BY DEF BaseInv, PhaseInv, TypeInv, Maps
  <2>4. startRound'..(Epoch(now)' - 1) = {}
    BY <2>1, <2>2
  <2>5. \A r \in DOMAIN rounds' : ~(r < Epoch(now)')
    BY <2>1, <2>2, <2>3
  <2> QED BY <2>4, <2>5 DEF SeenInv
<1>6. CASE StartRoundUpdate /\ HasRouter(Epoch(now))
  <2>1. PICK r \in Nat : r = Epoch(now) /\ ~Obsolete(r) /\ TypeInv
    BY PresentRound DEF BaseInv
  <2>2. rounds' = WithRound(r) /\ UNCHANGED <<now, startRound, pc>>
    BY <1>6, <2>1 DEF StartRoundUpdate, UpdateRound, external
  <2>3. /\ \A q \in DOMAIN rounds : ~Obsolete(q) => q \in DOMAIN rounds'
        /\ \A q \in DOMAIN rounds' : q < Epoch(now) =>
             q \in DOMAIN rounds /\ (rounds[q].initialized => rounds'[q].initialized)
    <3>1. \A q \in DOMAIN rounds' :
            \/ q \in DOMAIN rounds /\ rounds'[q].initialized = rounds[q].initialized
            \/ q = r
      BY <2>1, <2>2, RoundMade
    <3>2. ~(r < Epoch(now))
      BY <2>1
    <3>3. \A q \in DOMAIN rounds : ~Obsolete(q) => q \in DOMAIN rounds'
      BY <2>1, <2>2, RoundMade
    <3> QED BY <3>1, <3>2, <3>3
  <2> QED BY <2>2, <2>3, SeenKept
<1>7. CASE RoundUpdated
  <2>1. UNCHANGED <<now, startRound, pc>>
    BY <1>7 DEF RoundUpdated, external
  <2>2. PICK r : r = updating
    OBVIOUS
  <2>3. /\ DOMAIN rounds' = DOMAIN rounds
        /\ \A q \in DOMAIN rounds : rounds[q].initialized => rounds'[q].initialized
    <3>1. CASE r \in DOMAIN rounds
      BY <1>7, <2>2, <3>1, InitializedEffect DEF RoundUpdated, BaseInv
    <3>2. CASE r \notin DOMAIN rounds
      BY <1>7, <2>2, <3>2 DEF RoundUpdated
    <3> QED BY <3>1, <3>2
  <2> QED BY <2>1, <2>3, SeenKept
<1>8. CASE SkipStep
  <2>1. PICK rs : rs = rounds
    OBVIOUS
  <2>2. /\ DOMAIN rounds' = DOMAIN rs
        /\ \A q \in DOMAIN rs : rounds'[q].initialized = rs[q].initialized
    BY <1>8, <2>1, ReadHandled DEF SkipStep, BaseInv, TypeInv
  <2>3. UNCHANGED <<now, startRound, pc>>
    BY <1>8 DEF SkipStep, external
  <2>4. \A q \in DOMAIN rounds : rounds[q].initialized => rounds'[q].initialized
    BY <2>1, <2>2
  <2> QED BY <2>1, <2>2, <2>3, <2>4, SeenKept
<1>9. CASE ListStep
  <2>1. /\ pc = "running" /\ next <= Height /\ ~TooEarly(ReadRound)
        /\ UNCHANGED <<now, startRound, pc>>
    BY <1>9 DEF ListStep, external
  <2>2. PICK r \in Nat : r = ReadRound /\ ~Obsolete(r) /\ TypeInv
    BY <2>1, ReadRoundKept DEF BaseInv
  <2>3. /\ DOMAIN rounds' = DOMAIN WithRound(r)
        /\ \A q \in DOMAIN rounds' : rounds'[q].initialized = WithRound(r)[q].initialized
    BY <1>9, <2>2, ListEffect
  <2>4. \A q \in DOMAIN rounds : ~Obsolete(q) => q \in DOMAIN rounds'
    BY <2>2, <2>3, RoundMade
  <2>5. \A q \in DOMAIN WithRound(r) :
            \/ q \in DOMAIN rounds /\ WithRound(r)[q].initialized = rounds[q].initialized
            \/ q = r /\ r \notin DOMAIN rounds
    BY <2>2, RoundMade
  <2>6. CASE Prompt
    <3>1. r \notin DOMAIN rounds => ~(r < Epoch(now))
      BY <2>1, <2>2, <2>6, CreatesPresent
    <3>2. \A q \in DOMAIN rounds' : q < Epoch(now) =>
            q \in DOMAIN rounds /\ rounds'[q].initialized = rounds[q].initialized
      BY <2>3, <2>5, <3>1
    <3>3. \A q \in DOMAIN rounds' : q < Epoch(now) =>
            q \in DOMAIN rounds /\ (rounds[q].initialized => rounds'[q].initialized)
      BY <3>2
    <3> QED BY <2>1, <2>4, <3>3, SeenKept
  <2>7. CASE ~Prompt
    BY <2>7 DEF SeenInv
  <2> QED BY <2>6, <2>7
<1>10. CASE \E w \in waiting : ContinueStep(w)
  <2>1. PICK w \in waiting : ContinueStep(w)
    BY <1>10
  <2>2. PICK r : r = w.round
    OBVIOUS
  <2>3. PICK list : list = Add(r, rounds[r].listed, w.request)
    OBVIOUS
  <2>4. /\ rounds' = [Initialized(r) EXCEPT ![r].listed = list]
        /\ UNCHANGED <<now, startRound, pc>>
    BY <2>1, <2>2, <2>3 DEF ContinueStep, external
  <2>5. /\ DOMAIN rounds' = DOMAIN rounds
        /\ rounds'[r].initialized
        /\ \A q \in DOMAIN rounds : q # r => rounds'[q].initialized = rounds[q].initialized
    BY <2>2, <2>3, <2>4, ContinuesEffect
  <2>6. \A q \in DOMAIN rounds : rounds[q].initialized => rounds'[q].initialized
    BY <2>5
  <2> QED BY <2>4, <2>5, <2>6, SeenKept
<1>11. CASE pc' \in {"noRouter", "noNode", "noSource"}
  BY <1>11 DEF SeenInv, Running
<1>12. \A reason : Exit(reason) => pc' = reason
  BY DEF Exit
<1> QED
  BY <1>1, <1>2, <1>3, <1>4, <1>5, <1>6, <1>7, <1>8, <1>9, <1>10, <1>11, <1>12
     DEF Steps, LeaveStep

\* Every round of the map is linked with the one before it, if that is there.
Neighbours(rs) ==
  \A r \in DOMAIN rs : r - 1 \in DOMAIN rs => rs[r].prev /\ rs[r - 1].next

\* A round that is made when it is the last one is linked with the one before.
LEMMA MadeLinked ==
  ASSUME TypeInv, Neighbours(rounds), NEW r \in Nat, ~Obsolete(r),
         r \in DOMAIN rounds \/ (\A q \in DOMAIN rounds : q <= r)
  PROVE  Neighbours(WithRound(r))
PROOF
<1>1. CASE r \in DOMAIN rounds
  BY <1>1, RoundThere
<1>2. CASE r \notin DOMAIN rounds
  <2>1. PICK with : with = WithRound(r)
    OBVIOUS
  <2>2. /\ DOMAIN with = {p \in DOMAIN rounds \cup {r} : ~Obsolete(p)}
        /\ with[r] = NewRound(Linked(r))
        /\ \A q \in DOMAIN with : q # r =>
             /\ q \in DOMAIN rounds
             /\ with[q].prev = rounds[q].prev
             /\ with[q].next = (IF q = r - 1 THEN TRUE ELSE rounds[q].next)
    BY <1>2, <2>1, RoundCreated
  <2>3. DOMAIN rounds \subseteq Nat
    BY DEF TypeInv, Maps
  <2>4. ASSUME NEW q \in DOMAIN with, q - 1 \in DOMAIN with
        PROVE  with[q].prev /\ with[q - 1].next
    <3>1. CASE q = r
      <4>1. q - 1 \in DOMAIN rounds /\ ~Obsolete(q - 1) /\ q - 1 # r
        BY <2>2, <2>4, <3>1
      <4>2. Linked(r)
        BY <3>1, <4>1 DEF Linked
      <4>3. with[q].prev
        BY <2>2, <3>1, <4>2 DEF NewRound
      <4>4. with[q - 1].next
        BY <2>2, <2>4, <3>1, <4>1
      <4> QED BY <4>3, <4>4
    <3>2. CASE q # r
      <4>1. q \in DOMAIN rounds
        BY <2>2, <3>2
      <4>2. q - 1 # r
        BY <1>2, <2>3, <4>1
      <4>3. q - 1 \in DOMAIN rounds
        BY <2>2, <2>4, <4>2
      <4>4. rounds[q].prev /\ rounds[q - 1].next
        BY <4>1, <4>3 DEF Neighbours
      <4>5. with[q].prev
        BY <2>2, <3>2, <4>4
      <4>6. with[q - 1].next
        BY <2>2, <2>4, <4>2, <4>4
      <4> QED BY <4>5, <4>6
    <3> QED BY <3>1, <3>2
  <2> QED BY <2>1, <2>4 DEF Neighbours
<1> QED BY <1>1, <1>2

\* What leaves the links alone keeps neighbours linked.
LEMMA LinksKept ==
  ASSUME NEW rs, NEW rs2, Neighbours(rs), DOMAIN rs2 = DOMAIN rs,
         \A q \in DOMAIN rs : rs2[q].prev = rs[q].prev /\ rs2[q].next = rs[q].next
  PROVE  Neighbours(rs2)
PROOF BY DEF Neighbours

\* Every step keeps the rounds linked, if the timers are prompt.
LEMMA NeighboursStep ==
  ASSUME BaseInv, SeenInv, Prompt, Neighbours(rounds), [Next]_vars PROVE Neighbours(rounds')
PROOF
<1>1. Steps
  BY NextSteps
<1>2. PICK old : old = rounds
  OBVIOUS
<1>3. PICK new : new = rounds'
  OBVIOUS
<1>4. Neighbours(old)
  BY <1>2
<1>5. CASE rounds' = rounds
  BY <1>5
<1>6. CASE UpdateRound(Epoch(now))
  <2>1. PICK r \in Nat : r = Epoch(now) /\ ~Obsolete(r) /\ TypeInv
    BY PresentRound DEF BaseInv
  <2>2. \A q \in DOMAIN rounds : q <= r
    BY <2>1 DEF BaseInv, PhaseInv
  <2>3. rounds' = WithRound(r)
    BY <1>6, <2>1 DEF UpdateRound
  <2> QED BY <2>1, <2>2, <2>3, MadeLinked
<1>7. CASE RoundUpdated
  <2>1. PICK r : r = updating
    OBVIOUS
  <2>2. CASE r \in DOMAIN rounds
    <3>1. /\ DOMAIN new = DOMAIN old
          /\ \A q \in DOMAIN old : new[q].prev = old[q].prev /\ new[q].next = old[q].next
      BY <1>2, <1>3, <1>7, <2>1, <2>2, InitializedEffect DEF RoundUpdated, BaseInv
    <3> QED BY <1>3, <1>4, <3>1, LinksKept
  <2>3. CASE r \notin DOMAIN rounds
    BY <1>5, <1>7, <2>1, <2>3 DEF RoundUpdated
  <2> QED BY <2>2, <2>3
<1>8. CASE SkipStep
  <2>1. /\ DOMAIN new = DOMAIN old
        /\ \A q \in DOMAIN old : new[q].prev = old[q].prev /\ new[q].next = old[q].next
    BY <1>2, <1>3, <1>8, ReadHandled DEF SkipStep, BaseInv, TypeInv
  <2> QED BY <1>3, <1>4, <2>1, LinksKept
<1>9. CASE ListStep
  <2>1. pc = "running" /\ next <= Height /\ ~TooEarly(ReadRound)
    BY <1>9 DEF ListStep
  <2>2. PICK r \in Nat : r = ReadRound /\ ~Obsolete(r) /\ TypeInv
    BY <2>1, ReadRoundKept DEF BaseInv
  <2>3. PICK with : with = WithRound(r)
    OBVIOUS
  <2>4. r \in DOMAIN rounds \/ (\A q \in DOMAIN rounds : q <= r)
    BY <2>1, <2>2, CreatesPresent DEF BaseInv, PhaseInv
  <2>5. Neighbours(with)
    BY <2>2, <2>3, <2>4, MadeLinked
  <2>6. /\ DOMAIN new = DOMAIN with
        /\ \A q \in DOMAIN with : new[q].prev = with[q].prev /\ new[q].next = with[q].next
    BY <1>3, <1>9, <2>2, <2>3, ListEffect
  <2> QED BY <1>3, <2>5, <2>6, LinksKept
<1>10. CASE \E w \in waiting : ContinueStep(w)
  <2>1. PICK w \in waiting : ContinueStep(w)
    BY <1>10
  <2>2. PICK r : r = w.round
    OBVIOUS
  <2>3. PICK list : list = Add(r, rounds[r].listed, w.request)
    OBVIOUS
  <2>4. rounds' = [Initialized(r) EXCEPT ![r].listed = list]
    BY <2>1, <2>2, <2>3 DEF ContinueStep
  <2>5. /\ DOMAIN new = DOMAIN old
        /\ \A q \in DOMAIN old : new[q].prev = old[q].prev /\ new[q].next = old[q].next
    BY <1>2, <1>3, <2>2, <2>3, <2>4, ContinuesEffect
  <2> QED BY <1>3, <1>4, <2>5, LinksKept
<1>11. Tick \/ MineBlock \/ FindStartBlock => rounds' = rounds
  BY DEF Tick, MineBlock, FindStartBlock
<1>12. \A reason : Exit(reason) => rounds' = rounds
  BY DEF Exit
<1>13. /\ Initialize /\ HasRouter(Epoch(now)) => UpdateRound(Epoch(now))
       /\ StartRoundUpdate /\ HasRouter(Epoch(now)) => UpdateRound(Epoch(now))
  BY DEF Initialize, StartRoundUpdate
<1> QED
  BY <1>1, <1>5, <1>6, <1>7, <1>8, <1>9, <1>10, <1>11, <1>12, <1>13 DEF Steps, LeaveStep

\* When calls are prompt, the map has the rounds up to the present one, but for
\* those that cleanup has taken out, and the earlier ones know their members.
THEOREM RoundsSeen == Spec => []SeenInv
PROOF
<1>1. Init => SeenInv
  BY DEF Init, SeenInv, Running
<1>2. BaseInv /\ BaseInv' /\ SeenInv /\ [Next]_vars => SeenInv'
  BY SeenStep
<1> QED BY <1>1, <1>2, BaseInvariant, PTL DEF Spec

\* When calls are prompt, rounds that follow each other in the map are linked
\* (getRoundOrCreateIt).
THEOREM NeighboursAlwaysLinked == Spec => []NeighboursLinked
PROOF
<1>1. Init => NeighboursLinked
  BY DEF Init, NeighboursLinked
<1>2. BaseInv /\ SeenInv /\ NeighboursLinked /\ [Next]_vars => NeighboursLinked'
  BY NeighboursStep DEF NeighboursLinked, Neighbours
<1> QED BY <1>1, <1>2, BaseInvariant, RoundsSeen, PTL DEF Spec

-----------------------------------------------------------------------------
(* Requests are list, and in the order of the chain.                       *)

OrderedInv == \A r \in DOMAIN rounds : Ordered(rounds[r].listed)

\* The lists keep the order of the chain, but for requests that waited.
LEMMA OrderedStep ==
  ASSUME BaseInv, OrderedInv, [Next]_vars PROVE OrderedInv'
PROOF
<1>1. Steps
  BY NextSteps
<1>2. Ordered(<<>>)
  BY DEF Ordered
<1>3. CASE rounds' = rounds
  BY <1>3 DEF OrderedInv, Ordered, Later
<1>4. PICK made : made = rounds'
  OBVIOUS
<1>5. ASSUME \A q \in DOMAIN made : Ordered(made[q].listed) PROVE OrderedInv'
  BY <1>4, <1>5 DEF OrderedInv, Ordered, Later
<1>6. CASE UpdateRound(Epoch(now))
  <2>1. PICK r \in Nat : r = Epoch(now) /\ ~Obsolete(r) /\ TypeInv
    BY PresentRound DEF BaseInv
  <2>2. made = WithRound(r)
    BY <1>4, <1>6, <2>1 DEF UpdateRound
  <2>3. \A q \in DOMAIN made : \/ q \in DOMAIN rounds /\ made[q].listed = rounds[q].listed
                               \/ made[q].listed = <<>>
    BY <2>1, <2>2, RoundMade
  <2>4. \A q \in DOMAIN made : Ordered(made[q].listed)
    BY <1>2, <2>3 DEF OrderedInv
  <2> QED BY <1>5, <2>4
<1>7. CASE RoundUpdated
  <2>1. PICK r : r = updating
    OBVIOUS
  <2>2. CASE r \in DOMAIN rounds
    <3>1. /\ DOMAIN made = DOMAIN rounds
          /\ \A q \in DOMAIN rounds : made[q].listed = rounds[q].listed
      BY <1>4, <1>7, <2>1, <2>2, InitializedEffect DEF RoundUpdated, BaseInv
    <3>2. \A q \in DOMAIN made : Ordered(made[q].listed)
      BY <3>1 DEF OrderedInv
    <3> QED BY <1>5, <3>2
  <2>3. CASE r \notin DOMAIN rounds
    BY <1>3, <1>7, <2>1, <2>3 DEF RoundUpdated
  <2> QED BY <2>2, <2>3
<1>8. CASE SkipStep
  <2>1. PICK rs : rs = rounds
    OBVIOUS
  <2>2. DOMAIN made = DOMAIN rs /\ \A q \in DOMAIN rs : made[q].listed = rs[q].listed
    BY <1>4, <1>8, <2>1, ReadHandled DEF SkipStep, BaseInv, TypeInv
  <2>3. \A q \in DOMAIN made : Ordered(made[q].listed)
    BY <2>1, <2>2 DEF OrderedInv
  <2> QED BY <1>5, <2>3
<1>9. CASE ListStep
  <2>1. pc = "running" /\ next <= Height /\ ~TooEarly(ReadRound)
    BY <1>9 DEF ListStep
  <2>2. PICK r \in Nat : r = ReadRound /\ ~Obsolete(r) /\ TypeInv
    BY <2>1, ReadRoundKept DEF BaseInv
  <2>3. PICK with : with = WithRound(r)
    OBVIOUS
  <2>4. r \in DOMAIN with
    BY <2>2, <2>3, RoundMade
  <2>5. \A q \in DOMAIN with : \/ q \in DOMAIN rounds /\ with[q].listed = rounds[q].listed
                               \/ with[q].listed = <<>>
    BY <2>2, <2>3, RoundMade
  <2>6. \A q \in DOMAIN with : Ordered(with[q].listed)
    BY <1>2, <2>5 DEF OrderedInv
  <2>7. Ordered(ReadList)
    BY <2>1, <2>2, <2>3, <2>4, <2>6, ReadListed
  <2>8. /\ DOMAIN made = DOMAIN with
        /\ \A q \in DOMAIN made : made[q].listed \in {ReadList, with[q].listed}
    BY <1>4, <1>9, <2>2, <2>3, ListEffect
  <2>9. \A q \in DOMAIN made : Ordered(made[q].listed)
    BY <2>6, <2>7, <2>8
  <2> QED BY <1>5, <2>9
<1>10. CASE \E w \in waiting : ContinueStep(w)
  <2>1. PICK w \in waiting : ContinueStep(w)
    BY <1>10
  <2>2. PICK r : r = w.round
    OBVIOUS
  <2>3. PICK list : list = Add(r, rounds[r].listed, w.request)
    OBVIOUS
  <2>4. rounds' = [Initialized(r) EXCEPT ![r].listed = list]
    BY <2>1, <2>2, <2>3 DEF ContinueStep
  <2>5. /\ r \in DOMAIN rounds
        /\ Ordered(rounds[r].listed) => Ordered(list)
        /\ DOMAIN made = DOMAIN rounds
        /\ \A q \in DOMAIN rounds :
             made[q].listed = IF q = r THEN list ELSE rounds[q].listed
    BY <1>4, <2>2, <2>3, <2>4, ContinuesEffect
  <2>6. \A q \in DOMAIN made : Ordered(made[q].listed)
    BY <2>5 DEF OrderedInv
  <2> QED BY <1>5, <2>6
<1>11. Tick \/ MineBlock \/ FindStartBlock => rounds' = rounds
  BY DEF Tick, MineBlock, FindStartBlock
<1>12. \A reason : Exit(reason) => rounds' = rounds
  BY DEF Exit
<1>13. /\ Initialize /\ HasRouter(Epoch(now)) => UpdateRound(Epoch(now))
       /\ StartRoundUpdate /\ HasRouter(Epoch(now)) => UpdateRound(Epoch(now))
  BY DEF Initialize, StartRoundUpdate
<1> QED
  BY <1>1, <1>3, <1>6, <1>7, <1>8, <1>9, <1>10, <1>11, <1>12, <1>13 DEF Steps, LeaveStep

\* A request stays registered when its round stays and its list grows, and what
\* waits no longer is listed.
LEMMA StillRegistered ==
  ASSUME NEW n, NEW i, Registered(n, i), Block(n)' = Block(n),
         NEW r, r = Epoch(Block(n).time), r \in DOMAIN rounds',
         Ids(rounds[r].listed) \subseteq Ids(rounds'[r].listed),
         \A w \in waiting : w.round = r =>
           w \in waiting' \/ w.request.id \in Ids(rounds'[r].listed)
  PROVE  Registered(n, i)'
PROOF
<1>1. Epoch(Block(n).time)' = r /\ RequestsOf(n)' = RequestsOf(n)
  BY DEF Epoch, RequestsOf
<1>2. PICK id : id = RequestsOf(n)[i].id
  OBVIOUS
<1>3. RequestsOf(n)[i].id' = id
  BY <1>1, <1>2
<1>4. \/ id \in Ids(rounds[r].listed)
      \/ \E w \in waiting : w.round = r /\ w.request.id = id
  BY <1>2 DEF Registered
<1>5. \/ id \in Ids(rounds'[r].listed)
      \/ \E w \in waiting' : w.round = r /\ w.request.id = id
  BY <1>4
<1>6. Ids(rounds'[r].listed) = Ids(rounds[r].listed)'
  BY DEF Ids
<1> QED BY <1>1, <1>3, <1>5, <1>6 DEF Registered

\* The requests of the blocks that were read before stay registered.
LEMMA EarlierListed ==
  ASSUME BaseInv, ListedInv, startRound' = startRound,
         Epoch(now)' \in Nat, Epoch(now) <= Epoch(now)',
         \A n \in 0..Height : Block(n)' = Block(n),
         \A q \in DOMAIN rounds : q > Epoch(now) - KeepRounds =>
           q \in DOMAIN rounds' /\ Ids(rounds[q].listed) \subseteq Ids(rounds'[q].listed),
         \A w \in waiting : w \in waiting' \/ w.request.id \in Ids(rounds'[w.round].listed)
  PROVE  \A n \in BlocksRead : \A i \in DOMAIN RequestsOf(n)' :
           /\ ~TooEarly(Epoch(Block(n).time))'
           /\ Epoch(Block(n).time)' > Epoch(now)' - KeepRounds
           => Registered(n, i)'
PROOF
<1> SUFFICES ASSUME NEW n \in BlocksRead, NEW i \in DOMAIN RequestsOf(n)',
                    ~TooEarly(Epoch(Block(n).time))',
                    Epoch(Block(n).time)' > Epoch(now)' - KeepRounds
             PROVE  Registered(n, i)'
  OBVIOUS
<1>1. n \in 0..Height
  BY BlockType DEF BaseInv, PhaseInv, TypeInv, BlocksRead
<1>2. Block(n)' = Block(n)
  BY <1>1
<1>3. PICK r \in Nat : r = Epoch(Block(n).time)
  BY <1>1, BlockType DEF BaseInv
<1>4. Epoch(Block(n).time)' = r /\ RequestsOf(n)' = RequestsOf(n)
  BY <1>2, <1>3 DEF Epoch, RequestsOf
<1>5. ~TooEarly(r) /\ r > Epoch(now) - KeepRounds
  <2>1. r > Epoch(now)' - KeepRounds
    BY <1>4
  <2>2. Epoch(now) \in Nat
    BY PresentRound
  <2>3. ~TooEarly(r)
    BY <1>4 DEF TooEarly
  <2> QED BY <2>1, <2>2, <2>3
<1>6. Registered(n, i)
  BY <1>3, <1>4, <1>5 DEF ListedInv
<1>7. r \in DOMAIN rounds
  BY <1>3, <1>6 DEF Registered
<1>8. r \in DOMAIN rounds' /\ Ids(rounds[r].listed) \subseteq Ids(rounds'[r].listed)
  BY <1>5, <1>7
<1> QED BY <1>2, <1>3, <1>6, <1>8, StillRegistered

\* No block is read: what was registered stays so.
LEMMA ListedKept ==
  ASSUME BaseInv, ListedInv, startRound' = startRound,
         pc' = "running" => pc = "running" /\ next' = next,
         Epoch(now)' \in Nat, Epoch(now) <= Epoch(now)',
         \A n \in 0..Height : Block(n)' = Block(n),
         \A q \in DOMAIN rounds : q > Epoch(now) - KeepRounds =>
           q \in DOMAIN rounds' /\ Ids(rounds[q].listed) \subseteq Ids(rounds'[q].listed),
         \A w \in waiting : w \in waiting' \/ w.request.id \in Ids(rounds'[w.round].listed)
  PROVE  ListedInv'
PROOF
<1>1. \A n \in BlocksRead' : n \in BlocksRead
  BY DEF BlocksRead
<1>2. \A n \in BlocksRead : \A i \in DOMAIN RequestsOf(n)' :
        /\ ~TooEarly(Epoch(Block(n).time))'
        /\ Epoch(Block(n).time)' > Epoch(now)' - KeepRounds
        => Registered(n, i)'
  BY EarlierListed
<1> QED BY <1>1, <1>2 DEF ListedInv

\* A block of a round is read: its requests are in the list, or wait.
LEMMA ReadRegistered ==
  ASSUME BaseInv, ListStep, NEW n, n = next, NEW i \in DOMAIN RequestsOf(n)
  PROVE  Registered(n, i)'
PROOF
<1>1. /\ pc = "running" /\ next <= Height /\ ~TooEarly(ReadRound)
      /\ UNCHANGED <<now, chain>> /\ TypeInv
  BY DEF ListStep, external, BaseInv
<1>2. PICK r \in Nat : r = ReadRound /\ ~Obsolete(r)
  BY <1>1, ReadRoundKept
<1>3. PICK with : with = WithRound(r)
  OBVIOUS
<1>4. r \in DOMAIN with
  BY <1>1, <1>2, <1>3, RoundMade
<1>5. PICK asked : asked = RequestsOf(n)
  OBVIOUS
<1>6. RequestsOf(n)' = asked /\ Epoch(Block(n).time)' = r
  BY <1>1, <1>2, <1>5 DEF RequestsOf, Block, Epoch, ReadRound
<1>7. PICK made : made = rounds'
  OBVIOUS
<1>8. r \in DOMAIN made
  BY <1>2, <1>3, <1>4, <1>7, ListEffect
<1>9. PICK id : id = asked[i].id
  OBVIOUS
<1>10. CASE with[r].initialized
  <2>1. made[r].listed = ReadList
    BY <1>2, <1>3, <1>7, <1>8, <1>10, ListEffect
  <2>2. id \in RequestedIds(asked)
    BY <1>5, <1>9 DEF RequestedIds
  <2>3. id \in Ids(ReadList)
    BY <1>1, <1>5, <2>2, ReadListed
  <2>4. id \in Ids(made[r].listed)
    BY <2>1, <2>3
  <2> QED BY <1>6, <1>7, <1>8, <1>9, <2>4 DEF Registered, Ids
<1>11. CASE ~with[r].initialized
  <2>1. waiting' = waiting \cup Waiting(r, asked)
    BY <1>2, <1>3, <1>5, <1>11, ListEffect
  <2>2. PICK w : w = [round |-> r, request |-> [asked[i] EXCEPT !.waited = TRUE]]
    OBVIOUS
  <2>3. asked[i] \in Requests
    BY <1>1, <1>5, ReadRoundKept, RequestType
  <2>4. w.round = r /\ w.request.id = id
    BY <1>9, <2>2, <2>3 DEF Requests
  <2>5. w \in Waiting(r, asked)
    BY <1>5, <2>2 DEF Waiting
  <2> QED BY <1>6, <1>7, <1>8, <1>9, <2>1, <2>4, <2>5 DEF Registered
<1> QED BY <1>10, <1>11

\* Every step keeps the invariant of the lists.
LEMMA ListedStep ==
  ASSUME BaseInv, ListedInv, [Next]_vars PROVE ListedInv'
PROOF
<1>1. Steps
  BY NextSteps
<1>2. pc' # "running" => ListedInv'
  BY DEF ListedInv, BlocksRead
<1>3. Epoch(now) \in Nat
  BY PresentRound
<1>4. ASSUME UNCHANGED <<startRound, rounds, waiting>>,
             pc' = "running" => pc = "running" /\ next' = next,
             Epoch(now)' \in Nat, Epoch(now) <= Epoch(now)',
             \A n \in 0..Height : Block(n)' = Block(n)
      PROVE  ListedInv'
  BY <1>4, ListedKept
<1>5. CASE Tick
  <2>1. /\ now' = now + 1 /\ now \in Nat
        /\ UNCHANGED <<chain, pc, startRound, next, rounds, waiting>>
    BY <1>5 DEF Tick, BaseInv, TypeInv
  <2>2. now' \in Nat /\ now <= now' /\ Epoch(now)' = Epoch(now')
    BY <2>1 DEF Epoch
  <2>3. Epoch(now)' \in Nat /\ Epoch(now) <= Epoch(now)'
    BY <2>1, <2>2, EpochBounds, EpochMonotone
  <2> QED BY <1>4, <2>1, <2>3 DEF Block
<1>6. CASE MineBlock
  <2>1. UNCHANGED <<now, pc, startRound, next, rounds, waiting>>
    BY <1>6 DEF MineBlock
  <2> QED BY <1>3, <1>4, <1>6, <2>1, MinedBlock DEF Epoch
<1>7. CASE /\ UNCHANGED <<now, chain, startRound, next, rounds, waiting, updating, managers>>
           /\ pc' = pc \/ (pc \in {"off", "loading"} /\ pc' \in {"loading", "connecting"})
  BY <1>3, <1>4, <1>7 DEF Epoch, Block
<1>8. CASE Initialize /\ HasRouter(Epoch(now))
  BY <1>2, <1>8 DEF Initialize
<1>9. CASE StartRoundUpdate /\ HasRouter(Epoch(now))
  <2>1. PICK r \in Nat : r = Epoch(now) /\ ~Obsolete(r) /\ TypeInv
    BY PresentRound DEF BaseInv
  <2>2. rounds' = WithRound(r) /\ UNCHANGED <<now, chain, pc, startRound, next, waiting>>
    BY <1>9, <2>1 DEF StartRoundUpdate, UpdateRound, external
  <2>3. \A q \in DOMAIN rounds : q > Epoch(now) - KeepRounds =>
          q \in DOMAIN rounds' /\ Ids(rounds[q].listed) \subseteq Ids(rounds'[q].listed)
    <3> SUFFICES ASSUME NEW q \in DOMAIN rounds, q > Epoch(now) - KeepRounds
                 PROVE  /\ q \in DOMAIN rounds'
                        /\ Ids(rounds[q].listed) \subseteq Ids(rounds'[q].listed)
      OBVIOUS
    <3>1. ~Obsolete(q)
      BY <1>3 DEF Obsolete, BaseInv, TypeInv, Maps
    <3>2. q \in DOMAIN rounds' /\ rounds'[q].listed = rounds[q].listed
      BY <2>1, <2>2, <3>1, RoundMade
    <3> QED BY <3>2
  <2> QED BY <1>3, <2>2, <2>3, ListedKept DEF Epoch, Block
<1>10. CASE RoundUpdated
  <2>1. PICK r : r = updating
    OBVIOUS
  <2>2. UNCHANGED <<now, chain, pc, startRound, next, waiting>>
    BY <1>10 DEF RoundUpdated, external
  <2>3. /\ DOMAIN rounds' = DOMAIN rounds
        /\ \A q \in DOMAIN rounds : rounds'[q].listed = rounds[q].listed
    <3>1. CASE r \in DOMAIN rounds
      BY <1>10, <2>1, <3>1, InitializedEffect DEF RoundUpdated, BaseInv
    <3>2. CASE r \notin DOMAIN rounds
      BY <1>10, <2>1, <3>2 DEF RoundUpdated
    <3> QED BY <3>1, <3>2
  <2>4. \A q \in DOMAIN rounds :
          q \in DOMAIN rounds' /\ Ids(rounds[q].listed) \subseteq Ids(rounds'[q].listed)
    BY <2>3
  <2> QED BY <1>3, <2>2, <2>4, ListedKept DEF Epoch, Block
<1>11. CASE FindStartBlock
  <2>1. /\ startRound' = startRound /\ chain' = chain
        /\ next' = BlockBefore(startRound * Period)
    BY <1>11 DEF FindStartBlock, external
  <2>2. PICK s \in Nat : s = startRound
    BY DEF BaseInv, TypeInv
  <2>3. PICK time \in Nat : time = s * Period
    OBVIOUS
  <2>4. /\ next' \in 0..Height
        /\ \A n \in 0..(next' - 1) : Block(n).time < time
    BY <2>1, <2>2, <2>3, StartBlock
  <2>5. ASSUME NEW n \in BlocksRead' PROVE TooEarly(Epoch(Block(n).time))'
    <3>1. n \in 0..(next' - 1)
      BY <2>5 DEF BlocksRead
    <3>2. n \in 0..Height
      <4>1. Height \in Nat
        BY BlockType DEF BaseInv
      <4>2. PICK first : first = next'
        OBVIOUS
      <4>3. first \in 0..Height /\ n \in 0..(first - 1)
        BY <2>4, <3>1, <4>2
      <4> QED BY <4>1, <4>3
    <3>3. Block(n).time \in Nat /\ Block(n).time < time
      BY <2>4, <3>1, <3>2, BlockType DEF BaseInv, FlareBlocks
    <3>4. Epoch(Block(n).time) < s
      BY <2>2, <2>3, <3>3, BeforeEpoch
    <3> QED BY <2>1, <2>2, <3>4 DEF TooEarly, Epoch, Block
  <2> QED BY <2>5 DEF ListedInv
<1>12. CASE SkipStep
  <2>1. /\ pc = "running" /\ next <= Height /\ next' = next + 1
        /\ UNCHANGED <<now, chain, pc, startRound, waiting>>
        /\ TooEarly(ReadRound) \/ DOMAIN RequestsOf(next) = {}
    BY <1>12 DEF SkipStep, external, config
  <2>2. PICK rs : rs = rounds
    OBVIOUS
  <2>3. DOMAIN rounds' = DOMAIN rs /\ \A q \in DOMAIN rs : rounds'[q].listed = rs[q].listed
    BY <1>12, <2>2, ReadHandled DEF SkipStep, BaseInv, TypeInv
  <2>4. \A q \in DOMAIN rounds :
          q \in DOMAIN rounds' /\ Ids(rounds[q].listed) \subseteq Ids(rounds'[q].listed)
    BY <2>2, <2>3
  <2>5. \A n \in BlocksRead : \A i \in DOMAIN RequestsOf(n)' :
          /\ ~TooEarly(Epoch(Block(n).time))'
          /\ Epoch(Block(n).time)' > Epoch(now)' - KeepRounds
          => Registered(n, i)'
    <3>1. Epoch(now)' \in Nat /\ Epoch(now) <= Epoch(now)'
      BY <1>3, <2>1 DEF Epoch
    <3>2. \A n \in 0..Height : Block(n)' = Block(n)
      BY <2>1 DEF Block
    <3>3. \A w \in waiting : w \in waiting'
      BY <2>1
    <3> QED BY <2>1, <2>4, <3>1, <3>2, <3>3, EarlierListed
  <2>6. \A n \in BlocksRead' : n \in BlocksRead \/ n = next
    BY <2>1 DEF BlocksRead, BaseInv, TypeInv
  <2>7. ASSUME NEW n, n = next
        PROVE  TooEarly(Epoch(Block(n).time))' \/ DOMAIN RequestsOf(n)' = {}
    BY <2>1, <2>7 DEF TooEarly, Epoch, Block, RequestsOf, ReadRound
  <2> QED BY <2>5, <2>6, <2>7 DEF ListedInv
<1>13. CASE ListStep
  <2>1. /\ pc = "running" /\ next <= Height /\ next' = next + 1 /\ ~TooEarly(ReadRound)
        /\ UNCHANGED <<now, chain, pc, startRound>> /\ TypeInv
    BY <1>13 DEF ListStep, external, BaseInv
  <2>2. PICK r \in Nat : r = ReadRound /\ ~Obsolete(r)
    BY <2>1, ReadRoundKept
  <2>3. PICK with : with = WithRound(r)
    OBVIOUS
  <2>4. PICK made : made = rounds'
    OBVIOUS
  <2>5. /\ DOMAIN made = DOMAIN with
        /\ \A q \in DOMAIN made :
             made[q].listed = with[q].listed \/ (q = r /\ made[q].listed = ReadList)
        /\ waiting \subseteq waiting'
    BY <1>13, <2>2, <2>3, <2>4, ListEffect
  <2>6. Ids(with[r].listed) \subseteq Ids(ReadList)
    BY <2>1, <2>2, <2>3, ReadListed
  <2>7. \A q \in DOMAIN rounds : q > Epoch(now) - KeepRounds =>
          q \in DOMAIN made /\ Ids(rounds[q].listed) \subseteq Ids(made[q].listed)
    <3> SUFFICES ASSUME NEW q \in DOMAIN rounds, q > Epoch(now) - KeepRounds
                 PROVE  /\ q \in DOMAIN made
                        /\ Ids(rounds[q].listed) \subseteq Ids(made[q].listed)
      OBVIOUS
    <3>1. ~Obsolete(q)
      BY <1>3 DEF Obsolete, BaseInv, TypeInv, Maps
    <3>2. q \in DOMAIN with /\ with[q].listed = rounds[q].listed
      BY <2>1, <2>2, <2>3, <3>1, RoundMade
    <3> QED BY <2>5, <2>6, <3>2
  <2>8. \A n \in BlocksRead : \A i \in DOMAIN RequestsOf(n)' :
          /\ ~TooEarly(Epoch(Block(n).time))'
          /\ Epoch(Block(n).time)' > Epoch(now)' - KeepRounds
          => Registered(n, i)'
    BY <1>3, <2>1, <2>4, <2>5, <2>7, EarlierListed DEF Epoch, Block
  <2>9. \A n \in BlocksRead' : n \in BlocksRead \/ n = next
    BY <2>1 DEF BlocksRead, TypeInv
  <2>10. ASSUME NEW n, n = next, NEW i \in DOMAIN RequestsOf(n)'
         PROVE  Registered(n, i)'
    <3>1. i \in DOMAIN RequestsOf(n)
      BY <2>1 DEF RequestsOf, Block
    <3> QED BY <1>13, <2>10, <3>1, ReadRegistered
  <2> QED BY <2>8, <2>9, <2>10 DEF ListedInv
<1>14. CASE \E w \in waiting : ContinueStep(w)
  <2>1. PICK w \in waiting : ContinueStep(w)
    BY <1>14
  <2>2. PICK r : r = w.round
    OBVIOUS
  <2>3. PICK list : list = Add(r, rounds[r].listed, w.request)
    OBVIOUS
  <2>4. /\ rounds' = [Initialized(r) EXCEPT ![r].listed = list]
        /\ UNCHANGED <<now, chain, pc, startRound, next>> /\ waiting' = waiting \ {w}
    BY <2>1, <2>2, <2>3 DEF ContinueStep, external
  <2>5. Ids(rounds[r].listed) \subseteq Ids(list) /\ w.request.id \in Ids(list)
    BY <2>2, <2>3, ContinuesIds
  <2>9. /\ r \in DOMAIN rounds
        /\ DOMAIN rounds' = DOMAIN rounds
        /\ \A q \in DOMAIN rounds :
             rounds'[q].listed = IF q = r THEN list ELSE rounds[q].listed
    BY <2>2, <2>3, <2>4, ContinuesEffect
  <2>6. \A q \in DOMAIN rounds :
          q \in DOMAIN rounds' /\ Ids(rounds[q].listed) \subseteq Ids(rounds'[q].listed)
    BY <2>5, <2>9
  <2>7. w.request.id \in Ids(rounds'[w.round].listed)
    BY <2>2, <2>5, <2>9
  <2>8. \A v \in waiting : v \in waiting' \/ v.request.id \in Ids(rounds'[v.round].listed)
    BY <2>4, <2>7
  <2> QED BY <1>3, <2>4, <2>6, <2>8, ListedKept DEF Epoch, Block
<1>15. \A reason \in {"noRouter", "noNode", "noSource"} : Exit(reason) => pc' # "running"
  BY DEF Exit
<1> QED
  BY <1>1, <1>2, <1>5, <1>6, <1>7, <1>8, <1>9, <1>10, <1>11, <1>12, <1>13, <1>14, <1>15
     DEF Steps, LeaveStep

\* Every request of a round since the start is in the list of its round or has a
\* handler that will add it, and only requests that waited for the round to know
\* its members are overtaken (getBlockBeforeTime, onAttestationRequest).
THEOREM RequestsAlwaysListed == Spec => []RequestsListed
PROOF
<1>1. Init => OrderedInv /\ ListedInv
  BY DEF Init, OrderedInv, ListedInv, BlocksRead
<1>2. BaseInv /\ OrderedInv /\ [Next]_vars => OrderedInv'
  BY OrderedStep
<1>3. BaseInv /\ ListedInv /\ [Next]_vars => ListedInv'
  BY ListedStep
<1>4. OrderedInv => OnlyWaitingOvertaken
  BY DEF OrderedInv, Ordered, Later, OnlyWaitingOvertaken
<1>5. ASSUME BaseInv, ListedInv PROVE EveryRequestListed
  <2> SUFFICES ASSUME NEW n \in BlocksRead, NEW i \in DOMAIN RequestsOf(n),
                      NEW r, r = Epoch(Block(n).time),
                      r >= startRound, r > Epoch(now) - KeepRounds
               PROVE  \/ RequestsOf(n)[i].id \in Ids(rounds[r].listed)
                      \/ \E w \in waiting : /\ w.round = r
                                            /\ w.request.id = RequestsOf(n)[i].id
    BY DEF EveryRequestListed
  <2>1. n \in 0..Height /\ startRound \in Nat
    BY <1>5, BlockType DEF BaseInv, PhaseInv, TypeInv, BlocksRead
  <2>2. r \in Nat
    BY <1>5, <2>1, BlockType DEF BaseInv
  <2>3. ~TooEarly(r)
    BY <2>1, <2>2 DEF TooEarly
  <2>4. Registered(n, i)
    BY <1>5, <2>3 DEF ListedInv
  <2> QED BY <2>4 DEF Registered
<1>6. BaseInv /\ OrderedInv /\ ListedInv => RequestsListed
  BY <1>4, <1>5 DEF RequestsListed
<1> QED BY <1>1, <1>2, <1>3, <1>6, BaseInvariant, PTL DEF Spec

-----------------------------------------------------------------------------
(* The votes that count are registered.                                      *)

\* The blocks read with a vote of a member that counts for a round, and the last
\* of the votes of these blocks.
Cast(m, r) == {n \in VotingBlocks(r) : Vote(Block(n).log, m, r) # None}
LastOf(cast, m, r) ==
  IF cast = {} THEN None
  ELSE Vote(Block(CHOOSE n \in cast : \A k \in cast : k <= n).log, m, r)

VotesInv ==
  Prompt /\ pc = "running" =>
    \A r \in DOMAIN rounds : \A m \in Members :
      rounds[r].votes[m] = LastOf(Cast(m, r), m, r)

\* The votes are those of blocks that were read.
LEMMA CastType ==
  ASSUME BaseInv, NEW m, NEW r
  PROVE  /\ Cast(m, r) \in SUBSET (0..Height)
         /\ \A n \in Cast(m, r) : /\ n < next
                                  /\ Epoch(Block(n).time) = r + 1
PROOF
<1>1. Height \in Nat /\ next \in Nat
  BY BlockType DEF BaseInv, TypeInv
<1>2. \A n \in BlocksRead : n \in 0..Height /\ n < next
  BY <1>1 DEF BlocksRead, BaseInv, PhaseInv
<1> QED BY <1>2 DEF Cast, VotingBlocks

\* The last vote is one of those cast.
LEMMA LastChosen ==
  ASSUME NEW limit \in Nat, NEW cast \in SUBSET (0..limit), cast # {}
  PROVE  /\ (CHOOSE n \in cast : \A k \in cast : k <= n) \in cast
         /\ \A n \in cast : (\A k \in cast : k <= n) =>
              n = CHOOSE j \in cast : \A k \in cast : k <= j
PROOF
<1>1. \E n \in cast : \A k \in cast : k <= n
  <2>1. cast \in SUBSET Nat /\ \A n \in cast : n <= limit
    OBVIOUS
  <2> QED BY <2>1, Greatest
<1>2. PICK last : last = CHOOSE n \in cast : \A k \in cast : k <= n
  OBVIOUS
<1>3. last \in cast /\ \A k \in cast : k <= last
  BY <1>1, <1>2
<1>4. \A n \in cast : (\A k \in cast : k <= n) => n = last
  BY <1>3
<1> QED BY <1>2, <1>3, <1>4

\* The votes stay as they are when no block is read.
LEMMA CastKept ==
  ASSUME BaseInv, BlocksRead' = BlocksRead, \A n \in 0..Height : Block(n)' = Block(n),
         NEW m, NEW r
  PROVE  /\ Cast(m, r)' = Cast(m, r)
         /\ LastOf(Cast(m, r), m, r)' = LastOf(Cast(m, r), m, r)
PROOF
<1>1. \A n \in BlocksRead : n \in 0..Height
  BY BlockType DEF BaseInv, PhaseInv, TypeInv, BlocksRead
<1>2. \A n \in BlocksRead : Block(n)' = Block(n)
  BY <1>1
<1>3. VotingBlocks(r)' = VotingBlocks(r)
  BY <1>2 DEF VotingBlocks, Epoch
<1>4. \A n \in VotingBlocks(r) : Vote(Block(n).log, m, r)' = Vote(Block(n).log, m, r)
  <2> SUFFICES ASSUME NEW n \in VotingBlocks(r)
               PROVE  Vote(Block(n).log, m, r)' = Vote(Block(n).log, m, r)
    OBVIOUS
  <2>1. Block(n)' = Block(n)
    BY <1>2 DEF VotingBlocks
  <2> QED BY <2>1
<1>5. Cast(m, r)' = Cast(m, r)
  BY <1>3, <1>4 DEF Cast
<1>6. PICK cast : cast = Cast(m, r)
  OBVIOUS
<1>7. cast \in SUBSET (0..Height) /\ cast \subseteq VotingBlocks(r) /\ Height \in Nat
  BY <1>6, CastType, BlockType DEF Cast, BaseInv
<1>8. PICK limit \in Nat : limit = Height
  BY <1>7
<1>9. PICK last : last = CHOOSE n \in cast : \A k \in cast : k <= n
  OBVIOUS
<1>10. cast # {} => last \in cast
  BY <1>7, <1>8, <1>9, LastChosen
<1>11. cast # {} => Vote(Block(last).log, m, r)' = Vote(Block(last).log, m, r)
  BY <1>4, <1>7, <1>10
<1>12. LastOf(cast, m, r) = IF cast = {} THEN None ELSE Vote(Block(last).log, m, r)
  BY <1>9 DEF LastOf
<1>13. LastOf(Cast(m, r), m, r)' =
         IF cast = {} THEN None ELSE Vote(Block(last).log, m, r)'
  BY <1>5, <1>6, <1>9 DEF LastOf
<1> QED BY <1>5, <1>6, <1>11, <1>12, <1>13

\* No vote was cast yet for the round of the present.
LEMMA NoneCast ==
  ASSUME BaseInv, NEW m, NEW r, r = Epoch(now)
  PROVE  Cast(m, r) = {}
PROOF
<1>1. r \in Nat /\ now \in Nat
  BY PresentRound DEF BaseInv, TypeInv
<1>2. \A n \in 0..Height : Block(n).time \in Nat /\ Epoch(Block(n).time) \in Nat
  BY BlockType DEF BaseInv, FlareBlocks
<1>3. \A n \in 0..Height : Epoch(Block(n).time) <= r
  BY <1>1, <1>2, EpochMonotone DEF BaseInv, TimesInv
<1>4. \A n \in Cast(m, r) : n \in 0..Height /\ Epoch(Block(n).time) = r + 1
  BY CastType
<1>5. \A n \in Cast(m, r) : FALSE
  BY <1>1, <1>2, <1>3, <1>4
<1> QED BY <1>5

\* A round of the present has no votes, and is right about that.
LEMMA NewVotes ==
  ASSUME BaseInv, NEW m \in Members, NEW r, r = Epoch(now)
  PROVE  NoVotes[m] = LastOf(Cast(m, r), m, r)
PROOF BY NoneCast DEF NoVotes, LastOf

\* No block is read: the votes of the rounds stay, and new rounds have none.
LEMMA VotesKept ==
  ASSUME BaseInv, VotesInv, Prompt, pc = "running", BlocksRead' = BlocksRead,
         \A n \in 0..Height : Block(n)' = Block(n),
         \A q \in DOMAIN rounds' :
           \/ q \in DOMAIN rounds /\ rounds'[q].votes = rounds[q].votes
           \/ q = Epoch(now) /\ rounds'[q].votes = NoVotes
  PROVE  VotesInv'
PROOF
<1> SUFFICES ASSUME NEW r \in DOMAIN rounds', NEW m \in Members
             PROVE  rounds'[r].votes[m] = LastOf(Cast(m, r), m, r)'
  BY DEF VotesInv
<1>1. LastOf(Cast(m, r), m, r)' = LastOf(Cast(m, r), m, r)
  BY CastKept
<1>2. CASE r \in DOMAIN rounds /\ rounds'[r].votes = rounds[r].votes
  BY <1>1, <1>2 DEF VotesInv
<1>3. CASE r = Epoch(now) /\ rounds'[r].votes = NoVotes
  BY <1>1, <1>3, NewVotes
<1> QED BY <1>2, <1>3

\* A block is read, and the chain stays.
ReadsBlock ==
  /\ pc = "running" /\ pc' = "running"
  /\ next <= Height /\ next' = next + 1
  /\ chain' = chain

\* The votes of a block count for a round when the block is of the next epoch and
\* early in it.
LEMMA VotesInTime ==
  ASSUME BaseInv, next <= Height, NEW r \in Nat
  PROVE  VotesFor(r) <=> /\ ReadRound = r + 1
                         /\ Block(next).time % Period <= VoteWindow
PROOF
<1>1. PICK n : n = next
  OBVIOUS
<1>2. n \in 0..Height
  BY <1>1, BlockType DEF BaseInv, TypeInv
<1>3. PICK time \in Nat : time = Block(n).time
  BY <1>2, BlockType DEF BaseInv, FlareBlocks
<1>4. /\ Epoch(time) \in Nat
      /\ BitVoteEpoch(time) # None <=> time % Period <= VoteWindow
      /\ BitVoteEpoch(time) # None => BitVoteEpoch(time) = Epoch(time)
  BY EpochBounds, BitVoteEpochType
<1>5. VotesFor(r) <=> BitVoteEpoch(time) # None /\ r = BitVoteEpoch(time) - 1
  BY <1>1, <1>3 DEF VotesFor, VotedRound
<1>6. ReadRound = Epoch(time) /\ Block(next).time = time
  BY <1>1, <1>3 DEF ReadRound
<1> QED BY <1>4, <1>5, <1>6

\* The block that is read is one with a vote that counts, or changes nothing.
LEMMA ReadCast ==
  ASSUME BaseInv, ReadsBlock, NEW m, NEW r \in Nat, NEW n, n = next
  PROVE  Cast(m, r)' = IF VotesFor(r) /\ Vote(Block(n).log, m, r) # None
                       THEN Cast(m, r) \cup {n} ELSE Cast(m, r)
PROOF
<1>1. n \in 0..Height /\ n \in Nat /\ next <= Height
  BY BlockType DEF BaseInv, TypeInv, ReadsBlock
<1>2. BlocksRead = 0..(n - 1) /\ BlocksRead' = 0..n
  BY <1>1 DEF BlocksRead, ReadsBlock
<1>3. \A k \in Nat : Block(k)' = Block(k)
  BY DEF ReadsBlock, Block
<1>4. VotingBlocks(r)' = {k \in 0..n : /\ Epoch(Block(k).time) = r + 1
                                       /\ Block(k).time % Period <= VoteWindow}
  BY <1>2, <1>3 DEF VotingBlocks, Epoch
<1>5. ASSUME NEW k \in Nat PROVE Vote(Block(k).log, m, r)' = Vote(Block(k).log, m, r)
  <2>1. Block(k)' = Block(k)
    BY <1>3
  <2> QED BY <2>1
<1>6. VotesFor(r) <=> /\ Epoch(Block(n).time) = r + 1
                      /\ Block(n).time % Period <= VoteWindow
  BY <1>1, VotesInTime DEF ReadRound
<1>7. \A k \in 0..n : k \in 0..(n - 1) \/ k = n
  BY <1>1
<1>8. VotingBlocks(r)' = IF VotesFor(r) THEN VotingBlocks(r) \cup {n} ELSE VotingBlocks(r)
  <2>1. \A k \in VotingBlocks(r) : k \in VotingBlocks(r)'
    BY <1>1, <1>2, <1>4 DEF VotingBlocks
  <2>2. \A k \in VotingBlocks(r)' : k \in VotingBlocks(r) \/ (k = n /\ VotesFor(r))
    BY <1>2, <1>4, <1>6, <1>7 DEF VotingBlocks
  <2>3. VotesFor(r) => n \in VotingBlocks(r)'
    BY <1>1, <1>4, <1>6
  <2> QED BY <2>1, <2>2, <2>3
<1>9. \A k \in VotingBlocks(r)' : k \in Nat
  BY <1>4
<1>10. Cast(m, r)' = {k \in VotingBlocks(r)' : Vote(Block(k).log, m, r) # None}
  BY <1>5, <1>9 DEF Cast
<1> QED BY <1>8, <1>10 DEF Cast

\* A vote that was read replaces the one before, none leaves it.
LEMMA ReadLast ==
  ASSUME BaseInv, ReadsBlock, NEW m, NEW r \in Nat, NEW n, n = next
  PROVE  LastOf(Cast(m, r), m, r)' =
           IF VotesFor(r) /\ Vote(Block(n).log, m, r) # None
           THEN Vote(Block(n).log, m, r) ELSE LastOf(Cast(m, r), m, r)
PROOF
<1>1. PICK cast : cast = Cast(m, r)
  OBVIOUS
<1>2. PICK cast2 : cast2 = Cast(m, r)'
  OBVIOUS
<1>3. PICK limit \in Nat : limit = Height
  BY BlockType DEF BaseInv
<1>4. n \in 0..limit /\ cast \in SUBSET (0..limit) /\ \A k \in cast : k < n
  <2>1. n \in 0..Height
    BY BlockType DEF BaseInv, TypeInv, ReadsBlock
  <2> QED BY <1>1, <1>3, <2>1, CastType
<1>5. cast2 = IF VotesFor(r) /\ Vote(Block(n).log, m, r) # None
              THEN cast \cup {n} ELSE cast
  BY <1>1, <1>2, ReadCast
<1>6. PICK last : last = CHOOSE k \in cast2 : \A j \in cast2 : j <= k
  OBVIOUS
<1>7. LastOf(Cast(m, r), m, r)' =
        IF cast2 = {} THEN None ELSE Vote(Block(last).log, m, r)'
  BY <1>2, <1>6 DEF LastOf
<1>8. ASSUME NEW k \in Nat PROVE Vote(Block(k).log, m, r)' = Vote(Block(k).log, m, r)
  <2>1. Block(k)' = Block(k)
    BY DEF ReadsBlock, Block
  <2> QED BY <2>1
<1>9. CASE VotesFor(r) /\ Vote(Block(n).log, m, r) # None
  <2>1. cast2 = cast \cup {n}
    BY <1>5, <1>9
  <2>2. cast2 \in SUBSET (0..limit) /\ n \in cast2 /\ cast2 # {} /\ \A k \in cast2 : k <= n
    BY <1>4, <2>1
  <2>3. last = n
    BY <1>6, <2>2, LastChosen
  <2>4. n \in Nat
    BY <1>4
  <2>5. Vote(Block(n).log, m, r)' = Vote(Block(n).log, m, r)
    BY <1>8, <2>4
  <2>6. LastOf(Cast(m, r), m, r)' = Vote(Block(n).log, m, r)'
    <3>1. n = CHOOSE k \in cast2 : \A j \in cast2 : j <= k
      BY <1>6, <2>3
    <3>2. LastOf(Cast(m, r), m, r)' =
            IF cast2 = {} THEN None ELSE Vote(Block(n).log, m, r)'
      BY <1>2, <3>1 DEF LastOf
    <3> QED BY <2>2, <3>2
  <2> QED BY <1>9, <2>5, <2>6
<1>10. CASE ~(VotesFor(r) /\ Vote(Block(n).log, m, r) # None)
  <2>1. cast2 = cast
    BY <1>5, <1>10
  <2>2. LastOf(Cast(m, r), m, r) = IF cast = {} THEN None ELSE Vote(Block(last).log, m, r)
    BY <1>1, <1>6, <2>1 DEF LastOf
  <2>3. cast # {} => last \in cast
    BY <1>4, <1>6, <2>1, LastChosen
  <2>4. cast # {} => last \in Nat
    <3>1. ASSUME last \in cast PROVE last \in 0..limit
      BY <1>4, <3>1
    <3>2. \A k \in 0..limit : k \in Nat
      OBVIOUS
    <3> QED BY <2>3, <3>1, <3>2, Zenon
  <2> QED BY <1>7, <1>8, <1>10, <2>1, <2>2, <2>4
<1> QED BY <1>9, <1>10

\* What a block does to votes keeps them the last ones cast in time: every round
\* that it can have votes for knows its members.
LEMMA ReadVotes ==
  ASSUME BaseInv, SeenInv, VotesInv, Prompt, ReadsBlock, NEW rs,
         \A q \in DOMAIN rs :
           \/ /\ q \in DOMAIN rounds
              /\ rs[q].initialized = rounds[q].initialized
              /\ rs[q].votes = rounds[q].votes
           \/ q = Epoch(now) /\ rs[q].votes = NoVotes,
         DOMAIN rounds' = DOMAIN rs,
         \A q \in DOMAIN rs :
           rounds'[q].votes = IF VotesFor(q) /\ rs[q].initialized
                              THEN UpdatedVotes(rs[q], Block(next), q) ELSE rs[q].votes
  PROVE  VotesInv'
PROOF
<1> SUFFICES ASSUME NEW r \in DOMAIN rs, NEW m \in Members
             PROVE  rounds'[r].votes[m] = LastOf(Cast(m, r), m, r)'
  BY DEF VotesInv
<1>1. PICK n : n = next
  OBVIOUS
<1>2. r \in Nat /\ Epoch(now) \in Nat /\ TypeInv
  BY PresentRound DEF BaseInv, TypeInv, Maps
<1>3. rs[r].votes[m] = LastOf(Cast(m, r), m, r)
  <2>1. CASE r \in DOMAIN rounds /\ rs[r].votes = rounds[r].votes
    BY <2>1 DEF VotesInv, ReadsBlock
  <2>2. CASE r = Epoch(now) /\ rs[r].votes = NoVotes
    BY <2>2, NewVotes
  <2> QED BY <2>1, <2>2
<1>4. LastOf(Cast(m, r), m, r)' =
        IF VotesFor(r) /\ Vote(Block(n).log, m, r) # None
        THEN Vote(Block(n).log, m, r) ELSE LastOf(Cast(m, r), m, r)
  BY <1>1, <1>2, ReadLast
<1>5. CASE ~VotesFor(r)
  BY <1>3, <1>4, <1>5
<1>6. CASE VotesFor(r)
  <2>1. pc = "running" /\ next <= Height
    BY DEF ReadsBlock
  <2>2. ReadRound = r + 1 /\ ReadRound <= Epoch(now)
    BY <1>2, <1>6, <2>1, VotesInTime, ReadRoundKept
  <2>3. r < Epoch(now)
    BY <1>2, <2>2
  <2>4. r \in DOMAIN rounds /\ rs[r].initialized = rounds[r].initialized
    BY <1>2, <2>3
  <2>5. rs[r].initialized
    BY <2>1, <2>3, <2>4 DEF SeenInv, Running
  <2>6. rounds'[r].votes = UpdatedVotes(rs[r], Block(n), r)
    BY <1>1, <1>6, <2>5
  <2>7. rounds'[r].votes[m] = IF Vote(Block(n).log, m, r) = None THEN rs[r].votes[m]
                              ELSE Vote(Block(n).log, m, r)
    BY <2>6 DEF UpdatedVotes
  <2> QED BY <1>3, <1>4, <1>6, <2>7
<1> QED BY <1>5, <1>6

\* Every step keeps the invariant of the votes.
LEMMA VotesStep ==
  ASSUME BaseInv, SeenInv, VotesInv, [Next]_vars PROVE VotesInv'
PROOF
<1> SUFFICES ASSUME Prompt, pc' = "running" PROVE VotesInv'
  BY DEF VotesInv
<1>1. Steps
  BY NextSteps
<1>2. CASE Tick
  <2>1. UNCHANGED <<chain, pc, next, rounds>>
    BY <1>2 DEF Tick
  <2> QED BY <2>1, VotesKept DEF BlocksRead, Block
<1>3. CASE MineBlock
  <2>1. UNCHANGED <<pc, next, rounds>>
    BY <1>3 DEF MineBlock
  <2> QED BY <1>3, <2>1, MinedBlock, VotesKept DEF BlocksRead
<1>4. CASE /\ UNCHANGED <<now, chain, startRound, next, rounds, waiting, updating, managers>>
           /\ pc' = pc \/ (pc \in {"off", "loading"} /\ pc' \in {"loading", "connecting"})
  BY <1>4, VotesKept DEF BlocksRead, Block
<1>5. CASE StartRoundUpdate /\ HasRouter(Epoch(now))
  <2>1. PICK r \in Nat : r = Epoch(now) /\ ~Obsolete(r) /\ TypeInv
    BY PresentRound DEF BaseInv
  <2>2. rounds' = WithRound(r) /\ UNCHANGED <<chain, pc, next>>
    BY <1>5, <2>1 DEF StartRoundUpdate, UpdateRound, external
  <2>3. \A q \in DOMAIN rounds' :
          \/ q \in DOMAIN rounds /\ rounds'[q].votes = rounds[q].votes
          \/ q = Epoch(now) /\ rounds'[q].votes = NoVotes
    BY <2>1, <2>2, RoundMade
  <2> QED BY <2>2, <2>3, VotesKept DEF BlocksRead, Block
<1>6. CASE RoundUpdated
  <2>1. PICK r : r = updating
    OBVIOUS
  <2>2. UNCHANGED <<chain, pc, next>>
    BY <1>6 DEF RoundUpdated, external
  <2>3. /\ DOMAIN rounds' = DOMAIN rounds
        /\ \A q \in DOMAIN rounds : rounds'[q].votes = rounds[q].votes
    <3>1. CASE r \in DOMAIN rounds
      BY <1>6, <2>1, <3>1, InitializedEffect DEF RoundUpdated, BaseInv
    <3>2. CASE r \notin DOMAIN rounds
      BY <1>6, <2>1, <3>2 DEF RoundUpdated
    <3> QED BY <3>1, <3>2
  <2> QED BY <2>2, <2>3, VotesKept DEF BlocksRead, Block
<1>7. CASE FindStartBlock
  <2>1. /\ startRound' = startRound /\ chain' = chain /\ rounds' = rounds
        /\ next' = BlockBefore(startRound * Period) /\ pc = "searching"
    BY <1>7 DEF FindStartBlock, external
  <2>2. PICK s \in Nat : s = startRound
    BY DEF BaseInv, TypeInv
  <2>3. PICK time \in Nat : time = s * Period
    OBVIOUS
  <2>4. PICK first : first = next'
    OBVIOUS
  <2>5. first \in 0..Height /\ \A n \in 0..(first - 1) : Block(n).time < time
    BY <2>1, <2>2, <2>3, <2>4, StartBlock
  <2>6. \A n \in 0..(first - 1) : Epoch(Block(n).time) < s
    <3> SUFFICES ASSUME NEW n \in 0..(first - 1) PROVE Epoch(Block(n).time) < s
      OBVIOUS
    <3>1. Height \in Nat
      BY BlockType DEF BaseInv
    <3>2. n \in 0..Height
      BY <2>5, <3>1
    <3>3. Block(n).time \in Nat /\ Block(n).time < time
      BY <2>5, <3>2, BlockType DEF BaseInv, FlareBlocks
    <3> QED BY <2>2, <2>3, <3>3, BeforeEpoch
  <2>7. BlocksRead' = 0..(first - 1)
    BY <2>4 DEF BlocksRead
  <2>8. ASSUME NEW r \in DOMAIN rounds, NEW m \in Members
        PROVE  rounds[r].votes[m] = None /\ Cast(m, r)' = {}
    <3>1. rounds[r].votes = NoVotes
      BY <2>1 DEF BaseInv, PhaseInv, NoVotes
    <3>2. r \in Nat /\ s <= r
      BY <2>2 DEF BaseInv, PhaseInv, TypeInv, Maps
    <3>3. \A n \in 0..(first - 1) : Epoch(Block(n).time)' = Epoch(Block(n).time)
      BY <2>1 DEF Epoch, Block
    <3>4. \A n \in 0..(first - 1) : Epoch(Block(n).time) \in Nat
      <4>1. Height \in Nat
        BY BlockType DEF BaseInv
      <4>2. \A n \in 0..(first - 1) : n \in 0..Height
        BY <2>5, <4>1
      <4> QED BY <4>2, BlockType DEF BaseInv
    <3>5. \A n \in 0..(first - 1) : Epoch(Block(n).time)' # r + 1
      BY <2>2, <2>6, <3>2, <3>3, <3>4
    <3>6. VotingBlocks(r)' = {}
      BY <2>7, <3>5 DEF VotingBlocks
    <3>7. Cast(m, r)' = {}
      BY <3>6 DEF Cast
    <3> QED BY <3>1, <3>7 DEF NoVotes
  <2>9. \A r \in DOMAIN rounds' : \A m \in Members :
          rounds'[r].votes[m] = LastOf(Cast(m, r), m, r)'
    BY <2>1, <2>8 DEF LastOf
  <2> QED BY <2>9 DEF VotesInv
<1>8. CASE SkipStep
  <2>1. ReadsBlock
    BY <1>8 DEF SkipStep, ReadsBlock, external
  <2>2. PICK rs : rs = rounds
    OBVIOUS
  <2>3. /\ DOMAIN rounds' = DOMAIN rs
        /\ \A q \in DOMAIN rs :
             rounds'[q].votes = IF VotesFor(q) /\ rs[q].initialized
                                THEN UpdatedVotes(rs[q], Block(next), q) ELSE rs[q].votes
    BY <1>8, <2>2, ReadHandled DEF SkipStep, BaseInv, TypeInv
  <2> QED BY <2>1, <2>2, <2>3, ReadVotes
<1>9. CASE ListStep
  <2>1. /\ ReadsBlock /\ pc = "running" /\ next <= Height /\ ~TooEarly(ReadRound)
    BY <1>9 DEF ListStep, ReadsBlock, external
  <2>2. PICK r \in Nat : r = ReadRound /\ ~Obsolete(r) /\ TypeInv
    BY <2>1, ReadRoundKept DEF BaseInv
  <2>3. PICK rs : rs = WithRound(r)
    OBVIOUS
  <2>4. r \in DOMAIN rounds \/ r = Epoch(now)
    BY <2>1, <2>2, CreatesPresent
  <2>5. \A q \in DOMAIN rs :
          \/ /\ q \in DOMAIN rounds
             /\ rs[q].initialized = rounds[q].initialized
             /\ rs[q].votes = rounds[q].votes
          \/ q = r /\ r \notin DOMAIN rounds /\ rs[q].votes = NoVotes
    BY <2>2, <2>3, RoundMade
  <2>6. \A q \in DOMAIN rs :
          \/ /\ q \in DOMAIN rounds
             /\ rs[q].initialized = rounds[q].initialized
             /\ rs[q].votes = rounds[q].votes
          \/ q = Epoch(now) /\ rs[q].votes = NoVotes
    BY <2>4, <2>5
  <2>7. /\ DOMAIN rounds' = DOMAIN rs
        /\ \A q \in DOMAIN rs :
             rounds'[q].votes = IF VotesFor(q) /\ rs[q].initialized
                                THEN UpdatedVotes(rs[q], Block(next), q) ELSE rs[q].votes
    BY <1>9, <2>2, <2>3, ListEffect
  <2> QED BY <2>1, <2>6, <2>7, ReadVotes
<1>10. CASE \E w \in waiting : ContinueStep(w)
  <2>1. PICK w \in waiting : ContinueStep(w)
    BY <1>10
  <2>2. PICK r : r = w.round
    OBVIOUS
  <2>3. PICK list : list = Add(r, rounds[r].listed, w.request)
    OBVIOUS
  <2>4. /\ rounds' = [Initialized(r) EXCEPT ![r].listed = list]
        /\ UNCHANGED <<chain, pc, next>>
    BY <2>1, <2>2, <2>3 DEF ContinueStep, external
  <2>5. /\ DOMAIN rounds' = DOMAIN rounds
        /\ \A q \in DOMAIN rounds : rounds'[q].votes = rounds[q].votes
    BY <2>2, <2>3, <2>4, ContinuesEffect
  <2> QED BY <2>4, <2>5, VotesKept DEF BlocksRead, Block
<1>11. \A reason \in {"noRouter", "noNode", "noSource"} : Exit(reason) => pc' # "running"
  BY DEF Exit
<1>12. Initialize /\ HasRouter(Epoch(now)) => pc' # "running"
  BY DEF Initialize
<1> QED
  BY <1>1, <1>2, <1>3, <1>4, <1>5, <1>6, <1>7, <1>8, <1>9, <1>10, <1>11, <1>12
     DEF Steps, LeaveStep

\* When calls are prompt, every round the client follows has the last vote of each
\* member among those cast in time (onBitVoteEvent, registerBitVote).
THEOREM VotesAlwaysRegistered == Spec => []VotesRegistered
PROOF
<1>1. Init => VotesInv
  BY DEF Init, VotesInv
<1>2. BaseInv /\ SeenInv /\ VotesInv /\ [Next]_vars => VotesInv'
  BY VotesStep
<1>3. VotesInv => VotesRegistered
  BY DEF VotesInv, VotesRegistered, LastOf, Cast
<1> QED BY <1>1, <1>2, <1>3, BaseInvariant, RoundsSeen, PTL DEF Spec


-----------------------------------------------------------------------------
(* Chains of blocks.                                                         *)

\* What holds of a block when it holds of its parent holds of all blocks.
LEMMA FromParents ==
  ASSUME NEW S,
         \A b \in Blocks : (Parent[b] # Root => Parent[b] \in S) => b \in S
  PROVE  Blocks \subseteq S
PROOF
<1> SUFFICES ASSUME NEW c \in Blocks, c \notin S PROVE FALSE
  OBVIOUS
<1> DEFINE others == {b \in Blocks : b \notin S}
           numbers == {Number[b] : b \in others}
<1>1. numbers \in SUBSET Nat /\ numbers # {}
  BY HeadersAssumption
<1> HIDE DEF numbers
<1>2. PICK n \in numbers : \A k \in numbers : n <= k
  BY <1>1, Least
<1>3. PICK b \in others : n = Number[b]
  BY <1>2 DEF numbers
<1>4. Parent[b] # Root /\ Parent[b] \notin S
  BY <1>3
<1>5. Parent[b] \in Blocks /\ Number[Parent[b]] < Number[b]
  BY <1>3, <1>4, HeadersAssumption
<1>6. Number[Parent[b]] \in numbers
  BY <1>4, <1>5 DEF numbers
<1>7. Number[b] \in Nat /\ Number[Parent[b]] \in Nat
  BY <1>3, <1>5, HeadersAssumption
<1> QED BY <1>2, <1>3, <1>5, <1>6, <1>7

\* A chain takes every element of D together with what follows it.
IsChain(U, D, follows, f) ==
  f = [x \in U |-> IF x \in D THEN {x} \cup f[follows[x]] ELSE {}]

Closed(D, follows, S) ==
  \A x \in D : x \in S /\ follows[x] \in D => follows[x] \in S

Reached(D, follows, x) ==
  {y \in D : \A S \in SUBSET D : x \in S /\ Closed(D, follows, S) => y \in S}

\* The recursive functions of Before and Above exist.
LEMMA ChainExists ==
  ASSUME NEW U, NEW D \in SUBSET U, NEW follows, \A x \in D : follows[x] \in U
  PROVE  \E f : IsChain(U, D, follows, f)
PROOF
<1> DEFINE f == [x \in U |-> IF x \in D THEN Reached(D, follows, x) ELSE {}]
<1>1. ASSUME NEW x \in D PROVE f[x] = {x} \cup f[follows[x]]
  <2>1. f[x] = Reached(D, follows, x)
    OBVIOUS
  <2>2. follows[x] \in U
    OBVIOUS
  <2>3. f[follows[x]] = IF follows[x] \in D THEN Reached(D, follows, follows[x]) ELSE {}
    BY <2>2
  <2> HIDE DEF f
  <2>4. x \in f[x]
    BY <2>1 DEF Reached
  <2>5. ASSUME NEW y \in f[follows[x]] PROVE y \in f[x]
    <3>1. follows[x] \in D /\ y \in Reached(D, follows, follows[x])
      BY <2>3, <2>5
    <3>2. \A S \in SUBSET D : x \in S /\ Closed(D, follows, S) => y \in S
      BY <3>1 DEF Reached, Closed
    <3> QED BY <2>1, <3>1, <3>2 DEF Reached
  <2>6. ASSUME NEW y \in f[x], y # x PROVE y \in f[follows[x]]
    <3>1. PICK T : T = {x} \cup f[follows[x]]
      OBVIOUS
    <3>2. T \in SUBSET D
      BY <2>3, <3>1 DEF Reached
    <3>3. Closed(D, follows, T)
      <4> SUFFICES ASSUME NEW z \in D, z \in T, follows[z] \in D PROVE follows[z] \in T
        BY DEF Closed
      <4>1. CASE z = x
        <5>1. follows[x] \in Reached(D, follows, follows[x])
          BY <4>1 DEF Reached
        <5> QED BY <2>3, <3>1, <4>1, <5>1
      <4>2. CASE z \in f[follows[x]]
        <5>1. follows[x] \in D /\ z \in Reached(D, follows, follows[x])
          BY <2>3, <4>2
        <5>2. follows[z] \in Reached(D, follows, follows[x])
          BY <5>1 DEF Reached, Closed
        <5> QED BY <2>3, <3>1, <5>1, <5>2
      <4> QED BY <3>1, <4>1, <4>2
    <3>4. y \in T
      BY <2>1, <2>6, <3>1, <3>2, <3>3 DEF Reached
    <3> QED BY <2>6, <3>1, <3>4
  <2> QED BY <2>4, <2>5, <2>6
<1>2. \A x \in U : f[x] = IF x \in D THEN {x} \cup f[follows[x]] ELSE {}
  <2> SUFFICES ASSUME NEW x \in U PROVE f[x] = IF x \in D THEN {x} \cup f[follows[x]] ELSE {}
    OBVIOUS
  <2>1. CASE x \in D
    BY <1>1, <2>1
  <2>2. CASE x \notin D
    BY <2>2
  <2> QED BY <2>1, <2>2
<1>3. f = [x \in U |-> f[x]]
  OBVIOUS
<1> HIDE DEF f
<1>4. IsChain(U, D, follows, f)
  BY <1>2, <1>3 DEF IsChain
<1> QED BY <1>4

\* A block, and the blocks it is on.
LEMMA BeforeBlock ==
  /\ Before[Root] = {}
  /\ \A b \in Blocks : Before[b] = {b} \cup Before[Parent[b]]
PROOF
<1> DEFINE U == Blocks \cup {Root}
           Is(f) == f = [b \in U |-> IF b = Root THEN {} ELSE {b} \cup f[Parent[b]]]
<1>1. \A b \in U : b = Root \/ b \in Blocks
  OBVIOUS
<1>2. \A f : IsChain(U, Blocks, Parent, f) => Is(f)
  <2> SUFFICES ASSUME NEW f, IsChain(U, Blocks, Parent, f) PROVE Is(f)
    OBVIOUS
  <2>1. \A b \in U : (IF b \in Blocks THEN {b} \cup f[Parent[b]] ELSE {}) =
                     (IF b = Root THEN {} ELSE {b} \cup f[Parent[b]])
    BY HeadersAssumption
  <2> QED BY <2>1 DEF IsChain
<1>3. \E f : Is(f)
  <2>1. \A b \in Blocks : Parent[b] \in U
    BY HeadersAssumption
  <2>2. \E f : IsChain(U, Blocks, Parent, f)
    BY <2>1, ChainExists
  <2> QED BY <1>2, <2>2
<1>4. Before = CHOOSE f : Is(f)
  BY DEF Before
<1> HIDE DEF Is
<1>5. Is(Before)
  BY <1>3, <1>4
<1>6. \A b \in U : Before[b] = IF b = Root THEN {} ELSE {b} \cup Before[Parent[b]]
  BY <1>5 DEF Is
<1> QED BY <1>6, HeadersAssumption

\* The blocks that a block is on are in every set with it that has the parents.
LEMMA BeforeWithin ==
  ASSUME NEW S, \A b \in S \cap Blocks : Parent[b] \in S \cup {Root}
  PROVE  \A b \in S \cap Blocks : Before[b] \subseteq S
PROOF
<1> DEFINE T == {b \in Blocks : b \in S => Before[b] \subseteq S}
<1>1. ASSUME NEW b \in Blocks, Parent[b] # Root => Parent[b] \in T PROVE b \in T
  <2> SUFFICES ASSUME b \in S PROVE Before[b] \subseteq S
    OBVIOUS
  <2>1. Before[b] = {b} \cup Before[Parent[b]]
    BY BeforeBlock
  <2>2. CASE Parent[b] = Root
    BY <2>1, <2>2, BeforeBlock
  <2>3. CASE Parent[b] # Root
    <3>1. Parent[b] \in S /\ Parent[b] \in T
      BY <1>1, <2>3
    <3> QED BY <2>1, <3>1
  <2> QED BY <2>2, <2>3
<1> HIDE DEF T
<1>2. Blocks \subseteq T
  BY <1>1, FromParents
<1> QED BY <1>2 DEF T

\* The blocks that a block is on are itself and lower ones, and so for each of them.
LEMMA BeforeOrder ==
  ASSUME NEW b \in Blocks
  PROVE  /\ b \in Before[b] /\ Before[b] \subseteq Blocks
         /\ \A c \in Before[b] : c = b \/ Number[c] < Number[b]
         /\ \A c \in Before[b] : Before[c] \subseteq Before[b]
PROOF
<1>1. Before[b] = {b} \cup Before[Parent[b]]
  BY BeforeBlock
<1>2. Before[b] \subseteq Blocks
  BY BeforeWithin, HeadersAssumption
<1>3. \A c \in Before[Parent[b]] : Number[c] < Number[b]
  <2>1. CASE Parent[b] = Root
    BY <2>1, BeforeBlock
  <2>2. CASE Parent[b] # Root
    <3> DEFINE S == {c \in Blocks : Number[c] < Number[b]}
    <3>1. Parent[b] \in S
      BY <2>2, HeadersAssumption
    <3>2. \A c \in S \cap Blocks : Parent[c] \in S \cup {Root}
      <4> SUFFICES ASSUME NEW c \in Blocks, Number[c] < Number[b], Parent[c] # Root
                   PROVE  Parent[c] \in S
        OBVIOUS
      <4>1. Parent[c] \in Blocks /\ Number[Parent[c]] < Number[c]
        BY HeadersAssumption
      <4>2. Number[Parent[c]] \in Nat /\ Number[c] \in Nat /\ Number[b] \in Nat
        BY <4>1, HeadersAssumption
      <4> QED BY <4>1, <4>2
    <3> HIDE DEF S
    <3>3. \A c \in S \cap Blocks : Before[c] \subseteq S
      BY <3>2, BeforeWithin
    <3>4. Before[Parent[b]] \subseteq S
      BY <3>1, <3>3 DEF S
    <3> QED BY <3>4 DEF S
  <2> QED BY <2>1, <2>2
<1>4. \A c \in Before[b] : Before[c] \subseteq Before[b]
  <2> DEFINE T == {d \in Blocks : \A c \in Before[d] : Before[c] \subseteq Before[d]}
  <2>1. ASSUME NEW d \in Blocks, Parent[d] # Root => Parent[d] \in T PROVE d \in T
    <3>1. Before[d] = {d} \cup Before[Parent[d]]
      BY BeforeBlock
    <3>2. \A c \in Before[Parent[d]] : Before[c] \subseteq Before[Parent[d]]
      <4>1. CASE Parent[d] = Root
        BY <4>1, BeforeBlock
      <4>2. CASE Parent[d] # Root
        BY <2>1, <4>2
      <4> QED BY <4>1, <4>2
    <3> QED BY <3>1, <3>2
  <2> HIDE DEF T
  <2>2. Blocks \subseteq T
    BY <2>1, FromParents
  <2> QED BY <2>2 DEF T
<1> QED BY <1>1, <1>2, <1>3, <1>4
-----------------------------------------------------------------------------
(* Types.                                                                    *)

Columns == {"prev", "confs", "confirmed"}

RowType(b, row) ==
  DOMAIN row = Columns /\ row.prev \in {Parent[b], Null} /\ row.confs \in Nat \cup {Null}

EntityType(b, entity) ==
  /\ DOMAIN entity = Columns
  /\ entity.prev \in {Parent[b], Null, Undefined} /\ entity.confs \in Nat \cup {Null}

BlocksType ==
  /\ N \in Nat /\ dbN \in Nat /\ N <= dbN
  /\ mined \subseteq Blocks /\ IsFiniteSet(mined) /\ head \in mined
  /\ \A b \in mined : Parent[b] \in mined \cup {Root}

TableType ==
  /\ DOMAIN rows \subseteq mined /\ \A b \in DOMAIN rows : RowType(b, rows[b])
  /\ DOMAIN manager \subseteq mined /\ \A b \in DOMAIN manager : EntityType(b, manager[b])
  /\ changed \subseteq DOMAIN manager

ListType ==
  /\ collector \in {"idle", "loading", "walking", "saving"}
  /\ cached \subseteq mined /\ listed \subseteq mined
  /\ tips \subseteq listed /\ active \subseteq listed
  /\ collector \in {"idle", "loading"} => changed = {}
  /\ collector = "loading" => tips = listed
  /\ collector \in {"saving", "idle"} => tips = {}

HeadersTypeInv == BlocksType /\ TableType /\ ListType

\* The columns of a row after an entity has been saved.
LEMMA UpdatedRow ==
  ASSUME NEW row, NEW entity, DOMAIN row = Columns
  PROVE  /\ DOMAIN Updated(row, entity) = Columns
         /\ Updated(row, entity).prev =
              IF entity.prev = Undefined THEN row.prev ELSE entity.prev
         /\ Updated(row, entity).confs =
              IF entity.confs = Undefined THEN row.confs ELSE entity.confs
PROOF BY DEF Updated, Columns

\* A row of which the columns are saved from an entity of the same block.
LEMMA UpdatedType ==
  ASSUME NEW b \in Blocks, NEW row, NEW entity,
         RowType(b, row), DOMAIN entity = Columns,
         entity.prev \in {Parent[b], Null, Undefined}, entity.confs \in Nat \cup {Null, Undefined}
  PROVE  RowType(b, Updated(row, entity))
PROOF
<1>1. DOMAIN row = Columns /\ row.prev \in {Parent[b], Null} /\ row.confs \in Nat \cup {Null}
  BY DEF RowType
<1>2. /\ DOMAIN Updated(row, entity) = Columns
      /\ Updated(row, entity).prev =
           IF entity.prev = Undefined THEN row.prev ELSE entity.prev
      /\ Updated(row, entity).confs =
           IF entity.confs = Undefined THEN row.confs ELSE entity.confs
  BY <1>1, UpdatedRow
<1> QED BY <1>1, <1>2 DEF RowType

\* A row that is inserted.
LEMMA InsertedType == \A b \in Blocks : RowType(b, Inserted)
PROOF BY DEF RowType, Inserted, Columns

\* What one more confirmation makes of an entity.
LEMMA CountedEntity ==
  ASSUME NEW entity, DOMAIN entity = Columns, NEW n
  PROVE  /\ DOMAIN [entity EXCEPT !.confs = n] = Columns
         /\ [entity EXCEPT !.confs = n].prev = entity.prev
         /\ [entity EXCEPT !.confs = n].confs = n
PROOF BY DEF Columns

\* The rows after a set of blocks has been saved.
LEMMA SavedDomain ==
  ASSUME NEW blocks, NEW entity
  PROVE  /\ DOMAIN SavedRows(blocks, entity) = DOMAIN rows \cup blocks
         /\ \A b \in blocks \cap DOMAIN rows :
              SavedRows(blocks, entity)[b] = Updated(rows[b], entity[b])
         /\ \A b \in blocks \ DOMAIN rows :
              SavedRows(blocks, entity)[b] = Updated(Inserted, entity[b])
         /\ \A b \in DOMAIN rows \ blocks : SavedRows(blocks, entity)[b] = rows[b]
PROOF BY DEF SavedRows

\* A table of rows has the rows of blocks that are saved from entities of them.
LEMMA SavedType ==
  ASSUME HeadersTypeInv, NEW blocks \in SUBSET mined, NEW entity,
         \A b \in blocks : /\ DOMAIN entity[b] = Columns
                           /\ entity[b].prev \in {Parent[b], Null, Undefined}
                           /\ entity[b].confs \in Nat \cup {Null, Undefined}
  PROVE  /\ DOMAIN SavedRows(blocks, entity) \subseteq mined
         /\ \A b \in DOMAIN SavedRows(blocks, entity) : RowType(b, SavedRows(blocks, entity)[b])
PROOF
<1>1. /\ DOMAIN SavedRows(blocks, entity) = DOMAIN rows \cup blocks
      /\ \A b \in blocks \cap DOMAIN rows :
           SavedRows(blocks, entity)[b] = Updated(rows[b], entity[b])
      /\ \A b \in blocks \ DOMAIN rows :
           SavedRows(blocks, entity)[b] = Updated(Inserted, entity[b])
      /\ \A b \in DOMAIN rows \ blocks : SavedRows(blocks, entity)[b] = rows[b]
  BY ONLY SavedDomain
<1>2. DOMAIN rows \subseteq mined /\ mined \subseteq Blocks
  BY DEF HeadersTypeInv, TableType, BlocksType
<1>3. ASSUME NEW b \in blocks PROVE RowType(b, SavedRows(blocks, entity)[b])
  <2>1. b \in Blocks
    BY <1>2
  <2>2. CASE b \in DOMAIN rows
    <3>1. RowType(b, rows[b])
      BY <2>2 DEF HeadersTypeInv, TableType
    <3>2. RowType(b, Updated(rows[b], entity[b]))
      BY <2>1, <3>1, UpdatedType
    <3> QED BY <1>1, <2>2, <3>2
  <2>3. CASE b \notin DOMAIN rows
    <3>1. RowType(b, Updated(Inserted, entity[b]))
      BY <2>1, InsertedType, UpdatedType
    <3> QED BY <1>1, <2>3, <3>1
  <2> QED BY <2>2, <2>3
<1>4. ASSUME NEW b \in DOMAIN rows \ blocks PROVE RowType(b, SavedRows(blocks, entity)[b])
  BY <1>1 DEF HeadersTypeInv, TableType
<1> QED BY <1>1, <1>2, <1>3, <1>4
\* The blocks that a mined block is on are mined.
LEMMA MinedBefore ==
  ASSUME HeadersTypeInv, NEW b \in mined
  PROVE  Before[b] \subseteq mined
PROOF
<1>1. PICK S : S = mined
  OBVIOUS
<1>2. \A c \in S \cap Blocks : Parent[c] \in S \cup {Root}
  BY <1>1 DEF HeadersTypeInv, BlocksType
<1>3. \A c \in S \cap Blocks : Before[c] \subseteq S
  BY <1>2, BeforeWithin
<1> QED BY <1>1, <1>3 DEF HeadersTypeInv, BlocksType

\* The recursive definition of Above, written out.
LEMMA AboveIs ==
  ASSUME HeadersTypeInv
  PROVE  \A p \in Blocks \cup {Root, Null, Undefined} :
           Above[p] = IF p \notin DOMAIN manager THEN {} ELSE {p} \cup Above[manager[p].prev]
PROOF
<1> DEFINE U == Blocks \cup {Root, Null, Undefined}
           follows == [x \in DOMAIN manager |-> manager[x].prev]
           Is(f) == f = [p \in U |-> IF p \notin DOMAIN manager THEN {}
                                     ELSE {p} \cup f[manager[p].prev]]
<1>1. PICK D, under : D = DOMAIN manager /\ under = follows
  OBVIOUS
<1>2. D \in SUBSET U
  BY <1>1 DEF HeadersTypeInv, TableType, BlocksType
<1>3. \A x \in D : under[x] \in U
  BY <1>1, HeadersAssumption DEF HeadersTypeInv, TableType, BlocksType, EntityType
<1>4. \E f : IsChain(U, D, under, f)
  BY <1>2, <1>3, ChainExists
<1>5. \A f : IsChain(U, D, under, f) => Is(f)
  <2> SUFFICES ASSUME NEW f, IsChain(U, D, under, f) PROVE Is(f)
    OBVIOUS
  <2>1. \A p \in U : (IF p \in D THEN {p} \cup f[under[p]] ELSE {}) =
                     (IF p \notin DOMAIN manager THEN {} ELSE {p} \cup f[manager[p].prev])
    BY <1>1
  <2> HIDE DEF follows
  <2> QED BY <2>1 DEF IsChain
<1>6. Above = CHOOSE f : Is(f)
  BY DEF Above
<1> HIDE DEF Is
<1>7. Is(Above)
  BY <1>4, <1>5, <1>6
<1> QED BY <1>7 DEF Is

\* The known blocks below a new one are among the blocks it is on.
LEMMA AboveWithin ==
  ASSUME HeadersTypeInv, NEW b \in Blocks
  PROVE  Above[b] \subseteq Before[b] \cap DOMAIN manager
PROOF
<1>1. PICK T : T = {c \in Blocks : Above[c] \subseteq Before[c] \cap DOMAIN manager}
  OBVIOUS
<1>2. ASSUME NEW c \in Blocks, Parent[c] # Root => Parent[c] \in T PROVE c \in T
  <2>1. CASE c \notin DOMAIN manager
    BY <1>1, <2>1, AboveIs
  <2>2. CASE c \in DOMAIN manager
    <3>1. Above[c] = {c} \cup Above[manager[c].prev]
      BY <2>2, AboveIs
    <3>2. Before[c] = {c} \cup Before[Parent[c]]
      BY BeforeBlock
    <3>3. manager[c].prev \in {Parent[c], Null, Undefined}
      BY <2>2 DEF HeadersTypeInv, TableType, EntityType
    <3>4. \A p \in {Root, Null, Undefined} : Above[p] = {}
      <4>1. \A p \in {Root, Null, Undefined} : p \notin DOMAIN manager
        BY HeadersAssumption DEF HeadersTypeInv, TableType, BlocksType
      <4> QED BY <4>1, AboveIs
    <3>5. CASE manager[c].prev = Parent[c] /\ Parent[c] # Root
      <4>1. Above[Parent[c]] \subseteq Before[Parent[c]] \cap DOMAIN manager
        BY <1>1, <1>2, <3>5
      <4> QED BY <1>1, <2>2, <3>1, <3>2, <3>5, <4>1
    <3>6. CASE manager[c].prev \in {Root, Null, Undefined}
      BY <1>1, <2>2, <3>1, <3>2, <3>4, <3>6
    <3> QED BY <3>3, <3>5, <3>6
  <2> QED BY <2>1, <2>2
<1>3. Blocks \subseteq T
  BY <1>2, FromParents
<1> QED BY <1>1, <1>3

\* The blocks that addNewBlock counts once more: known ones below the new block.
LEMMA CountedBelow ==
  ASSUME HeadersTypeInv, NEW b \in Blocks, NEW prev \in {Parent[b], Undefined}
  PROVE  /\ Above[prev] \subseteq DOMAIN manager
         /\ \A c \in Above[prev] : c \in Before[b] /\ c # b
PROOF
<1>1. CASE prev \in {Root, Undefined}
  <2>1. prev \notin DOMAIN manager
    BY <1>1, HeadersAssumption DEF HeadersTypeInv, TableType, BlocksType
  <2>2. Above[prev] = {}
    BY <1>1, <2>1, AboveIs
  <2> QED BY <2>2
<1>2. CASE prev = Parent[b] /\ Parent[b] # Root
  <2>1. Parent[b] \in Blocks /\ Number[Parent[b]] < Number[b]
    BY <1>2, HeadersAssumption
  <2>2. Above[prev] \subseteq Before[prev] \cap DOMAIN manager
    BY <1>2, <2>1, AboveWithin
  <2>3. Before[b] = {b} \cup Before[Parent[b]]
    BY BeforeBlock
  <2>4. \A c \in Before[Parent[b]] : c = Parent[b] \/ Number[c] < Number[Parent[b]]
    BY <2>1, BeforeOrder
  <2>5. Before[Parent[b]] \subseteq Blocks
    BY <2>1, BeforeOrder
  <2>6. \A c \in Before[Parent[b]] : c # b
    <3>1. \A c \in Blocks : Number[c] \in Nat
      BY HeadersAssumption
    <3> QED BY <2>1, <2>4, <2>5, <3>1
  <2> QED BY <1>2, <2>2, <2>3, <2>6
<1> QED BY <1>1, <1>2
\* What addNewBlock makes of the entities.
LEMMA AddedEntities ==
  ASSUME HeadersTypeInv, NEW b \in mined, NEW prev \in {Parent[b], Undefined},
         ~HasEntity(b), AddNewBlock(b, prev)
  PROVE  /\ DOMAIN manager' = DOMAIN manager \cup {b}
         /\ changed' = changed \cup {b} \cup Above[prev]
         /\ manager'[b] = [prev |-> prev, confs |-> 1, confirmed |-> Undefined]
         /\ \A c \in Above[prev] :
              manager'[c] = [manager[c] EXCEPT !.confs = IF @ = Null THEN 1 ELSE @ + 1]
         /\ \A c \in DOMAIN manager \ Above[prev] : manager'[c] = manager[c]
PROOF
<1>1. PICK above : above = Above[prev]
  OBVIOUS
<1>2. /\ manager' = [c \in DOMAIN manager \cup {b} |->
                       IF c = b THEN [prev |-> prev, confs |-> 1, confirmed |-> Undefined]
                       ELSE IF c \in above
                       THEN [manager[c] EXCEPT !.confs = IF @ = Null THEN 1 ELSE @ + 1]
                       ELSE manager[c]]
      /\ changed' = changed \cup {b} \cup above
  BY <1>1 DEF AddNewBlock
<1>3. above \subseteq DOMAIN manager /\ b \notin above /\ b \notin DOMAIN manager
  BY <1>1, CountedBelow DEF HeadersTypeInv, BlocksType, HasEntity
<1> QED BY <1>1, <1>2, <1>3

\* The same of their types.
LEMMA AddedType ==
  ASSUME HeadersTypeInv, NEW b \in mined, NEW prev \in {Parent[b], Undefined},
         AddNewBlock(b, prev)
  PROVE  /\ DOMAIN manager' \subseteq mined
         /\ \A c \in DOMAIN manager' : EntityType(c, manager'[c])
         /\ changed' \subseteq DOMAIN manager'
PROOF
<1>1. CASE HasEntity(b)
  BY <1>1 DEF AddNewBlock, HeadersTypeInv, TableType
<1>2. CASE ~HasEntity(b)
  <2>1. /\ DOMAIN manager' = DOMAIN manager \cup {b}
        /\ changed' = changed \cup {b} \cup Above[prev]
        /\ manager'[b] = [prev |-> prev, confs |-> 1, confirmed |-> Undefined]
        /\ \A c \in Above[prev] :
             manager'[c] = [manager[c] EXCEPT !.confs = IF @ = Null THEN 1 ELSE @ + 1]
        /\ \A c \in DOMAIN manager \ Above[prev] : manager'[c] = manager[c]
    BY <1>2, AddedEntities
  <2>2. Above[prev] \subseteq DOMAIN manager
    BY CountedBelow DEF HeadersTypeInv, BlocksType
  <2>3. EntityType(b, manager'[b])
    BY <2>1 DEF EntityType, Columns
  <2>4. ASSUME NEW c \in Above[prev] PROVE EntityType(c, manager'[c])
    <3>1. /\ DOMAIN manager[c] = Columns /\ manager[c].prev \in {Parent[c], Null, Undefined}
          /\ manager[c].confs \in Nat \cup {Null}
      BY <2>2 DEF HeadersTypeInv, TableType, EntityType
    <3>2. PICK entity, n : /\ entity = manager[c]
                           /\ n = IF manager[c].confs = Null THEN 1 ELSE manager[c].confs + 1
      OBVIOUS
    <3>3. manager'[c] = [entity EXCEPT !.confs = n]
      BY <2>1, <3>2
    <3>4. n \in Nat
      BY <3>1, <3>2
    <3> QED BY <3>1, <3>2, <3>3, <3>4, CountedEntity DEF EntityType
  <2>5. ASSUME NEW c \in DOMAIN manager \ Above[prev] PROVE EntityType(c, manager'[c])
    BY <2>1 DEF HeadersTypeInv, TableType
  <2> QED BY <2>1, <2>2, <2>3, <2>4, <2>5 DEF HeadersTypeInv, TableType
<1> QED BY <1>1, <1>2

\* The types at first.
LEMMA InitType == ASSUME HeadersInit PROVE HeadersTypeInv
PROOF
<1>1. PICK b \in Blocks : Parent[b] = Root /\ head = b /\ mined = {b}
  BY DEF HeadersInit
<1>2. IsFiniteSet(mined)
  BY <1>1, FS_Singleton
<1>3. DOMAIN rows = {} /\ DOMAIN manager = {}
  BY DEF HeadersInit
<1>4. BlocksType
  BY <1>1, <1>2 DEF HeadersInit, BlocksType
<1>5. TableType
  BY <1>3 DEF HeadersInit, TableType
<1> QED BY <1>4, <1>5 DEF HeadersInit, ListType, HeadersTypeInv

\* What a mined block adds, and what leaves the blocks as they are.
LEMMA MineType == ASSUME HeadersTypeInv, NodeMines PROVE HeadersTypeInv'
PROOF
<1>1. PICK b \in Blocks \ mined :
        /\ Parent[b] \in mined
        /\ mined' = mined \cup {b}
        /\ head' = IF Number[b] > Number[head] THEN b ELSE head
        /\ UNCHANGED <<tableVars, N, collectorVars, crashes>>
  BY DEF NodeMines
<1>2. IsFiniteSet(mined')
  BY <1>1, FS_AddElement DEF HeadersTypeInv, BlocksType
<1>3. BlocksType'
  BY <1>1, <1>2 DEF HeadersTypeInv, BlocksType, tableVars
<1>4. UNCHANGED <<rows, cached, collector, listed, tips, active, manager, changed>>
  BY <1>1 DEF tableVars, collectorVars
<1>5. TableType' /\ mined \subseteq mined'
  BY <1>1, <1>4 DEF HeadersTypeInv, TableType
<1>6. ListType'
  BY <1>4, <1>5 DEF HeadersTypeInv, ListType
<1> QED BY <1>3, <1>5, <1>6 DEF HeadersTypeInv

\* A block that the main loop saves keeps the types.
LEMMA BlockSaveType == ASSUME HeadersTypeInv, BlockSave PROVE HeadersTypeInv'
PROOF
<1>1. PICK b \in Before[head] :
        /\ rows' = SavedRows({b}, [c \in {b} |-> [prev |-> Parent[b], confs |-> Undefined,
                                                  confirmed |-> TRUE]])
        /\ dbN' = dbN + 1
        /\ UNCHANGED <<nodeVars, N, collectorVars, crashes>>
  BY DEF BlockSave
<1>2. b \in mined
  BY MinedBefore DEF HeadersTypeInv, BlocksType
<1>3. PICK entity : entity = [c \in {b} |-> [prev |-> Parent[b], confs |-> Undefined,
                                             confirmed |-> TRUE]]
  OBVIOUS
<1>4. \A c \in {b} : /\ DOMAIN entity[c] = Columns
                     /\ entity[c].prev \in {Parent[c], Null, Undefined}
                     /\ entity[c].confs \in Nat \cup {Null, Undefined}
  BY <1>3 DEF Columns
<1>5. rows' = SavedRows({b}, entity)
  BY <1>1, <1>3
<1>6. DOMAIN rows' \subseteq mined /\ \A c \in DOMAIN rows' : RowType(c, rows'[c])
  <2>1. {b} \in SUBSET mined
    BY <1>2
  <2>2. PICK blocks : blocks = {b}
    OBVIOUS
  <2>3. /\ DOMAIN SavedRows(blocks, entity) \subseteq mined
        /\ \A c \in DOMAIN SavedRows(blocks, entity) : RowType(c, SavedRows(blocks, entity)[c])
    BY <1>4, <2>1, <2>2, SavedType
  <2> QED BY <1>5, <2>2, <2>3
<1>7. UNCHANGED <<mined, head, N, cached, collector, listed, tips, active, manager, changed>>
  BY <1>1 DEF nodeVars, collectorVars
<1>8. BlocksType'
  BY <1>1, <1>7 DEF HeadersTypeInv, BlocksType
<1>9. TableType'
  BY <1>6, <1>7 DEF HeadersTypeInv, TableType
<1>10. ListType'
  BY <1>7 DEF HeadersTypeInv, ListType
<1> QED BY <1>8, <1>9, <1>10 DEF HeadersTypeInv

\* A block of a list that is looked at keeps them.
LEMMA WalkType == ASSUME HeadersTypeInv, NEW b \in tips, Walk(b) PROVE HeadersTypeInv'
PROOF
<1>1. b \in mined
  BY DEF HeadersTypeInv, ListType
<1>2. /\ collector = "walking" /\ tips' = tips \ {b}
      /\ UNCHANGED <<mined, head, rows, dbN, N, collector, listed, active, crashes>>
  BY DEF Walk, nodeVars, tableVars
<1>3. TableType' /\ cached' \subseteq mined
  <2>1. CASE UNCHANGED <<cached, manager, changed>>
    BY <1>2, <2>1 DEF HeadersTypeInv, TableType, ListType
  <2>2. CASE ~(Number[b] <= N \/ IsBlockCached(b))
    <3>1. PICK prev \in {Parent[b], Undefined} : AddNewBlock(b, prev)
      BY <2>2 DEF Walk
    <3>2. cached' = cached \cup {b}
      BY <2>2 DEF Walk
    <3>3. /\ DOMAIN manager' \subseteq mined
          /\ \A c \in DOMAIN manager' : EntityType(c, manager'[c])
          /\ changed' \subseteq DOMAIN manager'
      BY <1>1, <3>1, AddedType
    <3> QED BY <1>1, <1>2, <3>2, <3>3 DEF HeadersTypeInv, TableType, ListType
  <2> QED BY <2>1, <2>2 DEF Walk
<1>4. BlocksType'
  BY <1>2 DEF HeadersTypeInv, BlocksType
<1>5. ListType'
  BY <1>2, <1>3 DEF HeadersTypeInv, ListType
<1> QED BY <1>3, <1>4, <1>5 DEF HeadersTypeInv

\* The rows that the collector saves keep them.
LEMMA SaveRowsType == ASSUME HeadersTypeInv, SaveRows PROVE HeadersTypeInv'
PROOF
<1>1. /\ collector = "saving" /\ rows' = SavedRows(changed, manager) /\ collector' = "idle"
      /\ manager' = <<>> /\ changed' = {}
      /\ UNCHANGED <<mined, head, dbN, N, cached, listed, tips, active>>
  BY DEF SaveRows, nodeVars
<1>2. changed \in SUBSET mined
  BY DEF HeadersTypeInv, TableType
<1>3. \A c \in changed : /\ DOMAIN manager[c] = Columns
                         /\ manager[c].prev \in {Parent[c], Null, Undefined}
                         /\ manager[c].confs \in Nat \cup {Null, Undefined}
  BY DEF HeadersTypeInv, TableType, EntityType
<1>4. PICK blocks, entity : blocks = changed /\ entity = manager
  OBVIOUS
<1>5. /\ DOMAIN SavedRows(blocks, entity) \subseteq mined
      /\ \A c \in DOMAIN SavedRows(blocks, entity) : RowType(c, SavedRows(blocks, entity)[c])
  BY <1>2, <1>3, <1>4, SavedType
<1>6. TableType'
  <2>1. DOMAIN manager' = {}
    BY <1>1
  <2>2. DOMAIN rows' \subseteq mined' /\ \A c \in DOMAIN rows' : RowType(c, rows'[c])
    BY <1>1, <1>4, <1>5
  <2> QED BY <1>1, <2>1, <2>2 DEF TableType
<1>7. BlocksType'
  BY <1>1 DEF HeadersTypeInv, BlocksType
<1>8. ListType'
  BY <1>1 DEF HeadersTypeInv, ListType
<1> QED BY <1>6, <1>7, <1>8 DEF HeadersTypeInv
\* What changes the collector alone keeps them.
LEMMA OtherTypes ==
  ASSUME HeadersTypeInv,
         \/ UpdateN \/ ClearOlderBlocksInCache \/ ListTips \/ LoadRows \/ StartSave \/ Crash
  PROVE  HeadersTypeInv'
PROOF
<1>1. CASE UpdateN
  BY <1>1 DEF UpdateN, HeadersTypeInv, BlocksType, TableType, ListType, nodeVars, tableVars,
     collectorVars
<1>2. CASE ClearOlderBlocksInCache
  BY <1>2 DEF ClearOlderBlocksInCache, HeadersTypeInv, BlocksType, TableType, ListType, nodeVars,
     tableVars
<1>3. CASE ListTips
  BY <1>3 DEF ListTips, HeadersTypeInv, BlocksType, TableType, ListType, nodeVars, tableVars
<1>4. CASE LoadRows
  <2>1. /\ DOMAIN manager' = {c \in DOMAIN rows : Number[c] > N}
        /\ \A c \in DOMAIN manager' : manager'[c] = rows[c]
        /\ collector = "loading" /\ changed' = {} /\ collector' = "walking"
        /\ UNCHANGED <<mined, head, rows, dbN, N, cached, listed, tips, active>>
    BY <1>4 DEF LoadRows, nodeVars, tableVars
  <2>2. \A c \in DOMAIN manager' : EntityType(c, manager'[c])
    BY <2>1 DEF HeadersTypeInv, TableType, RowType, EntityType
  <2>3. TableType'
    BY <2>1, <2>2 DEF HeadersTypeInv, TableType
  <2> QED BY <2>1, <2>3 DEF HeadersTypeInv, BlocksType, ListType
<1>5. CASE StartSave
  BY <1>5 DEF StartSave, HeadersTypeInv, BlocksType, TableType, ListType, nodeVars, tableVars
<1>6. CASE Crash
  <2>1. /\ N' = dbN /\ cached' = {} /\ collector' = "idle"
        /\ listed' = {} /\ tips' = {} /\ active' = {}
        /\ DOMAIN manager' = {} /\ changed' = {}
        /\ UNCHANGED <<mined, head, rows, dbN>>
    BY <1>6 DEF Crash, nodeVars, tableVars
  <2> QED BY <2>1 DEF HeadersTypeInv, BlocksType, TableType, ListType
<1> QED BY <1>1, <1>2, <1>3, <1>4, <1>5, <1>6

\* Every step keeps the types.
LEMMA TypeStep == ASSUME HeadersTypeInv, [HeadersNext]_headersVars PROVE HeadersTypeInv'
PROOF
<1>1. CASE NodeMines
  BY <1>1, MineType
<1>2. CASE BlockSave
  BY <1>2, BlockSaveType
<1>3. CASE \E b \in tips : Walk(b)
  BY <1>3, WalkType
<1>4. CASE SaveRows
  BY <1>4, SaveRowsType
<1>5. CASE UNCHANGED headersVars
  BY <1>5 DEF headersVars, nodeVars, tableVars, collectorVars, HeadersTypeInv, BlocksType,
              TableType, ListType
<1> QED BY <1>1, <1>2, <1>3, <1>4, <1>5, OtherTypes DEF HeadersNext

-----------------------------------------------------------------------------
(* The rows of the blocks of a list.                                         *)

\* A block of a list has its row, or the save that is under way makes it, or
\* the main loop has passed it.
Held(b) == b \in DOMAIN rows \/ Number[b] <= N \/ b \in changed

\* The cache stands for such blocks; and so for the part of a list that has been
\* walked. Of an entity that will not be saved there is the row, or the main loop
\* had passed it when saving started.
HeldInv ==
  /\ \A b \in cached : Held(b)
  /\ collector # "loading" => \A b \in listed \ tips : Held(b)
  /\ collector \in {"walking", "saving"} =>
       \A d \in DOMAIN manager :
         \/ d \in DOMAIN rows \/ d \in changed
         \/ collector = "saving" /\ \A c \in changed : Number[d] < Number[c]

\* Every step keeps the invariant of the lists.
LEMMA HeldStep == ASSUME HeadersTypeInv, HeldInv, [HeadersNext]_headersVars PROVE HeldInv'
PROOF
<1>0. \A b \in mined : Number[b] \in Nat
  BY HeadersAssumption DEF HeadersTypeInv, BlocksType
<1>1. CASE NodeMines
  BY <1>1 DEF NodeMines, HeldInv, Held, tableVars, collectorVars
<1>2. CASE BlockSave
  <2>1. DOMAIN rows \subseteq DOMAIN rows'
    BY <1>2, SavedDomain DEF BlockSave, SavedRows
  <2>2. UNCHANGED <<N, cached, collector, listed, tips, active, manager, changed>>
    BY <1>2 DEF BlockSave, collectorVars
  <2> QED BY <2>1, <2>2 DEF HeldInv, Held
<1>3. CASE UpdateN
  <2>1. UNCHANGED <<rows, cached, collector, listed, tips, active, manager, changed>> /\ N' = dbN
    BY <1>3 DEF UpdateN, tableVars, collectorVars
  <2>2. \A b \in mined : Number[b] <= N => Number[b] <= N'
    BY <1>0, <2>1 DEF HeadersTypeInv, BlocksType
  <2>3. cached \subseteq mined /\ listed \subseteq mined
    BY DEF HeadersTypeInv, ListType
  <2> QED BY <2>1, <2>2, <2>3 DEF HeldInv, Held
<1>4. CASE ClearOlderBlocksInCache
  BY <1>4 DEF ClearOlderBlocksInCache, HeldInv, Held, nodeVars, tableVars
<1>5. CASE ListTips
  BY <1>5 DEF ListTips, HeldInv, Held, tableVars
<1>6. CASE LoadRows
  <2>1. /\ DOMAIN manager' = {c \in DOMAIN rows : Number[c] > N}
        /\ changed' = {} /\ collector = "loading" /\ collector' = "walking"
        /\ UNCHANGED <<rows, N, cached, listed, tips>>
    BY <1>6 DEF LoadRows, tableVars
  <2>2. listed = tips /\ changed = {}
    BY <2>1 DEF HeadersTypeInv, ListType
  <2> QED BY <2>1, <2>2 DEF HeldInv, Held
<1>7. ASSUME NEW b \in tips, Walk(b) PROVE HeldInv'
  <2>1. /\ collector = "walking" /\ tips' = tips \ {b}
        /\ UNCHANGED <<mined, rows, N, collector, listed>>
    BY <1>7 DEF Walk, nodeVars, tableVars
  <2>2. CASE (Number[b] <= N \/ IsBlockCached(b)) /\ UNCHANGED <<cached, manager, changed>>
    BY <2>1, <2>2 DEF HeldInv, Held, IsBlockCached
  <2>3. CASE ~(Number[b] <= N \/ IsBlockCached(b))
    <3>1. PICK prev \in {Parent[b], Undefined} : AddNewBlock(b, prev)
      BY <1>7, <2>3 DEF Walk
    <3>2. cached' = cached \cup {b}
      BY <1>7, <2>3 DEF Walk
    <3>3. b \in mined
      BY DEF HeadersTypeInv, ListType
    <3>4. CASE HasEntity(b)
      <4>1. UNCHANGED <<manager, changed>>
        BY <3>1, <3>4 DEF AddNewBlock
      <4>2. b \in DOMAIN rows \/ b \in changed
        BY <2>1, <3>4 DEF HeldInv, HasEntity
      <4> QED BY <2>1, <3>2, <4>1, <4>2 DEF HeldInv, Held
    <3>5. CASE ~HasEntity(b)
      <4>1. /\ DOMAIN manager' = DOMAIN manager \cup {b}
            /\ changed' = changed \cup {b} \cup Above[prev]
        BY <3>1, <3>3, <3>5, AddedEntities
      <4> QED BY <2>1, <3>2, <4>1 DEF HeldInv, Held
    <3> QED BY <3>4, <3>5
  <2> QED BY <1>7, <2>2, <2>3 DEF Walk
<1>8. CASE StartSave
  <2>1. /\ collector = "walking" /\ tips = {} /\ changed' = {b \in changed : Number[b] > N}
        /\ collector' \in {"idle", "saving"}
        /\ UNCHANGED <<rows, N, cached, listed, tips, manager>>
    BY <1>8 DEF StartSave, tableVars
  <2>2. \A b \in changed : b \in changed' \/ Number[b] <= N
    BY <1>0, <2>1 DEF HeadersTypeInv, BlocksType, TableType
  <2>3. ASSUME NEW d \in DOMAIN manager, d \notin DOMAIN rows, d \notin changed', NEW c \in changed'
        PROVE  Number[d] < Number[c]
    <3>1. d \in changed
      BY <2>1, <2>3 DEF HeldInv
    <3>2. Number[d] <= N /\ Number[c] > N
      BY <2>1, <2>2, <2>3, <3>1
    <3> QED BY <1>0, <2>1, <2>3, <3>2 DEF HeadersTypeInv, BlocksType, TableType
  <2>4. \A b : Held(b) => b \in DOMAIN rows' \/ Number[b] <= N' \/ b \in changed'
    BY <2>1, <2>2 DEF Held
  <2>5. (collector' # "idle") => collector' = "saving"
    BY <2>1
  <2> QED BY <2>1, <2>3, <2>4, <2>5 DEF HeldInv, Held
<1>9. CASE SaveRows
  <2>1. /\ collector = "saving" /\ collector' = "idle" /\ changed' = {}
        /\ rows' = SavedRows(changed, manager)
        /\ UNCHANGED <<N, cached, listed, tips>>
    BY <1>9 DEF SaveRows
  <2>2. DOMAIN rows' = DOMAIN rows \cup changed
    BY <2>1 DEF SavedRows
  <2> QED BY <2>1, <2>2 DEF HeldInv, Held
<1>10. CASE Crash
  BY <1>10 DEF Crash, HeldInv
<1>11. CASE UNCHANGED headersVars
  BY <1>11 DEF headersVars, nodeVars, tableVars, collectorVars, HeldInv, Held
<1> QED BY <1>1, <1>2, <1>3, <1>4, <1>5, <1>6, <1>7, <1>8, <1>9, <1>10, <1>11 DEF HeadersNext
-----------------------------------------------------------------------------
(* The confirmations.                                                        *)

\* The blocks of a set above another block.
Over(S, b) == {d \in S : b \in Before[d] /\ d # b}

Bounded(entities, b) ==
  entities[b].confs # Null =>
    entities[b].confs <= 1 + Cardinality(Over(DOMAIN entities, b))

\* No row, and no entity that the manager has, has more confirmations than there
\* are blocks above it in the table, or among the entities.
CountInv ==
  /\ \A b \in DOMAIN rows : Bounded(rows, b)
  /\ \A b \in DOMAIN manager : Bounded(manager, b)

\* There are more blocks above another one in a larger set.
LEMMA OverMore ==
  ASSUME NEW T, IsFiniteSet(T), NEW S, NEW b, Over(S, b) \subseteq Over(T, b)
  PROVE  /\ IsFiniteSet(Over(T, b)) /\ IsFiniteSet(Over(S, b))
         /\ Cardinality(Over(S, b)) \in Nat /\ Cardinality(Over(T, b)) \in Nat
         /\ Cardinality(Over(S, b)) <= Cardinality(Over(T, b))
PROOF
<1>1. Over(T, b) \in SUBSET T
  BY DEF Over
<1>2. IsFiniteSet(Over(T, b))
  BY <1>1, FS_Subset
<1> QED BY <1>2, FS_Subset, FS_CardinalityType

\* A block above another one has a higher number.
LEMMA OverHigher ==
  ASSUME NEW d \in Blocks, NEW c, c \in Before[d], c # d
  PROVE  c \in Blocks /\ Number[c] \in Nat /\ Number[d] \in Nat /\ Number[c] < Number[d]
PROOF BY BeforeOrder, HeadersAssumption

\* What is bounded stays so with the same confirmations and more blocks above.
LEMMA BoundedStays ==
  ASSUME NEW f, NEW g, NEW b, IsFiniteSet(DOMAIN g), Bounded(f, b),
         f[b].confs = g[b].confs, g[b].confs = Null \/ g[b].confs \in Nat,
         Over(DOMAIN f, b) \subseteq Over(DOMAIN g, b)
  PROVE  Bounded(g, b)
PROOF
<1> SUFFICES ASSUME g[b].confs # Null
             PROVE  g[b].confs <= 1 + Cardinality(Over(DOMAIN g, b))
  BY DEF Bounded
<1>1. f[b].confs <= 1 + Cardinality(Over(DOMAIN f, b))
  BY DEF Bounded
<1>2. /\ Cardinality(Over(DOMAIN f, b)) \in Nat /\ Cardinality(Over(DOMAIN g, b)) \in Nat
      /\ Cardinality(Over(DOMAIN f, b)) <= Cardinality(Over(DOMAIN g, b))
  BY OverMore
<1> QED BY <1>1, <1>2

\* The tables are finite, and their confirmations are numbers or null.
LEMMA FiniteTables ==
  ASSUME HeadersTypeInv
  PROVE  /\ IsFiniteSet(DOMAIN rows) /\ IsFiniteSet(DOMAIN manager)
         /\ \A b \in DOMAIN rows : rows[b].confs \in Nat \cup {Null}
         /\ \A b \in DOMAIN manager : manager[b].confs \in Nat \cup {Null}
PROOF BY FS_Subset DEF HeadersTypeInv, BlocksType, TableType, RowType, EntityType

\* A block that the main loop saves keeps its confirmations, or has none.
LEMMA BlockSaveCount ==
  ASSUME HeadersTypeInv, HeadersTypeInv', CountInv, BlockSave
  PROVE  CountInv'
PROOF
<1>1. PICK b, entity :
        /\ entity = [c \in {b} |-> [prev |-> Parent[b], confs |-> Undefined, confirmed |-> TRUE]]
        /\ rows' = SavedRows({b}, entity) /\ UNCHANGED manager
  BY DEF BlockSave, collectorVars
<1>2. PICK blocks : blocks = {b}
  OBVIOUS
<1>3. /\ DOMAIN rows' = DOMAIN rows \cup blocks
      /\ \A c \in blocks \cap DOMAIN rows : rows'[c] = Updated(rows[c], entity[c])
      /\ \A c \in blocks \ DOMAIN rows : rows'[c] = Updated(Inserted, entity[c])
      /\ \A c \in DOMAIN rows \ blocks : rows'[c] = rows[c]
  <2>1. rows' = SavedRows(blocks, entity)
    BY <1>1, <1>2
  <2>2. /\ DOMAIN SavedRows(blocks, entity) = DOMAIN rows \cup blocks
        /\ \A c \in blocks \cap DOMAIN rows :
             SavedRows(blocks, entity)[c] = Updated(rows[c], entity[c])
        /\ \A c \in blocks \ DOMAIN rows :
             SavedRows(blocks, entity)[c] = Updated(Inserted, entity[c])
        /\ \A c \in DOMAIN rows \ blocks : SavedRows(blocks, entity)[c] = rows[c]
    BY ONLY SavedDomain
  <2> QED BY <2>1, <2>2
<1>4. entity[b].confs = Undefined
  BY <1>1
<1>5. \A c \in DOMAIN rows : DOMAIN rows[c] = Columns
  BY DEF HeadersTypeInv, TableType, RowType
<1>6. ASSUME NEW c \in DOMAIN rows PROVE Bounded(rows', c)
  <2>1. rows'[c].confs = rows[c].confs
    <3>1. CASE c = b
      <4>1. rows'[c] = Updated(rows[c], entity[c])
        BY <1>2, <1>3, <3>1
      <4> QED BY <1>4, <1>5, <3>1, <4>1, UpdatedRow
    <3>2. CASE c # b
      BY <1>2, <1>3, <3>2
    <3> QED BY <3>1, <3>2
  <2>2. PICK f, g : f = rows /\ g = rows'
    OBVIOUS
  <2>3. Over(DOMAIN f, c) \subseteq Over(DOMAIN g, c)
    BY <1>3, <2>2 DEF Over
  <2>4. IsFiniteSet(DOMAIN g)
    BY <2>2, FiniteTables, FS_Subset DEF HeadersTypeInv, BlocksType, TableType
  <2>5. Bounded(f, c) /\ f[c].confs = g[c].confs /\ (g[c].confs = Null \/ g[c].confs \in Nat)
    BY <2>1, <2>2, FiniteTables DEF CountInv
  <2>6. Bounded(g, c)
    BY <2>3, <2>4, <2>5, BoundedStays
  <2> QED BY <2>2, <2>6
<1>7. ASSUME NEW c \in DOMAIN rows' \ DOMAIN rows PROVE Bounded(rows', c)
  <2>1. c = b /\ rows'[c] = Updated(Inserted, entity[c])
    BY <1>2, <1>3
  <2>2. DOMAIN Inserted = Columns /\ Inserted.confs = Null
    BY DEF Inserted, Columns
  <2>3. rows'[c].confs = Null
    BY <1>4, <2>1, <2>2, UpdatedRow
  <2> QED BY <2>3 DEF Bounded
<1> QED BY <1>1, <1>6, <1>7 DEF CountInv
\* Of the rows that are loaded, all above one of them are loaded too.
LEMMA LoadRowsCount ==
  ASSUME HeadersTypeInv, HeadersTypeInv', CountInv, LoadRows
  PROVE  CountInv'
PROOF
<1>1. /\ UNCHANGED rows
      /\ DOMAIN manager' = {c \in DOMAIN rows : Number[c] > N}
      /\ \A c \in DOMAIN manager' : manager'[c] = rows[c]
  BY DEF LoadRows, tableVars
<1>2. \A c \in DOMAIN rows : Bounded(rows, c)
  BY DEF CountInv
<1>3. ASSUME NEW c \in DOMAIN manager' PROVE Bounded(manager', c)
  <2>1. PICK f, g : f = rows /\ g = manager'
    OBVIOUS
  <2>2. Over(DOMAIN f, c) \subseteq Over(DOMAIN g, c)
    <3> SUFFICES ASSUME NEW d \in DOMAIN rows, c \in Before[d], c # d PROVE d \in DOMAIN manager'
      BY <2>1 DEF Over
    <3>1. d \in Blocks /\ Number[c] > N
      BY <1>1 DEF HeadersTypeInv, BlocksType, TableType
    <3>2. Number[c] \in Nat /\ Number[d] \in Nat /\ Number[c] < Number[d]
      BY <3>1, OverHigher
    <3> QED BY <1>1, <3>1, <3>2 DEF HeadersTypeInv, BlocksType
  <2>3. IsFiniteSet(DOMAIN g)
    BY <1>1, <2>1, FiniteTables, FS_Subset
  <2>4. Bounded(f, c) /\ f[c].confs = g[c].confs /\ (g[c].confs = Null \/ g[c].confs \in Nat)
    BY <1>1, <1>2, <2>1, FiniteTables
  <2>5. Bounded(g, c)
    BY <2>2, <2>3, <2>4, BoundedStays
  <2> QED BY <2>1, <2>5
<1> QED BY <1>1, <1>2, <1>3 DEF CountInv

\* The entities after a block has been added: it is one more above each block that
\* gets one more confirmation.
LEMMA AddedCount ==
  ASSUME HeadersTypeInv, HeadersTypeInv', CountInv,
         NEW b \in mined, NEW prev \in {Parent[b], Undefined},
         AddNewBlock(b, prev), UNCHANGED rows
  PROVE  CountInv'
PROOF
<1>1. CASE HasEntity(b)
  BY <1>1 DEF AddNewBlock, CountInv, Bounded
<1>2. CASE ~HasEntity(b)
  <2>1. /\ DOMAIN manager' = DOMAIN manager \cup {b}
        /\ manager'[b] = [prev |-> prev, confs |-> 1, confirmed |-> Undefined]
        /\ \A c \in Above[prev] :
             manager'[c] = [manager[c] EXCEPT !.confs = IF @ = Null THEN 1 ELSE @ + 1]
        /\ \A c \in DOMAIN manager \ Above[prev] : manager'[c] = manager[c]
    BY <1>2, AddedEntities
  <2>2. PICK f, g : f = manager /\ g = manager'
    OBVIOUS
  <2>3. IsFiniteSet(DOMAIN f) /\ IsFiniteSet(DOMAIN g) /\ b \notin DOMAIN f
    BY <1>2, <2>1, <2>2, FiniteTables, FS_AddElement DEF HasEntity
  <2>4. \A c \in DOMAIN f : Bounded(f, c) /\ (f[c].confs = Null \/ f[c].confs \in Nat)
    BY <2>2, FiniteTables DEF CountInv
  <2>5. Bounded(g, b)
    <3>1. g[b].confs = 1
      BY <2>1, <2>2
    <3>2. Cardinality(Over(DOMAIN g, b)) \in Nat
      BY <2>3, OverMore
    <3> QED BY <3>1, <3>2 DEF Bounded
  <2>6. ASSUME NEW c \in Above[prev] PROVE Bounded(g, c)
    <3>1. c \in DOMAIN f /\ c \in Before[b] /\ c # b
      BY <2>2, CountedBelow DEF HeadersTypeInv, BlocksType
    <3>2. PICK before, after : /\ before = Cardinality(Over(DOMAIN f, c))
                               /\ after = Cardinality(Over(DOMAIN g, c))
      OBVIOUS
    <3>3. before \in Nat /\ after = before + 1
      <4>1. Over(DOMAIN g, c) = Over(DOMAIN f, c) \cup {b} /\ b \notin Over(DOMAIN f, c)
        BY <2>1, <2>2, <2>3, <3>1 DEF Over
      <4>2. IsFiniteSet(Over(DOMAIN f, c)) /\ Cardinality(Over(DOMAIN f, c)) \in Nat
        BY <2>3, OverMore
      <4>3. Cardinality(Over(DOMAIN f, c) \cup {b}) = Cardinality(Over(DOMAIN f, c)) + 1
        BY <4>1, <4>2, FS_AddElement
      <4> QED BY <3>2, <4>1, <4>2, <4>3
    <3>4. g[c].confs = IF f[c].confs = Null THEN 1 ELSE f[c].confs + 1
      <4>1. DOMAIN f[c] = Columns
        BY <2>2, <3>1 DEF HeadersTypeInv, TableType, EntityType
      <4>2. PICK entity, n : /\ entity = f[c]
                             /\ n = IF f[c].confs = Null THEN 1 ELSE f[c].confs + 1
        OBVIOUS
      <4>3. g[c] = [entity EXCEPT !.confs = n]
        BY <2>1, <2>2, <4>2
      <4> QED BY <4>1, <4>2, <4>3, CountedEntity
    <3>5. f[c].confs # Null => f[c].confs \in Nat /\ f[c].confs <= 1 + before
      BY <2>4, <3>1, <3>2 DEF Bounded
    <3>6. g[c].confs <= 1 + after
      BY <3>3, <3>4, <3>5
    <3> QED BY <3>2, <3>6 DEF Bounded
  <2>7. ASSUME NEW c \in DOMAIN f \ Above[prev] PROVE Bounded(g, c)
    <3>1. g[c] = f[c]
      BY <2>1, <2>2, <2>7
    <3>2. Over(DOMAIN f, c) \subseteq Over(DOMAIN g, c)
      BY <2>1, <2>2 DEF Over
    <3> QED BY <2>3, <2>4, <3>1, <3>2, BoundedStays
  <2>8. \A c \in DOMAIN g : Bounded(g, c)
    BY <2>1, <2>2, <2>5, <2>6, <2>7
  <2> QED BY <2>2, <2>8 DEF CountInv
<1> QED BY <1>1, <1>2

\* The blocks above an entity that is saved have rows then.
LEMMA SaveRowsCount ==
  ASSUME HeadersTypeInv, HeadersTypeInv', HeldInv, CountInv, SaveRows
  PROVE  CountInv'
PROOF
<1>1. PICK blocks, entity : blocks = changed /\ entity = manager
  OBVIOUS
<1>2. /\ DOMAIN rows' = DOMAIN rows \cup blocks
      /\ \A c \in blocks \cap DOMAIN rows : rows'[c] = Updated(rows[c], entity[c])
      /\ \A c \in blocks \ DOMAIN rows : rows'[c] = Updated(Inserted, entity[c])
      /\ \A c \in DOMAIN rows \ blocks : rows'[c] = rows[c]
  <2>1. rows' = SavedRows(blocks, entity)
    BY <1>1 DEF SaveRows
  <2>2. /\ DOMAIN SavedRows(blocks, entity) = DOMAIN rows \cup blocks
        /\ \A c \in blocks \cap DOMAIN rows :
             SavedRows(blocks, entity)[c] = Updated(rows[c], entity[c])
        /\ \A c \in blocks \ DOMAIN rows :
             SavedRows(blocks, entity)[c] = Updated(Inserted, entity[c])
        /\ \A c \in DOMAIN rows \ blocks : SavedRows(blocks, entity)[c] = rows[c]
    BY ONLY SavedDomain
  <2> QED BY <2>1, <2>2
<1>3. PICK f, g : f = rows /\ g = rows'
  OBVIOUS
<1>4. IsFiniteSet(DOMAIN g)
  BY <1>3, FS_Subset DEF HeadersTypeInv, BlocksType, TableType
<1>5. \A c \in DOMAIN g : g[c].confs = Null \/ g[c].confs \in Nat
  BY <1>3 DEF HeadersTypeInv, TableType, RowType
<1>6. ASSUME NEW c \in DOMAIN f \ blocks PROVE Bounded(g, c)
  <2>1. Bounded(f, c) /\ g[c] = f[c]
    BY <1>2, <1>3, <1>6 DEF CountInv
  <2>2. Over(DOMAIN f, c) \subseteq Over(DOMAIN g, c)
    BY <1>2, <1>3 DEF Over
  <2>3. g[c].confs = Null \/ g[c].confs \in Nat
    BY <1>2, <1>3, <1>5
  <2> QED BY <1>4, <2>1, <2>2, <2>3, BoundedStays
<1>7. ASSUME NEW c \in blocks PROVE Bounded(g, c)
  <2>1. c \in DOMAIN manager /\ c \in Blocks
    BY <1>1 DEF HeadersTypeInv, TableType, BlocksType
  <2>2. entity[c].confs \in Nat \cup {Null} /\ entity[c].confs # Undefined
    BY <1>1, <2>1, HeadersAssumption DEF HeadersTypeInv, TableType, EntityType
  <2>3. g[c].confs = entity[c].confs
    <3>1. DOMAIN Inserted = Columns
      BY DEF Inserted, Columns
    <3>2. c \in DOMAIN rows => DOMAIN rows[c] = Columns
      BY DEF HeadersTypeInv, TableType, RowType
    <3>3. CASE c \in DOMAIN rows
      <4>1. g[c] = Updated(rows[c], entity[c])
        BY <1>2, <1>3, <3>3
      <4> QED BY <2>2, <3>2, <3>3, <4>1, UpdatedRow
    <3>4. CASE c \notin DOMAIN rows
      <4>1. g[c] = Updated(Inserted, entity[c])
        BY <1>2, <1>3, <3>4
      <4> QED BY <2>2, <3>1, <4>1, UpdatedRow
    <3> QED BY <3>3, <3>4
  <2>4. Bounded(entity, c)
    BY <1>1, <2>1 DEF CountInv
  <2>5. Over(DOMAIN entity, c) \subseteq Over(DOMAIN g, c)
    <3> SUFFICES ASSUME NEW d \in DOMAIN manager, c \in Before[d], c # d PROVE d \in DOMAIN rows'
      BY <1>1, <1>3 DEF Over
    <3>1. d \in Blocks
      BY DEF HeadersTypeInv, BlocksType, TableType
    <3>2. Number[c] \in Nat /\ Number[d] \in Nat /\ Number[c] < Number[d]
      BY <3>1, OverHigher
    <3>3. ~(Number[d] < Number[c])
      BY <3>2
    <3>4. d \in DOMAIN rows \/ d \in changed
      BY <1>1, <3>3 DEF HeldInv, SaveRows
    <3> QED BY <1>1, <1>2, <3>4
  <2>6. g[c].confs = Null \/ g[c].confs \in Nat
    BY <2>2, <2>3
  <2> QED BY <1>4, <2>3, <2>4, <2>5, <2>6, BoundedStays
<1>8. \A c \in DOMAIN rows' : Bounded(rows', c)
  BY <1>2, <1>3, <1>6, <1>7
<1>9. DOMAIN manager' = {}
  BY DEF SaveRows
<1> QED BY <1>8, <1>9 DEF CountInv

\* Every step keeps the bound on confirmations.
LEMMA CountStep ==
  ASSUME HeadersTypeInv, HeadersTypeInv', HeldInv, CountInv, [HeadersNext]_headersVars
  PROVE  CountInv'
PROOF
<1>1. CASE BlockSave
  BY <1>1, BlockSaveCount
<1>2. CASE LoadRows
  BY <1>2, LoadRowsCount
<1>3. ASSUME NEW b \in tips, Walk(b) PROVE CountInv'
  <2>1. b \in mined /\ UNCHANGED rows
    BY <1>3 DEF Walk, tableVars, HeadersTypeInv, ListType
  <2>2. CASE UNCHANGED manager
    BY <2>1, <2>2 DEF CountInv
  <2>3. CASE \E prev \in {Parent[b], Undefined} : AddNewBlock(b, prev)
    BY <2>1, <2>3, AddedCount
  <2> QED BY <1>3, <2>2, <2>3 DEF Walk
<1>4. CASE SaveRows
  BY <1>4, SaveRowsCount
<1>5. CASE Crash
  <2>1. DOMAIN manager' = {} /\ UNCHANGED rows
    BY <1>5 DEF Crash, tableVars
  <2> QED BY <2>1 DEF CountInv
<1>6. CASE \/ NodeMines \/ UpdateN \/ ClearOlderBlocksInCache \/ ListTips \/ StartSave
           \/ UNCHANGED headersVars
  <2>1. UNCHANGED <<rows, manager>>
    BY <1>6 DEF NodeMines, UpdateN, ClearOlderBlocksInCache, ListTips, StartSave, headersVars,
       nodeVars, tableVars, collectorVars
  <2> QED BY <2>1 DEF CountInv
<1> QED BY <1>1, <1>2, <1>3, <1>4, <1>5, <1>6 DEF HeadersNext

-----------------------------------------------------------------------------
(* The theorems.                                                             *)

\* In every tree of blocks the rows, the entities and the lists are of blocks that
\* the node has, with values the columns can have.
THEOREM HeadersTypeCorrect == HeadersSpec => []HeadersTypeInv
PROOF
<1>1. HeadersInit => HeadersTypeInv
  BY InitType
<1>2. HeadersTypeInv /\ [HeadersNext]_headersVars => HeadersTypeInv'
  BY TypeStep
<1> QED BY <1>1, <1>2, PTL DEF HeadersSpec

\* However the main loop goes on, forks grow and the process starts again, every
\* block of a list has its row when the list has been gone through, or N has passed
\* it (saveHeadersOnNewTips, isBlockCached, UnconfirmedBlockManager.addNewBlock).
THEOREM ListsHaveTheirRows == HeadersSpec => []ListedHaveRows
PROOF
<1>1. HeadersInit => HeldInv
  BY DEF HeadersInit, HeldInv
<1>2. HeadersTypeInv /\ HeldInv /\ [HeadersNext]_headersVars => HeldInv'
  BY HeldStep
<1>3. HeadersTypeInv /\ HeldInv => ListedHaveRows
  BY DEF HeadersTypeInv, ListType, HeldInv, Held, ListedHaveRows
<1> QED BY <1>1, <1>2, <1>3, HeadersTypeCorrect, PTL DEF HeadersSpec

\* However lists overlap, and whatever is in the table when they are gone through,
\* no row gets more confirmations than the node has blocks above its block
\* (UnconfirmedBlockManager.addNewBlock and initialize, saveHeadersOnNewTips).
THEOREM ConfirmationsAreBounded == HeadersSpec => []ConfirmationsBounded
PROOF
<1>1. HeadersInit => HeldInv /\ CountInv
  BY DEF HeadersInit, HeldInv, CountInv
<1>2. HeadersTypeInv /\ HeldInv /\ [HeadersNext]_headersVars => HeldInv'
  BY HeldStep
<1>3. HeadersTypeInv /\ HeadersTypeInv' /\ HeldInv /\ CountInv /\ [HeadersNext]_headersVars
        => CountInv'
  BY CountStep
<1>4. HeadersTypeInv /\ CountInv => ConfirmationsBounded
  <2> SUFFICES ASSUME HeadersTypeInv, CountInv, NEW b \in DOMAIN rows, rows[b].confs # Null
               PROVE  rows[b].confs <= 1 + Cardinality(Descendants(b))
    BY DEF ConfirmationsBounded
  <2>1. Descendants(b) = Over(mined, b)
    BY DEF Descendants, Over
  <2>2. Over(DOMAIN rows, b) \subseteq Over(mined, b)
    BY DEF Over, HeadersTypeInv, TableType
  <2>3. PICK S, T : S = DOMAIN rows /\ T = mined
    OBVIOUS
  <2>4. /\ Cardinality(Over(S, b)) \in Nat /\ Cardinality(Over(T, b)) \in Nat
        /\ Cardinality(Over(S, b)) <= Cardinality(Over(T, b))
    BY <2>2, <2>3, OverMore DEF HeadersTypeInv, BlocksType
  <2>5. rows[b].confs \in Nat /\ rows[b].confs <= 1 + Cardinality(Over(S, b))
    BY <2>3, FiniteTables DEF CountInv, Bounded
  <2> QED BY <2>1, <2>3, <2>4, <2>5
<1> QED BY <1>1, <1>2, <1>3, <1>4, HeadersTypeCorrect, PTL DEF HeadersSpec

-----------------------------------------------------------------------------
(* The Merkle tree.                                                          *)

\* A set with 0, and with n + 1 when it has n, has every natural number.
LEMMA AllNumbers ==
  ASSUME NEW S, 0 \in S, \A n \in Nat : n \in S => n + 1 \in S
  PROVE  \A n \in Nat : n \in S
PROOF
<1> DEFINE missing == {n \in Nat : n \notin S}
<1> SUFFICES ASSUME missing # {} PROVE FALSE
  OBVIOUS
<1>1. PICK n \in missing : \A m \in missing : n <= m
  <2>1. missing \in SUBSET Nat
    OBVIOUS
  <2> QED BY <2>1, Least
<1>2. n # 0 /\ n \in Nat
  OBVIOUS
<1>3. n - 1 \in Nat /\ n - 1 \notin missing
  BY <1>1, <1>2
<1>4. (n - 1) + 1 \in S
  BY <1>3
<1>5. (n - 1) + 1 = n
  BY <1>2
<1> QED BY <1>4, <1>5

\* How many of the hashes are before one.
PlacedBefore(hashes, h) == Cardinality({g \in hashes : Place(g) < Place(h)})

\* The hashes in their order.
InPlace(hashes) ==
  [i \in 1..Cardinality(hashes) |-> CHOOSE h \in hashes : PlacedBefore(hashes, h) = i - 1]

\* The leaves depend on the set of the values alone.
LEMMA LeavesOf ==
  ASSUME NEW values
  PROVE  Leaves(values) = InPlace(Range(values))
PROOF BY DEF Leaves, InPlace, PlacedBefore

\* Different hashes have different places.
LEMMA PlaceIs ==
  /\ IsFiniteSet(Range(Hashes))
  /\ \A h \in Range(Hashes) : Place(h) \in Nat
  /\ \A g, h \in Range(Hashes) : Place(g) = Place(h) => g = h
PROOF
<1>1. /\ Hashes \in Seq(Range(Hashes)) /\ Len(Hashes) \in Nat
      /\ DOMAIN Hashes = 1..Len(Hashes)
  BY ProofServerAssumption
<1>2. \A h \in Range(Hashes) : Place(h) \in DOMAIN Hashes /\ Hashes[Place(h)] = h
  BY DEF Range, Place
<1>3. IsFiniteSet(1..Len(Hashes))
  BY <1>1, FS_Interval
<1>4. IsFiniteSet(Range(Hashes))
  <2>1. Range(Hashes) = {Hashes[i] : i \in 1..Len(Hashes)}
    BY <1>1 DEF Range
  <2>2. Hashes \in Surjection(1..Len(Hashes), Range(Hashes))
    BY <1>1, <2>1 DEF Surjection
  <2> QED BY <1>3, <2>2, FS_Surjection
<1> QED BY <1>1, <1>2, <1>4

\* The more hashes are before one, the later is its place.
LEMMA PlacedBeforeIs ==
  ASSUME NEW hashes \in SUBSET Range(Hashes)
  PROVE  /\ IsFiniteSet(hashes) /\ Cardinality(hashes) \in Nat
         /\ \A h \in hashes : PlacedBefore(hashes, h) \in 0..(Cardinality(hashes) - 1)
         /\ \A g, h \in hashes :
              Place(g) < Place(h) => PlacedBefore(hashes, g) < PlacedBefore(hashes, h)
PROOF
<1> DEFINE B(h) == {g \in hashes : Place(g) < Place(h)}
<1>1. IsFiniteSet(hashes) /\ Cardinality(hashes) \in Nat
  BY PlaceIs, FS_Subset, FS_CardinalityType
<1>2. \A h \in hashes : Place(h) \in Nat
  BY PlaceIs
<1>3. ASSUME NEW h \in hashes
      PROVE  /\ IsFiniteSet(B(h)) /\ Cardinality(B(h)) \in Nat
             /\ Cardinality(B(h)) < Cardinality(hashes)
  <2>1. B(h) \subseteq hashes /\ h \notin B(h)
    BY <1>2
  <2> HIDE DEF B
  <2>2. /\ IsFiniteSet(B(h)) /\ Cardinality(B(h)) <= Cardinality(hashes)
        /\ Cardinality(hashes) = Cardinality(B(h)) => hashes = B(h)
    BY <1>1, <2>1, FS_Subset
  <2>3. Cardinality(B(h)) \in Nat
    BY <2>2, FS_CardinalityType
  <2> QED BY <1>1, <2>1, <2>2, <2>3
<1>4. ASSUME NEW g \in hashes, NEW h \in hashes, Place(g) < Place(h)
      PROVE  Cardinality(B(g)) < Cardinality(B(h))
  <2>1. B(g) \subseteq B(h)
    BY <1>2, <1>4
  <2>2. g \in B(h) /\ g \notin B(g)
    BY <1>2, <1>4
  <2> HIDE DEF B
  <2>3. /\ Cardinality(B(g)) <= Cardinality(B(h))
        /\ Cardinality(B(h)) = Cardinality(B(g)) => B(h) = B(g)
    BY <1>3, <2>1, FS_Subset
  <2>4. Cardinality(B(g)) \in Nat /\ Cardinality(B(h)) \in Nat
    BY <1>3
  <2> QED BY <2>2, <2>3, <2>4
<1>5. \A h : PlacedBefore(hashes, h) = Cardinality(B(h))
  BY DEF PlacedBefore
<1> HIDE DEF B
<1> QED BY <1>1, <1>3, <1>4, <1>5

\* The leaves are all the hashes, each in its place.
LEMMA InPlaceIs ==
  ASSUME NEW hashes \in SUBSET Range(Hashes)
  PROVE  /\ InPlace(hashes) \in Seq(hashes) /\ Len(InPlace(hashes)) = Cardinality(hashes)
         /\ \A h \in hashes : \E i \in 1..Len(InPlace(hashes)) : InPlace(hashes)[i] = h
PROOF
<1> DEFINE n == Cardinality(hashes)
           f == [h \in hashes |-> PlacedBefore(hashes, h)]
           s == InPlace(hashes)
<1>1. /\ IsFiniteSet(hashes) /\ n \in Nat
      /\ \A h \in hashes : PlacedBefore(hashes, h) \in 0..(n - 1)
      /\ \A g, h \in hashes :
           Place(g) < Place(h) => PlacedBefore(hashes, g) < PlacedBefore(hashes, h)
  BY PlacedBeforeIs
<1>2. \A g, h \in hashes : PlacedBefore(hashes, g) = PlacedBefore(hashes, h) => g = h
  <2> SUFFICES ASSUME NEW g \in hashes, NEW h \in hashes, g # h,
                      PlacedBefore(hashes, g) = PlacedBefore(hashes, h)
               PROVE  FALSE
    OBVIOUS
  <2>1. Place(g) < Place(h) \/ Place(h) < Place(g)
    <3>1. Place(g) \in Nat /\ Place(h) \in Nat /\ Place(g) # Place(h)
      BY PlaceIs
    <3> QED BY <3>1
  <2>2. \/ PlacedBefore(hashes, g) < PlacedBefore(hashes, h)
        \/ PlacedBefore(hashes, h) < PlacedBefore(hashes, g)
    BY <1>1, <2>1
  <2>3. PlacedBefore(hashes, g) \in Int /\ PlacedBefore(hashes, h) \in Int
    BY <1>1
  <2> QED BY <2>2, <2>3
<1>3. \A k \in 0..(n - 1) : \E h \in hashes : PlacedBefore(hashes, h) = k
  <2>1. f \in Injection(hashes, 0..(n - 1))
    BY <1>1, <1>2 DEF Injection, IsInjective
  <2>2. IsFiniteSet(0..(n - 1)) /\ Cardinality(0..(n - 1)) = n
    <3>1. 0 \in Int /\ n - 1 \in Int
      BY <1>1
    <3>2. /\ IsFiniteSet(0..(n - 1))
          /\ Cardinality(0..(n - 1)) = IF 0 > n - 1 THEN 0 ELSE (n - 1) - 0 + 1
      BY <3>1, FS_Interval
    <3> HIDE DEF n
    <3> QED BY <1>1, <3>2
  <2> HIDE DEF f
  <2>3. f \in Surjection(hashes, 0..(n - 1))
    BY <1>1, <2>1, <2>2, FS_Injection
  <2>4. \A k \in 0..(n - 1) : \E h \in hashes : f[h] = k
    BY <2>3 DEF Surjection
  <2> QED BY <2>4 DEF f
<1>4. \A i \in 1..n : s[i] \in hashes /\ PlacedBefore(hashes, s[i]) = i - 1
  <2> SUFFICES ASSUME NEW i \in 1..n PROVE s[i] \in hashes /\ PlacedBefore(hashes, s[i]) = i - 1
    OBVIOUS
  <2>1. i - 1 \in 0..(n - 1)
    BY <1>1
  <2>2. s[i] = CHOOSE h \in hashes : PlacedBefore(hashes, h) = i - 1
    BY DEF InPlace
  <2> QED BY <1>3, <2>1, <2>2
<1>5. s = [i \in 1..n |-> s[i]]
  BY DEF InPlace
<1> HIDE DEF s, n
<1>6. s \in Seq(hashes) /\ Len(s) = n
  BY <1>1, <1>4, <1>5
<1>7. ASSUME NEW h \in hashes PROVE \E i \in 1..n : s[i] = h
  <2>1. PlacedBefore(hashes, h) + 1 \in 1..n
    BY <1>1
  <2>2. PlacedBefore(hashes, s[PlacedBefore(hashes, h) + 1]) = PlacedBefore(hashes, h)
    BY <1>1, <1>4, <2>1
  <2>3. s[PlacedBefore(hashes, h) + 1] = h
    BY <1>2, <1>4, <2>1, <2>2
  <2> QED BY <2>1, <2>3
<1> QED BY <1>6, <1>7 DEF s, n

\* One turn of verifyWithMerkleProof.
ClimbStep(leaf, proof, climbed, k) ==
  IF k = 0 THEN leaf ELSE sortedHashPair(proof[k], climbed[k - 1])

IsClimb(leaf, proof, n, climbed) ==
  climbed = [k \in 0..n |-> ClimbStep(leaf, proof, climbed, k)]

\* The hashes on the way that a proof shows from a leaf to a root.
LeadsTo(leaf, proof, hash) ==
  \E climbed : IsClimb(leaf, proof, Len(proof), climbed) /\ climbed[Len(proof)] = hash

\* There is one climb at most.
LEMMA OneClimb ==
  ASSUME NEW leaf, NEW proof, NEW n \in Nat, NEW f, NEW g,
         IsClimb(leaf, proof, n, f), IsClimb(leaf, proof, n, g)
  PROVE  f[n] = g[n]
PROOF
<1> DEFINE S == {k \in Nat : k <= n => f[k] = g[k]}
<1>1. \A k \in 0..n : /\ f[k] = ClimbStep(leaf, proof, f, k)
                      /\ g[k] = ClimbStep(leaf, proof, g, k)
  BY DEF IsClimb
<1>2. 0 \in S
  BY <1>1 DEF ClimbStep
<1>3. ASSUME NEW k \in Nat, k \in S PROVE k + 1 \in S
  <2> SUFFICES ASSUME k + 1 <= n PROVE f[k + 1] = g[k + 1]
    OBVIOUS
  <2>1. k + 1 \in 0..n /\ k + 1 # 0 /\ (k + 1) - 1 = k /\ f[k] = g[k]
    BY <1>3
  <2>2. /\ f[k + 1] = sortedHashPair(proof[k + 1], f[k])
        /\ g[k + 1] = sortedHashPair(proof[k + 1], g[k])
    BY <1>1, <2>1 DEF ClimbStep
  <2> QED BY <2>1, <2>2
<1> HIDE DEF S
<1>4. n \in S
  BY <1>2, <1>3, AllNumbers
<1> QED BY <1>4 DEF S

\* A proof that leads to a root is verified.
LEMMA Verified ==
  ASSUME NEW leaf, NEW proof, NEW hash, Len(proof) \in Nat, LeadsTo(leaf, proof, hash)
  PROVE  verifyWithMerkleProof(leaf, proof, hash)
PROOF
<1> DEFINE n == Len(proof)
           climbed == CHOOSE f : f = [k \in 0..n |-> IF k = 0 THEN leaf
                                                     ELSE sortedHashPair(proof[k], f[k - 1])]
<1>1. PICK f : IsClimb(leaf, proof, n, f) /\ f[n] = hash
  BY DEF LeadsTo
<1>2. IsClimb(leaf, proof, n, climbed)
  BY <1>1 DEF IsClimb, ClimbStep
<1>3. verifyWithMerkleProof(leaf, proof, hash) <=> climbed[n] = hash
  BY DEF verifyWithMerkleProof
<1> HIDE DEF climbed, n
<1>4. climbed[n] = f[n]
  BY <1>1, <1>2, OneClimb DEF n
<1> QED BY <1>1, <1>3, <1>4

\* A proof that starts with a sibling leads where its rest leads from the hash of
\* the two.
LEMMA FirstSibling ==
  ASSUME NEW V, NEW leaf, NEW sibling \in V, NEW rest \in Seq(V), NEW hash,
         LeadsTo(sortedHashPair(leaf, sibling), rest, hash)
  PROVE  LeadsTo(leaf, <<sibling>> \o rest, hash)
PROOF
<1> DEFINE n == Len(rest)
           proof == <<sibling>> \o rest
           pair == sortedHashPair(leaf, sibling)
<1>1. PICK f : IsClimb(pair, rest, n, f) /\ f[n] = hash
  BY DEF LeadsTo
<1> DEFINE g == [k \in 0..(n + 1) |-> IF k = 0 THEN leaf ELSE f[k - 1]]
<1>2. /\ n \in Nat /\ Len(proof) = n + 1 /\ proof[1] = sibling
      /\ \A k \in 2..(n + 1) : proof[k] = rest[k - 1]
  OBVIOUS
<1>3. \A k \in 0..n : f[k] = ClimbStep(pair, rest, f, k)
  BY <1>1 DEF IsClimb
<1> HIDE DEF n, proof
<1>4. ASSUME NEW k \in 0..(n + 1)
      PROVE  (IF k = 0 THEN leaf ELSE f[k - 1]) = ClimbStep(leaf, proof, g, k)
  <2>1. CASE k = 0
    BY <2>1 DEF ClimbStep
  <2>2. CASE k = 1
    <3>1. f[0] = pair
      BY <1>2, <1>3 DEF ClimbStep
    <3>2. g[0] = leaf
      BY <1>2
    <3>3. ClimbStep(leaf, proof, g, k) = sortedHashPair(sibling, leaf)
      BY <1>2, <2>2, <3>2 DEF ClimbStep
    <3>4. sortedHashPair(sibling, leaf) = pair
      BY DEF sortedHashPair
    <3> QED BY <2>2, <3>1, <3>3, <3>4
  <2>3. CASE k \in 2..(n + 1)
    <3>1. k - 1 \in 0..n /\ k - 1 \in 0..(n + 1) /\ k - 1 # 0 /\ k # 0
      BY <1>2, <2>3
    <3>2. f[k - 1] = sortedHashPair(rest[k - 1], f[(k - 1) - 1])
      BY <1>3, <3>1 DEF ClimbStep
    <3>3. g[k - 1] = f[(k - 1) - 1]
      BY <3>1
    <3> HIDE DEF g
    <3> QED BY <1>2, <2>3, <3>1, <3>2, <3>3 DEF ClimbStep
  <2> QED BY <1>2, <2>1, <2>2, <2>3
<1>5. g = [k \in 0..(n + 1) |-> ClimbStep(leaf, proof, g, k)]
  BY <1>4
<1>6. g[n + 1] = f[n]
  BY <1>2
<1> HIDE DEF g
<1> QED BY <1>1, <1>2, <1>5, <1>6 DEF LeadsTo, IsClimb, proof

\* An empty proof stays at the leaf.
LEMMA NoSibling ==
  ASSUME NEW leaf
  PROVE  LeadsTo(leaf, <<>>, leaf)
PROOF
<1> DEFINE f == [k \in 0..0 |-> leaf]
<1>1. f = [k \in 0..0 |-> ClimbStep(leaf, <<>>, f, k)] /\ f[0] = leaf
  BY DEF ClimbStep
<1> HIDE DEF f
<1> QED BY <1>1 DEF LeadsTo, IsClimb

\* One turn of build.
NodeStep(leaves, tree, i) ==
  IF i >= Len(leaves) - 1 THEN leaves[i - Len(leaves) + 2]
  ELSE sortedHashPair(tree[2 * i + 1], tree[2 * i + 2])

\* The tree from a node on.
IsTreeFrom(leaves, from, tree) ==
  tree = [i \in from..(2 * Len(leaves) - 2) |-> NodeStep(leaves, tree, i)]

\* The tree is built from its end.
LEMMA TreeExists ==
  ASSUME NEW V, NEW leaves \in Seq(V), Len(leaves) >= 1
  PROVE  \E tree : IsTreeFrom(leaves, 0, tree)
PROOF
<1> DEFINE n == Len(leaves)
           S == {m \in Nat : m <= n - 1 => \E tree : IsTreeFrom(leaves, n - 1 - m, tree)}
<1>1. n \in Nat /\ n >= 1
  OBVIOUS
<1>2. 0 \in S
  <2> DEFINE tree == [i \in (n - 1)..(2 * n - 2) |-> leaves[i - n + 2]]
  <2>1. \A i \in (n - 1)..(2 * n - 2) : leaves[i - n + 2] = NodeStep(leaves, tree, i)
    BY <1>1 DEF NodeStep
  <2>2. tree = [i \in (n - 1)..(2 * n - 2) |-> NodeStep(leaves, tree, i)]
    BY <2>1
  <2>3. n - 1 - 0 = n - 1
    BY <1>1
  <2> HIDE DEF tree
  <2>4. IsTreeFrom(leaves, n - 1 - 0, tree)
    BY <2>2, <2>3 DEF IsTreeFrom
  <2> QED BY <2>4
<1>3. ASSUME NEW m \in Nat, m \in S PROVE m + 1 \in S
  <2> SUFFICES ASSUME m + 1 <= n - 1
               PROVE  \E tree : IsTreeFrom(leaves, n - 1 - (m + 1), tree)
    OBVIOUS
  <2> DEFINE k == n - 1 - m
             top == 2 * n - 2
  <2>1. /\ m <= n - 1 /\ k \in 1..(n - 1) /\ n - 1 - (m + 1) = k - 1
        /\ top \in Nat /\ 2 * (k - 1) + 1 \in k..top /\ 2 * (k - 1) + 2 \in k..top
    BY <1>1
  <2>2. PICK f : IsTreeFrom(leaves, k, f)
    BY <1>3, <2>1
  <2>3. \A i \in k..top : f[i] = NodeStep(leaves, f, i)
    BY <2>2 DEF IsTreeFrom
  <2> HIDE DEF k, top, n
  <2> DEFINE tree == [i \in (k - 1)..top |-> IF i = k - 1 THEN NodeStep(leaves, f, i) ELSE f[i]]
  <2>4. \A i \in k..top : tree[i] = f[i]
    BY <2>1
  <2>5. ASSUME NEW i \in (k - 1)..top
        PROVE  (IF i = k - 1 THEN NodeStep(leaves, f, i) ELSE f[i]) = NodeStep(leaves, tree, i)
    <3>1. i < n - 1 => 2 * i + 1 \in k..top /\ 2 * i + 2 \in k..top
      BY <1>1, <2>1 DEF top
    <3>2. i < n - 1 => tree[2 * i + 1] = f[2 * i + 1] /\ tree[2 * i + 2] = f[2 * i + 2]
      BY <2>4, <3>1
    <3>3. NodeStep(leaves, tree, i) = NodeStep(leaves, f, i)
      <4>1. CASE i >= n - 1
        BY <4>1 DEF NodeStep, n
      <4>2. CASE ~(i >= n - 1)
        <5>1. i < n - 1
          BY <1>1, <2>1, <4>2
        <5> HIDE DEF tree
        <5> QED BY <3>2, <4>2, <5>1 DEF NodeStep, n
      <4> QED BY <4>1, <4>2
    <3>4. i # k - 1 => i \in k..top
      BY <2>1
    <3> HIDE DEF tree
    <3> QED BY <2>3, <3>3, <3>4
  <2>6. tree = [i \in (k - 1)..top |-> NodeStep(leaves, tree, i)]
    BY <2>5
  <2> HIDE DEF tree
  <2>7. IsTreeFrom(leaves, n - 1 - (m + 1), tree)
    BY <2>1, <2>6 DEF IsTreeFrom, top, n
  <2> QED BY <2>7
<1> HIDE DEF S
<1>4. n - 1 \in S
  <2>1. n - 1 \in Nat
    BY <1>1
  <2> HIDE DEF n
  <2> QED BY <1>2, <1>3, <2>1, AllNumbers
<1>5. n - 1 - (n - 1) = 0 /\ n - 1 <= n - 1
  BY <1>1
<1> HIDE DEF n
<1> QED BY <1>4, <1>5 DEF S

\* The nodes of a tree: a leaf, or the hash of the two below.
LEMMA TreeIs ==
  ASSUME NEW V, NEW leaves \in Seq(V), Len(leaves) >= 1
  PROVE  /\ DOMAIN Tree(leaves) = 0..(2 * Len(leaves) - 2)
         /\ \A i \in 0..(2 * Len(leaves) - 2) :
              Tree(leaves)[i] = NodeStep(leaves, Tree(leaves), i)
PROOF
<1> DEFINE n == Len(leaves)
           node == CHOOSE f : f = [i \in 0..(2 * n - 2) |->
                                     IF i >= n - 1 THEN leaves[i - n + 2]
                                     ELSE sortedHashPair(f[2 * i + 1], f[2 * i + 2])]
<1>1. Tree(leaves) = node
  BY DEF Tree
<1>2. IsTreeFrom(leaves, 0, node)
  BY TreeExists DEF IsTreeFrom, NodeStep
<1> HIDE DEF node
<1> QED BY <1>1, <1>2 DEF IsTreeFrom

\* One turn of getProof, from the end of the way.
ProofStep(tree, proof, pos) ==
  IF pos = 0 THEN <<>>
  ELSE <<tree[pos + 2 * (pos % 2) - 1]>> \o proof[parent(pos)]

AreProofs(tree, last, proof) == proof = [pos \in 0..last |-> ProofStep(tree, proof, pos)]

\* The parent of a node and its other child: a child on the left is odd.
LEMMA ParentIs ==
  ASSUME NEW pos \in Nat, pos # 0
  PROVE  /\ parent(pos) \in Nat /\ parent(pos) < pos
         /\ \/ /\ pos % 2 = 1 /\ pos = 2 * parent(pos) + 1
               /\ pos + 2 * (pos % 2) - 1 = 2 * parent(pos) + 2
            \/ /\ pos % 2 = 0 /\ pos = 2 * parent(pos) + 2
               /\ pos + 2 * (pos % 2) - 1 = 2 * parent(pos) + 1
PROOF BY DEF parent

\* There is a proof for every node.
LEMMA ProofsExist ==
  ASSUME NEW tree, NEW last \in Nat
  PROVE  \E proof : AreProofs(tree, last, proof)
PROOF
<1> DEFINE S == {m \in Nat : \E proof : AreProofs(tree, m, proof)}
<1>1. 0 \in S
  <2> DEFINE proof == [pos \in 0..0 |-> <<>>]
  <2>1. proof = [pos \in 0..0 |-> ProofStep(tree, proof, pos)]
    BY DEF ProofStep
  <2> HIDE DEF proof
  <2> QED BY <2>1 DEF AreProofs
<1>2. ASSUME NEW m \in Nat, m \in S PROVE m + 1 \in S
  <2>1. PICK f : AreProofs(tree, m, f)
    BY <1>2
  <2>2. \A pos \in 0..m : f[pos] = ProofStep(tree, f, pos)
    BY <2>1 DEF AreProofs
  <2> DEFINE proof == [pos \in 0..(m + 1) |->
                         IF pos = m + 1 THEN ProofStep(tree, f, pos) ELSE f[pos]]
  <2>3. \A pos \in 0..m : proof[pos] = f[pos]
    OBVIOUS
  <2>4. ASSUME NEW pos \in 0..(m + 1)
        PROVE  (IF pos = m + 1 THEN ProofStep(tree, f, pos) ELSE f[pos])
                 = ProofStep(tree, proof, pos)
    <3>1. pos # 0 => parent(pos) \in 0..m
      BY ParentIs
    <3>2. pos # 0 => proof[parent(pos)] = f[parent(pos)]
      BY <2>3, <3>1
    <3> HIDE DEF proof
    <3>3. ProofStep(tree, proof, pos) = ProofStep(tree, f, pos)
      BY <3>2 DEF ProofStep
    <3>4. pos # m + 1 => pos \in 0..m
      OBVIOUS
    <3> QED BY <2>2, <3>3, <3>4
  <2>5. proof = [pos \in 0..(m + 1) |-> ProofStep(tree, proof, pos)]
    BY <2>4
  <2> HIDE DEF proof
  <2> QED BY <2>5 DEF AreProofs
<1> HIDE DEF S
<1>3. last \in S
  BY <1>1, <1>2, AllNumbers
<1> QED BY <1>3 DEF S

\* The proof of every node leads from the node to the root.
LEMMA NodesLead ==
  ASSUME NEW V, NEW leaves \in Seq(V), Len(leaves) >= 1, NEW proof,
         AreProofs(Tree(leaves), 2 * Len(leaves) - 2, proof)
  PROVE  \A pos \in 0..(2 * Len(leaves) - 2) :
           /\ proof[pos] \in Seq(Range(Tree(leaves)))
           /\ LeadsTo(Tree(leaves)[pos], proof[pos], Tree(leaves)[0])
PROOF
<1> DEFINE n == Len(leaves)
           tree == Tree(leaves)
           top == 2 * n - 2
           Good(pos) == /\ proof[pos] \in Seq(Range(tree))
                        /\ LeadsTo(tree[pos], proof[pos], tree[0])
           bad == {pos \in 0..top : ~Good(pos)}
<1>1. n \in Nat /\ n >= 1 /\ top \in Nat
  OBVIOUS
<1>2. DOMAIN tree = 0..top /\ \A i \in 0..top : tree[i] = NodeStep(leaves, tree, i)
  BY TreeIs
<1>3. \A i \in 0..top : tree[i] \in Range(tree)
  BY <1>2 DEF Range
<1>4. \A pos \in 0..top : proof[pos] = ProofStep(tree, proof, pos)
  BY DEF AreProofs
<1>0. SUFFICES ASSUME bad # {} PROVE FALSE
  <2>1. \A pos \in 0..top : Good(pos)
    <3> HIDE DEF Good, top
    <3> QED BY <1>0
  <2> QED BY <2>1
<1> HIDE DEF tree
<1>5. PICK pos \in bad : \A q \in bad : pos <= q
  <2>1. bad \in SUBSET Nat
    OBVIOUS
  <2> HIDE DEF bad
  <2> QED BY <1>0, <2>1, Least
<1>6. pos \in 0..top /\ ~Good(pos)
  BY <1>5
<1>7. CASE pos = 0
  <2>1. proof[0] = <<>>
    BY <1>4, <1>6, <1>7 DEF ProofStep
  <2>2. LeadsTo(tree[0], <<>>, tree[0])
    BY NoSibling
  <2> QED BY <1>6, <1>7, <2>1, <2>2
<1>8. CASE pos # 0
  <2> DEFINE p == parent(pos)
             s == pos + 2 * (pos % 2) - 1
  <2>1. /\ p \in Nat /\ p < pos
        /\ \/ pos = 2 * p + 1 /\ s = 2 * p + 2
           \/ pos = 2 * p + 2 /\ s = 2 * p + 1
    <3>1. pos \in Nat
      BY <1>6
    <3> QED BY <1>8, <3>1, ParentIs
  <2>2. proof[pos] = <<tree[s]>> \o proof[p]
    BY <1>4, <1>6, <1>8 DEF ProofStep
  <2> HIDE DEF p, s
  <2>3. p \in 0..top /\ s \in 0..top /\ p < n - 1
    BY <1>1, <1>6, <2>1
  <2>4. Good(p)
    <3>1. p \notin bad
      BY <1>1, <1>5, <1>6, <2>1
    <3> QED BY <2>3, <3>1
  <2>5. tree[p] = sortedHashPair(tree[2 * p + 1], tree[2 * p + 2])
    <3>1. tree[p] = NodeStep(leaves, tree, p) /\ ~(p >= n - 1)
      BY <1>1, <1>2, <2>3
    <3> QED BY <3>1 DEF NodeStep
  <2>6. tree[p] = sortedHashPair(tree[pos], tree[s])
    BY <2>1, <2>5 DEF sortedHashPair
  <2>7. /\ tree[s] \in Range(tree) /\ proof[p] \in Seq(Range(tree))
        /\ LeadsTo(sortedHashPair(tree[pos], tree[s]), proof[p], tree[0])
    BY <1>3, <2>3, <2>4, <2>6
  <2>8. LeadsTo(tree[pos], <<tree[s]>> \o proof[p], tree[0])
    BY <2>7, FirstSibling
  <2>9. <<tree[s]>> \o proof[p] \in Seq(Range(tree))
    BY <2>7
  <2> QED BY <1>6, <2>2, <2>8, <2>9
<1> QED BY <1>7, <1>8

\* The tree of some values has their proofs, each of which leads to the root.
LEMMA ProofsLead ==
  ASSUME NEW values, Range(values) \in SUBSET Range(Hashes), NEW h \in Range(values),
         NEW others, Range(others) = Range(values)
  PROVE  verifyWithMerkleProof(h, Proofs(values)[h], root(others))
PROOF
<1> DEFINE leaves == Leaves(values)
           n == Len(leaves)
           tree == Tree(leaves)
           top == 2 * n - 2
           proof == CHOOSE f : f = [pos \in DOMAIN tree |->
                                      IF pos = 0 THEN <<>>
                                      ELSE <<tree[pos + 2 * (pos % 2) - 1]>> \o f[parent(pos)]]
           j == CHOOSE k \in DOMAIN leaves : leaves[k] = h
           pos == n - 1 + (j - 1)
<1>1. /\ leaves \in Seq(Range(values))
      /\ \E k \in 1..n : leaves[k] = h
  BY LeavesOf, InPlaceIs
<1>2. n \in Nat /\ DOMAIN leaves = 1..n
  BY <1>1
<1>3. j \in 1..n /\ leaves[j] = h
  <2> HIDE DEF leaves, n
  <2> QED BY <1>1, <1>2
<1>4. n >= 1
  BY <1>2, <1>3
<1>5. root(others) = tree[0]
  BY LeavesOf DEF root
<1>6. Proofs(values)[h] = getProof(values, j - 1)
  <2>1. h \in Range(leaves)
    BY <1>2, <1>3 DEF Range
  <2> QED BY <2>1 DEF Proofs
<1>7. getProof(values, j - 1) = proof[pos]
  BY DEF getProof
<1> HIDE DEF leaves, j, proof
<1>8. /\ DOMAIN tree = 0..top
      /\ \A i \in 0..top : tree[i] = NodeStep(leaves, tree, i)
  BY <1>1, <1>4, TreeIs
<1>9. pos \in 0..top /\ pos >= n - 1 /\ pos - n + 2 = j
  BY <1>2, <1>3, <1>4
<1>10. tree[pos] = h
  <2>1. tree[pos] = NodeStep(leaves, tree, pos)
    BY <1>8, <1>9
  <2> HIDE DEF tree, pos
  <2> QED BY <1>3, <1>9, <2>1 DEF NodeStep
<1> HIDE DEF tree
<1>11. AreProofs(tree, top, proof)
  <2>1. top \in Nat
    BY <1>2, <1>4
  <2> HIDE DEF top
  <2>2. \E f : AreProofs(tree, top, f)
    BY <2>1, ProofsExist
  <2> QED BY <1>8, <2>2 DEF AreProofs, ProofStep, proof
<1>12. proof[pos] \in Seq(Range(tree)) /\ LeadsTo(tree[pos], proof[pos], tree[0])
  BY <1>1, <1>4, <1>9, <1>11, NodesLead DEF tree
<1> HIDE DEF pos
<1> QED BY <1>5, <1>6, <1>7, <1>10, <1>12, Verified

\* A set of hashes in any order.
LEMMA OrderIs ==
  ASSUME NEW S, IsFiniteSet(S)
  PROVE  /\ Range(SetToSeq(S)) = S
         /\ \A order \in SetToSeqs(S) : order \in Seq(S) /\ Range(order) = S
PROOF
<1> DEFINE n == Cardinality(S)
<1>1. n \in Nat /\ IsFiniteSet(1..n) /\ Cardinality(1..n) = n
  <2>1. n \in Nat
    BY FS_CardinalityType
  <2> HIDE DEF n
  <2>2. 1 \in Int /\ n \in Int
    BY <2>1
  <2>3. IsFiniteSet(1..n) /\ Cardinality(1..n) = IF 1 > n THEN 0 ELSE n - 1 + 1
    BY <2>2, FS_Interval
  <2> QED BY <2>1, <2>3
<1>2. ASSUME NEW f \in [1..n -> S], IsInjective(f)
      PROVE  f \in Seq(S) /\ Range(f) = S
  <2>1. f \in Seq(S)
    BY <1>1
  <2>2. f \in Injection(1..n, S)
    BY <1>2 DEF Injection, IsInjective
  <2>3. f \in Surjection(1..n, S)
    BY <1>1, <2>2, FS_Injection DEF n
  <2>4. Range(f) = S
    BY <2>3 DEF Surjection, Range
  <2> QED BY <2>1, <2>4
<1>3. \E f \in [1..n -> S] : IsInjective(f)
  <2>1. ExistsBijection(1..n, S)
    BY <1>1, FS_SameCardinalityBij DEF n
  <2>2. PICK f \in Bijection(1..n, S) : TRUE
    BY <2>1 DEF ExistsBijection
  <2> QED BY <2>2 DEF Bijection, Injection, Surjection, IsInjective
<1>4. SetToSeq(S) \in [1..n -> S] /\ IsInjective(SetToSeq(S))
  BY <1>3 DEF SetToSeq
<1>5. ASSUME NEW order \in SetToSeqs(S) PROVE order \in [1..n -> S] /\ IsInjective(order)
  BY DEF SetToSeqs, IsInjective
<1> HIDE DEF n
<1> QED BY <1>2, <1>4, <1>5

-----------------------------------------------------------------------------
(* The server for proofs.                                                    *)

CallRecords == [kind : {"results", "requests"}, round : Rounds, stage : {"rows", "max"}]

ServerTypes ==
  /\ epoch \in Nat
  /\ chosen \in [Rounds -> ChosenLists]
  /\ results \in [Rounds -> Seq(Range(Hashes))]
  /\ requests \in [Rounds -> SUBSET Range(Hashes)]
  /\ saves \in [Rounds -> Nat]
  /\ calls \subseteq CallRecords
  /\ DOMAIN cache \subseteq Rounds /\ DOMAIN requestCache \subseteq Rounds

\* Rows are saved of all that was chosen or, as yet, of nothing.
ResultsChosen ==
  \A r \in Rounds : results[r] = <<>> \/ Range(results[r]) = Range(chosen[r])

\* Nothing is looked up or kept before the reveal phase, and no request is served that
\* was not processed.
OnlyRevealed ==
  /\ \A c \in calls : CanReveal(c.round)
  /\ \A r \in DOMAIN cache : CanReveal(r)
  /\ \A r \in DOMAIN requestCache : CanReveal(r) /\ requestCache[r] \subseteq requests[r]

ServerInv == ServerTypes /\ ResultsChosen /\ OnlyRevealed /\ ServedAsCommitted

\* The database starts empty.
LEMMA ServerInitInv == ASSUME ServerInit PROVE ServerInv
PROOF
<1>1. DOMAIN <<>> = {} /\ <<>> \in Seq(Range(Hashes))
  OBVIOUS
<1>2. ServerTypes
  BY <1>1 DEF ServerInit, ServerTypes
<1>3. ResultsChosen /\ OnlyRevealed /\ ServedAsCommitted
  BY <1>1 DEF ServerInit, ResultsChosen, OnlyRevealed, ServedAsCommitted
<1> QED BY <1>2, <1>3 DEF ServerInv

\* A list that may be chosen has hashes.
LEMMA ChosenIs ==
  ASSUME NEW list \in ChosenLists
  PROVE  list \in Seq(Range(Hashes)) /\ Range(list) \subseteq Range(Hashes)
PROOF
<1>1. PICK S \in SUBSET Range(Hashes) : list \in SetToSeqs(S)
  BY DEF ChosenLists
<1>2. IsFiniteSet(S)
  BY PlaceIs, FS_Subset
<1>3. list \in Seq(S) /\ Range(list) = S
  BY <1>1, <1>2, OrderIs
<1>4. Len(list) \in Nat /\ DOMAIN list = 1..Len(list)
  BY <1>3
<1>5. \A i \in DOMAIN list : list[i] \in Range(Hashes)
  BY <1>3
<1> QED BY <1>3, <1>4, <1>5

\* The elements of two sequences, one after the other.
LEMMA Concatenated ==
  ASSUME NEW S, NEW a \in Seq(S), NEW b \in Seq(S)
  PROVE  a \o b \in Seq(S) /\ Range(a \o b) = Range(a) \cup Range(b)
PROOF
<1>1. /\ Len(a) \in Nat /\ DOMAIN a = 1..Len(a)
      /\ Len(b) \in Nat /\ DOMAIN b = 1..Len(b)
      /\ a \o b \in Seq(S) /\ DOMAIN (a \o b) = 1..(Len(a) + Len(b))
      /\ \A i \in 1..Len(a) : (a \o b)[i] = a[i]
      /\ \A i \in 1..Len(b) : (a \o b)[Len(a) + i] = b[i]
  OBVIOUS
<1> DEFINE joined == a \o b
<1>2. ASSUME NEW i \in DOMAIN joined PROVE joined[i] \in Range(a) \cup Range(b)
  <2>1. CASE i \in 1..Len(a)
    BY <1>1, <2>1 DEF Range
  <2>2. CASE i \notin 1..Len(a)
    <3>1. i - Len(a) \in 1..Len(b) /\ i = Len(a) + (i - Len(a))
      BY <1>1, <2>2
    <3>2. joined[i] = b[i - Len(a)]
      BY <1>1, <3>1
    <3> QED BY <1>1, <3>1, <3>2 DEF Range
  <2> QED BY <2>1, <2>2
<1>3. ASSUME NEW i \in DOMAIN a PROVE a[i] \in Range(joined)
  <2>1. i \in DOMAIN joined /\ joined[i] = a[i]
    BY <1>1
  <2> HIDE DEF joined
  <2> QED BY <2>1 DEF Range
<1>4. ASSUME NEW i \in DOMAIN b PROVE b[i] \in Range(joined)
  <2>1. Len(a) + i \in DOMAIN joined /\ joined[Len(a) + i] = b[i]
    BY <1>1
  <2> HIDE DEF joined
  <2> QED BY <2>1 DEF Range
<1>5. Range(joined) = Range(a) \cup Range(b)
  <2> HIDE DEF joined
  <2> QED BY <1>2, <1>3, <1>4 DEF Range
<1> QED BY <1>1, <1>5

\* A request or a result is saved, whenever that is: what is cached stays as it is.
LEMMA SavedInv ==
  ASSUME ServerInv, NEW r \in Rounds, SaveRequest(r) \/ SaveResults(r)
  PROVE  ServerInv'
PROOF
<1>1. ServerTypes /\ ResultsChosen /\ OnlyRevealed /\ ServedAsCommitted
  BY DEF ServerInv
<1>2. /\ UNCHANGED <<epoch, chosen, cache, requestCache, calls>>
      /\ \/ UNCHANGED <<results, saves>>
         \/ /\ results' = [results EXCEPT ![r] = results[r] \o chosen[r]]
            /\ saves' = [saves EXCEPT ![r] = saves[r] + 1]
      /\ \/ UNCHANGED requests
         \/ \E h \in Range(Hashes) : requests' = [requests EXCEPT ![r] = requests[r] \cup {h}]
  BY DEF SaveRequest, SaveResults
<1>3. /\ results[r] \in Seq(Range(Hashes)) /\ requests[r] \in SUBSET Range(Hashes)
      /\ chosen[r] \in ChosenLists /\ saves[r] \in Nat
  BY <1>1 DEF ServerTypes
<1>4. /\ results[r] \o chosen[r] \in Seq(Range(Hashes))
      /\ Range(results[r] \o chosen[r]) = Range(chosen[r])
  <2>1. chosen[r] \in Seq(Range(Hashes))
    BY <1>3, ChosenIs
  <2>2. /\ results[r] \o chosen[r] \in Seq(Range(Hashes))
        /\ Range(results[r] \o chosen[r]) = Range(results[r]) \cup Range(chosen[r])
    BY <1>3, <2>1, Concatenated
  <2>3. Range(results[r]) \subseteq Range(chosen[r])
    <3>1. CASE results[r] = <<>>
      <4>1. Range(<<>>) = {}
        BY DEF Range
      <4> QED BY <3>1, <4>1
    <3>2. CASE results[r] # <<>>
      BY <1>1, <3>2 DEF ResultsChosen
    <3> QED BY <3>1, <3>2
  <2> QED BY <2>2, <2>3
<1>5. ServerTypes'
  <2>1. results' \in [Rounds -> Seq(Range(Hashes))]
    BY <1>1, <1>2, <1>4 DEF ServerTypes
  <2>2. requests' \in [Rounds -> SUBSET Range(Hashes)]
    BY <1>1, <1>2, <1>3 DEF ServerTypes
  <2>3. saves' \in [Rounds -> Nat]
    BY <1>1, <1>2, <1>3 DEF ServerTypes
  <2> QED BY <1>1, <1>2, <2>1, <2>2, <2>3 DEF ServerTypes
<1>6. ResultsChosen'
  <2>1. ASSUME NEW q \in Rounds
        PROVE  results'[q] = <<>> \/ Range(results'[q]) = Range(chosen[q])
    <3>1. CASE results'[q] = results[q]
      BY <1>1, <3>1 DEF ResultsChosen
    <3>2. CASE results'[q] # results[q]
      <4>1. q = r /\ results'[q] = results[r] \o chosen[r]
        BY <1>1, <1>2, <3>2 DEF ServerTypes
      <4> QED BY <1>4, <4>1
    <3> QED BY <3>1, <3>2
  <2> QED BY <1>2, <2>1 DEF ResultsChosen
<1>7. OnlyRevealed'
  <2>1. \A q \in Rounds : requests[q] \subseteq requests'[q]
    BY <1>1, <1>2, <1>3 DEF ServerTypes
  <2>2. \A q \in DOMAIN requestCache : CanReveal(q) /\ requestCache[q] \subseteq requests'[q]
    BY <1>1, <2>1 DEF OnlyRevealed, ServerTypes
  <2> QED BY <1>1, <1>2, <2>2 DEF OnlyRevealed, CanReveal
<1>8. ServedAsCommitted'
  BY <1>1, <1>2 DEF ServedAsCommitted
<1> QED BY <1>5, <1>6, <1>7, <1>8 DEF ServerInv

\* The answer made of the rows of a round has what was chosen, with its proofs.
LEMMA AnswerIsCommitted ==
  ASSUME ServerInv, NEW r \in Rounds, results[r] # <<>>
  PROVE  /\ HashesOf(Answer(r)) = Range(chosen[r])
         /\ \A i \in DOMAIN Answer(r) :
              verifyWithMerkleProof(Answer(r)[i].hash, Answer(r)[i].merkleProof, root(chosen[r]))
PROOF
<1> DEFINE saved == results[r]
           proofs == Proofs(saved)
           list == chosen[r]
<1>1. Range(saved) = Range(list) /\ list \in ChosenLists
  BY DEF ServerInv, ServerTypes, ResultsChosen
<1>2. /\ DOMAIN Answer(r) = DOMAIN saved
      /\ \A i \in DOMAIN saved :
           Answer(r)[i].hash = saved[i] /\ Answer(r)[i].merkleProof = proofs[saved[i]]
  <2>1. Answer(r) = [i \in DOMAIN saved |-> [hash |-> saved[i], merkleProof |-> proofs[saved[i]]]]
    BY DEF Answer
  <2> HIDE DEF saved, proofs
  <2> QED BY <2>1
<1>3. Range(list) \subseteq Range(Hashes)
  BY <1>1, ChosenIs
<1> HIDE DEF saved, list
<1>4. HashesOf(Answer(r)) = Range(list)
  BY <1>1, <1>2 DEF HashesOf, Range
<1>5. ASSUME NEW i \in DOMAIN saved
      PROVE  verifyWithMerkleProof(saved[i], proofs[saved[i]], root(list))
  <2>1. saved[i] \in Range(saved)
    BY DEF Range
  <2> QED BY <1>1, <1>3, <2>1, ProofsLead
<1> QED BY <1>2, <1>4, <1>5 DEF list

\* A query is answered.
LEMMA ReadInv ==
  ASSUME ServerInv, NEW c \in calls, ResultsRead(c) \/ RequestsRead(c) \/ MaxRoundRead(c)
  PROVE  ServerInv'
PROOF
<1>1. ServerTypes /\ ResultsChosen /\ OnlyRevealed /\ ServedAsCommitted
  BY DEF ServerInv
<1>2. c \in CallRecords /\ c.round \in Rounds /\ CanReveal(c.round)
  BY <1>1 DEF ServerTypes, OnlyRevealed, CallRecords
<1>3. UNCHANGED <<epoch, chosen, results, requests, saves>>
  BY DEF ResultsRead, RequestsRead, MaxRoundRead, database
<1> DEFINE again == [c EXCEPT !.stage = "max"]
<1>4. again \in CallRecords /\ again.round = c.round
  BY <1>2 DEF CallRecords
<1>5. /\ calls' \subseteq (calls \ {c}) \cup {again}
      /\ \/ UNCHANGED cache
         \/ cache' = Stored(cache, c.round, <<>>)
         \/ results[c.round] # <<>> /\ cache' = Stored(cache, c.round, Answer(c.round))
      /\ \/ UNCHANGED requestCache
         \/ requestCache' = Stored(requestCache, c.round, {})
         \/ requestCache' = Stored(requestCache, c.round, requests[c.round])
  BY DEF ResultsRead, RequestsRead, MaxRoundRead
<1> HIDE DEF again
<1>6. calls' \subseteq CallRecords /\ \A d \in calls' : CanReveal(d.round)
  BY <1>1, <1>2, <1>4, <1>5 DEF ServerTypes, OnlyRevealed
<1>7. /\ DOMAIN requestCache' \subseteq Rounds
      /\ \A r \in DOMAIN requestCache' : CanReveal(r) /\ requestCache'[r] \subseteq requests[r]
  <2>1. CASE UNCHANGED requestCache
    BY <1>1, <2>1 DEF ServerTypes, OnlyRevealed
  <2>2. ASSUME NEW value \in SUBSET requests[c.round],
               requestCache' = Stored(requestCache, c.round, value)
        PROVE  /\ DOMAIN requestCache' \subseteq Rounds
               /\ \A r \in DOMAIN requestCache' :
                    CanReveal(r) /\ requestCache'[r] \subseteq requests[r]
    <3>1. /\ DOMAIN requestCache' = DOMAIN requestCache \cup {c.round}
          /\ requestCache'[c.round] = value
          /\ \A q \in DOMAIN requestCache : q # c.round => requestCache'[q] = requestCache[q]
      BY <2>2 DEF Stored
    <3> QED BY <1>1, <1>2, <3>1 DEF ServerTypes, OnlyRevealed
  <2> QED BY <1>5, <2>1, <2>2
<1>8. /\ DOMAIN cache' \subseteq Rounds /\ \A r \in DOMAIN cache' : CanReveal(r)
      /\ ServedAsCommitted'
  <2>1. CASE UNCHANGED cache
    BY <1>1, <1>3, <2>1 DEF ServerTypes, OnlyRevealed, ServedAsCommitted
  <2>2. ASSUME NEW value, cache' = Stored(cache, c.round, value),
               value # <<>> =>
                 /\ HashesOf(value) = Range(chosen[c.round])
                 /\ \A i \in DOMAIN value :
                      verifyWithMerkleProof(value[i].hash, value[i].merkleProof,
                                            root(chosen[c.round]))
        PROVE  /\ DOMAIN cache' \subseteq Rounds /\ \A r \in DOMAIN cache' : CanReveal(r)
               /\ ServedAsCommitted'
    <3>1. /\ DOMAIN cache' = DOMAIN cache \cup {c.round} /\ cache'[c.round] = value
          /\ \A q \in DOMAIN cache : q # c.round => cache'[q] = cache[q]
      BY <2>2 DEF Stored
    <3>2. ASSUME NEW r \in DOMAIN cache', cache'[r] # <<>>
          PROVE  /\ HashesOf(cache'[r]) = Range(chosen[r])
                 /\ \A i \in DOMAIN cache'[r] :
                      verifyWithMerkleProof(cache'[r][i].hash, cache'[r][i].merkleProof,
                                            root(chosen[r]))
      <4>1. CASE r = c.round
        BY <2>2, <3>1, <3>2, <4>1
      <4>2. CASE r # c.round
        <5>1. r \in DOMAIN cache /\ cache'[r] = cache[r]
          BY <3>1, <4>2
        <5> QED BY <1>1, <3>2, <5>1 DEF ServedAsCommitted
      <4> QED BY <4>1, <4>2
    <3>3. ServedAsCommitted'
      BY <1>3, <3>2 DEF ServedAsCommitted, HashesOf
    <3>4. DOMAIN cache' \subseteq Rounds /\ \A r \in DOMAIN cache' : CanReveal(r)
      BY <1>1, <1>2, <3>1 DEF ServerTypes, OnlyRevealed
    <3> QED BY <3>3, <3>4
  <2>3. results[c.round] # <<>> =>
          /\ HashesOf(Answer(c.round)) = Range(chosen[c.round])
          /\ \A i \in DOMAIN Answer(c.round) :
               verifyWithMerkleProof(Answer(c.round)[i].hash, Answer(c.round)[i].merkleProof,
                                     root(chosen[c.round]))
    BY <1>2, AnswerIsCommitted
  <2> QED BY <1>5, <2>1, <2>2, <2>3
<1>9. ServerTypes'
  BY <1>1, <1>3, <1>6, <1>7, <1>8 DEF ServerTypes
<1>10. ResultsChosen' /\ OnlyRevealed'
  BY <1>1, <1>3, <1>6, <1>7, <1>8 DEF ResultsChosen, OnlyRevealed, CanReveal
<1> QED BY <1>8, <1>9, <1>10 DEF ServerInv

\* The other steps read nothing and save nothing.
LEMMA OtherServerInv ==
  ASSUME ServerInv,
         \/ NextEpoch \/ Restart \/ UNCHANGED serverVars
         \/ \E kind \in {"results", "requests"}, r \in Rounds : Call(kind, r)
  PROVE  ServerInv'
PROOF
<1>1. ServerTypes /\ ResultsChosen /\ OnlyRevealed /\ ServedAsCommitted
  BY DEF ServerInv
<1>2. /\ UNCHANGED <<chosen, results, requests, saves>>
      /\ epoch' \in Nat /\ epoch' >= epoch
  BY <1>1 DEF NextEpoch, Restart, Call, serverVars, ServerTypes, database
<1>3. ResultsChosen'
  BY <1>1, <1>2 DEF ResultsChosen
<1>4. \A r \in Rounds : CanReveal(r) => CanReveal(r)'
  <2>1. \A r \in Rounds : r \in Int
    BY ProofServerAssumption DEF Rounds
  <2>2. epoch \in Nat
    BY <1>1 DEF ServerTypes
  <2> QED BY <1>2, <2>1, <2>2 DEF CanReveal
<1>5. CASE NextEpoch \/ UNCHANGED serverVars
  <2>1. UNCHANGED <<cache, requestCache, calls>>
    BY <1>5 DEF NextEpoch, serverVars
  <2>2. ServerTypes'
    BY <1>1, <1>2, <2>1 DEF ServerTypes
  <2>3. OnlyRevealed'
    <3>1. \A c \in calls : c.round \in Rounds
      BY <1>1 DEF ServerTypes, CallRecords
    <3> QED BY <1>1, <1>2, <1>4, <2>1, <3>1 DEF OnlyRevealed, ServerTypes
  <2>4. ServedAsCommitted'
    BY <1>1, <1>2, <2>1 DEF ServedAsCommitted
  <2> QED BY <1>3, <2>2, <2>3, <2>4 DEF ServerInv
<1>6. CASE Restart
  <2>1. cache' = <<>> /\ requestCache' = <<>> /\ calls' = {} /\ DOMAIN <<>> = {}
    BY <1>6 DEF Restart
  <2>2. ServerTypes'
    BY <1>1, <1>2, <2>1 DEF ServerTypes
  <2>3. OnlyRevealed' /\ ServedAsCommitted'
    BY <2>1 DEF OnlyRevealed, ServedAsCommitted
  <2> QED BY <1>3, <2>2, <2>3 DEF ServerInv
<1>7. CASE \E kind \in {"results", "requests"}, r \in Rounds : Call(kind, r)
  <2>1. PICK kind \in {"results", "requests"}, r \in Rounds : Call(kind, r)
    BY <1>7
  <2> DEFINE c == [kind |-> kind, round |-> r, stage |-> "rows"]
  <2>2. /\ UNCHANGED <<epoch, cache, requestCache>>
        /\ calls' = calls \cup {c} /\ CanReveal(r)
    BY <2>1 DEF Call
  <2>3. c \in CallRecords /\ c.round = r
    BY DEF CallRecords
  <2> HIDE DEF c
  <2>4. ServerTypes'
    BY <1>1, <1>2, <2>2, <2>3 DEF ServerTypes
  <2>5. OnlyRevealed'
    BY <1>1, <1>2, <2>2, <2>3 DEF OnlyRevealed, CanReveal
  <2>6. ServedAsCommitted'
    BY <1>1, <1>2, <2>2 DEF ServedAsCommitted
  <2> QED BY <1>3, <2>4, <2>5, <2>6 DEF ServerInv
<1> QED BY <1>5, <1>6, <1>7

\* The invariant, whenever the client saves what it has processed and chosen.
THEOREM ServerInvariant == ServerSpec => []ServerInv
PROOF
<1>1. ServerInit => ServerInv
  BY ServerInitInv
<1>2. ServerInv /\ [ServerNext]_serverVars => ServerInv'
  <2> SUFFICES ASSUME ServerInv, [ServerNext]_serverVars PROVE ServerInv'
    OBVIOUS
  <2>1. CASE \E r \in Rounds : SaveRequest(r) \/ SaveResults(r)
    BY <2>1, SavedInv
  <2>2. CASE \E c \in calls : ResultsRead(c) \/ RequestsRead(c) \/ MaxRoundRead(c)
    BY <2>2, ReadInv
  <2>3. CASE \/ NextEpoch \/ Restart \/ UNCHANGED serverVars
             \/ \E kind \in {"results", "requests"}, r \in Rounds : Call(kind, r)
    BY <2>3, OtherServerInv
  <2> QED BY <2>1, <2>2, <2>3 DEF ServerNext
<1> QED BY <1>1, <1>2, PTL DEF ServerSpec

\* For any hashes and any number of rounds, and whenever the client saves, once or
\* again, before or after the server reads: an answer that is kept for ever has all
\* that was chosen and nothing else, and every proof in it leads to the committed root.
THEOREM ProofsServedAsCommitted == ServerSpec => []ServedAsCommitted
PROOF
<1>1. ServerInv => ServedAsCommitted
  BY DEF ServerInv
<1> QED BY <1>1, ServerInvariant, PTL

\* Requests and responses have the keys that the classes for the documentation name.
THEOREM KeysAreDocumented == DocumentedKeys
PROOF
<1>1. /\ ARPayment = Web!ARPayment
      /\ ARBalanceDecreasingTransaction = Web!ARBalanceDecreasingTransaction
      /\ ARConfirmedBlockHeightExists = Web!ARConfirmedBlockHeightExists
      /\ ARReferencedPaymentNonexistence = Web!ARReferencedPaymentNonexistence
  BY DEF ARBase, ARPayment, ARBalanceDecreasingTransaction, ARConfirmedBlockHeightExists,
         ARReferencedPaymentNonexistence, Web!ARBase, Web!ARPayment,
         Web!ARBalanceDecreasingTransaction, Web!ARConfirmedBlockHeightExists,
         Web!ARReferencedPaymentNonexistence
<1>2. /\ DHPayment = Web!DHPayment
      /\ DHBalanceDecreasingTransaction = Web!DHBalanceDecreasingTransaction
      /\ DHConfirmedBlockHeightExists = Web!DHConfirmedBlockHeightExists
      /\ DHReferencedPaymentNonexistence = Web!DHReferencedPaymentNonexistence
  BY DEF DHPayment, DHBalanceDecreasingTransaction, DHConfirmedBlockHeightExists,
         DHReferencedPaymentNonexistence, Web!DHPayment,
         Web!DHBalanceDecreasingTransaction, Web!DHConfirmedBlockHeightExists,
         Web!DHReferencedPaymentNonexistence
<1>3. ARType = Web!ARTypeArray /\ DHType = Web!DHTypeArray
  BY <1>1, <1>2 DEF ARType, DHType, Web!ARTypeArray, Web!DHTypeArray
<1> QED BY <1>3 DEF DocumentedKeys
=============================================================================
