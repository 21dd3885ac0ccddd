---------------------------- MODULE ProofServer ----------------------------
(***************************************************************************)
(* The web server for proofs: ProofEngineService reads what the attestation *)
(* client has saved of a round, and never reads again what it has cached.  *)
(*                                                                         *)
(* The attestation client saves a row for every request it has processed,  *)
(* and one for each request that was chosen when the commit of the round   *)
(* is prepared, twice when two preparations overlap                        *)
(* (tryPrepareCommitData).                                                 *)
(* Neither waits for the other, or has to end before the server is asked.  *)
(***************************************************************************)
EXTENDS AttestationTypes, MerkleTree

Web == INSTANCE WebServerTypes

CONSTANTS
  LastRound,   \* bound on the rounds
  LastEpoch,   \* bound on the epochs
  MaxSaves,    \* bound on the saved preparations of a commit
  MaxCalls,    \* bound on the calls that are going on
  NoRound      \* undefined

\* Every hash is in its place once.
ASSUME ProofServerAssumption ==
  /\ Hashes \in Seq(Range(Hashes)) /\ IsInjective(Hashes)
  /\ {LastRound, LastEpoch, MaxSaves, MaxCalls} \subseteq Nat /\ NoRound \notin Nat

VARIABLES
  epoch,         \* getCurrentEpochId
  chosen,        \* external: the requests the bit vote of a round chooses, by their
                 \* hashes, in the order of the round (bitVoteResultIndices)
  results,       \* external: the hashes of the rows of DBVotingRoundResult, by round
  requests,      \* external: the rows of DBAttestationRequest, by round, each named by
                 \* the hash its request has when it is confirmed
  saves,         \* external: how often the results of a round were saved
  cache,         \* the results that are cached
  requestCache,  \* the requests that are cached
  calls          \* calls of the service that await a query

database == <<chosen, results, requests, saves>>
serverVars == <<epoch, database, cache, requestCache, calls>>

Rounds == 0..LastRound

\* The requests that a vote may choose.
ChosenLists == UNION {SetToSeqs(S) : S \in (SUBSET Range(Hashes)) \ {{}}}

ServerInit ==
  /\ epoch = 0
  /\ chosen \in [Rounds -> ChosenLists]
  /\ results = [r \in Rounds |-> <<>>]
  /\ requests = [r \in Rounds |-> {}]
  /\ saves = [r \in Rounds |-> 0]
  /\ cache = <<>> /\ requestCache = <<>>
  /\ calls = {}

NextEpoch ==
  /\ epoch < LastEpoch
  /\ epoch' = epoch + 1
  /\ UNCHANGED <<database, cache, requestCache, calls>>

-----------------------------------------------------------------------------
(* The attestation client.                                                   *)

\* onAttestationProcessed: a row for every request, valid, invalid or too late,
\* chosen or not, whenever it has been processed and the database has saved it.
SaveRequest(r) ==
  /\ epoch >= r
  /\ \E h \in Range(Hashes) \ requests[r] :
       requests' = [requests EXCEPT ![r] = @ \cup {h}]
  /\ UNCHANGED <<epoch, chosen, results, saves, cache, requestCache, calls>>

\* Mutation of SaveResults: all that has been processed is saved.
SaveResultsProcessed(r) ==
  /\ epoch > r /\ saves[r] < MaxSaves
  /\ results' = [results EXCEPT ![r] = @ \o SetToSeq(requests[r])]
  /\ saves' = [saves EXCEPT ![r] = @ + 1]
  /\ UNCHANGED <<epoch, chosen, requests, cache, requestCache, calls>>

\* tryPrepareCommitData: the rows of the chosen requests, in one transaction.  The
\* preparation starts in the commit phase; its save may end in any later one, or fail.
SaveResults(r) ==
  /\ epoch > r /\ saves[r] < MaxSaves
  /\ results' = [results EXCEPT ![r] = @ \o chosen[r]]
  /\ saves' = [saves EXCEPT ![r] = @ + 1]
  /\ UNCHANGED <<epoch, chosen, requests, cache, requestCache, calls>>

-----------------------------------------------------------------------------
(* The service.                                                              *)

CanReveal(r) == epoch >= r + 2

MaxRoundId ==
  LET saved == {r \in Rounds : results[r] # <<>>}
  IN  IF saved = {} THEN NoRound ELSE CHOOSE r \in saved : \A q \in saved : q <= r

\* getVoteResultsForRound and getRequestsForRound up to the first query; a
\* cached answer needs none, and an early call is an error.
Call(kind, r) ==
  /\ Cardinality(calls) < MaxCalls
  /\ r \notin DOMAIN (IF kind = "results" THEN cache ELSE requestCache)
  /\ CanReveal(r)
  /\ calls' = calls \cup {[kind |-> kind, round |-> r, stage |-> "rows"]}
  /\ UNCHANGED <<epoch, database, cache, requestCache>>

Stored(map, r, value) == [q \in DOMAIN map \cup {r} |-> IF q = r THEN value ELSE map[q]]

\* The answer for a round: its rows with their proofs.
Answer(r) ==
  LET rows == results[r]
      proofs == Proofs(rows)
  IN  [i \in DOMAIN rows |-> [hash |-> rows[i], merkleProof |-> proofs[rows[i]]]]

\* The query for the results is answered; if there are none, the last round
\* with results is asked for.
ResultsRead(c) ==
  /\ c.kind = "results" /\ c.stage = "rows"
  /\ IF results[c.round] = <<>>
     THEN /\ calls' = (calls \ {c}) \cup {[c EXCEPT !.stage = "max"]}
          /\ UNCHANGED cache
     ELSE /\ cache' = Stored(cache, c.round, Answer(c.round))
          /\ calls' = calls \ {c}
  /\ UNCHANGED <<epoch, database, requestCache>>

RequestsRead(c) ==
  /\ c.kind = "requests" /\ c.stage = "rows"
  /\ IF requests[c.round] = {}
     THEN /\ calls' = (calls \ {c}) \cup {[c EXCEPT !.stage = "max"]}
          /\ UNCHANGED requestCache
     ELSE /\ requestCache' = Stored(requestCache, c.round, requests[c.round])
          /\ calls' = calls \ {c}
  /\ UNCHANGED <<epoch, database, cache>>

\* maxRoundId: when a later round has results, this one has none.
MaxRoundRead(c) ==
  /\ c.stage = "max"
  /\ LET later == MaxRoundId # NoRound /\ MaxRoundId > c.round
     IN  /\ cache' = IF later /\ c.kind = "results" THEN Stored(cache, c.round, <<>>) ELSE cache
         /\ requestCache' =
              IF later /\ c.kind = "requests" THEN Stored(requestCache, c.round, {})
              ELSE requestCache
  /\ calls' = calls \ {c}
  /\ UNCHANGED <<epoch, database>>

\* "cache expires only on process restart"
Restart ==
  /\ DOMAIN cache \cup DOMAIN requestCache # {}
  /\ cache' = <<>> /\ requestCache' = <<>> /\ calls' = {}
  /\ UNCHANGED <<epoch, database>>

ServerNext ==
  \/ NextEpoch
  \/ \E r \in Rounds : SaveRequest(r)
  \/ \E r \in Rounds : SaveResults(r)
  \/ \E kind \in {"results", "requests"}, r \in Rounds : Call(kind, r)
  \/ \E c \in calls : ResultsRead(c)
  \/ \E c \in calls : RequestsRead(c)
  \/ \E c \in calls : MaxRoundRead(c)
  \/ Restart

ServerSpec == ServerInit /\ [][ServerNext]_serverVars

-----------------------------------------------------------------------------
(* What the server promises.                                                 *)

HashesOf(answer) == {answer[i].hash : i \in DOMAIN answer}

\* Whatever is saved when, twice, or again after the server was first asked: an answer
\* that is kept for ever has all that was chosen and nothing else, though more was
\* processed, and every proof leads to the root of the commit, which the client has
\* made of its own list (getVoteResultsForRound, tryPrepareCommitData).
ServedAsCommitted ==
  \A r \in DOMAIN cache : cache[r] # <<>> =>
    /\ HashesOf(cache[r]) = Range(chosen[r])
    /\ \A i \in DOMAIN cache[r] :
         verifyWithMerkleProof(cache[r][i].hash, cache[r][i].merkleProof, root(chosen[r]))

\* "never expiring cache. Once round data are finalized, they do not change"
\* (proof-engine.service.ts:20): what is cached of a round is what the database has.
CachedIsCurrent ==
  /\ \A r \in DOMAIN cache : HashesOf(cache[r]) = Range(results[r])
  /\ \A r \in DOMAIN requestCache : requestCache[r] = requests[r]

-----------------------------------------------------------------------------
\* The classes that document requests and responses name the keys that these have.
DocumentedKeys ==
  \A type \in 1..4 : /\ ARType[type] = Web!ARTypeArray[type]
                     /\ DHType[type] = Web!DHTypeArray[type]
=============================================================================
