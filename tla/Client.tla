------------------------------- MODULE Client -------------------------------
(***************************************************************************)
(* What an attestation client makes of the Flare chain: AttesterClient,    *)
(* FlareDataCollector and AttestationRoundManager turn blocks and events   *)
(* into rounds with lists of requests and bit votes; GlobalConfigManager   *)
(* and SourceRouter decide which requests are supported, and are refreshed *)
(* from files that an operator edits while the client runs.                *)
(*                                                                         *)
(* What a round does with its list and its votes is in AttestationRound    *)
(* and BitVoteCount, how requests are verified in SourceManager.           *)
(***************************************************************************)
EXTENDS Integers, Sequences, FiniteSets

CONSTANTS
  Period,          \* length of an epoch
  VoteWindow,      \* bit votes count up to this offset in an epoch
  LastTime,        \* bound on the local clock
  Logs,            \* bound: the logs each of the Flare blocks can have
  Step,            \* getBlockBeforeTime goes back by this many blocks
  KeepRounds,      \* cleanup deletes the round so many epochs back
  Members,         \* the attestors of the default set
  DefinedPairs,    \* the pairs of source and type that have a definition
  GlobalSupport,   \* the pairs the global configuration supports
  MaxRoundWeight,  \* maxTotalRoundWeight of every source; a request weighs 1
  Editions,        \* the successive contents of the verifier config folder
  Prompt,          \* calls to the Flare node end within a unit of time
  None

ASSUME ClientAssumption ==
  /\ Period \in Nat \ {0} /\ VoteWindow \in 0..(Period - 1)
  /\ {LastTime, MaxRoundWeight} \subseteq Nat
  /\ Step \in Nat \ {0} /\ KeepRounds \in Nat \ {0}
  /\ GlobalSupport \subseteq DefinedPairs
  /\ Len(Editions) > 0
  /\ Logs \in Seq({Logs[i] : i \in DOMAIN Logs})
  /\ \A i \in DOMAIN Logs : \A log \in Logs[i] : log \in Seq({log[k] : k \in DOMAIN log})
  /\ None \notin Nat

VARIABLES
  now,         \* the local clock
  chain,       \* external: the Flare blocks, the first one has number 0
  edition,     \* external: how often the config files were edited, from 1
  pc,          \* where the process is
  startRound,  \* startRoundId
  next,        \* nextBlockNumberToProcess
  rounds,      \* the rounds map
  waiting,     \* requests whose handler awaits the initialisation of the round
  updating,    \* the round that startRoundUpdate is initialising, or None
  managers,    \* SourceRouter.sourceManagers: source to latestRoundId
  known,       \* hashToVerifierRouter
  routers,     \* verifierRoutersWithConfig
  refreshing   \* the editions that running refreshes have read

external == <<now, chain, edition>>
config == <<known, routers, refreshing>>
vars == <<now, chain, edition, pc, startRound, next, rounds, waiting, updating,
          managers, known, routers, refreshing>>

Running == {"searching", "running"}

-----------------------------------------------------------------------------
(* Time and the chain.                                                       *)

Epoch(time) == time \div Period

\* Mutation of BitVoteEpoch: votes count all through the epoch.
BitVoteEpochAlways(time) == Epoch(time)

\* getEpochIdForBitVoteTimeSec
BitVoteEpoch(time) == IF time % Period <= VoteWindow THEN Epoch(time) ELSE None

Height == Len(chain) - 1
Block(number) == chain[number + 1]

IsRequest(event) == event.kind = "request"
IsVote(event) == event.kind = "vote"

-----------------------------------------------------------------------------
(* Verifier configurations: a config is [start, routes].                     *)

\* Mutation of Hash: routers are reused by their first round.
HashOfStart(cfg) == cfg.start

\* verifierRouteConfigHash
Hash(cfg) == cfg

\* The routers by hash after the configs of a folder have been loaded.
Known(files) ==
  [h \in DOMAIN known \cup {Hash(c) : c \in files} |->
     IF h \in DOMAIN known THEN known[h] ELSE CHOOSE c \in files : Hash(c) = h]

\* Mutation of Sources: only what the config has a route for.
SourcesRouted(router) == {p.source : p \in router.routes}

\* The keys of routeMap: initialize sets up an empty route for every pair with
\* a definition, and fills in those of the config.
Sources(router) == {p.source : p \in DefinedPairs}

IsSupported(router, pair) == pair \in router.routes

Applicable(r) == {c \in routers : c.start <= r}

\* getVerifierRouter
RouterOf(r) ==
  (CHOOSE c \in Applicable(r) : \A d \in Applicable(r) : d.start <= c.start).router

-----------------------------------------------------------------------------
(* Rounds.                                                                   *)

NewRound(linked) ==
  [initialized |-> FALSE, prev |-> linked, next |-> FALSE, closed |-> FALSE,
   listed |-> <<>>, votes |-> [m \in Members |-> None]]

\* cleanup
Obsolete(r) == r = Epoch(now) - KeepRounds

\* Mutation of Linked: the round is looked for before it is there.
LinkedToNext(r) == r + 1 \in DOMAIN rounds

\* The round before is in the map: the two are linked.  Otherwise the new round
\* has a timer for its first commit.
Linked(r) == r - 1 \in DOMAIN rounds /\ ~Obsolete(r - 1)

\* getRoundOrCreateIt
WithRound(r) ==
  IF r \in DOMAIN rounds THEN rounds
  ELSE [q \in {p \in DOMAIN rounds \cup {r} : ~Obsolete(p)} |->
          IF q = r THEN NewRound(Linked(r))
          ELSE IF q = r - 1 THEN [rounds[q] EXCEPT !.next = TRUE]
          ELSE rounds[q]]

\* SourceRouter.initializeSourcesForRound
WithSources(r) ==
  IF r \in DOMAIN rounds THEN managers
  ELSE [s \in DOMAIN managers \cup Sources(RouterOf(r)) |->
          IF s \in DOMAIN managers /\ managers[s] > r THEN managers[s] ELSE r]

HasRouter(r) == r \in DOMAIN rounds \/ Applicable(r) # {}

Accepted(listed, source) ==
  Cardinality({i \in DOMAIN listed :
                 listed[i].status = "queued" /\ listed[i].pair.source = source})

\* createAttestation and SourceLimiter.canProceedWithValidation.
StatusOf(r, listed, pair) ==
  CASE pair \notin GlobalSupport \/ ~IsSupported(RouterOf(r), pair) -> "failed"
    [] Accepted(listed, pair.source) >= MaxRoundWeight -> "overLimit"
    [] OTHER -> "queued"

Ids(listed) == {listed[i].id : i \in DOMAIN listed}

\* The part of onAttestationRequest after the await, and addAttestation.
Add(r, listed, request) ==
  IF request.id \in Ids(listed) THEN listed
  ELSE Append(listed, [id |-> request.id, pair |-> request.pair,
                       at |-> request.at, waited |-> request.waited,
                       status |-> StatusOf(r, listed, request.pair)])

\* The handlers of the requests of a block.  The collector has the events of
\* StateConnector before those of BitVoting; eventComparator is never negative
\* for two events of a block, so that sort leaves them in the order of the log.
AddAll(r, listed, requests, length) ==
  LET added[i \in 0..length] ==
        IF i = 0 THEN listed
        ELSE IF i \in DOMAIN requests THEN Add(r, added[i - 1], requests[i])
        ELSE added[i - 1]
  IN  added[length]

\* getSourceManager ends the process when there is none.
MissesSource(listed, sources) ==
  \E i \in DOMAIN listed :
    listed[i].status = "queued" /\ listed[i].pair.source \notin sources

-----------------------------------------------------------------------------
Init ==
  /\ now = 0
  /\ chain = <<[time |-> 0, log |-> <<>>]>>
  /\ edition = 1
  /\ pc = "off"
  /\ startRound = 0
  /\ next = 0
  /\ rounds = <<>>
  /\ waiting = {}
  /\ updating = None
  /\ managers = <<>>
  /\ known = <<>>
  /\ routers = {}
  /\ refreshing = {}

(* The surroundings: time, the Flare chain and the operator.                 *)

\* The update loop still has something to do for round r.
Unseen(r) == r \in DOMAIN rounds => ~rounds[r].initialized

Handled(number) == pc = "running" /\ number < next

\* The process is at most KeepRounds epochs behind.  When calls are prompt, the
\* update loop has seen every epoch, and no initialisation takes longer than a
\* unit of time.
Tick ==
  /\ now < LastTime
  /\ \A n \in 0..Height :
       Epoch(Block(n).time) <= Epoch(now + 1) - KeepRounds /\ pc # "off" => Handled(n)
  /\ \A w \in waiting : w.round > Epoch(now + 1) - KeepRounds
  /\ Prompt /\ pc \in Running => ~Unseen(Epoch(now)) /\ updating = None
  /\ now' = now + 1
  /\ UNCHANGED <<chain, edition, pc, startRound, next, rounds, waiting, updating,
                 managers, config>>

MineBlock ==
  /\ Height < Len(Logs)
  /\ \E log \in Logs[Height + 1] : chain' = Append(chain, [time |-> now, log |-> log])
  /\ UNCHANGED <<now, edition, pc, startRound, next, rounds, waiting, updating,
                 managers, config>>

EditFiles ==
  /\ edition < Len(Editions)
  /\ edition' = edition + 1
  /\ UNCHANGED <<now, chain, pc, startRound, next, rounds, waiting, updating,
                 managers, config>>

(* The configurations.                                                       *)

\* initialize runs the first refresh, an interval timer the others; nothing
\* keeps a new one from starting while one is running.
Refresh ==
  /\ pc \in {"off", "connecting"} \cup Running
  /\ edition \notin refreshing
  /\ refreshing' = refreshing \cup {edition}
  /\ pc' = IF pc = "off" THEN "loading" ELSE pc
  /\ UNCHANGED <<external, startRound, next, rounds, waiting, updating, managers,
                 known, routers>>

\* refreshVerifierConfigs has loaded the configs.
Refreshed(e) ==
  /\ e \in refreshing
  /\ refreshing' = refreshing \ {e}
  /\ known' = Known(Editions[e])
  /\ routers' = {[start |-> c.start, router |-> known'[Hash(c)]] : c \in Editions[e]}
  /\ pc' = IF pc = "loading" THEN "connecting" ELSE pc
  /\ UNCHANGED <<external, startRound, next, rounds, waiting, updating, managers>>

(* The rounds.                                                               *)

Exit(reason) ==
  /\ pc' = reason
  /\ refreshing' = {} /\ waiting' = {} /\ updating' = None
  /\ UNCHANGED <<external, startRound, next, rounds, managers, known, routers>>

\* One turn of startRoundUpdate up to its await.
UpdateRound(r) ==
  /\ rounds' = WithRound(r)
  /\ managers' = WithSources(r)
  /\ updating' = IF rounds'[r].initialized THEN None ELSE r

\* AttestationRoundManager.initialize after the database is connected.
Initialize ==
  /\ pc = "connecting"
  /\ IF HasRouter(Epoch(now))
     THEN /\ pc' = "searching"
          /\ startRound' = Epoch(now)
          /\ UpdateRound(Epoch(now))
          /\ UNCHANGED <<external, next, waiting, config>>
     ELSE Exit("noRouter")

\* The next turn of startRoundUpdate; it does nothing to a round it has seen.
StartRoundUpdate ==
  /\ pc \in Running
  /\ updating = None
  /\ Unseen(Epoch(now))
  /\ IF HasRouter(Epoch(now))
     THEN /\ UpdateRound(Epoch(now))
          /\ UNCHANGED <<external, pc, startRound, next, waiting, config>>
     ELSE Exit("noRouter")

\* The round's initialize has the addresses of the default set.
Initialized(r) == [rounds EXCEPT ![r].initialized = TRUE]

RoundUpdated ==
  /\ updating # None
  /\ rounds' = IF updating \in DOMAIN rounds THEN Initialized(updating) ELSE rounds
  /\ updating' = None
  /\ UNCHANGED <<external, pc, startRound, next, waiting, managers, config>>

\* initialize has failed as often as retry allows.
NodeFails ==
  /\ updating # None \/ waiting # {}
  /\ Exit("noNode")

\* Mutation of BlockBefore: the search ends at a block of the round.
BlockFrom(time) ==
  LET tried == {n \in 0..Height : n % Step = Height % Step /\ Block(n).time <= time}
  IN  IF tried = {} THEN 0 ELSE CHOOSE n \in tried : \A m \in tried : m <= n

\* getBlockBeforeTime
BlockBefore(time) ==
  LET tried == {n \in 0..Height : n % Step = Height % Step /\ Block(n).time < time}
  IN  IF tried = {} THEN 0 ELSE CHOOSE n \in tried : \A m \in tried : m <= n

\* runAttesterClient finds where to start reading.
FindStartBlock ==
  /\ pc = "searching"
  /\ next' = BlockBefore(startRound * Period)
  /\ pc' = "running"
  /\ UNCHANGED <<external, startRound, rounds, waiting, updating, managers, config>>

(* The events of a block.                                                    *)

\* The vote that counts of those cast for round r in a log: the last one.
Vote(log, member, r) ==
  LET cast == {i \in DOMAIN log : /\ IsVote(log[i])
                                  /\ log[i].by = member
                                  /\ log[i].round = r}
  IN  IF cast = {} THEN None
      ELSE log[CHOOSE i \in cast : \A j \in cast : j <= i].mask

\* onBitVoteEvent and registerBitVote for the votes of a block: a round that
\* is not initialised has no default set.
WithVotes(rs, block) ==
  LET r == BitVoteEpoch(block.time) - 1
  IN  IF BitVoteEpoch(block.time) = None \/ r \notin DOMAIN rs THEN rs
      ELSE IF ~rs[r].initialized THEN rs
      ELSE [rs EXCEPT ![r].votes =
              [m \in Members |-> LET v == Vote(block.log, m, r)
                                 IN  IF v = None THEN @[m] ELSE v]]

\* onLastFlareNetworkTimestamp
WithClosed(rs, block) ==
  LET r == Epoch(block.time) - 1
  IN  IF BitVoteEpoch(block.time) # None \/ r \notin DOMAIN rs THEN rs
      ELSE [rs EXCEPT ![r].closed = TRUE]

\* Where in a log the requests are that can be parsed.
Parsed(log) == {i \in DOMAIN log : IsRequest(log[i]) /\ log[i].pair # None}

\* The attestation requests of a block by their place in its log.
RequestsOf(number) ==
  LET log == Block(number).log
  IN  [i \in Parsed(log) |-> [id |-> log[i].id, pair |-> log[i].pair,
                              waited |-> FALSE, at |-> <<number, i>>]]

\* onAttestationRequest: the request is of a round before the process started.
TooEarly(r) == r < startRound

\* The handlers of a block's events and of the block.  A request whose round is
\* initialised is added when the handlers of its block have run, the others
\* wait for the node.
ReadBlock ==
  /\ pc = "running"
  /\ next <= Height
  /\ LET block == Block(next)
         r == Epoch(block.time)
         requests == IF TooEarly(r) THEN <<>> ELSE RequestsOf(next)
     IN  IF DOMAIN requests = {}
         THEN /\ rounds' = WithClosed(WithVotes(rounds, block), block)
              /\ next' = next + 1
              /\ UNCHANGED <<external, pc, startRound, waiting, updating, managers, config>>
         ELSE IF ~HasRouter(r) THEN Exit("noRouter")
         ELSE LET rs == WithClosed(WithVotes(WithRound(r), block), block)
                  listed == AddAll(r, rs[r].listed, requests, Len(block.log))
              IN  IF rs[r].initialized /\ Applicable(r) = {} THEN Exit("noRouter")
                  ELSE IF rs[r].initialized /\ MissesSource(listed, DOMAIN WithSources(r))
                  THEN Exit("noSource")
                  ELSE /\ managers' = WithSources(r)
                       /\ next' = next + 1
                       /\ rounds' = IF rs[r].initialized
                                    THEN [rs EXCEPT ![r].listed = listed]
                                    ELSE rs
                       /\ waiting' =
                            IF rs[r].initialized THEN waiting
                            ELSE waiting \cup
                                 {[round |-> r,
                                   request |-> [requests[i] EXCEPT !.waited = TRUE]] :
                                    i \in DOMAIN requests}
                       /\ UNCHANGED <<external, pc, startRound, updating, config>>

\* The node's answer has come for the handler of a waiting request.
RequestContinues(w) ==
  /\ w \in waiting
  /\ LET listed == Add(w.round, rounds[w.round].listed, w.request)
     IN  IF Applicable(w.round) = {} THEN Exit("noRouter")
         ELSE IF MissesSource(listed, DOMAIN managers) THEN Exit("noSource")
         ELSE /\ waiting' = waiting \ {w}
              /\ rounds' = [Initialized(w.round) EXCEPT ![w.round].listed = listed]
              /\ UNCHANGED <<external, pc, startRound, next, updating, managers, config>>

Next ==
  \/ Tick
  \/ MineBlock
  \/ EditFiles
  \/ Refresh
  \/ \E e \in refreshing : Refreshed(e)
  \/ Initialize
  \/ StartRoundUpdate
  \/ RoundUpdated
  \/ NodeFails
  \/ FindStartBlock
  \/ ReadBlock
  \/ \E w \in waiting : RequestContinues(w)

Spec == Init /\ [][Next]_vars

\* The interval timer goes on firing, and files are read.
FairSpec ==
  /\ Spec
  /\ WF_vars(Refresh)
  /\ \A e \in 1..Len(Editions) : WF_vars(Refreshed(e))

-----------------------------------------------------------------------------
BlocksRead == IF pc = "running" THEN 0..(next - 1) ELSE {}

\* Every well-formed request of a round since the process started is in the
\* list of its round or has a handler that will add it, however the start block
\* was found and the round was created (getBlockBeforeTime, onAttestationRequest).
EveryRequestListed ==
  \A n \in BlocksRead :
    LET r == Epoch(Block(n).time) IN
    \A i \in DOMAIN RequestsOf(n) :
      r >= startRound /\ r > Epoch(now) - KeepRounds =>
        \/ RequestsOf(n)[i].id \in Ids(rounds[r].listed)
        \/ \E w \in waiting : w.round = r /\ w.request.id = RequestsOf(n)[i].id

\* addAttestation numbers the requests of a round as it lists them, and bit
\* votes name them by these numbers.  Requests are listed in the order of the
\* chain, but for those that awaited the initialisation of their round.
OnlyWaitingOvertaken ==
  \A r \in DOMAIN rounds :
    LET listed == rounds[r].listed
        Later(p, q) == p[1] > q[1] \/ (p[1] = q[1] /\ p[2] > q[2])
    IN  \A i, j \in DOMAIN listed :
          i < j /\ Later(listed[i].at, listed[j].at) => listed[j].waited

\* No request is lost, and none is overtaken that did not have to wait: the list
\* of a round is what providers have to agree on to understand bit votes.
RequestsListed == EveryRequestListed /\ OnlyWaitingOvertaken

\* The blocks read whose bit votes count for round r.
VotingBlocks(r) ==
  {n \in BlocksRead : Epoch(Block(n).time) = r + 1
                      /\ Block(n).time % Period <= VoteWindow}

\* When the update loop sees every epoch, each round the client follows has the
\* last vote of every member among those cast in time: a vote is never read
\* before its round exists and knows its members (onBitVoteEvent).
VotesRegistered ==
  Prompt /\ pc = "running" =>
    \A r \in DOMAIN rounds, m \in Members :
      LET cast == {n \in VotingBlocks(r) : Vote(Block(n).log, m, r) # None}
      IN  rounds[r].votes[m] =
            IF cast = {} THEN None
            ELSE Vote(Block(CHOOSE n \in cast : \A k \in cast : k <= n).log, m, r)

\* When the update loop sees every epoch, neighbours in the map are linked: else
\* the commit of the later one would be sent by its own timer and, empty, with
\* the reveal of the earlier one, in the same buffer (getRoundOrCreateIt).
NeighboursLinked ==
  Prompt =>
    \A r \in DOMAIN rounds :
      r - 1 \in DOMAIN rounds => rounds[r].prev /\ rounds[r - 1].next

\* A request that is found supported has a source manager, also when the route
\* was added after the round was created ("hot configuration updates"): the
\* client does not end for it (getSourceManager).
SupportedHasManager == pc # "noSource"

\* However refreshes overlap, when the files are no longer edited the routers of
\* a running client are in the end those of the files (refreshVerifierConfigs).
ConfigCatchesUp ==
  <>[](pc \in Running =>
         routers = {[start |-> c.start, router |-> c] : c \in Editions[edition]})
=============================================================================
