# Attestation client: a TLA+ development

This directory holds TLA+ specifications of the attestation client suite, the
configurations that model-check them with TLC, and theorems about them checked
by the TLA+ proof system.  Paths below are relative to the repository's root;
`src/` in front of a path in `PROJECT.json` is that root.

## 1. The system

The suite lets a set of *attestation providers* agree, every 90 seconds, on
which attestation requests (payments, block heights, ... on BTC, LTC, DOGE, XRP,
ALGO) are true.  The agreement is a Merkle root stored by the `StateConnector`
contract on a Flare network.

```
 source chain node --> indexer --> database --> verifier server
                                                     ^ HTTP
 Flare chain  --events, blocks--> FlareDataCollector |
   StateConnector                   AttesterClient   |
   BitVoting                    AttestationRoundManager
      ^                            AttestationRound --> SourceManager
      |                                 |    \--> AttesterState (database)
      +--- Web3Functions (ticket lock) <+ FlareConnection
```

A *round* r collects requests in voting window r.  In window r+1 the provider
publishes a bit vote of the requests it can confirm, counts the votes of the
default set, and commits to the Merkle root of the requests that won.  In window
r+2 it reveals root and random.  One `submitAttestation` transaction per window
carries the commit of one round and the reveal of the round before.

### Inventory

| Component | Source (`src/`) | State | Operations | Hard parts |
|---|---|---|---|---|
| Attestation round | `attester/AttestationRound.ts` | requests and their statuses, bit votes, phase, status, root, random, masked root, links to neighbours | add a request, request verified, bit vote, close and count, prepare, abstain, submit bit vote, first commit, submit | every handler awaits; count and preparation are tried from several of them; timers, blocks and verifier answers interleave |
| Round manager, event collection | `attester/AttestationRoundManager.ts`, `AttesterClient.ts`, `FlareDataCollector.ts` | map of rounds, first round, next block, timers | find the start block, read blocks, create and link rounds, dispatch requests, votes and block times, clean up | handlers that wait for the initialisation of their round, restart |
| Round storage | `attester/AttesterState.ts` | `DBRoundResult` | save and read root and random | overlapping saves, failed saves, restart |
| Flare connection, sequencer | `attester/FlareConnection.ts`, `utils/helpers/Web3Functions.ts` | tickets, nonces | submit, wait for the receipt | time-outs of waiting calls, replaced transactions |
| Source manager | `attester/source/*.ts` | queue, priority queue of retries, set in process, counters, timer handle | verify, answer, retry, limits | re-entrant synchronous calls, timers |
| Configuration and routing | `attester/GlobalConfigManager.ts`, `verification/routing/VerifierRouter.ts` | configurations by first round, routers by hash | look-up, refresh | refreshes that overlap, rounds older than a configuration |
| Bit vote count | `choose-subsets-lib/*.ts` | none | intersect, count, choose | encoding, ordering |
| Data structures | `utils/data-structures/*.ts` | heaps, queues, trees | push, pop, proof, verify | boundaries |
| Contracts | `contracts/StateConnector.sol`, `StateConnectorTempTran.sol`, `BitVoting.sol` | votes in a ring of 3, roots in a ring of a week | submit, read, finalise | stale ring slots |
| Finalizing bot | `state-collector-finalizer/*.ts` | last round finalised | count the revealed roots, finalise | missed windows, failed transactions |
| Indexer | `indexer/*.ts` | N, T, prepared blocks, processors, two transaction tables | read, process, save, sync, change tables | forks, crash between saves, parallel processors |
| Block headers | `indexer/headerCollector.ts`, `UnconfirmedBlockManager.ts` | cache of headers, rows of unconfirmed blocks | list tips, count confirmations, save | a table shared with the main loop |
| Caching, limiting | `caching/*.ts` | caches, rate limited queues | fetch, pause, resume, clean | two loops, stale entries |
| Indexed queries, verifiers | `indexed-query-manager/*.ts`, `verification/**` | none of their own | encode and parse a request, confirm it in a window, answer, judge | data of two moments, two verifiers that differ |
| Servers | `servers/**` | caches of rounds | prepare and verify requests, page through blocks, serve proofs | tables that change places, caches that are never renewed |
| Monitor, spammer, admin, install, code generation | remaining directories | connections, files | display, generate | none of the kinds treated here |

### What makes each component correct

* **Round.** What is revealed opens what was committed; only verified requests
  are voted for or committed; a commit has the whole voting result or nothing;
  an abstention is never a vote; a round whose votes can be counted is counted.
* **Sequencer.** Every call returns and hands on exactly its own turn; no two
  transactions are in progress together; no nonce is signed twice.
* **Source manager.** No attestation is lost, doubled, or processed after its
  final status; only retries exceed the limits; something always wakes what waits.
* **Contracts and bot.** A stored root is the one a majority revealed; a reader
  gets the root of the round it asks for or an error.
* **Round manager.** Every request since the start is listed, every bit vote in
  time is registered, neighbouring rounds share a submission, and an edited
  configuration takes effect without ending the client.
* **Indexer.** Tables, N and block table agree after any crash; only confirmed
  blocks of the main chain are saved, each once and without gaps.
* **Block headers.** No block is confirmed by more blocks than there are on it,
  and none is forgotten.
* **Block processors.** No order of pauses and resumes strands the block that is
  wanted.
* **Verifiers.** An answer is true of the chain; what one verifier prepares no
  other calls invalid; nothing else is valid.
* **Proof server.** An answer with results has all that was committed, and leads to
  the root, whenever the client saves.

`PROJECT.json` lists the hazards by line, with the properties that watch them.

## 2. Modules

| Module | Models |
|---|---|
| `TxSequencer`, `TxSequencerProofs` | `signAndFinalize3Sequenced` |
| `AttestationRound`, `MCAttestationRound`, `AttestationRoundProofs` | rounds, their timers, storage and submissions |
| `SourceManager`, `MCSourceManager`, `SourceManagerProofs` | the verification queues of one source |
| `StateConnector`, `MCStateConnector`, `StateConnectorProofs` | the contract's rings of votes and roots, the finalizing bot |
| `BitVoteCount`, `MCBitVoteCount`, `BitVoteCountProofs` | the bit vote of one round at all providers, and the choice of the set |
| `Indexer`, `MCIndexer`, `IndexerProofs` | syncing, processing, saving and restarting of the indexer of one chain |
| `IndexedChain` | what an indexer promises: the abstract specification that `Indexer` implements |
| `AttestationTypes` | definitions, bytes, hashes and classes of requests and responses |
| `IndexedQueries` | the queries on an indexer's database |
| `Verification`, `MCVerification`, `VerificationProofs` | preparing, submitting, verifying and judging one request at two verifiers |
| `VerifierServerTypes`, `WebServerTypes` | the classes generated for the two servers |
| `Client` | rounds made of Flare blocks and events, and configurations that are edited |
| `Headers`, `MCHeaders` | the header collector beside the main loop, on the blocks of a chain with forks |
| `BlockProcessing` | the block processors of a UTXO chain and their shared client |
| `MerkleTree`, `ProofServer` | the tree and its proofs, and the server that gives them out |
| `MCServices` | `Client`, `TxSequencer`, `Headers`, `BlockProcessing` and `ProofServer` side by side |
| `ServicesProofs` | the theorems about `Client`, `Headers`, `ProofServer` and its `MerkleTree` |

The modules meet where the components do.  `Client` says in which order a round
gets its requests and votes, `SourceManager` when a request is verified,
`Verification` what the answer is worth.  `AttestationRound` has the round itself; its
`tally` is what `BitVoteCount` computes, its transaction is a call of
`TxSequencer`, and what it puts on the `board` is the vote whose ring
`StateConnector` keeps.  What it saves of a round `ProofServer` reads.  `Indexer`
implements `IndexedChain`; the indexers inside `Verification`, which only save the
next block and drop the older table, are that promise with two tables, and
`Headers` has the other writer of the block table.  `BlockProcessing` is the
inside of a processor that `Indexer` has only a state for.

An `MC` module adds what TLC needs (symmetry, a state constraint); a `Proofs`
module the theorems.  `Mutation of X` operators in a module are deliberately
wrong variants of X: with X replaced by one of them the property it is listed
with in `PROJECT.json` fails, so the property does depend on X.

### TxSequencer

A call is a member of `Calls`.  `nextIndex`, `currentIndex` are the code's;
`callState` is where the call is in the function.  `Start` is the code up to the first
await.  `Turn` and `TimeOut` are the two ways out of the polling loop, `GetNonce`,
`Submit`, `Fail`, `Finalized` and `ResponseTimeout` the inside of
`_signAndFinalize3`.  Every return goes through `Return`, the `finally` block.
The Flare node (`Mine`, the pool) is external.

### AttestationRound

JavaScript runs one handler at a time until its next `await`.  Each handler is
therefore one action for its synchronous part; the counters `saving`, `drawing`,
`abstaining` of a round and the `stage` of a submission say how many runs are
suspended at which await, and the continuation is an action of its own.

* `timer[r]` is the next timer of round r.  A voting window has five instants
  at which timers are due, and `AdvanceClock` waits for the timers due; a round
  that has completed has none.
* `rd[r]` is the `AttestationRound` object, `sub[r]` the submission that carries
  the commit of r, `db` the database, `tx` and `board` the transactions sent and
  the votes the contract holds.
* A Merkle root is the set of its leaves and `commitHash` a record, so hashing
  is injective; randoms are numbered as drawn.
* The count of the bit votes is abstracted: `tally` is any set of requests, and
  changes with every vote read.
* `Crash` is a crash or `process.exit` at any moment; `Restart` is a new process
  that leaves the earlier rounds alone.

Two switches describe the environment.  `Prompt`: preparations and saves end
before the submission timers fire.  `ChainInStep`: local clock and Flare blocks
agree.  With both FALSE everything may be arbitrarily late.

### SourceManager

The methods call one another synchronously (`startNext`,
`updateDelayQueueTimer`, `process`, `onProcessed`, and `startNext` again in the
middle of a loop of `startNext`).  The order of assignments around these calls
matters, so the running call is a `stack` of what it has still to do, and each
call or turn of a loop is an action.  While the stack is not empty nothing else
happens and time stands still.  The heap is represented by its members, with any
order among equal keys.  `ProcessAttestation` may find no route, since the
verifier configuration is reloaded at any time.

### StateConnector

`submitAttestation`, `getAttestation`, `finaliseRound` and `merkleRoot` are the
contract's, over a ring of three votes for each provider and a ring of
`StoredProofs` roots.  A provider may vote in any window, several times or not at
all.  A commit hash is a record of the root and the window it was sent in, which
stands for its random.  The bot reads one vote per step, sends a transaction
that is mined in any later window or lost, and may be started again between any
two steps.  `finalised` is a ghost: the root each round was finalised with.

### BitVoteCount

A mask is its length in bytes and the positions of its ones, with position 0 the
highest bit of the first byte, as `BitmaskAccumulator` has it; shifting a shorter
mask, the order of hexadecimal strings, and that of numbers written in decimal
are modelled by what the string functions do to these.  Each provider reads
requests, votes for those it has verified, reads the chain block by block, and
counts when a block past the deadline is read, or when its timer fires
(`ForceClose`, remembered in `forced`).

### Indexer

`chain` gives the version of the block at each height; a version stands for the
hash.  The main loop is a `pc`; a processor is its block and state; a block that
is being read is in `fetching`, a call of `blockSave` is in `saves` with the
stage it has reached.  The database (`tables`, `dbN`, `bottom`) survives `Exit`.
The time of a block is its number, so that the limit on days and the limit on
blocks are one `TableRange`.  A processor that is paused or destroyed never ends
`initializeJobs` by itself: `Complete` is then what its calls already under way may
still do, and `TimesOut` the end of the process when ten retries of a minute each
are used up (`retryMany` and its `failureCallback`), after which it is started
again.

`IndexedChain` forgets all of this: the chain grows or is replaced above the
confirmed blocks, the next confirmed block is saved, and blocks before the last
`TableRange` are forgotten.  `ImplementsIndexedChain` is `Indexer` with the blocks
in either table for `saved` and N of the database for `last`.  It says in
one that N goes up by one, that saved blocks are final and that the history is kept,
which are theorems of their own, too.

### AttestationTypes, IndexedQueries, Verification

A request is a record of small numbers; its bytes are a sequence in which each field has
its width, so that cut, lengthened and changed bytes mean what they mean to the
parser.  A hash is a number that tells apart the values of an instance.  A database is
a record of the block table and the two transaction tables, and a query of several
statements is one operator for each.  A sorted page of rows, like the sorted leaves of
`MerkleTree`, gives each element the place that is the number of elements before it:
that is what sorting promises, whatever the algorithm.  In `Verification` one request
goes its way: verifier 1 prepares it for the code (`PrepareAttestation`, or one of the
random generators), it is submitted as it is or changed (`Submit`), verifier 2 answers
(`VerifyAttestation`), and the attestation client judges (`Judge`).  `Read` is one
statement on the database; between statements the indexer of the verifier at work may
save a block (`SaveBlock`) or drop its older table (`DropTable`).  The two indexers
have different blocks and different tables.  All five sources and four types are
dispatched as the routing files do.  Payment and balance summaries come from the
external `flare-mcc` library, modelled by what the verifiers read of them.  What the
verifiers rely on is in `IsChainOfBlocks` and `PaysOneAddress`: times do not decrease, a
transaction is in one block, and on chains without outputs one address receives.

### Client

`ReadBlock` is the collector's handling of a block: all its requests, all its votes,
then its time, as the events are sorted.  A request is known by its place, the number of
its block and its place in the log; `AddAll` adds the requests of a block one after
another, as their handlers run.  A request whose round is not initialised
yet goes to `waiting`, and `RequestContinues` is the rest of its handler.
`StartRoundUpdate` and `RoundUpdated` are a turn of the loop that creates rounds,
before and after its await.  A configuration is its first round and the pairs it
has a route for; `EditFiles` is an operator, `Refresh` and `Refreshed` a run of
`refreshVerifierConfigs`, of which several may overlap.  The process ends in `pc`
with the reason.  With `Prompt`, calls to the Flare node end within a unit of time.

### Headers

The collector lists the last blocks of all branches (`ListTips`), loads the rows
above N (`LoadRows`), looks at one block after another (`Walk`), and saves what it
changed (`SaveRows`).  The main loop's save is `BlockSave` in the database and
`UpdateN` in memory.  An entity's field is the value it was loaded with, or
`Undefined` when it was never set, which `save` leaves alone; it writes a `Null` that
was loaded.

### BlockProcessing

A processor has a queue of jobs, and as many loops on it as `resume()` has started
that have not ended (`loops`).  `LoopTurn` is a loop that awakes.  `Process` is
`BlockProcessorManager.process`, `Switch` its resuming of one processor and pausing
of the others, `Answer` the client's answer, `Stop` the end of a block that is read.

### MerkleTree, ProofServer

The tree is the array of the code, over hashes in the order of their digits; a pair's
hash is the set of the two.  A call of the proof service stops at each query
(`ResultsRead`, `RequestsRead`, `MaxRoundRead`) and fills the cache with what it got.
The attestation client is the writer: a row for every request it has processed, chosen
or not, whenever its verification ends; and the rows of the chosen requests once for
each preparation, which starts in the commit phase and whose save may end at any time
after.  Neither waits for the server, nor the server for them.

## 3. Runs

| Run | Shows | Bounds |
|---|---|---|
| `rounds` | reveals open commits, or are of a round before a restart and have the committed root; abstentions never count, a commit is a whole and verified vote or nothing, a count waits only for a verification | 3 rounds, up to 2 requests in the first of them, one crash and restart at any moment; preparations prompt |
| `round_late_preparation` (violation) | see section 6 | the smallest instance that shows it |
| `source_retries` | one place at a time, a waiting queue is woken, only retries exceed the limits | 3 attestations, one retry each, 6 ticks |
| `source_once` | a final status for every request, without retries | 3 attestations, one in process at a time, three deadlines |
| `source_stall` (violation) | see section 6 | 2 attestations |
| `connector` | a finalised root stays, had a majority when it was mined, and is read back for as many rounds as the ring has slots; an old vote counts only after a gap of two windows | 2 providers, 6 windows, a ring of 2 roots, one transaction of the bot under way |
| `bit_vote` | providers that count when the chain says so agree; none ends; what is chosen was confirmed by half, and no half agrees on more | 3 providers, 3 requests in bytes of 2 bits, 2 blocks |
| `indexer` | one save at a time, no gaps in the tables, `IndexedChain` is implemented, all confirmed blocks are saved in the end | height 6, 2 confirmations, tables of one block, 3 blocks read ahead, one reorganisation, one crash |
| `verification` | answers are true, prepared requests are confirmed and only those, bytes keep a request, pages are complete, the engine agrees with itself | two chains of 5 blocks, 5 sources, up to 18 requests and the random ones, 5 ways to submit |
| `services` | of the client: requests listed, votes registered, neighbours linked, no supported request without a manager, configurations catch up; of headers: confirmations bounded, rows for all that was listed; of processors: the current block completes; of the sequencer: exclusion and unique nonces until a call times out, start in ticket order, every call returns; of the proof server: what is served was committed | see below |
| `headers_race` (violation) | see section 6 | 4 blocks, no crash |
| `proofs_stale` (violation) | see section 6 | as `services` |

`services` has five parts that share nothing one of them changes under another; a
variable `part`, chosen at the start, says which of them moves, so that the run has the
sum of their states and not the product.  The client has two-second epochs to time 4,
three Flare blocks of up to two events, one member, and three editions of the
configuration, the last while the chain is short.  Headers: two blocks, and forks of
one and of two blocks on them, 2 confirmations, one crash.  Processors: two forks at
one height and a block above, a limit of one active call, three switches.  Sequencer:
three calls, with deadlines before and after the clock's end, so that any of them may
give up in any order.  Proof server: two rounds, the first with one to three chosen of
three requests that are processed, the second only there to be a later one with
results; each prepared up to twice, two calls at a time, three epochs.  `Client`,
`Headers`, `ProofServer` and `TxSequencer` are extended, so that TLC evaluates their
assumptions.

**Why the bounds are enough.**  A transaction ties together two neighbouring rounds,
and a restart a third; three rounds have a first, a linked and a last one.  A second
request is what lets two preparations of one round overlap (one from the last
verification, one from the commit timer or the close); it is in the first round, and
then in no other (`FewRequests`), so that the crash, which may come at any moment, meets
two preparations of the round that the next process reveals.  The last round is without
requests (`LastRoundEmpty`): its reveal lies outside the model.  Two retries are the
least that can share a timer, and a third attestation is then left in the queue.
Deadlines and clocks are chosen so that each attestation can be on time, late, and
overdue together with another.  Six windows let a vote become as old as the ring of
three lets it count, and finalise three rounds in a ring of two.  With bytes of two
bits three requests make one byte or two, so masks of both lengths meet; three providers
are the least where half of them is not all.  Two blocks may have the same time, or lie
on both sides of the deadline.  Tables of one block change at every second block, so
six blocks see four changes, the first ones before and the last ones after a crash; a
reorganisation reaches every block that is not confirmed.  Five blocks of a
verification have two of equal time, a payment in one output or two, one that failed,
one in a token and one past the deadline; the requests of each type lie in, at and
outside the window.  Two epochs of the client have a start block before, at and after
the first epoch, a round before the start, one created by the loop and one created by a
request.  Forks of different length on a common block give every order of parent and
child.  A fork at one height is the least that makes processors take turns, and three
switches pause a processor, resume it while its loop sleeps, and pause it again.
`CHECK_DEADLOCK FALSE` is given where the model's time ends, or where all calls have
returned.

**Fairness.**  `TxSequencer`: the event loop runs every poll and continuation of
a call (weak fairness of `CallStep`); nothing makes the node mine.  Only
`EveryCallReturns` uses it, and only for behaviours in which no waiting call
reaches its deadline.
`SourceManager`: the event loop finishes a synchronous call, runs due timers,
time passes, and the verifier's HTTP request answers or fails, since axios has a
time-out.  Time and answers are strongly fair, as a heartbeat that starts itself
again stops neither.  New requests are never assumed.
`Indexer`: the chain grows to the bound, the main loop, the save steps and the
reads of blocks go on, active processors complete, and retries run out, since all
of these are awaited calls with a time-out (`utils/helpers/promiseTimeout.ts`);
the supervisor starts the process again.  Crashes and reorganisations are
bounded, never required.
`Client`: the interval timer starts refreshes and their files are read
(`ConfigCatchesUp`); edits are bounded.  `BlockProcessing`: loops awake, calls are
answered or end the process, a block that is read completes (`CurrentCompletes`);
nobody has to resume a processor.

## 4. Proofs

Proved for all values of the constants that satisfy the modules' named
assumptions (`SequencerAssumption`, `RoundAssumption`, `SourceAssumption`,
`ConnectorAssumption`, `VoteAssumption`, `IndexerAssumption`, `ClientAssumption`,
`HeadersAssumption`, `VerificationAssumption`, `ProofServerAssumption`).  These say
what the constants are and nothing about the runs of the code.  Each module asserts its
own, and TLC evaluates them on every instance.
What a theorem assumes beyond them is in its statement, and named below.

Every safety invariant of the runs, but for `ValidWasPrepared`, is the property of a
theorem:

| Component | Properties proved, with their hypotheses |
|---|---|
| `TxSequencer` | `OneAtATimeUntilTimeOut`, `NonceSignedOnce`, `StartsInTicketOrder` |
| `AttestationRound` | `OnlyVerifiedSubmitted`, `WholeVoteOrNothing`; `CountWaitsOnlyForVerification` (`ChainInStep`); `AbstentionNeverCounts` (`Prompt`); `RevealMatchesCommit` (`Prompt`) |
| `SourceManager` | `InOnePlace`; `QueueHasWakeUp` (`MaxProcessing > 0`); `LimitsExceededOnlyByRetries` |
| `StateConnector` | `RecentRootsReadable`, `StaleOnlyAfterGap`, `FinalisedOnce`, `FinalisedByMajority` |
| `BitVoteCount` | `ResultsAgree`, `NoExit`, `ChosenAreConfirmed`, `BestCandidateChosen` |
| `Indexer` | `OneSaveAtATime`; `TablesContinuous`, `ImplementsIndexedChain` (`EmptyBlocks = {}`) |
| `Client` | `RequestsListed`, `VotesRegistered`, `NeighboursLinked`, `SupportedHasManager` |
| `Headers` | `ConfirmationsBounded`, `ListedHaveRows` |
| `ProofServer` | `ServedAsCommitted` |
| `Verification` | `AnswerIsTrue`, `PreparedIsConfirmed`, `RoundTrip`, `PagesAreComplete`, `EngineAgrees` |

How they are proved:

* **TxSequencerProofs.**  Type correctness; `TicketsAccountedFor` by counting:
  `nextIndex - currentIndex` is the cardinality of the set of active calls, each
  step moves both by one.  Ticket order rests on `TicketsOrdered` (tickets of
  waiting calls lie below `nextIndex` and differ), exclusion on `TurnsInOrder`
  (without a time-out a call in progress has the ticket `currentIndex`), unique
  nonces on `NoncesUsed`.
* **AttestationRoundProofs.**  The invariant `Inv` strengthens the safety properties to
  every place where a root can be held: the round's own fields, the pending saves, the
  database, the submission's pending write, the transactions and the board hold only
  confirmed requests; a chosen set is the tally or empty, and so is every root made of
  it; a submission in stage `sent` fixes the tally.  The properties are not inductive
  without these, since a root passes from one place to the next.  There is one lemma
  for each handler. `WaitInv` is the invariant of the count: until its commit timer a
  round's vote is closed by no block, because the blocks keep step with the clock, and
  from then on each event that could let the votes be counted counts them. `TimeInv`
  says where in its window each timer, submission and transaction is, which is what
  makes "before" and "after" speakable: no timer is missed or early, the rounds of a
  process have no gaps, a submission is under way in its own window only.  `PromptInv`
  stands on it.  Its `DataInv` says that of root, random, masked root and status of a
  round each fits the others at every await, and that no second preparation is under way
  when the commit has been sent; `CarriesRound` and `OwnReveals` carry that over to the
  transactions.  `OwnRevealsMatchCommits` is what follows for a process that has itself
  committed.  A process that started later reveals what the database has, which may be
  of another preparation than the commit.  `SaveInv` is about that record, and every
  write on its way to it.  `RecordsCommitted`: each that is not zero has the root the
  process stands for, and once the commit is sent its root.  It is inductive because of
  `PhaseInv`, which says that nothing is prepared or voted on before its time, so that a
  give-up finds no root already recorded.  `RootsMatch` is the same of the transactions
  sent, and with `OwnReveals` gives `RevealsMatchCommits`, for any number of restarts.
* **SourceManagerProofs.**  `IInv` is `TypeOK` with `InOnePlace`; the lemmas about
  sequences say what replacing the top frame of the stack does to the frames below,
  since the proof that an attestation is in one place has to count its frames.
  `QueueHasWakeUp` speaks of moments without a running call; `WakeInv` has to say what
  holds in the middle of one.  There a queue that waits has a wake-up, or a frame of
  the stack that will start the loop or is that loop; when nothing more may be started
  now, something under way will try again, and a handle is that of a timer that will
  fire. With `MaxProcessing = 0` a queue would wait for ever.  `LimitInv` says that a
  `process` of a request that is not retried is always called right after
  `canProcessNext` held, with nothing in between that starts another.  That is not so
  for retries: `startNext` collects them in a list before it processes any, and an
  update of the timer comes between, which may start other verifications.
* **StateConnectorProofs.**  `RootsInv` adds to `RecentRootsReadable` that no round
  ahead of `totalBuffers` is finalised; it is inductive because two rounds less than
  `StoredProofs` apart have different slots, which is a lemma of arithmetic.
  `VotesInv` ties what the bot has read, and what its transactions carry, to the
  rings: within a window a vote that attests cannot be replaced, since only the slot
  of the current window is written.  So the count made before the transaction was
  sent still holds when it is mined in the same window, and in any other window it
  is refused.  `StaleInv` says that a commit is in the slot of its window and that the
  latest vote reveals for the window before; of the windows with the slot of
  w - 2, the last before it is w - 5.
* **BitVoteCountProofs.**  `ResultsAgree` for any number of providers, requests and
  blocks.  The invariant `VoteInv` says that a provider that was not forced has counted
  at the first block past the deadline, over exactly the votes of the blocks before
  it.  The chain is only appended to, so two such providers counted the same votes.
  `ChosenInv` is about what was chosen.  Whoever reads a vote has read the whole list
  (`ListedFirst`), and every vote is a mask of that list (`SentInv`), so no vote has
  ones beyond it, with the timer as well.  `ChoiceInv` keeps a group behind each
  choice: half the default set, and all of it with ones for what was chosen.
  `BestCandidateChosen` needs in addition that among candidates whose counts have one
  digit the order of the strings is the order of the counts.
* **IndexerProofs.**  All safety properties of the indexer.  `SaveInv` says that a
  save is of the confirmed block the main loop has found, by the loop or by the one
  processor of that block it waits for, and that meanwhile nothing changes N or
  the hash: hence one save at a time and the next block only.  `FinalInv` adds that
  stored blocks are confirmed, which no reorganisation reaches.  `TablesInv` says
  that the tables hold one range, which part of it each holds, and how far off the
  next change is, in each of the stages running, dropping a table, and down.  The
  theorems about the tables assume `EmptyBlocks = {}`: with an empty first block of a
  table they are false (section 6).  That a set of naturals has a least element,
  which `Min` needs, follows from the library's theorem about well-founded relations.
* **The refinement** (`IndexerImplementsIndexedChain`, under the same assumption).  Each
  step of `Indexer` maps to a step of `IndexedChain` or to a stutter: mining and
  reorganising to `Extend` and `Replace`, which `FinalInv` keeps from saved blocks;
  the commit of a save to `Save`, since `SaveInv` says that the block is the next one and
  `TablesInv` that it is not there yet; dropping a table to `Forget`, since `TablesInv`
  says that at least `TableRange` blocks remain.  Everything else leaves the tables
  and N of the database as they are.
* **ServicesProofs: Client.**  The logs, times of blocks and editions of the
  configuration are any that the assumption allows.  `BaseInv` has the types and two
  facts on which the rest depends.  `LagInv` says that whatever is still to be read, or
  waits, is of a round that `cleanup` has not reached: so no handler makes a round again
  that was taken out. `ReadBefore` says that what is listed was read before.
  `SourcesInv` says that every source has had its manager since there was a round, and
  that only pairs of these sources are queued.  `SeenInv` says which rounds the map has
  when calls are prompt: all up to the one before the current one, and these know their
  members.  From it follows `Neighbours`, since a round is only made as the last one,
  and that no vote in time finds its round without members: `VotesInv` then says that
  the last vote registered is the last one cast, block by block.  `OrderedInv` and
  `ListedInv` are the two halves of `RequestsListed`.  `AddAll` is a recursive
  function; that it exists, and what it adds, is proved by a least counterexample, since
  induction cannot be cited.
* **ServicesProofs: Headers.**  For any tree of blocks, finite or not.  `Before` and
  `Above` are recursive functions over blocks and over the entities of the manager;
  their existence is shown by an explicit witness (`ChainExists`), and what holds of all
  blocks by a counterexample with the least number (`FromParents`).  `HeldInv` says
  that the cache, and the part of a list that has been walked, stand for blocks with a
  row, passed by the main loop, or about to be saved; and that an entity left out of a
  save lies below all that are saved.  `CountInv` bounds the confirmations of rows by
  the blocks above them among the rows, and those of entities by the entities.  It is
  inductive because the rows above N that are loaded include all that is above one of
  them, a block that is added is above exactly the ones that count it, once, and, by
  `HeldInv`, a saved entity finds the blocks above it in the table.
* **ServicesProofs: ProofServer.**  For any number of hashes, rounds and calls.  First
  the tree: `TreeIs` says what the array holds, a leaf or the hash of the two nodes
  below, for every number of leaves; `NodesLead` that the proof of every node leads from
  it to the root, from the root downwards, since the proof of a child starts with its
  sibling and goes on as that of the parent; `ProofsLead` that each value has its proof
  and `verifyWithMerkleProof` accepts it.  All three are about recursive functions,
  whose existence is shown by a witness.  `TreeIs` rests on the order of `build`, from
  the end of the array, and `ProofsLead` on the leaves being the values sorted without
  repeats, so that the order and the repeats of saved rows do not matter.  Then the
  server: `ResultsChosen` says that the
  rows of results are the chosen requests or, as yet, nothing, however often and late a
  preparation is saved, because one save writes all of them; with `ProofsLead` each
  answer that has rows is the whole of what was committed and opens its root, though
  requests are saved all the time and the cache is never renewed.  `ServerInv` has these
  with the types, and that nothing is looked up before its reveal phase.
* **VerificationProofs.**  For any chains, requests, histories of the two indexers, and
  any saves and changes of tables between the statements of a call.  `IndexersInv` says
  that an indexer has a range of blocks and its tables some of them.  `ReadInv` says
  what has been read at each await: a row that was found is that of its block, the rows
  of transactions are wanted ones of the chain, and all that a table still holds, up to
  the block that limits the question, are among them.  The limit lies below N, which
  only grows, so saves in between do not matter; a table that is dropped in between
  loses rows, which is why the answers depend on `Held`.  `RequestInv` says that the
  bytes on their way are those of the request, and what is known of each answer
  (`AnswerFacts`): from it `AnswersAreTrue` follows by cases of type and status.
  `PreparedAreConfirmed` compares two such facts: both verifiers found the same
  transaction, or the same last block before the window, or no payment, so they computed
  the same response and hash. `RequestsReturn` is the arithmetic of bytes: a number
  below 2^31 is the sum of its bytes by weight, a field starts where those before it
  end, and a byte string of another length fails.  `EnginesAgree` says that the first
  block from a time on is the one after the last block before it, since the saved blocks
  are a range and times do not decrease. `PagesComplete` needs `TablesInOrder`, another
  invariant: the blocks of the table filled first are before those of the other.  So
  the two ordered tables one after the other are the ordered union, each call returns a
  slice of it that starts at `offset` and is not empty before the end, and slices that
  start where the last one ended make up the whole.

The theorems of `VerificationProofs` take from `VerificationAssumption` what the code
takes from the chains: without it `AnswerIsTrue` is false, as times that decrease make
`LastBefore` wrong, and two receiving addresses on a chain of accounts make the
library's summary differ from what a payment asks for.

Types are not checked by a run of their own where a theorem proves them.

The inductive invariants were checked by TLC on the instances of the runs before they
were proved.  Those of `Verification` have quantifiers that TLC cannot evaluate; of
them it checked `IndexersInv` and `TablesInOrder`.  Attempts at a proof changed the
specifications in several places.  `TimeInv` did not hold of a completed round:
`AdvanceClock` took the number after its last timer for one that is due, and stopped the
clock three windows after the first round.  The guard now asks only for timers that
there are, which nearly doubled the states of `rounds`; all its properties hold in them.
`VoteAssumption` now says that no set of requests is the
value `Exit`.  And `Client` no longer collects the requests of a log in a sequence of
their own, but adds them by their place in the log.  In `Verification`:

* `PreparedIsConfirmed` did not hold as it was stated.  Verifier 1 itself may have
  dropped the table with a payment when it answers that there was none; verifier 2,
  which still has it, then rejects the request.  TLC finds such a case in the instance
  of the run, and the property now asks that verifier 1 holds what the request needs as
  well.
* The dispatch by source and type was a CASE whose guards overlapped for a request of
  another source, so that it was free which one counts.  It is now an IF in front of the
  CASE, as in `verifier_routing.ts`; and a type without a name, which the code refuses,
  has a case of its own.
* `Fits` took a negative number for one that fits; `toUnprefixedBytes` refuses it.

Only model-checked:

* Liveness (`EveryCallReturns`, `EveryRequestProcessed`, `CatchesUp`, `ConfigCatchesUp`,
  `CurrentCompletes`): fairness and ENABLED are beyond the prover.
* `ValidWasPrepared`: a request is valid when its code is the hash of the response, so for
  arbitrary constants the property is false.  Two responses may have one hash, and a
  submitted code may be right by chance.  In the instance hashes tell apart all responses
  there are, and no submitted code is one of them by chance.

## 5. Not modelled

* The retry wrapper around `submitAttestation` in `FlareConnection`: a
  submission sends one transaction.  A repeated one is another call of `TxSequencer`,
  with the same commit and the same reveal.
* A failed save of voting results: the client catches it and commits all the same.
* `StateConnector.updateAttestorAddressMapping` (every provider votes from its own
  address), the contract's events, and `BitVoting`, which only emits one.
* Of the indexer: the choice of the first block by bisection, the commands that reset
  the database, the validation of XRP blocks (with it two processors of one block are
  possible, `blockProcessorManager.ts:121`), the collector of chains without forks,
  which only writes their height.
* What `CachedMccClient` holds and when it cleans up; rate limits of calls.
* Of configurations: the global one is fixed; refreshes that fail; URLs and keys.
* Of the servers: system status and single proofs of the web server, API keys,
  connections, the monitor server.
* Gas, fees, logging, monitoring, and of transactions what no verification reads.
* Components with status `not_modelled` in `PROJECT.json`, with the reason there: they
  poll and display, generate text or test traffic, read files or run shell commands.

## 6. Where code and documentation disagree

Four disagreements are runs that TLC refutes, with the quoted line in
`PROJECT.json`:

1. A preparation that ends after the submission replaces what will be revealed
   (`round_late_preparation`).
2. The later of two retries may be left without a timer (`source_stall`).
3. The header collector writes rows it loaded before the main loop confirmed their
   blocks, and takes the confirmation away (`headers_race`).
4. The server for proofs never reads a round again that it has cached, since "they do
   not change", while the client saves requests whenever their verification ends, and
   results when a late save ends (`proofs_stale`).  A round whose results are saved
   after those of a later round stays cached as empty; a call that found no rows can
   even replace the answer of a later call by an empty one. `ServedAsCommitted` is what
   remains: an answer with results is whole.

Others show in the form of the properties that hold instead of the documented
ones, or in what an instance leaves out.

Rounds and voting:

* A waiting call that times out hands on a turn it never had, so transactions
  exclude one another only until then (`OneAtATimeUntilTimeOut`).
* Two preparations of a round that overlap save two pairs of root and random; a
  process that starts after the commit may reveal the random that was not committed.
  `RevealMatchesCommit` says of such a round that the root is the committed one.
* A block past the choose phase closes the bit vote although the local clock may
  still be in that phase; the count is then refused (`AttestationRound.ts:303`), and a
  round with nothing left to verify has nobody to try it again.
  `CountWaitsOnlyForVerification` is checked with clock and chain in step.
* A client that disagrees with the vote abstains, where the documentation
  (`docs/attestation-protocol/bit-voting.md:18`) has it reject.
* The status of a round may go from error back to revealed, where
  `AttestationRoundEnums.ts:9` has it never go back.
* The first request of a second is not counted, so one more is sent than the limit
  (`FirstRequestsLimited`).
* Retries that are overdue together are all started, whatever the limits, where
  `SourceManager.ts:65` has the "maximal number of transactions that can be in processing
  simultaneously"; one retry is the default (`VerifierSourceRouteConfig.ts:32`).
  `LimitsExceededOnlyByRetries` says that nothing else exceeds them.
* `merkleRoot` takes every round below `TOTAL_STORED_PROOFS` for readable for ever,
  and the slot of a missed round keeps an older root, so it may return the root of
  another round (`src/contracts/StateConnector.sol:157`); `RecentRootsReadable` is what
  remains.
* A provider that returns after two missed windows may attest with a commit of an
  earlier round (`StaleOnlyAfterGap`).
* The finalizing bot's counter starts at 0, so it asks for one vote more than the
  threshold (`FinalisedByMajority` holds with a vote to spare).
* `candidates.sort()` compares pairs as strings: nine ones win over ten.  Where the
  documentation asks for the vote with the most ones (`subsets-lib.ts:94-102`),
  `BestCandidateChosen` has the condition that counts have one digit.
* Shorter masks are filled up on the left, which moves their ones to later requests,
  where `BitmaskAccumulator` has them padded by zeros at the end; hence `SameLength`
  in `ChosenAreConfirmed` and `BestCandidateChosen`.
* Requests that await the initialisation of their round are listed in the order in
  which the node answers, not in that of the chain (`Attestation.ts:14`):
  `OnlyWaitingOvertaken`.
* Bit votes read before the round is initialised are dropped, and rounds are linked
  only to one that is there: `VotesRegistered` and `NeighboursLinked` hold for `Prompt`.
* `FlareDataCollector.eventComparator` is never negative for two events of a block, so
  `sort` leaves them as they come, StateConnector before BitVoting, where the comment
  (`FlareDataCollector.ts:87`) has them sorted.
* Deleted rounds stay reachable through the links of their neighbours, where the
  clean-up's comment has them freed (`AttestationRoundManager.ts:364`).
* An older refresh that ends last is seen until the next one; a refresh that has no
  configuration for a live round ends the client at its next request.
  `VerifierRouter.initialize` is not awaited.

Indexing:

* In the indexer a block that was read ahead and arrives late pauses the processor
  that `trySaveNp1Block` waits for; only the end of the process, after about ten
  minutes, frees it.  `CatchesUp` holds because of that restart.
* After a restart the indexer may write to the older of its tables when the first
  block of the newer one had no transactions: the row that stands for it has no
  timestamp (`interlacing.ts:81`).  Hence `EmptyBlocks = {}`.
* With the validation of XRP blocks two processors of one block may be created and be
  active, where "only one block processor can be active"
  (`blockProcessorManager.ts:82-92`).
* The processors of Algorand pause when they are done, and never count as completed.  A
  loop of a destroyed processor that was active goes on awaking for ever.  `canAccept`
  lets one call more than the limit pass, and `vinVoutAt` asks the client behind the
  cache.  A pause and a resume within a sleep leave two loops, which do no harm.
* The caches of `CachedMccClient` may hold nearly twice `cleanupChunkSize` more than their
  size.
* A tip of which the node has only the header is stored with timestamp 0 and without
  its parent, and not read again when its branch becomes the main one.
  `clearOlderBlocksInCache` stops at a gap, which does no harm.

Verification and servers:

* Block rows outlive the transaction tables.  When a table is dropped a verifier may say
  that a transaction, or a payment, does not exist although it did: hence `Held` in
  `AnswerIsTrue`.
* `dataHash` looks for undefined values with `values.find`, whose answer for one it
  finds is `undefined`: the check never fails.
* Random requests for decreased balances on XRP get their sender after their code was
  made (`random-ar-00002:69-71`): the exception in `PreparedIsConfirmed`.
* Pages that go on by `limit`, not by what they got, miss rows at the boundary of the two
  tables.  With an empty table `getBlockRange` starts at 0.
* The last block before a time is found on the assumption that times do not decrease.
* A verifier that has dropped a table prepares a request for a payment that was not
  made, with the right code, where another one finds the payment: the hypothesis about
  verifier 1 in `PreparedIsConfirmed`.
* `systemStatus` takes the epoch before it awaits the last round.

## 7. Plan

Done: the sequencer, the round and the source manager, since a lost turn, a reveal that
does not open its commit, or a lost request each lose a round; what the
providers share (the contract and the bit vote); the indexer, its promise and the
verifiers that rely on it; then what surrounds them: events, configurations, headers,
processors, proofs.

Left:

1. An abstract commit and reveal that `AttestationRound` implements; `ValidWasPrepared`
   under a hypothesis that says which codes can be known.
2. The validation of XRP blocks and the start of the sync in `Indexer`.
3. Rounds of several providers with `StateConnector`.
