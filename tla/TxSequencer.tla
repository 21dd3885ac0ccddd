---------------------------- MODULE TxSequencer ----------------------------
(***************************************************************************)
(* The transaction sequencer of src/src/utils/helpers/Web3Functions.ts.    *)
(*                                                                         *)
(* Every transaction of the attestation client (bit votes and              *)
(* submitAttestation calls) goes through signAndFinalize3Sequenced, a      *)
(* ticket lock: a call takes the ticket nextIndex and polls until          *)
(* currentIndex reaches it, or until its deadline timeEnd has passed.  The *)
(* finally block increments currentIndex on EVERY return, the return of a  *)
(* call that gave up waiting included.                                     *)
(*                                                                         *)
(* One call is one member of Calls and runs once.  The Flare node is       *)
(* external: it counts the mined transactions of the account               *)
(* (accountNonce) and holds sent ones in a pool.                           *)
(***************************************************************************)
EXTENDS Integers, FiniteSets

CONSTANTS
  Calls,      \* the calls of signAndFinalize3Sequenced
  Deadlines,  \* the values timeEnd can take, in units of the clock
  MaxTime     \* bound on the clock

ASSUME SequencerAssumption ==
  /\ IsFiniteSet(Calls)
  /\ Deadlines \subseteq Nat
  /\ MaxTime \in Nat

VARIABLES
  timestamp,     \* getUnixEpochTimestamp()
  nextIndex,     \* the next ticket
  currentIndex,  \* the ticket whose turn it is
  callState,     \* where each call is
  waitIndex,     \* the ticket of each call
  timeEnd,       \* the deadline of each call
  nonce,         \* the nonce each call signed with
  accountNonce,  \* external: getTransactionCount of the account
  pool           \* external: the calls whose transaction waits to be mined

lock == <<nextIndex, currentIndex>>
account == <<accountNonce, pool>>
sequencerVars == <<timestamp, lock, callState, waitIndex, timeEnd, nonce, account>>

Sending  == {"nonce", "send", "poll", "mined"}  \* inside _signAndFinalize3
Returned == {"receipt", "failed", "timeout"}
PC       == {"idle", "wait"} \cup Sending \cup Returned

Active     == {c \in Calls : callState[c] \in {"wait"} \cup Sending}
InProgress == {c \in Calls : callState[c] \in Sending}

-----------------------------------------------------------------------------
SequencerInit ==
  /\ timestamp = 0
  /\ nextIndex = 0
  /\ currentIndex = 0
  /\ callState = [c \in Calls |-> "idle"]
  /\ waitIndex = [c \in Calls |-> 0]
  /\ timeEnd = [c \in Calls |-> 0]
  /\ nonce = [c \in Calls |-> 0]
  /\ accountNonce = 0
  /\ pool = {}

Goto(c, label) == callState' = [callState EXCEPT ![c] = label]

\* Mutation of Return: the turn is handed on after a success only.
ReturnOnSuccess(c, result) ==
  /\ Goto(c, result)
  /\ currentIndex' = IF result = "receipt" THEN currentIndex + 1 ELSE currentIndex
\* The finally block.
Return(c, result) ==
  /\ Goto(c, result)
  /\ currentIndex' = currentIndex + 1

\* Mutation of MyTurn: one ticket ahead.
MyTurnEarly(ticket) == ticket \in {currentIndex, currentIndex + 1}

\* waitIndex === currentIndex
MyTurn(ticket) == ticket = currentIndex

\* Mutation of Start: a new call starts when nothing is in progress, waiting
\* calls or not.
StartWhenFree(c, deadline) ==
  /\ callState[c] = "idle"
  /\ waitIndex' = [waitIndex EXCEPT ![c] = nextIndex]
  /\ timeEnd' = [timeEnd EXCEPT ![c] = deadline]
  /\ nextIndex' = nextIndex + 1
  /\ Goto(c, IF InProgress = {} THEN "nonce" ELSE "wait")
  /\ UNCHANGED <<timestamp, currentIndex, nonce, account>>

\* The synchronous prefix: take a ticket and start at once if it is its turn.
Start(c, deadline) ==
  /\ callState[c] = "idle"
  /\ waitIndex' = [waitIndex EXCEPT ![c] = nextIndex]
  /\ timeEnd' = [timeEnd EXCEPT ![c] = deadline]
  /\ nextIndex' = nextIndex + 1
  /\ Goto(c, IF MyTurn(nextIndex) THEN "nonce" ELSE "wait")
  /\ UNCHANGED <<timestamp, currentIndex, nonce, account>>

\* The polling loop finds that the turn of the call has come.
Turn(c) ==
  /\ callState[c] = "wait"
  /\ MyTurn(waitIndex[c])
  /\ Goto(c, "nonce")
  /\ UNCHANGED <<timestamp, lock, waitIndex, timeEnd, nonce, account>>

\* The polling loop finds that it is not its turn and the deadline has passed.
TimeOut(c) ==
  /\ callState[c] = "wait"
  /\ ~MyTurn(waitIndex[c])
  /\ timestamp > timeEnd[c]
  /\ Return(c, "timeout")
  /\ UNCHANGED <<timestamp, nextIndex, waitIndex, timeEnd, nonce, account>>

\* getNonce() has answered.
GetNonce(c) ==
  /\ callState[c] = "nonce"
  /\ nonce' = [nonce EXCEPT ![c] = accountNonce]
  /\ Goto(c, "send")
  /\ UNCHANGED <<timestamp, lock, waitIndex, timeEnd, account>>

\* getNonce, gasPrice, the signature or the node's answer is an exception:
\* caught in _signAndFinalize3, the caller gets no receipt.
Fail(c) ==
  /\ callState[c] \in {"nonce", "send"}
  /\ Return(c, "failed")
  /\ UNCHANGED <<timestamp, nextIndex, waitIndex, timeEnd, nonce, account>>

SameNonce(c) == {d \in pool : nonce[d] = nonce[c]}

\* The node accepts a transaction whose nonce is not used up; one with the
\* nonce of a transaction still in the pool replaces it.
Submit(c) ==
  /\ callState[c] = "send"
  /\ nonce[c] >= accountNonce
  /\ pool' = (pool \ SameNonce(c)) \cup {c}
  /\ Goto(c, "poll")
  /\ UNCHANGED <<timestamp, lock, waitIndex, timeEnd, nonce, accountNonce>>

\* External: the node mines the transaction with the next nonce.
Mine(c) ==
  /\ c \in pool
  /\ nonce[c] = accountNonce
  /\ accountNonce' = accountNonce + 1
  /\ pool' = pool \ {c}
  /\ callState' = [callState EXCEPT ![c] = IF @ = "poll" THEN "mined" ELSE @]
  /\ UNCHANGED <<timestamp, lock, waitIndex, timeEnd, nonce>>

\* waitFinalize3 returns: the transaction is mined and the nonce has grown;
\* a reverted transaction gives no receipt.
Finalized(c) ==
  /\ callState[c] = "mined"
  /\ \E result \in {"receipt", "failed"} : Return(c, result)
  /\ UNCHANGED <<timestamp, nextIndex, waitIndex, timeEnd, nonce, account>>

\* waitFinalize3 throws "Response timeout": the transaction stays in the pool.
ResponseTimeout(c) ==
  /\ callState[c] = "poll"
  /\ Return(c, "failed")
  /\ UNCHANGED <<timestamp, nextIndex, waitIndex, timeEnd, nonce, account>>

ClockTick ==
  /\ timestamp < MaxTime
  /\ timestamp' = timestamp + 1
  /\ UNCHANGED <<lock, callState, waitIndex, timeEnd, nonce, account>>

CallStep(c) ==
  \/ Turn(c)
  \/ TimeOut(c)
  \/ GetNonce(c)
  \/ Fail(c)
  \/ Submit(c)
  \/ Finalized(c)
  \/ ResponseTimeout(c)

SequencerNext ==
  \/ \E c \in Calls, d \in Deadlines : Start(c, d)
  \/ \E c \in Calls : CallStep(c)
  \/ \E c \in Calls : Mine(c)
  \/ ClockTick

SequencerSpec == SequencerInit /\ [][SequencerNext]_sequencerVars

\* The event loop runs every poll and every continuation; nothing forces a
\* call to be made or a transaction to be mined.
FairSequencerSpec == SequencerSpec /\ \A c \in Calls : WF_sequencerVars(CallStep(c))

-----------------------------------------------------------------------------
\* The variables hold values of their types.
TypeOK ==
  /\ timestamp \in Nat
  /\ nextIndex \in Nat
  /\ currentIndex \in Nat
  /\ callState \in [Calls -> PC]
  /\ waitIndex \in [Calls -> Nat]
  /\ timeEnd \in [Calls -> Nat]
  /\ nonce \in [Calls -> Nat]
  /\ accountNonce \in Nat
  /\ pool \subseteq Calls

NoTimeOut == \A c \in Calls : callState[c] # "timeout"
NoFailure == \A c \in Calls : callState[c] # "failed"

\* No two transactions are in progress together.
OneAtATime == \A c, d \in InProgress : c = d

\* What the code gives: as long as no waiting call has given up, no two
\* transactions are in progress together (signAndFinalize3Sequenced).
OneAtATimeUntilTimeOut == NoTimeOut => OneAtATime

\* The tickets handed out and not yet used up are exactly those of the calls
\* under way: no return path forgets to hand the turn on, or does it twice.
TicketsAccountedFor == nextIndex - currentIndex = Cardinality(Active)

Signed == {c \in Calls : callState[c] \in {"send", "poll", "mined", "receipt"}}

\* Two calls sign with the same nonce only after a call has timed out or
\* failed: otherwise getNonce() runs with every earlier transaction mined.
NonceSignedOnce ==
  NoTimeOut /\ NoFailure =>
    \A c, d \in Signed : nonce[c] = nonce[d] => c = d

Started(c) == callState[c] \in Sending \cup {"receipt", "failed"}

\* Transactions start in the order in which their calls were made, even when
\* some waiting calls give up and the turns of others come early.
StartsInTicketOrder ==
  [][\A c, d \in Calls :
       ~Started(c) /\ Started(c)' /\ Started(d) => waitIndex[d] < waitIndex'[c]
    ]_sequencerVars

\* "current index MUST be increased or everything stalls": as long as nobody gives up
\* waiting, every call gets its turn and returns, without a deadline to help it and
\* even when the transactions before it fail or are never mined: again and again no
\* call is under way (signAndFinalize3Sequenced).
EveryCallReturns == []<>(NoTimeOut => Active = {})
=============================================================================
