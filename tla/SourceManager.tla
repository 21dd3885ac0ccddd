---------------------------- MODULE SourceManager ----------------------------
(***************************************************************************)
(* The scheduling of verifications for one source:                         *)
(* src/src/attester/source/SourceManager.ts.                               *)
(*                                                                         *)
(* Attestations wait in a queue, are sent to the verifier, and after an    *)
(* exception wait in a priority queue for their retry.  The methods call   *)
(* one another synchronously (startNext, updateDelayQueueTimer, process,   *)
(* onProcessed and startNext again), which is where the order of the       *)
(* assignments matters.  The variable stack holds the calls and loops that *)
(* the running synchronous call has still to make: each is an action, and  *)
(* nothing else happens while the stack is not empty.                      *)
(***************************************************************************)
EXTENDS Integers, Sequences, FiniteSets

CONSTANTS
  Attestations,
  None,           \* no attestation
  MaxProcessing,  \* maxProcessingTransactions
  MaxPerSecond,   \* maxRequestsPerSecond
  MaxRetries,     \* maxFailedRetries
  Delay,          \* delayBeforeRetryMs, in ticks of the clock
  Second,         \* ticks to a second
  Deadlines,      \* the values of round.commitEndTimeMs
  MaxArrival,     \* bound: no request comes later
  MaxTime         \* bound on the clock

ASSUME SourceAssumption ==
  /\ IsFiniteSet(Attestations)
  /\ None \notin Attestations
  /\ MaxProcessing \in Nat
  /\ MaxPerSecond \in Nat
  /\ MaxRetries \in Nat
  /\ Delay \in Nat
  /\ Second \in Nat \ {0}
  /\ Deadlines \subseteq Nat
  /\ MaxArrival \in Nat
  /\ MaxTime \in Nat

VARIABLES
  clock,              \* getTimeMs
  requestTime,        \* the second of the last request to the verifier
  requestsPerSecond,  \* the requests counted in that second
  queue,              \* attestationsQueue
  delayed,            \* the members of attestationsPriorityQueue
  processing,         \* attestationProcessing
  att,                \* status, retry, commitEnd and startTime (its key in the
                      \* priority queue) of each attestation
  handle,             \* delayQueueTimer is not undefined
  handleTime,         \* delayQueueStartTime
  timeouts,           \* due times of the timers of updateDelayQueueTimer
  heartbeats,         \* number of pending heartbeat timers of startNext
  stack,              \* what the running synchronous call has still to do
  sent                \* history: first requests to the verifier in this second

quota  == <<requestTime, requestsPerSecond, sent>>
timers == <<handle, handleTime, timeouts, heartbeats>>
places == <<queue, delayed, processing, att>>
vars   == <<clock, requestTime, requestsPerSecond, queue, delayed, processing, att,
            handle, handleTime, timeouts, heartbeats, stack, sent>>

-----------------------------------------------------------------------------
SecondOf(t) == t \div Second

Final == {"valid", "invalid", "failed", "tooLate", "error"}
Status == {"initial", "queued", "processing"} \cup Final

Op == {"startNext", "priorityLoop", "queueLoop", "updateTimer", "clearTimer"}
Call(op) == [op |-> op, a |-> None]
Process(a) == [op |-> "process", a |-> a]
Frame == [op : Op, a : {None}] \cup [op : {"process"}, a : Attestations]

CanProcessInThisSecond ==
  \/ requestTime # SecondOf(clock)
  \/ requestsPerSecond < MaxPerSecond

CanProcessNext ==
  /\ CanProcessInThisSecond
  /\ Cardinality(processing) < MaxProcessing

\* The heads of the priority queue: the heap leaves the order of equal keys open.
Top == {a \in delayed : \A b \in delayed : att[a].startTime <= att[b].startTime}

Init ==
  /\ clock = Second
  /\ requestTime = 0
  /\ requestsPerSecond = 0
  /\ queue = <<>>
  /\ delayed = {}
  /\ processing = {}
  /\ att \in [Attestations -> [status : {"initial"}, retry : {0},
                               commitEnd : Deadlines, startTime : {0}]]
  /\ handle = FALSE
  /\ handleTime = 0
  /\ timeouts = {}
  /\ heartbeats = 0
  /\ stack = <<>>
  /\ sent = 0

-----------------------------------------------------------------------------
(* The synchronous methods, one step for each call or turn of a loop.        *)

\* The frame on top of the stack is op, and is replaced by the calls.
Run(op, calls) ==
  /\ stack # <<>>
  /\ Head(stack).op = op
  /\ stack' = calls \o Tail(stack)

\* Mutation of StartNext: no heartbeat.
StartNextOnce ==
  /\ Run("startNext", IF CanProcessNext
                      THEN <<Call("priorityLoop"), Call("queueLoop")>> ELSE <<>>)
  /\ UNCHANGED <<clock, quota, places, timers>>

\* startNext: a heartbeat tries again when nothing is in process.
StartNext ==
  /\ Run("startNext", IF CanProcessNext
                      THEN <<Call("priorityLoop"), Call("queueLoop")>> ELSE <<>>)
  /\ heartbeats' = IF ~CanProcessNext /\ processing = {} THEN heartbeats + 1 ELSE heartbeats
  /\ UNCHANGED <<clock, quota, places, handle, handleTime, timeouts>>

\* The first loop of startNext: the head of the priority queue, when it is due.
\* The timer is updated before the attestation is processed.
PriorityTurn ==
  /\ \E a \in Top :
       /\ CanProcessNext
       /\ att[a].startTime <= clock
       /\ Run("priorityLoop", <<Call("updateTimer"), Process(a), Call("priorityLoop")>>)
       /\ delayed' = delayed \ {a}
  /\ UNCHANGED <<clock, quota, timers, queue, processing, att>>

PriorityEnd ==
  /\ ~CanProcessNext \/ \A a \in Top : att[a].startTime > clock
  /\ Run("priorityLoop", <<>>)
  /\ UNCHANGED <<clock, quota, timers, places>>

\* Mutation of QueueTurn: the attestation is not taken off the queue.
QueueTurnPeek ==
  /\ queue # <<>>
  /\ CanProcessNext
  /\ Run("queueLoop", <<Process(Head(queue)), Call("queueLoop")>>)
  /\ UNCHANGED <<clock, quota, timers, places>>

\* The second loop of startNext.
QueueTurn ==
  /\ queue # <<>>
  /\ CanProcessNext
  /\ Run("queueLoop", <<Process(Head(queue)), Call("queueLoop")>>)
  /\ queue' = Tail(queue)
  /\ UNCHANGED <<clock, quota, timers, delayed, processing, att>>

QueueEnd ==
  /\ queue = <<>> \/ ~CanProcessNext
  /\ Run("queueLoop", <<>>)
  /\ UNCHANGED <<clock, quota, timers, places>>

\* updateDelayQueueTimer: startNext at once when the head is overdue, else a
\* timer, unless one is set that is not later.
UpdateTimer ==
  /\ \/ /\ delayed = {}
        /\ Run("updateTimer", <<>>)
        /\ UNCHANGED timers
     \/ \E a \in Top :
          IF att[a].startTime < clock
          THEN Run("updateTimer", <<Call("startNext")>>) /\ UNCHANGED timers
          ELSE /\ Run("updateTimer", <<>>)
               /\ IF ~handle \/ att[a].startTime < handleTime
                  THEN /\ timeouts' = (IF handle THEN timeouts \ {handleTime} ELSE timeouts)
                                        \cup {att[a].startTime}
                       /\ handle' = TRUE
                       /\ handleTime' = att[a].startTime
                       /\ UNCHANGED heartbeats
                  ELSE UNCHANGED timers
  /\ UNCHANGED <<clock, quota, places>>

\* The end of the timer's callback.
ClearTimer ==
  /\ Run("clearTimer", <<>>)
  /\ handle' = FALSE
  /\ UNCHANGED <<clock, quota, places, handleTime, timeouts, heartbeats>>

\* increaseRequestCount: the first request of a second counts as none.
Started(a) ==
  /\ requestTime' = SecondOf(clock)
  /\ requestsPerSecond' = IF requestTime = SecondOf(clock) THEN requestsPerSecond + 1 ELSE 0
  /\ sent' = IF att[a].retry = 0 THEN sent + 1 ELSE sent

\* process(a): no route (the verifier configuration is reloaded at any time),
\* too late, or sent to the verifier.
ProcessAttestation ==
  \E a \in Attestations :
    /\ stack # <<>> /\ Head(stack) = Process(a)
    /\ \/ /\ att' = [att EXCEPT ![a].status = "failed"]
          /\ Run("process", <<Call("startNext")>>)
          /\ UNCHANGED <<quota, processing>>
       \/ /\ clock > att[a].commitEnd
          /\ att' = [att EXCEPT ![a].status = "tooLate"]
          /\ Run("process", <<>>)
          /\ UNCHANGED <<quota, processing>>
       \/ /\ clock <= att[a].commitEnd
          /\ att' = [att EXCEPT ![a].status = "processing"]
          /\ processing' = processing \cup {a}
          /\ Started(a)
          /\ Run("process", <<>>)
    /\ UNCHANGED <<clock, timers, queue, delayed>>

-----------------------------------------------------------------------------
(* What starts a synchronous call.                                           *)

Idle == stack = <<>>

\* Mutation of VerifyRequest: the timer is updated between check and process, as
\* for a retry.
VerifyRequestTimerFirst(a) ==
  /\ Idle
  /\ clock <= MaxArrival
  /\ att[a].status = "initial"
  /\ IF CanProcessNext
     THEN stack' = <<Call("updateTimer"), Process(a)>> /\ UNCHANGED places
     ELSE /\ att' = [att EXCEPT ![a].status = "queued"]
          /\ queue' = Append(queue, a)
          /\ UNCHANGED <<stack, delayed, processing>>
  /\ UNCHANGED <<clock, quota, timers>>

\* verifyAttestationRequest, called by AttestationRound.addAttestation.
VerifyRequest(a) ==
  /\ Idle
  /\ clock <= MaxArrival
  /\ att[a].status = "initial"
  /\ IF CanProcessNext
     THEN stack' = <<Process(a)>> /\ UNCHANGED places
     ELSE /\ att' = [att EXCEPT ![a].status = "queued"]
          /\ queue' = Append(queue, a)
          /\ UNCHANGED <<stack, delayed, processing>>
  /\ UNCHANGED <<clock, quota, timers>>

\* Mutation of Processed: startNext is not called.
ProcessedOnly(a, status) ==
  /\ att' = [att EXCEPT ![a].status = status]
  /\ processing' = processing \ {a}
  /\ UNCHANGED <<clock, quota, timers, queue, delayed, stack>>

\* onProcessed for an attestation the verifier was asked about.
Processed(a, status) ==
  /\ att' = [att EXCEPT ![a].status = status]
  /\ processing' = processing \ {a}
  /\ stack' = <<Call("startNext")>>
  /\ UNCHANGED <<clock, quota, timers, queue, delayed>>

\* The verifier has answered: valid with its message integrity code, invalid,
\* or indeterminate (error).
Answered(a, status) ==
  /\ Idle
  /\ a \in processing
  /\ Processed(a, status)

MayRetry(a) == att[a].retry < MaxRetries

\* The call to the verifier threw: a retry after the delay, up to the maximum
\* (and before the end of the model's time).
CallFailed(a) ==
  /\ Idle
  /\ a \in processing
  /\ IF MayRetry(a)
     THEN /\ clock + Delay <= MaxTime
          /\ att' = [att EXCEPT ![a].retry = @ + 1, ![a].startTime = clock + Delay]
          /\ processing' = processing \ {a}
          /\ delayed' = delayed \cup {a}
          /\ stack' = <<Call("updateTimer")>>
          /\ UNCHANGED <<clock, quota, timers, queue>>
     ELSE Processed(a, "error")

TimeoutFires ==
  /\ Idle
  /\ \E t \in timeouts :
       /\ t <= clock
       /\ timeouts' = timeouts \ {t}
  /\ stack' = <<Call("startNext"), Call("clearTimer")>>
  /\ UNCHANGED <<clock, quota, places, handle, handleTime, heartbeats>>

HeartbeatFires ==
  /\ Idle
  /\ heartbeats > 0
  /\ heartbeats' = heartbeats - 1
  /\ stack' = <<Call("startNext")>>
  /\ UNCHANGED <<clock, quota, places, handle, handleTime, timeouts>>

Tick ==
  /\ Idle
  /\ clock < MaxTime
  /\ clock' = clock + 1
  /\ sent' = IF SecondOf(clock') = SecondOf(clock) THEN sent ELSE 0
  /\ UNCHANGED <<requestTime, requestsPerSecond, places, timers, stack>>

-----------------------------------------------------------------------------
Synchronous ==
  \/ StartNext
  \/ PriorityTurn
  \/ PriorityEnd
  \/ QueueTurn
  \/ QueueEnd
  \/ UpdateTimer
  \/ ClearTimer
  \/ ProcessAttestation

VerifierReplies(a) ==
  \/ \E status \in {"valid", "invalid", "error"} : Answered(a, status)
  \/ CallFailed(a)

Next ==
  \/ Synchronous
  \/ \E a \in Attestations : VerifyRequest(a)
  \/ \E a \in Attestations : VerifierReplies(a)
  \/ TimeoutFires
  \/ HeartbeatFires
  \/ Tick

Spec == Init /\ [][Next]_vars

\* The event loop runs what is due, and the verifier's HTTP calls answer or
\* fail (axios has a time-out).  A heartbeat that re-arms itself keeps
\* interrupting the idle loop but stops neither the clock nor the answers, so
\* these are strongly fair.
FairSpec ==
  /\ Spec
  /\ WF_vars(Synchronous)
  /\ WF_vars(TimeoutFires)
  /\ WF_vars(HeartbeatFires)
  /\ SF_vars(Tick)
  /\ \A a \in Attestations : SF_vars(VerifierReplies(a))

-----------------------------------------------------------------------------
(* What the source manager promises.                                         *)

AttestationRecord ==
  [status : Status, retry : 0..MaxRetries, commitEnd : Deadlines, startTime : Nat]

\* The types of the variables.
TypeOK ==
  /\ clock \in Nat
  /\ requestTime \in Int
  /\ requestsPerSecond \in Nat
  /\ queue \in Seq(Attestations)
  /\ delayed \subseteq Attestations
  /\ processing \subseteq Attestations
  /\ att \in [Attestations -> AttestationRecord]
  /\ handle \in BOOLEAN
  /\ handleTime \in Nat
  /\ timeouts \subseteq Nat
  /\ heartbeats \in Nat
  /\ stack \in Seq(Frame)
  /\ sent \in Nat

InQueue(a) == \E i \in 1..Len(queue) : queue[i] = a
OnStack(a) == \E i \in 1..Len(stack) : stack[i] = Process(a)

\* An attestation whose status is not final is in exactly one of the queue, the
\* priority queue, the set in process and the running calls; a final one in none.
Placed(a) ==
  /\ att[a].status = "initial" => ~InQueue(a) /\ a \notin processing \cup delayed
  /\ att[a].status = "queued" =>
       /\ InQueue(a) <=> ~OnStack(a)
       /\ a \notin processing \cup delayed
  /\ att[a].status = "processing" =>
       /\ ~InQueue(a)
       /\ a \in processing <=> a \notin delayed /\ ~OnStack(a)
       /\ ~(a \in delayed /\ OnStack(a))
  /\ att[a].status \in Final =>
       ~InQueue(a) /\ ~OnStack(a) /\ a \notin processing \cup delayed

\* No attestation is lost on its way through the queues, verified twice at a
\* time, or processed again after its final status.
InOnePlace ==
  /\ \A i, j \in 1..Len(queue) : queue[i] = queue[j] => i = j
  /\ \A i, j \in 1..Len(stack) :
       stack[i].op = "process" /\ stack[i] = stack[j] => i = j
  /\ \A a \in Attestations : Placed(a)

\* Attestations that the verifier is asked about for the first time.
FirstInProcess == {a \in processing : att[a].retry = 0}

\* Both limits hold for first requests: those in process, and, as the first one
\* of a second counts as none, one a second more than configured.
FirstRequestsLimited ==
  /\ Cardinality(FirstInProcess) <= MaxProcessing
  /\ sent <= MaxPerSecond + 1

\* A first request starts only while all that is in process, retries included,
\* leaves room.
StartsWithRoom ==
  \A a \in processing' \ processing : att[a].retry = 0 => CanProcessNext

\* Whatever synchronous calls come between the check (canProcessNext) and process,
\* the limits are exceeded by retries only: those are started after the update of
\* the timer, which starts other verifications (startNext).
LimitsExceededOnlyByRetries == []FirstRequestsLimited /\ [][StartsWithRoom]_vars

\* Something will run startNext for a waiting queue: a verification that is in
\* process, a heartbeat, or the timer of the priority queue.
QueueHasWakeUp ==
  Idle /\ queue # <<>> => processing # {} \/ heartbeats > 0 \/ timeouts # {}

\* "a mechanism that will run startNext if nothing is in process"
\* (enQueueDelayed), for what waits for its retry.
DelayedHasWakeUp ==
  Idle /\ delayed # {} => processing # {} \/ heartbeats > 0 \/ timeouts # {}

\* Every request gets a final status.
EveryRequestProcessed ==
  \A a \in Attestations : att[a].status \in {"queued", "processing"} ~> att[a].status \in Final
=============================================================================
