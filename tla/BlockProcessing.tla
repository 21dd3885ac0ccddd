-------------------------- MODULE BlockProcessing --------------------------
(***************************************************************************)
(* The block processors of a UTXO chain share one client: each has a queue  *)
(* of jobs and a loop that starts them, which BlockProcessorManager pauses  *)
(* and resumes as the chain switches between forks.                         *)
(*                                                                         *)
(* A processor that runs out of retries ends the process: see Indexer.      *)
(***************************************************************************)
EXTENDS Integers, Sequences, FiniteSets
LOCAL INSTANCE SequencesExt

CONSTANTS
  Inputs,       \* for each block, how many inputs are read of its transactions
  Height,       \* the number of each block
  ActiveLimit,  \* activeLimit of the client
  MaxSwitches,  \* bound: calls of process
  None

VARIABLES
  blockProcessors,  \* the blocks that have a processor
  destroyed,        \* those whose processor was destroyed
  isActive,
  isCompleted,
  queue,
  loops,            \* the loops of resume() that have not ended
  calls,            \* what the client is asked and has not answered
  read,             \* the jobs that have ended
  current,          \* the block process was last called for
  switches

vars == <<blockProcessors, destroyed, isActive, isCompleted, queue, loops, calls,
          read, current, switches>>

Blocks == DOMAIN Inputs
Job(b, t, i) == [block |-> b, tx |-> t, input |-> i]

Init ==
  /\ blockProcessors = {} /\ destroyed = {}
  /\ isActive = [b \in Blocks |-> FALSE] /\ isCompleted = [b \in Blocks |-> FALSE]
  /\ queue = [b \in Blocks |-> <<>>] /\ loops = [b \in Blocks |-> 0]
  /\ calls = {} /\ read = {} /\ current = None /\ switches = 0

-----------------------------------------------------------------------------
\* initializeJobs: one job for each transaction.
Jobs(b) == [t \in DOMAIN Inputs[b] |-> Job(b, t, 0)]

Listed(b) == b \in blockProcessors /\ b \notin destroyed

\* While syncing the processors of several blocks run side by side.
ProcessSync(b) ==
  /\ current = None /\ b \notin blockProcessors
  /\ blockProcessors' = blockProcessors \cup {b}
  /\ isActive' = [isActive EXCEPT ![b] = TRUE]
  /\ loops' = [loops EXCEPT ![b] = 1]
  /\ queue' = [queue EXCEPT ![b] = Jobs(b)]
  /\ UNCHANGED <<destroyed, isCompleted, calls, read, current, switches>>

\* Mutation of Switch: there is never a second loop on a queue.
SwitchOneLoop(b) ==
  /\ isActive' = [c \in Blocks |-> IF c \in destroyed THEN isActive[c]
                                   ELSE c = b /\ (isActive[b] \/ loops[b] = 0)]
  /\ loops' = [loops EXCEPT ![b] = IF @ = 0 THEN 1 ELSE @]

\* resume() of the processor of the block, pause() of the others in the list.
\* resume starts a loop, although the one before may still sleep.
Switch(b) ==
  /\ isActive' = [c \in Blocks |-> IF c \in destroyed THEN isActive[c] ELSE c = b]
  /\ loops' = [loops EXCEPT ![b] = IF isActive[b] THEN @ ELSE @ + 1]

Process(b) ==
  /\ switches < MaxSwitches /\ switches' = switches + 1
  /\ b \notin destroyed
  /\ current' = b
  /\ IF isCompleted[b] THEN UNCHANGED <<blockProcessors, isActive, loops, queue>>
     ELSE /\ Switch(b)
          /\ blockProcessors' = blockProcessors \cup {b}
          /\ queue' = IF Listed(b) THEN queue ELSE [queue EXCEPT ![b] = Jobs(b)]
  /\ UNCHANGED <<destroyed, isCompleted, calls, read>>

CanAccept == Cardinality(calls) <= ActiveLimit

\* The jobs that getFullTransactionUtxo puts in front, one for each input.
InputJobs(job) ==
  Reverse([i \in 1..Inputs[job.block][job.tx] |-> Job(job.block, job.tx, i)])

\* A loop awakes. One that finds its processor paused ends, one that finds
\* nothing to do sleeps again.
LoopTurn(b) ==
  /\ loops[b] > 0
  /\ IF ~isActive[b]
     THEN /\ loops' = [loops EXCEPT ![b] = @ - 1]
          /\ UNCHANGED <<queue, calls, read>>
     ELSE /\ queue[b] # <<>> /\ CanAccept
          /\ LET job == Head(queue[b])
             IN  IF job.input = 0
                 THEN /\ queue' = [queue EXCEPT ![b] = InputJobs(job) \o Tail(@)]
                      /\ read' = read \cup {job}
                      /\ UNCHANGED calls
                 ELSE /\ queue' = [queue EXCEPT ![b] = Tail(@)]
                      /\ calls' = calls \cup {job}
                      /\ UNCHANGED read
          /\ UNCHANGED loops
  /\ UNCHANGED <<blockProcessors, destroyed, isActive, isCompleted, current, switches>>

\* The client answers, whether the processor is paused or not.
Answer(call) ==
  /\ calls' = calls \ {call}
  /\ read' = read \cup {call}
  /\ UNCHANGED <<blockProcessors, destroyed, isActive, isCompleted, queue, loops,
                 current, switches>>

\* stop(), when all transactions of the block have been read.
Stop(b) ==
  /\ b \in blockProcessors /\ ~isCompleted[b]
  /\ \A t \in DOMAIN Inputs[b] : \A i \in 0..Inputs[b][t] : Job(b, t, i) \in read
  /\ isActive' = [isActive EXCEPT ![b] = FALSE]
  /\ isCompleted' = [isCompleted EXCEPT ![b] = TRUE]
  /\ UNCHANGED <<blockProcessors, destroyed, queue, loops, calls, read, current, switches>>

\* A block was saved: the processors up to its number are destroyed. A loop of
\* theirs that was not paused goes on.
ClearProcessorsUpTo(b) ==
  LET gone == {c \in blockProcessors : Height[c] <= Height[b]}
  IN  /\ Listed(b) /\ isCompleted[b]
      /\ destroyed' = destroyed \cup gone
      /\ queue' = [c \in Blocks |-> IF c \in gone THEN <<>> ELSE queue[c]]
      /\ UNCHANGED <<blockProcessors, isActive, isCompleted, loops, calls, read,
                     current, switches>>

Next ==
  \/ \E b \in Blocks : \/ ProcessSync(b) \/ Process(b)
                       \/ LoopTurn(b) \/ Stop(b) \/ ClearProcessorsUpTo(b)
  \/ \E call \in calls : Answer(call)

\* Loops awake, calls are answered, and a block that is read completes.
Fairness ==
  /\ \A b \in Blocks : WF_vars(LoopTurn(b)) /\ WF_vars(Stop(b))
  /\ WF_vars(\E call \in calls : Answer(call))

Spec == Init /\ [][Next]_vars /\ Fairness

-----------------------------------------------------------------------------
\* When the chain no longer switches, the block process was last called for
\* completes, unless its processor is destroyed: no order of pauses and resumes
\* leaves a queue without a loop (resume).
CurrentCompletes ==
  []<>(current # None => isCompleted[current] \/ current \in destroyed)
=============================================================================
