------------------------- MODULE TxSequencerProofs -------------------------
(***************************************************************************)
(* Proofs about the ticket lock of TxSequencer, for every set of calls,    *)
(* every set of deadlines and every bound on the clock.                    *)
(***************************************************************************)
EXTENDS TxSequencer, FiniteSetTheorems, TLAPS

USE SequencerAssumption

\* Every variable of the sequencer keeps its type (Web3Functions).
THEOREM TypeCorrect == SequencerSpec => []TypeOK
<1>1. SequencerInit => TypeOK
  BY DEF SequencerInit, TypeOK, PC
<1>2. TypeOK /\ [SequencerNext]_sequencerVars => TypeOK'
  <2> SUFFICES ASSUME TypeOK, [SequencerNext]_sequencerVars PROVE TypeOK'
    OBVIOUS
  <2> USE DEF TypeOK, PC, Sending, Returned, Goto, Return, lock, account
  <2>1. ASSUME NEW c \in Calls, NEW d \in Deadlines, Start(c, d) PROVE TypeOK'
    BY <2>1 DEF Start
  <2>2. ASSUME NEW c \in Calls, Turn(c) PROVE TypeOK'
    BY <2>2 DEF Turn
  <2>3. ASSUME NEW c \in Calls, TimeOut(c) PROVE TypeOK'
    BY <2>3 DEF TimeOut
  <2>4. ASSUME NEW c \in Calls, GetNonce(c) PROVE TypeOK'
    BY <2>4 DEF GetNonce
  <2>5. ASSUME NEW c \in Calls, Fail(c) PROVE TypeOK'
    BY <2>5 DEF Fail
  <2>6. ASSUME NEW c \in Calls, Submit(c) PROVE TypeOK'
    BY <2>6 DEF Submit, SameNonce
  <2>7. ASSUME NEW c \in Calls, Finalized(c) PROVE TypeOK'
    BY <2>7 DEF Finalized
  <2>8. ASSUME NEW c \in Calls, ResponseTimeout(c) PROVE TypeOK'
    BY <2>8 DEF ResponseTimeout
  <2>9. ASSUME NEW c \in Calls, Mine(c) PROVE TypeOK'
    BY <2>9 DEF Mine
  <2>10. CASE ClockTick
    BY <2>10 DEF ClockTick
  <2>11. CASE UNCHANGED sequencerVars
    BY <2>11 DEF sequencerVars
  <2> QED
    BY <2>1, <2>2, <2>3, <2>4, <2>5, <2>6, <2>7, <2>8, <2>9, <2>10, <2>11
    DEF SequencerNext, CallStep
<1> QED
  BY <1>1, <1>2, PTL DEF SequencerSpec

-----------------------------------------------------------------------------
(***************************************************************************)
(* Ticket accounting.  A step makes one call active (Start), one call      *)
(* inactive (the steps that Return), or leaves the active calls alone.     *)
(***************************************************************************)
Accounted == TypeOK /\ TicketsAccountedFor

\* The calls under way are finitely many.
LEMMA ActiveFinite ==
  /\ IsFiniteSet(Active)
  /\ Cardinality(Active) \in Nat
<1>1. IsFiniteSet(Active)
  BY FS_Subset DEF Active
<1> QED
  BY <1>1, FS_CardinalityType

\* A call that takes a ticket is one more active call.
LEMMA StartAccounts ==
  ASSUME Accounted, NEW c \in Calls, NEW d \in Deadlines, Start(c, d)
  PROVE  TicketsAccountedFor'
<1>1. c \notin Active /\ Active' = Active \cup {c}
  BY DEF Accounted, TypeOK, Start, Active, Sending, Goto
<1>2. Cardinality(Active') = Cardinality(Active) + 1
  BY <1>1, ActiveFinite, FS_AddElement
<1> QED
  BY <1>2, ActiveFinite DEF Accounted, TypeOK, TicketsAccountedFor, Start

\* A call that returns is one active call less, and one turn is handed on.
LEMMA ReturnAccounts ==
  ASSUME Accounted, NEW c \in Active, NEW result \in Returned,
         Return(c, result), UNCHANGED nextIndex
  PROVE  TicketsAccountedFor'
<1>1. Active' = Active \ {c}
  BY DEF Accounted, TypeOK, Return, Goto, Active, Sending, Returned
<1>2. Cardinality(Active') = Cardinality(Active) - 1
  BY <1>1, ActiveFinite, FS_RemoveElement
<1> QED
  BY <1>2, ActiveFinite DEF Accounted, TypeOK, TicketsAccountedFor, Return

\* No return path of signAndFinalize3Sequenced forgets to hand its turn on or
\* hands on more than one: currentIndex lags nextIndex by the active calls.
THEOREM TicketsAlwaysAccountedFor == SequencerSpec => []TicketsAccountedFor
<1>1. SequencerInit => TicketsAccountedFor
  <2> SUFFICES ASSUME SequencerInit PROVE TicketsAccountedFor
    OBVIOUS
  <2>1. Active = {}
    BY DEF SequencerInit, Active, Sending
  <2> QED
    BY <2>1, FS_EmptySet DEF SequencerInit, TicketsAccountedFor
<1>2. TypeOK /\ TicketsAccountedFor /\ [SequencerNext]_sequencerVars => TicketsAccountedFor'
  <2> SUFFICES ASSUME TypeOK, TicketsAccountedFor, [SequencerNext]_sequencerVars
               PROVE  TicketsAccountedFor'
    OBVIOUS
  <2>0. Accounted
    BY DEF Accounted
  <2>1. ASSUME NEW c \in Calls, NEW d \in Deadlines, Start(c, d)
        PROVE  TicketsAccountedFor'
    BY <2>0, <2>1, StartAccounts
  <2>2. ASSUME UNCHANGED lock, Active' = Active PROVE TicketsAccountedFor'
    BY <2>2 DEF TicketsAccountedFor, lock
  <2>3. ASSUME NEW c \in Calls,
               Turn(c) \/ GetNonce(c) \/ Submit(c) \/ Mine(c)
        PROVE  TicketsAccountedFor'
    <3>1. Active' = Active /\ UNCHANGED lock
      BY <2>3 DEF TypeOK, Turn, GetNonce, Submit, Mine, Goto, Active, Sending, lock
    <3> QED
      BY <3>1, <2>2
  <2>4. ASSUME NEW c \in Calls, TimeOut(c) \/ Fail(c) \/ Finalized(c) \/ ResponseTimeout(c)
        PROVE  TicketsAccountedFor'
    <3>1. PICK result \in Returned : Return(c, result)
      BY <2>4 DEF TimeOut, Fail, Finalized, ResponseTimeout, Returned
    <3>2. c \in Active /\ UNCHANGED nextIndex
      BY <2>4 DEF TimeOut, Fail, Finalized, ResponseTimeout, Active, Sending
    <3> QED
      BY <2>0, <3>1, <3>2, ReturnAccounts
  <2>5. CASE ClockTick \/ UNCHANGED sequencerVars
    <3>1. Active' = Active /\ UNCHANGED lock
      BY <2>5 DEF ClockTick, sequencerVars, Active, lock
    <3> QED
      BY <3>1, <2>2
  <2> QED
    BY <2>1, <2>3, <2>4, <2>5 DEF SequencerNext, CallStep
<1> QED
  BY <1>1, <1>2, TypeCorrect, PTL DEF SequencerSpec

-----------------------------------------------------------------------------
(***************************************************************************)
(* Order of the tickets, whatever the time-outs do.                        *)
(***************************************************************************)
TicketsOrdered ==
  /\ \A c \in Calls : callState[c] # "idle" => waitIndex[c] < nextIndex
  /\ \A c, d \in Calls :
       callState[c] # "idle" /\ callState[d] # "idle" /\ waitIndex[c] = waitIndex[d] => c = d
  /\ \A c \in Calls : Started(c) => waitIndex[c] <= currentIndex

\* A step gives tickets in the order of the calls.
LEMMA TicketsStayOrdered ==
  ASSUME TypeOK, TicketsOrdered, [SequencerNext]_sequencerVars
  PROVE  TicketsOrdered'
<1> USE DEF TypeOK, TicketsOrdered, PC, Sending, Returned, Started, Goto, Return,
            lock, account, MyTurn
<1>1. ASSUME NEW c \in Calls, NEW d \in Deadlines, Start(c, d) PROVE TicketsOrdered'
  BY <1>1 DEF Start
<1>2. ASSUME NEW c \in Calls, Turn(c) PROVE TicketsOrdered'
  BY <1>2 DEF Turn
<1>3. ASSUME NEW c \in Calls, TimeOut(c) PROVE TicketsOrdered'
  BY <1>3 DEF TimeOut
<1>4. ASSUME NEW c \in Calls, GetNonce(c) PROVE TicketsOrdered'
  BY <1>4 DEF GetNonce
<1>5. ASSUME NEW c \in Calls, Fail(c) PROVE TicketsOrdered'
  BY <1>5 DEF Fail
<1>6. ASSUME NEW c \in Calls, Submit(c) PROVE TicketsOrdered'
  BY <1>6 DEF Submit
<1>7. ASSUME NEW c \in Calls, Finalized(c) PROVE TicketsOrdered'
  BY <1>7 DEF Finalized
<1>8. ASSUME NEW c \in Calls, ResponseTimeout(c) PROVE TicketsOrdered'
  BY <1>8 DEF ResponseTimeout
<1>9. ASSUME NEW c \in Calls, Mine(c) PROVE TicketsOrdered'
  BY <1>9 DEF Mine
<1>10. CASE ClockTick
  BY <1>10 DEF ClockTick
<1>11. CASE UNCHANGED sequencerVars
  BY <1>11 DEF sequencerVars
<1> QED
  BY <1>1, <1>2, <1>3, <1>4, <1>5, <1>6, <1>7, <1>8, <1>9, <1>10, <1>11
  DEF SequencerNext, CallStep

\* Tickets are given in order and no two calls under way hold the same one.
THEOREM TicketsAlwaysOrdered == SequencerSpec => []TicketsOrdered
<1>1. SequencerInit => TicketsOrdered
  BY DEF SequencerInit, TicketsOrdered, Started, Sending
<1>2. TypeOK /\ TicketsOrdered /\ [SequencerNext]_sequencerVars => TicketsOrdered'
  BY TicketsStayOrdered
<1> QED
  BY <1>1, <1>2, TypeCorrect, PTL DEF SequencerSpec

\* Transactions start in the order of the calls: only Start and Turn start
\* one, and both do so with the ticket currentIndex, which no started call is
\* beyond.
THEOREM TransactionsStartInTicketOrder == SequencerSpec => StartsInTicketOrder
<1> DEFINE Ordered == \A c, d \in Calls :
       ~Started(c) /\ Started(c)' /\ Started(d) => waitIndex[d] < waitIndex'[c]
<1>1. TypeOK /\ TicketsOrdered /\ [SequencerNext]_sequencerVars => [Ordered]_sequencerVars
  <2> SUFFICES ASSUME TypeOK, TicketsOrdered, SequencerNext,
                      NEW c \in Calls, NEW d \in Calls,
                      ~Started(c), Started(c)', Started(d)
               PROVE  waitIndex[d] < waitIndex'[c]
    OBVIOUS
  <2> USE DEF TypeOK, PC, Sending, Returned, Started, Goto, Return, MyTurn
  <2>1. CASE \E e \in Calls, t \in Deadlines : Start(e, t)
    BY <2>1 DEF Start, TicketsOrdered
  <2>2. CASE \E e \in Calls : Turn(e)
    BY <2>2 DEF Turn, TicketsOrdered
  <2>3. CASE \E e \in Calls : TimeOut(e) \/ GetNonce(e) \/ Fail(e)
    BY <2>3 DEF TimeOut, GetNonce, Fail
  <2>4. CASE \E e \in Calls : Submit(e) \/ Finalized(e) \/ ResponseTimeout(e) \/ Mine(e)
    BY <2>4 DEF Submit, Finalized, ResponseTimeout, Mine
  <2>5. CASE ClockTick
    BY <2>5 DEF ClockTick
  <2> QED
    BY <2>1, <2>2, <2>3, <2>4, <2>5 DEF SequencerNext, CallStep
<1>2. [][TypeOK /\ TicketsOrdered /\ [SequencerNext]_sequencerVars => [Ordered]_sequencerVars]_sequencerVars
  BY <1>1, PTL
<1> QED
  BY <1>1, TypeCorrect, TicketsAlwaysOrdered, PTL DEF SequencerSpec, StartsInTicketOrder

-----------------------------------------------------------------------------
(***************************************************************************)
(* Mutual exclusion.  While nobody has timed out, only the call in         *)
(* progress returns, so currentIndex is its ticket and the tickets of the  *)
(* waiting calls are above.                                                *)
(***************************************************************************)
TurnsInOrder ==
  NoTimeOut =>
    /\ currentIndex <= nextIndex
    /\ \A c \in Calls : callState[c] = "wait" => waitIndex[c] >= currentIndex
    /\ \A c \in InProgress : waitIndex[c] = currentIndex

\* A step keeps the turns in order as long as no waiting call gives up.
LEMMA TurnsStayInOrder ==
  ASSUME TypeOK, TicketsOrdered, TurnsInOrder, [SequencerNext]_sequencerVars
  PROVE  TurnsInOrder'
<1> USE DEF TypeOK, TicketsOrdered, TurnsInOrder, NoTimeOut, InProgress, PC, Sending,
            Returned, Goto, Return, lock, account, MyTurn
<1>1. ASSUME NEW c \in Calls, NEW d \in Deadlines, Start(c, d) PROVE TurnsInOrder'
  BY <1>1 DEF Start
<1>2. ASSUME NEW c \in Calls, Turn(c) PROVE TurnsInOrder'
  BY <1>2 DEF Turn
<1>3. ASSUME NEW c \in Calls, TimeOut(c) PROVE TurnsInOrder'
  BY <1>3 DEF TimeOut
<1>4. ASSUME NEW c \in Calls, GetNonce(c) PROVE TurnsInOrder'
  BY <1>4 DEF GetNonce
<1>5. ASSUME NEW c \in Calls, Fail(c) PROVE TurnsInOrder'
  BY <1>5 DEF Fail
<1>6. ASSUME NEW c \in Calls, Submit(c) PROVE TurnsInOrder'
  BY <1>6 DEF Submit
<1>7. ASSUME NEW c \in Calls, Finalized(c) PROVE TurnsInOrder'
  BY <1>7 DEF Finalized
<1>8. ASSUME NEW c \in Calls, ResponseTimeout(c) PROVE TurnsInOrder'
  BY <1>8 DEF ResponseTimeout
<1>9. ASSUME NEW c \in Calls, Mine(c) PROVE TurnsInOrder'
  BY <1>9 DEF Mine
<1>10. CASE ClockTick
  BY <1>10 DEF ClockTick
<1>11. CASE UNCHANGED sequencerVars
  BY <1>11 DEF sequencerVars
<1> QED
  BY <1>1, <1>2, <1>3, <1>4, <1>5, <1>6, <1>7, <1>8, <1>9, <1>10, <1>11
  DEF SequencerNext, CallStep

\* Until a waiting call times out, the turn is never past a call that is under way.
THEOREM TurnsAlwaysInOrder == SequencerSpec => []TurnsInOrder
<1>1. SequencerInit => TurnsInOrder
  BY DEF SequencerInit, TurnsInOrder, InProgress, Sending
<1>2. TypeOK /\ TicketsOrdered /\ TurnsInOrder /\ [SequencerNext]_sequencerVars => TurnsInOrder'
  BY TurnsStayInOrder
<1> QED
  BY <1>1, <1>2, TypeCorrect, TicketsAlwaysOrdered, PTL DEF SequencerSpec

\* With the turns in order, two calls cannot both be past their wait.
LEMMA OrderedTurnsExclude ==
  TicketsOrdered /\ TurnsInOrder => OneAtATimeUntilTimeOut
BY DEF TicketsOrdered, TurnsInOrder, OneAtATimeUntilTimeOut, OneAtATime,
       InProgress, Sending

\* As long as no waiting call has given up, at most one transaction is in
\* progress (signAndFinalize3Sequenced).
THEOREM MutualExclusion == SequencerSpec => []OneAtATimeUntilTimeOut
BY OrderedTurnsExclude, TicketsAlwaysOrdered, TurnsAlwaysInOrder, PTL

-----------------------------------------------------------------------------
(***************************************************************************)
(* Nonces.  The call that reads the nonce is alone in progress, and every  *)
(* call before it has a receipt, so its transaction is below the nonce.    *)
(***************************************************************************)
NoncesUsed ==
  NoTimeOut /\ NoFailure =>
    /\ \A c \in Calls : callState[c] \in {"mined", "receipt"} => nonce[c] < accountNonce
    /\ \A c \in pool : callState[c] = "poll"
    /\ \A c, d \in Signed : nonce[c] = nonce[d] => c = d

\* A step signs a fresh nonce, or gives one up.
LEMMA NoncesStayUsed ==
  ASSUME TypeOK, OneAtATimeUntilTimeOut, NoncesUsed, [SequencerNext]_sequencerVars
  PROVE  NoncesUsed'
<1> USE DEF TypeOK, NoncesUsed, NoTimeOut, NoFailure, Signed, PC, Sending, Returned,
            Goto, Return, lock, account
<1>1. ASSUME NEW c \in Calls, NEW d \in Deadlines, Start(c, d) PROVE NoncesUsed'
  BY <1>1 DEF Start
<1>2. ASSUME NEW c \in Calls, Turn(c) PROVE NoncesUsed'
  BY <1>2 DEF Turn
<1>3. ASSUME NEW c \in Calls, TimeOut(c) PROVE NoncesUsed'
  BY <1>3 DEF TimeOut
<1>4. ASSUME NEW c \in Calls, GetNonce(c) PROVE NoncesUsed'
  <2> SUFFICES ASSUME NoTimeOut', NoFailure' PROVE NoncesUsed!2'
    BY DEF NoTimeOut, NoFailure
  <2>1. NoTimeOut /\ NoFailure
    BY <1>4 DEF GetNonce
  <2>2. \A d \in Signed : callState[d] = "receipt"
    BY <1>4, <2>1 DEF GetNonce, OneAtATimeUntilTimeOut, OneAtATime, InProgress
  <2> QED
    BY <1>4, <2>1, <2>2 DEF GetNonce
<1>5. ASSUME NEW c \in Calls, Fail(c) PROVE NoncesUsed'
  BY <1>5 DEF Fail
<1>6. ASSUME NEW c \in Calls, Submit(c) PROVE NoncesUsed'
  BY <1>6 DEF Submit, SameNonce
<1>7. ASSUME NEW c \in Calls, Finalized(c) PROVE NoncesUsed'
  BY <1>7 DEF Finalized
<1>8. ASSUME NEW c \in Calls, ResponseTimeout(c) PROVE NoncesUsed'
  BY <1>8 DEF ResponseTimeout
<1>9. ASSUME NEW c \in Calls, Mine(c) PROVE NoncesUsed'
  BY <1>9 DEF Mine
<1>10. CASE ClockTick
  BY <1>10 DEF ClockTick
<1>11. CASE UNCHANGED sequencerVars
  BY <1>11 DEF sequencerVars
<1> QED
  BY <1>1, <1>2, <1>3, <1>4, <1>5, <1>6, <1>7, <1>8, <1>9, <1>10, <1>11
  DEF SequencerNext, CallStep

\* Without time-outs and failures no nonce is signed twice: getNonce() runs
\* after every earlier transaction has been mined.
THEOREM NoncesSignedOnce == SequencerSpec => []NonceSignedOnce
<1>1. SequencerInit => NoncesUsed
  BY DEF SequencerInit, NoncesUsed, Signed
<1>2. TypeOK /\ OneAtATimeUntilTimeOut /\ NoncesUsed /\ [SequencerNext]_sequencerVars => NoncesUsed'
  BY NoncesStayUsed
<1>3. NoncesUsed => NonceSignedOnce
  BY DEF NoncesUsed, NonceSignedOnce
<1> QED
  BY <1>1, <1>2, <1>3, TypeCorrect, MutualExclusion, PTL DEF SequencerSpec
=============================================================================
