---------------------------- MODULE MCServices ----------------------------
(***************************************************************************)
(* Instances for TLC of five parts that run in processes, or for chains, of *)
(* their own, or share nothing that one of them changes under another: what *)
(* the attestation client makes of the Flare chain, its transactions, the   *)
(* header collector, the block processors, and the server for proofs. A     *)
(* behaviour is one of one part; the others stay as they are.               *)
(***************************************************************************)
EXTENDS Client, Headers, ProofServer, TxSequencer, TLC

CONSTANTS m1, h1, h2, h3

VARIABLES
  part,
  blockProcessors, destroyed, isActive, isCompleted, queue, loops, asked, read,
  current, switches

processorVars == <<blockProcessors, destroyed, isActive, isCompleted, queue, loops,
                   asked, read, current, switches>>
allVars == <<part, vars, headersVars, processorVars, serverVars, sequencerVars>>

-----------------------------------------------------------------------------
(* The client: three editions of the configuration, three Flare blocks.      *)

Pair(source, type) == [source |-> source, type |-> type]
BtcPayment == Pair("BTC", "Payment")
XrpPayment == Pair("XRP", "Payment")

Request(id, pair) == [kind |-> "request", id |-> id, pair |-> pair]
BitVote(round, mask) == [kind |-> "vote", by |-> m1, round |-> round, mask |-> mask]

TheMembers == {m1}
TheDefinitions == {BtcPayment, XrpPayment}

TheLogs ==
  LET a == Request(1, BtcPayment)
      b == Request(2, XrpPayment)
      c == Request(3, BtcPayment)
      malformed == Request(4, None)
  IN  <<{<<b, a>>},
        {<<BitVote(0, 1), c>>},
        {<<BitVote(0, 2), malformed>>, <<a, b>>}>>

TheEditions ==
  LET Config(start, routes) == [start |-> start, routes |-> routes]
  IN  <<{Config(0, {BtcPayment})},
        {Config(0, {BtcPayment, XrpPayment}), Config(1, {XrpPayment})},
        {Config(2, {BtcPayment})}>>

\* Bound: the files are edited a second time while the chain is short.
ClientNext == Next /\ (edition' > 1 => Len(chain') <= 2)

-----------------------------------------------------------------------------
(* Blocks b1, b2, and two forks on them, c3 and d3 with e4.                  *)

TheParent == "b1" :> "root" @@ "b2" :> "b1" @@ "c3" :> "b2" @@ "d3" :> "b2" @@ "e4" :> "d3"
TheNumber == "b1" :> 1 @@ "b2" :> 2 @@ "c3" :> 3 @@ "d3" :> 3 @@ "e4" :> 4

-----------------------------------------------------------------------------
(* Two forks at one height, and a block above.                               *)

TheInputs == <<<<1, 0>>, <<2>>, <<0>>>>
TheHeights == <<1, 1, 2>>

Processing == INSTANCE BlockProcessing WITH
  Inputs <- TheInputs, Height <- TheHeights, ActiveLimit <- 1, MaxSwitches <- 3,
  calls <- asked

CurrentCompletes == Processing!CurrentCompletes

-----------------------------------------------------------------------------
(* Up to three requests in the first round, chosen or not; one in the second. *)

TheHashes == <<h1, h2, h3>>

\* Bound: the second round is there to be the later one with results.
BoundedServerInit ==
  /\ ServerInit /\ chosen[1] = <<h1>>
  /\ chosen[0] \in
       IF part = "proofs" THEN {<<h1>>, <<h2, h1>>, <<h3, h1, h2>>} ELSE {<<h1>>}
BoundedServerNext == ServerNext /\ requests'[1] = {} /\ saves'[1] <= 1

-----------------------------------------------------------------------------
InitAll ==
  /\ part \in {"client", "headers", "processors", "proofs", "sequencer"}
  /\ Init /\ HeadersInit /\ Processing!Init /\ BoundedServerInit /\ SequencerInit

ClientPart(A) ==
  /\ part = "client" /\ A
  /\ UNCHANGED <<part, headersVars, processorVars, serverVars, sequencerVars>>
HeadersPart ==
  /\ part = "headers" /\ HeadersNext
  /\ UNCHANGED <<part, vars, processorVars, serverVars, sequencerVars>>
ProcessingPart(A) ==
  /\ part = "processors" /\ A
  /\ UNCHANGED <<part, vars, headersVars, serverVars, sequencerVars>>
ProofsPart ==
  /\ part = "proofs" /\ BoundedServerNext
  /\ UNCHANGED <<part, vars, headersVars, processorVars, sequencerVars>>
SequencerPart(A) ==
  /\ part = "sequencer" /\ A
  /\ UNCHANGED <<part, vars, headersVars, processorVars, serverVars>>

NextAll ==
  \/ ClientPart(ClientNext)
  \/ HeadersPart
  \/ ProcessingPart(Processing!Next)
  \/ ProofsPart
  \/ SequencerPart(SequencerNext)

\* The fairness of Client, of BlockProcessing and of TxSequencer.
SpecAll ==
  /\ InitAll /\ [][NextAll]_allVars
  /\ WF_allVars(ClientPart(Refresh))
  /\ \A e \in DOMAIN TheEditions : WF_allVars(ClientPart(Refreshed(e)))
  /\ \A b \in DOMAIN TheInputs :
       /\ WF_allVars(ProcessingPart(Processing!LoopTurn(b)))
       /\ WF_allVars(ProcessingPart(Processing!Stop(b)))
  /\ WF_allVars(ProcessingPart(\E call \in asked : Processing!Answer(call)))
  /\ \A c \in Calls : WF_allVars(SequencerPart(CallStep(c)))
=============================================================================
