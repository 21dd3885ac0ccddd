--------------------------- MODULE IndexerProofs ---------------------------
(***************************************************************************)
(* Theorems about Indexer, for any numbers of confirmations, blocks, forks  *)
(* and crashes, and any size of the tables.                                *)
(***************************************************************************)
EXTENDS Indexer, FiniteSetTheorems, SequenceTheorems, WellFoundedInduction, TLAPS

USE IndexerAssumption

\* The library states this of a relation made from an operator.
LEMMA LessThanWellFounded == IsWellFoundedOn({ss \in Nat \X Nat : ss[1] < ss[2]}, Nat)
BY NatLessThanWellFounded DEF OpToRel

\* A set of natural numbers that is not empty has its least element for minimum.
LEMMA MinIsLeast ==
  ASSUME NEW S \in SUBSET Nat, S # {}
  PROVE  Min(S) \in S /\ \A y \in S : Min(S) <= y
<1> DEFINE R == {ss \in Nat \X Nat : ss[1] < ss[2]}
<1>1. PICK x \in S : \A y \in S : ~(<<y, x>> \in R)
  <2>1. IsWellFoundedOn(R, Nat)
    BY LessThanWellFounded
  <2> HIDE DEF R
  <2> QED
    BY <2>1, WFMin
<1>2. ASSUME NEW y \in S, y < x PROVE FALSE
  <2>1. <<y, x>> \in R
    BY <1>2
  <2> QED
    BY <1>1, <2>1
<1>3. \A y \in S : x <= y
  BY <1>2
<1> QED
  BY <1>3 DEF Min

\* What Lowest returns for a set of blocks.
LEMMA LowestIsLeast ==
  ASSUME NEW S, S \subseteq Blocks
  PROVE  /\ Lowest(S) \in 0..MaxHeight
         /\ S = {} <=> Lowest(S) = 0
         /\ S # {} => Lowest(S) \in Numbers(S) /\ \A n \in Numbers(S) : Lowest(S) <= n
<1>1. Numbers(S) \subseteq 1..MaxHeight
  BY DEF Numbers, Blocks
<1>2. S # {} => Numbers(S) # {}
  BY DEF Numbers
<1> QED
  BY <1>1, <1>2, MinIsLeast DEF Lowest

-----------------------------------------------------------------------------
(* Types, and how high the chain is.                                         *)

TypeInv == TypeOK /\ Len(chain) <= MaxHeight /\ T <= Len(chain)

\* A height of the chain has a block with that number.
LEMMA BlockAtType ==
  ASSUME TypeInv, NEW h \in 1..Len(chain)
  PROVE  BlockAt(h) \in Blocks /\ BlockAt(h).number = h
BY DEF TypeInv, TypeOK, BlockAt, Blocks

\* A processor is added for a block.
LEMMA WithProcessorType ==
  ASSUME NEW others, others \subseteq [block : Blocks, state : States], NEW block \in Blocks
  PROVE  WithProcessor(block, others) \subseteq [block : Blocks, state : States]
BY DEF WithProcessor, States

\* The processors after those of a block alone have been left active.
LEMMA SwitchedType ==
  ASSUME TypeInv, NEW block \in Blocks
  PROVE  Switched(block) \subseteq [block : Blocks, state : States]
BY DEF Switched, States, TypeInv, TypeOK

FetchingType == [number : 1..MaxHeight + 1, sync : BOOLEAN]

\* The fetches after one for the block after the next has been added.
LEMMA WithNp2Type ==
  ASSUME TypeInv, NEW block \in Blocks, NEW hash,
         NEW rest, rest \subseteq FetchingType
  PROVE  WithNp2(block, hash, rest) \subseteq FetchingType
<1>1. IsNp1(block, hash) => N + 2 \in 1..MaxHeight + 1
  BY DEF IsNp1, Blocks, TypeInv, TypeOK
<1>2. IsNp1(block, hash) => [number |-> N + 2, sync |-> FALSE] \in FetchingType
  BY <1>1 DEF FetchingType
<1> QED
  BY <1>2 DEF WithNp2

\* The processors and fetches after a block has been processed.
LEMMA ProcessType ==
  ASSUME TypeInv, NEW block \in Blocks, NEW hash,
         NEW rest, rest \subseteq FetchingType, Process(block, hash, rest)
  PROVE  /\ processors' \subseteq [block : Blocks, state : States]
         /\ fetching' \subseteq FetchingType
<1>1. processors \subseteq [block : Blocks, state : States]
  BY DEF TypeInv, TypeOK
<1> QED
  BY <1>1, WithNp2Type, SwitchedType, WithProcessorType DEF Process

\* What a completed block starts: a fetch or a save.
LEMMA BlockCompletedType ==
  ASSUME TypeInv, NEW block \in Blocks, BlockCompleted(block)
  PROVE  /\ prepared' \subseteq Blocks
         /\ fetching' \subseteq FetchingType
         /\ saves' \subseteq [block : Blocks, by : {"loop", "processor"}, table : 0..1,
                              stage : Stages]
<1>1. fetching \subseteq FetchingType
  BY DEF TypeInv, TypeOK, FetchingType
<1>2. Saving(block, "processor") \in [block : Blocks, by : {"loop", "processor"},
                                      table : 0..1, stage : Stages]
  BY DEF Saving, Stages, TypeInv, TypeOK
<1>3. WithNp2(block, np1, fetching) \subseteq FetchingType
  BY <1>1, WithNp2Type
<1> QED
  BY <1>1, <1>2, <1>3 DEF BlockCompleted, TypeInv, TypeOK

SavesType == [block : Blocks, by : {"loop", "processor"}, table : 0..1, stage : Stages]
ProcessorsType == [block : Blocks, state : States]

\* The chain grows up to its bound, and keeps its length in a reorganisation.
LEMMA GrowType ==
  ASSUME TypeInv, Grow
  PROVE  /\ chain' \in Seq(0..MaxForks) /\ Len(chain') = Len(chain) + 1 /\ Len(chain') <= MaxHeight
         /\ \A h \in 1..Len(chain) : chain'[h] = chain[h]
BY DEF Grow, TypeInv, TypeOK

\* A reorganisation keeps the length and the confirmed blocks.
LEMMA ReorganiseType ==
  ASSUME TypeInv, Reorganise
  PROVE  /\ chain' \in Seq(0..MaxForks) /\ Len(chain') = Len(chain) /\ forks' \in 0..MaxForks
         /\ \A h \in 1..Len(chain) : h <= Len(chain) - Confirmations => chain'[h] = chain[h]
<1>1. PICK k \in 1..Len(chain) :
        /\ k > Len(chain) - Confirmations
        /\ chain' = [i \in DOMAIN chain |-> IF i >= k THEN forks + 1 ELSE chain[i]]
  BY DEF Reorganise
<1>2. DOMAIN chain = 1..Len(chain) /\ Len(chain) \in Nat /\ forks + 1 \in 0..MaxForks
  BY DEF TypeInv, TypeOK, Reorganise
<1>3. chain' \in [1..Len(chain) -> 0..MaxForks]
  BY <1>1, <1>2 DEF TypeInv, TypeOK
<1>4. chain' \in Seq(0..MaxForks) /\ Len(chain') = Len(chain)
  BY <1>2, <1>3
<1>5. \A h \in 1..Len(chain) : h <= Len(chain) - Confirmations => chain'[h] = chain[h]
  BY <1>1, <1>2
<1> QED
  BY <1>2, <1>4, <1>5 DEF Reorganise

\* Every step keeps the types.
LEMMA TypeInvStep ==
  ASSUME TypeInv, [Next]_vars
  PROVE  TypeInv'
<1> USE DEF chainVars, loopVars, workVars, tableVars
<1>0. /\ Len(chain) \in 0..MaxHeight
      /\ processors \subseteq ProcessorsType /\ saves \subseteq SavesType
      /\ fetching \subseteq FetchingType
      /\ Stored \subseteq Blocks
  BY DEF TypeInv, TypeOK, ProcessorsType, SavesType, FetchingType, Stored
<1>1. CASE Grow
  BY <1>0, <1>1, GrowType DEF Grow, TypeInv, TypeOK
<1>2. CASE Reorganise
  BY <1>2, ReorganiseType DEF Reorganise, TypeInv, TypeOK
<1>3. CASE SyncRound
  <2>0. T' \in 0..Len(chain) /\ T' \in 0..MaxHeight /\ chain' = chain
    <3>1. T' \in {T, Len(chain)} /\ chain' = chain
      BY <1>3 DEF SyncRound
    <3>2. T \in 0..MaxHeight /\ T <= Len(chain)
      BY DEF TypeInv, TypeOK
    <3> QED
      BY <1>0, <3>1, <3>2
  <2>1. CASE Confirmed(T')
    <3>1. N + 1 \in 1..Len(chain)
      <4>1. N < T' - Confirmations /\ N \in Nat
        BY <2>1 DEF Confirmed, TypeInv, TypeOK
      <4>2. PICK t \in 0..Len(chain) : t = T'
        BY <2>0
      <4>3. N < t - Confirmations
        BY <4>1, <4>2
      <4> QED
        BY <1>0, <4>1, <4>3
    <3>2. BlockAt(N + 1) \in Blocks
      BY <3>1, BlockAtType
    <3>3. processors' \subseteq [block : Blocks, state : States]
      BY <1>0, <1>3, <2>1, <3>2, WithProcessorType DEF SyncRound, ProcessorsType
    <3>4. fetching' \subseteq FetchingType
      <4>1. ASSUME NEW h \in N + 2..N + ReadAhead - 1, h <= T' - Confirmations
            PROVE  [number |-> h, sync |-> TRUE] \in FetchingType
        <5>1. N \in Nat /\ T' \in 0..MaxHeight
          BY <2>0 DEF TypeInv, TypeOK
        <5>2. PICK t \in 0..MaxHeight : t = T'
          BY <5>1
        <5>3. h <= t - Confirmations
          BY <4>1, <5>2
        <5>4. h \in 1..MaxHeight + 1
          BY <4>1, <5>1, <5>3
        <5> QED
          BY <5>4 DEF FetchingType
      <4>2. fetching' = fetching \cup
               {[number |-> h, sync |-> TRUE] :
                  h \in {h \in N + 2..N + ReadAhead - 1 :
                           /\ h <= T' - Confirmations
                           /\ h \notin Numbers({p.block : p \in processors})}}
        BY <1>3, <2>1 DEF SyncRound
      <4> QED
        BY <1>0, <4>1, <4>2
    <3>5. /\ pc' = "save" /\ np1' = BlockAt(N + 1)
          /\ UNCHANGED <<forks, syncing, N, waitNp1, prepared, cleared, tableVars, crashes>>
      BY <1>3, <2>1 DEF SyncRound
    <3>6. np1' \in Blocks \cup {None} /\ T' <= Len(chain')
      BY <1>0, <2>0, <3>2, <3>5
    <3> QED
      BY <2>0, <3>3, <3>4, <3>5, <3>6 DEF TypeInv, TypeOK, FetchingType
  <2>2. CASE ~Confirmed(T')
    <3>1. /\ pc' = "height" /\ syncing' = FALSE
          /\ UNCHANGED <<forks, N, np1, waitNp1, workVars, tableVars, crashes>>
      BY <1>3, <2>2 DEF SyncRound
    <3> QED
      BY <2>0, <3>1 DEF TypeInv, TypeOK
  <2> QED
    BY <2>1, <2>2
<1>4. CASE TrySaveNp1Block
  <2>1. np1 \in prepared => Saving(np1, "loop") \in SavesType
    BY DEF Saving, SavesType, Stages, TypeInv, TypeOK
  <2> QED
    BY <1>0, <1>4, <2>1 DEF TrySaveNp1Block, TypeInv, TypeOK, SavesType
<1>5. CASE Waited
  BY <1>5 DEF Waited, AfterSave, TypeInv, TypeOK
<1>6. CASE ReadHeight
  BY <1>0, <1>6 DEF ReadHeight, TypeInv, TypeOK
<1>7. ASSUME ReadNp1 \/ RefreshNp1 PROVE TypeInv'
  <2>1. N + 1 \in 1..Len(chain)
    BY <1>7 DEF ReadNp1, RefreshNp1, TypeInv, TypeOK
  <2>2. BlockAt(N + 1) \in Blocks
    BY <2>1, BlockAtType
  <2>3. /\ processors' \subseteq [block : Blocks, state : States]
        /\ fetching' \subseteq FetchingType
    BY <1>0, <1>7, <2>2, ProcessType DEF ReadNp1, RefreshNp1, ProcessorsType
  <2>4. np1' \in Blocks /\ pc' \in {"save", "height"}
    BY <1>7, <2>2 DEF ReadNp1, RefreshNp1
  <2> QED
    BY <1>7, <2>3, <2>4 DEF ReadNp1, RefreshNp1, TypeInv, TypeOK, FetchingType
<1>8. ASSUME NEW s \in saves, SaveStep(s) PROVE TypeInv'
  <2>0. s \in SavesType
    BY <1>0
  <2>1. CASE WriteBlock(s)
    <3>1. s.block.number \in 1..MaxHeight
      BY <2>0 DEF SavesType, Blocks
    <3>2. tables' \in [0..1 -> SUBSET Blocks]
      BY <2>0, <2>1 DEF WriteBlock, SavesType, TypeInv, TypeOK
    <3>3. bottom' \in 0..MaxHeight
      <4>1. Numbers(Stored \cup {s.block}) \subseteq 1..MaxHeight
        BY <1>0, <2>0 DEF Numbers, Blocks, SavesType
      <4>2. Numbers(Stored \cup {s.block}) # {}
        BY DEF Numbers
      <4>3. Min(Numbers(Stored \cup {s.block})) \in 0..MaxHeight
        BY <4>1, <4>2, MinIsLeast
      <4> QED
        BY <2>1, <4>1, <4>2, <4>3 DEF WriteBlock, TypeInv, TypeOK
    <3>4. cleared' \subseteq Blocks
      BY <1>0, <2>1 DEF WriteBlock, ProcessorsType, TypeInv, TypeOK
    <3>5. saves' \subseteq SavesType
      BY <1>0, <2>0, <2>1 DEF WriteBlock, SavesType, Stages
    <3>6. index' \in 0..1
      BY <2>1 DEF WriteBlock, OtherTable, TypeInv, TypeOK
    <3>7. endBlock' \in 0..MaxHeight + TableRange
      <4>1. endBlock' \in {s.block.number + TableRange, endBlock}
        BY <2>1 DEF WriteBlock
      <4> QED
        BY <3>1, <4>1 DEF TypeInv, TypeOK
    <3>8. /\ dbN' \in 0..MaxHeight /\ N' \in 0..MaxHeight
          /\ processors' \subseteq ProcessorsType
          /\ UNCHANGED <<chainVars, pc, syncing, T, np1, waitNp1, prepared, fetching, crashes>>
      BY <1>0, <2>1, <3>1 DEF WriteBlock
    <3> QED
      BY <3>2, <3>3, <3>4, <3>5, <3>6, <3>7, <3>8
         DEF TypeInv, TypeOK, SavesType, ProcessorsType
  <2>2. CASE DropTable(s)
    <3>1. saves' \subseteq SavesType
      BY <1>0, <2>0, <2>2 DEF DropTable, SavesType, Stages
    <3> QED
      BY <2>2, <3>1 DEF DropTable, TypeInv, TypeOK, SavesType
  <2>3. CASE SaveBottomState(s)
    <3>1. saves' \subseteq SavesType
      BY <1>0, <2>0, <2>3 DEF SaveBottomState, SavesType, Stages
    <3> QED
      BY <1>0, <2>3, <3>1, LowestIsLeast DEF SaveBottomState, TypeInv, TypeOK, SavesType
  <2>4. CASE EndSave(s)
    BY <2>4 DEF EndSave, AfterSave, TypeInv, TypeOK
  <2> QED
    BY <1>8, <2>1, <2>2, <2>3, <2>4 DEF SaveStep
<1>9. ASSUME NEW p \in processors, Complete(p) PROVE TypeInv'
  <2>1. p \in ProcessorsType
    BY <1>0
  <2>2. processors' \subseteq ProcessorsType
    BY <1>0, <1>9, <2>1 DEF Complete, ProcessorsType, States
  <2> QED
    BY <1>9, <2>1, <2>2, BlockCompletedType
    DEF Complete, TypeInv, TypeOK, ProcessorsType, FetchingType
<1>10. ASSUME NEW b \in cleared, CompleteCleared(b) PROVE TypeInv'
  <2>1. b \in Blocks
    BY DEF TypeInv, TypeOK
  <2> QED
    BY <1>10, <2>1, BlockCompletedType DEF CompleteCleared, TypeInv, TypeOK, FetchingType
<1>11. ASSUME NEW f \in fetching, FetchReturns(f) PROVE TypeInv'
  <2>1. f.number \in 1..Len(chain)
    BY <1>0, <1>11 DEF FetchReturns, FetchingType
  <2>2. BlockAt(f.number) \in Blocks
    BY <2>1, BlockAtType
  <2>3. /\ processors' \subseteq [block : Blocks, state : States]
        /\ fetching' \subseteq FetchingType
    BY <1>0, <1>11, <2>2, ProcessType, WithProcessorType DEF FetchReturns, ProcessorsType
  <2> QED
    BY <1>11, <2>3 DEF FetchReturns, TypeInv, TypeOK, FetchingType
<1>12. ASSUME Exit, crashes' \in 0..MaxCrashes PROVE TypeInv'
  <2>1. \A n \in Nat : 0 \in 0..n
    OBVIOUS
  <2>2. chain' = chain /\ forks' = forks /\ tables' = tables /\ dbN' = dbN /\ bottom' = bottom
    BY <1>12 DEF Exit
  <2>3. T' <= Len(chain')
    BY <1>0, <1>12, <2>2 DEF Exit
  <2>4. /\ pc' = "down" /\ syncing' \in BOOLEAN /\ waitNp1' \in BOOLEAN /\ np1' = None
        /\ prepared' = {} /\ processors' = {} /\ cleared' = {} /\ fetching' = {} /\ saves' = {}
    BY <1>12 DEF Exit
  <2>5. N' \in 0..MaxHeight /\ index' \in 0..1 /\ endBlock' \in 0..MaxHeight + TableRange
    BY <1>12, <2>1 DEF Exit
  <2>6. T' \in 0..MaxHeight
    BY <1>12, <2>1 DEF Exit
  <2>7. TypeOK'
    BY <1>12, <2>2, <2>4, <2>5, <2>6 DEF TypeInv, TypeOK
  <2> QED
    BY <1>0, <2>2, <2>3, <2>7 DEF TypeInv
<1>13. CASE Crash \/ TimesOut
  <2>1. crashes \in 0..MaxCrashes /\ MaxCrashes \in Nat
    BY IndexerAssumption DEF TypeInv, TypeOK
  <2>2. Exit /\ (crashes' = crashes \/ (crashes < MaxCrashes /\ crashes' = crashes + 1))
    BY <1>13 DEF Crash, TimesOut
  <2>3. crashes' \in 0..MaxCrashes
    BY <2>1, <2>2
  <2> QED
    BY <1>12, <2>2, <2>3
<1>14. CASE Start
  <2>1. Lowest(Stored) \in 0..MaxHeight
    BY <1>0, LowestIsLeast
  <2>2. WriteTable \in 0..1
    BY DEF WriteTable
  <2>3. Lowest(tables[WriteTable]) \in 0..MaxHeight
    BY <2>2, LowestIsLeast DEF TypeInv, TypeOK
  <2> QED
    BY <1>0, <1>14, <2>1, <2>2, <2>3 DEF Start, TypeInv, TypeOK
<1>15. CASE UNCHANGED vars
  BY <1>15 DEF vars, TypeInv, TypeOK
<1> QED
  BY <1>1, <1>2, <1>3, <1>4, <1>5, <1>6, <1>7, <1>8, <1>9, <1>10, <1>11, <1>13, <1>14, <1>15
     DEF Next, LoopStep

\* The types at first.
LEMMA InitTypeInv == Init => TypeInv
<1> SUFFICES ASSUME Init PROVE TypeInv
  OBVIOUS
<1>1. chain \in Seq(0..MaxForks) /\ Len(chain) = FirstHeight
  <2>1. chain \in [1..FirstHeight -> 0..MaxForks]
    BY DEF Init
  <2> QED
    BY <2>1
<1>2. tables \in [0..1 -> SUBSET Blocks]
  BY DEF Init
<1>3. endBlock \in 0..MaxHeight + TableRange /\ T \in 0..MaxHeight /\ T = FirstHeight
  BY DEF Init
<1>4. forks \in 0..MaxForks /\ N \in 0..MaxHeight /\ dbN \in 0..MaxHeight
      /\ bottom \in 0..MaxHeight /\ crashes \in 0..MaxCrashes /\ index \in 0..1
  BY DEF Init
<1>5. TypeOK
  BY <1>1, <1>2, <1>3, <1>4 DEF Init, TypeOK
<1> QED
  BY <1>1, <1>3, <1>5 DEF TypeInv

\* The types hold in every state.
LEMMA TypeInvariant == Spec => []TypeInv
<1>1. TypeInv /\ [Next]_vars => TypeInv'
  BY TypeInvStep
<1> QED
  BY <1>1, InitTypeInv, PTL DEF Spec

\* All variables keep their types, and the bounds of the model.
THEOREM TypeCorrect == Spec => []TypeOK
<1>1. TypeInv => TypeOK
  BY DEF TypeInv
<1> QED
  BY <1>1, TypeInvariant, PTL

-----------------------------------------------------------------------------
(* One block is saved at a time: the one the main loop has found confirmed,  *)
(* by the loop or by the one processor of that block it waits for. In the    *)
(* meantime neither N nor the hash of the block changes, and no              *)
(* reorganisation reaches it.                                                *)

OneEach(ps) == \A p, q \in ps : p.block = q.block => p = q

Completed(block, ps) == [block |-> block, state |-> "completed"] \in ps

\* np1 is a confirmed block of the chain, the next one to save.
ToSave == N + 1 \in 1..Len(chain) - Confirmations /\ np1 = BlockAt(N + 1)

SaveIs(s) ==
  /\ s.by = "loop" => pc = "saving"
  /\ s.by = "processor" => pc = "waiting" /\ waitNp1
  /\ s.block = np1
  /\ s.stage = "write" =>
       /\ ToSave
       /\ s.table = index
       /\ s.by = "processor" => Completed(np1, processors)
  /\ s.stage # "write" => np1.number = N

SavesInv ==
  /\ \A s \in saves : SaveIs(s)
  /\ \A s, t \in saves : s = t

LoopInv ==
  /\ pc # "down" => N = dbN
  /\ pc = "down" => cleared = {}
  /\ waitNp1 => pc = "waiting"
  /\ pc = "save" => ToSave
  /\ (pc = "waiting" /\ waitNp1 /\ saves = {}) => ToSave

WorkInv ==
  /\ OneEach(processors)
  /\ \A b \in cleared : b.number <= N

SaveInv == TypeInv /\ SavesInv /\ LoopInv /\ WorkInv

\* A block has one processor when one has been added for it.
LEMMA OneEachWith ==
  ASSUME NEW ps, OneEach(ps), NEW block
  PROVE  /\ OneEach(WithProcessor(block, ps))
         /\ \A b : Completed(b, ps) => Completed(b, WithProcessor(block, ps))
BY DEF OneEach, WithProcessor, Completed

\* The same when others have been paused.
LEMMA OneEachSwitched ==
  ASSUME TypeInv, OneEach(processors), NEW block
  PROVE  /\ OneEach(Switched(block))
         /\ \A b : Completed(b, processors) => Completed(b, Switched(block))
<1> DEFINE f(p) == IF p.state = "completed" THEN p
                   ELSE [p EXCEPT !.state = IF p.block = block THEN "active" ELSE "paused"]
<1>1. \A p \in processors : f(p).block = p.block
  BY DEF TypeInv, TypeOK
<1>2. Switched(block) = {f(p) : p \in processors}
  BY DEF Switched
<1>3. OneEach(Switched(block))
  <2>1. \A p, q \in processors : f(p).block = f(q).block => f(p) = f(q)
    BY <1>1 DEF OneEach
  <2> HIDE DEF f
  <2> QED
    BY <1>2, <2>1 DEF OneEach
<1>4. \A b : Completed(b, processors) => Completed(b, Switched(block))
  BY DEF Completed, Switched
<1> QED
  BY <1>3, <1>4

\* The same when a block has been processed.
LEMMA ProcessKeeps ==
  ASSUME TypeInv, OneEach(processors), NEW block, NEW hash, NEW rest,
         Process(block, hash, rest)
  PROVE  /\ OneEach(processors')
         /\ \A b : Completed(b, processors) => Completed(b, processors')
BY OneEachWith, OneEachSwitched DEF Process

\* A confirmed block is not reached by what the chain does.
LEMMA ConfirmedStays ==
  ASSUME TypeInv, Grow \/ Reorganise
  PROVE  /\ Len(chain) - Confirmations <= Len(chain') - Confirmations
         /\ \A h \in 1..Len(chain) - Confirmations : BlockAt(h)' = BlockAt(h)
<1>1. Len(chain) \in Nat /\ Len(chain') \in Nat
  BY GrowType, ReorganiseType DEF TypeInv, TypeOK
<1>0. \A h \in 1..Len(chain) - Confirmations : h \in 1..Len(chain)
  BY <1>1
<1>2. CASE Grow
  <2>1. Len(chain') = Len(chain) + 1 /\ \A h \in 1..Len(chain) : chain'[h] = chain[h]
    BY <1>2, GrowType
  <2> QED
    BY <1>0, <1>1, <2>1 DEF BlockAt
<1>3. CASE Reorganise
  BY <1>1, <1>3, ReorganiseType DEF BlockAt
<1> QED
  BY <1>2, <1>3

\* Only the loop's save and the wait for a processor have a save go on.
LEMMA NoSaveElsewhere ==
  ASSUME SaveInv
  PROVE  /\ pc \notin {"saving", "waiting"} => saves = {}
         /\ ~waitNp1 /\ pc # "saving" => saves = {}
BY DEF SaveInv, SavesInv, SaveIs, TypeInv, TypeOK

\* A processor that completes finds the loop waiting only if nothing is saved.
LEMMA CompletesToSave ==
  ASSUME SaveInv, NEW block \in Blocks, BlockCompleted(block),
         ~Completed(block, processors), block \in cleared \/ \E p \in processors : p.block = block
  PROVE  \/ saves' = saves
         \/ /\ saves = {} /\ saves' = {Saving(block, "processor")}
            /\ block = np1 /\ waitNp1 /\ pc = "waiting" /\ ToSave
            /\ block \notin cleared
<1>1. CASE ~(IsNp1(block, np1) /\ waitNp1)
  BY <1>1 DEF BlockCompleted
<1>2. CASE IsNp1(block, np1) /\ waitNp1
  <2>1. block = np1 /\ block.number = N + 1 /\ pc = "waiting"
    BY <1>2 DEF IsNp1, SaveInv, LoopInv
  <2>2. N \in Nat /\ ~(N + 1 = N) /\ ~(N + 1 <= N)
    BY DEF SaveInv, TypeInv, TypeOK
  <2>3. ASSUME NEW s \in saves PROVE FALSE
    <3>1. s.by = "processor"
      BY <2>1 DEF SaveInv, SavesInv, SaveIs, TypeInv, TypeOK
    <3>2. s.stage = "write"
      BY <2>1, <2>2 DEF SaveInv, SavesInv, SaveIs
    <3> QED
      BY <2>1, <3>1, <3>2 DEF SaveInv, SavesInv, SaveIs
  <2>4. saves = {}
    BY <2>3
  <2>5. block \notin cleared
    BY <2>1, <2>2 DEF SaveInv, WorkInv
  <2> QED
    BY <1>2, <2>1, <2>4, <2>5 DEF BlockCompleted, SaveInv, LoopInv
<1> QED
  BY <1>1, <1>2

\* Every step keeps the invariant of the saves.
LEMMA SaveInvStep ==
  ASSUME SaveInv, [Next]_vars
  PROVE  SaveInv'
<1> USE DEF chainVars, loopVars, workVars, tableVars
<1>0. TypeInv /\ TypeInv'
  BY TypeInvStep DEF SaveInv
<1>1. CASE Grow \/ Reorganise
  <2>1. UNCHANGED <<loopVars, workVars, tableVars>>
    BY <1>1 DEF Grow, Reorganise
  <2>2. ToSave => ToSave'
    <3>1. /\ Len(chain) - Confirmations <= Len(chain') - Confirmations
          /\ \A h \in 1..Len(chain) - Confirmations : BlockAt(h)' = BlockAt(h)
      BY <1>0, <1>1, ConfirmedStays
    <3>2. Len(chain) \in Nat /\ Len(chain') \in Nat /\ N \in Nat
      BY <1>0, <2>1 DEF TypeInv, TypeOK
    <3>3. ASSUME ToSave PROVE BlockAt(N + 1)' = BlockAt(N + 1)
      <4>1. BlockAt(N + 1) = [number |-> N + 1, version |-> chain[N + 1]]
        BY DEF BlockAt
      <4>2. chain'[N + 1] = chain[N + 1]
        BY <3>1, <3>3 DEF BlockAt, ToSave
      <4> QED
        BY <2>1, <4>1, <4>2 DEF BlockAt
    <3> QED
      BY <2>1, <3>1, <3>2, <3>3 DEF ToSave
  <2>3. SavesInv'
    BY <2>1, <2>2 DEF SaveInv, SavesInv, SaveIs
  <2>4. LoopInv' /\ WorkInv'
    BY <2>1, <2>2 DEF SaveInv, LoopInv, WorkInv
  <2> QED
    BY <1>0, <2>3, <2>4 DEF SaveInv
<1>2. CASE SyncRound
  <2>1. /\ pc = "sync" /\ saves = {} /\ ~waitNp1
        /\ UNCHANGED <<chainVars, N, cleared, waitNp1, tableVars>>
    BY <1>2, NoSaveElsewhere DEF SyncRound, SaveInv, LoopInv
  <2>2. PICK t \in {T, Len(chain)} : T' = t
    BY <1>2 DEF SyncRound
  <2>3. pc' \in {"save", "height"} /\ (pc' = "save" => Confirmed(t) /\ np1' = BlockAt(N + 1))
    BY <1>2, <2>2 DEF SyncRound
  <2>4. pc' = "save" => ToSave'
    <3>1. N \in Nat /\ Len(chain) \in Nat /\ t \in Nat /\ t <= Len(chain)
      <4>1. N \in 0..MaxHeight /\ T \in 0..MaxHeight /\ T <= Len(chain) /\ Len(chain) \in Nat
        BY <1>0 DEF TypeInv, TypeOK
      <4> QED
        BY <2>2, <4>1
    <3>2. Confirmed(t) => N + 1 \in 1..Len(chain) - Confirmations
      BY <3>1 DEF Confirmed
    <3> QED
      BY <2>1, <2>3, <3>2 DEF ToSave, BlockAt
  <2>5. OneEach(processors')
    BY <1>2, OneEachWith DEF SyncRound, SaveInv, WorkInv
  <2> QED
    BY <1>0, <2>1, <2>3, <2>4, <2>5 DEF SaveInv, SavesInv, LoopInv, WorkInv
<1>3. CASE TrySaveNp1Block
  <2>1. pc = "save" /\ saves = {} /\ ToSave
        /\ UNCHANGED <<chainVars, N, np1, workVars, index, dbN>>
    BY <1>3, NoSaveElsewhere DEF TrySaveNp1Block, SaveInv, LoopInv
  <2>2. ToSave'
    BY <2>1 DEF ToSave, BlockAt
  <2>3. CASE np1 \in prepared
    <3>1. saves' = {Saving(np1, "loop")} /\ pc' = "saving" /\ waitNp1' = waitNp1
      BY <1>3, <2>1, <2>3 DEF TrySaveNp1Block
    <3>2. \A s \in saves' : SaveIs(s)'
      BY <2>1, <2>2, <3>1 DEF SaveIs, Saving
    <3> QED
      BY <1>0, <2>1, <3>1, <3>2 DEF SaveInv, SavesInv, LoopInv, WorkInv
  <2>4. CASE np1 \notin prepared
    <3>1. saves' = {} /\ \/ pc' = "waiting" /\ waitNp1' = TRUE
                         \/ pc' = "refresh" /\ waitNp1' = waitNp1
      BY <1>3, <2>1, <2>4 DEF TrySaveNp1Block
    <3> QED
      BY <1>0, <2>1, <2>2, <3>1 DEF SaveInv, SavesInv, LoopInv, WorkInv
  <2> QED
    BY <2>3, <2>4
<1>4. CASE Waited \/ ReadHeight
  <2>1. saves = {} /\ ~waitNp1 /\ pc' \in {"sync", "refresh", "block"}
        /\ UNCHANGED <<chainVars, N, np1, waitNp1, workVars, tableVars>> /\ pc # "down"
    BY <1>4, NoSaveElsewhere DEF Waited, ReadHeight, AfterSave, SaveInv, LoopInv
  <2> QED
    BY <1>0, <2>1 DEF SaveInv, SavesInv, LoopInv, WorkInv
<1>5. CASE ReadNp1 \/ RefreshNp1
  <2>1. saves = {} /\ ~waitNp1 /\ pc # "down" /\ pc' \in {"save", "height"}
        /\ UNCHANGED <<chainVars, N, waitNp1, cleared, tableVars>>
    BY <1>5, NoSaveElsewhere DEF ReadNp1, RefreshNp1, SaveInv, LoopInv
  <2>2. pc' = "save" => ToSave'
    <3>1. N \in Nat /\ Len(chain) \in Nat /\ T \in Nat /\ T <= Len(chain)
      BY <1>0 DEF TypeInv, TypeOK
    <3>2. Confirmed(T) => N + 1 \in 1..Len(chain) - Confirmations
      BY <3>1 DEF Confirmed
    <3>3. pc' = "save" => Confirmed(T) /\ np1' = BlockAt(N + 1)
      BY <1>5 DEF ReadNp1, RefreshNp1
    <3> QED
      BY <2>1, <3>2, <3>3 DEF ToSave, BlockAt
  <2>3. OneEach(processors')
    BY <1>0, <1>5, ProcessKeeps DEF ReadNp1, RefreshNp1, SaveInv, WorkInv
  <2> QED
    BY <1>0, <2>1, <2>2, <2>3 DEF SaveInv, SavesInv, LoopInv, WorkInv
<1>6. ASSUME NEW s \in saves, WriteBlock(s) PROVE SaveInv'
  <2>1. /\ SaveIs(s) /\ s.stage = "write" /\ saves = {s}
        /\ s \in [block : Blocks, by : {"loop", "processor"}, table : 0..1, stage : Stages]
    BY <1>0, <1>6 DEF WriteBlock, SaveInv, SavesInv, TypeInv, TypeOK
  <2>2. /\ ToSave /\ np1.number = N + 1 /\ s.block = np1 /\ N \in Nat
    BY <1>0, <2>1 DEF SaveIs, ToSave, BlockAt, TypeInv, TypeOK
  <2>3. PICK stage \in {"drop", "end"} : saves' = {[s EXCEPT !.stage = stage]}
    <3>1. saves' = (saves \ {s}) \cup {[s EXCEPT !.stage = "drop"]}
            \/ saves' = (saves \ {s}) \cup {[s EXCEPT !.stage = "end"]}
      BY <1>6 DEF WriteBlock
    <3> QED
      BY <2>1, <3>1
  <2>4. /\ N' = N + 1 /\ dbN' = N + 1 /\ UNCHANGED <<pc, np1, waitNp1>>
        /\ processors' \subseteq processors
        /\ \A b \in cleared' : b.number <= N + 1
    <3>1. \A b \in cleared : b.number <= N + 1
      <4>1. ASSUME NEW b \in cleared PROVE b.number <= N + 1
        <5>1. b.number <= N
          BY DEF SaveInv, WorkInv
        <5>2. b \in Blocks
          BY <1>0 DEF TypeInv, TypeOK
        <5>3. b.number \in Nat
          BY <5>2 DEF Blocks
        <5> QED
          BY <2>2, <5>1, <5>3
      <4> QED
        BY <4>1
    <3> QED
      BY <1>6, <2>2, <3>1 DEF WriteBlock
  <2>5. \A t \in saves' : SaveIs(t)'
    BY <2>1, <2>2, <2>3, <2>4 DEF SaveIs
  <2>6. LoopInv'
    BY <2>1, <2>3, <2>4 DEF SaveInv, LoopInv, SaveIs
  <2>7. WorkInv'
    BY <2>4 DEF SaveInv, WorkInv, OneEach
  <2> QED
    BY <1>0, <2>3, <2>5, <2>6, <2>7 DEF SaveInv, SavesInv
<1>7. ASSUME NEW s \in saves, DropTable(s) \/ SaveBottomState(s) PROVE SaveInv'
  <2>1. /\ SaveIs(s) /\ s.stage \in {"drop", "bottom"} /\ saves = {s}
        /\ s \in [block : Blocks, by : {"loop", "processor"}, table : 0..1, stage : Stages]
        /\ UNCHANGED <<chainVars, loopVars, workVars, index, dbN>>
    BY <1>0, <1>7 DEF DropTable, SaveBottomState, SaveInv, SavesInv, TypeInv, TypeOK
  <2>2. PICK stage \in {"bottom", "end"} : saves' = {[s EXCEPT !.stage = stage]}
    BY <1>7, <2>1 DEF DropTable, SaveBottomState
  <2>3. \A t \in saves' : SaveIs(t)'
    BY <2>1, <2>2 DEF SaveIs
  <2>4. LoopInv' /\ WorkInv'
    BY <2>1, <2>2 DEF SaveInv, LoopInv, WorkInv, ToSave, BlockAt
  <2> QED
    BY <1>0, <2>2, <2>3, <2>4 DEF SaveInv, SavesInv
<1>8. ASSUME NEW s \in saves, EndSave(s) PROVE SaveInv'
  <2>1. /\ SaveIs(s) /\ saves' = {} /\ s.by \in {"loop", "processor"}
        /\ UNCHANGED <<chainVars, N, np1, processors, cleared, index, dbN>>
    BY <1>0, <1>8 DEF EndSave, SaveInv, SavesInv, TypeInv, TypeOK
  <2>2. \/ pc' \in {"sync", "refresh"} /\ waitNp1' = waitNp1 /\ pc = "saving"
        \/ pc' = pc /\ waitNp1' = FALSE /\ pc = "waiting"
    BY <1>8, <2>1 DEF EndSave, AfterSave, SaveIs
  <2>3. LoopInv'
    BY <2>1, <2>2 DEF SaveInv, LoopInv
  <2> QED
    BY <1>0, <2>1, <2>3 DEF SaveInv, SavesInv, WorkInv
<1>9. ASSUME NEW block \in Blocks, BlockCompleted(block),
             ~Completed(block, processors),
             block \in cleared \/ \E p \in processors : p.block = block,
             \A b : Completed(b, processors) => Completed(b, processors'),
             block \in cleared \/ Completed(block, processors'),
             OneEach(processors'), cleared' \subseteq cleared,
             UNCHANGED <<chain, pc, N, np1, waitNp1, index, dbN>>
      PROVE  SaveInv'
  <2>1. WorkInv'
    BY <1>9 DEF SaveInv, WorkInv
  <2>2. ToSave => ToSave'
    BY <1>9 DEF ToSave, BlockAt
  <2>3. CASE saves' = saves
    <3>1. SavesInv'
      BY <1>9, <2>2, <2>3 DEF SaveInv, SavesInv, SaveIs
    <3>2. LoopInv'
      BY <1>9, <2>2, <2>3 DEF SaveInv, LoopInv
    <3> QED
      BY <1>0, <2>1, <3>1, <3>2 DEF SaveInv
  <2>4. CASE /\ saves' = {Saving(block, "processor")}
             /\ block = np1 /\ waitNp1 /\ pc = "waiting" /\ ToSave /\ block \notin cleared
    <3>1. SavesInv'
      BY <1>9, <2>2, <2>4 DEF SavesInv, SaveIs, Saving
    <3>2. LoopInv'
      BY <1>9, <2>2, <2>4 DEF SaveInv, LoopInv
    <3> QED
      BY <1>0, <2>1, <3>1, <3>2 DEF SaveInv
  <2> QED
    BY <1>9, <2>3, <2>4, CompletesToSave
<1>10. ASSUME NEW p \in processors, Complete(p) PROVE SaveInv'
  <2>1. p \in ProcessorsType /\ p.state # "completed" /\ BlockCompleted(p.block)
        /\ UNCHANGED <<chain, pc, N, np1, waitNp1, index, dbN, cleared>>
    BY <1>0, <1>10 DEF Complete, TypeInv, TypeOK, ProcessorsType
  <2>2. processors' = (processors \ {p}) \cup {[p EXCEPT !.state = "completed"]}
    BY <1>10 DEF Complete
  <2>3. /\ p.block \in Blocks
        /\ [p EXCEPT !.state = "completed"] = [block |-> p.block, state |-> "completed"]
    BY <2>1 DEF ProcessorsType
  <2>4. ~Completed(p.block, processors)
    BY <2>1 DEF SaveInv, WorkInv, OneEach, Completed
  <2>5. OneEach(processors')
    BY <2>2, <2>3 DEF SaveInv, WorkInv, OneEach
  <2>6. \A b : Completed(b, processors) => Completed(b, processors')
    BY <2>1, <2>2 DEF Completed
  <2>7. Completed(p.block, processors')
    BY <2>2, <2>3 DEF Completed
  <2> QED
    BY <1>9, <2>1, <2>3, <2>4, <2>5, <2>6, <2>7
<1>11. ASSUME NEW b \in cleared, CompleteCleared(b) PROVE SaveInv'
  <2>1. b \in Blocks /\ BlockCompleted(b) /\ cleared' \subseteq cleared /\ processors' = processors
        /\ UNCHANGED <<chain, pc, N, np1, waitNp1, index, dbN>>
    BY <1>0, <1>11 DEF CompleteCleared, TypeInv, TypeOK
  <2>2. b.number <= N /\ N \in Nat /\ b.number \in Nat
    BY <1>0, <2>1 DEF SaveInv, WorkInv, TypeInv, TypeOK, Blocks
  <2>3. saves' = saves
    BY <2>1, <2>2 DEF BlockCompleted, IsNp1
  <2>4. ToSave' = ToSave
    BY <2>1 DEF ToSave, BlockAt
  <2>5. SavesInv'
    BY <2>1, <2>3, <2>4 DEF SaveInv, SavesInv, SaveIs
  <2>6. LoopInv' /\ WorkInv'
    BY <2>1, <2>3, <2>4 DEF SaveInv, LoopInv, WorkInv
  <2> QED
    BY <1>0, <2>5, <2>6 DEF SaveInv
<1>12. ASSUME NEW f \in fetching, FetchReturns(f) PROVE SaveInv'
  <2>1. UNCHANGED <<chainVars, loopVars, prepared, cleared, tableVars>>
    BY <1>12 DEF FetchReturns
  <2>2. OneEach(processors') /\ \A b : Completed(b, processors) => Completed(b, processors')
    BY <1>0, <1>12, ProcessKeeps, OneEachWith DEF FetchReturns, SaveInv, WorkInv
  <2>3. ToSave' = ToSave
    BY <2>1 DEF ToSave, BlockAt
  <2>4. SavesInv'
    BY <2>1, <2>2, <2>3 DEF SaveInv, SavesInv, SaveIs
  <2>5. LoopInv' /\ WorkInv'
    BY <2>1, <2>2, <2>3 DEF SaveInv, LoopInv, WorkInv
  <2> QED
    BY <1>0, <2>4, <2>5 DEF SaveInv
<1>13. CASE Crash \/ TimesOut
  <2>1. Exit
    BY <1>13 DEF Crash, TimesOut
  <2>2. saves' = {} /\ processors' = {} /\ cleared' = {} /\ pc' = "down" /\ waitNp1' = FALSE
    BY <2>1 DEF Exit
  <2> QED
    BY <1>0, <2>2 DEF SaveInv, SavesInv, LoopInv, WorkInv, OneEach
<1>14. CASE Start
  <2>1. saves = {} /\ ~waitNp1 /\ cleared = {}
    BY <1>14, NoSaveElsewhere DEF Start, SaveInv, LoopInv
  <2>2. N' = dbN' /\ pc' = "sync" /\ UNCHANGED <<saves, waitNp1, cleared, processors>>
    BY <1>14 DEF Start
  <2> QED
    BY <1>0, <2>1, <2>2 DEF SaveInv, SavesInv, LoopInv, WorkInv
<1>15. CASE UNCHANGED vars
  <2>1. ToSave' = ToSave
    BY <1>15 DEF vars, ToSave, BlockAt
  <2>2. SavesInv'
    BY <1>15, <2>1 DEF vars, SaveInv, SavesInv, SaveIs
  <2>3. LoopInv' /\ WorkInv'
    BY <1>15, <2>1 DEF vars, SaveInv, LoopInv, WorkInv
  <2> QED
    BY <1>0, <2>2, <2>3 DEF SaveInv
<1> QED
  BY <1>1, <1>2, <1>3, <1>4, <1>5, <1>6, <1>7, <1>8, <1>10, <1>11, <1>12, <1>13, <1>14, <1>15
     DEF Next, LoopStep, SaveStep

\* The invariant of the saves holds in every state.
LEMMA SaveInvariant == Spec => []SaveInv
<1>1. Init => SaveInv
  <2> SUFFICES ASSUME Init PROVE SaveInv
    OBVIOUS
  <2>1. TypeInv
    BY InitTypeInv
  <2> QED
    BY <2>1 DEF Init, SaveInv, SavesInv, LoopInv, WorkInv, OneEach
<1>2. SaveInv /\ [Next]_vars => SaveInv'
  BY SaveInvStep
<1> QED
  BY <1>1, <1>2, PTL DEF Spec

\* blockSave is never called while it runs, neither by the main loop nor by a
\* processor that completes late, for any read-ahead and any reorganisations.
THEOREM OneSave == Spec => []OneSaveAtATime
<1>1. SaveInv => OneSaveAtATime
  <2> SUFFICES ASSUME SaveInv PROVE OneSaveAtATime
    OBVIOUS
  <2>1. \A s, t \in saves : s = t
    BY DEF SaveInv, SavesInv
  <2>2. CASE saves = {}
    BY <2>2, FS_EmptySet DEF OneSaveAtATime
  <2>3. CASE saves # {}
    <3>1. PICK s \in saves : TRUE
      BY <2>3
    <3>2. saves = {s}
      BY <2>1, <3>1
    <3>3. Cardinality({s}) = 1
      BY FS_Singleton
    <3> QED
      BY <3>2, <3>3 DEF OneSaveAtATime
  <2> QED
    BY <2>2, <2>3
<1> QED
  BY <1>1, SaveInvariant, PTL

\* Only the transaction of blockSave writes N to the database.
LEMMA WhatSaves ==
  ASSUME SaveInv, [Next]_vars
  PROVE  \/ UNCHANGED dbN
         \/ \E s \in saves : WriteBlock(s)
<1> USE DEF chainVars, loopVars, workVars, tableVars
<1>1. ASSUME NEW s \in saves, SaveStep(s), ~WriteBlock(s) PROVE UNCHANGED dbN
  BY <1>1 DEF SaveStep, DropTable, SaveBottomState, EndSave
<1>2. ASSUME LoopStep PROVE UNCHANGED dbN
  BY <1>2 DEF LoopStep, SyncRound, TrySaveNp1Block, Waited, ReadHeight, ReadNp1, RefreshNp1
<1>3. ASSUME Grow \/ Reorganise \/ Crash \/ TimesOut \/ Start PROVE UNCHANGED dbN
  BY <1>3 DEF Grow, Reorganise, Crash, TimesOut, Exit, Start
<1>4. ASSUME NEW p, Complete(p) \/ CompleteCleared(p) \/ FetchReturns(p) PROVE UNCHANGED dbN
  BY <1>4 DEF Complete, CompleteCleared, FetchReturns
<1> QED
  BY <1>1, <1>2, <1>3, <1>4 DEF Next, vars

\* What it writes.
LEMMA WhatIsSaved ==
  ASSUME SaveInv, NEW s \in saves, WriteBlock(s)
  PROVE  /\ saves = {s} /\ s.table = index /\ pc # "down"
         /\ s.block = BlockAt(N + 1) /\ s.block.number = N + 1
         /\ N + 1 \in 1..Len(chain) - Confirmations /\ N = dbN
         /\ dbN' = N + 1 /\ N' = N + 1 /\ s.block \in Blocks
         /\ tables' = [tables EXCEPT ![index] = @ \cup {s.block}]
<1>1. SaveIs(s) /\ s.stage = "write" /\ saves = {s} /\ s.by \in {"loop", "processor"}
      /\ s.block \in Blocks
  BY DEF WriteBlock, SaveInv, SavesInv, TypeInv, TypeOK
<1>2. ToSave /\ s.block = np1 /\ s.table = index /\ pc # "down"
  BY <1>1 DEF SaveIs
<1> QED
  BY <1>1, <1>2 DEF WriteBlock, ToSave, BlockAt, SaveInv, LoopInv

\* The database goes from a block to the next one, whatever was read ahead,
\* completed late, or lost in a crash.
THEOREM SavesNextBlock == Spec => NextBlockOnly
<1>1. SaveInv /\ [Next]_vars => [dbN' # dbN => dbN' = dbN + 1]_vars
  BY WhatSaves, WhatIsSaved
<1> QED
  BY <1>1, SaveInvariant, PTL DEF Spec, NextBlockOnly

-----------------------------------------------------------------------------
(* Saved blocks stay on the chain: they are confirmed.                       *)

FinalInv ==
  \A b \in Stored : b.number \in 1..Len(chain) - Confirmations /\ b = BlockAt(b.number)

\* Blocks come to the tables by a save alone.
LEMMA StoredOnlyGrows ==
  ASSUME SaveInv, [Next]_vars
  PROVE  \/ Stored' \subseteq Stored
         \/ \E s \in saves : WriteBlock(s) /\ Stored' = Stored \cup {s.block}
<1> USE DEF chainVars, loopVars, workVars, tableVars
<1>0. tables \in [0..1 -> SUBSET Blocks] /\ index \in 0..1
  BY DEF SaveInv, TypeInv, TypeOK
<1>1. ASSUME NEW s \in saves, WriteBlock(s) PROVE Stored' = Stored \cup {s.block}
  BY <1>0, <1>1, WhatIsSaved DEF Stored
<1>2. ASSUME NEW s \in saves, DropTable(s) PROVE Stored' \subseteq Stored
  BY <1>0, <1>2 DEF DropTable, Stored
<1>3. ASSUME UNCHANGED tables PROVE Stored' \subseteq Stored
  BY <1>3 DEF Stored
<1>4. ASSUME NEW s \in saves, SaveBottomState(s) \/ EndSave(s) PROVE UNCHANGED tables
  BY <1>4 DEF SaveBottomState, EndSave
<1>5. ASSUME LoopStep PROVE UNCHANGED tables
  BY <1>5 DEF LoopStep, SyncRound, TrySaveNp1Block, Waited, ReadHeight, ReadNp1, RefreshNp1
<1>6. ASSUME Grow \/ Reorganise \/ Crash \/ TimesOut \/ Start PROVE UNCHANGED tables
  BY <1>6 DEF Grow, Reorganise, Crash, TimesOut, Exit, Start
<1>7. ASSUME NEW p, Complete(p) \/ CompleteCleared(p) \/ FetchReturns(p) PROVE UNCHANGED tables
  BY <1>7 DEF Complete, CompleteCleared, FetchReturns
<1> QED
  BY <1>1, <1>2, <1>3, <1>4, <1>5, <1>6, <1>7 DEF Next, SaveStep, vars

\* Only the node changes its chain.
LEMMA ChainStays ==
  ASSUME TypeInv, [Next]_vars, ~(Grow \/ Reorganise)
  PROVE  chain' = chain
<1> USE DEF chainVars
<1>1. ASSUME LoopStep PROVE UNCHANGED chain
  BY <1>1 DEF LoopStep, SyncRound, TrySaveNp1Block, Waited, ReadHeight, ReadNp1, RefreshNp1
<1>2. ASSUME Crash \/ TimesOut \/ Start PROVE UNCHANGED chain
  BY <1>2 DEF Crash, TimesOut, Exit, Start
<1>3. ASSUME NEW p, Complete(p) \/ CompleteCleared(p) \/ FetchReturns(p) \/ SaveStep(p)
      PROVE  UNCHANGED chain
  BY <1>3 DEF Complete, CompleteCleared, FetchReturns, SaveStep, WriteBlock, DropTable,
              SaveBottomState, EndSave
<1> QED
  BY <1>1, <1>2, <1>3 DEF Next, vars

\* Every step keeps what is final.
LEMMA FinalInvStep ==
  ASSUME SaveInv, FinalInv, [Next]_vars
  PROVE  FinalInv'
<1>1. TypeInv
  BY DEF SaveInv
<1>2. CASE Grow \/ Reorganise
  <2>1. Stored' \subseteq Stored
    BY <1>2 DEF Grow, Reorganise, tableVars, Stored
  <2>2. /\ Len(chain) - Confirmations <= Len(chain') - Confirmations
        /\ \A h \in 1..Len(chain) - Confirmations : BlockAt(h)' = BlockAt(h)
    BY <1>1, <1>2, ConfirmedStays
  <2>3. Len(chain) \in Nat /\ Len(chain') \in Nat
    BY <1>1, <1>2, GrowType, ReorganiseType DEF TypeInv, TypeOK
  <2>4. ASSUME NEW b \in Stored
        PROVE  b.number \in 1..Len(chain') - Confirmations /\ b = BlockAt(b.number)'
    BY <2>2, <2>3 DEF FinalInv
  <2> QED
    BY <2>1, <2>4 DEF FinalInv, BlockAt
<1>3. CASE ~(Grow \/ Reorganise)
  <2>1. chain' = chain
    BY <1>1, <1>3, ChainStays
  <2>2. \A b \in Stored' : b \in Stored \/ (b.number \in 1..Len(chain) - Confirmations
                                             /\ b = BlockAt(b.number))
    BY StoredOnlyGrows, WhatIsSaved
  <2> QED
    BY <2>1, <2>2 DEF FinalInv, BlockAt
<1> QED
  BY <1>2, <1>3

\* A saved block is on the chain and stays there, although blocks complete
\* after the chain has replaced them.
THEOREM SavedBlocksAreFinal == Spec => []SavedIsFinal
<1>1. Init => FinalInv
  BY DEF Init, FinalInv, Stored
<1>2. SaveInv /\ FinalInv => SavedIsFinal
  <2> SUFFICES ASSUME SaveInv, FinalInv, NEW b \in Stored
               PROVE  b.number <= Len(chain) /\ b = BlockAt(b.number)
    BY DEF SavedIsFinal
  <2>1. Len(chain) \in Nat
    BY DEF SaveInv, TypeInv, TypeOK
  <2> QED
    BY <2>1 DEF FinalInv
<1>3. SaveInv /\ FinalInv /\ [Next]_vars => FinalInv'
  BY FinalInvStep
<1> QED
  BY <1>1, <1>2, <1>3, SaveInvariant, PTL DEF Spec

-----------------------------------------------------------------------------
(* The two tables hold one range of blocks up to N, the newer table its end, *)
(* and the range is long enough. While a table waits to be dropped it is the *)
(* older one; a new process finds the newer one by the first rows of both,   *)
(* if those rows have times.                                                 *)

\* Table i has the blocks from m to N, the other one those from c to m - 1.
Spans(i, c, m) ==
  /\ Numbers(tables[i]) = m..dbN
  /\ Numbers(tables[1 - i]) = c..m - 1
  /\ 1 <= c /\ c <= m /\ m <= dbN + 1
  /\ c = 1 \/ c + TableRange <= dbN + 1

Turning == \E s \in saves : s.stage = "drop"

RunningTables ==
  \E c, m \in Nat :
    /\ Spans(index, c, m)
    /\ endBlock = 0 => dbN = 0
    /\ endBlock # 0 => m + TableRange <= endBlock + 1

TurningTables ==
  \E c, m \in Nat :
    /\ Spans(1 - index, c, m)
    /\ m + TableRange <= dbN + 1
    /\ dbN + TableRange <= endBlock

DownTables == \E i \in 0..1 : \E c, m \in Nat : Spans(i, c, m)

TablesInv ==
  /\ pc = "down" => DownTables
  /\ pc # "down" /\ Turning => TurningTables
  /\ pc # "down" /\ ~Turning => RunningTables

\* In every state the two tables share an interval of numbers.
LEMMA TablesSpan ==
  ASSUME TypeInv, TablesInv
  PROVE  DownTables
<1>1. index \in 0..1 /\ 1 - index \in 0..1
  BY DEF TypeInv, TypeOK
<1> QED
  BY <1>1 DEF TablesInv, RunningTables, TurningTables, DownTables

\* The lowest block of an interval of numbers.
LEMMA LowestOfRange ==
  ASSUME NEW S, S \subseteq Blocks, NEW a \in Nat, NEW b \in Nat,
         Numbers(S) = a..b, a <= b
  PROVE  S # {} /\ Lowest(S) = a
<1>1. S # {} /\ a \in Numbers(S)
  BY DEF Numbers
<1>2. Lowest(S) \in a..b /\ Lowest(S) <= a
  BY <1>1, LowestIsLeast
<1> QED
  BY <1>1, <1>2

\* A set without numbers is empty.
LEMMA NumbersEmpty ==
  ASSUME NEW S
  PROVE  Numbers(S) = {} <=> S = {}
BY DEF Numbers

\* What a new process takes for the newer table.
LEMMA WriteTableIsNewer ==
  ASSUME TypeInv, EmptyBlocks = {}, DownTables
  PROVE  \E c, m \in Nat :
           /\ Spans(WriteTable, c, m)
           /\ Stored = {} => dbN = 0
           /\ Stored # {} => Lowest(tables[WriteTable]) = m
<1>1. PICK i \in 0..1, c \in Nat, m \in Nat : Spans(i, c, m)
  BY DEF DownTables
<1>2. /\ dbN \in Nat /\ tables[i] \subseteq Blocks /\ tables[1 - i] \subseteq Blocks
      /\ 1 - i \in 0..1 /\ {tables[i], tables[1 - i]} = {tables[0], tables[1]}
  BY DEF TypeInv, TypeOK
<1>3. Stored = tables[i] \cup tables[1 - i]
  BY DEF Stored
<1>4. \A table : FirstTime(table) = Lowest(table)
  BY DEF FirstTime
<1>5. CASE m <= dbN
  <2>1. tables[i] # {} /\ Lowest(tables[i]) = m
    BY <1>1, <1>2, <1>5, LowestOfRange DEF Spans
  <2>2. WriteTable = i
    <3>1. CASE c <= m - 1
      <4>1. tables[1 - i] # {} /\ Lowest(tables[1 - i]) = c
        BY <1>1, <1>2, <3>1, LowestOfRange DEF Spans
      <4> QED
        BY <1>2, <1>4, <2>1, <3>1, <4>1 DEF WriteTable
    <3>2. CASE ~(c <= m - 1)
      <4>1. tables[1 - i] = {}
        BY <1>1, <3>2, NumbersEmpty DEF Spans
      <4> QED
        BY <1>2, <2>1, <4>1 DEF WriteTable
    <3> QED
      BY <3>1, <3>2
  <2> QED
    BY <1>1, <1>3, <2>1, <2>2
<1>6. CASE ~(m <= dbN)
  <2>1. m = dbN + 1 /\ Numbers(tables[i]) = {} /\ Numbers(tables[1 - i]) = c..dbN
        /\ 1 <= c /\ c <= dbN + 1 /\ (c = 1 \/ c + TableRange <= dbN + 1)
    BY <1>1, <1>2, <1>6 DEF Spans
  <2>2. tables[i] = {}
    BY <2>1, NumbersEmpty
  <2>3. CASE c <= dbN
    <3>1. tables[1 - i] # {} /\ Lowest(tables[1 - i]) = c
      BY <1>2, <2>1, <2>3, LowestOfRange
    <3>2. WriteTable = 1 - i
      BY <1>2, <2>2, <3>1 DEF WriteTable
    <3>3. 1 - (1 - i) = i /\ c..c - 1 = {}
      OBVIOUS
    <3>4. Spans(1 - i, c, c)
      <4>1. Numbers(tables[1 - (1 - i)]) = {}
        BY <2>1, <3>3
      <4>2. c <= c /\ c <= dbN + 1
        BY <2>1
      <4> QED
        BY <2>1, <3>3, <4>1, <4>2 DEF Spans
    <3> QED
      BY <1>3, <3>1, <3>2, <3>4
  <2>4. CASE ~(c <= dbN)
    <3>1. c = 1 /\ dbN = 0
      BY <1>2, <2>1, <2>4
    <3>2. tables[1 - i] = {}
      BY <2>1, <3>1, NumbersEmpty
    <3>3. tables[0] = {} /\ tables[1] = {}
      BY <1>2, <2>2, <3>2
    <3>4. WriteTable = 0
      BY <3>3 DEF WriteTable
    <3>5. Spans(0, 1, 1)
      <4>1. Numbers(tables[0]) = {} /\ Numbers(tables[1]) = {}
        BY <3>3, NumbersEmpty
      <4>2. 1..dbN = {} /\ 1..1 - 1 = {} /\ 1 <= dbN + 1
        BY <3>1
      <4>3. 1 - 0 = 1
        OBVIOUS
      <4> QED
        BY <4>1, <4>2, <4>3 DEF Spans
    <3>6. Stored = {}
      BY <3>3 DEF Stored
    <3> QED
      BY <3>1, <3>4, <3>5, <3>6
  <2> QED
    BY <2>3, <2>4
<1> QED
  BY <1>5, <1>6

\* A save that is not writing or dropping a table, and everything else.
LEMMA TablesRest ==
  ASSUME TablesInv, UNCHANGED <<tables, dbN, index, endBlock>>,
         pc' = "down" <=> pc = "down", Turning' <=> Turning
  PROVE  TablesInv'
BY DEF TablesInv, RunningTables, TurningTables, DownTables, Spans

\* A save keeps the invariant of the tables.
LEMMA TablesWrite ==
  ASSUME SaveInv, TablesInv, NEW s \in saves, WriteBlock(s)
  PROVE  TablesInv'
<1>1. /\ saves = {s} /\ pc # "down" /\ s.block.number = dbN + 1 /\ dbN' = dbN + 1
      /\ tables' = [tables EXCEPT ![index] = @ \cup {s.block}]
      /\ dbN \in Nat /\ index \in 0..1 /\ 1 - index \in 0..1 /\ 1 - index # index
      /\ tables \in [0..1 -> SUBSET Blocks] /\ endBlock \in Nat
      /\ s \in SavesType
  BY WhatIsSaved DEF SaveInv, TypeInv, TypeOK, SavesType
<1>2. ~Turning /\ pc' = pc
  BY <1>1 DEF Turning, WriteBlock
<1>3. PICK c \in Nat, m \in Nat :
        /\ Spans(index, c, m)
        /\ endBlock = 0 => dbN = 0
        /\ endBlock # 0 => m + TableRange <= endBlock + 1
  BY <1>1, <1>2 DEF TablesInv, RunningTables
<1>4. /\ Numbers(tables'[index]) = m..dbN' /\ Numbers(tables'[1 - index]) = c..m - 1
      /\ 1 <= c /\ c <= m /\ m <= dbN + 1 /\ m <= dbN' + 1
      /\ c = 1 \/ c + TableRange <= dbN' + 1
  <2>1. tables'[index] = tables[index] \cup {s.block} /\ tables'[1 - index] = tables[1 - index]
    BY <1>1
  <2>2. Numbers(tables[index] \cup {s.block}) = Numbers(tables[index]) \cup {dbN + 1}
    BY <1>1 DEF Numbers
  <2>3. (m..dbN) \cup {dbN + 1} = m..dbN + 1
    BY <1>1, <1>3 DEF Spans
  <2>4. Numbers(tables'[index]) = m..dbN' /\ Numbers(tables'[1 - index]) = c..m - 1
    BY <1>1, <1>3, <2>1, <2>2, <2>3 DEF Spans
  <2>5. /\ 1 <= c /\ c <= m /\ m <= dbN + 1
        /\ c = 1 \/ c + TableRange <= dbN + 1
    BY <1>3 DEF Spans
  <2>6. m <= dbN' + 1 /\ (c = 1 \/ c + TableRange <= dbN' + 1)
    BY <1>1, <2>5
  <2> QED
    BY <2>4, <2>5, <2>6
<1>5. CASE endBlock # 0 /\ dbN + 1 >= endBlock
  <2>1. index' = 1 - index /\ endBlock' = dbN' + TableRange
        /\ saves' = {[s EXCEPT !.stage = "drop"]}
    BY <1>1, <1>5 DEF WriteBlock, OtherTable
  <2>2. Turning'
    BY <1>1, <2>1 DEF Turning, SavesType
  <2>3. 1 - index' = index /\ 1 - (1 - index') = 1 - index
    BY <1>1, <2>1
  <2>4. Spans(1 - index, c, m)'
    BY <1>4, <2>3 DEF Spans
  <2>5. m + TableRange <= dbN' + 1 /\ dbN' + TableRange <= endBlock'
    BY <1>1, <1>3, <1>5, <2>1
  <2>6. TurningTables'
    BY <2>4, <2>5 DEF TurningTables
  <2> QED
    BY <1>1, <1>2, <2>2, <2>6 DEF TablesInv
<1>6. CASE ~(endBlock # 0 /\ dbN + 1 >= endBlock)
  <2>1. index' = index /\ endBlock' = IF endBlock = 0 THEN dbN' + TableRange ELSE endBlock
    BY <1>1, <1>6 DEF WriteBlock
  <2>2. saves' = {[s EXCEPT !.stage = "end"]}
    BY <1>1, <1>6 DEF WriteBlock
  <2>3. ~Turning'
    BY <1>1, <2>2 DEF Turning, SavesType
  <2>4. Spans(index, c, m)'
    BY <1>4, <2>1 DEF Spans
  <2>5. endBlock' # 0 /\ m + TableRange <= endBlock' + 1
    BY <1>1, <1>3, <1>4, <2>1
  <2>6. RunningTables'
    BY <2>4, <2>5 DEF RunningTables
  <2> QED
    BY <1>1, <1>2, <2>3, <2>6 DEF TablesInv
<1> QED
  BY <1>5, <1>6

\* A table that is dropped keeps it.
LEMMA TablesDrop ==
  ASSUME SaveInv, TablesInv, NEW s \in saves, DropTable(s)
  PROVE  TablesInv'
<1>1. /\ saves = {s} /\ s.stage = "drop" /\ pc # "down" /\ s \in SavesType
      /\ UNCHANGED <<pc, index, endBlock, dbN>>
      /\ tables' = [tables EXCEPT ![index] = {}]
      /\ saves' = {[s EXCEPT !.stage = "bottom"]}
      /\ dbN \in Nat /\ index \in 0..1 /\ 1 - index \in 0..1 /\ 1 - index # index
      /\ 1 - (1 - index) = index
      /\ tables \in [0..1 -> SUBSET Blocks] /\ endBlock \in Nat
  BY DEF DropTable, loopVars, SaveInv, SavesInv, SaveIs, TypeInv, TypeOK, SavesType
<1>2. Turning /\ ~Turning'
  BY <1>1 DEF Turning, SavesType
<1>3. PICK c \in Nat, m \in Nat :
        /\ Spans(1 - index, c, m)
        /\ m + TableRange <= dbN + 1
        /\ dbN + TableRange <= endBlock
  BY <1>1, <1>2 DEF TablesInv, TurningTables
<1>4. Spans(index, m, dbN + 1)'
  <2>1. Numbers(tables'[index]) = dbN + 1..dbN
    <3>1. Numbers({}) = {} /\ dbN + 1..dbN = {}
      BY <1>1, NumbersEmpty
    <3> QED
      BY <1>1, <3>1
  <2>2. Numbers(tables'[1 - index]) = m..dbN
    BY <1>1, <1>3 DEF Spans
  <2>3. 1 <= m /\ m <= dbN + 1 /\ dbN + 1 - 1 = dbN
    BY <1>1, <1>3 DEF Spans
  <2>4. m + TableRange <= dbN + 1 /\ dbN + 1 <= dbN + 1
    BY <1>1, <1>3
  <2>5. Numbers(tables'[1 - index]) = m..(dbN + 1 - 1)
    BY <2>2, <2>3
  <2> QED
    BY <1>1, <2>1, <2>3, <2>4, <2>5 DEF Spans
<1>5. endBlock' # 0 /\ dbN + 1 + TableRange <= endBlock' + 1
  BY <1>1, <1>3
<1>6. RunningTables'
  BY <1>1, <1>4, <1>5 DEF RunningTables
<1> QED
  BY <1>1, <1>2, <1>6 DEF TablesInv

\* The start of the process keeps it.
LEMMA TablesStart ==
  ASSUME SaveInv, TablesInv, EmptyBlocks = {}, Start
  PROVE  TablesInv'
<1>1. /\ pc = "down" /\ pc' = "sync" /\ index' = WriteTable /\ UNCHANGED <<tables, dbN, saves>>
      /\ endBlock' = IF Stored = {} THEN 0 ELSE Lowest(tables[WriteTable]) + TableRange
  BY DEF Start
<1>2. PICK c \in Nat, m \in Nat :
        /\ Spans(WriteTable, c, m)
        /\ Stored = {} => dbN = 0
        /\ Stored # {} => Lowest(tables[WriteTable]) = m
  BY <1>1, WriteTableIsNewer DEF SaveInv, TablesInv
<1>3. ~Turning'
  BY <1>1, NoSaveElsewhere DEF Turning
<1>4. Spans(index, c, m)'
  BY <1>1, <1>2 DEF Spans
<1>5. (endBlock' = 0 => dbN' = 0) /\ (endBlock' # 0 => m + TableRange <= endBlock' + 1)
  BY <1>1, <1>2
<1>6. RunningTables'
  BY <1>4, <1>5 DEF RunningTables
<1> QED
  BY <1>1, <1>3, <1>6 DEF TablesInv

\* Every step keeps it.
LEMMA TablesStep ==
  ASSUME SaveInv, TablesInv, EmptyBlocks = {}, [Next]_vars
  PROVE  TablesInv'
<1> USE DEF chainVars, loopVars, workVars, tableVars
<1> DEFINE Rest == /\ UNCHANGED <<tables, dbN, index, endBlock>>
                   /\ pc' = "down" <=> pc = "down"
                   /\ Turning' <=> Turning
<1>1. ASSUME NEW s \in saves, SaveBottomState(s) \/ EndSave(s) PROVE Rest
  <2>1. saves = {s} /\ s \in SavesType /\ pc # "down"
    BY DEF SaveInv, SavesInv, SaveIs, TypeInv, TypeOK, SavesType
  <2>2. s.stage # "drop" /\ saves' \in {{}, {[s EXCEPT !.stage = "end"]}}
    BY <1>1, <2>1 DEF SaveBottomState, EndSave
  <2>3. ~Turning /\ ~Turning'
    BY <2>1, <2>2 DEF Turning, SavesType
  <2>4. UNCHANGED <<tables, dbN, index, endBlock>> /\ pc' # "down"
    BY <1>1, <2>1 DEF SaveBottomState, EndSave, AfterSave
  <2> QED
    BY <2>1, <2>3, <2>4
<1>2. ASSUME saves' = saves \/ \E b, by : saves' = saves \cup {Saving(b, by)}
      PROVE  Turning' <=> Turning
  BY <1>2 DEF Turning, Saving
<1>3. ASSUME LoopStep PROVE Rest
  <2>1. UNCHANGED <<tables, dbN, index, endBlock>> /\ pc' # "down" /\ pc # "down"
    BY <1>3 DEF LoopStep, SyncRound, TrySaveNp1Block, Waited, ReadHeight, ReadNp1, RefreshNp1,
                AfterSave
  <2>2. saves' = saves \/ saves' = saves \cup {Saving(np1, "loop")}
    BY <1>3 DEF LoopStep, SyncRound, TrySaveNp1Block, Waited, ReadHeight, ReadNp1, RefreshNp1
  <2> QED
    BY <1>2, <2>1, <2>2
<1>4. ASSUME NEW p, Complete(p) \/ CompleteCleared(p) \/ FetchReturns(p) PROVE Rest
  <2>1. UNCHANGED <<tables, dbN, index, endBlock, pc>>
    BY <1>4 DEF Complete, CompleteCleared, FetchReturns
  <2>2. saves' = saves \/ \E b : saves' = saves \cup {Saving(b, "processor")}
    BY <1>4 DEF Complete, CompleteCleared, FetchReturns, BlockCompleted
  <2> QED
    BY <1>2, <2>1, <2>2
<1>5. ASSUME Grow \/ Reorganise \/ UNCHANGED vars PROVE Rest
  BY <1>5 DEF Grow, Reorganise, vars, Turning
<1>6. CASE Crash \/ TimesOut
  <2>1. pc' = "down" /\ UNCHANGED <<tables, dbN>>
    BY <1>6 DEF Crash, TimesOut, Exit
  <2>2. DownTables
    BY TablesSpan DEF SaveInv
  <2> QED
    BY <2>1, <2>2 DEF TablesInv, DownTables, Spans
<1>7. Rest => TablesInv'
  BY TablesRest
<1> HIDE DEF Rest
<1> QED
  BY <1>1, <1>3, <1>4, <1>5, <1>6, <1>7, TablesWrite, TablesDrop, TablesStart DEF Next, SaveStep

\* The invariant of the tables holds in every state.
LEMMA TablesInvariant ==
  ASSUME EmptyBlocks = {} PROVE Spec => [](SaveInv /\ TablesInv)
<1>1. Init => TablesInv
  <2> SUFFICES ASSUME Init PROVE TablesInv
    OBVIOUS
  <2>1. Numbers({}) = {} /\ 1..0 = {}
    BY NumbersEmpty
  <2>2. Spans(index, 1, 1)
    BY <2>1 DEF Init, Spans
  <2>3. RunningTables
    BY <2>2 DEF Init, RunningTables
  <2> QED
    BY <2>3 DEF Init, TablesInv, Turning
<1>2. SaveInv /\ TablesInv /\ [Next]_vars => TablesInv'
  BY TablesStep
<1> QED
  BY <1>1, <1>2, SaveInvariant, PTL DEF Spec

\* What the two tables hold together.
LEMMA StoredNumbers ==
  ASSUME TypeInv, NEW i \in 0..1, NEW c \in Nat, NEW m \in Nat, Spans(i, c, m)
  PROVE  Numbers(Stored) = c..dbN /\ dbN \in 0..MaxHeight
<1>1. dbN \in 0..MaxHeight /\ Stored = tables[i] \cup tables[1 - i]
  BY DEF TypeInv, TypeOK, Stored
<1>2. Numbers(Stored) = Numbers(tables[i]) \cup Numbers(tables[1 - i])
  BY <1>1 DEF Numbers
<1>3. (m..dbN) \cup (c..m - 1) = c..dbN
  BY <1>1 DEF Spans
<1> QED
  BY <1>1, <1>2, <1>3 DEF Spans

\* A block that is saved twice, or a hole, would have the next start of the
\* indexer reset the database: neither happens, in whatever stage of a save or
\* of a change of tables the process ends.
THEOREM NoGaps == ASSUME EmptyBlocks = {} PROVE Spec => []TablesContinuous
<1>1. SaveInv /\ TablesInv => TablesContinuous
  <2> SUFFICES ASSUME SaveInv, TablesInv PROVE TablesContinuous
    OBVIOUS
  <2>1. PICK i \in 0..1, c \in Nat, m \in Nat : Spans(i, c, m)
    BY TablesSpan DEF SaveInv, DownTables
  <2>2. Numbers(Stored) = c..dbN /\ dbN \in 0..MaxHeight
    BY <2>1, StoredNumbers DEF SaveInv
  <2>3. /\ Numbers(tables[i]) = m..dbN /\ Numbers(tables[1 - i]) = c..m - 1
        /\ 1 <= c /\ c <= m /\ m <= dbN + 1 /\ 1 - i \in 0..1
        /\ \A j \in 0..1 : j = i \/ j = 1 - i
    BY <2>1 DEF Spans
  <2>4. ASSUME NEW S, NEW a \in 1..MaxHeight + 1, NEW b \in 0..MaxHeight, S = a..b
        PROVE  S = {n \in 1..MaxHeight : \E x, y \in S : x <= n /\ n <= y}
    BY <2>4
  <2>5. ASSUME NEW j \in 0..1
        PROVE  Numbers(tables[j]) = {n \in 1..MaxHeight :
                 \E x, y \in Numbers(tables[j]) : x <= n /\ n <= y}
    <3>1. CASE j = i
      <4>1. m \in 1..MaxHeight + 1
        BY <2>2, <2>3
      <4> QED
        BY <2>2, <2>3, <2>4, <3>1, <4>1
    <3>2. CASE j = 1 - i
      <4>1. c \in 1..MaxHeight + 1 /\ m - 1 \in 0..MaxHeight
        BY <2>2, <2>3
      <4> QED
        BY <2>3, <2>4, <3>2, <4>1
    <3> QED
      BY <2>3, <3>1, <3>2
  <2>6. Numbers(Stored) = {n \in 1..dbN : \E x \in Numbers(Stored) : x <= n}
    BY <2>2, <2>3
  <2>7. Numbers(tables[0]) \cap Numbers(tables[1]) = {}
    <3>1. (m..dbN) \cap (c..m - 1) = {}
      OBVIOUS
    <3>2. (i = 0 /\ 1 - i = 1) \/ (i = 1 /\ 1 - i = 0)
      OBVIOUS
    <3> QED
      BY <2>3, <3>1, <3>2
  <2> QED
    BY <2>5, <2>6, <2>7 DEF TablesContinuous
<1> QED
  BY <1>1, TablesInvariant, PTL

\* A change of the tables never drops a part of the history that the
\* configuration promises (Interlacing.update), whatever was restarted before.
THEOREM HistoryIsKept == ASSUME EmptyBlocks = {} PROVE Spec => []HistoryKept
<1>1. SaveInv /\ TablesInv => HistoryKept
  <2> SUFFICES ASSUME SaveInv, TablesInv, dbN >= TableRange, NEW n \in dbN - TableRange + 1..dbN
               PROVE  n \in Numbers(Stored)
    BY DEF HistoryKept
  <2>1. PICK i \in 0..1, c \in Nat, m \in Nat : Spans(i, c, m)
    BY TablesSpan DEF SaveInv, DownTables
  <2>2. Numbers(Stored) = c..dbN /\ dbN \in 0..MaxHeight
    BY <2>1, StoredNumbers DEF SaveInv
  <2>3. c <= n
    BY <2>1, <2>2 DEF Spans
  <2> QED
    BY <2>2, <2>3
<1> QED
  BY <1>1, TablesInvariant, PTL

-----------------------------------------------------------------------------
(* The bottom state.                                                         *)

BottomInv == BottomIsTrue /\ (dbN = 0 => bottom = 0)

\* Nothing is stored until a block has been saved.
LEMMA EmptyAtFirst ==
  ASSUME TypeInv, TablesInv
  PROVE  /\ Stored = {} <=> dbN = 0
         /\ \A b \in Stored : b.number <= dbN
<1>1. PICK i \in 0..1, c \in Nat, m \in Nat : Spans(i, c, m)
  BY TablesSpan DEF DownTables
<1>2. Numbers(Stored) = c..dbN /\ dbN \in 0..MaxHeight
  BY <1>1, StoredNumbers
<1>3. Numbers(Stored) = {} <=> dbN = 0
  BY <1>1, <1>2 DEF Spans
<1>4. \A b \in Stored : b.number \in Numbers(Stored)
  BY DEF Numbers
<1>5. \A b \in Stored : b.number <= dbN
  BY <1>2, <1>4
<1> QED
  BY <1>3, <1>5, NumbersEmpty

\* The bottom after a save is the lowest block.
LEMMA BottomWrite ==
  ASSUME SaveInv, TablesInv, BottomInv, NEW s \in saves, WriteBlock(s)
  PROVE  bottom' = Lowest(Stored')
<1>1. /\ saves = {s} /\ pc # "down" /\ s.stage = "write" /\ s.block \in Blocks
      /\ s.block.number = dbN + 1 /\ dbN \in Nat /\ Stored \subseteq Blocks
      /\ Stored' = Stored \cup {s.block}
  <2>1. tables \in [0..1 -> SUBSET Blocks] /\ index \in 0..1
    BY DEF SaveInv, TypeInv, TypeOK
  <2>2. Stored' = Stored \cup {s.block} /\ Stored \subseteq Blocks
    BY <2>1, WhatIsSaved DEF Stored
  <2>3. saves = {s} /\ pc # "down" /\ s.block \in Blocks /\ s.block.number = dbN + 1
    BY WhatIsSaved
  <2>4. s.stage = "write"
    BY DEF WriteBlock
  <2>5. dbN \in Nat
    BY DEF SaveInv, TypeInv, TypeOK
  <2> QED
    BY <2>2, <2>3, <2>4, <2>5
<1>2. bottom = Lowest(Stored)
  BY <1>1 DEF BottomInv, BottomIsTrue
<1>3. bottom' = IF bottom = 0 THEN Min(Numbers(Stored \cup {s.block})) ELSE bottom
  BY DEF WriteBlock
<1>4. Stored' # {} /\ Stored' \subseteq Blocks
  BY <1>1
<1>5. CASE bottom = 0
  BY <1>1, <1>3, <1>4, <1>5 DEF Lowest
<1>6. CASE bottom # 0
  <2>1. Stored # {} /\ bottom \in Numbers(Stored) /\ \A n \in Numbers(Stored) : bottom <= n
    BY <1>1, <1>2, <1>6, LowestIsLeast
  <2>2. \A b \in Stored : b.number <= dbN
    BY EmptyAtFirst DEF SaveInv
  <2>3. Numbers(Stored') = Numbers(Stored) \cup {dbN + 1}
    BY <1>1 DEF Numbers
  <2>4. bottom \in Nat /\ bottom <= dbN
    BY <2>1, <2>2 DEF Numbers, SaveInv, TypeInv, TypeOK
  <2>5. bottom \in Numbers(Stored') /\ \A n \in Numbers(Stored') : bottom <= n
    BY <1>1, <2>1, <2>3, <2>4
  <2>6. Lowest(Stored') \in Numbers(Stored') /\ Lowest(Stored') <= bottom /\ Lowest(Stored') \in Nat
    BY <1>4, <2>5, LowestIsLeast
  <2> QED
    BY <1>3, <1>6, <2>4, <2>5, <2>6
<1> QED
  BY <1>5, <1>6

\* Every step keeps the bottom.
LEMMA BottomStep ==
  ASSUME SaveInv, TablesInv, BottomInv, EmptyBlocks = {}, [Next]_vars
  PROVE  BottomInv'
<1> USE DEF chainVars, loopVars, workVars, tableVars
<1>0. dbN \in Nat /\ (Stored = {} <=> dbN = 0) /\ Stored \subseteq Blocks
  BY EmptyAtFirst DEF SaveInv, TypeInv, TypeOK, Stored
<1>1. ASSUME NEW s \in saves, WriteBlock(s) PROVE BottomInv'
  <2>1. dbN' = dbN + 1 /\ bottom' = Lowest(Stored')
    BY <1>1, BottomWrite, WhatIsSaved
  <2>2. Lowest(Stored)' = Lowest(Stored')
    BY DEF Lowest, Numbers
  <2> QED
    BY <1>0, <2>1, <2>2 DEF BottomInv, BottomIsTrue
<1>2. ASSUME NEW s \in saves, DropTable(s) PROVE BottomInv'
  <2>0. s \in SavesType /\ [s EXCEPT !.stage = "bottom"] \in saves'
    BY <1>2 DEF DropTable, SaveInv, TypeInv, TypeOK, SavesType
  <2>1. \E t \in saves' : t.stage = "bottom"
    BY <2>0 DEF SavesType
  <2> QED
    BY <1>2, <2>1 DEF DropTable, BottomInv, BottomIsTrue
<1>3. ASSUME NEW s \in saves, SaveBottomState(s) PROVE BottomInv'
  <2>1. bottom' = Lowest(Stored) /\ UNCHANGED <<tables, dbN>>
    BY <1>3 DEF SaveBottomState
  <2>2. dbN = 0 => Lowest(Stored) = 0
    BY <1>0 DEF Lowest
  <2> QED
    BY <2>1, <2>2 DEF BottomInv, BottomIsTrue, Stored
<1> DEFINE Rest == /\ UNCHANGED <<tables, dbN, bottom>>
                   /\ pc # "down" \/ pc' = "down"
                   /\ (\E s \in saves : s.stage = "bottom") => \E s \in saves' : s.stage = "bottom"
<1>4. Rest => BottomInv'
  BY DEF BottomInv, BottomIsTrue, Stored
<1>5. ASSUME NEW s \in saves, EndSave(s) PROVE Rest
  <2>1. saves = {s} /\ s.stage = "end" /\ pc # "down" /\ UNCHANGED <<tables, dbN, bottom>>
    BY <1>5 DEF EndSave, SaveInv, SavesInv, SaveIs, TypeInv, TypeOK
  <2> QED
    BY <2>1
<1>6. ASSUME LoopStep PROVE Rest
  <2>1. UNCHANGED <<tables, dbN, bottom>> /\ pc # "down" /\ saves \subseteq saves'
    BY <1>6 DEF LoopStep, SyncRound, TrySaveNp1Block, Waited, ReadHeight, ReadNp1, RefreshNp1
  <2> QED
    BY <2>1
<1>7. ASSUME NEW p, Complete(p) \/ CompleteCleared(p) \/ FetchReturns(p) PROVE Rest
  <2>1. UNCHANGED <<tables, dbN, bottom, pc>> /\ saves \subseteq saves'
    BY <1>7 DEF Complete, CompleteCleared, FetchReturns, BlockCompleted
  <2> QED
    BY <2>1
<1>8. ASSUME Grow \/ Reorganise \/ UNCHANGED vars PROVE Rest
  BY <1>8 DEF Grow, Reorganise, vars
<1>9. CASE Crash \/ TimesOut
  BY <1>9 DEF Crash, TimesOut, Exit, BottomInv, BottomIsTrue
<1>10. CASE Start
  <2>1. bottom' = (IF Stored = {} THEN bottom ELSE Lowest(Stored)) /\ UNCHANGED <<tables, dbN>>
    BY <1>10 DEF Start
  <2>2. bottom' = Lowest(Stored)
    BY <1>0, <2>1 DEF BottomInv, Lowest
  <2>3. dbN = 0 => Lowest(Stored) = 0
    BY <1>0 DEF Lowest
  <2> QED
    BY <2>1, <2>2, <2>3 DEF BottomInv, BottomIsTrue, Stored
<1> HIDE DEF Rest
<1> QED
  BY <1>1, <1>2, <1>3, <1>4, <1>5, <1>6, <1>7, <1>8, <1>9, <1>10 DEF Next, SaveStep

\* While the indexer runs and no table is being dropped, the queries are told
\* the true first block of the tables, also after a crash that left the old one.
THEOREM BottomStateIsTrue == ASSUME EmptyBlocks = {} PROVE Spec => []BottomIsTrue
<1>1. Init => BottomInv
  BY DEF Init, BottomInv, BottomIsTrue, Lowest, Stored
<1>2. SaveInv /\ TablesInv /\ BottomInv /\ [Next]_vars => BottomInv'
  BY BottomStep
<1>3. BottomInv => BottomIsTrue
  BY DEF BottomInv
<1> QED
  BY <1>1, <1>2, <1>3, TablesInvariant, PTL DEF Spec

-----------------------------------------------------------------------------
(* The indexer implements IndexedChain.                                      *)

\* What the node does is a step of the indexed chain.
LEMMA ChangesChain ==
  ASSUME TypeInv, Grow \/ Reorganise
  PROVE  [Indexed!Next]_<<chain, Stored, dbN>>
<1>1. UNCHANGED <<Stored, dbN>>
  BY DEF Grow, Reorganise, tableVars, Stored
<1>2. CASE Grow
  <2>1. forks \in 0..MaxForks
    BY DEF TypeInv, TypeOK
  <2> QED
    BY <1>1, <1>2, <2>1 DEF Grow, Indexed!Next, Indexed!Extend
<1>3. CASE Reorganise
  <2>1. chain' \in Seq(0..MaxForks) /\ Len(chain') = Len(chain) /\ Len(chain) \in Nat
    BY <1>3, ReorganiseType DEF TypeInv, TypeOK
  <2>2. \A h \in 1..Len(chain) - Confirmations : chain'[h] = chain[h]
    BY <1>3, ConfirmedStays DEF BlockAt
  <2> QED
    BY <1>1, <2>1, <2>2 DEF Indexed!Next, Indexed!Replace
<1> QED
  BY <1>2, <1>3

\* A save is a save of the indexed chain.
LEMMA SavesChain ==
  ASSUME SaveInv, NEW s \in saves, WriteBlock(s)
  PROVE  Indexed!Save
<1>1. /\ s.block = BlockAt(dbN + 1) /\ dbN' = dbN + 1
      /\ dbN + 1 \in 1..Len(chain) - Confirmations
      /\ tables' = [tables EXCEPT ![index] = @ \cup {s.block}]
  BY WhatIsSaved
<1>2. tables \in [0..1 -> SUBSET Blocks] /\ index \in 0..1 /\ UNCHANGED chain
  BY DEF SaveInv, TypeInv, TypeOK, WriteBlock, chainVars
<1>3. Stored' = Stored \cup {BlockAt(dbN + 1)}
  BY <1>1, <1>2 DEF Stored
<1> QED
  BY <1>1, <1>2, <1>3 DEF Indexed!Save, BlockAt

\* A table that is dropped is history that the indexed chain forgets.
LEMMA DropsHistory ==
  ASSUME SaveInv, TablesInv, NEW s \in saves, DropTable(s)
  PROVE  Indexed!Forget
<1>1. /\ pc # "down" /\ Turning /\ UNCHANGED <<chain, dbN>>
      /\ tables' = [tables EXCEPT ![index] = {}]
      /\ dbN \in Nat /\ index \in 0..1 /\ 1 - index \in 0..1 /\ 1 - index # index
      /\ tables \in [0..1 -> SUBSET Blocks]
  BY DEF DropTable, Turning, chainVars, loopVars, SaveInv, SavesInv, SaveIs, TypeInv, TypeOK
<1>2. PICK c \in Nat, m \in Nat :
        /\ Numbers(tables[1 - index]) = m..dbN
        /\ Numbers(tables[index]) = c..m - 1
        /\ 1 <= m /\ m + TableRange <= dbN + 1
  <2>1. 1 - (1 - index) = index
    BY <1>1
  <2> QED
    BY <1>1, <2>1 DEF TablesInv, TurningTables, Spans
<1>3. Stored = tables[index] \cup tables[1 - index] /\ Stored' = tables[1 - index]
  BY <1>1 DEF Stored
<1>4. \A b \in tables[index] : ~(b.number >= m)
  <2>1. \A b \in tables[index] : b.number \in c..m - 1
    BY <1>2 DEF Numbers
  <2> QED
    BY <2>1
<1>5. \A b \in tables[1 - index] : b.number >= m
  <2>1. \A b \in tables[1 - index] : b.number \in m..dbN
    BY <1>2 DEF Numbers
  <2> QED
    BY <2>1
<1>6. Stored' = {b \in Stored : b.number >= m}
  BY <1>3, <1>4, <1>5
<1>7. m \in 1..dbN + 1 - TableRange
  BY <1>1, <1>2, IndexerAssumption
<1> QED
  BY <1>1, <1>6, <1>7 DEF Indexed!Forget

\* Every step is a step of the indexed chain, or changes nothing of it.
LEMMA IndexedStep ==
  ASSUME SaveInv, TablesInv, [Next]_vars
  PROVE  [Indexed!Next]_<<chain, Stored, dbN>>
<1> USE DEF chainVars, loopVars, workVars, tableVars
<1>0. TypeInv
  BY DEF SaveInv
<1>1. CASE Grow \/ Reorganise
  BY <1>0, <1>1, ChangesChain
<1>2. ASSUME NEW s \in saves, WriteBlock(s) PROVE Indexed!Next
  BY <1>2, SavesChain DEF Indexed!Next
<1>3. ASSUME NEW s \in saves, DropTable(s) PROVE Indexed!Next
  BY <1>3, DropsHistory DEF Indexed!Next
<1> DEFINE Rest == UNCHANGED <<chain, tables, dbN>>
<1>4. ASSUME NEW s \in saves, SaveBottomState(s) \/ EndSave(s) PROVE Rest
  BY <1>4 DEF SaveBottomState, EndSave
<1>5. ASSUME LoopStep PROVE Rest
  BY <1>5 DEF LoopStep, SyncRound, TrySaveNp1Block, Waited, ReadHeight, ReadNp1, RefreshNp1
<1>6. ASSUME Crash \/ TimesOut \/ Start PROVE Rest
  BY <1>6 DEF Crash, TimesOut, Exit, Start
<1>7. ASSUME NEW p, Complete(p) \/ CompleteCleared(p) \/ FetchReturns(p) PROVE Rest
  BY <1>7 DEF Complete, CompleteCleared, FetchReturns
<1>8. Rest => UNCHANGED <<chain, Stored, dbN>>
  BY DEF Stored
<1>9. UNCHANGED vars => Rest
  BY DEF vars
<1> HIDE DEF Rest
<1> QED
  BY <1>1, <1>2, <1>3, <1>4, <1>5, <1>6, <1>7, <1>8, <1>9 DEF Next, SaveStep

\* The two tables and N in the database implement IndexedChain: seen from the
\* queries, an indexer that reads ahead, is overtaken by reorganisations and
\* crashes in the middle of a save is the one that saves confirmed blocks in
\* order and forgets none of the last TableRange blocks.
THEOREM IndexerImplementsIndexedChain ==
  ASSUME EmptyBlocks = {} PROVE Spec => ImplementsIndexedChain
<1>1. Init => Indexed!Init
  <2> SUFFICES ASSUME Init PROVE Indexed!Init
    OBVIOUS
  <2>1. chain \in Seq(0..MaxForks)
    BY InitTypeInv DEF TypeInv, TypeOK
  <2> QED
    BY <2>1 DEF Init, Indexed!Init, Stored
<1>2. SaveInv /\ TablesInv /\ [Next]_vars => [Indexed!Next]_(Indexed!vars)
  BY IndexedStep DEF Indexed!vars
<1> QED
  BY <1>1, <1>2, TablesInvariant, PTL DEF Spec, ImplementsIndexedChain, Indexed!Spec
=============================================================================
