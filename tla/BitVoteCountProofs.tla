------------------------- MODULE BitVoteCountProofs -------------------------
(***************************************************************************)
(* What the bit vote promises, for any set of providers, number of         *)
(* requests, length of the bytes and deadline.                             *)
(*                                                                         *)
(* Providers that count when the chain tells them to choose the same       *)
(* requests: what they choose depends only on the votes of the blocks      *)
(* before the first one past the deadline, and those are never written     *)
(* again.  What is chosen is the candidate that is sorted last, for the    *)
(* order of the candidates is one and they are finitely many; so it is that *)
(* of a group, whose members have sent what was read of them.              *)
(***************************************************************************)
EXTENDS BitVoteCount, FiniteSetTheorems, WellFoundedInduction, TLAPS

\* The blocks a provider has read, and that they belong to the chain.
ReadInv ==
  /\ chain \in Seq([time : Nat, votes : SUBSET [by : Providers, mask : Masks]])
  /\ mined \subseteq [by : Providers, mask : Masks]
  /\ now \in Nat
  /\ read \in [Providers -> Nat]
  /\ \A p \in Providers : read[p] <= Len(chain)
  /\ listed \in [Providers -> 0..NumRequests]
  /\ forced \in [Providers -> BOOLEAN]
  /\ DOMAIN result = Providers

\* The masks that have been sent.
CastInv ==
  /\ cast \in [Providers -> Masks \cup {None}]

\* The count always gives something.
LEMMA OutcomeIsSome ==
  ASSUME NEW votes, NEW n \in 0..NumRequests PROVE Outcome(votes, n) # None
PROOF
<1>1. ChooseCandidate(votes).ones \cap 0..(n - 1) \in SUBSET (0..(NumRequests - 1))
  BY VoteAssumption
<1>2. {} \in SUBSET (0..(NumRequests - 1))
  OBVIOUS
<1>3. Outcome(votes, n) \in {Exit} \cup SUBSET (0..(NumRequests - 1))
  BY <1>1, <1>2 DEF Outcome
<1> QED BY <1>3, VoteAssumption

\* The votes of the first n blocks.
VotesUpTo(n) == [q \in Providers |-> MaskOf(VotesIn(1..n), q)]

\* The first block past the deadline.
FirstPast(n) ==
  /\ n \in DOMAIN chain
  /\ PastVoting(chain[n].time)
  /\ \A i \in 1..(n - 1) : ~PastVoting(chain[i].time)

\* A provider that has not counted has read no block past the deadline; one that
\* has counted in time stopped at the first of them, and counted those before.
CountOf(p) ==
  /\ result[p] = None => \A i \in 1..read[p] : ~PastVoting(chain[i].time)
  /\ (result[p] # None /\ ~forced[p]) =>
       /\ FirstPast(read[p])
       /\ result[p] = Outcome(VotesUpTo(read[p] - 1), NumRequests)

CountInv == \A p \in Providers : CountOf(p)

VoteInv == ReadInv /\ CastInv /\ CountInv

-----------------------------------------------------------------------------
\* The model's initial states satisfy the invariant: nothing is read.
LEMMA InitVoteInv == Init => VoteInv
PROOF
<1> SUFFICES ASSUME Init PROVE VoteInv
  OBVIOUS
<1> USE VoteAssumption DEF Init
<1>1. ReadInv
  BY DEF ReadInv
<1>2. CastInv
  BY DEF CastInv
<1>3. CountInv
  BY DEF CountInv, CountOf
<1> QED BY <1>1, <1>2, <1>3 DEF VoteInv

\* Appending a block changes neither the blocks before it nor their votes.
LEMMA BlocksStay ==
  ASSUME NEW b, NEW S, chain \in Seq(S), chain' = Append(chain, b)
  PROVE  /\ Len(chain') = Len(chain) + 1
         /\ \A i \in 1..Len(chain) : chain'[i] = chain[i]
         /\ \A n \in 0..Len(chain) : VotesIn(1..n)' = VotesIn(1..n)
         /\ \A n \in 0..Len(chain) : VotesUpTo(n)' = VotesUpTo(n)
PROOF
<1>1. Len(chain') = Len(chain) + 1 /\ \A i \in 1..Len(chain) : chain'[i] = chain[i]
  OBVIOUS
<1>2. ASSUME NEW n \in 0..Len(chain) PROVE VotesIn(1..n)' = VotesIn(1..n)
  <2>1. \A i \in 1..n : chain'[i] = chain[i]
    BY <1>1
  <2> QED BY <2>1 DEF VotesIn
<1>3. ASSUME NEW n \in 0..Len(chain) PROVE VotesUpTo(n)' = VotesUpTo(n)
  BY <1>2 DEF VotesUpTo
<1> QED BY <1>1, <1>2, <1>3

\* What a provider has counted stays while it and the chain do not move.
LEMMA CountStays ==
  ASSUME NEW q \in Providers, CountOf(q),
         UNCHANGED <<chain, read[q], result[q], forced[q]>>
  PROVE  CountOf(q)'
PROOF
<1>1. \A n : VotesIn(1..n)' = VotesIn(1..n)
  BY DEF VotesIn
<1>2. VotesUpTo(read[q] - 1)' = VotesUpTo(read[q] - 1)
  BY <1>1 DEF VotesUpTo, VotesIn
<1>3. FirstPast(read[q])' <=> FirstPast(read[q])
  BY DEF FirstPast, PastVoting
<1>4. Outcome(VotesUpTo(read[q] - 1), NumRequests)' = Outcome(VotesUpTo(read[q] - 1), NumRequests)
  BY <1>2 DEF Outcome
<1> QED BY <1>3, <1>4 DEF CountOf, PastVoting

\* Every step keeps the invariant.
LEMMA NextVoteInv == VoteInv /\ [Next]_vars => VoteInv'
PROOF
<1> SUFFICES ASSUME VoteInv, [Next]_vars PROVE VoteInv'
  OBVIOUS
<1> USE VoteAssumption DEF VoteInv
<1>1. CASE EndBlock
  <2> DEFINE b == [time |-> now, votes |-> mined]
  <2>1. /\ chain' = Append(chain, b) /\ mined' = {} /\ now' \in {now, now + 1}
        /\ UNCHANGED <<listed, cast, read, result, forced>>
    BY <1>1 DEF EndBlock
  <2>2. b \in [time : Nat, votes : SUBSET [by : Providers, mask : Masks]]
    BY DEF ReadInv
  <2>3. /\ Len(chain') = Len(chain) + 1
        /\ \A i \in 1..Len(chain) : chain'[i] = chain[i]
        /\ \A n \in 0..Len(chain) : VotesUpTo(n)' = VotesUpTo(n)
    BY <2>1, BlocksStay DEF ReadInv
  <2> HIDE DEF b
  <2>4. ReadInv'
    BY <2>1, <2>2, <2>3 DEF ReadInv
  <2>5. CastInv'
    BY <2>1 DEF CastInv
  <2>6. ASSUME NEW p \in Providers, result'[p] = None
        PROVE  \A i \in 1..read'[p] : ~PastVoting(chain'[i].time)
    BY <2>1, <2>3, <2>6 DEF CountInv, CountOf, ReadInv
  <2>7. ASSUME NEW p \in Providers, result'[p] # None, ~forced'[p]
        PROVE  /\ FirstPast(read[p])'
               /\ result'[p] = Outcome(VotesUpTo(read[p] - 1)', NumRequests)
    <3>1. FirstPast(read[p]) /\ result[p] = Outcome(VotesUpTo(read[p] - 1), NumRequests)
      BY <2>1, <2>7 DEF CountInv, CountOf
    <3>2. read[p] \in 1..Len(chain)
      BY <3>1 DEF FirstPast, ReadInv
    <3>3. VotesUpTo(read[p] - 1)' = VotesUpTo(read[p] - 1)
      <4>1. read[p] - 1 \in 0..Len(chain) /\ read' = read
        BY <3>2, <2>1
      <4> QED BY <4>1, <2>3, <2>1
    <3>4. FirstPast(read[p])'
      BY <3>1, <3>2, <2>1, <2>3 DEF FirstPast, ReadInv
    <3> QED BY <3>1, <3>3, <3>4, <2>1
  <2>8. CountInv'
    BY <2>6, <2>7 DEF CountInv, CountOf, Outcome
  <2> QED BY <2>4, <2>5, <2>8
<1>2. ASSUME NEW p \in Providers, ReadBlock(p) PROVE VoteInv'
  <2> DEFINE block == chain[read[p] + 1]
  <2>1. /\ result[p] = None /\ listed[p] = NumRequests /\ read[p] < Len(chain)
        /\ read' = [read EXCEPT ![p] = @ + 1]
        /\ result' = [result EXCEPT ![p] =
                        IF PastVoting(block.time) THEN Outcome(VotesRead(p), listed[p])
                        ELSE None]
        /\ UNCHANGED <<now, mined, chain, listed, cast, forced>>
    BY <1>2 DEF ReadBlock
  <2>2. ReadInv'
    BY <2>1 DEF ReadInv
  <2>3. CastInv'
    BY <2>1 DEF CastInv
  <2>4. \A i \in 1..read[p] : ~PastVoting(chain[i].time)
    BY <2>1 DEF CountInv, CountOf
  <2>5. read[p] + 1 \in DOMAIN chain /\ read'[p] = read[p] + 1 /\ read[p] \in Nat
    BY <2>1 DEF ReadInv
  <2>6. ASSUME NEW q \in Providers, q # p PROVE CountOf(q)'
    <3>1. CountOf(q)
      BY DEF CountInv
    <3> QED BY <2>1, <2>6, <3>1, CountStays DEF ReadInv
  <2>7. CASE PastVoting(block.time)
    <3>1. VotesUpTo(read[p] - 1)' = VotesRead(p)
      <4>1. read'[p] - 1 = read[p] /\ chain' = chain
        BY <2>5, <2>1
      <4>2. VotesIn(1..(read[p] - 1))' = VotesIn(1..read[p])
        BY <4>1 DEF VotesIn
      <4> QED BY <4>1 DEF VotesRead, VotesUpTo, VotesIn
    <3>2. result'[p] = Outcome(VotesUpTo(read[p] - 1)', NumRequests)
      <4>1. result'[p] = Outcome(VotesRead(p), NumRequests)
        BY <2>1, <2>7 DEF ReadInv
      <4> QED BY <4>1, <3>1
    <3>3. FirstPast(read[p])'
      BY <2>1, <2>4, <2>5, <2>7 DEF FirstPast, PastVoting
    <3>4. result'[p] # None
      BY <3>2, OutcomeIsSome
    <3>5. CountOf(p)'
      BY <3>2, <3>3, <3>4 DEF CountOf, Outcome
    <3> QED BY <3>5, <2>6, <2>2, <2>3 DEF CountInv
  <2>8. CASE ~PastVoting(block.time)
    <3>1. result'[p] = None /\ \A i \in 1..read'[p] : ~PastVoting(chain'[i].time)
      BY <2>1, <2>4, <2>5, <2>8 DEF ReadInv
    <3>2. CountOf(p)'
      BY <3>1 DEF CountOf, PastVoting
    <3> QED BY <3>2, <2>6, <2>2, <2>3 DEF CountInv
  <2> QED BY <2>7, <2>8
<1>3. ASSUME NEW p \in Providers, ForceClose(p) PROVE VoteInv'
  <2>1. /\ forced' = [forced EXCEPT ![p] = TRUE]
        /\ result' = [result EXCEPT ![p] = Outcome(VotesRead(p), listed[p])]
        /\ UNCHANGED <<now, mined, chain, listed, cast, read>>
    BY <1>3 DEF ForceClose
  <2>2. result'[p] # None /\ forced'[p]
    BY <2>1, OutcomeIsSome DEF ReadInv
  <2>3. ReadInv'
    BY <2>1 DEF ReadInv
  <2>4. CastInv'
    BY <2>1 DEF CastInv
  <2>5. CountOf(p)'
    BY <2>2 DEF CountOf
  <2>6. ASSUME NEW q \in Providers, q # p PROVE CountOf(q)'
    <3>1. CountOf(q)
      BY DEF CountInv
    <3> QED BY <2>1, <2>6, <3>1, CountStays DEF ReadInv
  <2> QED BY <2>3, <2>4, <2>5, <2>6 DEF CountInv
<1>4. ASSUME UNCHANGED <<chain, read, result, forced>> PROVE CountInv'
  <2>1. ASSUME NEW q \in Providers PROVE CountOf(q)'
    <3>1. CountOf(q)
      BY DEF CountInv
    <3> QED BY <1>4, <3>1, CountStays
  <2> QED BY <2>1 DEF CountInv
<1>6. ASSUME NEW p \in Providers, ReadRequest(p) PROVE VoteInv'
  <2>1. UNCHANGED <<now, mined, chain, cast, read, result, forced>>
        /\ listed[p] < NumRequests /\ listed' = [listed EXCEPT ![p] = @ + 1]
    BY <1>6 DEF ReadRequest
  <2> QED BY <2>1, <1>4 DEF ReadInv, CastInv
<1>7. ASSUME NEW p \in Providers, SubmitBitVote(p) PROVE VoteInv'
  <2>1. PICK valid \in SUBSET (0..(listed[p] - 1)) :
          cast' = [cast EXCEPT ![p] = [bytes |-> Bytes(listed[p]), ones |-> valid]]
    BY <1>7 DEF SubmitBitVote
  <2>2. UNCHANGED <<now, mined, chain, listed, read, result, forced>>
    BY <1>7 DEF SubmitBitVote
  <2>3. Bytes(listed[p]) \in Nat
    <3>1. listed[p] + ByteBits - 1 \in Nat /\ ByteBits \in Nat \ {0}
      BY DEF ReadInv
    <3>2. \A a \in Nat : \A b \in Nat \ {0} : a \div b \in Nat
      BY Z3T(30)
    <3> QED BY <3>1, <3>2 DEF Bytes
  <2>4. valid \in SUBSET Nat
    BY DEF ReadInv
  <2>5. CastInv'
    BY <2>1, <2>3, <2>4 DEF CastInv, Masks
  <2> QED BY <2>2, <2>5, <1>4 DEF ReadInv
<1>8. ASSUME NEW p \in Providers, MineVote(p) PROVE VoteInv'
  <2>1. /\ cast[p] # None /\ mined' = mined \cup {[by |-> p, mask |-> cast[p]]}
        /\ UNCHANGED <<now, chain, listed, cast, read, result, forced>>
    BY <1>8 DEF MineVote
  <2>2. [by |-> p, mask |-> cast[p]] \in [by : Providers, mask : Masks]
    BY <2>1 DEF CastInv
  <2> QED BY <2>1, <2>2, <1>4 DEF ReadInv, CastInv
<1>5. CASE UNCHANGED vars
  BY <1>5, <1>4 DEF vars, ReadInv, CastInv
<1> QED BY <1>1, <1>2, <1>3, <1>5, <1>6, <1>7, <1>8 DEF Next, ProviderStep

-----------------------------------------------------------------------------
\* Two providers that counted in time stopped at the same block.
LEMMA AgreementFromInv == VoteInv => ResultsAgree
PROOF
<1> SUFFICES ASSUME VoteInv,
                    NEW p \in Providers, NEW q \in Providers,
                    result[p] # None, result[q] # None, ~forced[p], ~forced[q]
             PROVE  result[p] = result[q]
  BY DEF ResultsAgree
<1>1. /\ FirstPast(read[p]) /\ result[p] = Outcome(VotesUpTo(read[p] - 1), NumRequests)
      /\ FirstPast(read[q]) /\ result[q] = Outcome(VotesUpTo(read[q] - 1), NumRequests)
  BY DEF VoteInv, CountInv, CountOf
<1>2. read[p] = read[q]
  <2>1. read[p] \in Nat \ {0} /\ read[q] \in Nat \ {0}
    BY <1>1 DEF FirstPast, VoteInv, ReadInv
  <2>2. ~(read[p] < read[q]) /\ ~(read[q] < read[p])
    BY <1>1, <2>1 DEF FirstPast
  <2> QED BY <2>1, <2>2
<1> QED BY <1>1, <1>2

\* Providers that count when the chain tells them to choose the same requests,
\* whatever the number of providers, requests and blocks.
THEOREM ProvidersAgree == Spec => []ResultsAgree
PROOF
<1>1. Spec => []VoteInv
  BY InitVoteInv, NextVoteInv, PTL DEF Spec
<1> QED BY <1>1, AgreementFromInv, PTL

-----------------------------------------------------------------------------
(* The order of the candidates.                                              *)

\* The masks of a provider that has read the whole list or a part of it.
BytesBound == NumRequests + ByteBits
ListMasks == [bytes : 0..BytesBound, ones : SUBSET Indices]

\* The library states this of a relation made from an operator.
LEMMA LessThanWellFounded == IsWellFoundedOn({ss \in Nat \X Nat : ss[1] < ss[2]}, Nat)
PROOF BY NatLessThanWellFounded DEF OpToRel

\* A set of natural numbers that is not empty has a least element.
LEMMA MinIsLeast ==
  ASSUME NEW S \in SUBSET Nat, S # {}
  PROVE  Min(S) \in S /\ \A y \in S : Min(S) <= y
PROOF
<1> DEFINE R == {ss \in Nat \X Nat : ss[1] < ss[2]}
<1>1. PICK x \in S : \A y \in S : ~(<<y, x>> \in R)
  <2>1. IsWellFoundedOn(R, Nat)
    BY LessThanWellFounded
  <2> HIDE DEF R
  <2> QED BY <2>1, WFMin
<1>2. ASSUME NEW y \in S, y < x PROVE FALSE
  <2>1. <<y, x>> \in R
    BY <1>2
  <2> QED BY <1>1, <2>1
<1>3. \A y \in S : x <= y
  BY <1>2
<1> QED BY <1>3 DEF Min

\* One with an upper bound has a greatest element.
LEMMA MaxIsGreatest ==
  ASSUME NEW S \in SUBSET Nat, S # {}, NEW u \in Nat, \A s \in S : s <= u
  PROVE  Max(S) \in S /\ \A y \in S : y <= Max(S)
PROOF
<1> DEFINE T == {u - s : s \in S}
<1>1. T \in SUBSET Nat /\ T # {}
  <2>1. \A s \in S : u - s \in Nat
    OBVIOUS
  <2>2. PICK s \in S : TRUE
    OBVIOUS
  <2>3. u - s \in T
    OBVIOUS
  <2> QED BY <2>1, <2>3
<1>2. Min(T) \in T /\ \A y \in T : Min(T) <= y
  BY <1>1, MinIsLeast
<1>3. PICK x \in S : Min(T) = u - x
  BY <1>2
<1>4. \A y \in S : x >= y
  BY <1>2, <1>3
<1> QED BY <1>4 DEF Max

\* MaskBefore orders masks: none is before itself.
LEMMA MaskBeforeIrreflexive ==
  ASSUME NEW a \in ListMasks PROVE ~MaskBefore(a, a)
PROOF BY DEF MaskBefore, ListMasks

\* MaskBefore orders masks: where three of them first differ decides.
LEMMA MaskBeforeTransitive ==
  ASSUME NEW a \in ListMasks, NEW b \in ListMasks, NEW c \in ListMasks,
         MaskBefore(a, b), MaskBefore(b, c)
  PROVE  MaskBefore(a, c)
PROOF
<1> DEFINE ab == (a.ones \ b.ones) \cup (b.ones \ a.ones)
           bc == (b.ones \ c.ones) \cup (c.ones \ b.ones)
           ac == (a.ones \ c.ones) \cup (c.ones \ a.ones)
<1>1. /\ a.bytes \in Nat /\ b.bytes \in Nat /\ c.bytes \in Nat
      /\ ab \in SUBSET Nat /\ bc \in SUBSET Nat /\ ac \in SUBSET Nat
      /\ a.ones \subseteq Nat /\ b.ones \subseteq Nat /\ c.ones \subseteq Nat
  BY VoteAssumption DEF ListMasks, Indices, BytesBound
<1>2. /\ IF ab = {} THEN a.bytes < b.bytes ELSE Min(ab) \in b.ones
      /\ IF bc = {} THEN b.bytes < c.bytes ELSE Min(bc) \in c.ones
  BY DEF MaskBefore
<1>3. ab # {} => Min(ab) \in ab /\ \A y \in ab : Min(ab) <= y
  BY <1>1, MinIsLeast
<1>4. bc # {} => Min(bc) \in bc /\ \A y \in bc : Min(bc) <= y
  BY <1>1, MinIsLeast
<1>5. ac # {} => Min(ac) \in ac /\ \A y \in ac : Min(ac) <= y
  BY <1>1, MinIsLeast
<1>6. CASE ab = {}
  <2>1. a.ones = b.ones /\ ac = bc
    BY <1>6
  <2>2. CASE bc = {}
    <3>1. a.bytes < c.bytes
      BY <1>1, <1>2, <1>6, <2>2
    <3> QED BY <3>1, <2>1, <2>2 DEF MaskBefore
  <2>3. CASE bc # {}
    <3>1. Min(ac) \in c.ones
      BY <1>2, <2>1, <2>3
    <3> QED BY <3>1, <2>1, <2>3 DEF MaskBefore
  <2> QED BY <2>2, <2>3
<1>7. CASE bc = {}
  <2>1. b.ones = c.ones /\ ac = ab
    BY <1>7
  <2>2. CASE ab # {}
    <3>1. Min(ac) \in c.ones
      BY <1>2, <2>1, <2>2
    <3> QED BY <3>1, <2>1, <2>2 DEF MaskBefore
  <2> QED BY <2>2, <1>6
<1>8. CASE ab # {} /\ bc # {}
  <2> DEFINE x == Min(ab)
             y == Min(bc)
             z == Min(ac)
  <2>1. /\ x \in ab /\ x \in b.ones /\ x \notin a.ones
        /\ y \in bc /\ y \in c.ones /\ y \notin b.ones
    BY <1>2, <1>3, <1>4, <1>8
  <2>2. x \in Nat /\ y \in Nat /\ x # y
    BY <2>1, <1>1
  <2>3. \A w \in Nat : (w < x => (w \in a.ones <=> w \in b.ones))
    BY <1>3, <1>8, <2>2
  <2>4. \A w \in Nat : (w < y => (w \in b.ones <=> w \in c.ones))
    BY <1>4, <1>8, <2>2
  <2> HIDE DEF x, y
  <2>5. CASE x < y
    <3>1. x \in c.ones /\ x \in ac
      BY <2>1, <2>2, <2>4, <2>5
    <3>2. z \in ac /\ z <= x
      BY <3>1, <1>5
    <3>3. z = x
      <4>1. z \in Nat /\ (z \in a.ones <=> z \notin c.ones)
        BY <3>2, <1>1
      <4>2. z < x => ((z \in a.ones <=> z \in b.ones) /\ (z \in b.ones <=> z \in c.ones))
        BY <4>1, <2>2, <2>3, <2>4, <2>5
      <4> QED BY <4>1, <4>2, <3>2, <2>2
    <3> QED BY <3>1, <3>3 DEF MaskBefore
  <2>6. CASE y < x
    <3>1. y \in ac
      BY <2>1, <2>2, <2>3, <2>6
    <3>2. z \in ac /\ z <= y
      BY <3>1, <1>5
    <3>3. z = y
      <4>1. z \in Nat /\ (z \in a.ones <=> z \notin c.ones)
        BY <3>2, <1>1
      <4>2. z < y => ((z \in a.ones <=> z \in b.ones) /\ (z \in b.ones <=> z \in c.ones))
        BY <4>1, <2>2, <2>3, <2>4, <2>6
      <4> QED BY <4>1, <4>2, <3>2, <2>2
    <3> QED BY <3>1, <3>3, <2>1 DEF MaskBefore
  <2> QED BY <2>2, <2>5, <2>6
<1> QED BY <1>6, <1>7, <1>8

\* NumberBefore orders numbers by their digits.
LEMMA NumberBeforeOrders ==
  /\ \A m \in Nat : ~NumberBefore(m, m)
  /\ \A m, n, k \in Nat : NumberBefore(m, n) /\ NumberBefore(n, k) => NumberBefore(m, k)
PROOF
<1>1. ASSUME NEW n \in Nat PROVE Digits(n)[1] \in Int /\ Digits(n)[2] \in Int
  <2>1. n \div NumberBase \in Int /\ n % NumberBase \in Int
    BY VoteAssumption, SMTT(30)
  <2> QED BY <2>1 DEF Digits
<1> QED BY <1>1 DEF NumberBefore

\* Numbers of one digit are in their usual order.
LEMMA OneDigit ==
  ASSUME NEW m \in Nat, NEW n \in Nat, n < NumberBase, m < n
  PROVE  NumberBefore(m, n)
PROOF BY VoteAssumption DEF NumberBefore, Digits

\* A mask of a list of requests has finitely many ones.
LEMMA OnesFinite ==
  ASSUME NEW a \in ListMasks
  PROVE  IsFiniteSet(a.ones) /\ Cardinality(a.ones) \in Nat
PROOF
<1>1. IsFiniteSet(Indices) /\ a.ones \in SUBSET Indices
  BY VoteAssumption, FS_Interval DEF Indices, ListMasks
<1> QED BY <1>1, FS_Subset, FS_CardinalityType

\* Before orders the candidates.
LEMMA BeforeOrders ==
  /\ \A a \in ListMasks : ~Before(a, a)
  /\ \A a, b, c \in ListMasks : Before(a, b) /\ Before(b, c) => Before(a, c)
PROOF
<1>1. \A a \in ListMasks : ~Before(a, a)
  BY MaskBeforeIrreflexive DEF Before
<1>2. ASSUME NEW a \in ListMasks, NEW b \in ListMasks, NEW c \in ListMasks,
             Before(a, b), Before(b, c)
      PROVE  Before(a, c)
  <2> DEFINE m == Cardinality(a.ones)
             n == Cardinality(b.ones)
             k == Cardinality(c.ones)
  <2>1. m \in Nat /\ n \in Nat /\ k \in Nat
    BY OnesFinite
  <2>2. /\ IF m = n THEN MaskBefore(a, b) ELSE NumberBefore(m, n)
        /\ IF n = k THEN MaskBefore(b, c) ELSE NumberBefore(n, k)
    BY <1>2 DEF Before
  <2>3. Before(a, c) <=> IF m = k THEN MaskBefore(a, c) ELSE NumberBefore(m, k)
    BY DEF Before
  <2> HIDE DEF m, n, k
  <2>4. CASE m = n /\ n = k
    BY <2>2, <2>3, <2>4, MaskBeforeTransitive
  <2>5. CASE m # n /\ n # k
    <3>1. NumberBefore(m, k)
      BY <2>1, <2>2, <2>5, NumberBeforeOrders
    <3>2. m # k
      BY <2>1, <3>1, NumberBeforeOrders
    <3> QED BY <3>1, <3>2, <2>3
  <2>6. CASE (m = n) # (n = k)
    BY <2>2, <2>3, <2>6
  <2> QED BY <2>4, <2>5, <2>6
<1> QED BY <1>1, <1>2

\* Of finitely many candidates one is sorted last.
LEMMA LastIsLast ==
  ASSUME NEW C \in SUBSET ListMasks, IsFiniteSet(C), C # {}
  PROVE  LastInOrder(C) \in C /\ \A d \in C : ~Before(LastInOrder(C), d)
PROOF
<1> DEFINE Below(c) == {d \in C : Before(d, c)}
           Ranks == {Cardinality(Below(c)) : c \in C}
<1>1. ASSUME NEW c \in C
      PROVE  /\ IsFiniteSet(Below(c)) /\ Cardinality(Below(c)) \in Nat
             /\ Cardinality(Below(c)) <= Cardinality(C)
  <2>1. Below(c) \in SUBSET C
    OBVIOUS
  <2>2. IsFiniteSet(Below(c)) /\ Cardinality(Below(c)) <= Cardinality(C)
    BY <2>1, FS_Subset
  <2> QED BY <2>2, FS_CardinalityType
<1>2. Cardinality(C) \in Nat
  BY FS_CardinalityType
<1>3. Max(Ranks) \in Ranks /\ \A r \in Ranks : r <= Max(Ranks)
  <2>1. PICK c \in C : TRUE
    OBVIOUS
  <2>2. Cardinality(Below(c)) \in Ranks
    OBVIOUS
  <2>3. Ranks \in SUBSET Nat /\ \A r \in Ranks : r <= Cardinality(C)
    BY <1>1
  <2> HIDE DEF Ranks
  <2> QED BY <2>2, <2>3, <1>2, MaxIsGreatest
<1>4. PICK x \in C : Max(Ranks) = Cardinality(Below(x))
  BY <1>3
<1>5. ASSUME NEW d \in C, Before(x, d) PROVE FALSE
  <2>1. Below(x) \in SUBSET Below(d)
    BY <1>5, BeforeOrders
  <2>2. x \in Below(d) /\ x \notin Below(x)
    BY <1>5, BeforeOrders
  <2>3. Cardinality(Below(d)) <= Cardinality(Below(x))
    BY <1>3, <1>4
  <2>4. /\ Cardinality(Below(x)) <= Cardinality(Below(d))
        /\ Cardinality(Below(d)) = Cardinality(Below(x)) => Below(d) = Below(x)
    <3> HIDE DEF Below
    <3> QED BY <2>1, <1>1, FS_Subset
  <2>5. Cardinality(Below(d)) = Cardinality(Below(x))
    <3>1. Cardinality(Below(d)) \in Nat /\ Cardinality(Below(x)) \in Nat
      BY <1>1
    <3> HIDE DEF Below
    <3> QED BY <2>3, <2>4, <3>1
  <2> QED BY <2>2, <2>4, <2>5
<1> QED BY <1>5 DEF LastInOrder

-----------------------------------------------------------------------------
(* The candidates.                                                           *)

\* A set has subsets of every size up to its own.
LEMMA SubsetOfSize ==
  ASSUME NEW S, IsFiniteSet(S), NEW k \in 0..Cardinality(S)
  PROVE  kSubset(k, S) # {}
PROOF
<1>1. Cardinality(S) \in Nat
  BY FS_CardinalityType
<1>2. PICK f \in Bijection(1..Cardinality(S), S) : TRUE
  BY FS_CardinalityType DEF ExistsBijection
<1> DEFINE T == {f[i] : i \in 1..k}
           g == [i \in 1..k |-> f[i]]
<1>3. 1..k \subseteq 1..Cardinality(S)
  BY <1>1
<1>4. f \in [1..Cardinality(S) -> S]
      /\ \A i, j \in 1..Cardinality(S) : f[i] = f[j] => i = j
  BY <1>2 DEF Bijection, Injection, Surjection, IsInjective
<1>5. T \in SUBSET S
  BY <1>3, <1>4
<1>6. g \in Bijection(1..k, T)
  BY <1>3, <1>4 DEF Bijection, Injection, Surjection, IsInjective
<1>7. Cardinality(T) = k
  BY <1>6, <1>1, FS_CountingElements DEF ExistsBijection
<1> QED BY <1>5, <1>7 DEF kSubset

\* At least half of the providers have to vote, and one of them.
LEMMA MinVotersIsHalf ==
  ASSUME Providers # {}
  PROVE  /\ MinVoters \in 1..Cardinality(Providers)
         /\ 2 * MinVoters >= Cardinality(Providers)
PROOF
<1> DEFINE c == Cardinality(Providers)
<1>1. c \in Nat \ {0}
  BY VoteAssumption, FS_CardinalityType, FS_EmptySet
<1> HIDE DEF c
<1>2. (c + 1) \div 2 \in 1..c /\ 2 * ((c + 1) \div 2) >= c
  BY <1>1
<1> QED BY <1>2 DEF MinVoters, c

Groups == kSubset(MinVoters, Providers)

\* The groups that are combined: finitely many, none of them empty.
LEMMA GroupsExist ==
  ASSUME Providers # {}
  PROVE  /\ Groups # {} /\ IsFiniteSet(Groups)
         /\ \A group \in Groups :
              /\ group \in SUBSET Providers /\ group # {} /\ IsFiniteSet(group)
              /\ Cardinality(group) = MinVoters
PROOF
<1>1. MinVoters \in 0..Cardinality(Providers) /\ MinVoters # 0
  BY MinVotersIsHalf
<1>2. Groups # {}
  BY <1>1, SubsetOfSize, VoteAssumption DEF Groups
<1>3. IsFiniteSet(SUBSET Providers)
  BY VoteAssumption, FS_SUBSET
<1>4. Groups \in SUBSET (SUBSET Providers)
  BY DEF Groups, kSubset
<1>5. IsFiniteSet(Groups)
  BY <1>3, <1>4, FS_Subset
<1>6. ASSUME NEW group \in Groups
      PROVE  /\ group \in SUBSET Providers /\ group # {} /\ IsFiniteSet(group)
             /\ Cardinality(group) = MinVoters
  <2>1. group \in SUBSET Providers /\ Cardinality(group) = MinVoters
    BY DEF Groups, kSubset
  <2>2. IsFiniteSet(group)
    BY <2>1, VoteAssumption, FS_Subset
  <2> QED BY <2>1, <2>2, <1>1, FS_EmptySet
<1> QED BY <1>2, <1>5, <1>6

\* And of a group: no longer than the list, and a one is a one of every member,
\* moved by the difference of the lengths.
LEMMA AndOfGroup ==
  ASSUME NEW votes \in [Providers -> ListMasks], NEW group \in SUBSET Providers, group # {}
  PROVE  /\ And(votes, group) \in ListMasks
         /\ And(votes, group).bytes \in {votes[p].bytes : p \in group}
         /\ \A p \in group : votes[p].bytes <= And(votes, group).bytes
         /\ And(votes, group).ones =
              {i \in UNION {Shift(votes[p], And(votes, group).bytes) : p \in group} :
                 \A p \in group : i \in Shift(votes[p], And(votes, group).bytes)}
PROOF
<1> DEFINE Lengths == {votes[p].bytes : p \in group}
           bytes == Max(Lengths)
<1>1. \A p \in group : votes[p] \in ListMasks
  OBVIOUS
<1>2. BytesBound \in Nat /\ \A p \in group : votes[p].bytes \in 0..BytesBound
  BY <1>1, VoteAssumption DEF ListMasks, BytesBound
<1>3. bytes \in Lengths /\ \A b \in Lengths : b <= bytes
  <2>1. Lengths \in SUBSET Nat /\ \A b \in Lengths : b <= BytesBound
    BY <1>2
  <2>2. PICK p \in group : TRUE
    OBVIOUS
  <2>3. votes[p].bytes \in Lengths
    OBVIOUS
  <2> HIDE DEF Lengths
  <2> QED BY <2>1, <2>3, <1>2, MaxIsGreatest
<1>4. PICK q \in group : bytes = votes[q].bytes
  BY <1>3
<1>5. /\ And(votes, group).bytes = bytes
      /\ And(votes, group).ones = {i \in UNION {Shift(votes[p], bytes) : p \in group} :
                                     \A p \in group : i \in Shift(votes[p], bytes)}
      /\ And(votes, group) = [bytes |-> bytes, ones |-> And(votes, group).ones]
  BY DEF And
<1>6. Shift(votes[q], bytes) = votes[q].ones
  <2>1. bytes - votes[q].bytes = 0 /\ ByteBits \in Nat
    BY <1>2, <1>4, VoteAssumption
  <2>2. \A i \in votes[q].ones : i + (bytes - votes[q].bytes) * ByteBits = i
    <3>1. votes[q].ones \subseteq Int
      BY <1>1, VoteAssumption DEF ListMasks, Indices
    <3> QED BY <2>1, <3>1
  <2> QED BY <2>2 DEF Shift
<1>7. And(votes, group).ones \in SUBSET Indices
  BY <1>1, <1>5, <1>6 DEF ListMasks
<1>8. bytes \in 0..BytesBound
  BY <1>2, <1>4
<1> QED BY <1>3, <1>5, <1>7, <1>8 DEF ListMasks

\* The mask that is chosen is that of a group, and none of another is after it.
LEMMA ChosenCandidate ==
  ASSUME Providers # {}, NEW votes \in [Providers -> ListMasks]
  PROVE  /\ \E group \in Groups : ChooseCandidate(votes) = And(votes, group)
         /\ \A group \in Groups : ~Before(ChooseCandidate(votes), And(votes, group))
PROOF
<1> DEFINE C == {And(votes, group) : group \in Groups}
           f == [group \in Groups |-> And(votes, group)]
<1>1. C # {} /\ IsFiniteSet(Groups)
  BY GroupsExist
<1>2. C \in SUBSET ListMasks
  BY GroupsExist, AndOfGroup
<1>3. f \in Surjection(Groups, C)
  BY DEF Surjection
<1>4. IsFiniteSet(C)
  <2> HIDE DEF C, f
  <2> QED BY <1>1, <1>3, FS_Surjection
<1>5. ChooseCandidate(votes) = LastInOrder(C)
  BY DEF ChooseCandidate, Groups
<1>6. LastInOrder(C) \in C /\ \A d \in C : ~Before(LastInOrder(C), d)
  <2> HIDE DEF C
  <2> QED BY <1>1, <1>2, <1>4, LastIsLast
<1> QED BY <1>5, <1>6

-----------------------------------------------------------------------------
(* The outcome.                                                              *)

\* NO_VOTE is no longer than the list.
LEMMA NoVoteIsMask == NoVote \in ListMasks /\ NoVote.ones = {}
PROOF BY VoteAssumption DEF NoVote, ListMasks, BytesBound

\* A one of a candidate is a one of every member of its group; when those who
\* have voted sent masks of one length, it stands for the same request.
LEMMA CandidateOnes ==
  ASSUME NEW votes \in [Providers -> ListMasks], NEW group \in SUBSET Providers, group # {},
         NEW i \in And(votes, group).ones
  PROVE  /\ i \in Indices
         /\ \A q \in group : votes[q].ones # {}
         /\ (\A p, q \in group : votes[p].bytes = votes[q].bytes)
              => \A q \in group : i \in votes[q].ones
PROOF
<1> DEFINE bytes == And(votes, group).bytes
<1>1. /\ And(votes, group) \in ListMasks
      /\ \E q \in group : bytes = votes[q].bytes
      /\ \A q \in group : i \in Shift(votes[q], bytes)
  BY AndOfGroup
<1>2. \A q \in group : votes[q].ones # {}
  BY <1>1 DEF Shift
<1>3. ASSUME \A p, q \in group : votes[p].bytes = votes[q].bytes, NEW q \in group
      PROVE  i \in votes[q].ones
  <2>1. bytes = votes[q].bytes
    BY <1>1, <1>3
  <2>2. bytes - votes[q].bytes = 0 /\ votes[q].ones \subseteq Int /\ ByteBits \in Nat
    BY <2>1, VoteAssumption DEF ListMasks, Indices, BytesBound
  <2>3. PICK k \in votes[q].ones : i = k + (bytes - votes[q].bytes) * ByteBits
    BY <1>1 DEF Shift
  <2>4. (bytes - votes[q].bytes) * ByteBits = 0
    BY <2>2
  <2> QED BY <2>2, <2>3, <2>4
<1> QED BY <1>1, <1>2, <1>3 DEF ListMasks

\* The provider that counts does not end: it has read the whole list, or no vote.
LEMMA OutcomeIsNoExit ==
  ASSUME Providers # {}, NEW votes \in [Providers -> ListMasks], NEW n \in 0..NumRequests,
         n < NumRequests => \A p \in Providers : votes[p].ones = {}
  PROVE  /\ Outcome(votes, n) # Exit
         /\ Outcome(votes, n) \in SUBSET Indices
         /\ \E group \in Groups : Outcome(votes, n) \subseteq And(votes, group).ones
PROOF
<1> DEFINE voted == {p \in Providers : votes[p].ones # {}}
           candidate == ChooseCandidate(votes)
<1>1. PICK group \in Groups : candidate = And(votes, group)
  BY ChosenCandidate
<1>2. candidate \in ListMasks
  BY <1>1, GroupsExist, AndOfGroup
<1>3. {} \in SUBSET Indices /\ {} # Exit
  BY VoteAssumption DEF Indices
<1>4. CASE Cardinality(voted) < MinVoters
  <2>1. Outcome(votes, n) = {}
    BY <1>4 DEF Outcome
  <2> QED BY <2>1, <1>3
<1>5. CASE ~(Cardinality(voted) < MinVoters)
  <2>1. n = NumRequests
    <3>1. SUFFICES ASSUME n < NumRequests PROVE FALSE
      BY VoteAssumption
    <3>2. voted = {}
      BY <3>1
    <3>3. Cardinality(voted) = 0
      BY <3>2, FS_EmptySet
    <3>4. MinVoters \in 1..Cardinality(Providers) /\ Cardinality(Providers) \in Nat
      BY MinVotersIsHalf, VoteAssumption, FS_CardinalityType
    <3> HIDE DEF voted
    <3> QED BY <3>3, <3>4, <1>5
  <2>2. ~ActiveBitsBeyond(candidate, n)
    BY <1>2, <2>1, VoteAssumption DEF ActiveBitsBeyond, ListMasks, Indices
  <2>3. Outcome(votes, n) = candidate.ones \cap 0..(n - 1)
    BY <1>5, <2>2 DEF Outcome
  <2>4. Outcome(votes, n) \in SUBSET Indices
    BY <2>1, <2>3 DEF Indices
  <2>5. Outcome(votes, n) # Exit
    BY <2>4, VoteAssumption DEF Indices
  <2> QED BY <1>1, <2>3, <2>4, <2>5
<1> QED BY <1>4, <1>5

\* Where those who voted sent masks of one length, and counts have one digit, no
\* group agrees on more requests than are chosen.
LEMMA OutcomeIsBest ==
  ASSUME Providers # {}, NEW votes \in [Providers -> ListMasks], NumRequests < NumberBase,
         \A p, q \in Providers : votes[p].ones # {} /\ votes[q].ones # {}
                                   => votes[p].bytes = votes[q].bytes,
         NEW group \in Groups
  PROVE  Cardinality({i \in Indices : \A q \in group : i \in votes[q].ones})
           <= Cardinality(Outcome(votes, NumRequests))
PROOF
<1> DEFINE voted == {p \in Providers : votes[p].ones # {}}
           candidate == ChooseCandidate(votes)
           agreed == {i \in Indices : \A q \in group : i \in votes[q].ones}
           chosen == Outcome(votes, NumRequests)
<1> SUFFICES Cardinality(agreed) <= Cardinality(chosen)
  OBVIOUS
<1>1. PICK best \in Groups : candidate = And(votes, best)
  BY ChosenCandidate
<1>2. candidate \in ListMasks
  BY <1>1, GroupsExist, AndOfGroup
<1>3. group \in SUBSET Providers /\ group # {} /\ Cardinality(group) = MinVoters
  BY GroupsExist
<1>4. IsFiniteSet(Indices)
  BY VoteAssumption, FS_Interval DEF Indices
<1>5. Cardinality(Indices) = NumRequests
  <2>1. Cardinality(0..(NumRequests - 1)) = IF 0 > NumRequests - 1 THEN 0 ELSE NumRequests
    BY VoteAssumption, FS_Interval
  <2> QED BY <2>1, VoteAssumption DEF Indices
<1>6. NumRequests \in 0..NumRequests /\ NumRequests \in Nat /\ NumberBase \in Nat
  BY VoteAssumption
<1>7. chosen \in SUBSET Indices /\ chosen # Exit
  BY <1>6, OutcomeIsNoExit
<1>8. Cardinality(chosen) \in Nat
  BY <1>4, <1>7, FS_Subset, FS_CardinalityType
<1>9. CASE agreed = {}
  <2>1. Cardinality(agreed) = 0
    BY <1>9, FS_EmptySet
  <2> HIDE DEF agreed, chosen
  <2> QED BY <1>8, <2>1
<1>10. CASE agreed # {}
  <2>1. group \subseteq voted
    BY <1>3, <1>10
  <2>2. ~(Cardinality(voted) < MinVoters)
    <3>1. voted \in SUBSET Providers
      OBVIOUS
    <3>2. IsFiniteSet(voted)
      BY <3>1, VoteAssumption, FS_Subset
    <3>3. Cardinality(voted) \in Nat
      BY <3>2, FS_CardinalityType
    <3>4. Cardinality(group) <= Cardinality(voted)
      <4> HIDE DEF voted
      <4> QED BY <2>1, <3>2, FS_Subset
    <3>5. MinVoters \in Nat
      BY <1>3, <2>1, <3>2, FS_Subset, FS_CardinalityType
    <3> HIDE DEF voted
    <3> QED BY <1>3, <3>3, <3>4, <3>5
  <2>3. chosen = candidate.ones
    <3>1. chosen = candidate.ones \cap 0..(NumRequests - 1)
      BY <1>7, <2>2 DEF Outcome
    <3> QED BY <3>1, <1>2 DEF ListMasks, Indices
  <2>4. agreed \subseteq And(votes, group).ones
    <3>1. PICK q \in group : And(votes, group).bytes = votes[q].bytes
      BY <1>3, AndOfGroup
    <3>2. ASSUME NEW p \in group PROVE Shift(votes[p], And(votes, group).bytes) = votes[p].ones
      <4>1. votes[p].bytes = votes[q].bytes
        BY <2>1, <1>3
      <4>2. And(votes, group).bytes - votes[p].bytes = 0 /\ votes[p].ones \subseteq Int
            /\ ByteBits \in Nat
        <5>1. votes[p] \in ListMasks
          BY <1>3
        <5> QED BY <5>1, <3>1, <4>1, VoteAssumption DEF ListMasks, Indices, BytesBound
      <4>3. \A i \in votes[p].ones : i + (And(votes, group).bytes - votes[p].bytes) * ByteBits = i
        BY <4>2
      <4> QED BY <4>3 DEF Shift
    <3>3. And(votes, group).ones =
            {i \in UNION {Shift(votes[p], And(votes, group).bytes) : p \in group} :
               \A p \in group : i \in Shift(votes[p], And(votes, group).bytes)}
      BY <1>3, AndOfGroup
    <3> QED BY <1>3, <3>2, <3>3
  <2> DEFINE other == And(votes, group)
  <2>5. other \in ListMasks /\ ~Before(candidate, other)
    BY <1>3, AndOfGroup, ChosenCandidate
  <2>6. Cardinality(agreed) <= Cardinality(other.ones)
    <3> HIDE DEF agreed, other
    <3> QED BY <2>4, <2>5, OnesFinite, FS_Subset DEF other
  <2>7. Cardinality(other.ones) \in Nat /\ Cardinality(other.ones) <= NumRequests
    <3>1. other.ones \in SUBSET Indices
      BY <2>5 DEF ListMasks
    <3> HIDE DEF other
    <3> QED BY <3>1, <2>5, OnesFinite, <1>4, <1>5, FS_Subset
  <2>8. Cardinality(candidate.ones) \in Nat
    BY <1>2, OnesFinite
  <2>9. ~(Cardinality(candidate.ones) < Cardinality(other.ones))
    <3>1. SUFFICES ASSUME Cardinality(candidate.ones) < Cardinality(other.ones) PROVE FALSE
      OBVIOUS
    <3>2. NumberBefore(Cardinality(candidate.ones), Cardinality(other.ones))
      BY <3>1, <2>7, <2>8, <1>6, OneDigit
    <3>3. Cardinality(candidate.ones) # Cardinality(other.ones)
      BY <3>1, <2>7, <2>8
    <3> QED BY <3>2, <3>3, <2>5 DEF Before
  <2>10. Cardinality(agreed) \in Nat
    BY <1>4, FS_Subset, FS_CardinalityType
  <2> HIDE DEF agreed, other, candidate, chosen
  <2> QED BY <2>3, <2>6, <2>7, <2>8, <2>9, <2>10
<1> QED BY <1>9, <1>10

-----------------------------------------------------------------------------
(* What is read is what was sent.                                            *)

SentVote(v) == v.by \in Providers /\ cast[v.by] # None /\ v.mask = cast[v.by]

\* Masks are of the list, votes on the chain are those that were sent, and no
\* block past the deadline has one.
SentInv ==
  /\ cast \in [Providers -> ListMasks \cup {None}]
  /\ \A v \in mined : SentVote(v)
  /\ \A i \in DOMAIN chain : \A v \in chain[i].votes : SentVote(v)
  /\ mined # {} => now <= Deadline
  /\ \A i \in DOMAIN chain : chain[i].votes # {} => ~PastVoting(chain[i].time)

\* Requests come before votes.
ListedFirst == \A p \in Providers : listed[p] < NumRequests => read[p] = 0

\* As long as all masks have one length, a group of half the default set has
\* sent ones for every chosen request.
GroupBehind(chosen) ==
  \E group \in Groups :
    SameLength => \A i \in chosen, q \in group : cast[q] # None /\ i \in cast[q].ones

\* What a provider has chosen: requests of the list, for half of the default set.
ChoiceInv ==
  \A p \in Providers :
    result[p] # None =>
      result[p] # Exit /\ result[p] \in SUBSET Indices /\ GroupBehind(result[p])

\* The inductive invariant of NoExit and ChosenAreConfirmed, on top of VoteInv.
ChosenInv == SentInv /\ ListedFirst /\ ChoiceInv

\* What a provider has read of a member is what the member sent, or NO_VOTE.
LEMMA ReadWhatWasSent ==
  ASSUME ReadInv, SentInv, NEW n \in Nat, n <= Len(chain)
  PROVE  /\ VotesUpTo(n) \in [Providers -> ListMasks]
         /\ \A q \in Providers :
              VotesUpTo(n)[q] = NoVote
              \/ (n # 0 /\ cast[q] # None /\ VotesUpTo(n)[q] = cast[q])
PROOF
<1>1. ASSUME NEW q \in Providers
      PROVE  /\ VotesUpTo(n)[q] \in ListMasks
             /\ VotesUpTo(n)[q] = NoVote
                \/ (n # 0 /\ cast[q] # None /\ VotesUpTo(n)[q] = cast[q])
  <2>1. VotesUpTo(n)[q] = MaskOf(VotesIn(1..n), q)
    BY DEF VotesUpTo
  <2>2. CASE \E v \in VotesIn(1..n) : v.by = q
    <3>1. PICK v \in VotesIn(1..n) : v.by = q /\ VotesUpTo(n)[q] = v.mask
      BY <2>1, <2>2 DEF MaskOf
    <3>2. PICK i \in 1..n : v \in chain[i].votes
      BY <3>1 DEF VotesIn
    <3>3. i \in DOMAIN chain /\ n # 0
      BY <3>2 DEF ReadInv
    <3>4. SentVote(v)
      BY <3>2, <3>3 DEF SentInv
    <3> QED BY <3>1, <3>3, <3>4 DEF SentVote, SentInv
  <2>3. CASE ~\E v \in VotesIn(1..n) : v.by = q
    BY <2>1, <2>3, NoVoteIsMask DEF MaskOf
  <2> QED BY <2>2, <2>3
<1>2. VotesUpTo(n) = [q \in Providers |-> VotesUpTo(n)[q]]
  BY DEF VotesUpTo
<1> QED BY <1>1, <1>2

\* A provider that counts chooses requests of the list, for half of the set.
LEMMA CountChooses ==
  ASSUME ReadInv, SentInv, ListedFirst, NEW p \in Providers
  PROVE  LET chosen == Outcome(VotesRead(p), listed[p])
         IN  chosen # Exit /\ chosen \in SUBSET Indices /\ GroupBehind(chosen)
PROOF
<1> DEFINE votes == VotesRead(p)
           n == listed[p]
           chosen == Outcome(votes, n)
<1>1. votes = VotesUpTo(read[p]) /\ read[p] \in Nat /\ read[p] <= Len(chain)
  BY DEF VotesRead, VotesUpTo, ReadInv
<1>2. /\ votes \in [Providers -> ListMasks]
      /\ \A q \in Providers :
           votes[q] = NoVote \/ (read[p] # 0 /\ cast[q] # None /\ votes[q] = cast[q])
  BY <1>1, ReadWhatWasSent
<1>3. n \in 0..NumRequests /\ (n < NumRequests => \A q \in Providers : votes[q].ones = {})
  BY <1>2, NoVoteIsMask DEF ReadInv, ListedFirst
<1> HIDE DEF votes, n
<1>4. /\ chosen # Exit /\ chosen \in SUBSET Indices
      /\ \E group \in Groups : chosen \subseteq And(votes, group).ones
  BY <1>2, <1>3, OutcomeIsNoExit
<1>5. PICK group \in Groups : chosen \subseteq And(votes, group).ones
  BY <1>4
<1>6. group \in SUBSET Providers /\ group # {}
  BY GroupsExist
<1>7. ASSUME SameLength, NEW i \in chosen
      PROVE  \A q \in group : cast[q] # None /\ i \in cast[q].ones
  <2>1. i \in And(votes, group).ones
    BY <1>5, <1>7
  <2>2. \A q \in group : votes[q].ones # {}
    BY <2>1, <1>2, <1>6, CandidateOnes
  <2>3. \A q \in group : cast[q] # None /\ votes[q] = cast[q]
    BY <2>2, <1>2, <1>6, NoVoteIsMask
  <2>4. \A q, r \in group : votes[q].bytes = votes[r].bytes
    BY <2>3, <1>6, <1>7 DEF SameLength
  <2>5. \A q \in group : i \in votes[q].ones
    BY <2>1, <2>4, <1>2, <1>6, CandidateOnes
  <2> QED BY <2>3, <2>5
<1>8. GroupBehind(chosen)
  <2> HIDE DEF chosen
  <2> QED BY <1>7 DEF GroupBehind
<1> QED BY <1>4, <1>8 DEF votes, n

\* The votes behind a choice stay, whoever votes later.
LEMMA GroupStays ==
  ASSUME NEW chosen, GroupBehind(chosen),
         \A q \in Providers : cast[q] # None => cast'[q] = cast[q]
  PROVE  GroupBehind(chosen)'
PROOF
<1>1. PICK group \in Groups :
        SameLength => \A i \in chosen, q \in group : cast[q] # None /\ i \in cast[q].ones
  BY DEF GroupBehind
<1>2. SameLength' => SameLength
  BY DEF SameLength
<1>3. group \in SUBSET Providers
  BY DEF Groups, kSubset
<1>4. SameLength' => \A i \in chosen, q \in group : cast'[q] # None /\ i \in cast'[q].ones
  BY <1>1, <1>2, <1>3
<1>5. GroupBehind(chosen)' <=>
        \E g \in Groups :
          SameLength' => \A i \in chosen, q \in g : cast'[q] # None /\ i \in cast'[q].ones
  BY DEF GroupBehind, Groups, MinVoters
<1> QED BY <1>4, <1>5

\* The mask of a list that has been read in part is no longer than the bound.
LEMMA BytesInBound ==
  ASSUME NEW n \in 0..NumRequests PROVE Bytes(n) \in 0..BytesBound
PROOF
<1>1. n + ByteBits - 1 \in Nat /\ n + ByteBits - 1 <= BytesBound /\ ByteBits \in Nat \ {0}
      /\ BytesBound \in Nat
  BY VoteAssumption DEF BytesBound
<1>2. \A a \in Nat : \A b \in Nat \ {0} : a \div b \in Nat /\ a \div b <= a
  BY Z3T(30)
<1> QED BY <1>1, <1>2 DEF Bytes

\* The initial states satisfy the invariant: nothing has been sent.
LEMMA InitChosenInv == Init => ChosenInv
PROOF
<1> SUFFICES ASSUME Init PROVE ChosenInv
  OBVIOUS
<1>1. SentInv
  BY DEF Init, SentInv
<1>2. ListedFirst /\ ChoiceInv
  BY DEF Init, ListedFirst, ChoiceInv
<1> QED BY <1>1, <1>2 DEF ChosenInv

\* Every step keeps the invariant.
LEMMA NextChosenInv == VoteInv /\ ChosenInv /\ [Next]_vars => ChosenInv'
PROOF
<1> SUFFICES ASSUME VoteInv, ChosenInv, [Next]_vars PROVE ChosenInv'
  OBVIOUS
<1> USE DEF ChosenInv
<1>0. ReadInv
  BY DEF VoteInv
\* What is not counted anew stays chosen.
<1>1. ASSUME NEW q \in Providers, result'[q] = result[q], result'[q] # None,
             \A r \in Providers : cast[r] # None => cast'[r] = cast[r]
      PROVE  result'[q] # Exit /\ result'[q] \in SUBSET Indices /\ GroupBehind(result[q])'
  <2>1. PICK chosen : chosen = result[q]
    OBVIOUS
  <2>2. chosen # Exit /\ chosen \in SUBSET Indices /\ GroupBehind(chosen)
    BY <1>1, <2>1 DEF ChoiceInv
  <2>3. GroupBehind(chosen)'
    BY <2>2, <1>1, GroupStays
  <2>4. chosen = result'[q]
    BY <2>1, <1>1
  <2> QED BY <2>2, <2>3, <2>4 DEF GroupBehind
<1>2. ASSUME result' = result, \A r \in Providers : cast[r] # None => cast'[r] = cast[r]
      PROVE  ChoiceInv'
  BY <1>1, <1>2 DEF ChoiceInv
<1>3. CASE EndBlock
  <2> DEFINE b == [time |-> now, votes |-> mined]
  <2>1. /\ chain' = Append(chain, b) /\ mined' = {}
        /\ UNCHANGED <<listed, cast, read, result, forced>>
    BY <1>3 DEF EndBlock
  <2>2. /\ Len(chain') = Len(chain) + 1 /\ chain'[Len(chain) + 1] = b
        /\ \A i \in 1..Len(chain) : chain'[i] = chain[i]
        /\ DOMAIN chain = 1..Len(chain) /\ DOMAIN chain' = 1..(Len(chain) + 1)
        /\ Len(chain) \in Nat
    BY <2>1, <1>0 DEF ReadInv
  <2>3. ASSUME NEW i \in DOMAIN chain'
        PROVE  /\ \A v \in chain'[i].votes : SentVote(v)'
               /\ chain'[i].votes # {} => ~PastVoting(chain'[i].time)
    <3>1. i \in DOMAIN chain \/ i = Len(chain) + 1
      BY <2>2
    <3>2. CASE i \in DOMAIN chain
      BY <3>2, <2>1, <2>2 DEF SentInv, SentVote
    <3>3. CASE i = Len(chain) + 1
      <4>1. chain'[i].votes = mined /\ chain'[i].time = now
        BY <3>3, <2>2
      <4>2. mined # {} => ~PastVoting(now)
        BY <1>0, VoteAssumption DEF SentInv, PastVoting, ReadInv
      <4> QED BY <4>1, <4>2, <2>1 DEF SentInv, SentVote
    <3> QED BY <3>1, <3>2, <3>3
  <2>4. SentInv'
    BY <2>1, <2>3 DEF SentInv, PastVoting
  <2>5. ListedFirst'
    BY <2>1 DEF ListedFirst
  <2> QED BY <2>1, <2>4, <2>5, <1>2
<1>4. ASSUME NEW p \in Providers, ReadBlock(p) \/ ForceClose(p) PROVE ChosenInv'
  <2> DEFINE chosen == Outcome(VotesRead(p), listed[p])
  <2>1. /\ UNCHANGED <<now, mined, chain, listed, cast>>
        /\ \A q \in Providers : listed[q] < NumRequests => read'[q] = read[q]
    BY <1>0, <1>4 DEF ReadBlock, ForceClose, ReadInv
  <2>2. \A q \in Providers :
          result'[q] # None => result'[q] = result[q] \/ (q = p /\ result'[q] = chosen)
    BY <1>0, <1>4 DEF ReadBlock, ForceClose, ReadInv
  <2>3. chosen # Exit /\ chosen \in SUBSET Indices /\ GroupBehind(chosen)
    BY <1>0, CountChooses
  <2>4. SentInv'
    BY <2>1 DEF SentInv, SentVote, PastVoting
  <2>5. ListedFirst'
    BY <2>1 DEF ListedFirst
  <2>6. ASSUME NEW q \in Providers, result'[q] # None
        PROVE  result'[q] # Exit /\ result'[q] \in SUBSET Indices /\ GroupBehind(result[q])'
    <3>1. CASE result'[q] = result[q]
      BY <3>1, <2>1, <2>6, <1>1
    <3>2. CASE result'[q] = chosen
      <4>1. PICK x : x = chosen
        OBVIOUS
      <4>2. x # Exit /\ x \in SUBSET Indices /\ GroupBehind(x)
        BY <4>1, <2>3
      <4>3. GroupBehind(x)'
        BY <4>2, <2>1, GroupStays
      <4>4. x = result'[q]
        BY <4>1, <3>2
      <4> QED BY <4>2, <4>3, <4>4 DEF GroupBehind
    <3> QED BY <3>1, <3>2, <2>2, <2>6
  <2>7. ChoiceInv'
    BY <2>6 DEF ChoiceInv
  <2> QED BY <2>4, <2>5, <2>7
<1>5. ASSUME NEW p \in Providers, ReadRequest(p) PROVE ChosenInv'
  <2>1. /\ UNCHANGED <<now, mined, chain, cast, read, result, forced>>
        /\ listed[p] < NumRequests /\ listed' = [listed EXCEPT ![p] = @ + 1]
    BY <1>5 DEF ReadRequest
  <2>2. ListedFirst'
    BY <2>1, <1>0, VoteAssumption DEF ListedFirst, ReadInv
  <2>3. SentInv'
    BY <2>1 DEF SentInv, SentVote, PastVoting
  <2> QED BY <2>1, <2>2, <2>3, <1>2
<1>6. ASSUME NEW p \in Providers, SubmitBitVote(p) PROVE ChosenInv'
  <2>1. PICK valid \in SUBSET (0..(listed[p] - 1)) :
          cast' = [cast EXCEPT ![p] = [bytes |-> Bytes(listed[p]), ones |-> valid]]
    BY <1>6 DEF SubmitBitVote
  <2>2. /\ UNCHANGED <<now, mined, chain, listed, read, result, forced>>
        /\ cast[p] = None
    BY <1>6 DEF SubmitBitVote
  <2>3. Bytes(listed[p]) \in 0..BytesBound /\ valid \in SUBSET Indices
    BY <1>0, BytesInBound, VoteAssumption DEF ReadInv, Indices
  <2>4. cast' \in [Providers -> ListMasks \cup {None}]
    BY <2>1, <2>3 DEF ListMasks, SentInv
  <2>5. \A q \in Providers : cast[q] # None => cast'[q] = cast[q]
    BY <2>1, <2>2 DEF SentInv
  <2>6. \A v : SentVote(v) => SentVote(v)'
    BY <2>5 DEF SentVote
  <2>7. SentInv'
    BY <2>2, <2>4, <2>6 DEF SentInv, PastVoting
  <2>8. ListedFirst'
    BY <2>2 DEF ListedFirst
  <2> QED BY <2>2, <2>5, <2>7, <2>8, <1>2
<1>7. ASSUME NEW p \in Providers, MineVote(p) PROVE ChosenInv'
  <2>1. /\ cast[p] # None /\ mined' = mined \cup {[by |-> p, mask |-> cast[p]]}
        /\ now <= Deadline
        /\ UNCHANGED <<now, chain, listed, cast, read, result, forced>>
    BY <1>7 DEF MineVote
  <2>2. \A v \in mined' : SentVote(v)'
    BY <2>1 DEF SentInv, SentVote
  <2>3. SentInv'
    BY <2>1, <2>2 DEF SentInv, SentVote, PastVoting
  <2>4. ListedFirst'
    BY <2>1 DEF ListedFirst
  <2> QED BY <2>1, <2>3, <2>4, <1>2
<1>8. CASE UNCHANGED vars
  BY <1>8, <1>2 DEF vars, SentInv, SentVote, PastVoting, ListedFirst
<1> QED BY <1>3, <1>4, <1>5, <1>6, <1>7, <1>8 DEF Next, ProviderStep

-----------------------------------------------------------------------------
\* The votes have their invariants in all reachable states.
LEMMA VotesAndChoices == Spec => [](VoteInv /\ ChosenInv)
PROOF BY InitVoteInv, NextVoteInv, InitChosenInv, NextChosenInv, PTL DEF Spec

\* No provider finds ones beyond the requests it has read, whatever the number
\* of providers, requests and blocks, and however votes and timers interleave.
THEOREM NoProviderExits == Spec => []NoExit
PROOF
<1>1. ChosenInv => NoExit
  <2> SUFFICES ASSUME ChosenInv, NEW p \in Providers PROVE result[p] # Exit
    BY DEF NoExit
  <2>1. result[p] # None => result[p] # Exit
    BY DEF ChosenInv, ChoiceInv
  <2> QED BY <2>1, VoteAssumption
<1> QED BY <1>1, VotesAndChoices, PTL

\* A chosen request has been verified by half of the default set, as long as
\* all masks have one length.
THEOREM ChosenWereConfirmed == Spec => []ChosenAreConfirmed
PROOF
<1>1. ChosenInv => ChosenAreConfirmed
  <2> SUFFICES ASSUME ChosenInv, SameLength, NEW p \in Providers,
                      result[p] \notin {None, Exit}, NEW i \in result[p]
               PROVE  2 * Cardinality(ConfirmedBy(i)) >= Cardinality(Providers)
    BY DEF ChosenAreConfirmed
  <2>1. PICK group \in Groups : \A q \in group : cast[q] # None /\ i \in cast[q].ones
    BY DEF ChosenInv, ChoiceInv, GroupBehind
  <2>2. group \in SUBSET Providers /\ Cardinality(group) = MinVoters
    BY DEF Groups, kSubset
  <2>3. group \in SUBSET ConfirmedBy(i) /\ ConfirmedBy(i) \in SUBSET Providers
    BY <2>1, <2>2 DEF ConfirmedBy
  <2>4. IsFiniteSet(ConfirmedBy(i))
    BY <2>3, VoteAssumption, FS_Subset
  <2>5. MinVoters <= Cardinality(ConfirmedBy(i))
    BY <2>2, <2>3, <2>4, FS_Subset
  <2>6. Cardinality(ConfirmedBy(i)) \in Nat /\ Cardinality(Providers) \in Nat
    BY <2>4, VoteAssumption, FS_CardinalityType
  <2>7. MinVoters \in Nat /\ 2 * MinVoters >= Cardinality(Providers)
    BY <2>6, MinVotersIsHalf
  <2> QED BY <2>5, <2>6, <2>7
<1> QED BY <1>1, VotesAndChoices, PTL

\* No half of the default set agrees on more requests than are chosen, as long
\* as all masks have one length and the counts one digit.
THEOREM BestIsChosen == Spec => []BestCandidateChosen
PROOF
<1>1. VoteInv /\ ChosenInv => BestCandidateChosen
  <2> SUFFICES ASSUME VoteInv, ChosenInv, NEW p \in Providers, SameLength,
                      NumRequests < NumberBase, ~forced[p], result[p] \notin {None, Exit},
                      NEW group \in Groups
               PROVE  Cardinality({i \in Indices : \A q \in group : i \in VotesRead(p)[q].ones})
                        <= Cardinality(result[p])
    BY DEF BestCandidateChosen, Groups
  <2>1. FirstPast(read[p]) /\ result[p] = Outcome(VotesUpTo(read[p] - 1), NumRequests)
    BY DEF VoteInv, CountInv, CountOf
  <2>2. /\ read[p] \in 1..Len(chain) /\ Len(chain) \in Nat
        /\ chain[read[p]].votes = {}
    <3>1. read[p] \in DOMAIN chain /\ PastVoting(chain[read[p]].time)
      BY <2>1 DEF FirstPast
    <3> QED BY <3>1 DEF VoteInv, ReadInv, ChosenInv, SentInv
  <2> DEFINE votes == VotesUpTo(read[p] - 1)
  <2>3. VotesRead(p) = votes
    <3>1. VotesIn(1..read[p]) = VotesIn(1..(read[p] - 1))
      <4>1. \A i : i \in 1..read[p] <=> (i \in 1..(read[p] - 1) \/ i = read[p])
        BY <2>2
      <4> QED BY <4>1, <2>2 DEF VotesIn
    <3> QED BY <3>1 DEF VotesRead, VotesUpTo
  <2>4. /\ votes \in [Providers -> ListMasks]
        /\ \A q \in Providers : votes[q] = NoVote \/ (cast[q] # None /\ votes[q] = cast[q])
    <3>1. read[p] - 1 \in Nat /\ read[p] - 1 <= Len(chain)
      BY <2>2
    <3> QED BY <3>1, ReadWhatWasSent DEF VoteInv, ChosenInv
  <2> HIDE DEF votes
  <2>5. \A q, r \in Providers : votes[q].ones # {} /\ votes[r].ones # {}
                                  => votes[q].bytes = votes[r].bytes
    BY <2>4, NoVoteIsMask DEF SameLength
  <2>6. Cardinality({i \in Indices : \A q \in group : i \in votes[q].ones})
          <= Cardinality(Outcome(votes, NumRequests))
    BY <2>4, <2>5, OutcomeIsBest
  <2> QED BY <2>1, <2>3, <2>6 DEF votes
<1> QED BY <1>1, VotesAndChoices, PTL
=============================================================================
