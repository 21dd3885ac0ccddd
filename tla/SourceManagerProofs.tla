------------------------- MODULE SourceManagerProofs -------------------------
(***************************************************************************)
(* Proofs about the queues of SourceManager, for every set of attestations *)
(* and every configuration of the limits, the retries and the times.       *)
(***************************************************************************)
EXTENDS SourceManager, SequenceTheorems, FiniteSetTheorems, TLAPS

USE SourceAssumption

-----------------------------------------------------------------------------
(* Frames and the stack.                                                     *)

\* A frame of the stack calls process for one attestation, or no attestation.
LEMMA Frames ==
  /\ \A op \in Op : Call(op) \in Frame /\ Call(op).op = op /\ op # "process"
  /\ \A a \in Attestations : Process(a) \in Frame /\ Process(a).op = "process"
  /\ \A a, b \in Attestations : Process(a) = Process(b) => a = b
  /\ \A f \in Frame : f.op = "process" => \E a \in Attestations : f = Process(a)
  /\ \A f \in Frame : f.op # "process" => \A a \in Attestations : f # Process(a)
  BY DEF Frame, Op, Call, Process

\* What the stack holds after its head has been replaced by calls.
LEMMA Replaced ==
  ASSUME NEW S, NEW s \in Seq(S), s # <<>>, NEW calls \in Seq(S)
  PROVE  /\ calls \o Tail(s) \in Seq(S)
         /\ Len(calls \o Tail(s)) = Len(calls) + Len(s) - 1
         /\ \A i \in 1..Len(calls) : (calls \o Tail(s))[i] = calls[i]
         /\ \A i \in 2..Len(s) : (calls \o Tail(s))[Len(calls) + i - 1] = s[i]
         /\ \A i \in (Len(calls) + 1)..(Len(calls) + Len(s) - 1) :
              (calls \o Tail(s))[i] = s[i - Len(calls) + 1]
<1>1. /\ Tail(s) \in Seq(S)
      /\ Len(Tail(s)) = Len(s) - 1
      /\ \A i \in 1..Len(Tail(s)) : Tail(s)[i] = s[i + 1]
  BY HeadTailProperties
<1>2. /\ calls \o Tail(s) \in Seq(S)
      /\ Len(calls \o Tail(s)) = Len(calls) + Len(Tail(s))
      /\ \A i \in 1..(Len(calls) + Len(Tail(s))) :
           (calls \o Tail(s))[i] = IF i <= Len(calls) THEN calls[i]
                                   ELSE Tail(s)[i - Len(calls)]
  BY <1>1, ConcatProperties
<1>3. Len(calls) \in Nat /\ Len(s) \in Nat
  BY LenProperties
<1>4. \A i \in (Len(calls) + 1)..(Len(calls) + Len(s) - 1) :
        (calls \o Tail(s))[i] = s[i - Len(calls) + 1]
  <2> TAKE i \in (Len(calls) + 1)..(Len(calls) + Len(s) - 1)
  <2>1. (calls \o Tail(s))[i] = Tail(s)[i - Len(calls)]
    BY <1>1, <1>2, <1>3
  <2>2. i - Len(calls) \in 1..Len(Tail(s))
    BY <1>1, <1>3
  <2> QED
    BY <1>1, <1>3, <2>1, <2>2
<1>5. \A i \in 2..Len(s) : (calls \o Tail(s))[Len(calls) + i - 1] = s[i]
  <2> TAKE i \in 2..Len(s)
  <2>1. Len(calls) + i - 1 \in (Len(calls) + 1)..(Len(calls) + Len(s) - 1)
    BY <1>3
  <2>2. Len(calls) + i - 1 - Len(calls) + 1 = i
    BY <1>3
  <2> QED
    BY <1>4, <2>1, <2>2
<1> QED
  BY <1>1, <1>2, <1>3, <1>4, <1>5

Once(s) == \A i, j \in 1..Len(s) : s[i].op = "process" /\ s[i] = s[j] => i = j
Holds(s, b) == \E i \in 1..Len(s) : s[i] = Process(b)
Plain(calls) == \A i \in 1..Len(calls) : calls[i].op # "process"

\* t is s with its head replaced by calls, frame by frame.
Replacement(s, calls, t) ==
  /\ t \in Seq(Frame)
  /\ Len(t) = Len(calls) + Len(s) - 1
  /\ \A i \in 1..Len(calls) : t[i] = calls[i]
  /\ \A i \in 2..Len(s) : t[Len(calls) + i - 1] = s[i]
  /\ \A i \in (Len(calls) + 1)..(Len(calls) + Len(s) - 1) : t[i] = s[i - Len(calls) + 1]

\* calls \o Tail(s) is such a t.
LEMMA TailReplaced ==
  ASSUME NEW s \in Seq(Frame), s # <<>>, NEW calls \in Seq(Frame)
  PROVE  Replacement(s, calls, calls \o Tail(s))
  BY Replaced DEF Replacement

\* The process frames of a replacement by calls that are not process are those
\* below the head.
LEMMA FramesBelow ==
  ASSUME NEW s \in Seq(Frame), s # <<>>, NEW calls \in Seq(Frame), Plain(calls),
         NEW t, Replacement(s, calls, t), NEW i \in 1..Len(t), t[i].op = "process"
  PROVE  i - Len(calls) + 1 \in 2..Len(s) /\ t[i] = s[i - Len(calls) + 1]
<1>1. Len(calls) \in Nat /\ Len(s) \in Nat /\ Len(s) > 0
  BY LenProperties, EmptySeq
<1>2. i \notin 1..Len(calls)
  BY DEF Plain, Replacement
<1>3. i \in (Len(calls) + 1)..(Len(calls) + Len(s) - 1) /\ i - Len(calls) + 1 \in 2..Len(s)
  BY <1>1, <1>2 DEF Replacement
<1> QED
  BY <1>3 DEF Replacement

\* So no attestation is on the stack twice, and those on it are those below.
LEMMA PlainCalls ==
  ASSUME NEW s \in Seq(Frame), s # <<>>, Once(s), NEW calls \in Seq(Frame),
         Plain(calls), NEW t, Replacement(s, calls, t)
  PROVE  /\ Once(t)
         /\ \A b \in Attestations :
              Holds(t, b) <=> Holds(s, b) /\ Head(s) # Process(b)
<1>1. /\ Len(calls) \in Nat /\ Len(s) \in Nat /\ Len(s) > 0 /\ Head(s) = s[1]
      /\ Len(t) = Len(calls) + Len(s) - 1
  BY LenProperties, EmptySeq, HeadTailProperties DEF Replacement
<1>2. \A i \in 1..Len(t) : t[i].op = "process" =>
        i - Len(calls) + 1 \in 2..Len(s) /\ t[i] = s[i - Len(calls) + 1]
  BY FramesBelow
<1>3. Once(t)
  <2> SUFFICES ASSUME NEW i \in 1..Len(t), NEW j \in 1..Len(t),
                      t[i].op = "process", t[i] = t[j]
               PROVE  i = j
    BY DEF Once
  <2> DEFINE k == i - Len(calls) + 1
             l == j - Len(calls) + 1
  <2>1. /\ k \in 1..Len(s) /\ t[i] = s[k]
        /\ l \in 1..Len(s) /\ t[j] = s[l]
    BY <1>1, <1>2
  <2>2. k = l
    <3> HIDE DEF k, l
    <3> QED
      BY <2>1 DEF Once
  <2> QED
    BY <1>1, <2>2
<1>4. ASSUME NEW b \in Attestations, Holds(t, b)
      PROVE  Holds(s, b) /\ Head(s) # Process(b)
  <2>1. PICK i \in 1..Len(t) : t[i] = Process(b)
    BY <1>4 DEF Holds
  <2> DEFINE k == i - Len(calls) + 1
  <2>2. k \in 2..Len(s) /\ s[k] = Process(b)
    BY <1>2, <2>1, Frames
  <2> HIDE DEF k
  <2>3. Process(b).op = "process"
    BY Frames
  <2>4. s[1] # Process(b)
    BY <1>1, <2>2, <2>3 DEF Once
  <2> QED
    BY <1>1, <2>2, <2>4 DEF Holds
<1>5. ASSUME NEW b \in Attestations, Holds(s, b), Head(s) # Process(b)
      PROVE  Holds(t, b)
  <2>1. PICK i \in 1..Len(s) : s[i] = Process(b)
    BY <1>5 DEF Holds
  <2>2. i \in 2..Len(s)
    BY <1>1, <1>5, <2>1
  <2>3. Len(calls) + i - 1 \in 1..Len(t)
    BY <1>1, <2>2
  <2> QED
    BY <2>1, <2>2, <2>3 DEF Holds, Replacement
<1> QED
  BY <1>3, <1>4, <1>5

-----------------------------------------------------------------------------
(* The steps of the stack.                                                   *)

\* A plain call made by a method other than process leaves the attestations on
\* the stack alone.
LEMMA RunPlain ==
  ASSUME stack \in Seq(Frame), Once(stack), NEW op \in Op,
         NEW calls \in Seq(Frame), Plain(calls), Run(op, calls)
  PROVE  /\ stack' \in Seq(Frame)
         /\ Once(stack')
         /\ \A b \in Attestations : Holds(stack', b) <=> Holds(stack, b)
<1>1. Replacement(stack, calls, stack')
  BY TailReplaced DEF Run
<1>2. \A b \in Attestations : Head(stack) # Process(b)
  BY Frames DEF Run
<1> QED
  BY <1>1, <1>2, PlainCalls DEF Run, Replacement

\* The end of process takes its attestation off the stack.
LEMMA RunProcess ==
  ASSUME stack \in Seq(Frame), Once(stack), NEW a \in Attestations,
         stack # <<>>, Head(stack) = Process(a),
         NEW calls \in Seq(Frame), Plain(calls), Run("process", calls)
  PROVE  /\ stack' \in Seq(Frame)
         /\ Once(stack')
         /\ Holds(stack, a)
         /\ \A b \in Attestations : Holds(stack', b) <=> Holds(stack, b) /\ b # a
<1>1. Replacement(stack, calls, stack')
  BY TailReplaced DEF Run
<1>2. \A b \in Attestations : Head(stack) # Process(b) <=> b # a
  BY Frames
<1>3. Holds(stack, a)
  <2>1. Head(stack) = stack[1] /\ 1 \in 1..Len(stack)
    BY HeadTailProperties, LenProperties, EmptySeq
  <2> QED
    BY <2>1 DEF Holds
<1> QED
  BY <1>1, <1>2, <1>3, PlainCalls DEF Replacement

\* A replacement that calls process for an attestation not on the stack.
LEMMA ProcessPushed ==
  ASSUME NEW s \in Seq(Frame), s # <<>>, Once(s), Head(s).op # "process",
         NEW calls \in Seq(Frame), NEW p \in 1..Len(calls), NEW a \in Attestations,
         calls[p] = Process(a), ~Holds(s, a),
         \A i \in 1..Len(calls) : i # p => calls[i].op # "process",
         NEW t, Replacement(s, calls, t)
  PROVE  /\ Once(t)
         /\ \A b \in Attestations : Holds(t, b) <=> Holds(s, b) \/ b = a
<1>1. /\ Len(calls) \in Nat /\ Len(s) \in Nat /\ Len(s) > 0 /\ Head(s) = s[1]
      /\ Len(t) = Len(calls) + Len(s) - 1
      /\ t[p] = Process(a) /\ p \in 1..Len(t)
  BY LenProperties, EmptySeq, HeadTailProperties DEF Replacement
<1>2. ASSUME NEW i \in 1..Len(t), t[i].op = "process", i # p
      PROVE  i - Len(calls) + 1 \in 2..Len(s) /\ t[i] = s[i - Len(calls) + 1]
  <2>1. i \notin 1..Len(calls)
    BY <1>2 DEF Replacement
  <2>2. i \in (Len(calls) + 1)..(Len(calls) + Len(s) - 1) /\ i - Len(calls) + 1 \in 2..Len(s)
    BY <1>1, <2>1
  <2> QED
    BY <2>2 DEF Replacement
<1>3. ASSUME NEW i \in 1..Len(t), t[i].op = "process", i # p
      PROVE  t[i] # Process(a)
  <2>1. i - Len(calls) + 1 \in 1..Len(s) /\ t[i] = s[i - Len(calls) + 1]
    BY <1>1, <1>2, <1>3
  <2> QED
    BY <2>1 DEF Holds
<1>4. Once(t)
  <2> SUFFICES ASSUME NEW i \in 1..Len(t), NEW j \in 1..Len(t),
                      t[i].op = "process", t[i] = t[j]
               PROVE  i = j
    BY DEF Once
  <2>1. CASE i = p \/ j = p
    BY <1>1, <1>3, <2>1
  <2>2. CASE i # p /\ j # p
    <3> DEFINE k == i - Len(calls) + 1
               l == j - Len(calls) + 1
    <3>1. /\ k \in 1..Len(s) /\ t[i] = s[k]
          /\ l \in 1..Len(s) /\ t[j] = s[l]
      BY <1>1, <1>2, <2>2
    <3>2. k = l
      <4> HIDE DEF k, l
      <4> QED
        BY <3>1 DEF Once
    <3> QED
      BY <1>1, <3>2
  <2> QED
    BY <2>1, <2>2
<1>5. ASSUME NEW b \in Attestations, Holds(t, b), b # a
      PROVE  Holds(s, b)
  <2>1. PICK i \in 1..Len(t) : t[i] = Process(b)
    BY <1>5 DEF Holds
  <2>2. t[i].op = "process" /\ i # p
    BY <1>1, <1>5, <2>1, Frames
  <2> DEFINE k == i - Len(calls) + 1
  <2>3. k \in 1..Len(s) /\ s[k] = Process(b)
    BY <1>1, <1>2, <2>1, <2>2
  <2> HIDE DEF k
  <2> QED
    BY <2>3 DEF Holds
<1>6. ASSUME NEW b \in Attestations, Holds(s, b)
      PROVE  Holds(t, b)
  <2>1. PICK i \in 1..Len(s) : s[i] = Process(b)
    BY <1>6 DEF Holds
  <2>2. s[i].op = "process"
    BY <2>1, Frames
  <2>3. i \in 2..Len(s) /\ Len(calls) + i - 1 \in 1..Len(t)
    BY <1>1, <2>2
  <2> QED
    BY <2>1, <2>3 DEF Holds, Replacement
<1>7. Holds(t, a)
  BY <1>1 DEF Holds
<1> QED
  BY <1>4, <1>5, <1>6, <1>7

\* A loop calls process for an attestation that is not on the stack.
LEMMA RunPush ==
  ASSUME stack \in Seq(Frame), Once(stack), NEW op \in Op,
         NEW calls \in Seq(Frame), NEW p \in 1..Len(calls), NEW a \in Attestations,
         calls[p] = Process(a), ~Holds(stack, a),
         \A i \in 1..Len(calls) : i # p => calls[i].op # "process",
         Run(op, calls)
  PROVE  /\ stack' \in Seq(Frame)
         /\ Once(stack')
         /\ \A b \in Attestations : Holds(stack', b) <=> Holds(stack, b) \/ b = a
<1>1. Replacement(stack, calls, stack')
  BY TailReplaced DEF Run
<1>2. Head(stack).op # "process"
  BY Frames DEF Run
<1> QED
  <2>1. stack # <<>> /\ stack' \in Seq(Frame)
    BY <1>1 DEF Run, Replacement
  <2>2. /\ Once(stack')
        /\ \A b \in Attestations : Holds(stack', b) <=> Holds(stack, b) \/ b = a
    BY <1>1, <1>2, <2>1, ProcessPushed, Zenon
  <2> QED
    BY <2>1, <2>2

-----------------------------------------------------------------------------
(* The queue.                                                                *)

Distinct(q) == \A i, j \in 1..Len(q) : q[i] = q[j] => i = j
In(q, b) == \E i \in 1..Len(q) : q[i] = b

\* The head of a queue without repetition is not in its tail.
LEMMA Shifted ==
  ASSUME NEW q \in Seq(Attestations), q # <<>>, Distinct(q)
  PROVE  /\ Tail(q) \in Seq(Attestations)
         /\ Head(q) \in Attestations
         /\ In(q, Head(q))
         /\ Distinct(Tail(q))
         /\ \A b \in Attestations : In(Tail(q), b) <=> In(q, b) /\ b # Head(q)
<1>1. /\ Tail(q) \in Seq(Attestations)
      /\ Len(Tail(q)) = Len(q) - 1
      /\ \A i \in 1..Len(Tail(q)) : Tail(q)[i] = q[i + 1]
      /\ Head(q) = q[1] /\ Head(q) \in Attestations
      /\ Len(q) \in Nat /\ Len(q) > 0
  BY HeadTailProperties, LenProperties, EmptySeq, ElementOfSeq
<1>2. In(q, Head(q))
  BY <1>1 DEF In
<1>3. Distinct(Tail(q))
  <2> SUFFICES ASSUME NEW i \in 1..Len(Tail(q)), NEW j \in 1..Len(Tail(q)),
                      Tail(q)[i] = Tail(q)[j]
               PROVE  i = j
    BY DEF Distinct
  <2>1. /\ i + 1 \in 1..Len(q) /\ j + 1 \in 1..Len(q)
        /\ q[i + 1] = q[j + 1]
    BY <1>1
  <2>2. i + 1 = j + 1
    BY <2>1 DEF Distinct
  <2> QED
    BY <2>2
<1>4. ASSUME NEW b \in Attestations, In(Tail(q), b)
      PROVE  In(q, b) /\ b # Head(q)
  <2>1. PICK i \in 1..Len(Tail(q)) : Tail(q)[i] = b
    BY <1>4 DEF In
  <2>2. i + 1 \in 1..Len(q) /\ q[i + 1] = b /\ i + 1 # 1
    BY <1>1, <2>1
  <2> QED
    BY <1>1, <2>2 DEF In, Distinct
<1>5. ASSUME NEW b \in Attestations, In(q, b), b # Head(q)
      PROVE  In(Tail(q), b)
  <2>1. PICK i \in 1..Len(q) : q[i] = b
    BY <1>5 DEF In
  <2>2. i - 1 \in 1..Len(Tail(q)) /\ Tail(q)[i - 1] = b
    BY <1>1, <1>5, <2>1
  <2> QED
    BY <2>2 DEF In
<1> QED
  BY <1>1, <1>2, <1>3, <1>4, <1>5

\* An attestation that is not in the queue can be added to it.
LEMMA Added ==
  ASSUME NEW q \in Seq(Attestations), Distinct(q), NEW a \in Attestations, ~In(q, a)
  PROVE  /\ Append(q, a) \in Seq(Attestations)
         /\ Distinct(Append(q, a))
         /\ \A b \in Attestations : In(Append(q, a), b) <=> In(q, b) \/ b = a
<1>1. /\ Append(q, a) \in Seq(Attestations)
      /\ Len(Append(q, a)) = Len(q) + 1
      /\ \A i \in 1..Len(q) : Append(q, a)[i] = q[i]
      /\ Append(q, a)[Len(q) + 1] = a
      /\ Len(q) \in Nat
  BY AppendProperties, LenProperties
<1>2. Distinct(Append(q, a))
  <2> SUFFICES ASSUME NEW i \in 1..(Len(q) + 1), NEW j \in 1..(Len(q) + 1),
                      Append(q, a)[i] = Append(q, a)[j]
               PROVE  i = j
    BY <1>1 DEF Distinct
  <2>1. CASE i = Len(q) + 1 /\ j \in 1..Len(q)
    BY <1>1, <2>1 DEF In
  <2>2. CASE j = Len(q) + 1 /\ i \in 1..Len(q)
    BY <1>1, <2>2 DEF In
  <2>3. CASE i \in 1..Len(q) /\ j \in 1..Len(q)
    BY <1>1, <2>3 DEF Distinct
  <2> QED
    BY <1>1, <2>1, <2>2, <2>3
<1>3. \A b \in Attestations : In(Append(q, a), b) <=> In(q, b) \/ b = a
  BY <1>1 DEF In
<1> QED
  BY <1>1, <1>2, <1>3

-----------------------------------------------------------------------------
(* The inductive invariant: the types, and every attestation in one place.   *)

IInv == TypeOK /\ InOnePlace

\* InOnePlace in the terms of the lemmas above.
LEMMA OnePlace ==
  /\ InOnePlace <=> /\ Distinct(queue)
                    /\ Once(stack)
                    /\ \A a \in Attestations : Placed(a)
  /\ InOnePlace' <=> /\ Distinct(queue')
                     /\ Once(stack')
                     /\ \A a \in Attestations : Placed(a)'
  /\ \A a \in Attestations : InQueue(a) <=> In(queue, a)
  /\ \A a \in Attestations : InQueue(a)' <=> In(queue', a)
  /\ \A a \in Attestations : OnStack(a) <=> Holds(stack, a)
  /\ \A a \in Attestations : OnStack(a)' <=> Holds(stack', a)
  BY DEF InOnePlace, Distinct, Once, InQueue, OnStack, In, Holds

\* The lists of calls that the methods make, other than process.
LEMMA PlainLists ==
  /\ <<>> \in Seq(Frame) /\ Plain(<<>>)
  /\ \A op \in Op : /\ <<Call(op)>> \in Seq(Frame)
                    /\ Plain(<<Call(op)>>)
  /\ \A op1, op2 \in Op : /\ <<Call(op1), Call(op2)>> \in Seq(Frame)
                          /\ Plain(<<Call(op1), Call(op2)>>)
  BY Frames DEF Plain

\* A method that moves no attestation keeps each in its place.
LEMMA Unmoved ==
  ASSUME IInv, NEW op \in Op, NEW calls \in Seq(Frame), Plain(calls),
         Run(op, calls), UNCHANGED places
  PROVE  stack' \in Seq(Frame) /\ InOnePlace'
<1>1. /\ stack' \in Seq(Frame)
      /\ Once(stack')
      /\ \A b \in Attestations : Holds(stack', b) <=> Holds(stack, b)
  BY RunPlain, OnePlace DEF IInv, TypeOK
<1>2. queue' = queue /\ delayed' = delayed /\ processing' = processing /\ att' = att
  BY DEF places
<1>3. \A a \in Attestations : (InQueue(a)' <=> InQueue(a)) /\ (OnStack(a)' <=> OnStack(a))
  BY <1>1, <1>2, OnePlace
<1>4. \A a \in Attestations : Placed(a)'
  BY <1>2, <1>3, OnePlace DEF IInv, Placed
<1> QED
  BY <1>1, <1>2, <1>4, OnePlace DEF IInv

\* The calls that start when nothing runs hold no attestation.
LEMMA FreshCalls ==
  ASSUME NEW calls \in Seq(Frame), Plain(calls)
  PROVE  Once(calls) /\ \A b \in Attestations : ~Holds(calls, b)
<1>1. Once(calls)
  BY DEF Once, Plain
<1>2. ASSUME NEW b \in Attestations, Holds(calls, b) PROVE FALSE
  BY <1>2, Frames DEF Holds, Plain
<1> QED
  BY <1>1, <1>2

-----------------------------------------------------------------------------
(* The methods.                                                              *)

\* The types of the variables that are not the stack.
Rest ==
  /\ clock \in Nat /\ requestTime \in Int /\ requestsPerSecond \in Nat /\ sent \in Nat
  /\ queue \in Seq(Attestations)
  /\ delayed \subseteq Attestations
  /\ processing \subseteq Attestations
  /\ att \in [Attestations -> AttestationRecord]
  /\ handle \in BOOLEAN /\ handleTime \in Nat /\ timeouts \subseteq Nat
  /\ heartbeats \in Nat

\* TypeOK is the type of the stack and of the rest.
LEMMA TypeParts ==
  /\ TypeOK <=> Rest /\ stack \in Seq(Frame)
  /\ TypeOK' <=> Rest' /\ stack' \in Seq(Frame)
  BY DEF TypeOK, Rest

\* The methods that move no attestation (startNext, the ends of its loops,
\* updateDelayQueueTimer and the end of the timer's callback).
LEMMA UnmovingSteps ==
  ASSUME IInv, StartNext \/ PriorityEnd \/ QueueEnd \/ UpdateTimer \/ ClearTimer
  PROVE  IInv'
<1> USE DEF IInv, quota, timers
<1>1. CASE StartNext
  <2>1. Rest'
    BY <1>1, TypeParts DEF StartNext, Rest, places
  <2>2. PICK calls \in Seq(Frame) : Plain(calls) /\ Run("startNext", calls)
    BY <1>1, PlainLists DEF StartNext, Op
  <2> QED
    BY <1>1, <2>1, <2>2, Unmoved, TypeParts DEF StartNext, Op, places
<1>2. CASE PriorityEnd
  <2>1. Rest'
    BY <1>2, TypeParts DEF PriorityEnd, Rest, places
  <2> QED
    BY <1>2, <2>1, PlainLists, Unmoved, TypeParts DEF PriorityEnd, Op
<1>3. CASE QueueEnd
  <2>1. Rest'
    BY <1>3, TypeParts DEF QueueEnd, Rest, places
  <2> QED
    BY <1>3, <2>1, PlainLists, Unmoved, TypeParts DEF QueueEnd, Op
<1>4. CASE UpdateTimer
  <2>1. UNCHANGED <<clock, quota, places>> /\ Rest
    BY <1>4, TypeParts DEF UpdateTimer
  <2>a. handle' \in BOOLEAN /\ handleTime' \in Nat /\ timeouts' \subseteq Nat /\ heartbeats' \in Nat
    <3>1. CASE UNCHANGED timers
      BY <2>1, <3>1 DEF Rest
    <3>2. CASE ~UNCHANGED timers
      <4>1. PICK a \in Top :
              /\ timeouts' = (IF handle THEN timeouts \ {handleTime} ELSE timeouts)
                               \cup {att[a].startTime}
              /\ handle' = TRUE
              /\ handleTime' = att[a].startTime
              /\ UNCHANGED heartbeats
        BY <1>4, <3>2 DEF UpdateTimer
      <4>2. att[a].startTime \in Nat
        BY <2>1 DEF Rest, Top, AttestationRecord
      <4> QED
        BY <2>1, <4>1, <4>2 DEF Rest
    <3> QED
      BY <3>1, <3>2
  <2>b. Rest'
    BY <2>1, <2>a DEF Rest, places
  <2>2. PICK calls \in Seq(Frame) : Plain(calls) /\ Run("updateTimer", calls)
    BY <1>4, PlainLists DEF UpdateTimer, Op
  <2> QED
    BY <1>4, <2>b, <2>2, Unmoved, TypeParts DEF UpdateTimer, Op
<1>5. CASE ClearTimer
  <2>1. Rest'
    BY <1>5, TypeParts DEF ClearTimer, Rest, places
  <2> QED
    BY <1>5, <2>1, PlainLists, Unmoved, TypeParts DEF ClearTimer, Op
<1> QED
  BY <1>1, <1>2, <1>3, <1>4, <1>5

\* The first loop of startNext moves the head of the priority queue to the
\* running call.
LEMMA PriorityTurnStep ==
  ASSUME IInv, PriorityTurn
  PROVE  IInv'
<1>1. PICK a \in Top :
        /\ Run("priorityLoop", <<Call("updateTimer"), Process(a), Call("priorityLoop")>>)
        /\ delayed' = delayed \ {a}
  BY DEF PriorityTurn
<1>2. a \in delayed /\ a \in Attestations
  BY <1>1 DEF Top, IInv, TypeOK
<1> DEFINE calls == <<Call("updateTimer"), Process(a), Call("priorityLoop")>>
<1>3. att[a].status = "processing" /\ ~OnStack(a)
  <2>1. att[a].status \in Status /\ Placed(a)
    BY <1>2, OnePlace DEF IInv, TypeOK, AttestationRecord
  <2>2. att[a].status = "processing"
    BY <1>2, <2>1 DEF Placed, Status
  <2> QED
    BY <1>2, <2>1, <2>2 DEF Placed
<1>4. /\ calls \in Seq(Frame) /\ Len(calls) = 3
      /\ calls[2] = Process(a)
      /\ calls[1].op # "process" /\ calls[3].op # "process"
  BY <1>2, Frames DEF Op
<1>5. Run("priorityLoop", calls)
  BY <1>1
<1> HIDE DEF calls
<1>6. /\ stack' \in Seq(Frame)
      /\ Once(stack')
      /\ \A b \in Attestations : Holds(stack', b) <=> Holds(stack, b) \/ b = a
  <2>1. \A i \in 1..Len(calls) : i # 2 => calls[i].op # "process"
    BY <1>4
  <2>2. "priorityLoop" \in Op /\ 2 \in 1..Len(calls)
    BY <1>4 DEF Op
  <2>3. stack \in Seq(Frame) /\ Once(stack) /\ ~Holds(stack, a)
    BY <1>2, <1>3, OnePlace DEF IInv, TypeOK
  <2> QED
    BY <1>2, <1>4, <1>5, <2>1, <2>2, <2>3, RunPush
<1>7. queue' = queue /\ processing' = processing /\ att' = att
  BY DEF PriorityTurn
<1>8. \A b \in Attestations : /\ InQueue(b)' <=> InQueue(b)
                              /\ OnStack(b)' <=> OnStack(b) \/ b = a
  BY <1>6, <1>7, OnePlace
<1>9. \A b \in Attestations : Placed(b)'
  BY <1>1, <1>2, <1>3, <1>7, <1>8, OnePlace DEF IInv, Placed, Final
<1>10. Rest'
  BY <1>1, <1>7, TypeParts DEF IInv, PriorityTurn, Rest, quota, timers
<1> QED
  BY <1>6, <1>7, <1>9, <1>10, OnePlace, TypeParts DEF IInv

\* The second loop of startNext moves the head of the queue.
LEMMA QueueTurnStep ==
  ASSUME IInv, QueueTurn
  PROVE  IInv'
<1> DEFINE a == Head(queue)
           calls == <<Process(a), Call("queueLoop")>>
<1>1. queue \in Seq(Attestations) /\ queue # <<>> /\ Distinct(queue)
  BY OnePlace DEF QueueTurn, IInv, TypeOK
<1>2. /\ Tail(queue) \in Seq(Attestations)
      /\ a \in Attestations
      /\ In(queue, a)
      /\ Distinct(Tail(queue))
      /\ \A b \in Attestations : In(Tail(queue), b) <=> In(queue, b) /\ b # a
  BY <1>1, Shifted
<1>3. Run("queueLoop", calls) /\ queue' = Tail(queue)
  BY DEF QueueTurn
<1>4. /\ calls \in Seq(Frame) /\ Len(calls) = 2
      /\ calls[1] = Process(a)
      /\ calls[2].op # "process"
  BY <1>2, Frames DEF Op
<1> HIDE DEF calls, a
<1>5. att[a].status = "queued" /\ ~OnStack(a)
  BY <1>2, OnePlace DEF IInv, Placed, TypeOK, AttestationRecord, Status
<1>6. /\ stack' \in Seq(Frame)
      /\ Once(stack')
      /\ \A b \in Attestations : Holds(stack', b) <=> Holds(stack, b) \/ b = a
  <2>1. \A i \in 1..Len(calls) : i # 1 => calls[i].op # "process"
    BY <1>4
  <2>2. "queueLoop" \in Op /\ 1 \in 1..Len(calls)
    BY <1>4 DEF Op
  <2>3. stack \in Seq(Frame) /\ Once(stack) /\ ~Holds(stack, a)
    BY <1>2, <1>5, OnePlace DEF IInv, TypeOK
  <2> QED
    BY <1>2, <1>3, <1>4, <2>1, <2>2, <2>3, RunPush
<1>7. delayed' = delayed /\ processing' = processing /\ att' = att
  BY DEF QueueTurn
<1>8. \A b \in Attestations : /\ InQueue(b)' <=> InQueue(b) /\ b # a
                              /\ OnStack(b)' <=> OnStack(b) \/ b = a
  BY <1>2, <1>3, <1>6, OnePlace
<1>9. \A b \in Attestations : Placed(b)'
  BY <1>2, <1>5, <1>7, <1>8, OnePlace DEF IInv, Placed, Final
<1>10. Rest'
  BY <1>2, <1>3, <1>7, TypeParts DEF IInv, QueueTurn, Rest, quota, timers
<1> QED
  BY <1>2, <1>3, <1>6, <1>7, <1>9, <1>10, OnePlace, TypeParts DEF IInv

\* process takes its attestation off the stack.
LEMMA ProcessStep ==
  ASSUME IInv, ProcessAttestation
  PROVE  IInv'
<1>1. PICK a \in Attestations :
        /\ stack # <<>> /\ Head(stack) = Process(a)
        /\ \/ /\ att' = [att EXCEPT ![a].status = "failed"]
              /\ Run("process", <<Call("startNext")>>)
              /\ UNCHANGED <<quota, processing>>
           \/ /\ att' = [att EXCEPT ![a].status = "tooLate"]
              /\ Run("process", <<>>)
              /\ UNCHANGED <<quota, processing>>
           \/ /\ att' = [att EXCEPT ![a].status = "processing"]
              /\ processing' = processing \cup {a}
              /\ Started(a)
              /\ Run("process", <<>>)
        /\ UNCHANGED <<clock, timers, queue, delayed>>
  BY DEF ProcessAttestation
<1>2. PICK calls \in Seq(Frame) : Plain(calls) /\ Run("process", calls)
  BY <1>1, PlainLists DEF Op
<1>3. /\ stack' \in Seq(Frame)
      /\ Once(stack')
      /\ Holds(stack, a)
      /\ \A b \in Attestations : Holds(stack', b) <=> Holds(stack, b) /\ b # a
  BY <1>1, <1>2, RunProcess, OnePlace DEF IInv, TypeOK
<1>4. queue' = queue /\ delayed' = delayed
  BY <1>1
<1>5. \A b \in Attestations : /\ InQueue(b)' <=> InQueue(b)
                              /\ OnStack(b)' <=> OnStack(b) /\ b # a
  BY <1>3, <1>4, OnePlace
<1>6. OnStack(a) /\ ~InQueue(a) /\ a \notin delayed \cup processing
  <2>1. OnStack(a)
    BY <1>3, OnePlace
  <2>2. att[a].status \in Status /\ Placed(a)
    BY OnePlace DEF IInv, TypeOK, AttestationRecord
  <2> QED
    BY <2>1, <2>2 DEF Placed, Status
<1>7. \E st \in Final \cup {"processing"} :
        /\ att' = [att EXCEPT ![a].status = st]
        /\ processing' = IF st = "processing" THEN processing \cup {a} ELSE processing
  BY <1>1 DEF Final
<1>8. PICK st \in Final \cup {"processing"} :
        /\ att' = [att EXCEPT ![a].status = st]
        /\ processing' = IF st = "processing" THEN processing \cup {a} ELSE processing
  BY <1>7
<1>9. /\ att'[a].status = st
      /\ \A b \in Attestations \ {a} : att'[b] = att[b]
      /\ att' \in [Attestations -> AttestationRecord]
  BY <1>8 DEF IInv, TypeOK, AttestationRecord, Status, Final
<1>10. Placed(a)'
  BY <1>4, <1>5, <1>6, <1>8, <1>9 DEF Placed, Final
<1>11. ASSUME NEW b \in Attestations, b # a PROVE Placed(b)'
  <2>1. att'[b] = att[b] /\ (b \in processing' <=> b \in processing)
    BY <1>8, <1>9, <1>11
  <2> QED
    BY <1>4, <1>5, <1>11, <2>1, OnePlace DEF IInv, Placed
<1>12. Rest'
  <2>1. requestTime' \in Int /\ requestsPerSecond' \in Nat /\ sent' \in Nat
    <3>1. SecondOf(clock) \in Int
      BY DEF SecondOf, IInv, TypeOK
    <3>2. Started(a) \/ UNCHANGED quota
      BY <1>1
    <3>3. requestTime \in Int /\ requestsPerSecond \in Nat /\ sent \in Nat
      BY DEF IInv, TypeOK
    <3>4. CASE Started(a)
      BY <3>1, <3>3, <3>4 DEF Started
    <3>5. CASE UNCHANGED quota
      BY <3>3, <3>5 DEF quota
    <3> QED
      BY <3>2, <3>4, <3>5
  <2> QED
    BY <1>1, <1>8, <1>9, <2>1, TypeParts DEF IInv, Rest, timers
<1> QED
  BY <1>3, <1>4, <1>10, <1>11, <1>12, OnePlace, TypeParts DEF IInv

-----------------------------------------------------------------------------
(* What starts when nothing runs.                                            *)

\* When nothing runs no attestation is on the stack.
LEMMA NothingRuns ==
  ASSUME Idle
  PROVE  \A b \in Attestations : ~OnStack(b)
  BY DEF Idle, OnStack

\* verifyAttestationRequest puts a new attestation on the stack or in the queue.
LEMMA VerifyRequestStep ==
  ASSUME IInv, NEW a \in Attestations, VerifyRequest(a)
  PROVE  IInv'
<1>1. /\ \A b \in Attestations : ~OnStack(b)
      /\ att[a].status = "initial"
      /\ ~InQueue(a) /\ a \notin processing \cup delayed
      /\ stack = <<>>
  BY NothingRuns, OnePlace DEF VerifyRequest, Idle, IInv, Placed
<1>2. CASE CanProcessNext
  <2>1. stack' = <<Process(a)>> /\ UNCHANGED places
    BY <1>2 DEF VerifyRequest
  <2>2. stack' \in Seq(Frame) /\ Once(stack')
    BY <2>1, Frames DEF Once
  <2>3. \A b \in Attestations : Holds(stack', b) <=> b = a
    BY <2>1, Frames DEF Holds
  <2>4. \A b \in Attestations : /\ InQueue(b)' <=> InQueue(b)
                                /\ OnStack(b)' <=> b = a
    BY <2>1, <2>3, OnePlace DEF places
  <2>5. \A b \in Attestations : Placed(b)'
    BY <1>1, <2>1, <2>4, OnePlace DEF IInv, Placed, Final, places
  <2>6. Rest'
    BY <2>1, TypeParts DEF VerifyRequest, IInv, Rest, quota, timers, places
  <2> QED
    BY <2>1, <2>2, <2>5, <2>6, OnePlace, TypeParts DEF IInv, places
<1>3. CASE ~CanProcessNext
  <2>1. /\ att' = [att EXCEPT ![a].status = "queued"]
        /\ queue' = Append(queue, a)
        /\ UNCHANGED <<stack, delayed, processing>>
    BY <1>3 DEF VerifyRequest
  <2>2. /\ Append(queue, a) \in Seq(Attestations)
        /\ Distinct(Append(queue, a))
        /\ \A b \in Attestations : In(Append(queue, a), b) <=> In(queue, b) \/ b = a
    BY <1>1, OnePlace, Added DEF IInv, TypeOK
  <2>3. \A b \in Attestations : /\ InQueue(b)' <=> InQueue(b) \/ b = a
                                /\ ~OnStack(b)'
    BY <1>1, <2>1, <2>2, OnePlace
  <2>4. /\ att'[a].status = "queued"
        /\ \A b \in Attestations \ {a} : att'[b] = att[b]
        /\ att' \in [Attestations -> AttestationRecord]
    BY <2>1 DEF IInv, TypeOK, AttestationRecord, Status
  <2>5. Placed(a)'
    BY <1>1, <2>1, <2>3, <2>4 DEF Placed, Final
  <2>6. ASSUME NEW b \in Attestations, b # a PROVE Placed(b)'
    <3>1. att'[b] = att[b] /\ (InQueue(b)' <=> InQueue(b)) /\ (OnStack(b)' <=> OnStack(b))
      BY <1>1, <2>3, <2>4, <2>6
    <3> QED
      BY <2>1, <3>1, OnePlace DEF IInv, Placed
  <2>7. Rest'
    BY <2>1, <2>2, <2>4, TypeParts DEF VerifyRequest, IInv, Rest, quota, timers
  <2> QED
    BY <2>1, <2>2, <2>5, <2>6, <2>7, OnePlace, TypeParts DEF IInv
<1> QED
  BY <1>2, <1>3

\* A new stack of plain calls, when nothing ran, is well formed.
LEMMA FreshStack ==
  ASSUME IInv, Idle, NEW op1 \in Op, NEW op2 \in Op,
         stack' \in {<<Call(op1)>>, <<Call(op1), Call(op2)>>}
  PROVE  /\ stack' \in Seq(Frame)
         /\ Once(stack')
         /\ \A b \in Attestations : ~OnStack(b) /\ ~OnStack(b)'
<1>1. stack' \in Seq(Frame) /\ Plain(stack')
  BY PlainLists
<1>2. Once(stack') /\ \A b \in Attestations : ~Holds(stack', b)
  BY <1>1, FreshCalls
<1> QED
  BY <1>1, <1>2, NothingRuns, OnePlace

\* onProcessed takes an attestation out of the set in process for good.
LEMMA ProcessedStep ==
  ASSUME IInv, Idle, NEW a \in processing, NEW st \in Final, Processed(a, st)
  PROVE  IInv'
<1>1. /\ att' = [att EXCEPT ![a].status = st]
      /\ processing' = processing \ {a}
      /\ stack' = <<Call("startNext")>>
      /\ UNCHANGED <<clock, quota, timers, queue, delayed>>
      /\ a \in Attestations
  BY DEF Processed, IInv, TypeOK
<1>2. /\ stack' \in Seq(Frame)
      /\ Once(stack')
      /\ \A b \in Attestations : ~OnStack(b) /\ ~OnStack(b)'
  BY <1>1, FreshStack DEF Op
<1>3. ~InQueue(a) /\ a \notin delayed
  <2>1. att[a].status \in Status /\ Placed(a)
    BY <1>1, OnePlace DEF IInv, TypeOK, AttestationRecord
  <2> QED
    BY <1>1, <1>2, <2>1 DEF Placed, Status
<1>4. /\ att'[a].status = st
      /\ \A b \in Attestations \ {a} : att'[b] = att[b]
      /\ att' \in [Attestations -> AttestationRecord]
  BY <1>1 DEF IInv, TypeOK, AttestationRecord, Status, Final
<1>5. \A b \in Attestations : InQueue(b)' <=> InQueue(b)
  BY <1>1, OnePlace
<1>6. Placed(a)'
  BY <1>1, <1>2, <1>3, <1>4, <1>5 DEF Placed, Final
<1>7. ASSUME NEW b \in Attestations, b # a PROVE Placed(b)'
  <2>1. att'[b] = att[b] /\ (b \in processing' <=> b \in processing)
    BY <1>1, <1>4, <1>7
  <2> QED
    BY <1>1, <1>2, <1>5, <2>1, OnePlace DEF IInv, Placed
<1>8. Rest'
  BY <1>1, <1>4, TypeParts DEF IInv, Rest, quota, timers
<1> QED
  BY <1>1, <1>2, <1>6, <1>7, <1>8, OnePlace, TypeParts DEF IInv

\* A failed call moves its attestation to the priority queue, or ends it.
LEMMA CallFailedStep ==
  ASSUME IInv, NEW a \in Attestations, CallFailed(a)
  PROVE  IInv'
<1>1. Idle /\ a \in processing
  BY DEF CallFailed
<1>2. CASE ~MayRetry(a)
  BY <1>1, <1>2, ProcessedStep DEF CallFailed, Final
<1>3. CASE MayRetry(a)
  <2>1. /\ att' = [att EXCEPT ![a].retry = @ + 1, ![a].startTime = clock + Delay]
        /\ processing' = processing \ {a}
        /\ delayed' = delayed \cup {a}
        /\ stack' = <<Call("updateTimer")>>
        /\ UNCHANGED <<clock, quota, timers, queue>>
    BY <1>3 DEF CallFailed
  <2>2. /\ stack' \in Seq(Frame)
        /\ Once(stack')
        /\ \A b \in Attestations : ~OnStack(b) /\ ~OnStack(b)'
    BY <1>1, <2>1, FreshStack DEF Op
  <2>3. att[a].status = "processing" /\ ~InQueue(a)
    <3>1. att[a].status \in Status /\ Placed(a)
      BY OnePlace DEF IInv, TypeOK, AttestationRecord
    <3> QED
      BY <1>1, <2>2, <3>1 DEF Placed, Status
  <2>4. /\ att'[a].status = att[a].status
        /\ \A b \in Attestations \ {a} : att'[b] = att[b]
        /\ att' \in [Attestations -> AttestationRecord]
    <3>1. att[a] \in AttestationRecord /\ clock + Delay \in Nat
      BY DEF IInv, TypeOK
    <3>2. att[a].retry + 1 \in 0..MaxRetries
      BY <1>3, <3>1 DEF MayRetry, AttestationRecord
    <3> QED
      BY <2>1, <3>1, <3>2 DEF IInv, TypeOK, AttestationRecord
  <2>5. \A b \in Attestations : InQueue(b)' <=> InQueue(b)
    BY <2>1, OnePlace
  <2>6. Placed(a)'
    BY <2>1, <2>2, <2>3, <2>4, <2>5 DEF Placed, Final
  <2>7. ASSUME NEW b \in Attestations, b # a PROVE Placed(b)'
    <3>1. /\ att'[b] = att[b]
          /\ b \in processing' <=> b \in processing
          /\ b \in delayed' <=> b \in delayed
      BY <2>1, <2>4, <2>7
    <3> QED
      BY <2>2, <2>5, <3>1, OnePlace DEF IInv, Placed
  <2>8. Rest'
    BY <2>1, <2>4, TypeParts DEF IInv, Rest, quota, timers
  <2> QED
    BY <2>1, <2>2, <2>6, <2>7, <2>8, OnePlace, TypeParts DEF IInv
<1> QED
  BY <1>2, <1>3

\* The timers and the clock move no attestation.
LEMMA TimerSteps ==
  ASSUME IInv, TimeoutFires \/ HeartbeatFires \/ Tick
  PROVE  IInv'
<1>1. UNCHANGED places /\ Idle
  BY DEF TimeoutFires, HeartbeatFires, Tick
<1>2. /\ stack' \in Seq(Frame)
      /\ Once(stack')
      /\ \A b \in Attestations : ~OnStack(b) /\ ~OnStack(b)'
  <2>1. CASE Tick
    BY <1>1, <2>1, NothingRuns, OnePlace DEF Tick, IInv, TypeOK
  <2>2. CASE TimeoutFires \/ HeartbeatFires
    <3>1. stack' \in {<<Call("startNext")>>, <<Call("startNext"), Call("clearTimer")>>}
      BY <2>2 DEF TimeoutFires, HeartbeatFires
    <3> QED
      BY <1>1, <3>1, FreshStack DEF Op
  <2> QED
    BY <2>1, <2>2
<1>3. \A b \in Attestations : InQueue(b)' <=> InQueue(b)
  BY <1>1, OnePlace DEF places
<1>4. \A b \in Attestations : Placed(b)'
  BY <1>1, <1>2, <1>3, OnePlace DEF IInv, Placed, places
<1>5. Rest'
  <2>1. Rest
    BY TypeParts DEF IInv
  <2>2. CASE Tick
    BY <2>1, <2>2 DEF Tick, Rest, places, timers
  <2>3. CASE TimeoutFires
    BY <2>1, <2>3 DEF TimeoutFires, Rest, places, quota
  <2>4. CASE HeartbeatFires
    BY <2>1, <2>4 DEF HeartbeatFires, Rest, places, quota
  <2> QED
    BY <2>2, <2>3, <2>4
<1> QED
  BY <1>1, <1>2, <1>4, <1>5, OnePlace, TypeParts DEF IInv, places

-----------------------------------------------------------------------------
\* The inductive invariant of the source manager: the types, and each
\* attestation in one place.
THEOREM Invariance == Spec => []IInv
<1>1. Init => IInv
  <2> SUFFICES ASSUME Init PROVE IInv
    OBVIOUS
  <2>1. TypeOK
    <3>1. att \in [Attestations -> AttestationRecord]
      <4>1. 0 \in 0..MaxRetries
        OBVIOUS
      <4> DEFINE New == [status : {"initial"}, retry : {0}, commitEnd : Deadlines, startTime : {0}]
      <4>2. att \in [Attestations -> New]
        BY DEF Init
      <4>3. ASSUME NEW x \in New PROVE x \in AttestationRecord
        BY <4>1 DEF AttestationRecord, Status
      <4> HIDE DEF New
      <4> QED
        BY <4>2, <4>3, Zenon
    <3>2. <<>> \in Seq(Attestations) /\ <<>> \in Seq(Frame)
      BY EmptySeq
    <3>3. /\ clock \in Nat
          /\ requestTime \in Int
          /\ requestsPerSecond \in Nat
          /\ handleTime \in Nat
          /\ heartbeats \in Nat
          /\ sent \in Nat
      BY SourceAssumption DEF Init
    <3>4. /\ queue = <<>> /\ stack = <<>>
          /\ delayed = {} /\ processing = {} /\ timeouts = {}
          /\ handle = FALSE
      BY DEF Init
    <3>5. /\ delayed \subseteq Attestations /\ processing \subseteq Attestations
          /\ timeouts \subseteq Nat
      BY <3>4
    <3>6. handle \in BOOLEAN
      BY <3>4, Zenon
    <3> QED
      BY <3>1, <3>2, <3>3, <3>4, <3>5, <3>6, Zenon DEF TypeOK
  <2>2. queue = <<>> /\ stack = <<>> /\ processing = {} /\ delayed = {}
    BY DEF Init
  <2>3. \A a \in Attestations : att[a].status = "initial" /\ ~InQueue(a)
    BY <2>2 DEF Init, InQueue
  <2> QED
    BY <2>1, <2>2, <2>3 DEF IInv, InOnePlace, Placed, Final
<1>2. IInv /\ [Next]_vars => IInv'
  <2> SUFFICES ASSUME IInv, [Next]_vars PROVE IInv'
    OBVIOUS
  <2>1. CASE Synchronous
    BY <2>1, UnmovingSteps, PriorityTurnStep, QueueTurnStep, ProcessStep DEF Synchronous
  <2>2. ASSUME NEW a \in Attestations, VerifyRequest(a) PROVE IInv'
    BY <2>2, VerifyRequestStep
  <2>3. ASSUME NEW a \in Attestations, VerifierReplies(a) PROVE IInv'
    <3>1. ASSUME NEW st \in {"valid", "invalid", "error"}, Answered(a, st) PROVE IInv'
      BY <3>1, ProcessedStep DEF Answered, Final
    <3> QED
      BY <2>3, <3>1, CallFailedStep DEF VerifierReplies
  <2>4. CASE TimeoutFires \/ HeartbeatFires \/ Tick
    BY <2>4, TimerSteps
  <2>5. CASE UNCHANGED vars
    BY <2>5 DEF vars, IInv, TypeOK, InOnePlace, Placed, InQueue, OnStack
  <2> QED
    BY <2>1, <2>2, <2>3, <2>4, <2>5 DEF Next
<1> QED
  BY <1>1, <1>2, PTL DEF Spec

\* Every variable of the source manager keeps its type (SourceManager).
THEOREM TypeCorrect == Spec => []TypeOK
<1>1. IInv => TypeOK
  BY DEF IInv
<1> QED
  BY <1>1, Invariance, PTL

\* No attestation is lost, doubled or processed again (SourceManager's queues).
THEOREM AttestationsInOnePlace == Spec => []InOnePlace
<1>1. IInv => InOnePlace
  BY DEF IInv
<1> QED
  BY <1>1, Invariance, PTL

-----------------------------------------------------------------------------
(* The wake-up of the queue.                                                 *)

On(s, op) == \E i \in 1..Len(s) : s[i].op = op

WakeUp == processing # {} \/ heartbeats > 0 \/ timeouts # {}

\* A call of startNext is still to come: on the stack, or made by the update of
\* the timer that a failed call has started, unless a timer is set there.
StartPending ==
  \/ On(stack, "startNext")
  \/ stack = <<Call("updateTimer")>> /\ delayed # {} /\ (handle => handleTime \in timeouts)

\* Requests are not counted for a second that is still to come.
CountedUpToNow == requestTime <= SecondOf(clock)

\* Outside the timer's callback a handle is that of a timer that is set.
HandleIsTimer == handle => handleTime \in timeouts \/ On(stack, "clearTimer")

\* When nothing more can be started, something will try again.
LimitHasWakeUp == ~CanProcessNext => WakeUp \/ StartPending

\* For what waits in the queue, the loop over it may still be running.
WaitingHasWakeUp == queue # <<>> => WakeUp \/ StartPending \/ On(stack, "queueLoop")

WakeInv == CountedUpToNow /\ HandleIsTimer /\ LimitHasWakeUp /\ WaitingHasWakeUp

\* The frames on the stack after its head has been replaced: the calls, and what
\* was below.
LEMMA RunFrames ==
  ASSUME stack \in Seq(Frame), NEW op, NEW calls \in Seq(Frame), Run(op, calls), NEW o
  PROVE  /\ On(calls, o) => On(stack', o)
         /\ On(stack, o) /\ o # op => On(stack', o)
         /\ stack \in Seq(Frame) /\ Head(stack) = stack[1] /\ stack[1].op = op
         /\ 1 \in 1..Len(stack)
<1>1. Replacement(stack, calls, stack')
  BY TailReplaced DEF Run
<1>2. /\ Len(calls) \in Nat /\ Len(stack) \in Nat /\ Len(stack) > 0
      /\ Head(stack) = stack[1] /\ stack[1].op = op
  BY LenProperties, EmptySeq, HeadTailProperties DEF Run
<1>3. ASSUME On(calls, o) PROVE On(stack', o)
  <2>1. PICK i \in 1..Len(calls) : calls[i].op = o
    BY <1>3 DEF On
  <2>2. i \in 1..Len(stack') /\ stack'[i] = calls[i]
    BY <1>1, <1>2 DEF Replacement
  <2> QED
    BY <2>1, <2>2 DEF On
<1>4. ASSUME On(stack, o), o # op PROVE On(stack', o)
  <2>1. PICK i \in 1..Len(stack) : stack[i].op = o
    BY <1>4 DEF On
  <2>2. i \in 2..Len(stack)
    BY <1>2, <1>4, <2>1
  <2>3. Len(calls) + i - 1 \in 1..Len(stack') /\ stack'[Len(calls) + i - 1] = stack[i]
    BY <1>1, <1>2, <2>2 DEF Replacement
  <2> QED
    BY <2>1, <2>3 DEF On
<1> QED
  BY <1>2, <1>3, <1>4

\* What a short list of calls holds.
LEMMA OnCalls ==
  /\ \A o : ~On(<<>>, o)
  /\ \A op \in Op : On(<<Call(op)>>, op)
  /\ \A op1, op2 \in Op : On(<<Call(op1), Call(op2)>>, op1) /\ On(<<Call(op1), Call(op2)>>, op2)
  BY Frames DEF On

\* The clock moves on to a second of which no request is counted.
LEMMA NextSecond ==
  ASSUME NEW t \in Nat
  PROVE  SecondOf(t) \in Int /\ SecondOf(t) <= SecondOf(t + 1)
  BY SMTT(30) DEF SecondOf

\* The initial states satisfy the invariant, if anything may be processed.
LEMMA InitWakeInv ==
  ASSUME MaxProcessing > 0, Init PROVE WakeInv
<1>1. SecondOf(clock) = 1 /\ requestTime = 0 /\ handle = FALSE /\ queue = <<>>
      /\ processing = {}
  BY DEF Init, SecondOf
<1>2. CanProcessNext
  BY <1>1, FS_EmptySet DEF CanProcessNext, CanProcessInThisSecond
<1>3. CountedUpToNow
  BY <1>1 DEF CountedUpToNow
<1> QED
  BY <1>1, <1>2, <1>3, Zenon DEF WakeInv, HandleIsTimer, LimitHasWakeUp, WaitingHasWakeUp

\* The synchronous methods keep it.
LEMMA SynchronousWake ==
  ASSUME IInv, WakeInv, Synchronous PROVE WakeInv'
<1> USE DEF WakeInv
<1>0. /\ stack \in Seq(Frame) /\ clock' = clock /\ delayed \subseteq Attestations
      /\ heartbeats \in Nat /\ handle \in BOOLEAN
  BY DEF IInv, TypeOK, Synchronous, StartNext, PriorityTurn, PriorityEnd, QueueTurn, QueueEnd,
     UpdateTimer, ClearTimer, ProcessAttestation
<1>1. ASSUME StartNext PROVE WakeInv'
  <2>1. PICK calls \in Seq(Frame) :
          /\ Run("startNext", calls)
          /\ CanProcessNext => On(calls, "queueLoop")
    BY <1>1, PlainLists, OnCalls DEF StartNext, Op
  <2>2. /\ CanProcessNext => On(stack', "queueLoop")
        /\ On(stack, "clearTimer") => On(stack', "clearTimer")
    BY <2>1, <1>0, RunFrames
  <2>3. /\ heartbeats' = IF ~CanProcessNext /\ processing = {} THEN heartbeats + 1 ELSE heartbeats
        /\ UNCHANGED <<clock, quota, places, handle, handleTime, timeouts>>
    BY <1>1 DEF StartNext
  <2>4. ~CanProcessNext => WakeUp'
    BY <1>0, <2>3 DEF WakeUp, places
  <2>5. CanProcessNext' <=> CanProcessNext
    BY <2>3 DEF CanProcessNext, CanProcessInThisSecond, quota, places
  <2> QED
    BY <2>2, <2>3, <2>4, <2>5 DEF CountedUpToNow, HandleIsTimer, LimitHasWakeUp,
       WaitingHasWakeUp, quota, places
\* What pops or pushes other frames keeps the calls of startNext.
<1>2. ASSUME NEW op \in {"priorityLoop", "queueLoop", "clearTimer"}, NEW calls \in Seq(Frame),
             Run(op, calls),
             UNCHANGED <<requestTime, requestsPerSecond, processing, heartbeats, timeouts>>
      PROVE  /\ StartPending => StartPending'
             /\ WakeUp' <=> WakeUp
             /\ CanProcessNext' <=> CanProcessNext
             /\ CountedUpToNow'
             /\ LimitHasWakeUp'
  <2>1. stack # <<Call("updateTimer")>>
    BY <1>0, <1>2, RunFrames, Frames DEF Op
  <2>2. StartPending => StartPending'
    BY <1>0, <1>2, <2>1, RunFrames DEF StartPending
  <2> QED
    BY <1>0, <1>2, <2>2 DEF WakeUp, CanProcessNext, CanProcessInThisSecond, CountedUpToNow,
       LimitHasWakeUp
<1>3. ASSUME PriorityTurn PROVE WakeInv'
  <2>1. PICK a \in Attestations :
          Run("priorityLoop", <<Call("updateTimer"), Process(a), Call("priorityLoop")>>)
    BY <1>0, <1>3 DEF PriorityTurn, Top
  <2> DEFINE calls == <<Call("updateTimer"), Process(a), Call("priorityLoop")>>
  <2>2. calls \in Seq(Frame)
    BY Frames DEF Op
  <2>3. UNCHANGED <<quota, timers, queue, processing>>
    BY <1>3 DEF PriorityTurn
  <2> HIDE DEF calls
  <2>4. Run("priorityLoop", calls)
    BY <2>1 DEF calls
  <2> QED
    BY <1>0, <1>2, <2>2, <2>3, <2>4, RunFrames DEF quota, timers, HandleIsTimer, WaitingHasWakeUp
<1>4. ASSUME PriorityEnd PROVE WakeInv'
  <2>1. Run("priorityLoop", <<>>) /\ UNCHANGED <<quota, timers, places>>
    BY <1>4 DEF PriorityEnd
  <2> QED
    BY <1>0, <1>2, <2>1, PlainLists, RunFrames DEF quota, timers, places, HandleIsTimer,
       WaitingHasWakeUp
<1>5. ASSUME QueueTurn PROVE WakeInv'
  <2>1. Head(queue) \in Attestations
    BY <1>5, HeadTailProperties, ElementOfSeq, EmptySeq, LenProperties DEF QueueTurn, IInv, TypeOK
  <2> DEFINE calls == <<Process(Head(queue)), Call("queueLoop")>>
  <2>2. calls \in Seq(Frame) /\ On(calls, "queueLoop")
    BY <2>1, Frames DEF Op, On
  <2>3. UNCHANGED <<quota, timers, processing>> /\ Run("queueLoop", calls)
    BY <1>5 DEF QueueTurn
  <2> HIDE DEF calls
  <2> QED
    BY <1>0, <1>2, <2>2, <2>3, RunFrames DEF quota, timers, HandleIsTimer, WaitingHasWakeUp
<1>6. ASSUME QueueEnd PROVE WakeInv'
  <2>1. Run("queueLoop", <<>>) /\ UNCHANGED <<quota, timers, places>>
        /\ (queue = <<>> \/ ~CanProcessNext)
    BY <1>6 DEF QueueEnd
  <2> QED
    BY <1>0, <1>2, <2>1, PlainLists, RunFrames DEF quota, timers, places, HandleIsTimer,
       WaitingHasWakeUp, LimitHasWakeUp
<1>7. ASSUME UpdateTimer PROVE WakeInv'
  <2>0. UNCHANGED <<clock, quota, places>>
    BY <1>7 DEF UpdateTimer
  <2>1. CanProcessNext' <=> CanProcessNext
    BY <2>0 DEF CanProcessNext, CanProcessInThisSecond, quota, places
  <2>2. PICK calls \in Seq(Frame) : Run("updateTimer", calls)
    BY <1>7, PlainLists DEF UpdateTimer, Op
  <2>3. \A o : On(stack, o) /\ o # "updateTimer" => On(stack', o)
    BY <1>0, <2>2, RunFrames
  <2>4. HandleIsTimer'
    <3>1. (UNCHANGED timers) \/ handleTime' \in timeouts'
      BY <1>7 DEF UpdateTimer
    <3>2. On(stack, "clearTimer") => On(stack', "clearTimer")
      BY <2>3
    <3>3. CASE UNCHANGED timers
      BY <3>2, <3>3, Zenon DEF HandleIsTimer, timers
    <3>4. CASE handleTime' \in timeouts'
      BY <3>4, Zenon DEF HandleIsTimer
    <3> QED
      BY <3>1, <3>3, <3>4
  <2>5. WakeUp => WakeUp'
    <3>1. (UNCHANGED timers) \/ timeouts' # {}
      BY <1>7 DEF UpdateTimer
    <3> QED
      BY <2>0, <3>1 DEF WakeUp, timers, places
  <2>6. StartPending => WakeUp' \/ StartPending'
    <3>1. CASE On(stack, "startNext")
      BY <3>1, <2>3 DEF StartPending
    <3>2. CASE delayed # {} /\ (handle => handleTime \in timeouts)
      <4>1. Run("updateTimer", <<Call("startNext")>>) \/ timeouts' # {}
        BY <1>7, <3>2 DEF UpdateTimer, timers
      <4>2. ASSUME Run("updateTimer", <<Call("startNext")>>) PROVE On(stack', "startNext")
        BY <1>0, <4>2, RunFrames, PlainLists, OnCalls DEF Op
      <4> QED
        BY <4>1, <4>2 DEF WakeUp, StartPending
    <3> QED
      BY <3>1, <3>2 DEF StartPending
  <2> QED
    BY <2>0, <2>1, <2>3, <2>4, <2>5, <2>6 DEF CountedUpToNow, LimitHasWakeUp, WaitingHasWakeUp,
       quota, places
<1>8. ASSUME ClearTimer PROVE WakeInv'
  <2>1. Run("clearTimer", <<>>) /\ UNCHANGED <<quota, places, timeouts, heartbeats>> /\ ~handle'
    BY <1>8 DEF ClearTimer
  <2> QED
    BY <1>0, <1>2, <2>1, PlainLists, RunFrames DEF quota, places, HandleIsTimer, WaitingHasWakeUp
<1>9. ASSUME ProcessAttestation PROVE WakeInv'
  <2>1. UNCHANGED <<clock, timers, queue, delayed>>
    BY <1>9 DEF ProcessAttestation
  <2>2. PICK a \in Attestations :
          /\ Head(stack) = Process(a)
          /\ \/ Run("process", <<Call("startNext")>>) /\ UNCHANGED <<quota, processing>>
             \/ Run("process", <<>>) /\ UNCHANGED <<quota, processing>>
             \/ Run("process", <<>>) /\ Started(a) /\ processing' = processing \cup {a}
    BY <1>9 DEF ProcessAttestation
  <2>3. PICK calls \in Seq(Frame) : Run("process", calls)
    BY <2>2, PlainLists DEF Op
  <2>4. \A o : On(stack, o) /\ o # "process" => On(stack', o)
    BY <1>0, <2>3, RunFrames
  <2>5. HandleIsTimer'
    BY <2>1, <2>4 DEF HandleIsTimer, timers
  <2>6. CASE Run("process", <<Call("startNext")>>) /\ UNCHANGED <<quota, processing>>
    <3>1. On(stack', "startNext")
      BY <1>0, <2>6, RunFrames, PlainLists, OnCalls DEF Op
    <3> QED
      BY <1>0, <2>5, <2>6, <3>1 DEF StartPending, CountedUpToNow, LimitHasWakeUp,
         WaitingHasWakeUp, quota
  <2>7. CASE Run("process", <<>>) /\ UNCHANGED <<quota, processing>>
    <3>1. stack # <<Call("updateTimer")>>
      <4>1. stack[1].op = "process" /\ Call("updateTimer").op # "process"
        BY <1>0, <2>3, RunFrames, Frames DEF Op
      <4>2. <<Call("updateTimer")>>[1] = Call("updateTimer")
        OBVIOUS
      <4> QED
        BY <4>1, <4>2, Zenon
    <3>2. StartPending => StartPending'
      BY <2>4, <3>1 DEF StartPending
    <3>3. WakeUp' <=> WakeUp
      BY <2>1, <2>7 DEF WakeUp, timers
    <3>4. CanProcessNext' <=> CanProcessNext
      BY <1>0, <2>7 DEF CanProcessNext, CanProcessInThisSecond, quota
    <3> QED
      BY <1>0, <2>1, <2>4, <2>5, <2>7, <3>2, <3>3, <3>4 DEF CountedUpToNow, LimitHasWakeUp,
         WaitingHasWakeUp, quota
  <2>8. CASE Started(a) /\ processing' = processing \cup {a}
    <3>1. WakeUp'
      BY <2>8 DEF WakeUp
    <3>2. CountedUpToNow'
      <4>1. SecondOf(clock) \in Int
        BY NextSecond DEF IInv, TypeOK
      <4> QED
        BY <1>0, <2>8, <4>1 DEF CountedUpToNow, Started
    <3> QED
      BY <2>5, <3>1, <3>2 DEF LimitHasWakeUp, WaitingHasWakeUp
  <2> QED
    BY <2>2, <2>6, <2>7, <2>8
<1> QED
  BY <1>1, <1>3, <1>4, <1>5, <1>6, <1>7, <1>8, <1>9 DEF Synchronous

\* What starts a synchronous call keeps it, and so does the clock.
LEMMA StartingWake ==
  ASSUME IInv, WakeInv, Idle,
         \/ \E a \in Attestations : VerifyRequest(a) \/ VerifierReplies(a)
         \/ TimeoutFires \/ HeartbeatFires \/ Tick
  PROVE  WakeInv'
<1> USE DEF WakeInv
<1>0. /\ \A o : ~On(stack, o) /\ stack = <<>>
      /\ processing \subseteq Attestations /\ heartbeats \in Nat
      /\ ~StartPending /\ (handle => handleTime \in timeouts)
      /\ requestTime \in Int /\ clock \in Nat
  BY OnCalls DEF Idle, StartPending, HandleIsTimer, IInv, TypeOK
<1>1. ASSUME clock' = clock, UNCHANGED quota, On(stack', "startNext"),
             UNCHANGED handle, UNCHANGED handleTime,
             UNCHANGED timeouts \/ On(stack', "clearTimer")
      PROVE  WakeInv'
  <2>1. StartPending'
    BY <1>1 DEF StartPending
  <2>2. HandleIsTimer'
    BY <1>0, <1>1, Zenon DEF HandleIsTimer
  <2> QED
    BY <1>1, <2>1, <2>2 DEF CountedUpToNow, LimitHasWakeUp, WaitingHasWakeUp, quota
<1>2. ASSUME NEW a \in Attestations, VerifyRequest(a) PROVE WakeInv'
  <2>1. /\ UNCHANGED <<clock, quota, timers, delayed, processing>>
        /\ IF CanProcessNext THEN queue' = queue ELSE stack' = stack
    BY <1>2 DEF VerifyRequest, places
  <2>2. /\ CanProcessNext' <=> CanProcessNext
        /\ WakeUp' <=> WakeUp
    BY <2>1 DEF CanProcessNext, CanProcessInThisSecond, WakeUp, quota, timers
  <2>3. HandleIsTimer'
    BY <1>0, <2>1, Zenon DEF HandleIsTimer, timers
  <2>4. CASE CanProcessNext
    BY <1>0, <2>1, <2>2, <2>3, <2>4 DEF CountedUpToNow, LimitHasWakeUp, WaitingHasWakeUp, quota
  <2>5. CASE ~CanProcessNext
    <3>1. WakeUp'
      BY <1>0, <2>2, <2>5 DEF LimitHasWakeUp
    <3> QED
      BY <2>1, <2>3, <3>1 DEF CountedUpToNow, LimitHasWakeUp, WaitingHasWakeUp, quota
  <2> QED
    BY <2>4, <2>5
<1>3. ASSUME NEW a \in Attestations, VerifierReplies(a) PROVE WakeInv'
  <2>1. CASE \E st : Processed(a, st)
    <3>1. stack' = <<Call("startNext")>> /\ UNCHANGED <<clock, quota, timers>>
      BY <2>1 DEF Processed
    <3> QED
      BY <1>1, <3>1, OnCalls DEF timers, Op
  <2>2. CASE ~\E st : Processed(a, st)
    <3>1. /\ stack' = <<Call("updateTimer")>> /\ delayed' # {}
          /\ UNCHANGED <<clock, quota, timers>>
      BY <1>3, <2>2 DEF VerifierReplies, Answered, CallFailed
    <3>2. StartPending'
      BY <1>0, <3>1, Zenon DEF StartPending, timers
    <3>3. HandleIsTimer'
      BY <1>0, <3>1, Zenon DEF HandleIsTimer, timers
    <3> QED
      BY <3>1, <3>2, <3>3 DEF CountedUpToNow, LimitHasWakeUp, WaitingHasWakeUp, quota
  <2> QED
    BY <2>1, <2>2
<1>4. ASSUME TimeoutFires PROVE WakeInv'
  <2>1. /\ stack' = <<Call("startNext"), Call("clearTimer")>>
        /\ UNCHANGED <<clock, quota, handle, handleTime>>
    BY <1>4 DEF TimeoutFires
  <2> QED
    BY <1>1, <2>1, OnCalls DEF Op
<1>5. ASSUME HeartbeatFires PROVE WakeInv'
  <2>1. /\ stack' = <<Call("startNext")>>
        /\ UNCHANGED <<clock, quota, handle, handleTime, timeouts>>
    BY <1>5 DEF HeartbeatFires
  <2> QED
    BY <1>1, <2>1, OnCalls DEF Op
<1>6. ASSUME Tick PROVE WakeInv'
  <2>1. /\ clock' = clock + 1
        /\ UNCHANGED <<requestTime, requestsPerSecond, places, timers, stack>>
    BY <1>6 DEF Tick
  <2>2. SecondOf(clock) <= SecondOf(clock') /\ SecondOf(clock) \in Int /\ SecondOf(clock') \in Int
    BY <1>0, <2>1, NextSecond
  <2>3. CountedUpToNow'
    BY <1>0, <2>1, <2>2 DEF CountedUpToNow
  <2>4. ~CanProcessNext' => ~CanProcessNext
    <3>1. ~CanProcessInThisSecond' => ~CanProcessInThisSecond
      BY <1>0, <2>1, <2>2 DEF CanProcessInThisSecond, CountedUpToNow
    <3> QED
      BY <2>1, <3>1 DEF CanProcessNext, places
  <2>5. /\ WakeUp' <=> WakeUp
        /\ StartPending' <=> StartPending
        /\ HandleIsTimer'
    BY <1>0, <2>1, Zenon DEF WakeUp, StartPending, HandleIsTimer, places, timers
  <2> QED
    BY <2>1, <2>3, <2>4, <2>5 DEF LimitHasWakeUp, WaitingHasWakeUp, places
<1> QED
  BY <1>2, <1>3, <1>4, <1>5, <1>6

\* A queue that waits is not forgotten, if anything may be processed: each of the
\* ways in which startNext returns early leaves something that will call it again
\* (SourceManager.startNext, updateDelayQueueTimer and the timer's callback).
THEOREM WaitingQueueHasWakeUp ==
  ASSUME MaxProcessing > 0
  PROVE  Spec => []QueueHasWakeUp
<1>1. Init => WakeInv
  BY InitWakeInv
<1>2. IInv /\ WakeInv /\ [Next]_vars => WakeInv'
  <2> SUFFICES ASSUME IInv, WakeInv, [Next]_vars PROVE WakeInv'
    OBVIOUS
  <2>1. CASE Synchronous
    BY <2>1, SynchronousWake
  <2>2. CASE /\ Idle
             /\ \/ \E a \in Attestations : VerifyRequest(a) \/ VerifierReplies(a)
                \/ TimeoutFires \/ HeartbeatFires \/ Tick
    BY <2>2, StartingWake
  <2>3. CASE UNCHANGED vars
    BY <2>3 DEF vars, WakeInv, CountedUpToNow, HandleIsTimer, LimitHasWakeUp, WaitingHasWakeUp,
       WakeUp, StartPending, CanProcessNext, CanProcessInThisSecond
  <2>4. \A a \in Attestations : VerifyRequest(a) \/ VerifierReplies(a) => Idle
    BY DEF VerifyRequest, VerifierReplies, Answered, CallFailed
  <2>5. TimeoutFires \/ HeartbeatFires \/ Tick => Idle
    BY DEF TimeoutFires, HeartbeatFires, Tick
  <2> QED
    BY <2>1, <2>2, <2>3, <2>4, <2>5 DEF Next
<1>3. WakeInv => QueueHasWakeUp
  <2> SUFFICES ASSUME WakeInv, Idle, queue # <<>> PROVE WakeUp
    BY DEF QueueHasWakeUp, WakeUp
  <2>1. ~StartPending /\ ~On(stack, "queueLoop")
    BY OnCalls DEF Idle, StartPending
  <2> QED
    BY <2>1 DEF WakeInv, WaitingHasWakeUp
<1> QED
  BY <1>1, <1>2, <1>3, Invariance, PTL DEF Spec

-----------------------------------------------------------------------------
(* The limits, which only retries exceed.                                    *)

\* process(a) for the first time.
First(f, a) == f = Process(a) /\ att[a].retry = 0

\* A first call of process is the one that runs, and finds the limits as they were
\* when it was made: nothing comes between the check and the start.  Below it are
\* retries only.
CheckedCall ==
  \A i \in 1..Len(stack), a \in Attestations :
    First(stack[i], a) => i = 1 /\ CanProcessNext

\* What waits in the priority queue has been tried before.
DelayedAreRetries == \A a \in delayed : att[a].retry > 0

\* First requests of this second: at most one more than have been counted, and than
\* are allowed.
CountedInSecond ==
  /\ CountedUpToNow
  /\ sent <= IF requestTime = SecondOf(clock) THEN requestsPerSecond + 1 ELSE 0
  /\ sent <= MaxPerSecond + 1

LimitInv ==
  /\ DelayedAreRetries
  /\ CheckedCall
  /\ CountedInSecond
  /\ Cardinality(FirstInProcess) <= MaxProcessing

\* A frame of a new stack is one of the calls, or was below the head.
LEMMA FrameFrom ==
  ASSUME stack \in Seq(Frame), NEW op, NEW calls \in Seq(Frame), Run(op, calls),
         NEW i \in 1..Len(stack')
  PROVE  \/ i \in 1..Len(calls) /\ stack'[i] = calls[i]
         \/ \E k \in 1..Len(stack) : k # 1 /\ stack'[i] = stack[k]
<1>1. Replacement(stack, calls, stack')
  BY TailReplaced DEF Run
<1>2. Len(calls) \in Nat /\ Len(stack) \in Nat /\ Len(stack) > 0
  BY LenProperties, EmptySeq DEF Run
<1>3. CASE i \in 1..Len(calls)
  BY <1>1, <1>3 DEF Replacement
<1>4. CASE i \notin 1..Len(calls)
  <2> DEFINE k == i - Len(calls) + 1
  <2>1. k \in 2..Len(stack) /\ stack'[i] = stack[k]
    BY <1>1, <1>2, <1>4 DEF Replacement
  <2>2. k \in 1..Len(stack) /\ k # 1
    BY <1>2, <2>1
  <2> HIDE DEF k
  <2> QED
    BY <2>1, <2>2
<1> QED
  BY <1>3, <1>4

\* Calls whose first requests are at their head, with room, keep CheckedCall.
LEMMA CallsChecked ==
  ASSUME stack \in Seq(Frame), CheckedCall, NEW op, NEW calls \in Seq(Frame), Run(op, calls),
         \A a \in Attestations : att'[a].retry = att[a].retry,
         \A i \in 1..Len(calls), a \in Attestations :
           First(calls[i], a) => i = 1 /\ CanProcessNext'
  PROVE  CheckedCall'
<1> SUFFICES ASSUME NEW i \in 1..Len(stack'), NEW a \in Attestations, First(stack'[i], a)
             PROVE  i = 1 /\ CanProcessNext'
  BY DEF CheckedCall, First
<1>1. CASE i \in 1..Len(calls) /\ stack'[i] = calls[i]
  BY <1>1
<1>2. CASE \E k \in 1..Len(stack) : k # 1 /\ stack'[i] = stack[k]
  BY <1>2 DEF CheckedCall
<1> QED
  BY <1>1, <1>2, FrameFrom

\* Lists of calls without process hold no first request.
LEMMA PlainFirst ==
  ASSUME NEW calls \in Seq(Frame), Plain(calls), NEW i \in 1..Len(calls), NEW a \in Attestations
  PROVE  ~First(calls[i], a)
  BY Frames DEF Plain, First

\* Fewer first requests in process, or as many, are still within the limit.
LEMMA FewerFirst ==
  ASSUME IInv, Cardinality(FirstInProcess) <= MaxProcessing,
         FirstInProcess' \subseteq FirstInProcess
  PROVE  Cardinality(FirstInProcess') <= MaxProcessing
<1>1. IsFiniteSet(FirstInProcess)
  BY FS_Subset, SourceAssumption DEF FirstInProcess, IInv, TypeOK
<1>2. /\ Cardinality(FirstInProcess') <= Cardinality(FirstInProcess)
      /\ Cardinality(FirstInProcess') \in Nat /\ Cardinality(FirstInProcess) \in Nat
  BY <1>1, FS_Subset, FS_CardinalityType
<1> QED
  BY <1>2, SourceAssumption

\* A method that pushes no call of process, and starts none, keeps the limits.
LEMMA PlainLimits ==
  ASSUME IInv, LimitInv, NEW calls \in Seq(Frame), Plain(calls),
         stack' = calls \/ \E op \in Op \cup {"process"} : Run(op, calls),
         UNCHANGED <<clock, quota, delayed, processing>>,
         \A a \in Attestations : att'[a].retry = att[a].retry
  PROVE  LimitInv'
<1>0. delayed \subseteq Attestations /\ processing \subseteq Attestations
  BY DEF IInv, TypeOK
<1>1. CheckedCall'
  <2>1. CASE stack' = calls
    BY <2>1, PlainFirst DEF CheckedCall, First
  <2>2. CASE \E op \in Op \cup {"process"} : Run(op, calls)
    BY <2>2, PlainFirst, CallsChecked DEF LimitInv, IInv, TypeOK
  <2> QED
    BY <2>1, <2>2
<1>2. FirstInProcess' = FirstInProcess
  BY <1>0 DEF FirstInProcess
<1>3. DelayedAreRetries'
  BY <1>0 DEF LimitInv, DelayedAreRetries
<1> QED
  BY <1>1, <1>2, <1>3 DEF LimitInv, CountedInSecond, CountedUpToNow, quota

\* A loop of startNext that calls process for one attestation, retried or with room.
LEMMA PushLimits ==
  ASSUME IInv, LimitInv, NEW op, NEW calls \in Seq(Frame), Run(op, calls),
         UNCHANGED <<clock, quota, processing, att>>, delayed' \subseteq delayed,
         \A i \in 1..Len(calls), a \in Attestations :
           First(calls[i], a) => i = 1 /\ CanProcessNext
  PROVE  LimitInv'
<1>1. CanProcessNext' <=> CanProcessNext
  BY DEF CanProcessNext, CanProcessInThisSecond, quota
<1>2. CheckedCall'
  BY <1>1, CallsChecked DEF LimitInv, IInv, TypeOK
<1>3. FirstInProcess' = FirstInProcess
  BY DEF FirstInProcess
<1> QED
  BY <1>2, <1>3 DEF LimitInv, CountedInSecond, CountedUpToNow, DelayedAreRetries, quota

\* What process does to one attestation.
LEMMA ProcessLimits ==
  ASSUME IInv, LimitInv, ProcessAttestation PROVE LimitInv' /\ StartsWithRoom
<1>0. /\ stack \in Seq(Frame)
      /\ processing \subseteq Attestations /\ IsFiniteSet(processing)
      /\ requestTime \in Int /\ requestsPerSecond \in Nat /\ sent \in Nat /\ clock \in Nat
  BY FS_Subset, SourceAssumption DEF IInv, TypeOK
<1>1. PICK a \in Attestations :
        /\ stack # <<>> /\ Head(stack) = Process(a)
        /\ \/ Run("process", <<Call("startNext")>>) /\ UNCHANGED <<quota, processing>>
           \/ Run("process", <<>>) /\ UNCHANGED <<quota, processing>>
           \/ Run("process", <<>>) /\ Started(a) /\ processing' = processing \cup {a}
        /\ \E st \in Status : att' = [att EXCEPT ![a].status = st]
  BY DEF ProcessAttestation, Status, Final
<1>2. UNCHANGED <<clock, delayed>>
  BY DEF ProcessAttestation
<1>3. \A b \in Attestations : att'[b].retry = att[b].retry
  BY <1>1 DEF IInv, TypeOK, AttestationRecord
<1>4. CASE UNCHANGED <<quota, processing>>
  <2>1. PICK calls \in Seq(Frame) : Plain(calls) /\ Run("process", calls)
    BY <1>1, PlainLists DEF Op
  <2> QED
    BY <1>2, <1>3, <1>4, <2>1, PlainLimits DEF StartsWithRoom
<1>5. CASE Run("process", <<>>) /\ Started(a) /\ processing' = processing \cup {a}
  <2>1. att[a].retry = 0 => CanProcessNext
    <3>1. 1 \in 1..Len(stack) /\ stack[1] = Process(a)
      BY <1>0, <1>1, LenProperties, EmptySeq, HeadTailProperties
    <3> QED
      BY <3>1 DEF LimitInv, CheckedCall, First
  <2>2. CheckedCall'
    BY <1>0, <1>3, <1>5, PlainLists, PlainFirst, CallsChecked DEF LimitInv
  <2>3. CountedInSecond'
    <3>1. SecondOf(clock) \in Int /\ clock' = clock
      BY <1>0, <1>2, NextSecond
    <3>2. /\ requestTime' = SecondOf(clock')
          /\ requestsPerSecond' =
               IF requestTime = SecondOf(clock) THEN requestsPerSecond + 1 ELSE 0
          /\ sent' = IF att[a].retry = 0 THEN sent + 1 ELSE sent
      BY <1>5, <3>1 DEF Started
    <3>3. sent' <= requestsPerSecond' + 1
      BY <1>0, <3>2 DEF LimitInv, CountedInSecond
    <3>4. sent' <= MaxPerSecond + 1
      <4>1. CASE att[a].retry = 0
        <5>1. requestTime # SecondOf(clock) \/ requestsPerSecond < MaxPerSecond
          BY <2>1, <4>1 DEF CanProcessNext, CanProcessInThisSecond
        <5> QED
          BY <1>0, <3>2, <5>1, SourceAssumption DEF LimitInv, CountedInSecond
      <4>2. CASE att[a].retry # 0
        BY <3>2, <4>2 DEF LimitInv, CountedInSecond
      <4> QED
        BY <4>1, <4>2
    <3> QED
      BY <3>1, <3>2, <3>3, <3>4 DEF CountedInSecond, CountedUpToNow
  <2>4. Cardinality(FirstInProcess') <= MaxProcessing
    <3>1. CASE att[a].retry = 0
      <4>1. Cardinality(processing) < MaxProcessing /\ Cardinality(processing) \in Nat
        BY <1>0, <2>1, <3>1, FS_CardinalityType DEF CanProcessNext
      <4>2. Cardinality(processing') = Cardinality(processing)
            \/ Cardinality(processing') = Cardinality(processing) + 1
        BY <1>0, <1>5, FS_AddElement
      <4>3. IsFiniteSet(processing')
        BY <1>0, <1>5, FS_AddElement
      <4>4. FirstInProcess' \subseteq processing'
        BY DEF FirstInProcess
      <4>5. Cardinality(FirstInProcess') <= Cardinality(processing')
            /\ Cardinality(FirstInProcess') \in Nat
        BY <4>3, <4>4, FS_Subset, FS_CardinalityType
      <4> QED
        BY <4>1, <4>2, <4>5, SourceAssumption
    <3>2. CASE att[a].retry # 0
      <4>1. FirstInProcess' \subseteq FirstInProcess
        BY <1>0, <1>3, <1>5, <3>2 DEF FirstInProcess
      <4> QED
        BY <4>1, FewerFirst DEF LimitInv
    <3> QED
      BY <3>1, <3>2
  <2>5. DelayedAreRetries'
    BY <1>2, <1>3 DEF LimitInv, DelayedAreRetries, IInv, TypeOK
  <2>6. StartsWithRoom
    BY <1>5, <2>1 DEF StartsWithRoom
  <2> QED
    BY <2>2, <2>3, <2>4, <2>5, <2>6 DEF LimitInv
<1> QED
  BY <1>1, <1>4, <1>5

\* The synchronous methods keep the limits.
LEMMA SynchronousLimits ==
  ASSUME IInv, LimitInv, Synchronous PROVE LimitInv' /\ StartsWithRoom
<1>0. /\ stack \in Seq(Frame) /\ queue \in Seq(Attestations) /\ delayed \subseteq Attestations
  BY DEF IInv, TypeOK
<1>1. ASSUME StartNext \/ PriorityEnd \/ QueueEnd \/ UpdateTimer \/ ClearTimer
      PROVE  LimitInv' /\ StartsWithRoom
  <2>1. UNCHANGED <<clock, quota, delayed, processing, att>>
    BY <1>1 DEF StartNext, PriorityEnd, QueueEnd, UpdateTimer, ClearTimer, places
  <2>2. PICK calls \in Seq(Frame) : Plain(calls) /\ \E op \in Op : Run(op, calls)
    BY <1>1, PlainLists DEF StartNext, PriorityEnd, QueueEnd, UpdateTimer, ClearTimer, Op
  <2> QED
    BY <2>1, <2>2, PlainLimits DEF StartsWithRoom
<1>2. ASSUME PriorityTurn PROVE LimitInv' /\ StartsWithRoom
  <2>1. PICK a \in delayed :
          /\ Run("priorityLoop", <<Call("updateTimer"), Process(a), Call("priorityLoop")>>)
          /\ delayed' = delayed \ {a}
    BY <1>2 DEF PriorityTurn, Top
  <2> DEFINE calls == <<Call("updateTimer"), Process(a), Call("priorityLoop")>>
  <2>2. /\ calls \in Seq(Frame) /\ Len(calls) = 3
        /\ calls[1].op # "process" /\ calls[2] = Process(a) /\ calls[3].op # "process"
    BY <1>0, Frames DEF Op
  <2>3. UNCHANGED <<clock, quota, processing, att>> /\ Run("priorityLoop", calls)
    BY <1>2, <2>1 DEF PriorityTurn
  <2> HIDE DEF calls
  <2>4. ASSUME NEW i \in 1..Len(calls), NEW b \in Attestations PROVE ~First(calls[i], b)
    <3>1. att[a].retry # 0
      BY <1>0 DEF LimitInv, DelayedAreRetries, IInv, TypeOK
    <3> QED
      BY <1>0, <2>2, <3>1, Frames DEF First
  <2> QED
    BY <2>1, <2>2, <2>3, <2>4, PushLimits DEF StartsWithRoom
<1>3. ASSUME QueueTurn PROVE LimitInv' /\ StartsWithRoom
  <2>1. Head(queue) \in Attestations
    BY <1>0, <1>3, HeadTailProperties, ElementOfSeq, EmptySeq, LenProperties DEF QueueTurn
  <2> DEFINE calls == <<Process(Head(queue)), Call("queueLoop")>>
  <2>2. calls \in Seq(Frame) /\ Len(calls) = 2 /\ calls[2].op # "process"
    BY <2>1, Frames DEF Op
  <2>3. /\ UNCHANGED <<clock, quota, delayed, processing, att>>
        /\ Run("queueLoop", calls) /\ CanProcessNext
    BY <1>3 DEF QueueTurn
  <2> HIDE DEF calls
  <2>4. \A i \in 1..Len(calls), b \in Attestations : First(calls[i], b) => i = 1
    BY <2>2, Frames DEF First
  <2> QED
    BY <2>2, <2>3, <2>4, PushLimits DEF StartsWithRoom
<1> QED
  BY <1>1, <1>2, <1>3, ProcessLimits DEF Synchronous

\* So does what starts a synchronous call.
LEMMA StartingLimits ==
  ASSUME IInv, LimitInv, Idle,
         \/ \E a \in Attestations : VerifyRequest(a) \/ VerifierReplies(a)
         \/ TimeoutFires \/ HeartbeatFires \/ Tick
  PROVE  LimitInv' /\ StartsWithRoom
<1>0. /\ processing \subseteq Attestations /\ delayed \subseteq Attestations
      /\ att \in [Attestations -> AttestationRecord]
      /\ requestTime \in Int /\ requestsPerSecond \in Nat /\ sent \in Nat /\ clock \in Nat
      /\ stack = <<>>
  BY DEF IInv, TypeOK, Idle
<1>1. ASSUME NEW a \in Attestations, VerifyRequest(a) PROVE LimitInv' /\ StartsWithRoom
  <2>1. /\ UNCHANGED <<clock, quota, delayed, processing>>
        /\ stack' = stack \/ (CanProcessNext /\ stack' = <<Process(a)>>)
        /\ \A b \in Attestations : att'[b].retry = att[b].retry
    <3>1. CASE CanProcessNext
      BY <1>1, <3>1 DEF VerifyRequest, places
    <3>2. CASE ~CanProcessNext
      <4>1. /\ att' = [att EXCEPT ![a].status = "queued"]
            /\ UNCHANGED <<clock, quota, timers, stack, delayed, processing>>
        BY <1>1, <3>2 DEF VerifyRequest
      <4>2. \A b \in Attestations : att'[b].retry = att[b].retry
        BY <1>0, <4>1 DEF AttestationRecord
      <4> QED
        BY <4>1, <4>2
    <3> QED
      BY <3>1, <3>2
  <2>2. CanProcessNext' <=> CanProcessNext
    BY <2>1 DEF CanProcessNext, CanProcessInThisSecond, quota
  <2>3. CheckedCall'
    BY <1>0, <2>1, <2>2 DEF CheckedCall, First
  <2>4. FirstInProcess' = FirstInProcess /\ DelayedAreRetries'
    BY <1>0, <2>1 DEF FirstInProcess, LimitInv, DelayedAreRetries
  <2> QED
    BY <2>1, <2>3, <2>4 DEF LimitInv, CountedInSecond, CountedUpToNow, StartsWithRoom, quota
<1>2. ASSUME NEW a \in Attestations, VerifierReplies(a) PROVE LimitInv' /\ StartsWithRoom
  <2>1. /\ UNCHANGED <<clock, quota>>
        /\ processing' = processing \ {a}
        /\ \A b \in Attestations : b # a => att'[b].retry = att[b].retry
        /\ \/ delayed' = delayed /\ att'[a].retry = att[a].retry
           \/ delayed' = delayed \cup {a} /\ att'[a].retry = att[a].retry + 1
        /\ \E op \in Op : stack' = <<Call(op)>>
    <3>1. CASE \E st : Processed(a, st)
      <4>1. PICK st : Processed(a, st)
        BY <3>1
      <4>2. /\ att' = [att EXCEPT ![a].status = st]
            /\ processing' = processing \ {a}
            /\ stack' = <<Call("startNext")>>
            /\ UNCHANGED <<clock, quota, timers, queue, delayed>>
        BY <4>1 DEF Processed
      <4>3. \A b \in Attestations : att'[b].retry = att[b].retry
        BY <1>0, <4>2 DEF AttestationRecord
      <4> QED
        BY <4>2, <4>3 DEF Op
    <3>2. CASE ~\E st : Processed(a, st)
      <4>1. /\ att' = [att EXCEPT ![a].retry = @ + 1, ![a].startTime = clock + Delay]
            /\ processing' = processing \ {a}
            /\ delayed' = delayed \cup {a}
            /\ stack' = <<Call("updateTimer")>>
            /\ UNCHANGED <<clock, quota, timers, queue>>
        BY <1>2, <3>2 DEF VerifierReplies, Answered, CallFailed
      <4>2. /\ \A b \in Attestations : b # a => att'[b].retry = att[b].retry
            /\ att'[a].retry = att[a].retry + 1
        BY <1>0, <4>1 DEF AttestationRecord
      <4> QED
        BY <4>1, <4>2 DEF Op
    <3> QED
      BY <3>1, <3>2
  <2>2. CheckedCall'
    <3>1. PICK calls \in Seq(Frame) : Plain(calls) /\ stack' = calls
      BY <2>1, PlainLists
    <3>2. \A i \in 1..Len(calls), b \in Attestations : calls[i] # Process(b)
      BY <3>1, Frames DEF Plain
    <3> QED
      BY <3>1, <3>2 DEF CheckedCall, First
  <2>3. \A b \in Attestations : att[b].retry \in Nat
    BY <1>0, SourceAssumption DEF AttestationRecord
  <2>4. FirstInProcess' \subseteq FirstInProcess
    BY <1>0, <2>1, <2>3 DEF FirstInProcess
  <2>5. Cardinality(FirstInProcess') <= MaxProcessing
    BY <2>4, FewerFirst DEF LimitInv
  <2>6. DelayedAreRetries'
    BY <1>0, <2>1, <2>3 DEF LimitInv, DelayedAreRetries
  <2> QED
    BY <2>1, <2>2, <2>5, <2>6 DEF LimitInv, CountedInSecond, CountedUpToNow, StartsWithRoom, quota
<1>3. ASSUME TimeoutFires \/ HeartbeatFires PROVE LimitInv' /\ StartsWithRoom
  <2>1. UNCHANGED <<clock, quota, delayed, processing, att>>
    BY <1>3 DEF TimeoutFires, HeartbeatFires, places
  <2>2. PICK calls \in Seq(Frame) : Plain(calls) /\ stack' = calls
    BY <1>3, PlainLists DEF TimeoutFires, HeartbeatFires, Op
  <2> QED
    BY <2>1, <2>2, PlainLimits DEF StartsWithRoom
<1>4. ASSUME Tick PROVE LimitInv' /\ StartsWithRoom
  <2>1. /\ clock' = clock + 1
        /\ sent' = IF SecondOf(clock') = SecondOf(clock) THEN sent ELSE 0
        /\ UNCHANGED <<requestTime, requestsPerSecond, places, stack>>
    BY <1>4 DEF Tick
  <2>2. SecondOf(clock) <= SecondOf(clock') /\ SecondOf(clock) \in Int /\ SecondOf(clock') \in Int
    BY <1>0, <2>1, NextSecond
  <2>3. CountedInSecond'
    BY <1>0, <2>1, <2>2, SourceAssumption DEF LimitInv, CountedInSecond, CountedUpToNow
  <2>4. CheckedCall'
    BY <1>0, <2>1 DEF CheckedCall
  <2> QED
    BY <2>1, <2>3, <2>4 DEF LimitInv, DelayedAreRetries, FirstInProcess, StartsWithRoom, places
<1> QED
  BY <1>1, <1>2, <1>3, <1>4

\* In whatever order requests, answers, retries, timers and configurations without a
\* route come, and whatever runs synchronously in between, first requests keep both
\* limits, and none starts without room: only retries exceed the limits
\* (SourceManager.startNext, updateDelayQueueTimer, process).
THEOREM OnlyRetriesExceedLimits == Spec => LimitsExceededOnlyByRetries
<1>1. Init => LimitInv
  <2> SUFFICES ASSUME Init PROVE LimitInv
    OBVIOUS
  <2>1. SecondOf(clock) = 1 /\ requestTime = 0 /\ sent = 0 /\ stack = <<>> /\ delayed = {}
    BY DEF Init, SecondOf
  <2>2. FirstInProcess = {}
    BY DEF Init, FirstInProcess
  <2>3. Cardinality(FirstInProcess) <= MaxProcessing
    BY <2>2, FS_EmptySet, SourceAssumption
  <2> QED
    BY <2>1, <2>3, SourceAssumption DEF LimitInv, CheckedCall, DelayedAreRetries,
       CountedInSecond, CountedUpToNow
<1>2. IInv /\ LimitInv /\ [Next]_vars => LimitInv' /\ [StartsWithRoom]_vars
  <2> SUFFICES ASSUME IInv, LimitInv, [Next]_vars PROVE LimitInv' /\ [StartsWithRoom]_vars
    OBVIOUS
  <2>1. CASE Synchronous
    BY <2>1, SynchronousLimits
  <2>2. CASE /\ Idle
             /\ \/ \E a \in Attestations : VerifyRequest(a) \/ VerifierReplies(a)
                \/ TimeoutFires \/ HeartbeatFires \/ Tick
    BY <2>2, StartingLimits
  <2>3. CASE UNCHANGED vars
    BY <2>3 DEF vars, LimitInv, CheckedCall, First, DelayedAreRetries, FirstInProcess,
       CountedInSecond, CountedUpToNow, CanProcessNext, CanProcessInThisSecond
  <2>4. \A a \in Attestations : VerifyRequest(a) \/ VerifierReplies(a) => Idle
    BY DEF VerifyRequest, VerifierReplies, Answered, CallFailed
  <2>5. TimeoutFires \/ HeartbeatFires \/ Tick => Idle
    BY DEF TimeoutFires, HeartbeatFires, Tick
  <2> QED
    BY <2>1, <2>2, <2>3, <2>4, <2>5 DEF Next
<1>3. LimitInv => FirstRequestsLimited
  BY DEF FirstRequestsLimited, LimitInv, CountedInSecond
<1> QED
  BY <1>1, <1>2, <1>3, Invariance, PTL DEF Spec, LimitsExceededOnlyByRetries
=============================================================================
