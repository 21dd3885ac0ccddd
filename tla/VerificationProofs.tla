-------------------------- MODULE VerificationProofs --------------------------
(***************************************************************************)
(* Theorems about Verification, for any chains, sources and requests.      *)
(***************************************************************************)
EXTENDS Verification, FiniteSetTheorems, WellFoundedInduction, TLAPS

-----------------------------------------------------------------------------
(* Numbers and recursive functions.                                          *)

\* The order of the natural numbers is well-founded.
LEMMA LessThanWellFounded == IsWellFoundedOn({ss \in Nat \X Nat : ss[1] < ss[2]}, Nat)
PROOF BY NatLessThanWellFounded DEF OpToRel

\* A set of natural numbers that is not empty has a least element.
LEMMA Least ==
  ASSUME NEW S \in SUBSET Nat, S # {}
  PROVE  \E x \in S : \A y \in S : x <= y
PROOF
<1> DEFINE R == {ss \in Nat \X Nat : ss[1] < ss[2]}
<1>1. PICK x \in S : \A y \in S : ~(<<y, x>> \in R)
  <2>1. IsWellFoundedOn(R, Nat)
    BY LessThanWellFounded
  <2> HIDE DEF R
  <2> QED BY <2>1, WFMin
<1>2. ASSUME NEW y \in S, y < x PROVE FALSE
  <2>1. <<y, x>> \in R
    BY <1>2
  <2> QED BY <1>1, <2>1
<1> QED BY <1>2

\* A bounded set of natural numbers that is not empty has a greatest element.
LEMMA Greatest ==
  ASSUME NEW S \in SUBSET Nat, S # {}, NEW n \in Nat, \A x \in S : x <= n
  PROVE  \E x \in S : \A y \in S : y <= x
PROOF
<1> DEFINE U == {u \in Nat : \A x \in S : x <= u}
<1>1. U \in SUBSET Nat /\ n \in U
  OBVIOUS
<1>2. PICK u \in U : \A w \in U : u <= w
  <2> HIDE DEF U
  <2> QED BY <1>1, Least
<1>3. ASSUME u \notin S PROVE FALSE
  <2>1. u \in Nat /\ \A x \in S : x \in Nat /\ x < u
    BY <1>2, <1>3
  <2>2. PICK x \in S : TRUE
    OBVIOUS
  <2>3. u - 1 \in U
    BY <2>1, <2>2
  <2>4. u \in Nat
    BY <2>1
  <2> HIDE DEF U
  <2>5. u <= u - 1
    BY <1>2, <2>3
  <2> QED BY <2>4, <2>5
<1> QED BY <1>3

\* A set that has 0 and with a number the next one has all up to n.
LEMMA UpTo ==
  ASSUME NEW n \in Nat, NEW S, 0 \in S, \A i \in 0..(n - 1) : i \in S => i + 1 \in S
  PROVE  0..n \subseteq S
PROOF
<1> DEFINE T == {i \in 0..n : i \notin S}
<1> SUFFICES ASSUME T # {} PROVE FALSE
  OBVIOUS
<1>1. T \in SUBSET Nat
  OBVIOUS
<1>2. PICK i \in T : \A j \in T : i <= j
  <2> HIDE DEF T
  <2> QED BY <1>1, Least
<1>3. i # 0 /\ i - 1 \in 0..(n - 1) /\ i - 1 \notin T
  BY <1>2
<1>4. i - 1 \in S
  BY <1>3
<1> QED BY <1>2, <1>3, <1>4

\* What IsRecursive says of a function on 0..n.
IsRecursive(n, base, step, f) ==
  /\ f[0] = base
  /\ \A i \in 1..n : f[i] = step[<<i, f[i - 1]>>]

\* Primitive recursive functions exist.
LEMMA RecursionExists ==
  ASSUME NEW n \in Nat, NEW V, NEW base \in V, NEW step \in [(1..n) \X V -> V]
  PROVE  \E f \in [0..n -> V] : IsRecursive(n, base, step, f)
PROOF
<1> DEFINE S == {m \in Nat : m <= n => \E f \in [0..m -> V] : IsRecursive(m, base, step, f)}
<1>1. 0 \in S
  <2>1. [i \in 0..0 |-> base] \in [0..0 -> V]
    OBVIOUS
  <2>2. IsRecursive(0, base, step, [i \in 0..0 |-> base])
    BY DEF IsRecursive
  <2> QED BY <2>1, <2>2
<1>2. ASSUME NEW m \in 0..(n - 1), m \in S PROVE m + 1 \in S
  <2>1. PICK g \in [0..m -> V] : IsRecursive(m, base, step, g)
    BY <1>2
  <2> DEFINE last == step[<<m + 1, g[m]>>]
             f == [i \in 0..(m + 1) |-> IF i = m + 1 THEN last ELSE g[i]]
  <2>2. last \in V
    OBVIOUS
  <2>3. f \in [0..(m + 1) -> V]
    BY <2>2
  <2>4. ASSUME NEW i \in 1..(m + 1) PROVE f[i] = step[<<i, f[i - 1]>>]
    <3>1. f[i - 1] = g[i - 1]
      OBVIOUS
    <3>2. CASE i = m + 1
      <4>1. f[i] = last /\ i - 1 = m
        BY <3>2
      <4>2. f[i] = step[<<i, g[m]>>]
        BY <3>2, <4>1
      <4> QED BY <3>1, <4>1, <4>2
    <3>3. CASE i # m + 1
      <4>1. i \in 1..m
        BY <3>3
      <4> QED BY <3>1, <4>1, <2>1 DEF IsRecursive
    <3> QED BY <3>2, <3>3
  <2>5. f[0] = base
    BY <2>1 DEF IsRecursive
  <2>6. IsRecursive(m + 1, base, step, f)
    BY <2>4, <2>5 DEF IsRecursive
  <2> HIDE DEF f
  <2> QED BY <2>3, <2>6
<1>3. n \in S
  <2> HIDE DEF S
  <2>1. 0..n \subseteq S
    BY <1>1, <1>2, UpTo
  <2> QED BY <2>1
<1> QED BY <1>3

-----------------------------------------------------------------------------
(* Bytes.                                                                    *)

Octets == 0..255

\* Octets are numbers.
LEMMA OctetsAreNumbers == Octets \subseteq Nat
PROOF BY DEF Octets

\* The number that bytes stand for, from the first byte on.
Value(octets) ==
  CHOOSE value : value = [i \in 0..Len(octets) |->
                            IF i = 0 THEN 0 ELSE 256 * value[i - 1] + octets[i]]

\* fromUnprefixedBytes takes byte after byte.
LEMMA ValueSteps ==
  ASSUME NEW octets \in Seq(Octets)
  PROVE  /\ Value(octets)[0] = 0
         /\ \A i \in 0..Len(octets) : Value(octets)[i] \in Nat
         /\ \A i \in 1..Len(octets) : Value(octets)[i] = 256 * Value(octets)[i - 1] + octets[i]
         /\ fromUnprefixedBytes(octets) = Value(octets)[Len(octets)]
PROOF
<1> DEFINE n == Len(octets)
           step == [p \in (1..n) \X Nat |-> 256 * p[2] + octets[p[1]]]
           Is(value) == value = [i \in 0..n |-> IF i = 0 THEN 0 ELSE 256 * value[i - 1] + octets[i]]
<1>1. n \in Nat
  OBVIOUS
<1>2. step \in [(1..n) \X Nat -> Nat]
  <2>1. ASSUME NEW p \in (1..n) \X Nat PROVE 256 * p[2] + octets[p[1]] \in Nat
    <3>1. p[1] \in 1..n /\ p[2] \in Nat
      OBVIOUS
    <3>2. octets[p[1]] \in Octets
      BY <3>1
    <3>3. octets[p[1]] \in Nat
      BY <3>2, OctetsAreNumbers
    <3> HIDE DEF n
    <3> QED BY <3>1, <3>3
  <2> QED BY <2>1
<1>3. PICK f \in [0..n -> Nat] : IsRecursive(n, 0, step, f)
  <2> HIDE DEF n, step
  <2> QED BY <1>1, <1>2, RecursionExists
<1>4. \A i \in 1..n : f[i] = 256 * f[i - 1] + octets[i]
  <2> SUFFICES ASSUME NEW i \in 1..n PROVE f[i] = 256 * f[i - 1] + octets[i]
    OBVIOUS
  <2>1. <<i, f[i - 1]>> \in (1..n) \X Nat
    OBVIOUS
  <2>2. f[i] = step[<<i, f[i - 1]>>]
    <3> HIDE DEF n, step
    <3> QED BY <1>3 DEF IsRecursive
  <2> QED BY <2>1, <2>2
<1>5. f[0] = 0
  BY <1>3 DEF IsRecursive
<1>6. Is(f)
  BY <1>4, <1>5
<1>7. Is(Value(octets))
  <2>1. Value(octets) = CHOOSE value : Is(value)
    BY DEF Value
  <2> HIDE DEF Is
  <2> QED BY <1>6, <2>1
<1>8. \A i \in 1..n : Value(octets)[i] = 256 * Value(octets)[i - 1] + octets[i]
  <2>1. Value(octets) = [i \in 0..n |-> IF i = 0 THEN 0 ELSE 256 * Value(octets)[i - 1] + octets[i]]
    BY <1>7
  <2>2. \A i \in 1..n : i \in 0..n /\ i # 0
    BY <1>1
  <2> HIDE DEF n, Is
  <2>3. \A i \in 0..n :
          Value(octets)[i] = IF i = 0 THEN 0 ELSE 256 * Value(octets)[i - 1] + octets[i]
    BY <2>1
  <2> QED BY <2>2, <2>3
<1>9. Value(octets)[0] = 0
  BY <1>7
<1> DEFINE S == {i \in Nat : i <= n => Value(octets)[i] \in Nat}
<1>10. 0..n \subseteq S
  <2>1. 0 \in S
    BY <1>9
  <2>2. ASSUME NEW i \in 0..(n - 1), i \in S PROVE i + 1 \in S
    <3>0. octets[i + 1] \in Octets
      OBVIOUS
    <3>1. octets[i + 1] \in Nat
      BY <3>0, OctetsAreNumbers
    <3>2. Value(octets)[i + 1] = 256 * Value(octets)[i] + octets[i + 1]
      BY <1>8
    <3>3. i \in Nat /\ i + 1 \in Nat /\ i <= n
      OBVIOUS
    <3>4. Value(octets)[i] \in Nat
      BY <2>2, <3>3
    <3>5. Value(octets)[i + 1] \in Nat
      BY <3>1, <3>2, <3>4
    <3> QED BY <3>3, <3>5
  <2> HIDE DEF S, n
  <2> QED BY <1>1, <2>1, <2>2, UpTo
<1>11. fromUnprefixedBytes(octets) = Value(octets)[n]
  BY DEF fromUnprefixedBytes, Value
<1> QED BY <1>8, <1>9, <1>10, <1>11

\* What toUnprefixedBytes gives are octets, as many as the field has.
LEMMA OctetsOf ==
  ASSUME NEW v \in Nat, NEW size \in Nat
  PROVE  /\ toUnprefixedBytes(v, size) \in Seq(Octets)
         /\ Len(toUnprefixedBytes(v, size)) = size
         /\ DOMAIN toUnprefixedBytes(v, size) = 1..size
PROOF
<1> DEFINE Octet(i) == IF size - i > 3 THEN 0 ELSE (v \div Weight[size - i + 1]) % 256
<1>1. ASSUME NEW i \in 1..size PROVE Octet(i) \in Octets
  <2>1. CASE size - i > 3
    BY <2>1 DEF Octets
  <2>2. CASE size - i \in 0..3
    <3> DEFINE k == size - i + 1
    <3>1. k \in 1..4
      BY <2>2
    <3> HIDE DEF k
    <3>2. Weight[k] \in Nat \ {0}
      BY <3>1 DEF Weight
    <3>3. v \div Weight[k] \in Nat
      BY <3>2
    <3>4. (v \div Weight[k]) % 256 \in Octets
      BY <3>3 DEF Octets
    <3> QED BY <2>2, <3>4 DEF k
  <2> QED BY <2>1, <2>2
<1>2. toUnprefixedBytes(v, size) = [i \in 1..size |-> Octet(i)]
  BY DEF toUnprefixedBytes
<1> HIDE DEF Octet
<1> QED BY <1>1, <1>2

\* A number below 2^31 survives its bytes when it fits.
LEMMA NumberSurvives ==
  ASSUME NEW v \in Numbers, NEW size \in {1, 2, 4, 16, 32}, Fits(v, size)
  PROVE  fromUnprefixedBytes(toUnprefixedBytes(v, size)) = v
PROOF
<1> DEFINE b == toUnprefixedBytes(v, size)
<1>1. v \in Nat /\ v \div 16777216 < 128 /\ size \in Nat
  BY SMT DEF Numbers
<1>2. b \in Seq(Octets) /\ Len(b) = size /\ \A i \in 1..size : b[i] \in Octets
  <2>1. b \in Seq(Octets) /\ Len(b) = size
    BY SMT, <1>1, OctetsOf
  <2> HIDE DEF b
  <2> QED BY SMT, <2>1
<1>3. \A i \in 1..size : b[i] = IF size - i > 3 THEN 0 ELSE (v \div Weight[size - i + 1]) % 256
  BY SMT DEF toUnprefixedBytes
<1>4. /\ Value(b)[0] = 0 /\ fromUnprefixedBytes(b) = Value(b)[size]
      /\ \A i \in 1..size : Value(b)[i] = 256 * Value(b)[i - 1] + b[i]
  <2> HIDE DEF b
  <2> QED BY SMT, <1>2, ValueSteps
<1> SUFFICES fromUnprefixedBytes(b) = v
  BY SMT
<1> HIDE DEF b
<1>5. Weight[1] = 1 /\ Weight[2] = 256 /\ Weight[3] = 65536 /\ Weight[4] = 16777216
  BY SMT DEF Weight
<1>6. CASE size = 1
  <2>1. v < 256
    BY SMT, <1>5, <1>6 DEF Fits
  <2>2. b[1] = (v \div 1) % 256
    BY SMT, <1>3, <1>5, <1>6
  <2>3. b[1] = v
    BY SMT, <1>1, <2>1, <2>2
  <2>4. Value(b)[1] = 256 * Value(b)[0] + b[1]
    BY SMT, <1>4, <1>6
  <2> QED BY SMT, <1>1, <1>4, <1>6, <2>3, <2>4
<1>7. CASE size = 2
  <2>1. v < 65536
    BY SMT, <1>5, <1>7 DEF Fits
  <2>2. b[1] = (v \div 256) % 256 /\ b[2] = v % 256
    <3>1. b[2] = (v \div 1) % 256
      BY SMT, <1>3, <1>5, <1>7
    <3>2. b[1] = (v \div 256) % 256
      BY SMT, <1>3, <1>5, <1>7
    <3> QED BY SMT, <1>1, <3>1, <3>2
  <2>3. Value(b)[1] = b[1]
    BY SMT, <1>1, <1>4, <1>7, <2>2
  <2>4. Value(b)[2] = 256 * b[1] + b[2]
    BY SMT, <1>4, <1>7, <2>3
  <2>5. v = 256 * (v \div 256) + (v % 256) /\ (v \div 256) % 256 = v \div 256
    BY SMT, <1>1, <2>1
  <2>6. Value(b)[2] = v
    BY SMT, <2>2, <2>4, <2>5
  <2> QED BY SMT, <1>4, <1>7, <2>6
<1>8. CASE size \in {4, 16, 32}
  <2> DEFINE low == size - 4
  <2>1. low \in Nat
    BY SMT, <1>8
  <2>2. Value(b)[low] = 0
    <3> DEFINE S == {i \in Nat : i <= low => Value(b)[i] = 0}
    <3>1. 0 \in S
      BY SMT, <1>4
    <3>2. ASSUME NEW i \in 0..(low - 1), i \in S PROVE i + 1 \in S
      <4>1. b[i + 1] = 0 /\ Value(b)[i] = 0
        BY SMT, <1>1, <1>3, <3>2
      <4>2. Value(b)[i + 1] = 256 * Value(b)[i] + b[i + 1]
        BY SMT, <1>1, <1>4, <3>2
      <4> QED BY SMT, <2>1, <4>1, <4>2
    <3> HIDE DEF S
    <3>3. 0..low \subseteq S
      BY SMT, <2>1, <3>1, <3>2, UpTo DEF low
    <3>4. low \in S
      BY SMT, <2>1, <3>3 DEF low
    <3> QED BY SMT, <3>4, <2>1 DEF S
  <2>3. /\ b[low + 1] = (v \div 16777216) % 256 /\ b[low + 2] = (v \div 65536) % 256
        /\ b[low + 3] = (v \div 256) % 256 /\ b[low + 4] = (v \div 1) % 256
    BY SMT, <1>3, <1>5, <1>8
  <2>4. /\ Value(b)[low + 1] = 256 * Value(b)[low] + b[low + 1]
        /\ Value(b)[low + 2] = 256 * Value(b)[low + 1] + b[low + 2]
        /\ Value(b)[low + 3] = 256 * Value(b)[low + 2] + b[low + 3]
        /\ Value(b)[low + 4] = 256 * Value(b)[low + 3] + b[low + 4]
    BY SMT, <1>4, <1>8
  <2>5. size = low + 4
    BY SMT, <1>1
  <2> HIDE DEF low
  <2> DEFINE d == v \div 16777216
             c == v \div 65536
             e == v \div 256
  <2>6. d \in Nat /\ c \in Nat /\ e \in Nat /\ d < 128
    BY SMT, <1>1
  <2>7. /\ e = 256 * c + (e % 256)
        /\ c = 256 * d + (c % 256)
        /\ v = 256 * e + (v % 256)
    <3>1. c = e \div 256 /\ d = c \div 256
      BY SMT, <1>1
    <3>2. v = 256 * e + (v % 256)
      BY SMT, <1>1
    <3> HIDE DEF c, d, e
    <3> QED BY SMT, <2>6, <3>1, <3>2
  <2>8. v \div 1 = v /\ d % 256 = d
    BY SMT, <1>1, <2>6
  <2> HIDE DEF d, c, e
  <2>9. Value(b)[low + 1] = d /\ Value(b)[low + 2] = c /\ Value(b)[low + 3] = e
    <3>1. b[low + 1] = d /\ b[low + 2] = c % 256 /\ b[low + 3] = e % 256 /\ b[low + 4] = v % 256
      BY SMT, <2>3, <2>8 DEF d, c, e
    <3>2. Value(b)[low + 1] = d
      BY SMT, <2>2, <2>4, <2>6, <3>1
    <3>3. Value(b)[low + 2] = c
      BY SMT, <2>4, <2>7, <3>1, <3>2
    <3> QED BY SMT, <2>4, <2>7, <3>1, <3>2, <3>3
  <2>10. Value(b)[low + 4] = v
    BY SMT, <2>3, <2>4, <2>7, <2>8, <2>9
  <2> QED BY SMT, <1>4, <2>5, <2>10
<1> QED BY SMT, <1>6, <1>7, <1>8

-----------------------------------------------------------------------------
(* Requests in bytes.                                                        *)

Types == 1..4
Sizes == {1, 2, 4, 16, 32}

\* Every type has its definition.
LEMMA DefinitionOf ==
  /\ Definition(1) = PaymentDefinition
  /\ Definition(2) = BalanceDecreasingDefinition
  /\ Definition(3) = BlockHeightDefinition
  /\ Definition(4) = NonexistenceDefinition
  /\ \A type : Defined(type) <=> type \in Types
PROOF
<1>1. /\ PaymentDefinition.id = 1 /\ BalanceDecreasingDefinition.id = 2
      /\ BlockHeightDefinition.id = 3 /\ NonexistenceDefinition.id = 4
  BY DEF PaymentDefinition, BalanceDecreasingDefinition, BlockHeightDefinition,
         NonexistenceDefinition, AttestationType
<1>2. \A type : Defined(type) <=> type \in Types
  BY <1>1 DEF Defined, Definitions, Types
<1> QED BY <1>1, <1>2 DEF Definition, Definitions

\* The fields of a type come after the three of every request.
LEMMA AfterBase ==
  ASSUME NEW S, NEW r \in Seq(S)
  PROVE  LET f == RequestBase \o r
         IN  /\ DOMAIN f = 1..(3 + Len(r)) /\ Len(f) = 3 + Len(r)
             /\ f[1] = Field("attestationType", 2) /\ f[2] = Field("sourceId", 4)
             /\ f[3] = Field("messageIntegrityCode", 32)
             /\ \A i \in 1..Len(r) : f[3 + i] = r[i]
PROOF
<1> DEFINE T == S \cup {RequestBase[1], RequestBase[2], RequestBase[3]}
           f == RequestBase \o r
<1>1. /\ Len(RequestBase) = 3 /\ RequestBase[1] = Field("attestationType", 2)
      /\ RequestBase[2] = Field("sourceId", 4)
      /\ RequestBase[3] = Field("messageIntegrityCode", 32)
  BY DEF RequestBase
<1>2. RequestBase \in Seq(T)
  BY DEF RequestBase
<1>3. r \in Seq(T)
  OBVIOUS
<1> HIDE DEF T
<1>4. /\ f \in Seq(T) /\ Len(f) = Len(RequestBase) + Len(r)
      /\ \A i \in 1..Len(RequestBase) : f[i] = RequestBase[i]
      /\ \A i \in 1..Len(r) : f[Len(RequestBase) + i] = r[i]
  BY <1>2, <1>3
<1>5. Len(r) \in Nat
  BY <1>3
<1> HIDE DEF f
<1>6. /\ Len(f) = 3 + Len(r) /\ f[1] = RequestBase[1] /\ f[2] = RequestBase[2]
      /\ f[3] = RequestBase[3] /\ \A i \in 1..Len(r) : f[3 + i] = r[i]
  BY <1>1, <1>4, <1>5
<1>7. DOMAIN f = 1..(3 + Len(r))
  BY <1>4, <1>6
<1> QED BY <1>1, <1>6, <1>7 DEF f

\* What is said of the fields of a request of a type.
FieldsAre(fields, keys) ==
  /\ Len(fields) \in Nat /\ Len(fields) > 3 /\ DOMAIN fields = 1..Len(fields)
  /\ fields[1] = Field("attestationType", 2)
  /\ fields[2] = Field("sourceId", 4)
  /\ fields[3] = Field("messageIntegrityCode", 32)
  /\ \A i \in DOMAIN fields : fields[i].size \in Sizes
  /\ \A i, j \in DOMAIN fields : fields[i].key = fields[j].key => i = j
  /\ Keys(fields) = keys

\* The fields of a request of type 1.
LEMMA PaymentFields == FieldsAre(RequestFields(1), ARType[1])
PROOF
<1> DEFINE f == RequestFields(1)
<1> DEFINE r == PaymentDefinition.request
<1>1. /\ Len(r) = 4
      /\ r[1] = Field("id", 32)
      /\ r[2] = Field("blockNumber", 4)
      /\ r[3] = Field("inUtxo", 1)
      /\ r[4] = Field("utxo", 1)
  BY DEF PaymentDefinition
<1>2. r \in Seq({Field("id", 32), Field("blockNumber", 4), Field("inUtxo", 1), Field("utxo", 1)})
  BY DEF PaymentDefinition
<1>3. f = RequestBase \o r
  BY DefinitionOf DEF RequestFields
<1> SUFFICES FieldsAre(f, ARType[1])
  OBVIOUS
<1>4. /\ DOMAIN f = 1..7 /\ Len(f) = 7
      /\ f[1] = Field("attestationType", 2)
      /\ f[2] = Field("sourceId", 4)
      /\ f[3] = Field("messageIntegrityCode", 32)
      /\ f[4] = Field("id", 32)
      /\ f[5] = Field("blockNumber", 4)
      /\ f[6] = Field("inUtxo", 1)
      /\ f[7] = Field("utxo", 1)
  <2>1. /\ DOMAIN f = 1..(3 + Len(r)) /\ Len(f) = 3 + Len(r)
        /\ f[1] = Field("attestationType", 2) /\ f[2] = Field("sourceId", 4)
        /\ f[3] = Field("messageIntegrityCode", 32)
        /\ \A i \in 1..Len(r) : f[3 + i] = r[i]
    <3> HIDE DEF f, r
    <3> QED BY <1>2, <1>3, AfterBase
  <2> HIDE DEF f, r
  <2> QED BY <1>1, <2>1
<1> HIDE DEF f, r
<1>5. /\ f[1].key = "attestationType" /\ f[1].size = 2
      /\ f[2].key = "sourceId" /\ f[2].size = 4
      /\ f[3].key = "messageIntegrityCode" /\ f[3].size = 32
      /\ f[4].key = "id" /\ f[4].size = 32
      /\ f[5].key = "blockNumber" /\ f[5].size = 4
      /\ f[6].key = "inUtxo" /\ f[6].size = 1
      /\ f[7].key = "utxo" /\ f[7].size = 1
  BY <1>4 DEF Field
<1>6. \A i \in 1..7 : f[i].size \in Sizes
  BY <1>5 DEF Sizes
<1>7. \A i, j \in DOMAIN f : f[i].key = f[j].key => i = j
  BY <1>4, <1>5
<1>8. Keys(f) = {f[i].key : i \in 1..7}
  BY <1>4 DEF Keys
<1>9. Keys(f) = ARType[1]
  <2>1. ARType[1] = ARPayment
    BY DEF ARType
  <2>2. Keys(f) =
          {"attestationType", "sourceId", "messageIntegrityCode", "id", "blockNumber",
            "inUtxo", "utxo"}
    BY <1>5, <1>8
  <2> QED BY <2>1, <2>2 DEF ARPayment, ARBase
<1> QED BY <1>4, <1>6, <1>7, <1>9 DEF FieldsAre

\* The fields of a request of type 2.
LEMMA BalanceDecreasingFields == FieldsAre(RequestFields(2), ARType[2])
PROOF
<1> DEFINE f == RequestFields(2)
<1> DEFINE r == BalanceDecreasingDefinition.request
<1>1. /\ Len(r) = 3
      /\ r[1] = Field("id", 32)
      /\ r[2] = Field("blockNumber", 4)
      /\ r[3] = Field("sourceAddressIndicator", 32)
  BY DEF BalanceDecreasingDefinition
<1>2. r \in Seq({Field("id", 32), Field("blockNumber", 4), Field("sourceAddressIndicator", 32)})
  BY DEF BalanceDecreasingDefinition
<1>3. f = RequestBase \o r
  BY DefinitionOf DEF RequestFields
<1> SUFFICES FieldsAre(f, ARType[2])
  OBVIOUS
<1>4. /\ DOMAIN f = 1..6 /\ Len(f) = 6
      /\ f[1] = Field("attestationType", 2)
      /\ f[2] = Field("sourceId", 4)
      /\ f[3] = Field("messageIntegrityCode", 32)
      /\ f[4] = Field("id", 32)
      /\ f[5] = Field("blockNumber", 4)
      /\ f[6] = Field("sourceAddressIndicator", 32)
  <2>1. /\ DOMAIN f = 1..(3 + Len(r)) /\ Len(f) = 3 + Len(r)
        /\ f[1] = Field("attestationType", 2) /\ f[2] = Field("sourceId", 4)
        /\ f[3] = Field("messageIntegrityCode", 32)
        /\ \A i \in 1..Len(r) : f[3 + i] = r[i]
    <3> HIDE DEF f, r
    <3> QED BY <1>2, <1>3, AfterBase
  <2> HIDE DEF f, r
  <2> QED BY <1>1, <2>1
<1> HIDE DEF f, r
<1>5. /\ f[1].key = "attestationType" /\ f[1].size = 2
      /\ f[2].key = "sourceId" /\ f[2].size = 4
      /\ f[3].key = "messageIntegrityCode" /\ f[3].size = 32
      /\ f[4].key = "id" /\ f[4].size = 32
      /\ f[5].key = "blockNumber" /\ f[5].size = 4
      /\ f[6].key = "sourceAddressIndicator" /\ f[6].size = 32
  BY <1>4 DEF Field
<1>6. \A i \in 1..6 : f[i].size \in Sizes
  BY <1>5 DEF Sizes
<1>7. \A i, j \in DOMAIN f : f[i].key = f[j].key => i = j
  BY <1>4, <1>5
<1>8. Keys(f) = {f[i].key : i \in 1..6}
  BY <1>4 DEF Keys
<1>9. Keys(f) = ARType[2]
  <2>1. ARType[2] = ARBalanceDecreasingTransaction
    BY DEF ARType
  <2>2. Keys(f) =
          {"attestationType", "sourceId", "messageIntegrityCode", "id", "blockNumber",
            "sourceAddressIndicator"}
    BY <1>5, <1>8
  <2> QED BY <2>1, <2>2 DEF ARBalanceDecreasingTransaction, ARBase
<1> QED BY <1>4, <1>6, <1>7, <1>9 DEF FieldsAre

\* The fields of a request of type 3.
LEMMA BlockHeightFields == FieldsAre(RequestFields(3), ARType[3])
PROOF
<1> DEFINE f == RequestFields(3)
<1> DEFINE r == BlockHeightDefinition.request
<1>1. /\ Len(r) = 2
      /\ r[1] = Field("blockNumber", 4)
      /\ r[2] = Field("queryWindow", 4)
  BY DEF BlockHeightDefinition
<1>2. r \in Seq({Field("blockNumber", 4), Field("queryWindow", 4)})
  BY DEF BlockHeightDefinition
<1>3. f = RequestBase \o r
  BY DefinitionOf DEF RequestFields
<1> SUFFICES FieldsAre(f, ARType[3])
  OBVIOUS
<1>4. /\ DOMAIN f = 1..5 /\ Len(f) = 5
      /\ f[1] = Field("attestationType", 2)
      /\ f[2] = Field("sourceId", 4)
      /\ f[3] = Field("messageIntegrityCode", 32)
      /\ f[4] = Field("blockNumber", 4)
      /\ f[5] = Field("queryWindow", 4)
  <2>1. /\ DOMAIN f = 1..(3 + Len(r)) /\ Len(f) = 3 + Len(r)
        /\ f[1] = Field("attestationType", 2) /\ f[2] = Field("sourceId", 4)
        /\ f[3] = Field("messageIntegrityCode", 32)
        /\ \A i \in 1..Len(r) : f[3 + i] = r[i]
    <3> HIDE DEF f, r
    <3> QED BY <1>2, <1>3, AfterBase
  <2> HIDE DEF f, r
  <2> QED BY <1>1, <2>1
<1> HIDE DEF f, r
<1>5. /\ f[1].key = "attestationType" /\ f[1].size = 2
      /\ f[2].key = "sourceId" /\ f[2].size = 4
      /\ f[3].key = "messageIntegrityCode" /\ f[3].size = 32
      /\ f[4].key = "blockNumber" /\ f[4].size = 4
      /\ f[5].key = "queryWindow" /\ f[5].size = 4
  BY <1>4 DEF Field
<1>6. \A i \in 1..5 : f[i].size \in Sizes
  BY <1>5 DEF Sizes
<1>7. \A i, j \in DOMAIN f : f[i].key = f[j].key => i = j
  BY <1>4, <1>5
<1>8. Keys(f) = {f[i].key : i \in 1..5}
  BY <1>4 DEF Keys
<1>9. Keys(f) = ARType[3]
  <2>1. ARType[3] = ARConfirmedBlockHeightExists
    BY DEF ARType
  <2>2. Keys(f) =
          {"attestationType", "sourceId", "messageIntegrityCode", "blockNumber", "queryWindow"}
    BY <1>5, <1>8
  <2> QED BY <2>1, <2>2 DEF ARConfirmedBlockHeightExists, ARBase
<1> QED BY <1>4, <1>6, <1>7, <1>9 DEF FieldsAre

\* The fields of a request of type 4.
LEMMA NonexistenceFields == FieldsAre(RequestFields(4), ARType[4])
PROOF
<1> DEFINE f == RequestFields(4)
<1> DEFINE r == NonexistenceDefinition.request
<1>1. /\ Len(r) = 6
      /\ r[1] = Field("minimalBlockNumber", 4)
      /\ r[2] = Field("deadlineBlockNumber", 4)
      /\ r[3] = Field("deadlineTimestamp", 4)
      /\ r[4] = Field("destinationAddressHash", 32)
      /\ r[5] = Field("amount", 16)
      /\ r[6] = Field("paymentReference", 32)
  BY DEF NonexistenceDefinition
<1>2. r \in Seq({Field("minimalBlockNumber", 4), Field("deadlineBlockNumber", 4),
                    Field("deadlineTimestamp", 4), Field("destinationAddressHash", 32),
                    Field("amount", 16), Field("paymentReference", 32)})
  BY DEF NonexistenceDefinition
<1>3. f = RequestBase \o r
  BY DefinitionOf DEF RequestFields
<1> SUFFICES FieldsAre(f, ARType[4])
  OBVIOUS
<1>4. /\ DOMAIN f = 1..9 /\ Len(f) = 9
      /\ f[1] = Field("attestationType", 2)
      /\ f[2] = Field("sourceId", 4)
      /\ f[3] = Field("messageIntegrityCode", 32)
      /\ f[4] = Field("minimalBlockNumber", 4)
      /\ f[5] = Field("deadlineBlockNumber", 4)
      /\ f[6] = Field("deadlineTimestamp", 4)
      /\ f[7] = Field("destinationAddressHash", 32)
      /\ f[8] = Field("amount", 16)
      /\ f[9] = Field("paymentReference", 32)
  <2>1. /\ DOMAIN f = 1..(3 + Len(r)) /\ Len(f) = 3 + Len(r)
        /\ f[1] = Field("attestationType", 2) /\ f[2] = Field("sourceId", 4)
        /\ f[3] = Field("messageIntegrityCode", 32)
        /\ \A i \in 1..Len(r) : f[3 + i] = r[i]
    <3> HIDE DEF f, r
    <3> QED BY <1>2, <1>3, AfterBase
  <2> HIDE DEF f, r
  <2> QED BY <1>1, <2>1
<1> HIDE DEF f, r
<1>5. /\ f[1].key = "attestationType" /\ f[1].size = 2
      /\ f[2].key = "sourceId" /\ f[2].size = 4
      /\ f[3].key = "messageIntegrityCode" /\ f[3].size = 32
      /\ f[4].key = "minimalBlockNumber" /\ f[4].size = 4
      /\ f[5].key = "deadlineBlockNumber" /\ f[5].size = 4
      /\ f[6].key = "deadlineTimestamp" /\ f[6].size = 4
      /\ f[7].key = "destinationAddressHash" /\ f[7].size = 32
      /\ f[8].key = "amount" /\ f[8].size = 16
      /\ f[9].key = "paymentReference" /\ f[9].size = 32
  BY <1>4 DEF Field
<1>6. \A i \in 1..9 : f[i].size \in Sizes
  BY <1>5 DEF Sizes
<1>7. \A i, j \in DOMAIN f : f[i].key = f[j].key => i = j
  BY <1>4, <1>5
<1>8. Keys(f) = {f[i].key : i \in 1..9}
  BY <1>4 DEF Keys
<1>9. Keys(f) = ARType[4]
  <2>1. ARType[4] = ARReferencedPaymentNonexistence
    BY DEF ARType
  <2>2. Keys(f) =
          {"attestationType", "sourceId", "messageIntegrityCode", "minimalBlockNumber",
            "deadlineBlockNumber", "deadlineTimestamp", "destinationAddressHash", "amount",
            "paymentReference"}
    BY <1>5, <1>8
  <2> QED BY <2>1, <2>2 DEF ARReferencedPaymentNonexistence, ARBase
<1> QED BY <1>4, <1>6, <1>7, <1>9 DEF FieldsAre

\* The fields of a request of any type.
LEMMA RequestFieldsAre ==
  ASSUME NEW type \in Types
  PROVE  FieldsAre(RequestFields(type), ARType[type])
PROOF BY PaymentFields, BalanceDecreasingFields, BlockHeightFields, NonexistenceFields DEF Types

\* The lengths of the fields before a place.
Lengths(fields) ==
  CHOOSE length : length = [i \in 0..Len(fields) |->
                              IF i = 0 THEN 0 ELSE length[i - 1] + fields[i].size]

\* Bytes adds the sizes.
LEMMA BytesSteps ==
  ASSUME NEW fields, Len(fields) \in Nat,
         \A i \in 1..Len(fields) : fields[i].size \in Nat
  PROVE  /\ Bytes(fields, 0) = 0
         /\ \A i \in 0..Len(fields) : Bytes(fields, i) \in Nat
         /\ \A i \in 1..Len(fields) : Bytes(fields, i) = Bytes(fields, i - 1) + fields[i].size
PROOF
<1> DEFINE n == Len(fields)
           step == [p \in (1..n) \X Nat |-> p[2] + fields[p[1]].size]
           Is(length) ==
             length = [i \in 0..n |-> IF i = 0 THEN 0 ELSE length[i - 1] + fields[i].size]
<1>1. step \in [(1..n) \X Nat -> Nat]
  OBVIOUS
<1>2. PICK f \in [0..n -> Nat] : IsRecursive(n, 0, step, f)
  <2> HIDE DEF n, step
  <2> QED BY <1>1, RecursionExists DEF n
<1>3. \A i \in 1..n : f[i] = f[i - 1] + fields[i].size
  <2> SUFFICES ASSUME NEW i \in 1..n PROVE f[i] = f[i - 1] + fields[i].size
    OBVIOUS
  <2>1. <<i, f[i - 1]>> \in (1..n) \X Nat
    OBVIOUS
  <2>2. f[i] = step[<<i, f[i - 1]>>]
    BY <1>2 DEF IsRecursive
  <2> QED BY <2>1, <2>2
<1>4. f[0] = 0
  BY <1>2 DEF IsRecursive
<1>5. Is(f)
  BY <1>3, <1>4
<1>6. Is(Lengths(fields))
  <2>1. Lengths(fields) = CHOOSE length : Is(length)
    BY DEF Lengths
  <2> HIDE DEF Is
  <2> QED BY <1>5, <2>1
<1>7. \A i \in 0..n : Bytes(fields, i) = Lengths(fields)[i]
  BY DEF Bytes, Lengths
<1>8. \A i \in 1..n : Lengths(fields)[i] = Lengths(fields)[i - 1] + fields[i].size
  BY <1>6
<1>9. Lengths(fields)[0] = 0
  BY <1>6
<1> HIDE DEF Is, step
<1>10. /\ Bytes(fields, 0) = 0
       /\ \A i \in 1..n : Bytes(fields, i) = Bytes(fields, i - 1) + fields[i].size
  <2>1. \A i \in 1..n : i - 1 \in 0..n /\ i \in 0..n
    OBVIOUS
  <2>2. 0 \in 0..n
    OBVIOUS
  <2> HIDE DEF n
  <2> QED BY <1>7, <1>8, <1>9, <2>1, <2>2
<1> DEFINE S == {i \in Nat : i <= n => Bytes(fields, i) \in Nat}
<1>11. 0..n \subseteq S
  <2>1. 0 \in S
    BY <1>10
  <2>2. ASSUME NEW i \in 0..(n - 1), i \in S PROVE i + 1 \in S
    <3>1. i \in Nat /\ i + 1 \in 1..n /\ i <= n /\ (i + 1) - 1 = i
      OBVIOUS
    <3>2. Bytes(fields, i + 1) = Bytes(fields, i) + fields[i + 1].size
      BY <1>10, <3>1
    <3> QED BY <2>2, <3>1, <3>2
  <2> HIDE DEF S, n
  <2> QED BY <2>1, <2>2, UpTo DEF n
<1> QED BY <1>10, <1>11

\* Two sequences that are joined are in the whole one after the other.
LEMMA Joined ==
  ASSUME NEW S, NEW x \in Seq(S), NEW y \in Seq(S)
  PROVE  /\ x \o y \in Seq(S) /\ Len(x \o y) = Len(x) + Len(y)
         /\ \A m \in 1..Len(x) : (x \o y)[m] = x[m]
         /\ \A m \in 1..Len(y) : (x \o y)[Len(x) + m] = y[m]
PROOF OBVIOUS

\* For each field as many octets as it has.
OctetsFor(fields, seqs) ==
  /\ Len(fields) \in Nat \ {0} /\ \A i \in 1..Len(fields) : fields[i].size \in Nat
  /\ seqs \in Seq(Seq(Octets)) /\ Len(seqs) = Len(fields)
  /\ \A i \in 1..Len(fields) : Len(seqs[i]) = fields[i].size

\* All octets, those of each field at their place.
InPlace(fields, seqs, b) ==
  /\ b \in Seq(Octets) /\ Len(b) = TotalLength(fields)
  /\ \A i \in 1..Len(fields) :
       /\ Bytes(fields, i) <= TotalLength(fields)
       /\ \A j \in 1..fields[i].size : b[Bytes(fields, i - 1) + j] = seqs[i][j]

\* FlattenSeq joins sequences of octets: each is in the whole at its place.
LEMMA Flattened ==
  ASSUME NEW fields, NEW seqs, OctetsFor(fields, seqs)
  PROVE  InPlace(fields, seqs, FlattenSeq(seqs))
PROOF
<1> USE DEF OctetsFor, InPlace
<1> DEFINE n == Len(seqs)
           V == Seq(Octets)
           step == [p \in (1..n) \X V |-> p[2] \o seqs[p[1]]]
           Is(flatten) ==
             flatten = [i \in 1..n |-> IF i = 1 THEN seqs[i] ELSE flatten[i - 1] \o seqs[i]]
           flat == CHOOSE flatten : Is(flatten)
<1>1. n \in Nat /\ n # 0 /\ \A i \in 1..n : seqs[i] \in V
  OBVIOUS
<1>2. step \in [(1..n) \X V -> V]
  <2>1. ASSUME NEW p \in (1..n) \X V PROVE p[2] \o seqs[p[1]] \in V
    <3>1. p[1] \in 1..n /\ p[2] \in V
      OBVIOUS
    <3>2. seqs[p[1]] \in V
      BY <1>1, <3>1
    <3> QED BY <3>1, <3>2
  <2> QED BY <2>1
<1>3. PICK f \in [0..n -> V] : IsRecursive(n, <<>>, step, f)
  <2>1. <<>> \in V
    OBVIOUS
  <2> HIDE DEF n, step, V
  <2> QED BY <1>1, <1>2, <2>1, RecursionExists
<1>4. \A i \in 1..n : f[i] = f[i - 1] \o seqs[i]
  <2> SUFFICES ASSUME NEW i \in 1..n PROVE f[i] = f[i - 1] \o seqs[i]
    OBVIOUS
  <2>0. i - 1 \in 0..n
    BY <1>1
  <2>1. <<i, f[i - 1]>> \in (1..n) \X V
    BY <2>0
  <2>2. f[i] = step[<<i, f[i - 1]>>]
    BY <1>3 DEF IsRecursive
  <2> QED BY <2>1, <2>2
<1>5. f[0] = <<>>
  BY <1>3 DEF IsRecursive
<1>6. Is([i \in 1..n |-> f[i]])
  <2> DEFINE g == [i \in 1..n |-> f[i]]
  <2>1. ASSUME NEW i \in 1..n
        PROVE  g[i] = IF i = 1 THEN seqs[i] ELSE g[i - 1] \o seqs[i]
    <3>1. CASE i = 1
      <4>0. g[i] = f[i] /\ f[i] = f[i - 1] \o seqs[i] /\ i - 1 = 0
        <5>1. g[i] = f[i]
          OBVIOUS
        <5>2. i - 1 = 0
          BY <3>1
        <5> HIDE DEF g, n
        <5> QED BY <1>4, <5>1, <5>2
      <4>1. g[i] = <<>> \o seqs[i]
        BY <1>5, <4>0
      <4>2. seqs[i] \in Seq(Octets)
        BY <1>1
      <4> HIDE DEF g
      <4> QED BY <3>1, <4>1, <4>2
    <3>2. CASE i # 1
      <4>1. i - 1 \in 1..n
        BY <1>1, <3>2
      <4>2. g[i - 1] = f[i - 1] /\ g[i] = f[i]
        BY <4>1
      <4> HIDE DEF g
      <4> QED BY <1>4, <3>2, <4>2
    <3> QED BY <3>1, <3>2
  <2>2. g = [i \in 1..n |-> IF i = 1 THEN seqs[i] ELSE g[i - 1] \o seqs[i]]
    BY <2>1
  <2> HIDE DEF n
  <2> QED BY <2>2
<1>7. Is(flat)
  <2> HIDE DEF Is
  <2> QED BY <1>6
<1> HIDE DEF flat
<1>8. flat[1] = seqs[1] /\ \A i \in 2..n : flat[i] = flat[i - 1] \o seqs[i]
  <2>1. \A i \in 1..n : flat[i] = IF i = 1 THEN seqs[i] ELSE flat[i - 1] \o seqs[i]
    BY <1>7
  <2>2. 1 \in 1..n /\ \A i \in 2..n : i \in 1..n /\ i # 1
    BY <1>1
  <2> HIDE DEF n, Is
  <2> QED BY <2>1, <2>2
<1>9. FlattenSeq(seqs) = flat[n]
  BY <1>1 DEF FlattenSeq, flat
<1>10. /\ Bytes(fields, 0) = 0
       /\ \A i \in 0..n : Bytes(fields, i) \in Nat
       /\ \A i \in 1..n : Bytes(fields, i) = Bytes(fields, i - 1) + fields[i].size
       /\ TotalLength(fields) = Bytes(fields, n)
  BY BytesSteps DEF TotalLength
<1> HIDE DEF Is, step
<1> DEFINE Good(k) ==
      /\ flat[k] \in Seq(Octets) /\ Len(flat[k]) = Bytes(fields, k)
      /\ \A i \in 1..k : /\ Bytes(fields, i) <= Bytes(fields, k)
                         /\ \A j \in 1..fields[i].size :
                              flat[k][Bytes(fields, i - 1) + j] = seqs[i][j]
           S == {k \in Nat : k \in 1..n => Good(k)}
<1>11. \A i \in 1..n : /\ fields[i].size \in Nat
                      /\ seqs[i] \in Seq(Octets) /\ Len(seqs[i]) = fields[i].size
  BY <1>1
<1>12. 0..n \subseteq S
  <2>1. 0 \in S
    OBVIOUS
  <2>2. ASSUME NEW k \in 0..(n - 1), k \in S PROVE k + 1 \in S
    <3>1. k \in Nat /\ k + 1 \in 1..n /\ k \in 0..n /\ (k + 1) - 1 = k
      BY <1>1
    <3> HIDE DEF n
    <3>2. CASE k = 0
      <4>1. Bytes(fields, 1) = fields[1].size /\ 1 \in 1..n
        BY <1>10, <1>11, <3>1, <3>2
      <4>2. Len(flat[1]) = Bytes(fields, 1) /\ flat[1] \in Seq(Octets)
        BY <1>8, <1>11, <4>1
      <4>3. \A j \in 1..fields[1].size : flat[1][Bytes(fields, 0) + j] = seqs[1][j]
        BY <1>8, <1>10, <1>11, <4>1
      <4>4. \A i \in 1..1 : i = 1
        OBVIOUS
      <4>5. Bytes(fields, 1) <= Bytes(fields, 1)
        BY <1>11, <4>1
      <4>6. Good(1)
        BY <4>2, <4>3, <4>4, <4>5
      <4> QED BY <3>2, <4>6
    <3>3. CASE k # 0
      <4>1. Good(k)
        <5>1. k \in 1..n
          BY <3>1, <3>3
        <5>2. k \in 1..n => Good(k)
          BY <2>2
        <5> QED BY <5>1, <5>2
      <4>2. flat[k + 1] = flat[k] \o seqs[k + 1]
        <5>1. k + 1 \in 2..n
          BY <3>1, <3>3
        <5> QED BY <1>8, <3>1, <5>1
      <4>3. Bytes(fields, k + 1) = Bytes(fields, k) + fields[k + 1].size
        BY <1>10, <3>1
      <4> DEFINE x == flat[k]
                 y == seqs[k + 1]
                 z == flat[k + 1]
      <4>4. x \in Seq(Octets) /\ y \in Seq(Octets) /\ z = x \o y
            /\ Len(x) = Bytes(fields, k) /\ Len(y) = fields[k + 1].size
        BY <1>11, <3>1, <4>1, <4>2
      <4> HIDE DEF x, y, z
      <4>5. /\ z \in Seq(Octets) /\ Len(z) = Len(x) + Len(y)
            /\ \A m \in 1..Len(x) : z[m] = x[m]
            /\ \A m \in 1..Len(y) : z[Len(x) + m] = y[m]
        <5>1. /\ x \o y \in Seq(Octets) /\ Len(x \o y) = Len(x) + Len(y)
              /\ \A m \in 1..Len(x) : (x \o y)[m] = x[m]
              /\ \A m \in 1..Len(y) : (x \o y)[Len(x) + m] = y[m]
          <6>1. x \in Seq(Octets) /\ y \in Seq(Octets)
            BY <4>4
          <6> QED BY <6>1
        <5> QED BY <4>4, <5>1
      <4>6. Len(z) = Bytes(fields, k + 1)
        BY <4>3, <4>4, <4>5
      <4>7. ASSUME NEW i \in 1..(k + 1)
            PROVE  /\ Bytes(fields, i) <= Bytes(fields, k + 1)
                   /\ \A j \in 1..fields[i].size : z[Bytes(fields, i - 1) + j] = seqs[i][j]
        <5>1. CASE i = k + 1
          <6>1. Bytes(fields, k + 1) \in Nat
            BY <1>10, <3>1, <1>1
          <6>2. i - 1 = k /\ Bytes(fields, i - 1) = Len(x) /\ seqs[i] = y
                /\ fields[i].size = Len(y)
            BY <3>1, <4>4, <5>1 DEF y
          <6>3. Bytes(fields, i) <= Bytes(fields, k + 1)
            BY <5>1, <6>1
          <6> QED BY <4>5, <6>2, <6>3
        <5>2. CASE i \in 1..k
          <6>1. i \in 1..n /\ i \in 0..n /\ i - 1 \in 0..n
            BY <1>1, <3>1, <5>2
          <6>2. /\ Bytes(fields, i) \in Nat /\ Bytes(fields, i - 1) \in Nat
                /\ Bytes(fields, k) \in Nat /\ fields[i].size \in Nat
                /\ fields[k + 1].size \in Nat
            BY <1>10, <1>11, <3>1, <6>1
          <6>3. Bytes(fields, i) <= Bytes(fields, k)
            BY <4>1, <5>2
          <6>4. Bytes(fields, i) = Bytes(fields, i - 1) + fields[i].size
            BY <1>10, <6>1
          <6>5. ASSUME NEW j \in 1..fields[i].size
                PROVE  z[Bytes(fields, i - 1) + j] = seqs[i][j]
            <7>1. x[Bytes(fields, i - 1) + j] = seqs[i][j]
              BY <4>1, <5>2 DEF x
            <7>2. Bytes(fields, i - 1) + j \in 1..Bytes(fields, k)
              <8> DEFINE p == Bytes(fields, i - 1)
                         q == Bytes(fields, k)
                         size == fields[i].size
              <8>1. p \in Nat /\ q \in Nat /\ size \in Nat /\ p + size <= q /\ j \in 1..size
                BY <6>2, <6>3, <6>4
              <8> HIDE DEF p, q, size
              <8>2. p + j \in 1..q
                BY <8>1
              <8> QED BY <8>2 DEF p, q
            <7>3. Bytes(fields, i - 1) + j \in 1..Len(x)
              BY <4>4, <7>2
            <7> QED BY <4>5, <7>1, <7>3
          <6>6. Bytes(fields, i) <= Bytes(fields, k + 1)
            <7> DEFINE p == Bytes(fields, i)
                       q == Bytes(fields, k)
                       size == fields[k + 1].size
            <7>1. p \in Nat /\ q \in Nat /\ size \in Nat /\ p <= q
              BY <6>2, <6>3
            <7>2. Bytes(fields, k + 1) = q + size
              BY <4>3
            <7> HIDE DEF p, q, size
            <7>3. p <= q + size
              BY <7>1
            <7> QED BY <7>2, <7>3 DEF p
          <6> QED BY <6>5, <6>6
        <5>3. i = k + 1 \/ i \in 1..k
          BY <3>1
        <5> QED BY <5>1, <5>2, <5>3
      <4> QED BY <3>1, <4>5, <4>6, <4>7 DEF z
    <3> QED BY <3>2, <3>3
  <2> HIDE DEF S, n
  <2> QED BY <1>1, <2>1, <2>2, UpTo
<1>13. Good(n)
  BY <1>1, <1>12
<1> QED BY <1>9, <1>10, <1>13

\* Where the fields of a request are: the first three at the head.
LEMMA Places ==
  ASSUME NEW fields, NEW keys, FieldsAre(fields, keys)
  PROVE  /\ Bytes(fields, 0) = 0 /\ Bytes(fields, 1) = 2
         /\ Bytes(fields, 2) = 6 /\ Bytes(fields, 3) = 38
         /\ \A i \in 0..Len(fields) : Bytes(fields, i) \in Nat
         /\ \A i \in 1..Len(fields) :
              /\ fields[i].size \in Nat \ {0}
              /\ Bytes(fields, i) = Bytes(fields, i - 1) + fields[i].size
         /\ \A i \in 0..Len(fields) : Bytes(fields, i) <= TotalLength(fields)
         /\ TotalLength(fields) \in Nat
         /\ TotalLength(fields) >= 38
PROOF
<1> DEFINE n == Len(fields)
<1>1. n \in Nat /\ n > 3 /\ DOMAIN fields = 1..n
  BY DEF FieldsAre
<1>2. \A i \in 1..n : fields[i].size \in Nat \ {0}
  <2>1. \A i \in 1..n : fields[i].size \in Sizes
    BY <1>1 DEF FieldsAre
  <2>2. Sizes \subseteq Nat \ {0}
    BY DEF Sizes
  <2> QED BY <2>1, <2>2
<1>3. /\ Bytes(fields, 0) = 0
      /\ \A i \in 0..n : Bytes(fields, i) \in Nat
      /\ \A i \in 1..n : Bytes(fields, i) = Bytes(fields, i - 1) + fields[i].size
  BY <1>1, <1>2, BytesSteps
<1>4. fields[1].size = 2 /\ fields[2].size = 4 /\ fields[3].size = 32
  BY DEF FieldsAre, Field
<1> HIDE DEF n
<1>5. Bytes(fields, 1) = 2 /\ Bytes(fields, 2) = 6 /\ Bytes(fields, 3) = 38
  <2>1. 1 \in 1..n /\ 2 \in 1..n /\ 3 \in 1..n
    BY <1>1
  <2>2. /\ Bytes(fields, 1) = Bytes(fields, 1 - 1) + fields[1].size
        /\ Bytes(fields, 2) = Bytes(fields, 2 - 1) + fields[2].size
        /\ Bytes(fields, 3) = Bytes(fields, 3 - 1) + fields[3].size
    BY <1>3, <2>1
  <2>3. 1 - 1 = 0 /\ 2 - 1 = 1 /\ 3 - 1 = 2
    OBVIOUS
  <2> QED BY <1>3, <1>4, <2>2, <2>3
<1> DEFINE S == {k \in Nat : k <= n => \A i \in 0..k : Bytes(fields, i) <= Bytes(fields, k)}
<1>6. 0 \in S
  BY <1>3
<1>7. ASSUME NEW k \in 0..(n - 1), k \in S PROVE k + 1 \in S
  <2>1. k \in Nat /\ k + 1 \in 1..n /\ (k + 1) - 1 = k /\ k \in 0..n /\ k <= n
    BY <1>1
  <2>2. Bytes(fields, k + 1) = Bytes(fields, k) + fields[k + 1].size
    BY <1>3, <2>1
  <2>3. Bytes(fields, k) \in Nat /\ fields[k + 1].size \in Nat
    BY <1>2, <1>3, <2>1
  <2>4. ASSUME NEW i \in 0..(k + 1) PROVE Bytes(fields, i) <= Bytes(fields, k + 1)
    <3>1. CASE i = k + 1
      BY <2>2, <2>3, <3>1
    <3>2. CASE i \in 0..k
      <4>1. Bytes(fields, i) <= Bytes(fields, k)
        BY <1>7, <2>1, <3>2
      <4>2. Bytes(fields, i) \in Nat
        <5>1. i \in 0..n
          BY <1>1, <2>1, <3>2
        <5> QED BY <1>3, <5>1
      <4> QED BY <2>2, <2>3, <4>1, <4>2
    <3> QED BY <2>1, <3>1, <3>2
  <2> QED BY <2>1, <2>4
<1>8. 0..n \subseteq S
  <2> HIDE DEF S
  <2> QED BY <1>1, <1>6, <1>7, UpTo
<1>9. TotalLength(fields) = Bytes(fields, n)
  BY DEF TotalLength, n
<1>10. \A i \in 0..n : Bytes(fields, i) <= TotalLength(fields)
  <2>1. n \in S
    BY <1>1, <1>8
  <2> QED BY <1>1, <1>9, <2>1
<1>11. TotalLength(fields) \in Nat /\ TotalLength(fields) >= 38
  <2>1. n \in 0..n /\ 3 \in 0..n
    BY <1>1
  <2> QED BY <1>3, <1>5, <1>9, <1>10, <2>1
<1> QED BY <1>2, <1>3, <1>5, <1>10, <1>11 DEF n

\* A part of a sequence.
LEMMA Part ==
  ASSUME NEW S, NEW b \in Seq(S), NEW p \in Nat, NEW q \in Nat, p <= q, q <= Len(b)
  PROVE  /\ SubSeq(b, p + 1, q) \in Seq(S)
         /\ Len(SubSeq(b, p + 1, q)) = q - p
         /\ \A j \in 1..(q - p) : SubSeq(b, p + 1, q)[j] = b[p + j]
PROOF OBVIOUS

\* Sequences of the same elements.
LEMMA SameElements ==
  ASSUME NEW S, NEW x \in Seq(S), NEW y \in Seq(S), Len(x) = Len(y),
         \A j \in 1..Len(x) : x[j] = y[j]
  PROVE  x = y
PROOF
<1>1. x = [j \in 1..Len(x) |-> x[j]] /\ y = [j \in 1..Len(y) |-> y[j]]
  OBVIOUS
<1> QED BY <1>1

\* Bytes stand for a number.
LEMMA NumberOf ==
  ASSUME NEW octets \in Seq(Octets)
  PROVE  fromUnprefixedBytes(octets) \in Nat
PROOF
<1>1. Len(octets) \in 0..Len(octets)
  OBVIOUS
<1> QED BY <1>1, ValueSteps

\* What parseRequest takes for the field at a place.
FieldIn(b, fields, i) ==
  fromUnprefixedBytes(SubSeq(b, Bytes(fields, i - 1) + 1, Bytes(fields, i)))

\* The type that bytes begin with.
TypeIn(b) == fromUnprefixedBytes(SubSeq(b, 1, 2))

\* Bytes of the right length are parsed field by field, to a request of the class
\* for their type, and what is read at the head agrees with that.
LEMMA ParseIs ==
  ASSUME NEW b \in Seq(Octets), TypeIn(b) \in Types,
         Len(b) = TotalLength(RequestFields(TypeIn(b)))
  PROVE  LET fields == RequestFields(TypeIn(b))
             p == parseRequest(b)
         IN  /\ p \in [ARType[TypeIn(b)] -> Nat]
             /\ \A i \in 1..Len(fields) : p[fields[i].key] = FieldIn(b, fields, i)
             /\ p.attestationType = TypeIn(b)
             /\ getAttestationTypeAndSource(b) =
                  [attestationType |-> p.attestationType, sourceId |-> p.sourceId,
                   messageIntegrityCode |-> p.messageIntegrityCode]
PROOF
<1> DEFINE type == TypeIn(b)
           fields == RequestFields(type)
           keys == ARType[type]
           at(key) == CHOOSE i \in DOMAIN fields : fields[i].key = key
           p == parseRequest(b)
<1>1. FieldsAre(fields, keys)
  BY RequestFieldsAre
<1>2. /\ Bytes(fields, 0) = 0 /\ Bytes(fields, 1) = 2
      /\ Bytes(fields, 2) = 6 /\ Bytes(fields, 3) = 38
      /\ \A i \in 0..Len(fields) : Bytes(fields, i) \in Nat
      /\ \A i \in 1..Len(fields) :
           /\ fields[i].size \in Nat \ {0}
           /\ Bytes(fields, i) = Bytes(fields, i - 1) + fields[i].size
      /\ \A i \in 0..Len(fields) : Bytes(fields, i) <= TotalLength(fields)
      /\ TotalLength(fields) \in Nat /\ TotalLength(fields) >= 38
  <2> HIDE DEF fields, keys
  <2> QED BY <1>1, Places
<1>3. Len(b) = TotalLength(fields) /\ Defined(type)
  BY DefinitionOf
<1>4. p = [key \in Keys(fields) |-> FieldIn(b, fields, at(key))]
  <2>1. ~(Len(b) < 2 \/ ~Defined(type) \/ Len(b) # TotalLength(fields))
    BY <1>2, <1>3
  <2> QED BY <2>1 DEF parseRequest, TypeIn, FieldIn
<1>5. Keys(fields) = keys /\ DOMAIN fields = 1..Len(fields)
  BY <1>1 DEF FieldsAre
<1> HIDE DEF type, fields, keys, p
<1>6. ASSUME NEW i \in 1..Len(fields) PROVE at(fields[i].key) = i
  BY <1>1, <1>5 DEF FieldsAre
<1>7. ASSUME NEW i \in 1..Len(fields)
      PROVE  fields[i].key \in keys /\ p[fields[i].key] = FieldIn(b, fields, i)
  <2>1. fields[i].key \in Keys(fields)
    BY <1>5 DEF Keys
  <2> QED BY <1>4, <1>5, <1>6, <2>1
<1>8. ASSUME NEW i \in 1..Len(fields) PROVE FieldIn(b, fields, i) \in Nat
  <2> DEFINE x == Bytes(fields, i - 1)
             y == Bytes(fields, i)
  <2>1. i - 1 \in 0..Len(fields) /\ i \in 0..Len(fields)
    BY <1>1 DEF FieldsAre
  <2>2. x \in Nat /\ y \in Nat /\ y <= Len(b) /\ x <= y
    <3> DEFINE size == fields[i].size
    <3>1. x \in Nat /\ y \in Nat
      BY <1>2, <2>1
    <3>2. y = x + size /\ size \in Nat
      BY <1>2
    <3>3. y <= Len(b)
      BY <1>2, <1>3, <2>1
    <3> HIDE DEF x, y, size
    <3> QED BY <3>1, <3>2, <3>3
  <2> HIDE DEF x, y
  <2>3. SubSeq(b, x + 1, y) \in Seq(Octets)
    BY <2>2, Part
  <2> QED BY <2>3, NumberOf DEF FieldIn, x, y
<1>9. p \in [keys -> Nat]
  <2>1. ASSUME NEW key \in keys PROVE FieldIn(b, fields, at(key)) \in Nat
    <3>1. PICK i \in 1..Len(fields) : fields[i].key = key
      BY <1>5 DEF Keys
    <3>2. at(key) = i
      BY <1>6, <3>1
    <3> QED BY <1>8, <3>2
  <2> QED BY <1>4, <1>5, <2>1
<1>10. /\ 1 \in 1..Len(fields) /\ 2 \in 1..Len(fields) /\ 3 \in 1..Len(fields)
       /\ fields[1].key = "attestationType" /\ fields[2].key = "sourceId"
       /\ fields[3].key = "messageIntegrityCode"
  BY <1>1 DEF FieldsAre, Field
<1>11. /\ p.attestationType = fromUnprefixedBytes(SubSeq(b, 1, 2))
       /\ p.sourceId = fromUnprefixedBytes(SubSeq(b, 3, 6))
       /\ p.messageIntegrityCode = fromUnprefixedBytes(SubSeq(b, 7, 38))
  <2>1. /\ p.attestationType = FieldIn(b, fields, 1) /\ p.sourceId = FieldIn(b, fields, 2)
        /\ p.messageIntegrityCode = FieldIn(b, fields, 3)
    BY <1>7, <1>10
  <2>2. 1 - 1 = 0 /\ 2 - 1 = 1 /\ 3 - 1 = 2 /\ 0 + 1 = 1 /\ 2 + 1 = 3 /\ 6 + 1 = 7
    OBVIOUS
  <2> QED BY <1>2, <2>1, <2>2 DEF FieldIn
<1>12. getAttestationTypeAndSource(b) =
         [attestationType |-> p.attestationType, sourceId |-> p.sourceId,
          messageIntegrityCode |-> p.messageIntegrityCode]
  <2>1. Len(b) \in Nat /\ Len(b) >= 38 /\ ~(Len(b) < 5)
    BY <1>2, <1>3
  <2>2. /\ (IF 2 < Len(b) THEN 2 ELSE Len(b)) = 2
        /\ (IF 6 < Len(b) THEN 6 ELSE Len(b)) = 6
        /\ (IF 38 < Len(b) THEN 38 ELSE Len(b)) = 38
    BY <2>1
  <2> QED BY <1>11, <2>1, <2>2 DEF getAttestationTypeAndSource
<1> QED BY <1>7, <1>9, <1>11, <1>12 DEF type, fields, keys, p, TypeIn

\* Whatever parseRequest does not refuse is such bytes.
LEMMA ParsedIs ==
  ASSUME NEW b \in Seq(Octets), parseRequest(b) # Throws
  PROVE  TypeIn(b) \in Types /\ Len(b) = TotalLength(RequestFields(TypeIn(b)))
PROOF BY DefinitionOf DEF parseRequest, TypeIn

\* A request has what its definition asks for, and it fits.
CanEncode(r) ==
  \A i \in DOMAIN RequestFields(r.attestationType) :
    LET field == RequestFields(r.attestationType)[i]
    IN  field.key \in DOMAIN r /\ Fits(r[field.key], field.size)

\* Such a request can be encoded: each field is where parseRequest looks for it.
LEMMA EncodedFields ==
  ASSUME NEW r, r.attestationType \in Types, CanEncode(r),
         \A key \in ARType[r.attestationType] : r[key] \in Int
  PROVE  LET fields == RequestFields(r.attestationType)
             b == encodeRequest(r)
         IN  /\ b \in Seq(Octets)
             /\ TypeIn(b) = r.attestationType
             /\ Len(b) = TotalLength(fields)
             /\ \A i \in 1..Len(fields) :
                  /\ fields[i].key \in DOMAIN r
                  /\ r[fields[i].key] \in Nat
                  /\ Fits(r[fields[i].key], fields[i].size)
                  /\ FieldIn(b, fields, i) =
                       fromUnprefixedBytes(toUnprefixedBytes(r[fields[i].key], fields[i].size))
PROOF
<1> DEFINE type == r.attestationType
           fields == RequestFields(type)
           keys == ARType[type]
           b == encodeRequest(r)
           n == Len(fields)
           seqs == [i \in DOMAIN fields |->
                      toUnprefixedBytes(r[fields[i].key], fields[i].size)]
<1>1. FieldsAre(fields, keys)
  BY RequestFieldsAre
<1>2. /\ n \in Nat \ {0} /\ n > 3 /\ DOMAIN fields = 1..n /\ Keys(fields) = keys
      /\ \A i \in 1..n : fields[i].size \in Sizes
  BY <1>1 DEF FieldsAre
<1>3. /\ \A i \in DOMAIN fields :
           fields[i].key \in DOMAIN r /\ Fits(r[fields[i].key], fields[i].size)
      /\ b = FlattenSeq(seqs)
  <2>1. \A i \in DOMAIN fields :
          fields[i].key \in DOMAIN r /\ Fits(r[fields[i].key], fields[i].size)
    BY DEF CanEncode
  <2>2. Defined(type)
    BY DefinitionOf
  <2> QED BY <2>1, <2>2 DEF encodeRequest
<1> HIDE DEF fields, keys, b, n
<1>4. \A i \in 1..n : /\ fields[i].key \in DOMAIN r
                      /\ r[fields[i].key] \in Nat
                      /\ Fits(r[fields[i].key], fields[i].size)
  <2> SUFFICES ASSUME NEW i \in 1..n PROVE r[fields[i].key] \in Nat
    BY <1>2, <1>3
  <2>1. r[fields[i].key] \in Int
    BY <1>2 DEF Keys, keys
  <2>2. r[fields[i].key] >= 0
    BY <1>2, <1>3 DEF Fits
  <2> QED BY <2>1, <2>2
<1>5. /\ 1 \in 1..n /\ fields[1].key = "attestationType" /\ fields[1].size = 2
  BY <1>1 DEF FieldsAre, Field, n
<1>6. \A i \in 1..n : fields[i].size \in Nat
  BY <1>2 DEF Sizes
<1>7. /\ seqs \in Seq(Seq(Octets)) /\ Len(seqs) = n /\ DOMAIN seqs = 1..n
      /\ \A i \in 1..n : Len(seqs[i]) = fields[i].size
      /\ \A i \in 1..n : seqs[i] \in Seq(Octets) /\ DOMAIN seqs[i] = 1..fields[i].size
  <2>1. ASSUME NEW i \in 1..n
        PROVE  LET bytesOf == toUnprefixedBytes(r[fields[i].key], fields[i].size)
               IN  /\ bytesOf \in Seq(Octets) /\ Len(bytesOf) = fields[i].size
                   /\ DOMAIN bytesOf = 1..fields[i].size
    BY <1>4, <1>6, OctetsOf
  <2>2. /\ DOMAIN seqs = 1..n
        /\ \A i \in 1..n : seqs[i] = toUnprefixedBytes(r[fields[i].key], fields[i].size)
    BY <1>2
  <2>3. seqs = [i \in 1..n |-> seqs[i]]
    BY <1>2
  <2>4. \A i \in 1..n : seqs[i] \in Seq(Octets)
    BY <2>1, <2>2
  <2> HIDE DEF seqs
  <2>5. seqs \in Seq(Seq(Octets)) /\ Len(seqs) = n
    BY <1>2, <2>3, <2>4
  <2> QED BY <2>1, <2>2, <2>5
<1>8. \A i \in 1..n : seqs[i] = toUnprefixedBytes(r[fields[i].key], fields[i].size)
  BY <1>2
<1> HIDE DEF seqs
<1>9. /\ b \in Seq(Octets) /\ Len(b) = TotalLength(fields)
      /\ \A i \in 1..n :
           /\ Bytes(fields, i) <= TotalLength(fields)
           /\ \A j \in 1..fields[i].size : b[Bytes(fields, i - 1) + j] = seqs[i][j]
  <2>1. OctetsFor(fields, seqs)
    BY <1>2, <1>6, <1>7 DEF OctetsFor, n
  <2>2. InPlace(fields, seqs, b)
    BY <1>3, <2>1, Flattened
  <2>3. n = Len(fields)
    BY DEF n
  <2> QED BY <2>2, <2>3 DEF InPlace
<1>10. /\ Bytes(fields, 0) = 0 /\ Bytes(fields, 1) = 2
       /\ \A i \in 0..n : Bytes(fields, i) \in Nat
       /\ \A i \in 1..n : Bytes(fields, i) = Bytes(fields, i - 1) + fields[i].size
  BY <1>1, Places DEF n
<1>11. ASSUME NEW i \in 1..n
       PROVE  SubSeq(b, Bytes(fields, i - 1) + 1, Bytes(fields, i)) = seqs[i]
  <2> DEFINE p == Bytes(fields, i - 1)
             q == Bytes(fields, i)
             size == fields[i].size
             part == SubSeq(b, p + 1, q)
             s == seqs[i]
  <2>1. i - 1 \in 0..n /\ i \in 0..n
    BY <1>2
  <2>2. p \in Nat /\ q \in Nat /\ size \in Nat /\ q = p + size /\ q <= Len(b)
    BY <1>6, <1>9, <1>10, <2>1
  <2>3. s \in Seq(Octets) /\ Len(s) = size
    BY <1>7
  <2>4. \A j \in 1..size : b[p + j] = s[j]
    BY <1>9
  <2> HIDE DEF p, q, size, s
  <2>5. q - p = size /\ p <= q
    BY <2>2
  <2>6. part \in Seq(Octets) /\ Len(part) = size /\ \A j \in 1..size : part[j] = b[p + j]
    <3>1. b \in Seq(Octets)
      BY <1>9
    <3>2. /\ SubSeq(b, p + 1, q) \in Seq(Octets) /\ Len(SubSeq(b, p + 1, q)) = q - p
          /\ \A j \in 1..(q - p) : SubSeq(b, p + 1, q)[j] = b[p + j]
      BY <2>2, <2>5, <3>1, Part
    <3> QED BY <2>5, <3>2
  <2> HIDE DEF part
  <2>7. part = s
    BY <2>3, <2>4, <2>6, SameElements
  <2> QED BY <2>7 DEF part, p, q, s
<1>12. \A i \in 1..n : FieldIn(b, fields, i) =
            fromUnprefixedBytes(toUnprefixedBytes(r[fields[i].key], fields[i].size))
  BY <1>8, <1>11 DEF FieldIn
<1>13. TypeIn(b) = type
  <2>1. FieldIn(b, fields, 1) = TypeIn(b)
    <3>1. 1 - 1 = 0 /\ 0 + 1 = 1
      OBVIOUS
    <3> QED BY <1>10, <3>1 DEF FieldIn, TypeIn
  <2>2. FieldIn(b, fields, 1) = fromUnprefixedBytes(toUnprefixedBytes(type, 2))
    BY <1>5, <1>12
  <2>3. type \in Numbers
    BY SMT DEF Types, Numbers
  <2>4. Fits(type, 2)
    BY <1>4, <1>5
  <2> QED BY <2>1, <2>2, <2>3, <2>4, NumberSurvives
<1> QED BY <1>4, <1>9, <1>12, <1>13 DEF fields, b, n, type

\* Only such requests are encoded.
LEMMA EncodedIs ==
  ASSUME NEW r, r.attestationType \in Types
  PROVE  encodeRequest(r) # Throws => CanEncode(r)
PROOF BY DEF encodeRequest, CanEncode

\* The bytes of a request that is encoded.
LEMMA Encoded ==
  ASSUME NEW r, r.attestationType \in Types, encodeRequest(r) # Throws,
         \A key \in ARType[r.attestationType] : r[key] \in Int
  PROVE  LET fields == RequestFields(r.attestationType)
             b == encodeRequest(r)
         IN  /\ b \in Seq(Octets)
             /\ TypeIn(b) = r.attestationType
             /\ Len(b) = TotalLength(fields)
             /\ \A i \in 1..Len(fields) :
                  /\ fields[i].key \in DOMAIN r
                  /\ r[fields[i].key] \in Nat
                  /\ Fits(r[fields[i].key], fields[i].size)
                  /\ FieldIn(b, fields, i) =
                       fromUnprefixedBytes(toUnprefixedBytes(r[fields[i].key], fields[i].size))
PROOF BY EncodedIs, EncodedFields

\* A request that is encoded is parsed to the same fields; numbers below 2^31
\* come back as they are.
LEMMA EncodedParses ==
  ASSUME NEW r, r.attestationType \in Types, encodeRequest(r) # Throws,
         \A key \in ARType[r.attestationType] : r[key] \in Int
  PROVE  LET fields == RequestFields(r.attestationType)
             p == parseRequest(encodeRequest(r))
         IN  /\ p \in [ARType[r.attestationType] -> Nat]
             /\ p.attestationType = r.attestationType
             /\ \A i \in 1..Len(fields) :
                  p[fields[i].key] =
                    fromUnprefixedBytes(toUnprefixedBytes(r[fields[i].key], fields[i].size))
             /\ \A key \in ARType[r.attestationType] : r[key] \in Numbers => p[key] = r[key]
PROOF
<1> DEFINE type == r.attestationType
           fields == RequestFields(type)
           keys == ARType[type]
           b == encodeRequest(r)
           p == parseRequest(b)
<1>1. /\ b \in Seq(Octets) /\ TypeIn(b) = type /\ Len(b) = TotalLength(fields)
      /\ \A i \in 1..Len(fields) :
           /\ Fits(r[fields[i].key], fields[i].size)
           /\ FieldIn(b, fields, i) =
                fromUnprefixedBytes(toUnprefixedBytes(r[fields[i].key], fields[i].size))
  BY Encoded
<1>2. /\ p \in [keys -> Nat]
      /\ \A i \in 1..Len(fields) : p[fields[i].key] = FieldIn(b, fields, i)
      /\ p.attestationType = type
  BY <1>1, ParseIs
<1>3. /\ DOMAIN fields = 1..Len(fields) /\ Keys(fields) = keys
      /\ \A i \in 1..Len(fields) : fields[i].size \in Sizes
  BY RequestFieldsAre DEF FieldsAre
<1> HIDE DEF fields, keys, b, p
<1>4. ASSUME NEW key \in keys, r[key] \in Numbers PROVE p[key] = r[key]
  <2>1. PICK i \in 1..Len(fields) : fields[i].key = key
    BY <1>3 DEF Keys
  <2>2. fields[i].size \in {1, 2, 4, 16, 32} /\ Fits(r[key], fields[i].size)
    BY <1>1, <1>3, <2>1 DEF Sizes
  <2>3. p[key] = fromUnprefixedBytes(toUnprefixedBytes(r[key], fields[i].size))
    BY <1>1, <1>2, <2>1
  <2>4. r[key] \in Numbers
    BY <1>4
  <2> QED BY <2>2, <2>3, <2>4, NumberSurvives
<1> QED BY <1>1, <1>2, <1>4 DEF fields, keys, b, p

-----------------------------------------------------------------------------
(* Databases.                                                                *)

\* The blocks an indexer has saved.
Saved(v) == state[v].first..state[v].N

\* The chain is one of the given ones, and the indexers have saved its blocks one
\* after another; the tables hold some of them.
IndexersInv ==
  /\ chain \in Chains /\ source \in Sources
  /\ state \in [Verifiers -> [N : Nat, first : Nat \ {0}, active : 0..1,
                              tables : [0..1 -> SUBSET Nat]]]
  /\ \A v \in Verifiers :
       /\ state[v].first <= state[v].N + 1 /\ state[v].N <= Len(chain)
       /\ \A i \in 0..1 : state[v].tables[i] \subseteq Saved(v)

\* What the chain is.
LEMMA ChainIs ==
  ASSUME IndexersInv
  PROVE  /\ Len(chain) \in Nat /\ Len(chain) \in Numbers /\ Blocks = 1..Len(chain)
         /\ \A n \in Blocks : chain[n].timestamp \in Nat /\ chain[n].timestamp \in Numbers
         /\ \A n \in Blocks : chain[n].transactions \subseteq Transactions
         /\ \A m, n \in Blocks : m <= n => chain[m].timestamp <= chain[n].timestamp
         /\ \A m, n \in Blocks :
              \A tx \in chain[m].transactions, other \in chain[n].transactions :
                tx.id = other.id => m = n /\ tx = other
         /\ source \in {"XRP", "ALGO"} =>
              \A n \in Blocks : \A tx \in chain[n].transactions : PaysOneAddress(tx)
         /\ source \in DOMAIN SourceIds
PROOF
<1>1. chain \in Chains /\ source \in Sources
  BY DEF IndexersInv
<1>2. IsChainOfBlocks(chain)
  BY <1>1, VerificationAssumption
<1>3. /\ chain \in Seq([timestamp : Numbers, transactions : SUBSET Transactions])
      /\ Len(chain) \in Numbers
  BY <1>2 DEF IsChainOfBlocks
<1>4. Len(chain) \in Nat /\ Blocks = 1..Len(chain)
  BY <1>3 DEF Blocks
<1>5. \A n \in Blocks : chain[n] \in [timestamp : Numbers, transactions : SUBSET Transactions]
  <2> DEFINE T == [timestamp : Numbers, transactions : SUBSET Transactions]
  <2>1. chain \in Seq(T)
    BY <1>3
  <2> HIDE DEF T
  <2>2. \A n \in Blocks : chain[n] \in T
    BY <1>4, <2>1
  <2> QED BY <2>2 DEF T
<1>6. \A m, n \in Blocks : m <= n => chain[m].timestamp <= chain[n].timestamp
  <2> SUFFICES ASSUME NEW m \in Blocks, NEW n \in Blocks, m <= n
               PROVE  chain[m].timestamp <= chain[n].timestamp
    OBVIOUS
  <2>1. n \in m..Len(chain)
    BY <1>4
  <2> QED BY <1>2, <2>1 DEF IsChainOfBlocks, Blocks
<1>7. \A m, n \in Blocks :
        \A tx \in chain[m].transactions, other \in chain[n].transactions :
          tx.id = other.id => m = n /\ tx = other
  BY <1>2 DEF IsChainOfBlocks, Blocks
<1>8. source \in {"XRP", "ALGO"} =>
        \A n \in Blocks : \A tx \in chain[n].transactions : PaysOneAddress(tx)
  <2>1. Sources \cap {"XRP", "ALGO"} # {} =>
          \A c \in Chains : \A n \in DOMAIN c : \A tx \in c[n].transactions : PaysOneAddress(tx)
    BY VerificationAssumption
  <2> HAVE source \in {"XRP", "ALGO"}
  <2>2. Sources \cap {"XRP", "ALGO"} # {}
    BY <1>1
  <2>3. \A n \in DOMAIN chain : \A tx \in chain[n].transactions : PaysOneAddress(tx)
    BY <1>1, <2>1, <2>2
  <2> QED BY <2>3 DEF Blocks
<1>9. source \in DOMAIN SourceIds
  BY <1>1, VerificationAssumption
<1>10. \A n \in Blocks :
          /\ chain[n].timestamp \in Numbers /\ chain[n].timestamp \in Nat
          /\ chain[n].transactions \subseteq Transactions
  <2>1. Numbers \subseteq Nat
    BY SMT DEF Numbers
  <2> QED BY <1>5, <2>1
<1> QED BY <1>3, <1>4, <1>6, <1>7, <1>8, <1>9, <1>10

\* An indexer's numbers.
LEMMA IndexerIs ==
  ASSUME IndexersInv, NEW v \in Verifiers
  PROVE  /\ state[v].N \in Nat /\ state[v].first \in Nat \ {0}
         /\ state[v].active \in 0..1
         /\ state[v].first <= state[v].N + 1 /\ state[v].N <= Len(chain)
         /\ DOMAIN state[v].tables = 0..1
         /\ \A i \in 0..1 : state[v].tables[i] \subseteq Saved(v)
         /\ Saved(v) \subseteq Blocks /\ Saved(v) \subseteq Nat
PROOF
<1>1. state[v] \in [N : Nat, first : Nat \ {0}, active : 0..1, tables : [0..1 -> SUBSET Nat]]
  BY DEF IndexersInv
<1>2. /\ state[v].N \in Nat /\ state[v].first \in Nat \ {0} /\ state[v].active \in 0..1
      /\ DOMAIN state[v].tables = 0..1
  BY <1>1
<1>3. /\ state[v].first <= state[v].N + 1 /\ state[v].N <= Len(chain)
      /\ \A i \in 0..1 : state[v].tables[i] \subseteq Saved(v)
  BY DEF IndexersInv
<1>4. Saved(v) \subseteq Blocks /\ Saved(v) \subseteq Nat
  BY <1>2, <1>3, ChainIs DEF Saved
<1> QED BY <1>2, <1>3, <1>4

\* The lowest of rows.
LEMMA LowestIs ==
  ASSUME NEW rows, rows # {}, \A b \in rows : b.blockNumber \in Nat
  PROVE  /\ Lowest(rows) \in rows
         /\ \A c \in rows : Lowest(rows).blockNumber <= c.blockNumber
PROOF
<1> DEFINE S == {b.blockNumber : b \in rows}
<1>1. S \in SUBSET Nat /\ S # {}
  OBVIOUS
<1>2. PICK x \in S : \A y \in S : x <= y
  <2> HIDE DEF S
  <2> QED BY <1>1, Least
<1>3. \E b \in rows : \A c \in rows : b.blockNumber <= c.blockNumber
  BY <1>2
<1> QED BY <1>3 DEF Lowest

\* The highest of rows that are bounded.
LEMMA HighestIs ==
  ASSUME NEW rows, rows # {}, \A b \in rows : b.blockNumber \in Nat,
         NEW bound \in Nat, \A b \in rows : b.blockNumber <= bound
  PROVE  /\ Highest(rows) \in rows
         /\ \A c \in rows : Highest(rows).blockNumber >= c.blockNumber
PROOF
<1> DEFINE S == {b.blockNumber : b \in rows}
<1>1. S \in SUBSET Nat /\ S # {} /\ \A x \in S : x <= bound
  OBVIOUS
<1>2. PICK x \in S : \A y \in S : y <= x
  <2> HIDE DEF S
  <2> QED BY <1>1, Greatest
<1>3. \E b \in rows : \A c \in rows : b.blockNumber >= c.blockNumber
  <2>1. PICK b \in rows : b.blockNumber = x
    BY <1>2
  <2>2. \A c \in rows : c.blockNumber \in S /\ c.blockNumber \in Nat
    OBVIOUS
  <2>3. \A c \in rows : b.blockNumber >= c.blockNumber
    <3> SUFFICES ASSUME NEW c \in rows PROVE b.blockNumber >= c.blockNumber
      OBVIOUS
    <3>1. c.blockNumber <= b.blockNumber
      BY <1>2, <2>1, <2>2
    <3>2. b.blockNumber \in Nat /\ c.blockNumber \in Nat
      OBVIOUS
    <3> QED BY <3>1, <3>2
  <2> QED BY <2>1, <2>3
<1> QED BY <1>3 DEF Highest

\* Rows of blocks.
LEMMA RowIs ==
  ASSUME NEW n
  PROVE  /\ Row(n, TRUE).blockNumber = n
         /\ Row(n, TRUE).timestamp = chain[n].timestamp
         /\ Row(n, TRUE).confirmed = TRUE
PROOF BY DEF Row

\* A row is something.
LEMMA RowIsNotNone ==
  ASSUME IndexersInv, NEW n \in Blocks
  PROVE  Row(n, TRUE) # None
PROOF
<1>1. Row(n, TRUE) \in [blockNumber : Nat, timestamp : Nat, confirmed : BOOLEAN]
  BY ChainIs DEF Row
<1> QED BY <1>1, VerificationAssumption

\* The confirmed blocks of a database are those saved.
LEMMA ConfirmedRows ==
  ASSUME IndexersInv, NEW v \in Verifiers
  PROVE  Confirmed(Database(v)) = {Row(n, TRUE) : n \in Saved(v)}
PROOF
<1> DEFINE first == state[v].first
           N == state[v].N
           blocks == {Row(n, n <= N) : n \in first..Len(chain)} \cup Orphans
<1>1. Confirmed(Database(v)) = {b \in blocks : b.confirmed}
  BY DEF Confirmed, Database
<1>2. first \in Nat /\ N \in Nat /\ N <= Len(chain) /\ Len(chain) \in Nat
  BY IndexerIs, ChainIs
<1>3. \A b \in Orphans : b.confirmed = FALSE
  BY VerificationAssumption
<1>4. \A n : Row(n, n <= N).confirmed = (n <= N)
  BY DEF Row
<1> HIDE DEF first, N
<1>5. ASSUME NEW b \in blocks, b.confirmed PROVE b \in {Row(n, TRUE) : n \in first..N}
  <2>1. b \notin Orphans
    BY <1>3, <1>5
  <2>2. PICK n \in first..Len(chain) : b = Row(n, n <= N)
    BY <2>1
  <2>3. n <= N
    BY <1>4, <1>5, <2>2
  <2>4. (n <= N) = TRUE
    BY <2>3
  <2>5. n \in first..N
    BY <1>2, <2>3
  <2>6. b = Row(n, TRUE)
    BY <2>2, <2>4, Zenon
  <2> QED BY <2>5, <2>6
<1>6. ASSUME NEW n \in first..N PROVE Row(n, TRUE) \in blocks /\ Row(n, TRUE).confirmed
  <2>1. n \in first..Len(chain) /\ n <= N
    BY <1>2
  <2>2. (n <= N) = TRUE
    BY <2>1
  <2>3. Row(n, n <= N) \in blocks
    BY <2>1
  <2>4. Row(n, n <= N) = Row(n, TRUE)
    BY <2>2, Zenon
  <2> QED BY <2>3, <2>4, RowIs
<1> HIDE DEF blocks
<1>7. {b \in blocks : b.confirmed} = {Row(n, TRUE) : n \in first..N}
  BY <1>5, <1>6
<1> QED BY <1>1, <1>7 DEF Saved, first, N

\* A confirmed block, and its number and time.
LEMMA ConfirmedIs ==
  ASSUME IndexersInv, NEW v \in Verifiers
  PROVE  /\ \A b \in Confirmed(Database(v)) : \E n \in Saved(v) :
              b = Row(n, TRUE) /\ b.blockNumber = n /\ b.timestamp = chain[n].timestamp
         /\ \A n \in Saved(v) :
              /\ Row(n, TRUE) \in Confirmed(Database(v))
              /\ Row(n, TRUE).blockNumber = n /\ Row(n, TRUE).timestamp = chain[n].timestamp
PROOF
<1>1. ASSUME NEW b \in Confirmed(Database(v))
      PROVE  \E n \in Saved(v) :
               b = Row(n, TRUE) /\ b.blockNumber = n /\ b.timestamp = chain[n].timestamp
  <2>1. PICK n \in Saved(v) : b = Row(n, TRUE)
    BY ConfirmedRows
  <2>2. b.blockNumber = n /\ b.timestamp = chain[n].timestamp
    BY <2>1, RowIs
  <2> QED BY <2>1, <2>2
<1>2. ASSUME NEW n \in Saved(v)
      PROVE  /\ Row(n, TRUE) \in Confirmed(Database(v))
             /\ Row(n, TRUE).blockNumber = n /\ Row(n, TRUE).timestamp = chain[n].timestamp
  BY ConfirmedRows, RowIs
<1> QED BY <1>1, <1>2

\* Rows of transactions.
LEMMA TxRowIs ==
  ASSUME NEW n, NEW tx
  PROVE  /\ TxRow(n, tx).transactionId = tx.id /\ TxRow(n, tx).blockNumber = n
         /\ TxRow(n, tx).timestamp = chain[n].timestamp
         /\ TxRow(n, tx).paymentReference = tx.paymentReference
         /\ TxRow(n, tx).response = tx
PROOF BY DEF TxRow

\* The transaction tables of a database.
LEMMA TableRows ==
  ASSUME NEW v, NEW i \in 0..1
  PROVE  \A row : row \in Database(v).tables[i] <=>
           \E n \in state[v].tables[i] : \E tx \in chain[n].transactions : row = TxRow(n, tx)
PROOF
<1>1. Database(v).tables[i] =
        UNION {{TxRow(n, tx) : tx \in chain[n].transactions} : n \in state[v].tables[i]}
  BY DEF Database
<1> QED BY <1>1

\* queryBlock finds a block if it is saved.
LEMMA QueryBlock ==
  ASSUME IndexersInv, NEW v \in Verifiers, NEW k
  PROVE  \/ k = 0 /\ queryBlock(Database(v), k) = Throws
         \/ k \in Saved(v) /\ queryBlock(Database(v), k) = Row(k, TRUE)
         \/ k \notin Saved(v) /\ queryBlock(Database(v), k) = None
PROOF
<1> DEFINE rows == {b \in Confirmed(Database(v)) : b.blockNumber = k}
<1>1. queryBlock(Database(v), k) = IF k = 0 THEN Throws ELSE Lowest(rows)
  BY DEF queryBlock
<1>2. \A b \in Confirmed(Database(v)) : \E n \in Saved(v) : b = Row(n, TRUE) /\ b.blockNumber = n
  <2>1. ASSUME NEW b \in Confirmed(Database(v))
        PROVE  \E n \in Saved(v) :
                 b = Row(n, TRUE) /\ b.blockNumber = n /\ b.timestamp = chain[n].timestamp
    BY ConfirmedIs
  <2> QED BY <2>1
<1>3. CASE k = 0
  BY <1>1, <1>3
<1>4. CASE k # 0 /\ k \in Saved(v)
  <2>1. \A b \in rows : b = Row(k, TRUE)
    BY <1>2
  <2>2. Row(k, TRUE) \in rows
    BY <1>4, ConfirmedIs
  <2>3. k \in Nat
    BY <1>4, IndexerIs
  <2>4. \A b \in rows : b.blockNumber \in Nat
    BY <2>1, <2>3, RowIs
  <2> HIDE DEF rows
  <2>5. Lowest(rows) \in rows
    BY <2>2, <2>4, LowestIs
  <2> QED BY <1>1, <1>4, <2>1, <2>5
<1>5. CASE k # 0 /\ k \notin Saved(v)
  <2>1. rows = {}
    BY <1>2, <1>5
  <2>2. Lowest(rows) = None
    BY <2>1 DEF Lowest
  <2> HIDE DEF rows
  <2> QED BY <1>1, <1>5, <2>2
<1> QED BY <1>3, <1>4, <1>5

\* The last confirmed block before a time, and all after it are not.
LEMMA QueryBefore ==
  ASSUME IndexersInv, NEW v \in Verifiers, NEW time
  PROVE  \/ /\ getLastConfirmedBlockStrictlyBeforeTime(Database(v), time) = None
            /\ \A m \in Saved(v) : ~(chain[m].timestamp < time)
         \/ \E low \in Saved(v) :
              /\ getLastConfirmedBlockStrictlyBeforeTime(Database(v), time) = Row(low, TRUE)
              /\ chain[low].timestamp < time
              /\ \A m \in Saved(v) : m > low => ~(chain[m].timestamp < time)
PROOF
<1> DEFINE rows == {b \in Confirmed(Database(v)) : b.timestamp < time}
<1>1. getLastConfirmedBlockStrictlyBeforeTime(Database(v), time) = Highest(rows)
  BY DEF getLastConfirmedBlockStrictlyBeforeTime
<1>2. /\ \A b \in rows : \E n \in Saved(v) :
           /\ b = Row(n, TRUE) /\ b.blockNumber = n
           /\ chain[n].timestamp < time
      /\ \A n \in Saved(v) : chain[n].timestamp < time => Row(n, TRUE) \in rows
  <2>1. ASSUME NEW b \in rows
        PROVE  \E n \in Saved(v) :
                 /\ b = Row(n, TRUE) /\ b.blockNumber = n
                 /\ chain[n].timestamp < time
    BY ConfirmedIs
  <2>2. ASSUME NEW n \in Saved(v), chain[n].timestamp < time PROVE Row(n, TRUE) \in rows
    BY <2>2, ConfirmedIs
  <2> HIDE DEF rows
  <2> QED BY <2>1, <2>2
<1>3. Saved(v) \subseteq Nat /\ state[v].N \in Nat /\ \A n \in Saved(v) : n <= state[v].N
  BY IndexerIs DEF Saved
<1>4. \A b \in rows : b.blockNumber \in Nat /\ b.blockNumber <= state[v].N
  BY <1>2, <1>3, RowIs
<1> HIDE DEF rows
<1>5. CASE rows = {}
  <2>1. Highest(rows) = None
    BY <1>5 DEF Highest
  <2> QED BY <1>1, <1>2, <1>5, <2>1
<1>6. CASE rows # {}
  <2>1. Highest(rows) \in rows /\ \A c \in rows : Highest(rows).blockNumber >= c.blockNumber
    BY <1>3, <1>4, <1>6, HighestIs
  <2>2. PICK low \in Saved(v) : Highest(rows) = Row(low, TRUE) /\ chain[low].timestamp < time
    BY <1>2, <2>1
  <2>3. ASSUME NEW m \in Saved(v), m > low, chain[m].timestamp < time PROVE FALSE
    <3>1. Row(m, TRUE) \in rows
      BY <1>2, <2>3
    <3>2. low >= m
      BY <2>1, <2>2, <3>1, RowIs
    <3>3. low \in Nat /\ m \in Nat
      BY <1>3
    <3> QED BY <2>3, <3>2, <3>3
  <2> QED BY <1>1, <2>2, <2>3
<1> QED BY <1>5, <1>6

\* The first saved block after a deadline.
FirstAfter(v, o, time, number) ==
  /\ o \in Saved(v) /\ chain[o].timestamp > time /\ o > number
  /\ \A m \in Saved(v) : chain[m].timestamp > time /\ m > number => o <= m

\* getFirstConfirmedOverflowBlock finds it.
LEMMA QueryOverflow ==
  ASSUME IndexersInv, NEW v \in Verifiers, NEW time, NEW number
  PROVE  \/ getFirstConfirmedOverflowBlock(Database(v), time, number) = None
         \/ \E o : /\ FirstAfter(v, o, time, number)
                   /\ getFirstConfirmedOverflowBlock(Database(v), time, number) = Row(o, TRUE)
PROOF
<1> DEFINE rows == {b \in Confirmed(Database(v)) : b.timestamp > time /\ b.blockNumber > number}
<1>1. getFirstConfirmedOverflowBlock(Database(v), time, number) = Lowest(rows)
  BY DEF getFirstConfirmedOverflowBlock
<1>2. /\ \A b \in rows : \E n \in Saved(v) :
           /\ b = Row(n, TRUE) /\ b.blockNumber = n
           /\ chain[n].timestamp > time /\ n > number
      /\ \A n \in Saved(v) : chain[n].timestamp > time /\ n > number => Row(n, TRUE) \in rows
  <2>1. ASSUME NEW b \in rows
        PROVE  \E n \in Saved(v) :
                 /\ b = Row(n, TRUE) /\ b.blockNumber = n
                 /\ chain[n].timestamp > time /\ n > number
    <3>1. b \in Confirmed(Database(v)) /\ b.timestamp > time /\ b.blockNumber > number
      OBVIOUS
    <3>2. PICK n \in Saved(v) :
            b = Row(n, TRUE) /\ b.blockNumber = n /\ b.timestamp = chain[n].timestamp
      BY <3>1, ConfirmedIs
    <3> QED BY <3>1, <3>2
  <2>2. ASSUME NEW n \in Saved(v), chain[n].timestamp > time /\ n > number
        PROVE  Row(n, TRUE) \in rows
    BY <2>2, ConfirmedIs
  <2> HIDE DEF rows
  <2> QED BY <2>1, <2>2
<1>3. Saved(v) \subseteq Nat
  BY IndexerIs
<1>4. \A b \in rows : b.blockNumber \in Nat
  BY <1>2, <1>3, RowIs
<1> HIDE DEF rows
<1>5. CASE rows = {}
  BY <1>1, <1>5 DEF Lowest
<1>6. CASE rows # {}
  <2>1. Lowest(rows) \in rows /\ \A c \in rows : Lowest(rows).blockNumber <= c.blockNumber
    BY <1>4, <1>6, LowestIs
  <2>2. PICK o \in Saved(v) :
          Lowest(rows) = Row(o, TRUE) /\ chain[o].timestamp > time /\ o > number
    BY <1>2, <2>1
  <2>3. ASSUME NEW m \in Saved(v), chain[m].timestamp > time, m > number PROVE o <= m
    <3>1. Row(m, TRUE) \in rows
      BY <1>2, <2>3
    <3> QED BY <2>1, <2>2, <3>1, RowIs
  <2>4. FirstAfter(v, o, time, number)
    BY <2>2, <2>3 DEF FirstAfter
  <2> QED BY <1>1, <2>2, <2>4
<1> QED BY <1>5, <1>6

\* A request as it is parsed.
Request(p) == p.attestationType \in Types /\ p \in [ARType[p.attestationType] -> Nat]

\* The keys of a request of each type.
LEMMA RequestIs ==
  ASSUME NEW p, Request(p)
  PROVE  /\ p.attestationType \in Types /\ p.sourceId \in Nat
         /\ p.messageIntegrityCode \in Nat
         /\ p.attestationType \in {1, 2} => p.id \in Nat /\ p.blockNumber \in Nat
         /\ p.attestationType = 1 => p.inUtxo \in Nat /\ p.utxo \in Nat
         /\ p.attestationType = 2 => p.sourceAddressIndicator \in Nat
         /\ p.attestationType = 3 => p.blockNumber \in Nat /\ p.queryWindow \in Nat
         /\ p.attestationType = 4 =>
              /\ p.minimalBlockNumber \in Nat /\ p.deadlineBlockNumber \in Nat
              /\ p.deadlineTimestamp \in Nat /\ p.destinationAddressHash \in Nat
              /\ p.amount \in Nat /\ p.paymentReference \in Nat
PROOF
<1>1. p.attestationType \in 1..4 /\ p \in [ARType[p.attestationType] -> Nat]
  BY DEF Request, Types
<1>2. CASE p.attestationType = 1
  <2>1. p \in [ARPayment -> Nat]
    BY <1>1, <1>2 DEF ARType
  <2> QED BY <1>1, <1>2, <2>1 DEF ARPayment, ARBase, Types
<1>3. CASE p.attestationType = 2
  <2>1. p \in [ARBalanceDecreasingTransaction -> Nat]
    BY <1>1, <1>3 DEF ARType
  <2> QED BY <1>1, <1>3, <2>1 DEF ARBalanceDecreasingTransaction, ARBase, Types
<1>4. CASE p.attestationType = 3
  <2>1. p \in [ARConfirmedBlockHeightExists -> Nat]
    BY <1>1, <1>4 DEF ARType
  <2> QED BY <1>1, <1>4, <2>1 DEF ARConfirmedBlockHeightExists, ARBase, Types
<1>5. CASE p.attestationType = 4
  <2>1. p \in [ARReferencedPaymentNonexistence -> Nat]
    BY <1>1, <1>5 DEF ARType
  <2> QED BY <1>1, <1>5, <2>1 DEF ARReferencedPaymentNonexistence, ARBase, Types
<1> QED BY <1>1, <1>2, <1>3, <1>4, <1>5

\* What a verification looks for in the transaction tables.
Wanted(req, g, m, tx) ==
  IF req.attestationType = 4
  THEN /\ tx.paymentReference = req.paymentReference
       /\ req.minimalBlockNumber = 0 \/ m >= req.minimalBlockNumber
       /\ g.overflow.blockNumber - 1 = 0 \/ m <= g.overflow.blockNumber - 1
  ELSE tx.id = req.id

\* The statements for the tables find it in the table.
LEMMA QueryTransactions ==
  ASSUME NEW v, NEW i \in 0..1, NEW req, Request(req), req.attestationType # 3, NEW g,
         req.attestationType = 4 => g.overflow.blockNumber - 1 \in Nat
  PROVE  \A row :
           row \in TransactionsIn(Database(v), i, TransactionQueryParams(req, g)) <=>
           \E m \in state[v].tables[i] : \E tx \in chain[m].transactions :
             row = TxRow(m, tx) /\ Wanted(req, g, m, tx)
PROOF
<1> DEFINE params == TransactionQueryParams(req, g)
           Passes(row) ==
             /\ params.startBlockNumber \in {None, 0} \/ row.blockNumber >= params.startBlockNumber
             /\ params.endBlockNumber \in {None, 0} \/ row.blockNumber <= params.endBlockNumber
             /\ params.paymentReference = None \/ row.paymentReference = params.paymentReference
             /\ params.transactionId = None \/ row.transactionId = params.transactionId
<1>1. TransactionsIn(Database(v), i, params) = {row \in Database(v).tables[i] : Passes(row)}
  BY DEF TransactionsIn
<1>2. None \notin Nat
  BY VerificationAssumption
<1>3. ASSUME NEW m, NEW tx PROVE Passes(TxRow(m, tx)) <=> Wanted(req, g, m, tx)
  <2>1. /\ TxRow(m, tx).transactionId = tx.id /\ TxRow(m, tx).blockNumber = m
        /\ TxRow(m, tx).paymentReference = tx.paymentReference
    BY TxRowIs
  <2>2. CASE req.attestationType = 4
    <3>1. /\ params.startBlockNumber = req.minimalBlockNumber
          /\ params.endBlockNumber = g.overflow.blockNumber - 1
          /\ params.paymentReference = req.paymentReference /\ params.transactionId = None
      BY <2>2 DEF TransactionQueryParams, AttestationType
    <3>2. /\ req.minimalBlockNumber # None /\ g.overflow.blockNumber - 1 # None
          /\ req.paymentReference # None
      BY <1>2, <2>2, RequestIs
    <3> HIDE DEF params
    <3> QED BY <2>1, <2>2, <3>1, <3>2 DEF Wanted
  <2>3. CASE req.attestationType # 4
    <3>1. /\ params.startBlockNumber = None /\ params.endBlockNumber = None
          /\ params.paymentReference = None /\ params.transactionId = req.id
      BY <2>3 DEF TransactionQueryParams, AttestationType
    <3>2. req.id # None
      <4>1. req.attestationType \in {1, 2}
        BY <2>3, RequestIs DEF Types
      <4> QED BY <1>2, <4>1, RequestIs
    <3> HIDE DEF params
    <3> QED BY <2>1, <2>3, <3>1, <3>2 DEF Wanted
  <2> QED BY <2>2, <2>3
<1> HIDE DEF Passes
<1>4. \A row : row \in Database(v).tables[i] <=>
         \E m \in state[v].tables[i] : \E tx \in chain[m].transactions : row = TxRow(m, tx)
  BY TableRows
<1>5. ASSUME NEW row
      PROVE  row \in {x \in Database(v).tables[i] : Passes(x)} <=>
             \E m \in state[v].tables[i] : \E tx \in chain[m].transactions :
               row = TxRow(m, tx) /\ Wanted(req, g, m, tx)
  BY <1>3, <1>4
<1> QED BY <1>1, <1>5

-----------------------------------------------------------------------------
(* The indexers move.                                                        *)

\* What the databases show of a move: blocks are saved, one after another, and
\* transactions of saved blocks may go.
Moved ==
  /\ chain' = chain /\ source' = source
  /\ \A w \in Verifiers :
       /\ state'[w].first = state[w].first /\ state'[w].N >= state[w].N
       /\ \A i \in 0..1 : \A m \in state'[w].tables[i] :
            m \in state[w].tables[i] \/ m > state[w].N

\* The moves of an indexer are such, and those of one leave the other alone.
LEMMA IndexersMove ==
  ASSUME IndexersInv, NEW v \in Verifiers, SaveBlock(v) \/ DropTable(v)
  PROVE  /\ IndexersInv' /\ Moved
         /\ \A w \in Verifiers : w # v => state'[w] = state[w]
PROOF
<1> DEFINE Indexer == [N : Nat, first : Nat \ {0}, active : 0..1, tables : [0..1 -> SUBSET Nat]]
           s == state[v]
           a == state[v].active
<1>1. chain' = chain /\ source' = source
  BY DEF SaveBlock, DropTable
<1>2. /\ s.N \in Nat /\ s.first \in Nat \ {0} /\ a \in 0..1 /\ s.first <= s.N + 1
      /\ DOMAIN s.tables = 0..1 /\ s.N <= Len(chain) /\ Len(chain) \in Nat
      /\ \A i \in 0..1 : s.tables[i] \subseteq s.first..s.N
  BY IndexerIs, ChainIs DEF Saved
<1>3. state \in [Verifiers -> Indexer] /\ s \in Indexer
  BY DEF IndexersInv
<1>4. /\ state'[v] \in Indexer /\ state'[v].first = s.first
      /\ state'[v].N >= s.N /\ state'[v].N <= Len(chain)
      /\ \A i \in 0..1 : \A m \in state'[v].tables[i] :
           /\ m \in s.tables[i] \/ m > s.N
           /\ m \in s.first..state'[v].N
      /\ state' = [w \in Verifiers |-> IF w = v THEN state'[v] ELSE state[w]]
  <2>1. CASE SaveBlock(v)
    <3> DEFINE tables == [s.tables EXCEPT ![a] = @ \cup {s.N + 1}]
               grown == [s EXCEPT !.N = @ + 1]
               new == [grown EXCEPT !.tables = tables]
    <3>1. state' = [state EXCEPT ![v] = new] /\ s.N < Len(chain)
      BY <1>3, <2>1 DEF SaveBlock
    <3>2. tables \in [0..1 -> SUBSET Nat]
      BY <1>2, <1>3
    <3>3. \A i \in 0..1 : \A m \in tables[i] : m \in s.tables[i] \/ m = s.N + 1
      BY <1>2, <1>3
    <3> HIDE DEF tables
    <3>4. /\ new \in Indexer /\ new.first = s.first /\ new.N = s.N + 1
          /\ new.tables = tables
      <4>1. grown \in Indexer /\ grown.first = s.first /\ grown.N = s.N + 1
        BY <1>2, <1>3
      <4> HIDE DEF grown
      <4> QED BY <3>2, <4>1
    <3> HIDE DEF new
    <3>5. state'[v] = new /\ state' = [w \in Verifiers |-> IF w = v THEN new ELSE state[w]]
      BY <1>3, <3>1
    <3>6. \A i \in 0..1 : \A m \in new.tables[i] :
             (m \in s.tables[i] \/ m > s.N) /\ m \in s.first..new.N
      BY <1>2, <3>3, <3>4
    <3>7. new.N \in Nat /\ new.N >= s.N /\ new.N <= Len(chain)
      BY <1>2, <3>1, <3>4
    <3> HIDE DEF s, Indexer
    <3> QED BY <3>4, <3>5, <3>6, <3>7
  <2>2. CASE DropTable(v)
    <3> DEFINE tables == [s.tables EXCEPT ![1 - a] = {}]
               turned == [s EXCEPT !.active = 1 - @]
               new == [turned EXCEPT !.tables = tables]
    <3>1. state' = [state EXCEPT ![v] = new]
      BY <1>3, <2>2 DEF DropTable
    <3>2. tables \in [0..1 -> SUBSET Nat]
      BY <1>2, <1>3
    <3>3. \A i \in 0..1 : \A m \in tables[i] : m \in s.tables[i]
      BY <1>2, <1>3
    <3> HIDE DEF tables
    <3>4. /\ new \in Indexer /\ new.first = s.first /\ new.N = s.N /\ new.tables = tables
      <4>1. turned \in Indexer /\ turned.first = s.first /\ turned.N = s.N
        BY <1>2, <1>3
      <4> HIDE DEF turned
      <4> QED BY <3>2, <4>1
    <3> HIDE DEF new
    <3>5. state'[v] = new /\ state' = [w \in Verifiers |-> IF w = v THEN new ELSE state[w]]
      BY <1>3, <3>1
    <3>6. \A i \in 0..1 : \A m \in new.tables[i] :
             (m \in s.tables[i] \/ m > s.N) /\ m \in s.first..new.N
      BY <1>2, <3>3, <3>4
    <3> HIDE DEF s, Indexer
    <3> QED BY <1>2, <3>4, <3>5, <3>6
  <2> QED BY <2>1, <2>2
<1> HIDE DEF Indexer
<1>5. state' \in [Verifiers -> Indexer]
  BY <1>3, <1>4
<1>6. ASSUME NEW w \in Verifiers, w # v PROVE state'[w] = state[w]
  BY <1>4, <1>6
<1>7. Moved
  <2> SUFFICES ASSUME NEW w \in Verifiers
               PROVE  /\ state'[w].first = state[w].first /\ state'[w].N >= state[w].N
                      /\ \A i \in 0..1 : \A m \in state'[w].tables[i] :
                           m \in state[w].tables[i] \/ m > state[w].N
    BY <1>1 DEF Moved
  <2>1. CASE w = v
    BY <1>4, <2>1
  <2>2. CASE w # v
    <3>1. state'[w] = state[w]
      BY <1>6, <2>2
    <3>2. state[w].N \in Nat
      BY IndexerIs
    <3> QED BY <3>1, <3>2
  <2> QED BY <2>1, <2>2
<1>8. \A w \in Verifiers :
         /\ state'[w].first <= state'[w].N + 1 /\ state'[w].N <= Len(chain)
         /\ \A i \in 0..1 : state'[w].tables[i] \subseteq state'[w].first..state'[w].N
  <2> SUFFICES ASSUME NEW w \in Verifiers
               PROVE  /\ state'[w].first <= state'[w].N + 1 /\ state'[w].N <= Len(chain)
                      /\ \A i \in 0..1 : state'[w].tables[i] \subseteq state'[w].first..state'[w].N
    OBVIOUS
  <2>1. CASE w = v
    <3>1. state'[v].N \in Nat
      BY <1>4 DEF Indexer
    <3> QED BY <1>2, <1>4, <2>1, <3>1
  <2>2. CASE w # v
    <3>1. state'[w] = state[w]
      BY <1>6, <2>2
    <3> QED BY <3>1, IndexerIs DEF Saved
  <2> QED BY <2>1, <2>2
<1>9. IndexersInv'
  <2>1. chain \in Chains /\ source \in Sources
    BY DEF IndexersInv
  <2> QED BY <1>1, <1>5, <1>8, <2>1 DEF IndexersInv, Saved, Indexer
<1> QED BY <1>6, <1>7, <1>9

-----------------------------------------------------------------------------
(* What has been read.                                                       *)

Slots == {"block", "lower", "overflow", "table0", "table1", "start", "end"}

\* What is left of a sequence of statements.
Suffix(t, s) ==
  t \in Seq(Slots) /\ Len(t) <= Len(s) /\ \A i \in 1..Len(t) : t[i] = s[Len(s) - Len(t) + i]

\* The block up to which the transactions matter.
Limit(req, g) ==
  IF req.attestationType = 4 THEN g.overflow.blockNumber - 1 ELSE req.blockNumber

\* Rows of transactions that are wanted.
FromTables(rows) ==
  \A row \in rows : \E m \in Saved(who) : \E tx \in chain[m].transactions :
    row = TxRow(m, tx) /\ Wanted(parsed, got, m, tx)

\* All those of a table are there, up to the limit.
AllWanted(i, rows) ==
  \A m \in state[who].tables[i] : \A tx \in chain[m].transactions :
    m <= Limit(parsed, got) /\ Wanted(parsed, got, m, tx) => TxRow(m, tx) \in rows

\* The tables are read, the first one when k statements are left.
TablesRead(k) ==
  /\ Limit(parsed, got) \in Nat /\ Limit(parsed, got) <= state[who].N
  /\ Len(todo) <= k => AllWanted(0, got.table0)
  /\ Len(todo) < k => AllWanted(1, got.table1)

\* What is read for the block asked for.
BlockRead ==
  \/ got.block = None
  \/ parsed.blockNumber \in Saved(who) /\ got.block = Row(parsed.blockNumber, TRUE)

\* The last block before a time.
LastBefore(low, time) ==
  chain[low].timestamp < time /\ \A m \in Blocks : m > low => chain[m].timestamp >= time

\* The time from which the blocks of a window are.
WindowStart(req) == chain[req.blockNumber].timestamp - req.queryWindow

\* What is read for a payment or a decreased balance.
TransactionRead ==
  /\ Suffix(todo, <<"block", "table0", "table1">>)
  /\ BlockRead
  /\ FromTables(got.table0) /\ FromTables(got.table1)
  /\ Len(todo) \in 1..2 => got.block # None
  /\ got.block # None => TablesRead(1)

\* What is read for a block height.
HeightRead ==
  /\ Suffix(todo, <<"block", "lower">>)
  /\ BlockRead
  /\ Len(todo) = 1 => got.block # None
  /\ got.lower # None =>
       /\ got.block # None
       /\ \E low \in Saved(who) : got.lower = Row(low, TRUE) /\ LastBefore(low, WindowStart(parsed))

\* What is read for a payment that was not made.
NonexistenceRead ==
  IF parsed.paymentReference = 0 THEN todo = <<>>
  ELSE
    /\ Suffix(todo, <<"overflow", "table0", "table1", "start", "end">>)
    /\ FromTables(got.table0) /\ FromTables(got.table1)
    /\ Len(todo) = 5 => got.table0 = {} /\ got.table1 = {}
    /\ Len(todo) \in 1..4 => got.overflow # None
    /\ got.overflow # None =>
         /\ \E o : /\ FirstAfter(who, o, parsed.deadlineTimestamp, parsed.deadlineBlockNumber)
                   /\ got.overflow = Row(o, TRUE)
         /\ TablesRead(3)
    /\ got.start # None =>
         /\ parsed.minimalBlockNumber \in Saved(who)
         /\ got.start = Row(parsed.minimalBlockNumber, TRUE)

GoodRead ==
  /\ parsed.attestationType \in {1, 2} => TransactionRead
  /\ parsed.attestationType = 3 => HeightRead
  /\ parsed.attestationType = 4 => NonexistenceRead

DeadRead == todo = <<>> /\ \E s \in DOMAIN got : got[s] = Throws

\* What a verifier has read, whatever the indexer did meanwhile.
ReadInv ==
  pc = "read" =>
    /\ Request(parsed)
    /\ got = [s \in Slots |-> got[s]]
    /\ origin = "random" /\ who = 1 => parsed.sourceId = SourceIds[source]
    /\ DeadRead \/ GoodRead

\* Rows that were found stay what they are.
LEMMA SavedStay ==
  ASSUME IndexersInv, IndexersInv', NEW v \in Verifiers, Moved
  PROVE  /\ Saved(v) \subseteq Saved(v)' /\ Blocks' = Blocks /\ chain' = chain
         /\ \A n : Row(n, TRUE)' = Row(n, TRUE)
         /\ \A n, tx : TxRow(n, tx)' = TxRow(n, tx)
         /\ state[v].N \in Nat /\ state'[v].N \in Nat /\ state[v].N <= state'[v].N
         /\ \A m \in Saved(v)' : m \in Saved(v) \/ (m \in Nat /\ m > state[v].N)
PROOF
<1>1. state'[v].first = state[v].first /\ state'[v].N >= state[v].N /\ chain' = chain
  BY DEF Moved
<1>2. state[v].N \in Nat /\ state[v].first \in Nat
  BY IndexerIs
<1>3. state'[v].N \in Nat
  <2>1. state' \in [Verifiers -> [N : Nat, first : Nat \ {0}, active : 0..1,
                                  tables : [0..1 -> SUBSET Nat]]]
    BY DEF IndexersInv
  <2> QED BY <2>1
<1>4. Saved(v)' = state'[v].first..state'[v].N
  BY DEF Saved
<1>5. /\ Saved(v) \subseteq Saved(v)'
      /\ \A m \in Saved(v)' : m \in Saved(v) \/ (m \in Nat /\ m > state[v].N)
  BY <1>1, <1>2, <1>3, <1>4 DEF Saved
<1>6. Blocks' = Blocks
  BY <1>1 DEF Blocks
<1>7. \A n : Row(n, TRUE)' = Row(n, TRUE)
  BY <1>1 DEF Row
<1>8. \A n, tx : TxRow(n, tx)' = TxRow(n, tx)
  BY <1>1 DEF TxRow
<1> QED BY <1>1, <1>2, <1>3, <1>5, <1>6, <1>7, <1>8

\* So do the rows of wanted transactions, and the tables do not get more of them.
LEMMA TablesStay ==
  ASSUME IndexersInv, IndexersInv', who \in Verifiers, Moved,
         UNCHANGED <<who, parsed, todo, got>>
  PROVE  /\ FromTables(got.table0) => FromTables(got.table0)'
         /\ FromTables(got.table1) => FromTables(got.table1)'
         /\ \A k : TablesRead(k) => TablesRead(k)'
PROOF
<1>1. /\ Saved(who) \subseteq Saved(who)' /\ chain' = chain
      /\ \A n, tx : TxRow(n, tx)' = TxRow(n, tx)
      /\ state[who].N \in Nat /\ state'[who].N \in Nat /\ state[who].N <= state'[who].N
  BY SavedStay
<1>2. \A m, tx : Wanted(parsed, got, m, tx)' = Wanted(parsed, got, m, tx)
  BY DEF Wanted
<1>3. Limit(parsed, got)' = Limit(parsed, got)
  BY DEF Limit
<1>4. ASSUME NEW rows, NEW row \in rows, NEW m \in Saved(who), NEW tx \in chain[m].transactions,
             row = TxRow(m, tx) /\ Wanted(parsed, got, m, tx)
      PROVE  \E n \in Saved(who)' : \E u \in chain'[n].transactions :
               row = TxRow(n, u)' /\ Wanted(parsed, got, n, u)'
  <2>1. m \in Saved(who)' /\ tx \in chain'[m].transactions
    BY <1>1
  <2>2. row = TxRow(m, tx)' /\ Wanted(parsed, got, m, tx)'
    BY <1>1, <1>2, <1>4
  <2> QED BY <2>1, <2>2
<1>5. Saved(who)' = state'[who].first..state'[who].N
  BY DEF Saved
<1>6. FromTables(got.table0) => FromTables(got.table0)'
  <2> SUFFICES ASSUME FromTables(got.table0), NEW row \in got.table0
               PROVE  \E n \in Saved(who)' : \E u \in chain'[n].transactions :
                        row = TxRow(n, u)' /\ Wanted(parsed, got, n, u)'
    BY <1>5 DEF FromTables, Saved
  <2>1. PICK m \in Saved(who) : \E tx \in chain[m].transactions :
          row = TxRow(m, tx) /\ Wanted(parsed, got, m, tx)
    BY DEF FromTables
  <2> QED BY <1>4, <2>1
<1>7. FromTables(got.table1) => FromTables(got.table1)'
  <2> SUFFICES ASSUME FromTables(got.table1), NEW row \in got.table1
               PROVE  \E n \in Saved(who)' : \E u \in chain'[n].transactions :
                        row = TxRow(n, u)' /\ Wanted(parsed, got, n, u)'
    BY <1>5 DEF FromTables, Saved
  <2>1. PICK m \in Saved(who) : \E tx \in chain[m].transactions :
          row = TxRow(m, tx) /\ Wanted(parsed, got, m, tx)
    BY DEF FromTables
  <2> QED BY <1>4, <2>1
<1>8. ASSUME Limit(parsed, got) \in Nat, Limit(parsed, got) <= state[who].N,
             NEW i \in 0..1, NEW rows, AllWanted(i, rows),
             NEW m \in state'[who].tables[i], NEW tx \in chain'[m].transactions,
             m <= Limit(parsed, got) /\ Wanted(parsed, got, m, tx)
      PROVE  TxRow(m, tx) \in rows
  <2>1. m \in state[who].tables[i] \/ m > state[who].N
    BY DEF Moved
  <2>2. m \in Nat
    <3>1. state'[who].tables[i] \subseteq Saved(who)'
      BY DEF IndexersInv
    <3>2. Saved(who) \subseteq Nat
      BY IndexerIs
    <3>3. m \in Saved(who) \/ m \in Nat
      BY <3>1, SavedStay
    <3> QED BY <3>2, <3>3
  <2>3. m \in state[who].tables[i]
    BY <1>1, <1>8, <2>1, <2>2
  <2>4. tx \in chain[m].transactions
    BY <1>1
  <2> QED BY <1>8, <2>3, <2>4 DEF AllWanted
<1>9. ASSUME NEW k, TablesRead(k) PROVE TablesRead(k)'
  <2>1. Limit(parsed, got) \in Nat /\ Limit(parsed, got) <= state[who].N
    BY <1>9 DEF TablesRead
  <2>2. (Limit(parsed, got) \in Nat /\ Limit(parsed, got) <= state[who].N)'
    BY <1>1, <1>3, <2>1
  <2>3. Len(todo)' = Len(todo)
    OBVIOUS
  <2>4. ASSUME Len(todo) <= k PROVE AllWanted(0, got.table0)'
    <3>1. AllWanted(0, got.table0)
      BY <1>9, <2>4 DEF TablesRead
    <3>2. \A m \in state'[who].tables[0] : \A tx \in chain'[m].transactions :
             m <= Limit(parsed, got) /\ Wanted(parsed, got, m, tx) => TxRow(m, tx) \in got.table0
      BY <1>8, <2>1, <3>1
    <3> QED BY <1>1, <1>2, <1>3, <3>2 DEF AllWanted
  <2>5. ASSUME Len(todo) < k PROVE AllWanted(1, got.table1)'
    <3>1. AllWanted(1, got.table1)
      BY <1>9, <2>5 DEF TablesRead
    <3>2. \A m \in state'[who].tables[1] : \A tx \in chain'[m].transactions :
             m <= Limit(parsed, got) /\ Wanted(parsed, got, m, tx) => TxRow(m, tx) \in got.table1
      BY <1>8, <2>1, <3>1
    <3> QED BY <1>1, <1>2, <1>3, <3>2 DEF AllWanted
  <2> QED BY <2>2, <2>3, <2>4, <2>5 DEF TablesRead
<1> QED BY <1>6, <1>7, <1>9

\* The block that was found stays.
LEMMA BlockStays ==
  ASSUME IndexersInv, IndexersInv', who \in Verifiers, Moved,
         UNCHANGED <<who, parsed, todo, got>>, BlockRead
  PROVE  BlockRead'
PROOF
<1>1. Saved(who) \subseteq Saved(who)' /\ \A n : Row(n, TRUE)' = Row(n, TRUE)
  BY SavedStay
<1>2. Saved(who)' = state'[who].first..state'[who].N
  BY DEF Saved
<1>3. CASE got.block = None
  BY <1>3 DEF BlockRead
<1>4. CASE got.block # None
  <2>1. parsed.blockNumber \in Saved(who) /\ got.block = Row(parsed.blockNumber, TRUE)
    BY <1>4 DEF BlockRead
  <2>2. parsed'.blockNumber \in Saved(who)' /\ got'.block = Row(parsed.blockNumber, TRUE)'
    BY <1>1, <2>1
  <2> QED BY <2>2 DEF BlockRead
<1> QED BY <1>3, <1>4

\* The first block after a deadline stays the first.
LEMMA FirstAfterStays ==
  ASSUME IndexersInv, IndexersInv', NEW v \in Verifiers, Moved,
         NEW o, NEW time, NEW number, FirstAfter(v, o, time, number)
  PROVE  FirstAfter(v, o, time, number)'
PROOF
<1>1. /\ o \in Saved(v) /\ chain[o].timestamp > time /\ o > number
      /\ \A m \in Saved(v) : chain[m].timestamp > time /\ m > number => o <= m
  BY DEF FirstAfter
<1>2. /\ Saved(v) \subseteq Saved(v)' /\ chain' = chain /\ state[v].N \in Nat
      /\ \A m \in Saved(v)' : m \in Saved(v) \/ (m \in Nat /\ m > state[v].N)
  BY SavedStay
<1>3. o \in Nat /\ o <= state[v].N
  BY <1>1, IndexerIs DEF Saved
<1>4. ASSUME NEW m \in Saved(v)', chain[m].timestamp > time /\ m > number PROVE o <= m
  <2>1. CASE m \in Saved(v)
    BY <1>1, <1>4, <2>1
  <2>2. CASE m \in Nat /\ m > state[v].N
    BY <1>2, <1>3, <2>2
  <2> QED BY <1>2, <2>1, <2>2
<1>5. o \in Saved(v)' /\ chain'[o].timestamp > time
  BY <1>1, <1>2
<1>6. \A m \in Saved(v)' : chain'[m].timestamp > time /\ m > number => o <= m
  BY <1>2, <1>4
<1> QED BY <1>1, <1>5, <1>6 DEF FirstAfter

\* What was read stays good while the indexer moves.
LEMMA GoodStays ==
  ASSUME IndexersInv, IndexersInv', who \in Verifiers, Moved,
         UNCHANGED <<who, parsed, todo, got>>, GoodRead
  PROVE  GoodRead'
PROOF
<1>1. /\ FromTables(got.table0) => FromTables(got.table0)'
      /\ FromTables(got.table1) => FromTables(got.table1)'
      /\ \A k : TablesRead(k) => TablesRead(k)'
  BY TablesStay
<1>2. BlockRead => BlockRead'
  BY BlockStays
<1>3. \A s : Suffix(todo, s) => Suffix(todo, s)'
  BY DEF Suffix
<1>4. /\ Saved(who) \subseteq Saved(who)' /\ chain' = chain /\ Blocks' = Blocks
      /\ \A n : Row(n, TRUE)' = Row(n, TRUE)
  BY SavedStay
<1>5. Saved(who)' = state'[who].first..state'[who].N
  BY DEF Saved
<1>6. ASSUME TransactionRead PROVE TransactionRead'
  <2>1. TablesRead(1) => TablesRead(1)'
    BY <1>1
  <2>2. Suffix(todo, <<"block", "table0", "table1">>)'
    BY <1>3, <1>6 DEF TransactionRead
  <2>3. BlockRead' /\ FromTables(got.table0)' /\ FromTables(got.table1)'
    BY <1>1, <1>2, <1>6 DEF TransactionRead
  <2>4. (Len(todo) \in 1..2 => got.block # None) /\ (got.block # None => TablesRead(1))
    BY <1>6 DEF TransactionRead
  <2>5. Len(todo)' = Len(todo) /\ got'.block = got.block
    OBVIOUS
  <2> QED BY <2>1, <2>2, <2>3, <2>4, <2>5 DEF TransactionRead
<1>7. ASSUME HeightRead PROVE HeightRead'
  <2>1. Suffix(todo, <<"block", "lower">>)' /\ BlockRead'
    BY <1>2, <1>3, <1>7 DEF HeightRead
  <2>2. ASSUME got.lower # None
        PROVE  /\ got.block # None
               /\ \E low \in Saved(who)' :
                    got.lower = Row(low, TRUE)' /\ LastBefore(low, WindowStart(parsed))'
    <3>1. PICK low \in Saved(who) :
            got.lower = Row(low, TRUE) /\ LastBefore(low, WindowStart(parsed))
      BY <1>7, <2>2 DEF HeightRead
    <3>2. LastBefore(low, WindowStart(parsed))'
      BY <1>4, <3>1 DEF LastBefore, WindowStart
    <3>3. low \in Saved(who)' /\ got.lower = Row(low, TRUE)'
      BY <1>4, <3>1
    <3>4. got.block # None
      BY <1>7, <2>2 DEF HeightRead
    <3> QED BY <3>2, <3>3, <3>4
  <2>3. Len(todo)' = 1 => got'.block # None
    BY <1>7 DEF HeightRead
  <2> QED BY <1>5, <2>1, <2>2, <2>3 DEF HeightRead, Saved
<1>8. ASSUME NonexistenceRead PROVE NonexistenceRead'
  <2>1. CASE parsed.paymentReference = 0
    BY <1>8, <2>1 DEF NonexistenceRead
  <2>2. CASE parsed.paymentReference # 0
    <3>1. /\ Suffix(todo, <<"overflow", "table0", "table1", "start", "end">>)'
          /\ FromTables(got.table0)' /\ FromTables(got.table1)'
      BY <1>1, <1>3, <1>8, <2>2 DEF NonexistenceRead
    <3>2. /\ Len(todo)' \in 1..4 => got'.overflow # None
          /\ Len(todo)' = 5 => got'.table0 = {} /\ got'.table1 = {}
      BY <1>8, <2>2 DEF NonexistenceRead
    <3>3. ASSUME got.overflow # None
          PROVE  /\ \E o : /\ FirstAfter(who, o, parsed.deadlineTimestamp,
                                          parsed.deadlineBlockNumber)'
                           /\ got.overflow = Row(o, TRUE)'
                 /\ TablesRead(3)'
      <4>1. PICK o : /\ FirstAfter(who, o, parsed.deadlineTimestamp, parsed.deadlineBlockNumber)
                     /\ got.overflow = Row(o, TRUE)
        BY <1>8, <2>2, <3>3 DEF NonexistenceRead
      <4>2. FirstAfter(who, o, parsed.deadlineTimestamp, parsed.deadlineBlockNumber)'
        <5>1. ASSUME NEW v \in Verifiers, NEW time, NEW number, FirstAfter(v, o, time, number)
              PROVE  FirstAfter(v, o, time, number)'
          BY <5>1, FirstAfterStays
        <5>2. ASSUME NEW v, v = who, NEW time, time = parsed.deadlineTimestamp,
                     NEW number, number = parsed.deadlineBlockNumber
              PROVE  FirstAfter(who, o, parsed.deadlineTimestamp, parsed.deadlineBlockNumber)'
          <6>1. FirstAfter(v, o, time, number)'
            BY <4>1, <5>1, <5>2
          <6>2. v = who' /\ time = parsed'.deadlineTimestamp /\ number = parsed'.deadlineBlockNumber
            BY <5>2
          <6> QED BY <6>1, <6>2
        <5> QED BY <5>2
      <4>3. TablesRead(3)'
        BY <1>1, <1>8, <2>2, <3>3 DEF NonexistenceRead
      <4> QED BY <1>4, <4>1, <4>2, <4>3
    <3>4. got.start # None =>
            /\ parsed.minimalBlockNumber \in Saved(who)'
            /\ got.start = Row(parsed.minimalBlockNumber, TRUE)'
      BY <1>4, <1>8, <2>2 DEF NonexistenceRead
    <3>5. parsed'.paymentReference # 0
      BY <2>2
    <3> QED BY <3>1, <3>2, <3>3, <3>4, <3>5 DEF NonexistenceRead
  <2> QED BY <2>1, <2>2
<1> QED BY <1>6, <1>7, <1>8 DEF GoodRead

\* A statement less is left.
LEMMA SuffixStep ==
  ASSUME NEW s, Len(s) \in Nat, NEW t, Suffix(t, s)
  PROVE  /\ Suffix(<<>>, s) /\ Len(<<>>) = 0
         /\ Len(t) \in Nat /\ Len(t) <= Len(s)
         /\ t # <<>> => /\ Head(t) = s[Len(s) - Len(t) + 1] /\ Len(t) > 0
                        /\ Suffix(Tail(t), s) /\ Len(Tail(t)) = Len(t) - 1
PROOF
<1>1. /\ t \in Seq(Slots) /\ Len(t) <= Len(s)
      /\ \A i \in 1..Len(t) : t[i] = s[Len(s) - Len(t) + i]
  BY DEF Suffix
<1>2. Suffix(<<>>, s) /\ Len(<<>>) = 0
  BY DEF Suffix
<1>3. ASSUME t # <<>>
      PROVE  /\ Head(t) = s[Len(s) - Len(t) + 1] /\ Len(t) > 0
             /\ Suffix(Tail(t), s) /\ Len(Tail(t)) = Len(t) - 1
  <2>1. Len(t) \in Nat /\ Len(t) > 0 /\ Head(t) = t[1]
    BY <1>1, <1>3
  <2>2. Tail(t) \in Seq(Slots) /\ Len(Tail(t)) = Len(t) - 1
        /\ \A i \in 1..(Len(t) - 1) : Tail(t)[i] = t[i + 1]
    BY <1>1, <1>3
  <2>3. ASSUME NEW i \in 1..(Len(t) - 1)
        PROVE  Tail(t)[i] = s[Len(s) - Len(Tail(t)) + i]
    <3>1. i + 1 \in 1..Len(t)
      BY <2>1
    <3>2. t[i + 1] = s[Len(s) - Len(t) + (i + 1)]
      BY <1>1, <3>1
    <3>3. Len(s) - Len(t) + (i + 1) = Len(s) - Len(Tail(t)) + i
      BY <2>1, <2>2
    <3> QED BY <2>2, <3>2, <3>3
  <2>4. Suffix(Tail(t), s)
    BY <1>1, <2>1, <2>2, <2>3 DEF Suffix
  <2>5. Head(t) = s[Len(s) - Len(t) + 1]
    BY <1>1, <2>1
  <2> QED BY <2>1, <2>2, <2>4, <2>5
<1>4. Len(t) \in Nat
  BY <1>1
<1> QED BY <1>1, <1>2, <1>3, <1>4

\* The same for n statements.
Left(t, s, n) ==
  /\ Suffix(<<>>, s) /\ Len(<<>>) = 0 /\ Len(t) \in Nat /\ Len(t) <= n
  /\ Head(t) = s[n - Len(t) + 1] /\ Len(t) > 0
  /\ Suffix(Tail(t), s) /\ Len(Tail(t)) = Len(t) - 1

\* One statement of n has been executed.
LEMMA StatementLeft ==
  ASSUME NEW s, NEW n \in Nat, Len(s) = n, NEW t, t # <<>>, Suffix(t, s)
  PROVE  Left(t, s, n)
PROOF BY SuffixStep DEF Left

\* What a statement does to what was read.
LEMMA ReadStores ==
  ASSUME got = [s \in Slots |-> got[s]], NEW h \in Slots, Read, h = Head(todo)
  PROVE  LET value == Query(h, parsed, got, Database(who))
         IN  /\ got' = [s \in Slots |-> got'[s]]
             /\ got'[h] = value
             /\ \A s \in Slots : s # h => got'[s] = got[s]
             /\ value = Throws => DeadRead'
             /\ value = None /\ h \in {"block", "overflow"} => todo' = <<>>
             /\ value # Throws /\ (value # None \/ h \notin {"block", "overflow"}) =>
                  todo' = Tail(todo)
             /\ UNCHANGED <<chain, source, state, origin, request, bytes, parsed, who, pc, answer,
                            verdict>>
PROOF
<1> DEFINE value == Query(h, parsed, got, Database(who))
<1>1. /\ got' = [got EXCEPT ![h] = value]
      /\ todo' = IF value = Throws \/ (value = None /\ h \in {"block", "overflow"})
                 THEN <<>> ELSE Tail(todo)
  BY DEF Read
<1>2. UNCHANGED <<chain, source, state, origin, request, bytes, parsed, who, pc, answer, verdict>>
  BY DEF Read
<1> HIDE DEF value
<1>3. DOMAIN got = Slots
  <2> DEFINE g == [s \in Slots |-> got[s]]
  <2>1. got = g /\ DOMAIN g = Slots
    OBVIOUS
  <2> HIDE DEF g
  <2> QED BY <2>1
<1>4. got' = [s \in Slots |-> IF s = h THEN value ELSE got[s]]
  BY <1>1, <1>3
<1>5. got'[h] = value /\ \A s \in Slots : s # h => got'[s] = got[s]
  BY <1>4
<1>6. got' = [s \in Slots |-> got'[s]] /\ DOMAIN got' = Slots
  BY <1>4
<1>7. ASSUME value = Throws PROVE DeadRead'
  <2>1. todo' = <<>> /\ h \in DOMAIN got' /\ got'[h] = Throws
    BY <1>1, <1>5, <1>6, <1>7
  <2> QED BY <2>1 DEF DeadRead
<1> QED BY <1>1, <1>2, <1>5, <1>6, <1>7 DEF value

\* The statements for the tables read what is wanted of them.
LEMMA TableIsRead ==
  ASSUME IndexersInv, who \in Verifiers, Request(parsed), parsed.attestationType # 3,
         parsed.attestationType = 4 => got.overflow.blockNumber - 1 \in Nat, NEW i \in 0..1
  PROVE  LET rows == TransactionsIn(Database(who), i, TransactionQueryParams(parsed, got))
         IN  FromTables(rows) /\ AllWanted(i, rows)
PROOF
<1> DEFINE rows == TransactionsIn(Database(who), i, TransactionQueryParams(parsed, got))
<1>1. \A row : row \in rows <=>
         \E m \in state[who].tables[i] : \E tx \in chain[m].transactions :
           row = TxRow(m, tx) /\ Wanted(parsed, got, m, tx)
  BY QueryTransactions
<1>2. state[who].tables[i] \subseteq Saved(who)
  BY IndexerIs
<1> HIDE DEF rows
<1>3. FromTables(rows)
  BY <1>1, <1>2 DEF FromTables
<1>4. AllWanted(i, rows)
  BY <1>1 DEF AllWanted
<1> QED BY <1>3, <1>4 DEF rows

\* What is wanted does not depend on other statements.
LEMMA SameTables ==
  ASSUME UNCHANGED <<chain, state, who, parsed>>,
         parsed.attestationType = 4 => got'.overflow = got.overflow
  PROVE  /\ \A rows : FromTables(rows) /\ got'.table0 = rows => FromTables(got.table0)'
         /\ \A rows : FromTables(rows) /\ got'.table1 = rows => FromTables(got.table1)'
         /\ \A rows : AllWanted(0, rows) /\ got'.table0 = rows => AllWanted(0, got.table0)'
         /\ \A rows : AllWanted(1, rows) /\ got'.table1 = rows => AllWanted(1, got.table1)'
         /\ Limit(parsed, got)' = Limit(parsed, got)
         /\ Saved(who)' = Saved(who) /\ Blocks' = Blocks
         /\ \A n : Row(n, TRUE)' = Row(n, TRUE)
PROOF
<1>1. \A m, tx : Wanted(parsed, got, m, tx)' <=> Wanted(parsed, got, m, tx)
  BY DEF Wanted
<1>2. Limit(parsed, got)' = Limit(parsed, got)
  BY DEF Limit
<1>3. /\ Saved(who)' = Saved(who) /\ Blocks' = Blocks
      /\ \A n : Row(n, TRUE)' = Row(n, TRUE)
      /\ \A n, tx : TxRow(n, tx)' = TxRow(n, tx)
  BY DEF Saved, Blocks, Row, TxRow
<1>4. /\ \A rows : FromTables(rows) /\ got'.table0 = rows => FromTables(got.table0)'
      /\ \A rows : FromTables(rows) /\ got'.table1 = rows => FromTables(got.table1)'
  BY <1>1, <1>3 DEF FromTables
<1>5. /\ \A rows : AllWanted(0, rows) /\ got'.table0 = rows => AllWanted(0, got.table0)'
      /\ \A rows : AllWanted(1, rows) /\ got'.table1 = rows => AllWanted(1, got.table1)'
  BY <1>1, <1>2, <1>3 DEF AllWanted
<1> QED BY <1>2, <1>3, <1>4, <1>5

\* A statement for a payment or a decreased balance.
LEMMA TransactionReads ==
  ASSUME IndexersInv, who \in Verifiers, Request(parsed), parsed.attestationType \in {1, 2},
         got = [s \in Slots |-> got[s]], TransactionRead, Read
  PROVE  TransactionRead' \/ DeadRead'
PROOF
<1> DEFINE s == <<"block", "table0", "table1">>
           h == Head(todo)
           value == Query(h, parsed, got, Database(who))
           n == parsed.blockNumber
<1>1. /\ Suffix(todo, s) /\ BlockRead /\ FromTables(got.table0) /\ FromTables(got.table1)
      /\ Len(todo) \in 1..2 => got.block # None
      /\ got.block # None => TablesRead(1)
  BY DEF TransactionRead
<1>2. Len(s) = 3 /\ s[1] = "block" /\ s[2] = "table0" /\ s[3] = "table1"
  OBVIOUS
<1>3. todo # <<>>
  BY DEF Read
<1> HIDE DEF s
<1>4. /\ Suffix(<<>>, s) /\ Len(<<>>) = 0 /\ Len(todo) \in Nat /\ Len(todo) <= 3
      /\ h = s[3 - Len(todo) + 1] /\ Len(todo) > 0
      /\ Suffix(Tail(todo), s) /\ Len(Tail(todo)) = Len(todo) - 1
  <2>1. Suffix(todo, s) /\ Len(s) = 3 /\ 3 \in Nat
    BY <1>1, <1>2
  <2> HIDE DEF h, value
  <2> QED BY <1>3, <2>1, StatementLeft DEF Left, h
<1>5. n \in Nat /\ parsed.attestationType # 3 /\ parsed.attestationType # 4
  BY RequestIs
<1>6. ASSUME h \in Slots
      PROVE  /\ got'[h] = value
             /\ \A x \in Slots : x # h => got'[x] = got[x]
             /\ value = Throws => DeadRead'
             /\ value = None /\ h \in {"block", "overflow"} => todo' = <<>>
             /\ value # Throws /\ (value # None \/ h \notin {"block", "overflow"}) =>
                  todo' = Tail(todo)
  BY <1>6, ReadStores
<1>7. UNCHANGED <<chain, state, who, parsed>>
  BY DEF Read
<1>8. /\ \A rows : FromTables(rows) /\ got'.table0 = rows => FromTables(got.table0)'
      /\ \A rows : FromTables(rows) /\ got'.table1 = rows => FromTables(got.table1)'
      /\ \A rows : AllWanted(0, rows) /\ got'.table0 = rows => AllWanted(0, got.table0)'
      /\ \A rows : AllWanted(1, rows) /\ got'.table1 = rows => AllWanted(1, got.table1)'
      /\ Limit(parsed, got)' = Limit(parsed, got)
      /\ Saved(who)' = Saved(who) /\ \A m : Row(m, TRUE)' = Row(m, TRUE)
  BY <1>5, <1>7, SameTables
<1>9. got.block # None => Limit(parsed, got) \in Nat /\ Limit(parsed, got) <= state[who].N
  BY <1>1 DEF TablesRead
<1> HIDE DEF h, value
<1>10. CASE Len(todo) = 3
  <2>1. h = "block"
    BY <1>2, <1>4, <1>10
  <2>2. h \in Slots
    BY <2>1 DEF Slots
  <2>3. value = queryBlock(Database(who), n)
    BY <2>1 DEF value, Query
  <2>4. value = Throws \/ (n \in Saved(who) /\ value = Row(n, TRUE)) \/ value = None
    BY <2>3, QueryBlock
  <2>5. /\ got'.block = value /\ got'.table0 = got.table0 /\ got'.table1 = got.table1
    BY <1>6, <2>1, <2>2 DEF Slots
  <2>6. FromTables(got.table0)' /\ FromTables(got.table1)'
    BY <1>1, <1>8, <2>5
  <2>7. CASE value = Throws
    BY <1>6, <2>2, <2>7
  <2>8. CASE value # Throws /\ value = None
    <3>1. todo' = <<>> /\ got'.block = None
      BY <1>6, <2>1, <2>2, <2>5, <2>8
    <3>2. Suffix(todo, s)' /\ Len(todo)' = 0
      BY <1>4, <3>1 DEF Suffix, s
    <3>3. BlockRead'
      BY <3>1 DEF BlockRead
    <3> QED BY <2>6, <3>1, <3>2, <3>3 DEF TransactionRead, s
  <2>9. CASE value # Throws /\ value # None
    <3>1. n \in Saved(who) /\ value = Row(n, TRUE)
      BY <2>4, <2>9
    <3>0. todo' = Tail(todo)
      BY <1>6, <2>2, <2>9
    <3>2. todo' = Tail(todo) /\ Len(todo') = 2
      BY <1>4, <1>10, <3>0
    <3>3. Suffix(todo, s)'
      BY <1>4, <3>2 DEF Suffix, s
    <3>4. BlockRead'
      <4>1. parsed'.blockNumber \in Saved(who)' /\ got'.block = Row(n, TRUE)'
        BY <1>7, <1>8, <2>5, <3>1
      <4> QED BY <1>7, <4>1 DEF BlockRead
    <3>5. TablesRead(1)'
      <4>1. Limit(parsed, got)' = n
        BY <1>5, <1>8 DEF Limit
      <4>2. n <= state[who].N
        BY <3>1, IndexerIs DEF Saved
      <4>3. (state[who].N)' = state[who].N
        BY <1>7
      <4>4. (Limit(parsed, got) \in Nat /\ Limit(parsed, got) <= state[who].N)'
        BY <1>5, <4>1, <4>2, <4>3
      <4>5. ~(Len(todo)' <= 1) /\ ~(Len(todo)' < 1)
        <5>1. Len(todo') = 2
          BY <3>2
        <5>2. ASSUME NEW k, k = 2 PROVE ~(k <= 1) /\ ~(k < 1)
          BY <5>2
        <5> QED BY <5>1, <5>2
      <4> QED BY <4>4, <4>5 DEF TablesRead
    <3>6. got'.block # None
      BY <2>5, <2>9
    <3> QED BY <2>6, <3>3, <3>4, <3>5, <3>6 DEF TransactionRead, s
  <2> QED BY <2>7, <2>8, <2>9
<1>11. CASE Len(todo) = 2 \/ Len(todo) = 1
  <2> DEFINE i == IF Len(todo) = 2 THEN 0 ELSE 1
  <2>1. IF Len(todo) = 2 THEN h = "table0" ELSE h = "table1"
    <3>1. CASE Len(todo) = 2
      BY <1>2, <1>4, <3>1
    <3>2. CASE Len(todo) = 1
      BY <1>2, <1>4, <3>2
    <3> QED BY <1>11, <3>1, <3>2
  <2>2. h \in Slots /\ h \notin {"block", "overflow"}
    BY <2>1 DEF Slots
  <2>3. value = TransactionsIn(Database(who), i, TransactionQueryParams(parsed, got)) /\ i \in 0..1
    BY <2>1 DEF value, Query
  <2> HIDE DEF i
  <2>4. FromTables(value) /\ AllWanted(i, value)
    BY <1>5, <2>3, TableIsRead
  <2>5. CASE value = Throws
    BY <1>6, <2>2, <2>5
  <2>6. CASE value # Throws
    <3>0. todo' = Tail(todo)
      BY <1>6, <2>2, <2>6
    <3>1. todo' = Tail(todo) /\ Len(todo') = Len(todo) - 1
      BY <1>4, <3>0
    <3>2. Suffix(todo, s)'
      BY <1>4, <3>1 DEF Suffix, s
    <3>3. got'.block = got.block /\ got.block # None
      BY <1>1, <1>6, <1>11, <2>2 DEF Slots
    <3>4. BlockRead'
      <4>1. n \in Saved(who) /\ got.block = Row(n, TRUE)
        BY <1>1, <3>3 DEF BlockRead
      <4>2. parsed'.blockNumber \in Saved(who)' /\ got'.block = Row(n, TRUE)'
        BY <1>7, <1>8, <3>3, <4>1
      <4> QED BY <1>7, <4>2 DEF BlockRead
    <3>5. (Limit(parsed, got) \in Nat /\ Limit(parsed, got) <= state[who].N)'
      BY <1>7, <1>8, <1>9, <3>3
    <3>6. CASE Len(todo) = 2
      <4>1. got'.table0 = value /\ got'.table1 = got.table1 /\ i = 0
        BY <1>6, <2>1, <2>2, <3>6 DEF Slots, i
      <4>2. FromTables(got.table0)' /\ FromTables(got.table1)' /\ AllWanted(0, got.table0)'
        BY <1>1, <1>8, <2>4, <4>1
      <4>3. Len(todo') = 1
        BY <3>1, <3>6
      <4>4. TablesRead(1)'
        BY <3>5, <4>2, <4>3 DEF TablesRead
      <4> QED BY <3>2, <3>3, <3>4, <4>2, <4>3, <4>4 DEF TransactionRead, s
    <3>7. CASE Len(todo) = 1
      <4>1. got'.table1 = value /\ got'.table0 = got.table0 /\ i = 1
        BY <1>6, <2>1, <2>2, <3>7 DEF Slots, i
      <4>2. AllWanted(0, got.table0)
        BY <1>1, <3>3, <3>7 DEF TablesRead
      <4>3. /\ FromTables(got.table0)' /\ FromTables(got.table1)'
            /\ AllWanted(0, got.table0)' /\ AllWanted(1, got.table1)'
        BY <1>1, <1>8, <2>4, <4>1, <4>2
      <4>4. Len(todo') = 0
        BY <3>1, <3>7
      <4>5. TablesRead(1)'
        BY <3>5, <4>3, <4>4 DEF TablesRead
      <4> QED BY <3>2, <3>3, <3>4, <4>3, <4>4, <4>5 DEF TransactionRead, s
    <3> QED BY <1>11, <3>6, <3>7
  <2> QED BY <2>5, <2>6
<1>12. Len(todo) = 3 \/ Len(todo) = 2 \/ Len(todo) = 1
  <2>1. Len(todo) \in Nat /\ Len(todo) <= 3 /\ Len(todo) > 0
    BY <1>4
  <2>2. ASSUME NEW k \in Nat, k <= 3, k > 0 PROVE k = 3 \/ k = 2 \/ k = 1
    BY <2>2
  <2> QED BY <2>1, <2>2
<1> QED BY <1>10, <1>11, <1>12

\* A statement for a block height.
LEMMA HeightReads ==
  ASSUME IndexersInv, who \in Verifiers, Request(parsed), parsed.attestationType = 3,
         got = [s \in Slots |-> got[s]], HeightRead, Read
  PROVE  HeightRead' \/ DeadRead'
PROOF
<1> DEFINE s == <<"block", "lower">>
           h == Head(todo)
           value == Query(h, parsed, got, Database(who))
           n == parsed.blockNumber
<1>1. /\ Suffix(todo, s) /\ BlockRead
      /\ Len(todo) = 1 => got.block # None
      /\ got.lower # None =>
           /\ got.block # None
           /\ \E low \in Saved(who) :
                got.lower = Row(low, TRUE) /\ LastBefore(low, WindowStart(parsed))
  BY DEF HeightRead
<1>2. Len(s) = 2 /\ s[1] = "block" /\ s[2] = "lower"
  OBVIOUS
<1>3. todo # <<>>
  BY DEF Read
<1> HIDE DEF s
<1>4. /\ Suffix(<<>>, s) /\ Len(<<>>) = 0 /\ Len(todo) \in Nat /\ Len(todo) <= 2
      /\ h = s[2 - Len(todo) + 1] /\ Len(todo) > 0
      /\ Suffix(Tail(todo), s) /\ Len(Tail(todo)) = Len(todo) - 1
  <2>1. Suffix(todo, s) /\ Len(s) = 2 /\ 2 \in Nat
    BY <1>1, <1>2
  <2> HIDE DEF h, value
  <2> QED BY <1>3, <2>1, StatementLeft DEF Left, h
<1>5. n \in Nat /\ parsed.queryWindow \in Nat /\ parsed.attestationType # 4
  BY RequestIs
<1>6. ASSUME h \in Slots
      PROVE  /\ got'[h] = value
             /\ \A x \in Slots : x # h => got'[x] = got[x]
             /\ value = Throws => DeadRead'
             /\ value = None /\ h \in {"block", "overflow"} => todo' = <<>>
             /\ value # Throws /\ (value # None \/ h \notin {"block", "overflow"}) =>
                  todo' = Tail(todo)
  BY <1>6, ReadStores
<1>7. UNCHANGED <<chain, state, who, parsed>>
  BY DEF Read
<1>8. Saved(who)' = Saved(who) /\ \A m : Row(m, TRUE)' = Row(m, TRUE)
  BY <1>5, <1>7, SameTables
<1>9. \A low : LastBefore(low, WindowStart(parsed))' <=> LastBefore(low, WindowStart(parsed))
  BY <1>7 DEF LastBefore, WindowStart, Blocks
<1> HIDE DEF h, value
<1>10. CASE Len(todo) = 2
  <2>1. h = "block"
    BY <1>2, <1>4, <1>10
  <2>2. h \in Slots
    BY <2>1 DEF Slots
  <2>3. value = queryBlock(Database(who), n)
    BY <2>1 DEF value, Query
  <2>4. value = Throws \/ (n \in Saved(who) /\ value = Row(n, TRUE)) \/ value = None
    BY <2>3, QueryBlock
  <2>5. got'.block = value /\ got'.lower = got.lower
    BY <1>6, <2>1, <2>2 DEF Slots
  <2>6. CASE value = Throws
    BY <1>6, <2>2, <2>6
  <2>7. ASSUME value # Throws, got.lower = None PROVE HeightRead'
    <3>1. got'.lower = None
      BY <2>5, <2>7
    <3>2. CASE value = None
      <4>1. todo' = <<>> /\ got'.block = None
        BY <1>6, <2>1, <2>2, <2>5, <2>7, <3>2
      <4>2. Suffix(todo, s)' /\ Len(todo)' = 0
        BY <1>4, <4>1 DEF Suffix, s
      <4>3. BlockRead'
        BY <4>1 DEF BlockRead
      <4> QED BY <3>1, <4>2, <4>3 DEF HeightRead, s
    <3>3. CASE value # None
      <4>1. n \in Saved(who) /\ value = Row(n, TRUE)
        BY <2>4, <2>7, <3>3
      <4>2. todo' = Tail(todo)
        BY <1>6, <2>2, <2>7, <3>3
      <4>3. Suffix(todo, s)'
        BY <1>4, <4>2 DEF Suffix, s
      <4>4. BlockRead'
        <5>1. parsed'.blockNumber \in Saved(who)' /\ got'.block = Row(n, TRUE)'
          BY <1>7, <1>8, <2>5, <4>1
        <5> QED BY <1>7, <5>1 DEF BlockRead
      <4>5. got'.block # None
        BY <2>5, <3>3
      <4> QED BY <3>1, <4>3, <4>4, <4>5 DEF HeightRead, s
    <3> QED BY <3>2, <3>3
  <2>8. ASSUME value # Throws, got.lower # None PROVE HeightRead'
    <3>1. PICK low \in Saved(who) :
            got.lower = Row(low, TRUE) /\ LastBefore(low, WindowStart(parsed))
      BY <1>1, <2>8
    <3>2. n \in Saved(who)
      BY <1>1, <2>8 DEF BlockRead
    <3>3. value # None
      <4>1. value = Row(n, TRUE) \/ n = 0
        BY <2>3, <3>2, QueryBlock
      <4>2. n # 0
        BY <3>2, IndexerIs DEF Saved
      <4>3. n \in Blocks
        BY <3>2, IndexerIs
      <4> QED BY <4>1, <4>2, <4>3, RowIsNotNone
    <3>4. value = Row(n, TRUE)
      BY <2>4, <2>8, <3>3
    <3>5. todo' = Tail(todo)
      BY <1>6, <2>2, <2>8, <3>3
    <3>6. Suffix(todo, s)'
      BY <1>4, <3>5 DEF Suffix, s
    <3>7. BlockRead'
      <4>1. parsed'.blockNumber \in Saved(who)' /\ got'.block = Row(n, TRUE)'
        BY <1>7, <1>8, <2>5, <3>2, <3>4
      <4> QED BY <1>7, <4>1 DEF BlockRead
    <3>8. got'.block # None
      BY <2>5, <3>3
    <3>9. /\ low \in Saved(who)' /\ got'.lower = Row(low, TRUE)'
          /\ LastBefore(low, WindowStart(parsed))'
      BY <1>8, <1>9, <2>5, <3>1
    <3> QED BY <3>6, <3>7, <3>8, <3>9 DEF HeightRead, s
  <2> QED BY <2>6, <2>7, <2>8
<1>11. CASE Len(todo) = 1
  <2>1. h = "lower"
    BY <1>2, <1>4, <1>11
  <2>2. h \in Slots /\ h \notin {"block", "overflow"}
    BY <2>1 DEF Slots
  <2>3. n \in Saved(who) /\ got.block = Row(n, TRUE) /\ got.block # None
    BY <1>1, <1>11 DEF BlockRead
  <2>4. value = getLastConfirmedBlockStrictlyBeforeTime(Database(who), WindowStart(parsed))
    <3>1. got.block.timestamp = chain[n].timestamp
      BY <2>3, RowIs
    <3> QED BY <2>1, <3>1 DEF value, Query, WindowStart
  <2>5. got'.lower = value /\ got'.block = got.block
    BY <1>6, <2>1, <2>2 DEF Slots
  <2>6. CASE value = Throws
    BY <1>6, <2>2, <2>6
  <2>7. CASE value # Throws
    <3>0. todo' = Tail(todo)
      BY <1>6, <2>2, <2>7
    <3>1. todo' = Tail(todo) /\ Len(todo') = 0
      BY <1>4, <1>11, <3>0
    <3>2. Suffix(todo, s)'
      BY <1>4, <3>1 DEF Suffix, s
    <3>3. BlockRead'
      <4>1. parsed'.blockNumber \in Saved(who)' /\ got'.block = Row(n, TRUE)'
        BY <1>7, <1>8, <2>3, <2>5
      <4> QED BY <1>7, <4>1 DEF BlockRead
    <3>4. got'.lower # None =>
            \E low \in Saved(who) :
              got'.lower = Row(low, TRUE) /\ LastBefore(low, WindowStart(parsed))
      <4> HAVE got'.lower # None
      <4>1. PICK low \in Saved(who) :
              /\ value = Row(low, TRUE) /\ chain[low].timestamp < WindowStart(parsed)
              /\ \A m \in Saved(who) : m > low => ~(chain[m].timestamp < WindowStart(parsed))
        BY <2>4, <2>5, QueryBefore
      <4>2. ASSUME NEW m \in Blocks, m > low PROVE chain[m].timestamp >= WindowStart(parsed)
        <5>1. /\ chain[m].timestamp \in Nat /\ chain[n].timestamp \in Nat
              /\ m \in Nat /\ n \in Blocks /\ low \in Nat
          BY <2>3, ChainIs, IndexerIs
        <5>2. WindowStart(parsed) \in Int /\ WindowStart(parsed) <= chain[n].timestamp
          BY <1>5, <5>1 DEF WindowStart
        <5>3. CASE m \in Saved(who)
          BY <4>1, <4>2, <5>1, <5>2, <5>3
        <5>4. CASE m \notin Saved(who)
          <6>1. n <= m
            BY <2>3, <4>1, <4>2, <5>1, <5>4, IndexerIs DEF Saved
          <6>2. chain[n].timestamp <= chain[m].timestamp
            BY <5>1, <6>1, ChainIs
          <6> QED BY <5>1, <5>2, <6>2
        <5> QED BY <5>3, <5>4
      <4>3. LastBefore(low, WindowStart(parsed))
        BY <4>1, <4>2 DEF LastBefore
      <4> QED BY <2>5, <4>1, <4>3
    <3>5. got'.lower # None =>
            /\ got'.block # None
            /\ \E low \in Saved(who)' :
                 got'.lower = Row(low, TRUE)' /\ LastBefore(low, WindowStart(parsed))'
      BY <1>8, <1>9, <2>3, <2>5, <3>4
    <3>6. ~(Len(todo)' = 1)
      BY <3>1
    <3>7. Suffix(todo, <<"block", "lower">>)'
      BY <3>2 DEF s
    <3>8. (Len(todo) = 1 => got.block # None)'
      BY <3>6
    <3>9. (got.lower # None =>
             /\ got.block # None
             /\ \E low \in Saved(who) :
                  got.lower = Row(low, TRUE) /\ LastBefore(low, WindowStart(parsed)))'
      BY <3>5
    <3> QED BY <3>3, <3>7, <3>8, <3>9 DEF HeightRead
  <2> QED BY <2>6, <2>7
<1>12. Len(todo) = 2 \/ Len(todo) = 1
  <2>1. \A k \in Nat : k <= 2 /\ k > 0 => k = 2 \/ k = 1
    OBVIOUS
  <2>2. Len(todo) \in Nat /\ Len(todo) <= 2 /\ Len(todo) > 0
    BY <1>4
  <2> QED BY <2>1, <2>2
<1> QED BY <1>10, <1>11, <1>12

\* A statement for a payment that was not made.
LEMMA NonexistenceReads ==
  ASSUME IndexersInv, who \in Verifiers, Request(parsed), parsed.attestationType = 4,
         got = [s \in Slots |-> got[s]], NonexistenceRead, Read
  PROVE  NonexistenceRead' \/ DeadRead'
PROOF
<1> DEFINE s == <<"overflow", "table0", "table1", "start", "end">>
           h == Head(todo)
           value == Query(h, parsed, got, Database(who))
           time == parsed.deadlineTimestamp
           number == parsed.deadlineBlockNumber
           n == parsed.minimalBlockNumber
           First(o) == FirstAfter(who, o, time, number) /\ got.overflow = Row(o, TRUE)
           StartRead == got.start # None => n \in Saved(who) /\ got.start = Row(n, TRUE)
<1>1. todo # <<>>
  BY DEF Read
<1>2. parsed.paymentReference # 0
  BY <1>1 DEF NonexistenceRead
<1>3. /\ Suffix(todo, s) /\ FromTables(got.table0) /\ FromTables(got.table1)
      /\ Len(todo) = 5 => got.table0 = {} /\ got.table1 = {}
      /\ Len(todo) \in 1..4 => got.overflow # None
      /\ got.overflow # None => (\E o : First(o)) /\ TablesRead(3)
      /\ StartRead
  BY <1>2 DEF NonexistenceRead
<1>4. /\ Len(s) = 5 /\ s[1] = "overflow" /\ s[2] = "table0" /\ s[3] = "table1"
      /\ s[4] = "start" /\ s[5] = "end"
  OBVIOUS
<1> HIDE DEF s
<1>5. /\ Suffix(<<>>, s) /\ Len(<<>>) = 0 /\ Len(todo) \in Nat /\ Len(todo) <= 5
      /\ h = s[5 - Len(todo) + 1] /\ Len(todo) > 0
      /\ Suffix(Tail(todo), s) /\ Len(Tail(todo)) = Len(todo) - 1
  <2>1. Suffix(todo, s) /\ Len(s) = 5 /\ 5 \in Nat
    BY <1>3, <1>4
  <2> HIDE DEF h, value
  <2> QED BY <1>1, <2>1, StatementLeft DEF Left, h
<1>6. /\ n \in Nat /\ parsed.attestationType # 3 /\ parsed.attestationType = 4
  BY RequestIs
<1>7. ASSUME h \in Slots
      PROVE  /\ got'[h] = value
             /\ \A x \in Slots : x # h => got'[x] = got[x]
             /\ value = Throws => DeadRead'
             /\ value = None /\ h \in {"block", "overflow"} => todo' = <<>>
             /\ value # Throws /\ (value # None \/ h \notin {"block", "overflow"}) =>
                  todo' = Tail(todo)
  BY <1>7, ReadStores
<1>8. UNCHANGED <<chain, state, who, parsed>>
  BY DEF Read
<1>9. /\ Saved(who)' = Saved(who) /\ \A m : Row(m, TRUE)' = Row(m, TRUE)
      /\ \A o : FirstAfter(who, o, time, number)' <=> FirstAfter(who, o, time, number)
  BY <1>8 DEF Saved, Row, FirstAfter
<1>10. ASSUME got'.overflow = got.overflow
       PROVE  /\ \A rows : FromTables(rows) /\ got'.table0 = rows => FromTables(got.table0)'
              /\ \A rows : FromTables(rows) /\ got'.table1 = rows => FromTables(got.table1)'
              /\ \A rows : AllWanted(0, rows) /\ got'.table0 = rows => AllWanted(0, got.table0)'
              /\ \A rows : AllWanted(1, rows) /\ got'.table1 = rows => AllWanted(1, got.table1)'
              /\ Limit(parsed, got)' = Limit(parsed, got)
  BY <1>8, <1>10, SameTables
<1>11. got.overflow # None => Limit(parsed, got) \in Nat /\ Limit(parsed, got) <= state[who].N
  BY <1>3 DEF TablesRead
<1> HIDE DEF h, value
<1>12. Len(todo) = 5 \/ Len(todo) = 4 \/ Len(todo) = 3 \/ Len(todo) = 2 \/ Len(todo) = 1
  <2>1. Len(todo) \in Nat /\ Len(todo) <= 5 /\ Len(todo) > 0
    BY <1>5
  <2>2. ASSUME NEW k \in Nat, k <= 5, k > 0 PROVE k = 5 \/ k = 4 \/ k = 3 \/ k = 2 \/ k = 1
    BY <2>2
  <2> QED BY <2>1, <2>2
<1>13. ASSUME Suffix(todo, s)', FromTables(got.table0)', FromTables(got.table1)',
              Len(todo)' # 5,
              Len(todo)' \in 1..4 => got'.overflow # None,
              got'.overflow # None => (\E o : First(o)') /\ TablesRead(3)',
              StartRead'
       PROVE  NonexistenceRead'
  BY <1>2, <1>8, <1>13 DEF NonexistenceRead, s
<1>14. ASSUME got'.start = got.start PROVE StartRead'
  <2>1. CASE got.start = None
    BY <1>14, <2>1
  <2>2. CASE got.start # None
    <3>1. n \in Saved(who) /\ got.start = Row(n, TRUE)
      BY <1>3, <2>2
    <3>2. parsed'.minimalBlockNumber \in Saved(who)' /\ got'.start = Row(n, TRUE)'
      BY <1>8, <1>9, <1>14, <3>1
    <3> QED BY <1>8, <3>2
  <2> QED BY <2>1, <2>2
<1>15. ASSUME got'.overflow = got.overflow, got.overflow # None PROVE \E o : First(o)'
  <2>1. PICK o : First(o)
    BY <1>3, <1>15
  <2>2. FirstAfter(who, o, time, number)' /\ got'.overflow = Row(o, TRUE)'
    BY <1>9, <1>15, <2>1
  <2> QED BY <2>2
<1> HIDE DEF StartRead
<1>16. ASSUME Len(todo) = 5 PROVE NonexistenceRead' \/ DeadRead'
  <2>1. h = "overflow" /\ h \in Slots
    BY <1>4, <1>5, <1>16 DEF Slots
  <2>2. value = getFirstConfirmedOverflowBlock(Database(who), time, number)
    BY <2>1 DEF value, Query
  <2>3. /\ got'.overflow = value /\ got'.table0 = {} /\ got'.table1 = {}
        /\ got'.start = got.start
    BY <1>3, <1>7, <1>16, <2>1 DEF Slots
  <2>4. FromTables(got.table0)' /\ FromTables(got.table1)' /\ StartRead'
    BY <1>14, <2>3 DEF FromTables
  <2>5. CASE value = Throws
    BY <1>7, <2>1, <2>5
  <2>6. CASE value # Throws /\ value = None
    <3>1. todo' = <<>> /\ got'.overflow = None
      BY <1>7, <2>1, <2>3, <2>6
    <3>2. Suffix(todo, s)' /\ Len(todo)' = 0
      BY <1>5, <3>1 DEF Suffix, s
    <3>3. Len(todo)' # 5 /\ Len(todo)' \notin 1..4
      <4>1. ASSUME NEW k, k = 0 PROVE k # 5 /\ k \notin 1..4
        BY <4>1
      <4> QED BY <3>2, <4>1
    <3> QED BY <1>13, <2>4, <3>1, <3>2, <3>3
  <2>7. CASE value # Throws /\ value # None
    <3>1. todo' = Tail(todo)
      BY <1>7, <2>1, <2>7
    <3>2. Suffix(todo, s)' /\ Len(todo') = 4
      <4>1. Suffix(todo, s)'
        BY <1>5, <3>1 DEF Suffix, s
      <4>2. Len(todo') = 4
        BY <1>5, <1>16, <3>1
      <4> QED BY <4>1, <4>2
    <3>3. PICK o : FirstAfter(who, o, time, number) /\ value = Row(o, TRUE)
      <4> HIDE DEF time, number
      <4>1. \/ getFirstConfirmedOverflowBlock(Database(who), time, number) = None
            \/ \E o : /\ FirstAfter(who, o, time, number)
                      /\ getFirstConfirmedOverflowBlock(Database(who), time, number) = Row(o, TRUE)
        BY QueryOverflow
      <4> QED BY <2>2, <2>7, <4>1
    <3>4. First(o)'
      BY <1>9, <2>3, <3>3
    <3>5. TablesRead(3)'
      <4>1. o \in Nat \ {0} /\ o <= state[who].N /\ state[who].N \in Nat
        BY <3>3, IndexerIs DEF FirstAfter, Saved
      <4>2. Limit(parsed, got)' = o - 1
        <5>1. parsed'.attestationType = 4
          BY <1>6, <1>8
        <5>2. Limit(parsed, got)' = got'.overflow.blockNumber - 1
          BY <5>1 DEF Limit
        <5>3. got'.overflow.blockNumber = o
          <6>1. got'.overflow = Row(o, TRUE)
            BY <2>3, <3>3
          <6>2. Row(o, TRUE).blockNumber = o
            BY RowIs
          <6> QED BY <6>1, <6>2
        <5> QED BY <5>2, <5>3
      <4>3. (state[who].N)' = state[who].N
        BY <1>8
      <4>4. (Limit(parsed, got) \in Nat /\ Limit(parsed, got) <= state[who].N)'
        BY <4>1, <4>2, <4>3
      <4>5. ~(Len(todo)' <= 3) /\ ~(Len(todo)' < 3)
        <5>1. ASSUME NEW k, k = 4 PROVE ~(k <= 3) /\ ~(k < 3)
          BY <5>1
        <5> QED BY <3>2, <5>1
      <4> QED BY <4>4, <4>5 DEF TablesRead
    <3>6. Len(todo)' # 5
      BY <3>2
    <3>7. got'.overflow # None
      BY <2>3, <2>7
    <3> QED BY <1>13, <2>4, <3>2, <3>4, <3>5, <3>6, <3>7
  <2> QED BY <2>5, <2>6, <2>7
<1>17. ASSUME Len(todo) \in 1..4, h \in Slots, h \notin {"block", "overflow"}, value # Throws,
              FromTables(got.table0)', FromTables(got.table1)', StartRead',
              Len(todo) <= 4 => AllWanted(0, got.table0)',
              Len(todo) <= 3 => AllWanted(1, got.table1)'
       PROVE  NonexistenceRead'
  <2>1. todo' = Tail(todo)
    BY <1>7, <1>17
  <2>2. Suffix(todo, s)'
    BY <1>5, <2>1 DEF Suffix, s
  <2>3. Len(todo') = Len(todo) - 1
    BY <1>5, <2>1
  <2>4. got'.overflow = got.overflow /\ got.overflow # None
    BY <1>3, <1>7, <1>17 DEF Slots
  <2>5. (Limit(parsed, got) \in Nat /\ Limit(parsed, got) <= state[who].N)'
    BY <1>8, <1>10, <1>11, <2>4
  <2>6. AllWanted(0, got.table0)' /\ (Len(todo') < 3 => AllWanted(1, got.table1)')
    <3>1. ASSUME NEW k \in 1..4, NEW l, l = k - 1 PROVE k <= 4 /\ (l < 3 => k <= 3)
      BY <3>1
    <3> QED BY <1>17, <2>3, <3>1
  <2>7. TablesRead(3)'
    BY <2>5, <2>6 DEF TablesRead
  <2>8. Len(todo') # 5
    <3>1. ASSUME NEW k \in 1..4, NEW l, l = k - 1 PROVE l # 5
      BY <3>1
    <3> QED BY <1>17, <2>3, <3>1
  <2>9. got'.overflow # None /\ \E o : First(o)'
    BY <1>15, <2>4
  <2> QED BY <1>13, <1>17, <2>2, <2>7, <2>8, <2>9
<1>18. ASSUME got.overflow # None PROVE got.overflow.blockNumber - 1 \in Nat
  BY <1>6, <1>11, <1>18 DEF Limit
<1>19. CASE Len(todo) = 4
  <2>1. h = "table0" /\ h \in Slots
    BY <1>4, <1>5, <1>19 DEF Slots
  <2>2. value = TransactionsIn(Database(who), 0, TransactionQueryParams(parsed, got))
    BY <2>1 DEF value, Query
  <2>3. got.overflow # None
    BY <1>3, <1>19
  <2>4. FromTables(value) /\ AllWanted(0, value)
    BY <1>6, <1>18, <2>2, <2>3, TableIsRead
  <2>5. /\ got'.table0 = value /\ got'.table1 = got.table1 /\ got'.start = got.start
        /\ got'.overflow = got.overflow
    BY <1>7, <2>1 DEF Slots
  <2>6. /\ FromTables(got.table0)' /\ FromTables(got.table1)' /\ StartRead'
        /\ AllWanted(0, got.table0)'
    BY <1>3, <1>10, <1>14, <2>4, <2>5
  <2>7. Len(todo) \in 1..4 /\ ~(Len(todo) <= 3)
    BY <1>19
  <2> QED BY <1>7, <1>17, <2>1, <2>6, <2>7
<1>20. CASE Len(todo) = 3
  <2>1. h = "table1" /\ h \in Slots
    BY <1>4, <1>5, <1>20 DEF Slots
  <2>2. value = TransactionsIn(Database(who), 1, TransactionQueryParams(parsed, got))
    BY <2>1 DEF value, Query
  <2>3. got.overflow # None
    BY <1>3, <1>20
  <2>4. FromTables(value) /\ AllWanted(1, value)
    BY <1>6, <1>18, <2>2, <2>3, TableIsRead
  <2>5. /\ got'.table1 = value /\ got'.table0 = got.table0 /\ got'.start = got.start
        /\ got'.overflow = got.overflow
    BY <1>7, <2>1 DEF Slots
  <2>6. AllWanted(0, got.table0)
    BY <1>3, <1>20, <2>3 DEF TablesRead
  <2>7. /\ FromTables(got.table0)' /\ FromTables(got.table1)' /\ StartRead'
        /\ AllWanted(0, got.table0)' /\ AllWanted(1, got.table1)'
    BY <1>3, <1>10, <1>14, <2>4, <2>5, <2>6
  <2>8. Len(todo) \in 1..4
    BY <1>20
  <2> QED BY <1>7, <1>17, <2>1, <2>7, <2>8
<1>21. CASE Len(todo) = 2 \/ Len(todo) = 1
  <2>1. /\ h \in Slots
        /\ h = "start" \/ h = "end"
        /\ h = "start" => value = queryBlock(Database(who), n)
    <3>1. CASE Len(todo) = 2
      <4>1. h = "start" /\ h \in Slots
        BY <1>4, <1>5, <3>1 DEF Slots
      <4> QED BY <4>1 DEF value, Query
    <3>2. CASE Len(todo) = 1
      <4>1. h = "end" /\ h \in Slots
        BY <1>4, <1>5, <3>2 DEF Slots
      <4> QED BY <4>1
    <3> QED BY <1>21, <3>1, <3>2
  <2>2. Len(todo) \in 1..4 /\ Len(todo) < 3 /\ Len(todo) <= 3
    <3>1. ASSUME NEW k, k = 2 \/ k = 1 PROVE k \in 1..4 /\ k < 3 /\ k <= 3
      BY <3>1
    <3> QED BY <1>21, <3>1
  <2>3. got.overflow # None
    BY <1>3, <2>2
  <2>4. AllWanted(0, got.table0) /\ AllWanted(1, got.table1)
    BY <1>3, <2>2, <2>3 DEF TablesRead
  <2>5. /\ got'.table1 = got.table1 /\ got'.table0 = got.table0
        /\ got'.overflow = got.overflow /\ got'[h] = value
        /\ h # "start" => got'.start = got.start
    BY <1>7, <2>1 DEF Slots
  <2>6. /\ FromTables(got.table0)' /\ FromTables(got.table1)'
        /\ AllWanted(0, got.table0)' /\ AllWanted(1, got.table1)'
    BY <1>3, <1>10, <2>4, <2>5
  <2>7. CASE value = Throws
    BY <1>7, <2>1, <2>7
  <2>8. CASE value # Throws
    <3>1. StartRead'
      <4>1. CASE h # "start"
        BY <1>14, <2>5, <4>1
      <4>2. CASE h = "start"
        <5>1. value = None \/ (n \in Saved(who) /\ value = Row(n, TRUE))
          BY <2>1, <2>8, <4>2, QueryBlock
        <5>2. got'.start = value
          BY <2>5, <4>2
        <5>3. CASE value = None
          BY <5>2, <5>3 DEF StartRead
        <5>4. CASE value # None
          <6>1. n \in Saved(who) /\ value = Row(n, TRUE)
            BY <5>1, <5>4
          <6>2. parsed'.minimalBlockNumber \in Saved(who)' /\ got'.start = Row(n, TRUE)'
            BY <1>8, <1>9, <5>2, <6>1
          <6> QED BY <1>8, <6>2 DEF StartRead
        <5> QED BY <5>3, <5>4
      <4> QED BY <4>1, <4>2
    <3> QED BY <1>17, <2>1, <2>2, <2>6, <2>8, <3>1
  <2> QED BY <2>7, <2>8
<1> QED BY <1>12, <1>16, <1>19, <1>20, <1>21

\* A statement leaves what was read good.
LEMMA ReadStep ==
  ASSUME IndexersInv, who \in Verifiers, ReadInv, Read
  PROVE  ReadInv' /\ IndexersInv' /\ UNCHANGED <<chain, source, state, origin, request, bytes,
                                                 parsed, who, pc, answer, verdict>>
PROOF
<1>1. pc = "read" /\ todo # <<>>
  BY DEF Read
<1>2. UNCHANGED <<chain, source, state, origin, request, bytes, parsed, who, pc, answer, verdict>>
  BY DEF Read
<1>3. /\ Request(parsed) /\ got = [s \in Slots |-> got[s]]
      /\ (origin = "random" /\ who = 1) => parsed.sourceId = SourceIds[source]
      /\ GoodRead
  BY <1>1 DEF ReadInv, DeadRead
<1>4. Request(parsed)' /\ ((origin = "random" /\ who = 1) => parsed.sourceId = SourceIds[source])'
  BY <1>2, <1>3 DEF Request
<1>5. got' = [s \in Slots |-> got'[s]]
  <2>1. DOMAIN got = Slots
    <3> DEFINE g == [s \in Slots |-> got[s]]
    <3>1. got = g /\ DOMAIN g = Slots
      BY <1>3
    <3> HIDE DEF g
    <3> QED BY <3>1
  <2> DEFINE value == Query(Head(todo), parsed, got, Database(who))
             h == Head(todo)
  <2>2. got' = [got EXCEPT ![h] = value]
    BY DEF Read
  <2> HIDE DEF value, h
  <2>3. got' = [s \in Slots |-> IF s = h THEN value ELSE got[s]]
    BY <2>1, <2>2
  <2> QED BY <2>3
<1>6. parsed.attestationType \in {1, 2} \/ parsed.attestationType = 3 \/ parsed.attestationType = 4
  BY <1>3 DEF Request, Types
<1>7. CASE parsed.attestationType \in {1, 2}
  <2>1. TransactionRead
    BY <1>3, <1>7 DEF GoodRead
  <2>2. TransactionRead' \/ DeadRead'
    BY <1>3, <1>7, <2>1, TransactionReads
  <2>3. parsed'.attestationType \in {1, 2}
    BY <1>2, <1>7
  <2>4. TransactionRead' => GoodRead'
    BY <2>3 DEF GoodRead
  <2> QED BY <1>2, <1>4, <1>5, <2>2, <2>4 DEF ReadInv, IndexersInv, Saved
<1>8. CASE parsed.attestationType = 3
  <2>1. HeightRead
    BY <1>3, <1>8 DEF GoodRead
  <2>2. HeightRead' \/ DeadRead'
    BY <1>3, <1>8, <2>1, HeightReads
  <2>3. parsed'.attestationType = 3
    BY <1>2, <1>8
  <2>4. HeightRead' => GoodRead'
    BY <2>3 DEF GoodRead
  <2> QED BY <1>2, <1>4, <1>5, <2>2, <2>4 DEF ReadInv, IndexersInv, Saved
<1>9. CASE parsed.attestationType = 4
  <2>1. NonexistenceRead
    BY <1>3, <1>9 DEF GoodRead
  <2>2. NonexistenceRead' \/ DeadRead'
    BY <1>3, <1>9, <2>1, NonexistenceReads
  <2>3. parsed'.attestationType = 4
    BY <1>2, <1>9
  <2>4. NonexistenceRead' => GoodRead'
    BY <2>3 DEF GoodRead
  <2> QED BY <1>2, <1>4, <1>5, <2>2, <2>4 DEF ReadInv, IndexersInv, Saved
<1> QED BY <1>6, <1>7, <1>8, <1>9

\* Before the first statement nothing was read.
LEMMA StartIsGood ==
  ASSUME Request(parsed)', got' = [Unread EXCEPT !.table0 = {}, !.table1 = {}],
         todo' = Statements(parsed')
  PROVE  got' = [s \in Slots |-> got'[s]] /\ GoodRead'
PROOF
<1>1. /\ got' = [s \in Slots |-> IF s \in {"table0", "table1"} THEN {} ELSE None]
  BY DEF Unread, Slots
<1>2. /\ got' = [s \in Slots |-> got'[s]]
      /\ got'.block = None /\ got'.lower = None /\ got'.overflow = None /\ got'.start = None
      /\ got'.table0 = {} /\ got'.table1 = {}
  BY <1>1 DEF Slots
<1>3. FromTables(got.table0)' /\ FromTables(got.table1)' /\ BlockRead'
  BY <1>2 DEF FromTables, BlockRead
<1>4. ASSUME parsed'.attestationType \in {1, 2} PROVE TransactionRead'
  <2> DEFINE s == <<"block", "table0", "table1">>
  <2>1. todo' = s
    BY <1>4 DEF Statements, AttestationType
  <2>2. Suffix(todo', s) /\ Len(todo') = 3
    <3>1. s \in Seq(Slots) /\ Len(s) = 3 /\ \A i \in 1..Len(s) : s[i] = s[Len(s) - Len(s) + i]
      <4>1. s \in Seq(Slots) /\ Len(s) = 3
        BY DEF Slots
      <4> HIDE DEF s
      <4> QED BY <4>1
    <3> QED BY <2>1, <3>1 DEF Suffix
  <2>3. Len(todo)' \notin 1..2
    <3>1. ASSUME NEW k, k = 3 PROVE k \notin 1..2
      BY <3>1
    <3> QED BY <2>2, <3>1
  <2> QED BY <1>2, <1>3, <2>2, <2>3 DEF TransactionRead, Suffix
<1>5. ASSUME parsed'.attestationType = 3 PROVE HeightRead'
  <2> DEFINE s == <<"block", "lower">>
  <2>1. todo' = s
    BY <1>5 DEF Statements, AttestationType
  <2>2. Suffix(todo', s) /\ Len(todo') = 2
    <3>1. s \in Seq(Slots) /\ Len(s) = 2 /\ \A i \in 1..Len(s) : s[i] = s[Len(s) - Len(s) + i]
      <4>1. s \in Seq(Slots) /\ Len(s) = 2
        BY DEF Slots
      <4> HIDE DEF s
      <4> QED BY <4>1
    <3> QED BY <2>1, <3>1 DEF Suffix
  <2>3. Len(todo)' # 1
    BY <2>2
  <2> QED BY <1>2, <1>3, <2>2, <2>3 DEF HeightRead, Suffix
<1>6. ASSUME parsed'.attestationType = 4 PROVE NonexistenceRead'
  <2> DEFINE s == <<"overflow", "table0", "table1", "start", "end">>
  <2>1. CASE parsed'.paymentReference = 0
    <3>1. todo' = <<>>
      BY <1>6, <2>1 DEF Statements, AttestationType
    <3> QED BY <2>1, <3>1 DEF NonexistenceRead
  <2>2. CASE parsed'.paymentReference # 0
    <3>1. todo' = s
      BY <1>6, <2>2 DEF Statements, AttestationType
    <3>2. Suffix(todo', s) /\ Len(todo') = 5
      <4>1. s \in Seq(Slots) /\ Len(s) = 5 /\ \A i \in 1..Len(s) : s[i] = s[Len(s) - Len(s) + i]
        <5>1. s \in Seq(Slots) /\ Len(s) = 5
          BY DEF Slots
        <5> HIDE DEF s
        <5> QED BY <5>1
      <4> QED BY <3>1, <4>1 DEF Suffix
    <3>3. Len(todo)' \notin 1..4
      <4>1. ASSUME NEW k, k = 5 PROVE k \notin 1..4
        BY <4>1
      <4> QED BY <3>2, <4>1
    <3> QED BY <1>2, <1>3, <2>2, <3>2, <3>3 DEF NonexistenceRead, Suffix
  <2> QED BY <2>1, <2>2
<1> QED BY <1>2, <1>4, <1>5, <1>6 DEF GoodRead

\* A verification starts with nothing read, or it is refused.
LEMMA VerifyStarts ==
  ASSUME NEW b \in Seq(Octets), NEW supported \in BOOLEAN, Verify(b, supported),
         origin' = origin, who' = who, source' = source,
         (origin = "random" /\ who = 1 /\ parseRequest(b) # Throws) =>
           parseRequest(b).sourceId = SourceIds[source]
  PROVE  /\ parsed' = parseRequest(b)
         /\ \/ pc' = "read" /\ ReadInv' /\ UNCHANGED answer /\ parseRequest(b) # Throws
            \/ pc' = "answered" /\ answer' = [answer EXCEPT ![who] = Throws]
PROOF
<1> DEFINE req == parseRequest(b)
<1>1. /\ got' = [Unread EXCEPT !.table0 = {}, !.table1 = {}]
      /\ parsed' = req
      /\ IF ~supported \/ req = Throws
         THEN answer' = [answer EXCEPT ![who] = Throws] /\ pc' = "answered" /\ todo' = <<>>
         ELSE todo' = Statements(req) /\ pc' = "read" /\ UNCHANGED answer
  BY DEF Verify
<1>2. CASE ~supported \/ req = Throws
  BY <1>1, <1>2
<1>3. CASE supported /\ req # Throws
  <2>1. todo' = Statements(parsed') /\ pc' = "read" /\ UNCHANGED answer
    BY <1>1, <1>3
  <2>2. Request(req)
    <3>1. TypeIn(b) \in Types /\ Len(b) = TotalLength(RequestFields(TypeIn(b)))
      BY <1>3, ParsedIs
    <3>2. req \in [ARType[TypeIn(b)] -> Nat] /\ req.attestationType = TypeIn(b)
      BY <3>1, ParseIs
    <3> QED BY <3>1, <3>2 DEF Request
  <2>3. Request(parsed)'
    BY <1>1, <2>2 DEF Request
  <2>4. got' = [s \in Slots |-> got'[s]] /\ GoodRead'
    BY <1>1, <2>1, <2>3, StartIsGood
  <2>5. ((origin = "random" /\ who = 1) => parsed.sourceId = SourceIds[source])'
    BY <1>1, <1>3
  <2> QED BY <1>1, <1>3, <2>1, <2>3, <2>4, <2>5 DEF ReadInv
<1> QED BY <1>2, <1>3

\* The moves of an indexer leave what was read good.
LEMMA ReadStays ==
  ASSUME IndexersInv, who \in Verifiers, ReadInv, NEW v \in Verifiers, SaveBlock(v) \/ DropTable(v)
  PROVE  /\ ReadInv' /\ IndexersInv' /\ UNCHANGED work /\ chain' = chain /\ source' = source
         /\ \A w \in Verifiers : w # v => state'[w] = state[w]
PROOF
<1>1. IndexersInv' /\ Moved /\ \A w \in Verifiers : w # v => state'[w] = state[w]
  BY IndexersMove
<1>2. UNCHANGED work /\ chain' = chain /\ source' = source
  BY DEF SaveBlock, DropTable
<1>3. UNCHANGED <<origin, request, bytes, parsed, who, pc, todo, got, answer, verdict>>
  BY <1>2 DEF work
<1>4. GoodRead => GoodRead'
  BY <1>1, <1>3, GoodStays
<1>5. DeadRead => DeadRead'
  BY <1>3 DEF DeadRead
<1>6. ReadInv'
  BY <1>2, <1>3, <1>4, <1>5 DEF ReadInv, Request
<1> QED BY <1>1, <1>2, <1>6

-----------------------------------------------------------------------------
(* What a verifier makes of what it has read.                                *)

\* The class of transactions of each source.
Classes ==
  [BTC |-> "BtcTransaction", LTC |-> "LtcTransaction", DOGE |-> "DogeTransaction",
   XRP |-> "XrpTransaction", ALGO |-> "AlgoTransaction"]

\* The verification of each type.
Result(req, g) ==
  CASE req.attestationType = 1 -> verifyPayment(Classes[source], req, g)
    [] req.attestationType = 2 -> verifyBalanceDecreasingTransaction(Classes[source], req, g)
    [] req.attestationType = 3 -> verifyConfirmedBlockHeightExists(g)
    [] req.attestationType = 4 -> verifyReferencedPaymentNonExistence(Classes[source], req, g)

\* The verifiers of each source do the same, each for its class.
LEMMA Routed ==
  ASSUME NEW req, req.attestationType \in Types, NEW g
  PROVE  /\ source = "BTC" => verifyBTC(req, g) =
              IF req.sourceId # 0 THEN Throws ELSE Verification(req, Result(req, g))
         /\ source = "LTC" => verifyLTC(req, g) =
              IF req.sourceId # 1 THEN Throws ELSE Verification(req, Result(req, g))
         /\ source = "DOGE" => verifyDOGE(req, g) =
              IF req.sourceId # 2 THEN Throws ELSE Verification(req, Result(req, g))
         /\ source = "XRP" => verifyXRP(req, g) =
              IF req.sourceId # 3 THEN Throws ELSE Verification(req, Result(req, g))
         /\ source = "ALGO" => verifyALGO(req, g) =
              IF req.sourceId # 4 THEN Throws ELSE Verification(req, Result(req, g))
PROOF
<1>1. /\ req.attestationType = 1 \/ req.attestationType = 2
         \/ req.attestationType = 3 \/ req.attestationType = 4
  BY DEF Types
<1>2. /\ AttestationType.Payment = 1 /\ AttestationType.BalanceDecreasingTransaction = 2
      /\ AttestationType.ConfirmedBlockHeightExists = 3
      /\ AttestationType.ReferencedPaymentNonexistence = 4
      /\ SourceIds.BTC = 0 /\ SourceIds.LTC = 1 /\ SourceIds.DOGE = 2
      /\ SourceIds.XRP = 3 /\ SourceIds.ALGO = 4
  BY DEF AttestationType, SourceIds
<1>3. ASSUME source = "BTC"
      PROVE  verifyBTC(req, g) =
               IF req.sourceId # 0 THEN Throws ELSE Verification(req, Result(req, g))
  <2>1. Classes[source] = "BtcTransaction"
    BY <1>3 DEF Classes
  <2> QED BY <1>1, <1>2, <2>1
             DEF verifyBTC, verifyPaymentBTC, verifyBalanceDecreasingTransactionBTC,
                 verifyConfirmedBlockHeightExistsBTC, verifyReferencedPaymentNonexistenceBTC,
                 Result
<1>4. ASSUME source = "LTC"
      PROVE  verifyLTC(req, g) =
               IF req.sourceId # 1 THEN Throws ELSE Verification(req, Result(req, g))
  <2>1. Classes[source] = "LtcTransaction"
    BY <1>4 DEF Classes
  <2> QED BY <1>1, <1>2, <2>1
             DEF verifyLTC, verifyPaymentLTC, verifyBalanceDecreasingTransactionLTC,
                 verifyConfirmedBlockHeightExistsLTC, verifyReferencedPaymentNonexistenceLTC,
                 Result
<1>5. ASSUME source = "DOGE"
      PROVE  verifyDOGE(req, g) =
               IF req.sourceId # 2 THEN Throws ELSE Verification(req, Result(req, g))
  <2>1. Classes[source] = "DogeTransaction"
    BY <1>5 DEF Classes
  <2> QED BY <1>1, <1>2, <2>1
             DEF verifyDOGE, verifyPaymentDOGE, verifyBalanceDecreasingTransactionDOGE,
                 verifyConfirmedBlockHeightExistsDOGE, verifyReferencedPaymentNonexistenceDOGE,
                 Result
<1>6. ASSUME source = "XRP"
      PROVE  verifyXRP(req, g) =
               IF req.sourceId # 3 THEN Throws ELSE Verification(req, Result(req, g))
  <2>1. Classes[source] = "XrpTransaction"
    BY <1>6 DEF Classes
  <2> QED BY <1>1, <1>2, <2>1
             DEF verifyXRP, verifyPaymentXRP, verifyBalanceDecreasingTransactionXRP,
                 verifyConfirmedBlockHeightExistsXRP, verifyReferencedPaymentNonexistenceXRP,
                 Result
<1>7. ASSUME source = "ALGO"
      PROVE  verifyALGO(req, g) =
               IF req.sourceId # 4 THEN Throws ELSE Verification(req, Result(req, g))
  <2>1. Classes[source] = "AlgoTransaction"
    BY <1>7 DEF Classes
  <2> QED BY <1>1, <1>2, <2>1
             DEF verifyALGO, verifyPaymentALGO, verifyBalanceDecreasingTransactionALGO,
                 verifyConfirmedBlockHeightExistsALGO, verifyReferencedPaymentNonexistenceALGO,
                 Result
<1> QED BY <1>3, <1>4, <1>5, <1>6, <1>7

\* Both ways to the verifier of the source end there.
LEMMA ProcessedIs ==
  ASSUME IndexersInv, NEW req, req.attestationType \in Types, NEW g
  PROVE  /\ Processed(req, g) = IF req.sourceId # SourceIds[source] THEN Throws
                                ELSE Verification(req, Result(req, g))
         /\ req.sourceId = SourceIds[source] =>
              verifyAttestation(req, g) = Verification(req, Result(req, g))
PROOF
<1>1. source \in {"BTC", "LTC", "DOGE", "XRP", "ALGO"}
  BY ChainIs DEF SourceIds
<1>2. /\ SourceIds["BTC"] = 0 /\ SourceIds["LTC"] = 1 /\ SourceIds["DOGE"] = 2
      /\ SourceIds["XRP"] = 3 /\ SourceIds["ALGO"] = 4
      /\ DOMAIN SourceIds = {"BTC", "LTC", "DOGE", "XRP", "ALGO"}
  BY DEF SourceIds
<1>3. /\ SourceName(0) = "BTC" /\ SourceName(1) = "LTC" /\ SourceName(2) = "DOGE"
      /\ SourceName(3) = "XRP" /\ SourceName(4) = "ALGO"
  BY <1>2 DEF SourceName
<1>4. CASE source = "BTC"
  <2>1. Processed(req, g) = verifyBTC(req, g)
    BY <1>4 DEF Processed, BTCProcessorService
  <2>2. req.sourceId = 0 => verifyAttestation(req, g) = verifyBTC(req, g)
    BY <1>3 DEF verifyAttestation
  <2>3. verifyBTC(req, g) = IF req.sourceId # 0 THEN Throws ELSE Verification(req, Result(req, g))
    BY <1>4, Routed
  <2> QED BY <1>2, <1>4, <2>1, <2>2, <2>3
<1>5. CASE source = "LTC"
  <2>1. Processed(req, g) = verifyLTC(req, g)
    BY <1>5 DEF Processed, LTCProcessorService
  <2>2. req.sourceId = 1 => verifyAttestation(req, g) = verifyLTC(req, g)
    BY <1>3 DEF verifyAttestation
  <2>3. verifyLTC(req, g) = IF req.sourceId # 1 THEN Throws ELSE Verification(req, Result(req, g))
    BY <1>5, Routed
  <2> QED BY <1>2, <1>5, <2>1, <2>2, <2>3
<1>6. CASE source = "DOGE"
  <2>1. Processed(req, g) = verifyDOGE(req, g)
    BY <1>6 DEF Processed, DOGEProcessorService
  <2>2. req.sourceId = 2 => verifyAttestation(req, g) = verifyDOGE(req, g)
    BY <1>3 DEF verifyAttestation
  <2>3. verifyDOGE(req, g) = IF req.sourceId # 2 THEN Throws ELSE Verification(req, Result(req, g))
    BY <1>6, Routed
  <2> QED BY <1>2, <1>6, <2>1, <2>2, <2>3
<1>7. CASE source = "XRP"
  <2>1. Processed(req, g) = verifyXRP(req, g)
    BY <1>7 DEF Processed, XRPProcessorService
  <2>2. req.sourceId = 3 => verifyAttestation(req, g) = verifyXRP(req, g)
    BY <1>3 DEF verifyAttestation
  <2>3. verifyXRP(req, g) = IF req.sourceId # 3 THEN Throws ELSE Verification(req, Result(req, g))
    BY <1>7, Routed
  <2> QED BY <1>2, <1>7, <2>1, <2>2, <2>3
<1>8. CASE source = "ALGO"
  <2>1. Processed(req, g) = verifyALGO(req, g)
    BY <1>8 DEF Processed, ALGOProcessorService
  <2>2. req.sourceId = 4 => verifyAttestation(req, g) = verifyALGO(req, g)
    BY <1>3 DEF verifyAttestation
  <2>3. verifyALGO(req, g) = IF req.sourceId # 4 THEN Throws ELSE Verification(req, Result(req, g))
    BY <1>8, Routed
  <2> QED BY <1>2, <1>8, <2>1, <2>2, <2>3
<1> QED BY <1>1, <1>4, <1>5, <1>6, <1>7, <1>8

\* The response for a transaction.
TransactionResponse(req, row) ==
  IF req.attestationType = 1 THEN responsePayment(Classes[source], req, row)
  ELSE responseBalanceDecreasingTransaction(Classes[source], req, row)

\* What the result of a payment or a decreased balance says of the chain.
TransactionFacts(v, req, r) ==
  LET n == req.blockNumber
  IN  \/ r.status \in Indeterminate
      \/ /\ r.status = "NON_EXISTENT_TRANSACTION"
         /\ Held(v, {n}) => ~HasTransaction(n, req.id)
      \/ /\ n \in Saved(v)
         /\ \E tx \in chain[n].transactions :
              tx.id = req.id /\ r = TransactionResponse(req, TxRow(n, tx))

\* It is so when everything has been read.
LEMMA TransactionResult ==
  ASSUME IndexersInv, who \in Verifiers, Request(parsed), parsed.attestationType \in {1, 2},
         TransactionRead, todo = <<>>
  PROVE  TransactionFacts(who, parsed, Result(parsed, got))
PROOF
<1> DEFINE n == parsed.blockNumber
           id == parsed.id
           rows == got.table0 \cup got.table1
           row == Row1(got)
           r == Result(parsed, got)
<1>1. r = InBlock(got, TransactionResponse(parsed, row))
  <2>1. CASE parsed.attestationType = 1
    BY <2>1 DEF Result, TransactionResponse, verifyPayment
  <2>2. CASE parsed.attestationType = 2
    BY <2>2 DEF Result, TransactionResponse, verifyBalanceDecreasingTransaction
  <2> QED BY <2>1, <2>2
<1>2. /\ BlockRead /\ FromTables(got.table0) /\ FromTables(got.table1)
      /\ got.block # None => TablesRead(1)
  BY DEF TransactionRead
<1>3. Len(todo) = 0
  OBVIOUS
<1>4. parsed.attestationType # 4
  OBVIOUS
<1> HIDE DEF r
<1>5. CASE got.block = None
  <2>1. r = Status("DATA_AVAILABILITY_ISSUE")
    BY <1>1, <1>5 DEF InBlock, verifyWorkflowForBlockAvailability
  <2> QED BY <2>1 DEF TransactionFacts, Status, Indeterminate, r
<1>6. CASE got.block # None
  <2>1. n \in Saved(who) /\ got.block.blockNumber = n
    BY <1>2, <1>6, RowIs DEF BlockRead
  <2>2. AllWanted(0, got.table0) /\ AllWanted(1, got.table1)
    BY <1>2, <1>3, <1>6 DEF TablesRead
  <2>3. n \in Nat /\ n \in Blocks
    BY <2>1, IndexerIs
  <2>4. ASSUME NEW tx \in chain[n].transactions, tx.id = id, Held(who, {n})
        PROVE  TxRow(n, tx) \in rows
    <3>1. Wanted(parsed, got, n, tx) /\ n <= Limit(parsed, got)
      BY <1>4, <2>3, <2>4 DEF Wanted, Limit
    <3>2. n \in state[who].tables[0] \/ n \in state[who].tables[1]
      BY <2>4 DEF Held
    <3> QED BY <2>2, <3>1, <3>2 DEF AllWanted
  <2>5. CASE rows = {}
    <3>1. r = Status("NON_EXISTENT_TRANSACTION")
      BY <1>1, <1>6, <2>5
         DEF InBlock, verifyWorkflowForBlockAvailability, verifyWorkflowForTransaction
    <3>2. r.status = "NON_EXISTENT_TRANSACTION"
      BY <3>1 DEF Status
    <3>3. Held(who, {n}) => ~HasTransaction(n, id)
      BY <2>4, <2>5 DEF HasTransaction
    <3> QED BY <3>2, <3>3 DEF TransactionFacts, r
  <2>6. CASE rows # {}
    <3>1. row \in rows
      BY <2>6 DEF Row1
    <3>2. PICK m \in Saved(who) : \E tx \in chain[m].transactions :
            row = TxRow(m, tx) /\ Wanted(parsed, got, m, tx)
      BY <1>2, <3>1 DEF FromTables
    <3>3. PICK tx \in chain[m].transactions : row = TxRow(m, tx) /\ tx.id = id
      BY <1>4, <3>2 DEF Wanted
    <3>4. row.blockNumber = m
      BY <3>3, TxRowIs
    <3>5. r = IF m # n THEN Status("NON_EXISTENT_TRANSACTION") ELSE TransactionResponse(parsed, row)
      BY <1>1, <1>6, <2>1, <2>6, <3>4
         DEF InBlock, verifyWorkflowForBlockAvailability, verifyWorkflowForTransaction
    <3>6. CASE m # n
      <4>1. r.status = "NON_EXISTENT_TRANSACTION"
        BY <3>5, <3>6 DEF Status
      <4>2. ~HasTransaction(n, id)
        <5> SUFFICES ASSUME NEW other \in chain[n].transactions, other.id = id PROVE FALSE
          BY DEF HasTransaction
        <5>1. m \in Blocks
          BY <3>2, IndexerIs
        <5> QED BY <2>3, <3>3, <3>6, <5>1, ChainIs
      <4> QED BY <4>1, <4>2 DEF TransactionFacts, r
    <3>7. CASE m = n
      <4>1. /\ tx \in chain[n].transactions /\ row = TxRow(n, tx)
            /\ r = TransactionResponse(parsed, row)
        BY <3>3, <3>5, <3>7
      <4> QED BY <2>1, <3>3, <4>1 DEF TransactionFacts, r
    <3> QED BY <3>6, <3>7
  <2> QED BY <2>5, <2>6
<1> QED BY <1>5, <1>6

\* What the result for a block height says of the chain.
HeightFacts(v, req, r) ==
  LET n == req.blockNumber
  IN  \/ r.status \in Indeterminate
      \/ /\ n \in Saved(v)
         /\ \E low \in Blocks :
              /\ LastBefore(low, WindowStart(req))
              /\ r = responseConfirmedBlockHeightExists(Row(n, TRUE), Row(low, TRUE))

\* It is so when everything has been read.
LEMMA HeightResult ==
  ASSUME IndexersInv, who \in Verifiers, Request(parsed), parsed.attestationType = 3,
         HeightRead, todo = <<>>
  PROVE  HeightFacts(who, parsed, Result(parsed, got))
PROOF
<1> DEFINE n == parsed.blockNumber
           r == Result(parsed, got)
<1>1. r = verifyConfirmedBlockHeightExists(got)
  BY DEF Result
<1>2. /\ BlockRead
      /\ got.lower # None =>
           \E low \in Saved(who) :
             got.lower = Row(low, TRUE) /\ LastBefore(low, WindowStart(parsed))
  BY DEF HeightRead
<1> HIDE DEF r
<1>3. CASE got.block = None
  <2>1. r = Status("NON_EXISTENT_BLOCK")
    BY <1>1, <1>3 DEF verifyConfirmedBlockHeightExists, verifyWorkflowForBlock
  <2> QED BY <2>1 DEF HeightFacts, Status, Indeterminate, r
<1>4. CASE got.block # None /\ got.lower = None
  <2>1. r = Status("DATA_AVAILABILITY_ISSUE")
    BY <1>1, <1>4 DEF verifyConfirmedBlockHeightExists, verifyWorkflowForBlock
  <2> QED BY <2>1 DEF HeightFacts, Status, Indeterminate, r
<1>5. CASE got.block # None /\ got.lower # None
  <2>1. r = responseConfirmedBlockHeightExists(got.block, got.lower)
    BY <1>1, <1>5 DEF verifyConfirmedBlockHeightExists, verifyWorkflowForBlock
  <2>2. n \in Saved(who) /\ got.block = Row(n, TRUE)
    BY <1>2, <1>5 DEF BlockRead
  <2>3. PICK low \in Saved(who) : got.lower = Row(low, TRUE) /\ LastBefore(low, WindowStart(parsed))
    BY <1>2, <1>5
  <2>4. low \in Blocks
    BY <2>3, IndexerIs
  <2> QED BY <2>1, <2>2, <2>3, <2>4 DEF HeightFacts, r
<1> QED BY <1>3, <1>4, <1>5

\* The summary of a payment, by its first input: it is for all outputs to an address.
LEMMA SummaryIs ==
  ASSUME NEW tx \in Transactions, source \in DOMAIN SourceIds,
         source \in {"XRP", "ALGO"} => PaysOneAddress(tx), NEW o \in DOMAIN tx.outputs
  PROVE  LET s == PaymentSummary(Classes[source], tx, 0, o - 1)
         IN  /\ s.status = "Success" <=>
                  tx.isNativePayment /\ (source \notin {"XRP", "ALGO"} => tx.inputs > 0)
             /\ s.status = "Success" => s.receivedAmount = AmountTo(tx, tx.outputs[o].address)
PROOF
<1> DEFINE class == Classes[source]
           s == PaymentSummary(class, tx, 0, o - 1)
           out == IF class \in Utxo THEN (o - 1) + 1 ELSE 1
           fails == \/ ~tx.isNativePayment \/ out > Len(tx.outputs)
                    \/ (class \in Utxo /\ 0 >= tx.inputs)
<1>1. class \in Utxo <=> source \notin {"XRP", "ALGO"}
  BY DEF Classes, Utxo, SourceIds
<1>2. tx.inputs \in Nat /\ tx.outputs \in Seq([address : Nat, amount : Nat])
  BY DEF Transactions
<1>3. DOMAIN tx.outputs = 1..Len(tx.outputs) /\ Len(tx.outputs) \in Nat
  <2> DEFINE T == [address : Nat, amount : Nat]
  <2>1. tx.outputs \in Seq(T)
    BY <1>2
  <2> HIDE DEF T
  <2> QED BY <2>1
<1>4. s = IF fails THEN [status |-> "Failure"]
          ELSE [status |-> "Success", receivingAddressHash |-> tx.outputs[out].address,
                receivedAmount |-> AmountTo(tx, tx.outputs[out].address),
                sourceAddressHash |-> tx.source]
  BY DEF PaymentSummary
<1>5. /\ out \in DOMAIN tx.outputs /\ out <= Len(tx.outputs)
      /\ tx.outputs[out].address = tx.outputs[o].address
  <2>1. o \in 1..Len(tx.outputs)
    BY <1>3
  <2>2. CASE class \in Utxo
    <3>1. out = o
      BY <2>1, <2>2
    <3> QED BY <1>3, <2>1, <3>1
  <2>3. CASE class \notin Utxo
    <3>1. out = 1 /\ 1 \in DOMAIN tx.outputs /\ 1 <= Len(tx.outputs)
      BY <1>3, <2>1, <2>3
    <3>2. PaysOneAddress(tx)
      BY <1>1, <2>3
    <3>3. tx.outputs[1].address = tx.outputs[o].address
      BY <3>1, <3>2 DEF PaysOneAddress
    <3> QED BY <3>1, <3>3
  <2> QED BY <2>2, <2>3
<1> HIDE DEF s, out, class
<1>6. fails <=> ~(tx.isNativePayment /\ (source \notin {"XRP", "ALGO"} => tx.inputs > 0))
  <2>1. ~(out > Len(tx.outputs))
    <3>1. out \in Nat
      BY <1>3, <1>5
    <3> QED BY <1>3, <1>5, <3>1
  <2>2. 0 >= tx.inputs <=> ~(tx.inputs > 0)
    BY <1>2
  <2> QED BY <1>1, <2>1, <2>2
<1> HIDE DEF fails
<1>7. CASE fails
  <2>1. s = [status |-> "Failure"]
    BY <1>4, <1>7
  <2>2. s.status = "Failure"
    BY <2>1
  <2> QED BY <1>6, <1>7, <2>2 DEF s, class
<1>8. CASE ~fails
  <2>1. s.status = "Success" /\ s.receivedAmount = AmountTo(tx, tx.outputs[out].address)
    BY <1>4, <1>8
  <2> QED BY <1>5, <1>6, <1>8, <2>1 DEF s, class
<1> QED BY <1>7, <1>8

\* A transaction with the reference pays as asked exactly if it is the payment.
LEMMA PaysIsPayment ==
  ASSUME NEW tx \in Transactions, source \in DOMAIN SourceIds,
         source \in {"XRP", "ALGO"} => PaysOneAddress(tx),
         NEW req, tx.paymentReference = req.paymentReference
  PROVE  PaysAsAsked(Classes[source], tx, req) <=> IsPayment(tx, req)
PROOF
<1> DEFINE S(o) == PaymentSummary(Classes[source], tx, 0, o - 1)
           d == req.destinationAddressHash
           to == {o \in DOMAIN tx.outputs : tx.outputs[o].address = d}
           succeeds == tx.isNativePayment /\ (source \notin {"XRP", "ALGO"} => tx.inputs > 0)
<1>1. \A o \in DOMAIN tx.outputs :
        /\ S(o).status = "Success" <=> succeeds
        /\ S(o).status = "Success" => S(o).receivedAmount = AmountTo(tx, tx.outputs[o].address)
  BY SummaryIs
<1>2. DOMAIN tx.outputs = 1..Len(tx.outputs) /\ Len(tx.outputs) \in Nat
  <2> DEFINE T == [address : Nat, amount : Nat]
  <2>1. tx.outputs \in Seq(T)
    BY DEF Transactions
  <2> HIDE DEF T
  <2> QED BY <2>1
<1>3. PaysAsAsked(Classes[source], tx, req) <=>
        \E o \in DOMAIN tx.outputs :
          /\ tx.outputs[o].address = d
          /\ \A p \in 1..(o - 1) : tx.outputs[p].address # d
          /\ S(o).status = "Success"
          /\ S(o).receivedAmount >= req.amount
          /\ tx.status # SENDER_FAILURE
  BY DEF PaysAsAsked
<1> HIDE DEF S
<1>4. ASSUME PaysAsAsked(Classes[source], tx, req) PROVE IsPayment(tx, req)
  <2>1. PICK o \in DOMAIN tx.outputs :
          /\ tx.outputs[o].address = d
          /\ S(o).status = "Success" /\ S(o).receivedAmount >= req.amount
          /\ tx.status # SENDER_FAILURE
    BY <1>3, <1>4
  <2>2. succeeds /\ AmountTo(tx, d) >= req.amount /\ o \in to
    BY <1>1, <2>1
  <2>3. source \in {"XRP", "ALGO"} => 1 \in to
    <3> HAVE source \in {"XRP", "ALGO"}
    <3>1. 1 \in DOMAIN tx.outputs
      BY <1>2
    <3> QED BY <2>1, <3>1 DEF PaysOneAddress
  <2> QED BY <2>1, <2>2, <2>3 DEF IsPayment
<1>5. ASSUME IsPayment(tx, req) PROVE PaysAsAsked(Classes[source], tx, req)
  <2>1. /\ tx.isNativePayment /\ to # {} /\ tx.status # SENDER_FAILURE
        /\ AmountTo(tx, d) >= req.amount
        /\ source \notin {"XRP", "ALGO"} => tx.inputs > 0
    BY <1>5 DEF IsPayment
  <2>2. to \in SUBSET Nat
    BY <1>2
  <2>3. PICK o \in to : \A p \in to : o <= p
    <3> HIDE DEF to
    <3> QED BY <2>1, <2>2, Least
  <2>4. o \in DOMAIN tx.outputs /\ tx.outputs[o].address = d /\ o \in Nat
    BY <2>2
  <2>5. \A p \in 1..(o - 1) : tx.outputs[p].address # d
    <3> SUFFICES ASSUME NEW p \in 1..(o - 1), tx.outputs[p].address = d PROVE FALSE
      OBVIOUS
    <3>1. p \in DOMAIN tx.outputs /\ ~(o <= p)
      BY <1>2, <2>4
    <3> QED BY <2>3, <3>1
  <2>6. S(o).status = "Success" /\ S(o).receivedAmount = AmountTo(tx, d)
    BY <1>1, <2>1, <2>4
  <2> QED BY <1>3, <2>1, <2>4, <2>5, <2>6
<1> QED BY <1>4, <1>5

\* The block that was found after the deadline is the first one of the chain.
LEMMA OverflowIs ==
  ASSUME IndexersInv, NEW v \in Verifiers, NEW req, Request(req), req.attestationType = 4, NEW o,
         FirstAfter(v, o, req.deadlineTimestamp, req.deadlineBlockNumber),
         req.minimalBlockNumber \in Saved(v), req.minimalBlockNumber < o
  PROVE  /\ Overflow(req) = {o} /\ o \in Blocks /\ o \in Nat
         /\ Window(req) = req.minimalBlockNumber..(o - 1)
PROOF
<1> DEFINE low == req.minimalBlockNumber
           time == req.deadlineTimestamp
           number == req.deadlineBlockNumber
           After(m) == m > number /\ chain[m].timestamp > time
<1>1. /\ o \in Saved(v) /\ After(o)
      /\ \A m \in Saved(v) : After(m) => o <= m
  BY DEF FirstAfter
<1>2. /\ Saved(v) \subseteq Blocks /\ Saved(v) \subseteq Nat /\ state[v].first \in Nat
      /\ state[v].N \in Nat /\ state[v].N <= Len(chain) /\ Blocks = 1..Len(chain)
      /\ Len(chain) \in Nat
  BY IndexerIs, ChainIs
<1>3. low \in Nat /\ number \in Nat /\ time \in Nat /\ o \in Nat /\ o \in Blocks /\ low \in Blocks
  BY <1>1, <1>2, RequestIs
<1>4. /\ \A m \in Blocks : chain[m].timestamp \in Nat
      /\ \A m, n \in Blocks : m <= n => chain[m].timestamp <= chain[n].timestamp
  BY ChainIs
<1>5. ASSUME NEW m \in Blocks, After(m) PROVE o <= m
  <2>1. m \in Nat /\ m > number
    BY <1>2, <1>5
  <2>2. CASE m \in Saved(v)
    BY <1>1, <1>5, <2>2
  <2>3. CASE m > state[v].N
    <3>1. o <= state[v].N
      BY <1>1, <1>2 DEF Saved
    <3> QED BY <1>2, <1>3, <2>1, <2>3, <3>1
  <2>4. CASE m < state[v].first
    <3>1. m <= low
      BY <1>2, <1>3, <2>1, <2>4 DEF Saved
    <3>2. low > number
      BY <1>3, <2>1, <3>1
    <3>3. chain[low].timestamp > time
      <4>1. chain[m].timestamp <= chain[low].timestamp
        BY <1>3, <1>4, <3>1
      <4>2. chain[m].timestamp \in Nat /\ chain[low].timestamp \in Nat /\ chain[m].timestamp > time
        BY <1>3, <1>4, <1>5
      <4> HIDE DEF time
      <4> QED BY <1>3, <4>1, <4>2
    <3>4. o <= low
      BY <1>1, <3>2, <3>3
    <3> QED BY <1>3, <3>4
  <2> QED BY <1>2, <2>1, <2>2, <2>3, <2>4 DEF Saved
<1>6. Overflow(req) = {n \in Blocks : After(n) /\ \A m \in Blocks : After(m) => n <= m}
  BY DEF Overflow
<1> HIDE DEF After
<1>7. ASSUME NEW n \in Blocks, After(n), \A m \in Blocks : After(m) => n <= m PROVE n = o
  <2>1. n <= o /\ o <= n
    BY <1>1, <1>3, <1>5, <1>7
  <2> QED BY <1>2, <1>3, <2>1
<1>8. Overflow(req) = {o}
  BY <1>1, <1>3, <1>5, <1>6, <1>7
<1>9. (CHOOSE n \in Overflow(req) : TRUE) = o
  BY <1>8
<1>10. Window(req) = low..(o - 1)
  BY <1>9 DEF Window
<1> QED BY <1>3, <1>8, <1>10

\* What the result for a payment that was not made says of the chain.
NonexistenceFacts(v, req, r) ==
  LET low == req.minimalBlockNumber
  IN  \/ r.status \in Indeterminate
      \/ req.paymentReference = 0 /\ r = Status("ZERO_PAYMENT_REFERENCE_UNSUPPORTED")
      \/ /\ r = Status("NOT_CONFIRMED")
         /\ \E o \in Blocks : /\ o > req.deadlineBlockNumber
                              /\ chain[o].timestamp > req.deadlineTimestamp /\ low >= o
      \/ r = Status("REFERENCED_TRANSACTION_EXISTS") /\ Paid(req)
      \/ \E o \in Overflow(req) :
           /\ low \in Saved(v) /\ low < o /\ req.paymentReference # 0
           /\ r = responseReferencedPaymentNonExistence(Classes[source], req, {},
                                                        Row(o, TRUE), Row(low, TRUE))
           /\ Held(v, Window(req)) => ~Paid(req)

\* It is so when everything has been read.
LEMMA NonexistenceResult ==
  ASSUME IndexersInv, who \in Verifiers, Request(parsed), parsed.attestationType = 4,
         NonexistenceRead, todo = <<>>
  PROVE  NonexistenceFacts(who, parsed, Result(parsed, got))
PROOF
<1> DEFINE low == parsed.minimalBlockNumber
           rows == got.table0 \cup got.table1
           class == Classes[source]
           r == Result(parsed, got)
<1>1. r = verifyReferencedPaymentNonExistence(class, parsed, got)
  BY DEF Result
<1>2. Len(todo) = 0
  OBVIOUS
<1> HIDE DEF r
<1>3. CASE parsed.paymentReference = 0
  <2>1. r = Status("ZERO_PAYMENT_REFERENCE_UNSUPPORTED")
    BY <1>1, <1>3 DEF verifyReferencedPaymentNonExistence
  <2> QED BY <1>3, <2>1 DEF NonexistenceFacts, r
<1>4. CASE parsed.paymentReference # 0 /\ (got.overflow = None \/ got.start = None)
  <2>1. r = Status("DATA_AVAILABILITY_ISSUE")
    BY <1>1, <1>4
       DEF verifyReferencedPaymentNonExistence, verifyWorkflowForReferencedTransactions
  <2>2. r.status = "DATA_AVAILABILITY_ISSUE"
    BY <2>1 DEF Status
  <2> QED BY <2>2 DEF NonexistenceFacts, Indeterminate, r
<1>5. CASE parsed.paymentReference # 0 /\ got.overflow # None /\ got.start # None
  <2>1. /\ FromTables(got.table0) /\ FromTables(got.table1) /\ TablesRead(3)
        /\ low \in Saved(who) /\ got.start = Row(low, TRUE)
    BY <1>5 DEF NonexistenceRead
  <2>2. PICK o : /\ FirstAfter(who, o, parsed.deadlineTimestamp, parsed.deadlineBlockNumber)
                 /\ got.overflow = Row(o, TRUE)
    BY <1>5 DEF NonexistenceRead
  <2>3. got.overflow.blockNumber = o
    BY <2>2, RowIs
  <2>4. r = IF low >= o THEN Status("NOT_CONFIRMED")
            ELSE responseReferencedPaymentNonExistence(class, parsed, rows,
                                                       got.overflow, got.start)
    BY <1>1, <1>5, <2>3
       DEF verifyReferencedPaymentNonExistence, verifyWorkflowForReferencedTransactions
  <2>5. /\ low \in Nat /\ low # 0 /\ o \in Nat /\ o \in Blocks
        /\ o > parsed.deadlineBlockNumber /\ chain[o].timestamp > parsed.deadlineTimestamp
    <3>1. o \in Saved(who) /\ o > parsed.deadlineBlockNumber
          /\ chain[o].timestamp > parsed.deadlineTimestamp
      BY <2>2 DEF FirstAfter
    <3>2. Saved(who) \subseteq Nat /\ Saved(who) \subseteq Blocks /\ 0 \notin Saved(who)
      BY IndexerIs DEF Saved
    <3> QED BY <2>1, <3>1, <3>2
  <2>6. CASE low >= o
    <3>1. r = Status("NOT_CONFIRMED")
      BY <2>4, <2>6
    <3> QED BY <2>5, <2>6, <3>1 DEF NonexistenceFacts, r
  <2>7. CASE ~(low >= o)
    <3>1. low < o
      BY <2>5, <2>7
    <3>2. Overflow(parsed) = {o} /\ Window(parsed) = low..(o - 1)
      BY <2>1, <2>2, <3>1, OverflowIs
    <3>3. /\ o - 1 # 0 /\ o - 1 \in Nat /\ Limit(parsed, got) = o - 1
      BY <2>3, <2>5, <3>1 DEF Limit
    <3>4. AllWanted(0, got.table0) /\ AllWanted(1, got.table1)
      BY <1>2, <2>1 DEF TablesRead
    <3>5. \A m, tx : Wanted(parsed, got, m, tx) <=>
             tx.paymentReference = parsed.paymentReference /\ m >= low /\ m <= o - 1
      BY <2>3, <2>5, <3>3 DEF Wanted
    <3>6. ASSUME NEW m \in Blocks, NEW tx \in chain[m].transactions,
                 tx.paymentReference = parsed.paymentReference
          PROVE  PaysAsAsked(class, tx, parsed) <=> IsPayment(tx, parsed)
      <4>1. /\ tx \in Transactions /\ source \in DOMAIN SourceIds
            /\ source \in {"XRP", "ALGO"} => PaysOneAddress(tx)
        BY ChainIs
      <4> QED BY <3>6, <4>1, PaysIsPayment
    <3>7. Saved(who) \subseteq Blocks /\ Saved(who) \subseteq Nat
      BY IndexerIs
    <3>8. CASE \E row \in rows : PaysAsAsked(class, row.response, parsed)
      <4>1. PICK row \in rows : PaysAsAsked(class, row.response, parsed)
        BY <3>8
      <4>2. PICK m \in Saved(who) : \E tx \in chain[m].transactions :
              row = TxRow(m, tx) /\ Wanted(parsed, got, m, tx)
        BY <2>1, <4>1 DEF FromTables
      <4>3. PICK tx \in chain[m].transactions : row = TxRow(m, tx) /\ Wanted(parsed, got, m, tx)
        BY <4>2
      <4>4. row.response = tx
        BY <4>3, TxRowIs
      <4>5. IsPayment(tx, parsed)
        BY <3>5, <3>6, <3>7, <4>1, <4>3, <4>4
      <4>6. m \in Window(parsed) /\ m \in Blocks
        BY <2>5, <3>2, <3>3, <3>5, <3>7, <4>3
      <4>7. Paid(parsed)
        BY <4>5, <4>6 DEF Paid
      <4>8. r = Status("REFERENCED_TRANSACTION_EXISTS")
        BY <2>4, <2>7, <3>8 DEF responseReferencedPaymentNonExistence
      <4> QED BY <4>7, <4>8 DEF NonexistenceFacts, r
    <3>9. CASE ~\E row \in rows : PaysAsAsked(class, row.response, parsed)
      <4>1. responseReferencedPaymentNonExistence(class, parsed, rows, got.overflow, got.start)
            = responseReferencedPaymentNonExistence(class, parsed, {}, got.overflow, got.start)
        BY <3>9 DEF responseReferencedPaymentNonExistence
      <4>2. r = responseReferencedPaymentNonExistence(class, parsed, {},
                                                      Row(o, TRUE), Row(low, TRUE))
        BY <2>1, <2>2, <2>4, <2>7, <4>1
      <4>3. ASSUME Held(who, Window(parsed)), Paid(parsed) PROVE FALSE
        <5>1. PICK n \in Window(parsed) \cap Blocks : \E tx \in chain[n].transactions :
                IsPayment(tx, parsed)
          BY <4>3 DEF Paid
        <5>2. PICK tx \in chain[n].transactions : IsPayment(tx, parsed)
          BY <5>1
        <5>3. tx.paymentReference = parsed.paymentReference
          BY <5>2 DEF IsPayment
        <5>4. n >= low /\ n <= o - 1
          BY <2>5, <3>2, <3>3
        <5>5. Wanted(parsed, got, n, tx) /\ n <= Limit(parsed, got)
          BY <3>3, <3>5, <5>3, <5>4
        <5>6. n \in state[who].tables[0] \/ n \in state[who].tables[1]
          BY <4>3 DEF Held
        <5>7. TxRow(n, tx) \in rows
          BY <3>4, <5>5, <5>6 DEF AllWanted
        <5>8. TxRow(n, tx).response = tx
          BY TxRowIs
        <5>9. PaysAsAsked(class, tx, parsed)
          BY <3>6, <5>2, <5>3
        <5> QED BY <3>9, <5>7, <5>8, <5>9
      <4> QED BY <1>5, <2>1, <3>1, <3>2, <4>2, <4>3 DEF NonexistenceFacts, r
    <3> QED BY <3>8, <3>9
  <2> QED BY <2>6, <2>7
<1> QED BY <1>3, <1>4, <1>5

\* What the result of a verification says of the chain.
ResultFacts(v, req, r) ==
  /\ req.attestationType \in {1, 2} => TransactionFacts(v, req, r)
  /\ req.attestationType = 3 => HeightFacts(v, req, r)
  /\ req.attestationType = 4 => NonexistenceFacts(v, req, r)

\* What is known of an answer to a request.
AnswerFacts(v, req, a) ==
  \/ a = Throws
  \/ /\ Request(req) /\ req.sourceId = SourceIds[source]
     /\ \E r : ResultFacts(v, req, r) /\ a = Verification(req, r)

\* The facts are of the chain and of the verifier's own database.
LEMMA FactsStay ==
  ASSUME NEW v, NEW req, NEW a, AnswerFacts(v, req, a),
         chain' = chain, source' = source, state'[v] = state[v]
  PROVE  AnswerFacts(v, req, a)'
PROOF
<1>1. CASE a = Throws
  BY <1>1 DEF AnswerFacts
<1>2. ASSUME NEW r PROVE ResultFacts(v, req, r)' <=> ResultFacts(v, req, r)
  <2>1. Saved(v)' = Saved(v) /\ Blocks' = Blocks /\ \A s : Held(v, s)' = Held(v, s)
    BY DEF Saved, Blocks, Held
  <2>2. /\ \A n : Row(n, TRUE)' = Row(n, TRUE)
        /\ \A n, tx : TxRow(n, tx)' = TxRow(n, tx)
    BY DEF Row, TxRow
  <2>3. TransactionFacts(v, req, r)' <=> TransactionFacts(v, req, r)
    <3>1. \A n, id : HasTransaction(n, id)' = HasTransaction(n, id)
      BY <2>1 DEF HasTransaction
    <3>2. \A row : TransactionResponse(req, row)' = TransactionResponse(req, row)
      BY DEF TransactionResponse
    <3>3. /\ Held(v, {req.blockNumber})' = Held(v, {req.blockNumber})
          /\ HasTransaction(req.blockNumber, req.id)' = HasTransaction(req.blockNumber, req.id)
      BY <2>1, <3>1
    <3>4. \A tx : (r = TransactionResponse(req, TxRow(req.blockNumber, tx)))'
                  = (r = TransactionResponse(req, TxRow(req.blockNumber, tx)))
      BY <2>2, <3>2
    <3> QED BY <2>1, <3>3, <3>4 DEF TransactionFacts
  <2>4. HeightFacts(v, req, r)' <=> HeightFacts(v, req, r)
    <3>1. \A low, time : LastBefore(low, time)' = LastBefore(low, time)
      BY <2>1 DEF LastBefore
    <3>2. WindowStart(req)' = WindowStart(req)
      BY DEF WindowStart
    <3> QED BY <2>1, <2>2, <3>1, <3>2 DEF HeightFacts
  <2>5. NonexistenceFacts(v, req, r)' <=> NonexistenceFacts(v, req, r)
    <3>1. Overflow(req)' = Overflow(req)
      BY <2>1 DEF Overflow
    <3>2. Window(req)' = Window(req)
      BY <3>1 DEF Window
    <3>3. \A tx : IsPayment(tx, req)' = IsPayment(tx, req)
      BY DEF IsPayment
    <3>4. Paid(req)' = Paid(req)
      BY <2>1, <3>2, <3>3 DEF Paid
    <3>5. Held(v, Window(req))' = Held(v, Window(req))
      BY <3>2 DEF Held
    <3>6. \A o : (r = responseReferencedPaymentNonExistence(Classes[source], req, {},
                        Row(o, TRUE), Row(req.minimalBlockNumber, TRUE)))'
                = (r = responseReferencedPaymentNonExistence(Classes[source], req, {},
                        Row(o, TRUE), Row(req.minimalBlockNumber, TRUE)))
      <4>1. Row(req.minimalBlockNumber, TRUE)' = Row(req.minimalBlockNumber, TRUE)
        BY <2>2
      <4>2. \A x, y : responseReferencedPaymentNonExistence(Classes[source], req, {}, x, y)'
                      = responseReferencedPaymentNonExistence(Classes[source], req, {}, x, y)
        BY DEF responseReferencedPaymentNonExistence
      <4> QED BY <2>2, <4>1, <4>2
    <3>7. \A o \in Blocks : (chain[o].timestamp > req.deadlineTimestamp)'
                             = (chain[o].timestamp > req.deadlineTimestamp)
      OBVIOUS
    <3> DEFINE After(o) == chain[o].timestamp > req.deadlineTimestamp
               Answered(o) == r = responseReferencedPaymentNonExistence(Classes[source], req, {},
                                    Row(o, TRUE), Row(req.minimalBlockNumber, TRUE))
    <3>8. /\ \A o : After(o)' = After(o)
          /\ \A o : Answered(o)' = Answered(o)
      BY <3>6
    <3> HIDE DEF After, Answered
    <3>9. /\ (\E o \in Blocks : o > req.deadlineBlockNumber /\ After(o)
                              /\ req.minimalBlockNumber >= o)'
             <=> \E o \in Blocks : o > req.deadlineBlockNumber /\ After(o)
                              /\ req.minimalBlockNumber >= o
          /\ (\E o \in Overflow(req) :
                /\ req.minimalBlockNumber \in Saved(v) /\ req.minimalBlockNumber < o
                /\ req.paymentReference # 0 /\ Answered(o)
                /\ Held(v, Window(req)) => ~Paid(req))'
             <=> \E o \in Overflow(req) :
                /\ req.minimalBlockNumber \in Saved(v) /\ req.minimalBlockNumber < o
                /\ req.paymentReference # 0 /\ Answered(o)
                /\ Held(v, Window(req)) => ~Paid(req)
      BY <2>1, <3>1, <3>2, <3>4, <3>5, <3>8
    <3> QED BY <3>4, <3>9 DEF NonexistenceFacts, After, Answered
  <2> QED BY <2>3, <2>4, <2>5 DEF ResultFacts
<1>3. CASE a # Throws
  <2>1. /\ Request(req) /\ req.sourceId = SourceIds[source]
        /\ \E r : ResultFacts(v, req, r) /\ a = Verification(req, r)
    BY <1>3 DEF AnswerFacts
  <2>2. PICK r : ResultFacts(v, req, r) /\ a = Verification(req, r)
    BY <2>1
  <2>3. ResultFacts(v, req, r)'
    BY <1>2, <2>2
  <2> QED BY <2>1, <2>2, <2>3 DEF AnswerFacts
<1> QED BY <1>1, <1>3

\* The answer of a verifier that has read everything.
LEMMA AnswerIs ==
  ASSUME IndexersInv, who \in Verifiers, ReadInv, Answer, answer = [w \in Verifiers |-> answer[w]]
  PROVE  AnswerFacts(who, parsed, answer'[who])
PROOF
<1>1. /\ pc = "read" /\ todo = <<>>
      /\ answer' = [answer EXCEPT ![who] =
           IF \E s \in DOMAIN got : got[s] = Throws THEN Throws
           ELSE IF who = 1 /\ origin = "random" THEN verifyAttestation(parsed, got)
           ELSE Processed(parsed, got)]
  BY DEF Answer
<1>2. answer'[who] = IF \E s \in DOMAIN got : got[s] = Throws THEN Throws
                     ELSE IF who = 1 /\ origin = "random" THEN verifyAttestation(parsed, got)
                     ELSE Processed(parsed, got)
  <2>1. \A x : [answer EXCEPT ![who] = x][who] = x
    BY who \in DOMAIN answer
  <2> QED BY <1>1, <2>1
<1>3. /\ Request(parsed)
      /\ (origin = "random" /\ who = 1) => parsed.sourceId = SourceIds[source]
      /\ DeadRead \/ GoodRead
  BY <1>1 DEF ReadInv
<1>4. CASE \E s \in DOMAIN got : got[s] = Throws
  BY <1>2, <1>4 DEF AnswerFacts
<1>5. CASE ~\E s \in DOMAIN got : got[s] = Throws
  <2>1. GoodRead
    BY <1>3, <1>5 DEF DeadRead
  <2>2. parsed.attestationType \in Types
    BY <1>3 DEF Request
  <2>3. ResultFacts(who, parsed, Result(parsed, got))
    <3>1. parsed.attestationType \in {1, 2} => TransactionFacts(who, parsed, Result(parsed, got))
      BY <1>1, <1>3, <2>1, TransactionResult DEF GoodRead
    <3>2. parsed.attestationType = 3 => HeightFacts(who, parsed, Result(parsed, got))
      BY <1>1, <1>3, <2>1, HeightResult DEF GoodRead
    <3>3. parsed.attestationType = 4 => NonexistenceFacts(who, parsed, Result(parsed, got))
      BY <1>1, <1>3, <2>1, NonexistenceResult DEF GoodRead
    <3> QED BY <3>1, <3>2, <3>3 DEF ResultFacts
  <2>4. /\ Processed(parsed, got) = IF parsed.sourceId # SourceIds[source] THEN Throws
                                    ELSE Verification(parsed, Result(parsed, got))
        /\ parsed.sourceId = SourceIds[source] =>
             verifyAttestation(parsed, got) = Verification(parsed, Result(parsed, got))
    BY <2>2, ProcessedIs
  <2>5. \/ answer'[who] = Throws
        \/ /\ parsed.sourceId = SourceIds[source]
           /\ answer'[who] = Verification(parsed, Result(parsed, got))
    BY <1>2, <1>3, <1>5, <2>4
  <2> QED BY <1>3, <2>3, <2>5 DEF AnswerFacts
<1> QED BY <1>4, <1>5

\* The response for a transaction tells its hash, block and time.
LEMMA TransactionResponseIs ==
  ASSUME NEW req, req.attestationType \in {1, 2}, NEW row
  PROVE  LET r == TransactionResponse(req, row)
         IN  \/ r = Status("NOT_CONFIRMED")
             \/ /\ r.status = "OK" /\ r = Response(r.response)
                /\ r.response.transactionHash = row.transactionId
                /\ r.response.blockNumber = row.blockNumber
                /\ r.response.blockTimestamp = row.timestamp
                /\ DOMAIN r.response = DHType[req.attestationType]
PROOF
<1> DEFINE r == TransactionResponse(req, row)
<1>1. ASSUME NEW x PROVE Response(x).status = "OK" /\ Response(x).response = x
  BY DEF Response
<1>2. CASE req.attestationType = 1
  <2> DEFINE s == PaymentSummary(Classes[source], row.response, req.inUtxo, req.utxo)
             x == [stateConnectorRound |-> 0, blockNumber |-> row.blockNumber,
                   blockTimestamp |-> row.timestamp, transactionHash |-> row.transactionId,
                   inUtxo |-> req.inUtxo, utxo |-> req.utxo,
                   sourceAddressHash |-> s.sourceAddressHash,
                   intendedSourceAddressHash |-> s.sourceAddressHash,
                   receivingAddressHash |-> s.receivingAddressHash,
                   intendedReceivingAddressHash |-> s.receivingAddressHash,
                   paymentReference |-> row.paymentReference, spentAmount |-> s.receivedAmount,
                   intendedSpentAmount |-> s.receivedAmount, receivedAmount |-> s.receivedAmount,
                   intendedReceivedAmount |-> s.receivedAmount, oneToOne |-> 1,
                   status |-> row.response.status]
  <2>1. r = IF s.status # "Success" THEN Status("NOT_CONFIRMED") ELSE Response(x)
    BY <1>2 DEF TransactionResponse, responsePayment
  <2> HIDE DEF s
  <2>2. DOMAIN x = DHPayment
    BY DEF DHPayment
  <2>3. /\ x.transactionHash = row.transactionId /\ x.blockNumber = row.blockNumber
        /\ x.blockTimestamp = row.timestamp
    OBVIOUS
  <2>4. DHType[1] = DHPayment
    BY DEF DHType
  <2> HIDE DEF x, r
  <2> QED BY <1>1, <1>2, <2>1, <2>2, <2>3, <2>4 DEF r
<1>3. CASE req.attestationType = 2
  <2> DEFINE s == BalanceDecreasingSummary(Classes[source], row.response,
                                           req.sourceAddressIndicator)
             x == [stateConnectorRound |-> 0, blockNumber |-> row.blockNumber,
                   blockTimestamp |-> row.timestamp, transactionHash |-> row.transactionId,
                   sourceAddressIndicator |-> req.sourceAddressIndicator,
                   sourceAddressHash |-> s.sourceAddressHash, spentAmount |-> s.spentAmount,
                   paymentReference |-> row.paymentReference]
  <2>1. r = IF s.status # "Success" THEN Status("NOT_CONFIRMED") ELSE Response(x)
    BY <1>3 DEF TransactionResponse, responseBalanceDecreasingTransaction
  <2> HIDE DEF s
  <2>2. DOMAIN x = DHBalanceDecreasingTransaction
    BY DEF DHBalanceDecreasingTransaction
  <2>3. /\ x.transactionHash = row.transactionId /\ x.blockNumber = row.blockNumber
        /\ x.blockTimestamp = row.timestamp
    OBVIOUS
  <2>4. DHType[2] = DHBalanceDecreasingTransaction
    BY DEF DHType
  <2> HIDE DEF x, r
  <2> QED BY <1>1, <1>3, <2>1, <2>2, <2>3, <2>4 DEF r
<1> QED BY <1>2, <1>3

\* The response for a block height.
IsHeightResponse(r, row, low) ==
  /\ r.status = "OK" /\ r = Response(r.response)
  /\ r.response.blockTimestamp = row.timestamp
  /\ r.response.lowestQueryWindowBlockNumber = low.blockNumber
  /\ DOMAIN r.response = DHType[3]

\* It tells the time of the block and the number of the one before the window.
LEMMA HeightResponseIs ==
  ASSUME NEW row, NEW low
  PROVE  IsHeightResponse(responseConfirmedBlockHeightExists(row, low), row, low)
PROOF
<1> DEFINE r == responseConfirmedBlockHeightExists(row, low)
<1>1. ASSUME NEW x PROVE Response(x).status = "OK" /\ Response(x).response = x
  BY DEF Response
<1> DEFINE x == [stateConnectorRound |-> 0, blockNumber |-> row.blockNumber,
                 blockTimestamp |-> row.timestamp, numberOfConfirmations |-> Confirmations,
                 lowestQueryWindowBlockNumber |-> low.blockNumber,
                 lowestQueryWindowBlockTimestamp |-> low.timestamp]
<1>2. r = Response(x)
  BY DEF responseConfirmedBlockHeightExists
<1>3. x.blockTimestamp = row.timestamp /\ x.lowestQueryWindowBlockNumber = low.blockNumber
  OBVIOUS
<1>4. DOMAIN x = DHType[3]
  BY DEF DHType, DHConfirmedBlockHeightExists
<1> HIDE DEF x, r
<1> QED BY <1>1, <1>2, <1>3, <1>4 DEF IsHeightResponse, r

\* The response for a payment that was not made.
IsNonexistenceResponse(r, row, low) ==
  /\ r.status = "OK" /\ r = Response(r.response)
  /\ r.response.firstOverflowBlockNumber = row.blockNumber
  /\ r.response.lowerBoundaryBlockNumber = low.blockNumber
  /\ DOMAIN r.response = DHType[4]

\* It tells the numbers of the blocks around the window.
LEMMA NonexistenceResponseIs ==
  ASSUME NEW class, NEW req, NEW row, NEW low
  PROVE  IsNonexistenceResponse(
           responseReferencedPaymentNonExistence(class, req, {}, row, low), row, low)
PROOF
<1> DEFINE r == responseReferencedPaymentNonExistence(class, req, {}, row, low)
<1>1. ASSUME NEW x PROVE Response(x).status = "OK" /\ Response(x).response = x
  BY DEF Response
<1> DEFINE y == [stateConnectorRound |-> 0, deadlineBlockNumber |-> req.deadlineBlockNumber,
                 deadlineTimestamp |-> req.deadlineTimestamp,
                 destinationAddressHash |-> req.destinationAddressHash,
                 paymentReference |-> req.paymentReference, amount |-> req.amount,
                 lowerBoundaryBlockNumber |-> low.blockNumber,
                 lowerBoundaryBlockTimestamp |-> low.timestamp,
                 firstOverflowBlockNumber |-> row.blockNumber,
                 firstOverflowBlockTimestamp |-> row.timestamp]
<1>2. r = Response(y)
  BY DEF responseReferencedPaymentNonExistence
<1>3. y.firstOverflowBlockNumber = row.blockNumber /\ y.lowerBoundaryBlockNumber = low.blockNumber
  OBVIOUS
<1>4. DOMAIN y = DHType[4]
  BY DEF DHType, DHReferencedPaymentNonexistence
<1> HIDE DEF y, r
<1> QED BY <1>1, <1>2, <1>3, <1>4 DEF IsNonexistenceResponse, r

\* What a verification adds to a result.
LEMMA VerificationIs ==
  ASSUME NEW req, NEW r, Verification(req, r) # Throws
  PROVE  LET a == Verification(req, r)
         IN  /\ a.status = r.status
             /\ r.status # "OK" => a = r
             /\ r.status = "OK" =>
                  /\ a.response = r.response /\ a.request = req
                  /\ dataHash(req, r.response, NoSalt) # Throws
PROOF
<1>1. CASE r.status # "OK"
  BY <1>1 DEF Verification
<1>2. CASE r.status = "OK"
  <2> DEFINE hash == dataHash(req, r.response, NoSalt)
             x == [status |-> "OK", request |-> req, response |-> r.response, hash |-> hash]
  <2>1. hash # Throws /\ Verification(req, r) = x
    BY <1>2 DEF Verification
  <2>2. x.status = "OK" /\ x.response = r.response /\ x.request = req
    OBVIOUS
  <2> HIDE DEF x
  <2> QED BY <1>2, <2>1, <2>2
<1> QED BY <1>1, <1>2

\* AnswerIsTrue, of one answer.
IsTrue(v, req, a) ==
  /\ a.status = "OK" =>
       /\ DOMAIN a.response = DHType[req.attestationType]
       /\ DHType[req.attestationType] = Server!DHTypeArray[req.attestationType]
  /\ CASE req.attestationType \in {1, 2} -> TransactionAnswerIsTrue(v, req, a)
       [] req.attestationType = 3 -> BlockHeightAnswerIsTrue(v, req, a)
       [] req.attestationType = 4 -> NonexistenceAnswerIsTrue(v, req, a)

\* The facts make the answer true.
LEMMA FactsAreTrue ==
  ASSUME IndexersInv, NEW v \in Verifiers, NEW req, NEW a, AnswerFacts(v, req, a), a # Throws
  PROVE  IsTrue(v, req, a)
PROOF
<1>1. Request(req)
  BY DEF AnswerFacts
<1>2. PICK r : ResultFacts(v, req, r) /\ a = Verification(req, r)
  BY DEF AnswerFacts
<1>3. /\ a.status = r.status
      /\ r.status = "OK" => a.response = r.response
  BY <1>2, VerificationIs
<1>4. req.attestationType \in {1, 2} \/ req.attestationType = 3 \/ req.attestationType = 4
  BY <1>1 DEF Request, Types
<1>5. \A type \in 1..4 : DHType[type] = Server!DHTypeArray[type]
  BY DEF DHType, Server!DHTypeArray, DHPayment, Server!DHPayment,
         DHBalanceDecreasingTransaction, Server!DHBalanceDecreasingTransaction,
         DHConfirmedBlockHeightExists, Server!DHConfirmedBlockHeightExists,
         DHReferencedPaymentNonexistence, Server!DHReferencedPaymentNonexistence
<1>6. DHType[req.attestationType] = Server!DHTypeArray[req.attestationType]
  BY <1>1, <1>5 DEF Request, Types
<1>7. \A s : Status(s).status = s
  BY DEF Status
<1>8. \A n \in Saved(v) : n <= state[v].N /\ n \in Blocks
  BY IndexerIs DEF Saved
<1>12. ASSUME req.attestationType \in {1, 2}, TransactionAnswerIsTrue(v, req, a),
              a.status = "OK" => DOMAIN a.response = DHType[req.attestationType]
       PROVE  IsTrue(v, req, a)
  <2>1. req.attestationType # 3 /\ req.attestationType # 4
    BY <1>12
  <2> QED BY <1>6, <1>12, <2>1 DEF IsTrue
<1>9. CASE req.attestationType \in {1, 2}
  <2> DEFINE n == req.blockNumber
  <2>1. TransactionFacts(v, req, r)
    BY <1>2, <1>9 DEF ResultFacts
  <2>2. CASE r.status \in Indeterminate
    <3>1. TransactionAnswerIsTrue(v, req, a) /\ a.status # "OK"
      BY <1>3, <2>2 DEF TransactionAnswerIsTrue, Indeterminate
    <3> QED BY <1>9, <1>12, <3>1
  <2>3. CASE r.status = "NON_EXISTENT_TRANSACTION" /\ (Held(v, {n}) => ~HasTransaction(n, req.id))
    <3>1. TransactionAnswerIsTrue(v, req, a) /\ a.status # "OK"
      BY <1>3, <2>3 DEF TransactionAnswerIsTrue
    <3> QED BY <1>9, <1>12, <3>1
  <2>4. ASSUME n \in Saved(v), NEW tx \in chain[n].transactions, tx.id = req.id,
               r = TransactionResponse(req, TxRow(n, tx))
        PROVE  IsTrue(v, req, a)
    <3>1. HasTransaction(n, req.id)
      BY <1>8, <2>4 DEF HasTransaction
    <3>2. \/ r = Status("NOT_CONFIRMED")
          \/ /\ r.status = "OK"
             /\ r.response.transactionHash = TxRow(n, tx).transactionId
             /\ r.response.blockNumber = TxRow(n, tx).blockNumber
             /\ r.response.blockTimestamp = TxRow(n, tx).timestamp
             /\ DOMAIN r.response = DHType[req.attestationType]
      BY <1>9, <2>4, TransactionResponseIs
    <3>3. CASE r = Status("NOT_CONFIRMED")
      <4>1. TransactionAnswerIsTrue(v, req, a) /\ a.status # "OK"
        BY <1>3, <1>7, <3>1, <3>3 DEF TransactionAnswerIsTrue
      <4> QED BY <1>9, <1>12, <4>1
    <3>4. CASE r # Status("NOT_CONFIRMED")
      <4>1. /\ a.status = "OK" /\ a.response.transactionHash = req.id
            /\ a.response.blockNumber = n /\ a.response.blockTimestamp = chain[n].timestamp
            /\ DOMAIN a.response = DHType[req.attestationType]
        BY <1>3, <2>4, <3>2, <3>4, TxRowIs
      <4>2. TransactionAnswerIsTrue(v, req, a)
        BY <1>8, <2>4, <3>1, <4>1 DEF TransactionAnswerIsTrue
      <4> QED BY <1>9, <1>12, <4>1, <4>2
    <3> QED BY <3>3, <3>4
  <2> QED BY <2>1, <2>2, <2>3, <2>4 DEF TransactionFacts
<1>10. CASE req.attestationType = 3
  <2> DEFINE n == req.blockNumber
  <2>1. HeightFacts(v, req, r)
    BY <1>2, <1>10 DEF ResultFacts
  <2>2. CASE r.status \in Indeterminate
    BY <1>3, <1>10, <2>2 DEF IsTrue, BlockHeightAnswerIsTrue, Indeterminate
  <2>3. ASSUME n \in Saved(v), NEW low \in Blocks, LastBefore(low, WindowStart(req)),
               r = responseConfirmedBlockHeightExists(Row(n, TRUE), Row(low, TRUE))
        PROVE  IsTrue(v, req, a)
    <3>1. /\ r.status = "OK"
          /\ r.response.blockTimestamp = Row(n, TRUE).timestamp
          /\ r.response.lowestQueryWindowBlockNumber = Row(low, TRUE).blockNumber
          /\ DOMAIN r.response = DHType[3]
      <4>1. IsHeightResponse(r, Row(n, TRUE), Row(low, TRUE))
        BY <2>3, HeightResponseIs
      <4> QED BY <4>1 DEF IsHeightResponse
    <3>2. /\ a.status = "OK" /\ a.response.blockTimestamp = chain[n].timestamp
          /\ a.response.lowestQueryWindowBlockNumber = low
          /\ DOMAIN a.response = DHType[3]
      BY <1>3, <3>1, RowIs
    <3>3. BlockHeightAnswerIsTrue(v, req, a)
      BY <1>8, <2>3, <3>2 DEF BlockHeightAnswerIsTrue, LastBefore, WindowStart
    <3> QED BY <1>6, <1>10, <3>2, <3>3 DEF IsTrue
  <2> QED BY <2>1, <2>2, <2>3 DEF HeightFacts
<1>11. CASE req.attestationType = 4
  <2> DEFINE low == req.minimalBlockNumber
  <2>1. NonexistenceFacts(v, req, r)
    BY <1>2, <1>11 DEF ResultFacts
  <2>2. CASE r.status \in Indeterminate
    BY <1>3, <1>11, <2>2 DEF IsTrue, NonexistenceAnswerIsTrue, Indeterminate
  <2>3. CASE r = Status("ZERO_PAYMENT_REFERENCE_UNSUPPORTED") \/ r = Status("NOT_CONFIRMED")
    BY <1>3, <1>7, <1>11, <2>3 DEF IsTrue, NonexistenceAnswerIsTrue
  <2>4. CASE r = Status("REFERENCED_TRANSACTION_EXISTS") /\ Paid(req)
    BY <1>3, <1>7, <1>11, <2>4 DEF IsTrue, NonexistenceAnswerIsTrue
  <2>5. ASSUME NEW o \in Overflow(req), Held(v, Window(req)) => ~Paid(req),
               r = responseReferencedPaymentNonExistence(Classes[source], req, {},
                                                         Row(o, TRUE), Row(low, TRUE))
        PROVE  IsTrue(v, req, a)
    <3>1. /\ r.status = "OK"
          /\ r.response.firstOverflowBlockNumber = Row(o, TRUE).blockNumber
          /\ r.response.lowerBoundaryBlockNumber = Row(low, TRUE).blockNumber
          /\ DOMAIN r.response = DHType[4]
      <4>1. IsNonexistenceResponse(r, Row(o, TRUE), Row(low, TRUE))
        BY <2>5, NonexistenceResponseIs
      <4> QED BY <4>1 DEF IsNonexistenceResponse
    <3>2. /\ a.status = "OK" /\ a.response.firstOverflowBlockNumber = o
          /\ a.response.lowerBoundaryBlockNumber = low
          /\ DOMAIN a.response = DHType[4]
      BY <1>3, <3>1, RowIs
    <3>3. NonexistenceAnswerIsTrue(v, req, a)
      BY <2>5, <3>2 DEF NonexistenceAnswerIsTrue
    <3> QED BY <1>6, <1>11, <3>2, <3>3 DEF IsTrue
  <2> QED BY <2>1, <2>2, <2>3, <2>4, <2>5 DEF NonexistenceFacts
<1> QED BY <1>4, <1>9, <1>10, <1>11

-----------------------------------------------------------------------------
(* Values of responses, and their hashes.                                    *)

\* The amounts of some outputs, up to each one.
Sums(tx, outputs) ==
  CHOOSE sum : sum = [i \in 0..Len(tx.outputs) |->
                        IF i = 0 THEN 0
                        ELSE sum[i - 1] + IF i \in outputs THEN tx.outputs[i].amount ELSE 0]

\* Amounts are numbers.
LEMMA AmountIs ==
  ASSUME NEW tx \in Transactions, NEW outputs
  PROVE  Amount(tx, outputs) \in Nat
PROOF
<1> DEFINE n == Len(tx.outputs)
           more(i) == IF i \in outputs THEN tx.outputs[i].amount ELSE 0
           step == [p \in (1..n) \X Nat |-> p[2] + more(p[1])]
           Is(sum) == sum = [i \in 0..n |-> IF i = 0 THEN 0 ELSE sum[i - 1] + more(i)]
           s == Sums(tx, outputs)
<1>1. n \in Nat /\ \A i \in 1..n : more(i) \in Nat
  <2> DEFINE T == [address : Nat, amount : Nat]
  <2>1. tx.outputs \in Seq(T)
    BY DEF Transactions
  <2>2. \A o \in T : o.amount \in Nat
    OBVIOUS
  <2> HIDE DEF T
  <2>3. n \in Nat /\ \A i \in 1..n : tx.outputs[i] \in T
    BY <2>1
  <2> QED BY <2>2, <2>3
<1> HIDE DEF more
<1>2. step \in [(1..n) \X Nat -> Nat]
  <2>1. ASSUME NEW p \in (1..n) \X Nat PROVE p[2] + more(p[1]) \in Nat
    BY <1>1
  <2> QED BY <2>1
<1>3. PICK f \in [0..n -> Nat] : IsRecursive(n, 0, step, f)
  <2> HIDE DEF n, step
  <2> QED BY <1>1, <1>2, RecursionExists
<1>4. \A i \in 1..n : f[i] = f[i - 1] + more(i)
  <2> SUFFICES ASSUME NEW i \in 1..n PROVE f[i] = f[i - 1] + more(i)
    OBVIOUS
  <2>1. <<i, f[i - 1]>> \in (1..n) \X Nat
    BY <1>1
  <2>2. f[i] = step[<<i, f[i - 1]>>]
    BY <1>3 DEF IsRecursive
  <2> QED BY <2>1, <2>2
<1>5. f[0] = 0
  BY <1>3 DEF IsRecursive
<1>6. Is(f)
  BY <1>4, <1>5
<1>7. Is(s)
  <2>1. s = CHOOSE sum : Is(sum)
    BY DEF Sums, more
  <2> HIDE DEF Is, s
  <2> QED BY <1>6, <2>1
<1> HIDE DEF s
<1>8. s[0] = 0 /\ \A i \in 1..n : s[i] = s[i - 1] + more(i)
  <2>1. s = [i \in 0..n |-> IF i = 0 THEN 0 ELSE s[i - 1] + more(i)]
    BY <1>7
  <2>2. 0 \in 0..n /\ \A i \in 1..n : i \in 0..n /\ i # 0
    BY <1>1
  <2> HIDE DEF n, Is
  <2>3. \A i \in 0..n : s[i] = IF i = 0 THEN 0 ELSE s[i - 1] + more(i)
    BY <2>1
  <2> QED BY <2>2, <2>3
<1> DEFINE S == {i \in Nat : i <= n => s[i] \in Nat}
<1>9. 0..n \subseteq S
  <2>1. 0 \in S
    BY <1>8
  <2>2. ASSUME NEW i \in 0..(n - 1), i \in S PROVE i + 1 \in S
    <3>1. i \in Nat /\ i + 1 \in Nat /\ i <= n /\ i + 1 \in 1..n /\ (i + 1) - 1 = i
      BY <1>1
    <3>2. s[i + 1] = s[i] + more(i + 1) /\ more(i + 1) \in Nat /\ s[i] \in Nat
      BY <1>1, <1>8, <2>2, <3>1
    <3> QED BY <3>1, <3>2
  <2> HIDE DEF S, n
  <2> QED BY <1>1, <2>1, <2>2, UpTo
<1>10. Amount(tx, outputs) = s[n]
  BY DEF Amount, Sums, s, more
<1>11. n \in 0..n
  BY <1>1
<1> QED BY <1>1, <1>9, <1>10, <1>11

\* The hashes of the model.
Hashes == {h \in Nat : h <= 1000002}

\* A value more.
LEMMA HashStep ==
  ASSUME NEW h \in Hashes, NEW value \in Int
  PROVE  (31 * h + value + 7) % 1000003 \in Hashes
PROOF BY SMT DEF Hashes

\* What one value more makes of a hash.
More(h, value) == (31 * h + value + 7) % 1000003

\* The hash, from the first value on.
Hash(values) ==
  CHOOSE hash : hash = [i \in 0..Len(values) |-> IF i = 0 THEN 1 ELSE More(hash[i - 1], values[i])]

\* A hash of numbers is one of them.
LEMMA HashIs ==
  ASSUME NEW values \in Seq(Int)
  PROVE  soliditySha3(values) \in Hashes
PROOF
<1> DEFINE n == Len(values)
           step == [p \in (1..n) \X Hashes |-> More(p[2], values[p[1]])]
           Is(hash) == hash = [i \in 0..n |-> IF i = 0 THEN 1 ELSE More(hash[i - 1], values[i])]
           s == Hash(values)
<1>1. n \in Nat /\ \A i \in 1..n : values[i] \in Int
  OBVIOUS
<1>2. \A h \in Hashes, value \in Int : More(h, value) \in Hashes
  BY HashStep DEF More
<1>3. step \in [(1..n) \X Hashes -> Hashes]
  <2>1. ASSUME NEW p \in (1..n) \X Hashes PROVE More(p[2], values[p[1]]) \in Hashes
    BY <1>1, <1>2
  <2> QED BY <2>1
<1>4. 1 \in Hashes
  BY SMT DEF Hashes
<1>5. PICK f \in [0..n -> Hashes] : IsRecursive(n, 1, step, f)
  <2> HIDE DEF n, step
  <2> QED BY <1>1, <1>3, <1>4, RecursionExists
<1>6. \A i \in 1..n : f[i] = More(f[i - 1], values[i])
  <2> SUFFICES ASSUME NEW i \in 1..n PROVE f[i] = More(f[i - 1], values[i])
    OBVIOUS
  <2>1. <<i, f[i - 1]>> \in (1..n) \X Hashes
    <3>1. i - 1 \in 0..n
      BY <1>1
    <3>2. f[i - 1] \in Hashes
      BY <1>5, <3>1
    <3> QED BY <3>2
  <2>2. f[i] = step[<<i, f[i - 1]>>]
    BY <1>5 DEF IsRecursive
  <2> QED BY <2>1, <2>2
<1>7. f[0] = 1
  BY <1>5 DEF IsRecursive
<1>8. Is(f)
  BY <1>6, <1>7
<1>9. Is(s)
  <2>1. s = CHOOSE hash : Is(hash)
    BY DEF Hash
  <2> HIDE DEF Is, s
  <2> QED BY <1>8, <2>1
<1> HIDE DEF s
<1>10. s[0] = 1 /\ \A i \in 1..n : s[i] = More(s[i - 1], values[i])
  BY <1>1, <1>9
<1> DEFINE S == {i \in Nat : i <= n => s[i] \in Hashes}
<1>11. 0..n \subseteq S
  <2>1. 0 \in S
    BY <1>4, <1>10
  <2>2. ASSUME NEW i \in 0..(n - 1), i \in S PROVE i + 1 \in S
    <3>1. i \in Nat /\ i + 1 \in Nat /\ i <= n /\ i + 1 \in 1..n /\ (i + 1) - 1 = i
      BY <1>1
    <3>2. s[i + 1] = More(s[i], values[i + 1]) /\ values[i + 1] \in Int /\ s[i] \in Hashes
      BY <1>1, <1>10, <2>2, <3>1
    <3>3. s[i + 1] \in Hashes
      BY <1>2, <3>2
    <3> QED BY <3>1, <3>3
  <2> HIDE DEF S, n
  <2> QED BY <1>1, <2>1, <2>2, UpTo
<1>12. soliditySha3(values) = s[n]
  BY SMT DEF soliditySha3, Hash, More, s
<1>13. n \in 0..n
  BY <1>1
<1> QED BY <1>1, <1>11, <1>12, <1>13

\* The fields of a response are a sequence.
LEMMA HashFieldsAre ==
  ASSUME NEW type \in Types
  PROVE  /\ Len(HashFields(type)) \in Nat
         /\ DOMAIN HashFields(type) = 1..Len(HashFields(type))
PROOF
<1>1. ASSUME NEW S, NEW r \in Seq(S)
      PROVE  LET f == ResponseBase \o r
             IN  Len(f) \in Nat /\ DOMAIN f = 1..Len(f)
  <2> DEFINE T == S \cup {ResponseBase[1]}
  <2>1. ResponseBase \in Seq(T) /\ r \in Seq(T)
    BY DEF ResponseBase
  <2> HIDE DEF T
  <2>2. ResponseBase \o r \in Seq(T)
    BY <2>1
  <2> QED BY <2>2
<1> DEFINE r == Definition(type).dataHash
<1>2. \E S : r \in Seq(S)
  <2>1. \E S : PaymentDefinition.dataHash \in Seq(S)
    <3> DEFINE q == PaymentDefinition.dataHash
    <3>1. q \in Seq({q[i] : i \in 1..16})
      BY DEF PaymentDefinition
    <3> QED BY <3>1
  <2>2. \E S : BalanceDecreasingDefinition.dataHash \in Seq(S)
    <3> DEFINE q == BalanceDecreasingDefinition.dataHash
    <3>1. q \in Seq({q[i] : i \in 1..7})
      BY DEF BalanceDecreasingDefinition
    <3> QED BY <3>1
  <2>3. \E S : BlockHeightDefinition.dataHash \in Seq(S)
    <3> DEFINE q == BlockHeightDefinition.dataHash
    <3>1. q \in Seq({q[i] : i \in 1..5})
      BY DEF BlockHeightDefinition
    <3> QED BY <3>1
  <2>4. \E S : NonexistenceDefinition.dataHash \in Seq(S)
    <3> DEFINE q == NonexistenceDefinition.dataHash
    <3>1. q \in Seq({q[i] : i \in 1..9})
      BY DEF NonexistenceDefinition
    <3> QED BY <3>1
  <2> QED BY <2>1, <2>2, <2>3, <2>4, DefinitionOf DEF Types
<1>3. PICK S : r \in Seq(S)
  BY <1>2
<1>4. HashFields(type) = ResponseBase \o r
  BY DEF HashFields
<1> HIDE DEF r
<1> QED BY <1>1, <1>3, <1>4

\* The hash of a response of numbers is a number, if the response can be encoded,
\* and that does not depend on the salt; of the request, its type and source matter.
LEMMA DataHashIs ==
  ASSUME NEW req, req.attestationType \in Types, req.sourceId \in Nat, NEW response,
         \A key \in DOMAIN response : response[key] \in Int, NEW salt \in Int,
         dataHash(req, response, NoSalt) # Throws
  PROVE  /\ dataHash(req, response, salt) \in Hashes
         /\ dataHash(req, response, salt) \in Numbers
         /\ \A other : other.attestationType = req.attestationType /\ other.sourceId = req.sourceId
              => dataHash(other, response, salt) = dataHash(req, response, salt)
PROOF
<1> DEFINE fields == HashFields(req.attestationType)
           head == <<req.attestationType, req.sourceId>>
           middle == [i \in DOMAIN fields |-> response[fields[i].key]]
           values == head \o middle \o <<salt>>
<1>1. Defined(req.attestationType)
  BY DefinitionOf
<1>2. Encodable(fields, response)
  BY <1>1 DEF dataHash
<1>3. dataHash(req, response, salt) = soliditySha3(values)
  BY <1>1, <1>2 DEF dataHash
<1>4. Len(fields) \in Nat /\ DOMAIN fields = 1..Len(fields)
  BY HashFieldsAre
<1>5. \A i \in DOMAIN fields : response[fields[i].key] \in Int
  BY <1>2 DEF Encodable
<1> HIDE DEF fields
<1>6. middle \in Seq(Int)
  BY <1>4, <1>5
<1>7. head \in Seq(Int) /\ <<salt>> \in Seq(Int)
  BY DEF Types
<1> HIDE DEF head, middle
<1>8. values \in Seq(Int)
  BY <1>6, <1>7
<1>9. dataHash(req, response, salt) \in Hashes
  BY <1>3, <1>8, HashIs
<1>10. Hashes \subseteq Numbers
  BY SMT DEF Hashes, Numbers
<1>11. ASSUME NEW other, other.attestationType = req.attestationType, other.sourceId = req.sourceId
       PROVE  dataHash(other, response, salt) = dataHash(req, response, salt)
  BY <1>11 DEF dataHash
<1> QED BY <1>9, <1>10, <1>11

\* All values of a response are numbers.
Numeric(response) == \A key \in DOMAIN response : response[key] \in Nat

\* So are those of a payment or a decreased balance.
LEMMA TransactionNumbers ==
  ASSUME IndexersInv, NEW req, Request(req), req.attestationType \in {1, 2},
         NEW n \in Blocks, NEW tx \in chain[n].transactions,
         TransactionResponse(req, TxRow(n, tx)).status = "OK"
  PROVE  Numeric(TransactionResponse(req, TxRow(n, tx)).response)
PROOF
<1> DEFINE row == TxRow(n, tx)
           r == TransactionResponse(req, row)
           class == Classes[source]
<1>1. /\ row.transactionId = tx.id /\ row.blockNumber = n /\ row.timestamp = chain[n].timestamp
      /\ row.paymentReference = tx.paymentReference /\ row.response = tx
  BY TxRowIs
<1>2. /\ n \in Nat /\ chain[n].timestamp \in Nat /\ tx \in Transactions
  BY ChainIs
<1>3. /\ tx.id \in Nat /\ tx.paymentReference \in Nat /\ tx.source \in Nat /\ tx.status \in Nat
      /\ tx.outputs \in Seq([address : Nat, amount : Nat])
  BY <1>2, SMT DEF Transactions, Numbers
<1>4. \A i \in 1..Len(tx.outputs) : tx.outputs[i].address \in Nat
  <2> DEFINE T == [address : Nat, amount : Nat]
  <2>1. tx.outputs \in Seq(T) /\ \A o \in T : o.address \in Nat
    BY <1>3
  <2> HIDE DEF T
  <2> QED BY <2>1
<1>5. Len(tx.outputs) \in Nat
  BY <1>3
<1>6. \A outputs : Amount(tx, outputs) \in Nat
  BY <1>2, AmountIs
<1>7. ASSUME NEW x PROVE Response(x).status = "OK" /\ Response(x).response = x
  BY DEF Response
<1>8. Status("NOT_CONFIRMED").status # "OK"
  BY DEF Status
<1>9. CASE req.attestationType = 1
  <2> DEFINE s == PaymentSummary(class, tx, req.inUtxo, req.utxo)
             x == [stateConnectorRound |-> 0, blockNumber |-> row.blockNumber,
                   blockTimestamp |-> row.timestamp, transactionHash |-> row.transactionId,
                   inUtxo |-> req.inUtxo, utxo |-> req.utxo,
                   sourceAddressHash |-> s.sourceAddressHash,
                   intendedSourceAddressHash |-> s.sourceAddressHash,
                   receivingAddressHash |-> s.receivingAddressHash,
                   intendedReceivingAddressHash |-> s.receivingAddressHash,
                   paymentReference |-> row.paymentReference, spentAmount |-> s.receivedAmount,
                   intendedSpentAmount |-> s.receivedAmount, receivedAmount |-> s.receivedAmount,
                   intendedReceivedAmount |-> s.receivedAmount, oneToOne |-> 1,
                   status |-> row.response.status]
  <2>1. r = IF s.status # "Success" THEN Status("NOT_CONFIRMED") ELSE Response(x)
    BY <1>1, <1>9 DEF TransactionResponse, responsePayment
  <2>2. req.inUtxo \in Nat /\ req.utxo \in Nat
    BY <1>9, RequestIs
  <2>3. s.status = "Success" =>
          s.sourceAddressHash \in Nat /\ s.receivingAddressHash \in Nat /\ s.receivedAmount \in Nat
    <3> DEFINE out == IF class \in Utxo THEN req.utxo + 1 ELSE 1
               good == [status |-> "Success", receivingAddressHash |-> tx.outputs[out].address,
                        receivedAmount |-> AmountTo(tx, tx.outputs[out].address),
                        sourceAddressHash |-> tx.source]
               bad == [status |-> "Failure"]
    <3>1. s = bad \/ (out <= Len(tx.outputs) /\ s = good)
      <4>1. s = IF \/ ~tx.isNativePayment \/ out > Len(tx.outputs)
                   \/ (class \in Utxo /\ req.inUtxo >= tx.inputs)
                THEN bad ELSE good
        BY DEF PaymentSummary
      <4>2. out \in Nat
        BY <2>2
      <4> HIDE DEF out, good, bad, s
      <4> QED BY <1>5, <4>1, <4>2
    <3>2. bad.status # "Success"
      OBVIOUS
    <3>3. out >= 1 /\ out \in Nat
      BY <2>2
    <3>4. good.receivedAmount \in Nat /\ good.sourceAddressHash \in Nat
      BY <1>3, <1>6 DEF AmountTo
    <3>5. out <= Len(tx.outputs) => good.receivingAddressHash \in Nat
      <4>1. good.receivingAddressHash = tx.outputs[out].address
        OBVIOUS
      <4> HIDE DEF out, good
      <4> QED BY <1>4, <1>5, <3>3, <4>1
    <3> HIDE DEF out, good, bad, s
    <3> QED BY <3>1, <3>2, <3>4, <3>5
  <2>4. s.status = "Success"
    BY <1>8, <2>1
  <2> HIDE DEF s
  <2>5. Numeric(x)
    <3>1. /\ row.blockNumber \in Nat /\ row.timestamp \in Nat /\ row.transactionId \in Nat
          /\ row.paymentReference \in Nat /\ row.response.status \in Nat /\ 0 \in Nat /\ 1 \in Nat
      BY <1>1, <1>2, <1>3
    <3>2. /\ s.sourceAddressHash \in Nat /\ s.receivingAddressHash \in Nat
          /\ s.receivedAmount \in Nat
      BY <2>3, <2>4
    <3>3. DOMAIN x = {"stateConnectorRound", "blockNumber", "blockTimestamp", "transactionHash",
                      "inUtxo", "utxo", "sourceAddressHash", "intendedSourceAddressHash",
                      "receivingAddressHash", "intendedReceivingAddressHash",
                      "paymentReference", "spentAmount", "intendedSpentAmount",
                      "receivedAmount", "intendedReceivedAmount", "oneToOne", "status"}
      OBVIOUS
    <3> HIDE DEF row
    <3>4. /\ x.stateConnectorRound \in Nat /\ x.blockNumber \in Nat /\ x.blockTimestamp \in Nat
          /\ x.transactionHash \in Nat /\ x.inUtxo \in Nat /\ x.utxo \in Nat
      BY <2>2, <3>1
    <3>5. /\ x.sourceAddressHash \in Nat /\ x.intendedSourceAddressHash \in Nat
          /\ x.receivingAddressHash \in Nat /\ x.intendedReceivingAddressHash \in Nat
      BY <3>2
    <3>6. /\ x.paymentReference \in Nat /\ x.spentAmount \in Nat /\ x.intendedSpentAmount \in Nat
          /\ x.receivedAmount \in Nat /\ x.intendedReceivedAmount \in Nat
          /\ x.oneToOne \in Nat /\ x.status \in Nat
      BY <3>1, <3>2
    <3> HIDE DEF x
    <3> QED BY <3>3, <3>4, <3>5, <3>6 DEF Numeric
  <2> HIDE DEF x
  <2> QED BY <1>7, <2>1, <2>4, <2>5
<1>10. CASE req.attestationType = 2
  <2> DEFINE s == BalanceDecreasingSummary(class, tx, req.sourceAddressIndicator)
             x == [stateConnectorRound |-> 0, blockNumber |-> row.blockNumber,
                   blockTimestamp |-> row.timestamp, transactionHash |-> row.transactionId,
                   sourceAddressIndicator |-> req.sourceAddressIndicator,
                   sourceAddressHash |-> s.sourceAddressHash, spentAmount |-> s.spentAmount,
                   paymentReference |-> row.paymentReference]
  <2>1. r = IF s.status # "Success" THEN Status("NOT_CONFIRMED") ELSE Response(x)
    BY <1>1, <1>10 DEF TransactionResponse, responseBalanceDecreasingTransaction
  <2>2. req.sourceAddressIndicator \in Nat
    BY <1>10, RequestIs
  <2>3. s.status = "Success" => s.sourceAddressHash \in Nat /\ s.spentAmount \in Nat
    <3> DEFINE good == [status |-> "Success", sourceAddressHash |-> tx.source,
                        spentAmount |-> Amount(tx, DOMAIN tx.outputs)]
               bad == [status |-> "Failure"]
    <3>1. s = bad \/ s = good
      BY DEF BalanceDecreasingSummary
    <3>2. bad.status # "Success"
      OBVIOUS
    <3>3. good.sourceAddressHash \in Nat /\ good.spentAmount \in Nat
      BY <1>3, <1>6
    <3> HIDE DEF good, bad, s
    <3> QED BY <3>1, <3>2, <3>3
  <2>4. s.status = "Success"
    BY <1>8, <2>1
  <2> HIDE DEF s
  <2>5. Numeric(x)
    BY <1>1, <1>2, <1>3, <2>2, <2>3, <2>4 DEF Numeric
  <2> HIDE DEF x
  <2> QED BY <1>7, <2>1, <2>4, <2>5
<1> QED BY <1>9, <1>10

\* And those of every other result.
LEMMA ResponseNumbers ==
  ASSUME IndexersInv, NEW v \in Verifiers, NEW req, Request(req), NEW r,
         ResultFacts(v, req, r), r.status = "OK"
  PROVE  Numeric(r.response) /\ DOMAIN r.response = DHType[req.attestationType]
PROOF
<1>1. req.attestationType \in {1, 2} \/ req.attestationType = 3 \/ req.attestationType = 4
  BY DEF Request, Types
<1>2. ASSUME NEW x PROVE Response(x).status = "OK" /\ Response(x).response = x
  BY DEF Response
<1>3. \A s : Status(s).status = s
  BY DEF Status
<1>4. /\ Saved(v) \subseteq Blocks /\ Saved(v) \subseteq Nat /\ Blocks \subseteq Nat
      /\ \A n \in Blocks : chain[n].timestamp \in Nat
  BY IndexerIs, ChainIs
<1>5. CASE req.attestationType \in {1, 2}
  <2> DEFINE n == req.blockNumber
  <2>1. n \in Saved(v) /\ \E tx \in chain[n].transactions :
          tx.id = req.id /\ r = TransactionResponse(req, TxRow(n, tx))
    BY <1>5 DEF ResultFacts, TransactionFacts, Indeterminate
  <2>2. PICK tx \in chain[n].transactions : r = TransactionResponse(req, TxRow(n, tx))
    BY <2>1
  <2>3. n \in Blocks
    BY <1>4, <2>1
  <2>4. Numeric(r.response)
    BY <1>5, <2>2, <2>3, TransactionNumbers
  <2>5. r = Status("NOT_CONFIRMED") \/ DOMAIN r.response = DHType[req.attestationType]
    BY <1>5, <2>2, TransactionResponseIs
  <2> QED BY <1>3, <2>4, <2>5
<1>6. CASE req.attestationType = 3
  <2> DEFINE n == req.blockNumber
  <2>1. n \in Saved(v) /\ \E low \in Blocks :
          r = responseConfirmedBlockHeightExists(Row(n, TRUE), Row(low, TRUE))
    BY <1>6 DEF ResultFacts, HeightFacts, Indeterminate
  <2>2. PICK low \in Blocks : r = responseConfirmedBlockHeightExists(Row(n, TRUE), Row(low, TRUE))
    BY <2>1
  <2> DEFINE number == Row(n, TRUE).blockNumber
             time == Row(n, TRUE).timestamp
             lowNumber == Row(low, TRUE).blockNumber
             lowTime == Row(low, TRUE).timestamp
             x == [stateConnectorRound |-> 0, blockNumber |-> number, blockTimestamp |-> time,
                   numberOfConfirmations |-> Confirmations,
                   lowestQueryWindowBlockNumber |-> lowNumber,
                   lowestQueryWindowBlockTimestamp |-> lowTime]
  <2>3. r = Response(x)
    BY <2>2 DEF responseConfirmedBlockHeightExists
  <2>4. Confirmations \in Nat
    BY VerificationAssumption
  <2>5. Numeric(x)
    <3>1. number \in Nat /\ time \in Nat /\ lowNumber \in Nat /\ lowTime \in Nat
      BY <1>4, <2>1, RowIs
    <3> HIDE DEF number, time, lowNumber, lowTime
    <3> QED BY <2>4, <3>1 DEF Numeric
  <2>6. IsHeightResponse(r, Row(n, TRUE), Row(low, TRUE))
    BY <2>2, HeightResponseIs
  <2> HIDE DEF x
  <2> QED BY <1>2, <1>6, <2>3, <2>5, <2>6 DEF IsHeightResponse
<1>7. CASE req.attestationType = 4
  <2> DEFINE low == req.minimalBlockNumber
  <2>1. \E o \in Overflow(req) :
          /\ low \in Saved(v)
          /\ r = responseReferencedPaymentNonExistence(Classes[source], req, {},
                                                       Row(o, TRUE), Row(low, TRUE))
    <3>1. /\ Status("NOT_CONFIRMED").status # "OK"
          /\ Status("REFERENCED_TRANSACTION_EXISTS").status # "OK"
          /\ Status("ZERO_PAYMENT_REFERENCE_UNSUPPORTED").status # "OK"
      BY DEF Status
    <3>2. r.status \notin Indeterminate
      BY DEF Indeterminate
    <3>3. NonexistenceFacts(v, req, r)
      BY <1>7 DEF ResultFacts
    <3> QED BY <3>1, <3>2, <3>3 DEF NonexistenceFacts
  <2>2. PICK o \in Overflow(req) :
          /\ low \in Saved(v)
          /\ r = responseReferencedPaymentNonExistence(Classes[source], req, {},
                                                       Row(o, TRUE), Row(low, TRUE))
    BY <2>1
  <2>3. o \in Blocks /\ low \in Blocks
    BY <1>4, <2>2 DEF Overflow
  <2> DEFINE number == Row(o, TRUE).blockNumber
             time == Row(o, TRUE).timestamp
             lowNumber == Row(low, TRUE).blockNumber
             lowTime == Row(low, TRUE).timestamp
             x == [stateConnectorRound |-> 0, deadlineBlockNumber |-> req.deadlineBlockNumber,
                   deadlineTimestamp |-> req.deadlineTimestamp,
                   destinationAddressHash |-> req.destinationAddressHash,
                   paymentReference |-> req.paymentReference, amount |-> req.amount,
                   lowerBoundaryBlockNumber |-> lowNumber,
                   lowerBoundaryBlockTimestamp |-> lowTime,
                   firstOverflowBlockNumber |-> number, firstOverflowBlockTimestamp |-> time]
  <2>4. r = Response(x)
    BY <2>2 DEF responseReferencedPaymentNonExistence
  <2>5. /\ req.deadlineBlockNumber \in Nat /\ req.deadlineTimestamp \in Nat
        /\ req.destinationAddressHash \in Nat /\ req.paymentReference \in Nat /\ req.amount \in Nat
    BY <1>7, RequestIs
  <2>6. Numeric(x)
    <3>1. number \in Nat /\ time \in Nat /\ lowNumber \in Nat /\ lowTime \in Nat
      BY <1>4, <2>3, RowIs
    <3> HIDE DEF number, time, lowNumber, lowTime
    <3> QED BY <2>5, <3>1 DEF Numeric
  <2>7. IsNonexistenceResponse(r, Row(o, TRUE), Row(low, TRUE))
    BY <2>2, NonexistenceResponseIs
  <2> HIDE DEF x
  <2> QED BY <1>2, <1>7, <2>4, <2>6, <2>7 DEF IsNonexistenceResponse
<1> QED BY <1>1, <1>5, <1>6, <1>7

\* The same request, but for its code.
Same(req, other) ==
  /\ other.attestationType = req.attestationType
  /\ \A key \in ARType[req.attestationType] \ {"messageIntegrityCode"} : other[key] = req[key]

\* The facts do not depend on the code.
LEMMA SameFacts ==
  ASSUME NEW v, NEW req, NEW other, Request(req), Same(req, other), NEW r,
         ResultFacts(v, req, r)
  PROVE  ResultFacts(v, other, r)
PROOF
<1>1. other.attestationType = req.attestationType /\ req.attestationType \in 1..4
  BY DEF Same, Request, Types
<1>2. CASE req.attestationType \in {1, 2}
  <2>1. other.id = req.id /\ other.blockNumber = req.blockNumber
    BY <1>2 DEF Same, ARType, ARPayment, ARBalanceDecreasingTransaction, ARBase
  <2>2. /\ req.attestationType = 1 => other.inUtxo = req.inUtxo /\ other.utxo = req.utxo
        /\ req.attestationType = 2 => other.sourceAddressIndicator = req.sourceAddressIndicator
    BY DEF Same, ARType, ARPayment, ARBalanceDecreasingTransaction, ARBase
  <2>3. \A row : TransactionResponse(other, row) = TransactionResponse(req, row)
    BY <1>1, <1>2, <2>1, <2>2
       DEF TransactionResponse, responsePayment, responseBalanceDecreasingTransaction
  <2>4. TransactionFacts(v, other, r)
    BY <1>2, <2>1, <2>3 DEF ResultFacts, TransactionFacts
  <2> QED BY <1>1, <1>2, <2>4 DEF ResultFacts
<1>3. CASE req.attestationType = 3
  <2>1. other.blockNumber = req.blockNumber /\ other.queryWindow = req.queryWindow
    BY <1>3 DEF Same, ARType, ARConfirmedBlockHeightExists, ARBase
  <2>2. HeightFacts(v, other, r)
    BY <1>3, <2>1 DEF ResultFacts, HeightFacts, WindowStart
  <2> QED BY <1>1, <1>3, <2>2 DEF ResultFacts
<1>4. CASE req.attestationType = 4
  <2>1. /\ other.minimalBlockNumber = req.minimalBlockNumber
        /\ other.deadlineBlockNumber = req.deadlineBlockNumber
        /\ other.deadlineTimestamp = req.deadlineTimestamp
        /\ other.destinationAddressHash = req.destinationAddressHash
        /\ other.amount = req.amount /\ other.paymentReference = req.paymentReference
    BY <1>4 DEF Same, ARType, ARReferencedPaymentNonexistence, ARBase
  <2>2. Overflow(other) = Overflow(req)
    BY <2>1 DEF Overflow
  <2>3. Window(other) = Window(req)
    BY <2>1, <2>2 DEF Window
  <2>4. \A tx : IsPayment(tx, other) = IsPayment(tx, req)
    BY <2>1 DEF IsPayment
  <2>5. Paid(other) = Paid(req)
    BY <2>3, <2>4 DEF Paid
  <2>6. \A x, y : responseReferencedPaymentNonExistence(Classes[source], other, {}, x, y)
                = responseReferencedPaymentNonExistence(Classes[source], req, {}, x, y)
    BY <2>1 DEF responseReferencedPaymentNonExistence
  <2>7. NonexistenceFacts(v, req, r)
    BY <1>4 DEF ResultFacts
  <2>8. NonexistenceFacts(v, other, r)
    BY <2>1, <2>2, <2>3, <2>5, <2>6, <2>7 DEF NonexistenceFacts
  <2> QED BY <1>1, <1>4, <2>8 DEF ResultFacts
<1> QED BY <1>1, <1>2, <1>3, <1>4

\* Two verifiers that have the blocks a request is about do not answer it
\* differently, if one of them confirms it: the other does, or cannot tell.
LEMMA SameAnswer ==
  ASSUME IndexersInv, NEW v \in Verifiers, NEW w \in Verifiers, NEW req, Request(req),
         NEW r, ResultFacts(v, req, r), r.status = "OK",
         NEW q, ResultFacts(w, req, q), Held(w, Needed(req)),
         req.attestationType = 4 => Held(v, Needed(req))
  PROVE  q.status \in Indeterminate \/ q = r
PROOF
<1>1. req.attestationType \in {1, 2} \/ req.attestationType = 3 \/ req.attestationType = 4
  BY DEF Request, Types
<1>3. /\ Saved(v) \subseteq Blocks /\ Saved(w) \subseteq Blocks
      /\ Blocks \subseteq Nat /\ \A n \in Blocks : chain[n].timestamp \in Nat
      /\ \A m, n \in Blocks :
           \A tx \in chain[m].transactions, other \in chain[n].transactions :
             tx.id = other.id => m = n /\ tx = other
  BY IndexerIs, ChainIs
<1>4. CASE req.attestationType \in {1, 2}
  <2> DEFINE n == req.blockNumber
  <2>1. n \in Saved(v) /\ \E tx \in chain[n].transactions :
          tx.id = req.id /\ r = TransactionResponse(req, TxRow(n, tx))
    BY <1>4 DEF ResultFacts, TransactionFacts, Indeterminate
  <2>2. PICK tx \in chain[n].transactions :
          tx.id = req.id /\ r = TransactionResponse(req, TxRow(n, tx))
    BY <2>1
  <2>3. n \in Blocks /\ HasTransaction(n, req.id)
    BY <1>3, <2>1, <2>2 DEF HasTransaction
  <2>4. Needed(req) = {n}
    BY <1>4, SMT DEF Needed
  <2>5. TransactionFacts(w, req, q)
    BY <1>4 DEF ResultFacts
  <2>6. CASE q.status = "NON_EXISTENT_TRANSACTION" /\ (Held(w, {n}) => ~HasTransaction(n, req.id))
    BY <2>3, <2>4, <2>6
  <2>7. ASSUME NEW other \in chain[n].transactions, other.id = req.id,
               q = TransactionResponse(req, TxRow(n, other))
        PROVE  q = r
    <3>1. other = tx
      <4>1. \A t \in chain[n].transactions, u \in chain[n].transactions : t.id = u.id => t = u
        BY <1>3, <2>3
      <4> QED BY <2>2, <2>7, <4>1
    <3> QED BY <2>2, <2>7, <3>1
  <2> QED BY <2>5, <2>6, <2>7 DEF TransactionFacts
<1>5. CASE req.attestationType = 3
  <2> DEFINE n == req.blockNumber
             time == WindowStart(req)
  <2>1. n \in Blocks /\ \E low \in Blocks :
          /\ LastBefore(low, time)
          /\ r = responseConfirmedBlockHeightExists(Row(n, TRUE), Row(low, TRUE))
    BY <1>3, <1>5 DEF ResultFacts, HeightFacts, Indeterminate
  <2>2. PICK low \in Blocks :
          /\ LastBefore(low, time)
          /\ r = responseConfirmedBlockHeightExists(Row(n, TRUE), Row(low, TRUE))
    BY <2>1
  <2>3. time \in Int
    BY <1>3, <1>5, <2>1, RequestIs DEF WindowStart
  <2> HIDE DEF time
  <2>4. ASSUME NEW other \in Blocks, LastBefore(other, time),
               q = responseConfirmedBlockHeightExists(Row(n, TRUE), Row(other, TRUE))
        PROVE  q = r
    <3>1. ASSUME NEW x \in Blocks, NEW y \in Blocks, x > y, LastBefore(x, time),
                 LastBefore(y, time)
          PROVE  FALSE
      <4>1. chain[x].timestamp < time /\ chain[x].timestamp >= time
        BY <3>1 DEF LastBefore
      <4>2. chain[x].timestamp \in Nat
        BY <1>3
      <4> QED BY <2>3, <4>1, <4>2
    <3>2. ~(other > low) /\ ~(low > other)
      BY <2>2, <2>4, <3>1
    <3>3. other \in Nat /\ low \in Nat
      BY <1>3
    <3>4. other = low
      BY <3>2, <3>3
    <3> QED BY <2>2, <2>4, <3>4
  <2>5. HeightFacts(w, req, q)
    BY <1>5 DEF ResultFacts
  <2> QED BY <2>4, <2>5 DEF HeightFacts, time
<1>6. CASE req.attestationType = 4
  <2> DEFINE low == req.minimalBlockNumber
             Answered(o, x) == x = responseReferencedPaymentNonExistence(Classes[source], req, {},
                                     Row(o, TRUE), Row(low, TRUE))
  <2>1. \E o \in Overflow(req) :
          /\ low < o /\ req.paymentReference # 0 /\ Answered(o, r)
          /\ Held(v, Window(req)) => ~Paid(req)
    <3>1. /\ Status("NOT_CONFIRMED").status # "OK"
          /\ Status("REFERENCED_TRANSACTION_EXISTS").status # "OK"
          /\ Status("ZERO_PAYMENT_REFERENCE_UNSUPPORTED").status # "OK"
      BY DEF Status
    <3>2. r.status \notin Indeterminate
      BY DEF Indeterminate
    <3>3. NonexistenceFacts(v, req, r)
      BY <1>6 DEF ResultFacts
    <3> QED BY <3>1, <3>2, <3>3 DEF NonexistenceFacts
  <2> HIDE DEF Answered
  <2>2. PICK o \in Overflow(req) :
          /\ low < o /\ req.paymentReference # 0 /\ Answered(o, r)
          /\ Held(v, Window(req)) => ~Paid(req)
    BY <2>1
  <2>3. Needed(req) = Window(req)
    BY <1>6, SMT DEF Needed
  <2>4. ~Paid(req)
    BY <1>6, <2>2, <2>3
  <2>5. ASSUME NEW x \in Blocks, x > req.deadlineBlockNumber,
               chain[x].timestamp > req.deadlineTimestamp
        PROVE  o <= x
    BY <2>5 DEF Overflow
  <2>6. o \in Nat /\ low \in Nat
    <3>1. o \in Blocks
      BY DEF Overflow
    <3> QED BY <1>3, <1>6, <3>1, RequestIs
  <2>7. ASSUME NEW x \in Blocks, x > req.deadlineBlockNumber,
               chain[x].timestamp > req.deadlineTimestamp, low >= x
        PROVE  FALSE
    <3>1. o <= x /\ x \in Nat
      BY <1>3, <2>5, <2>7
    <3> QED BY <2>2, <2>6, <2>7, <3>1
  <2>8. ASSUME NEW x \in Overflow(req) PROVE x = o
    <3>1. x \in Blocks /\ o \in Blocks /\ x <= o /\ o <= x
      BY DEF Overflow
    <3>2. x \in Nat /\ o \in Nat
      BY <1>3, <3>1
    <3> QED BY <3>1, <3>2
  <2>9. NonexistenceFacts(w, req, q)
    BY <1>6 DEF ResultFacts
  <2>10. \/ q.status \in Indeterminate
         \/ \E x \in Overflow(req) : Answered(x, q)
    BY <2>2, <2>4, <2>7, <2>9 DEF NonexistenceFacts, Answered
  <2>11. CASE \E x \in Overflow(req) : Answered(x, q)
    <3>1. Answered(o, q)
      BY <2>8, <2>11
    <3> QED BY <2>2, <3>1 DEF Answered
  <2> QED BY <2>10, <2>11
<1> QED BY <1>1, <1>4, <1>5, <1>6

-----------------------------------------------------------------------------
(* Requests that are prepared.                                               *)

\* A request of a type that has all its values, and these are numbers.
HasNumbers(r) ==
  /\ r.attestationType \in Types
  /\ \A key \in ARType[r.attestationType] : key \in DOMAIN r /\ r[key] \in Numbers

\* What the pipe lets through are numbers.
LEMMA ValidatedIs ==
  ASSUME source \in Sources, NEW r \in Requests[source], Validated(r)
  PROVE  HasNumbers(r)
PROOF
<1>1. DOMAIN Server!ARTypeArray = Types
  BY DEF Server!ARTypeArray, Types
<1>2. ASSUME NEW type \in Types PROVE DOMAIN Server!ARTypeArray[type] = ARType[type]
  <2>1. /\ DOMAIN Server!ARPayment = ARPayment
        /\ DOMAIN Server!ARBalanceDecreasingTransaction = ARBalanceDecreasingTransaction
        /\ DOMAIN Server!ARConfirmedBlockHeightExists = ARConfirmedBlockHeightExists
        /\ DOMAIN Server!ARReferencedPaymentNonexistence = ARReferencedPaymentNonexistence
    BY DEF Server!ARPayment, Server!ARBalanceDecreasingTransaction,
           Server!ARConfirmedBlockHeightExists, Server!ARReferencedPaymentNonexistence,
           ARPayment, ARBalanceDecreasingTransaction, ARConfirmedBlockHeightExists,
           ARReferencedPaymentNonexistence, ARBase
  <2>2. /\ Server!ARTypeArray[1] = Server!ARPayment
        /\ Server!ARTypeArray[2] = Server!ARBalanceDecreasingTransaction
        /\ Server!ARTypeArray[3] = Server!ARConfirmedBlockHeightExists
        /\ Server!ARTypeArray[4] = Server!ARReferencedPaymentNonexistence
        /\ ARType[1] = ARPayment /\ ARType[2] = ARBalanceDecreasingTransaction
        /\ ARType[3] = ARConfirmedBlockHeightExists /\ ARType[4] = ARReferencedPaymentNonexistence
    BY DEF Server!ARTypeArray, ARType
  <2> QED BY <2>1, <2>2 DEF Types
<1>3. ASSUME NEW type \in Types, NEW key \in ARType[type]
      PROVE  Server!ARTypeArray[type][key] \in {"IsInt", "IsHash32", "IsNumberLike"}
  <2>1. \A class \in {Server!ARPayment, Server!ARBalanceDecreasingTransaction,
                      Server!ARConfirmedBlockHeightExists,
                      Server!ARReferencedPaymentNonexistence} :
          \A k \in DOMAIN class : class[k] \in {"IsInt", "IsHash32", "IsNumberLike"}
    BY DEF Server!ARPayment, Server!ARBalanceDecreasingTransaction,
           Server!ARConfirmedBlockHeightExists, Server!ARReferencedPaymentNonexistence,
           Server!IsInt, Server!IsHash32, Server!IsNumberLike
  <2>2. Server!ARTypeArray[type] \in
          {Server!ARPayment, Server!ARBalanceDecreasingTransaction,
           Server!ARConfirmedBlockHeightExists, Server!ARReferencedPaymentNonexistence}
    BY DEF Server!ARTypeArray, Types
  <2>3. key \in DOMAIN Server!ARTypeArray[type]
    BY <1>2
  <2> QED BY <2>1, <2>2, <2>3
<1>4. r.attestationType \in Types
  BY <1>1 DEF Validated
<1>5. ASSUME NEW key \in ARType[r.attestationType] PROVE key \in DOMAIN r /\ r[key] \in Numbers
  <2> DEFINE validator == Server!ARTypeArray[r.attestationType][key]
  <2>1. key \in DOMAIN r /\ Server!Accepts(validator, key, r[key])
    BY <1>2, <1>4 DEF Validated
  <2>2. validator \in {"IsInt", "IsHash32", "IsNumberLike"}
    BY <1>3, <1>4
  <2>3. r[key] # Text
    BY <2>1, <2>2 DEF Server!Accepts, Server!IsInt, Server!IsHash32, Server!IsNumberLike
  <2>4. r[key] \in Numbers \/ r[key] = Text
    BY <2>1, VerificationAssumption
  <2> QED BY <2>1, <2>3, <2>4
<1> QED BY <1>4, <1>5 DEF HasNumbers

\* A random request is of numbers, too, and for the source.
LEMMA RandomRequestIs ==
  ASSUME IndexersInv, NEW r \in RandomRequests, encodeRequest(r) # Throws
  PROVE  HasNumbers(r) /\ r.sourceId = SourceIds[source]
PROOF
<1>1. SourceIds[source] \in Numbers /\ NoMic \in Numbers /\ NewValue \in Numbers
      /\ 0 \in Numbers /\ 1 \in Numbers /\ 2 \in Numbers /\ 3 \in Numbers /\ 4 \in Numbers
  <2>1. SourceIds[source] \in 0..4
    BY ChainIs DEF SourceIds
  <2> QED BY <2>1, SMT DEF Numbers, NoMic, NewValue
<1>2. ASSUME NEW type \in Types
      PROVE  /\ DOMAIN RandomBase(type) = ARBase
             /\ RandomBase(type).attestationType = type
             /\ RandomBase(type).sourceId = SourceIds[source]
             /\ RandomBase(type).messageIntegrityCode = NoMic
  BY DEF RandomBase, ARBase
<1>3. ASSUME NEW type \in Types, NEW rest, r = RandomRequest(type, rest),
             DOMAIN rest = ARType[type] \ ARBase,
             \A key \in DOMAIN rest : rest[key] \in Numbers
      PROVE  HasNumbers(r) /\ r.sourceId = SourceIds[source]
  <2>1. /\ DOMAIN r = ARBase \cup DOMAIN rest
        /\ \A key \in DOMAIN r :
             r[key] = IF key \in ARBase THEN RandomBase(type)[key] ELSE rest[key]
    BY <1>2, <1>3 DEF RandomRequest
  <2>2. ARBase = {"attestationType", "sourceId", "messageIntegrityCode"}
    BY DEF ARBase
  <2>3. /\ r.attestationType = type /\ r.sourceId = SourceIds[source]
        /\ r.messageIntegrityCode = NoMic
    BY <1>2, <2>1, <2>2
  <2>4. type \in Numbers
    BY <1>1 DEF Types
  <2>5. ASSUME NEW key \in ARType[type] PROVE key \in DOMAIN r /\ r[key] \in Numbers
    BY <1>1, <1>3, <2>1, <2>2, <2>3, <2>4
  <2> QED BY <2>3, <2>5 DEF HasNumbers
<1>4. ASSUME NEW n \in Blocks PROVE n \in Numbers /\ n \in Nat /\ n # 0
  <2>1. Len(chain) \in Numbers /\ Blocks = 1..Len(chain)
    BY ChainIs
  <2> QED BY <2>1, SMT DEF Numbers
<1>5. Saved(1) \subseteq Blocks
  BY IndexerIs DEF Verifiers
<1>6. ASSUME NEW type \in {1, 2, 4}, NEW row \in fetchRandomTransactions(type)
      PROVE  /\ row.transactionId \in Numbers /\ row.blockNumber \in Numbers
             /\ row.paymentReference \in Numbers
  <2> DEFINE rows == UNION {{TxRow(n, tx) : tx \in chain[n].transactions} : n \in Saved(1)}
  <2>1. \/ fetchRandomTransactions(type) = {x \in rows : x.response.isNativePayment}
        \/ fetchRandomTransactions(type) = rows
        \/ fetchRandomTransactions(type)
             = {x \in rows : x.response.isNativePayment /\ x.paymentReference # 0}
    BY DEF fetchRandomTransactions, Saved, AttestationType
  <2>2. PICK n \in Saved(1) : \E tx \in chain[n].transactions : row = TxRow(n, tx)
    BY <2>1
  <2>3. PICK tx \in chain[n].transactions : row = TxRow(n, tx)
    BY <2>2
  <2>4. n \in Blocks /\ tx \in Transactions
    BY <1>5, ChainIs
  <2>5. tx.id \in Numbers /\ tx.paymentReference \in Numbers
    BY <2>4 DEF Transactions
  <2> QED BY <1>4, <2>3, <2>4, <2>5, TxRowIs
<1>7. /\ ARType[1] \ ARBase = {"id", "blockNumber", "inUtxo", "utxo"}
      /\ ARType[2] \ ARBase = {"id", "blockNumber", "sourceAddressIndicator"}
      /\ ARType[3] \ ARBase = {"blockNumber", "queryWindow"}
      /\ ARType[4] \ ARBase =
           {"minimalBlockNumber", "deadlineBlockNumber", "deadlineTimestamp",
            "destinationAddressHash", "amount", "paymentReference"}
  BY DEF ARType, ARPayment, ARBalanceDecreasingTransaction, ARConfirmedBlockHeightExists,
         ARReferencedPaymentNonexistence, ARBase
<1>8. ASSUME NEW row \in fetchRandomTransactions(1),
             r \in prepareRandomizedRequestPayment(row)
      PROVE  HasNumbers(r) /\ r.sourceId = SourceIds[source]
  <2>1. PICK id \in RandomIds(row) :
          r = RandomRequest(1, [id |-> id, blockNumber |-> row.blockNumber,
                                inUtxo |-> 0, utxo |-> 0])
    BY <1>8 DEF prepareRandomizedRequestPayment, AttestationType
  <2> DEFINE number == row.blockNumber
             rest == [id |-> id, blockNumber |-> number, inUtxo |-> 0, utxo |-> 0]
  <2>2. id \in Numbers /\ number \in Numbers
    BY <1>1, <1>6 DEF RandomIds
  <2> HIDE DEF number
  <2>3. DOMAIN rest = ARType[1] \ ARBase /\ \A key \in DOMAIN rest : rest[key] \in Numbers
    BY <1>1, <1>7, <2>2
  <2>4. r = RandomRequest(1, rest)
    BY <2>1 DEF number
  <2> HIDE DEF rest
  <2> QED BY <1>3, <2>3, <2>4 DEF Types
<1>9. ASSUME NEW row \in fetchRandomTransactions(2),
             r \in prepareRandomizedRequestBalanceDecreasingTransaction(row)
      PROVE  HasNumbers(r) /\ r.sourceId = SourceIds[source]
  <2>1. PICK id \in RandomIds(row) :
          r = RandomRequest(2, [id |-> id, blockNumber |-> row.blockNumber,
                                sourceAddressIndicator |-> 0])
    BY <1>9 DEF prepareRandomizedRequestBalanceDecreasingTransaction, AttestationType
  <2> DEFINE number == row.blockNumber
             rest == [id |-> id, blockNumber |-> number, sourceAddressIndicator |-> 0]
  <2>2. id \in Numbers /\ number \in Numbers
    BY <1>1, <1>6 DEF RandomIds
  <2> HIDE DEF number
  <2>3. DOMAIN rest = ARType[2] \ ARBase /\ \A key \in DOMAIN rest : rest[key] \in Numbers
    BY <1>1, <1>7, <2>2
  <2>4. r = RandomRequest(2, rest)
    BY <2>1 DEF number
  <2> HIDE DEF rest
  <2> QED BY <1>3, <2>3, <2>4 DEF Types
<1>10. ASSUME NEW b \in fetchRandomConfirmedBlocks,
              r \in prepareRandomizedRequestConfirmedBlockHeightExists(b)
       PROVE  HasNumbers(r) /\ r.sourceId = SourceIds[source]
  <2> DEFINE number == b.blockNumber
             rest == [blockNumber |-> number, queryWindow |-> QueryWindow]
  <2>1. r = RandomRequest(3, rest)
    BY <1>10 DEF prepareRandomizedRequestConfirmedBlockHeightExists, AttestationType
  <2>2. number \in Numbers /\ QueryWindow \in Numbers
    <3>1. \E n \in Saved(1) : b.blockNumber = n
      BY ConfirmedIs DEF fetchRandomConfirmedBlocks, Verifiers
    <3> QED BY <1>4, <1>5, <3>1, VerificationAssumption
  <2> HIDE DEF number
  <2>3. DOMAIN rest = ARType[3] \ ARBase /\ \A key \in DOMAIN rest : rest[key] \in Numbers
    BY <1>7, <2>2
  <2> HIDE DEF rest
  <2> QED BY <1>3, <2>1, <2>3 DEF Types
<1>11. ASSUME NEW row \in fetchRandomTransactions(4),
              r \in prepareRandomizedRequestReferencedPaymentNonexistence(row, Database(1))
       PROVE  HasNumbers(r) /\ r.sourceId = SourceIds[source]
  <2> DEFINE overflow == queryBlock(Database(1), row.blockNumber + OverflowOffset)
             before == {n \in 1..(overflow.blockNumber - 1) :
                          chain[n].timestamp # overflow.timestamp}
             last == Max(before)
             deadline == queryBlock(Database(1), last)
             deadlineNumber == deadline.blockNumber
             minimal == deadlineNumber - QueryWindow
             deadlineTime == deadline.timestamp
             Rest(reference) ==
               [minimalBlockNumber |-> minimal, deadlineBlockNumber |-> deadlineNumber,
                deadlineTimestamp |-> deadlineTime, destinationAddressHash |-> NewValue,
                amount |-> NewValue, paymentReference |-> reference]
  <2>1. /\ overflow # None /\ before # {} /\ deadline # None
        /\ \E reference \in {NewValue, row.paymentReference} : r = RandomRequest(4, Rest(reference))
    BY <1>11 DEF prepareRandomizedRequestReferencedPaymentNonexistence, AttestationType
  <2>2. PICK reference \in {NewValue, row.paymentReference} : r = RandomRequest(4, Rest(reference))
    BY <2>1
  <2>3. reference \in Numbers
    BY <1>1, <1>6
  <2>4. row.blockNumber + OverflowOffset # 0
    <3>1. \E n \in Saved(1) : row.blockNumber = n
      <4> DEFINE rows == UNION {{TxRow(n, tx) : tx \in chain[n].transactions} : n \in Saved(1)}
      <4>1. row \in rows
        BY DEF fetchRandomTransactions, Saved, AttestationType
      <4> QED BY <4>1, TxRowIs
    <3>2. OverflowOffset \in Nat
      BY VerificationAssumption
    <3>3. row.blockNumber \in Nat /\ row.blockNumber # 0
      BY <1>4, <1>5, <3>1
    <3> QED BY <3>2, <3>3
  <2>5. \E o \in Saved(1) : overflow = Row(o, TRUE)
    BY <2>1, <2>4, QueryBlock DEF Verifiers
  <2>6. overflow.blockNumber \in Nat
    BY <1>4, <1>5, <2>5, RowIs
  <2>7. last \in before
    <3>1. before \in SUBSET Nat /\ \A n \in before : n <= overflow.blockNumber
      BY <2>6
    <3> HIDE DEF before, overflow
    <3>2. \E n \in before : \A m \in before : m <= n
      BY <2>1, <2>6, <3>1, Greatest
    <3>3. \E n \in before : \A m \in before : n >= m
      BY <3>1, <3>2
    <3> QED BY <3>3 DEF Max
  <2>8. last # 0
    <3>1. last \in 1..(overflow.blockNumber - 1)
      BY <2>7
    <3> HIDE DEF last, overflow
    <3> QED BY <2>6, <3>1
  <2>9. last \in Saved(1) /\ deadline = Row(last, TRUE)
    BY <2>1, <2>8, QueryBlock DEF Verifiers
  <2> HIDE DEF overflow, before, last
  <2>10. deadlineNumber \in Numbers /\ deadlineTime \in Numbers /\ deadlineNumber \in Nat
    <3>1. last \in Blocks
      BY <1>5, <2>9
    <3>2. chain[last].timestamp \in Numbers
      BY <3>1, ChainIs
    <3> QED BY <1>4, <2>9, <3>1, <3>2, RowIs
  <2>11. QueryWindow \in Nat /\ QueryWindow \in Numbers
    BY VerificationAssumption, SMT DEF Numbers
  <2> HIDE DEF deadline, deadlineNumber, deadlineTime
  <2>12. minimal \in Int /\ minimal <= deadlineNumber
    BY <2>10, <2>11
  <2> HIDE DEF minimal
  <2>13. DOMAIN Rest(reference) = ARType[4] \ ARBase /\ Rest(reference).minimalBlockNumber = minimal
    BY <1>7
  <2>14. r.attestationType = 4 /\ r.minimalBlockNumber = minimal
    <3>1. "minimalBlockNumber" \notin ARBase /\ "attestationType" \in ARBase
          /\ "minimalBlockNumber" \in ARType[4] \ ARBase
      BY <1>7 DEF ARBase
    <3> HIDE DEF Rest
    <3>2. 4 \in Types
      BY DEF Types
    <3>3. /\ r.minimalBlockNumber = Rest(reference).minimalBlockNumber
          /\ r.attestationType = RandomBase(4).attestationType
      BY <1>2, <2>2, <2>13, <3>1, <3>2 DEF RandomRequest
    <3> QED BY <1>2, <2>13, <3>2, <3>3
  <2>15. minimal \in Numbers
    <3>1. CanEncode(r)
      BY <2>14, EncodedIs DEF Types
    <3>2. PICK i \in DOMAIN RequestFields(4) : RequestFields(4)[i].key = "minimalBlockNumber"
      <4>1. Keys(RequestFields(4)) = ARType[4]
        BY RequestFieldsAre DEF FieldsAre, Types
      <4> QED BY <1>7, <4>1 DEF Keys
    <3>3. Fits(minimal, RequestFields(4)[i].size)
      BY <2>14, <3>1, <3>2 DEF CanEncode
    <3>4. minimal >= 0
      BY <3>3 DEF Fits
    <3> QED BY <2>10, <2>12, <3>4, SMT DEF Numbers
  <2>16. \A key \in DOMAIN Rest(reference) : Rest(reference)[key] \in Numbers
    BY <1>1, <2>3, <2>10, <2>15
  <2> HIDE DEF Rest
  <2> QED BY <1>3, <2>2, <2>13, <2>16 DEF Types
<1>12. \/ \E row \in fetchRandomTransactions(1) : r \in prepareRandomizedRequestPayment(row)
       \/ \E row \in fetchRandomTransactions(2) :
            r \in prepareRandomizedRequestBalanceDecreasingTransaction(row)
       \/ \E b \in fetchRandomConfirmedBlocks :
            r \in prepareRandomizedRequestConfirmedBlockHeightExists(b)
       \/ \E row \in fetchRandomTransactions(4) :
            r \in prepareRandomizedRequestReferencedPaymentNonexistence(row, Database(1))
  BY DEF RandomRequests
<1> QED BY <1>8, <1>9, <1>10, <1>11, <1>12

\* Where the address of the sender is in a request of type 2.
LEMMA SenderField ==
  /\ DOMAIN RequestFields(2) = 1..6
  /\ RequestFields(2)[6] = Field("sourceAddressIndicator", 32)
PROOF
<1> DEFINE f == RequestFields(2)
           r == BalanceDecreasingDefinition.request
<1>1. Len(r) = 3 /\ r[3] = Field("sourceAddressIndicator", 32)
  BY DEF BalanceDecreasingDefinition
<1>2. r \in Seq({Field("id", 32), Field("blockNumber", 4), Field("sourceAddressIndicator", 32)})
  BY DEF BalanceDecreasingDefinition
<1>3. f = RequestBase \o r
  BY DefinitionOf DEF RequestFields
<1>4. DOMAIN f = 1..(3 + Len(r)) /\ \A i \in 1..Len(r) : f[3 + i] = r[i]
  <2> HIDE DEF f, r
  <2> QED BY <1>2, <1>3, AfterBase
<1> HIDE DEF f, r
<1> QED BY <1>1, <1>4 DEF f

\* The code and the address of the sender have 32 bytes.
WideKey(type, key) == key = "messageIntegrityCode" \/ (type = 2 /\ key = "sourceAddressIndicator")

\* So any number can be put in their place.
LEMMA Recoded ==
  ASSUME NEW r, r.attestationType \in Types, CanEncode(r),
         NEW key, WideKey(r.attestationType, key), NEW value \in Nat
  PROVE  LET s == [r EXCEPT ![key] = value]
         IN  /\ CanEncode(s) /\ s.attestationType = r.attestationType
             /\ DOMAIN s = DOMAIN r /\ s[key] = value /\ \A k \in DOMAIN r : k # key => s[k] = r[k]
PROOF
<1> DEFINE s == [r EXCEPT ![key] = value]
           type == r.attestationType
           fields == RequestFields(type)
<1>1. FieldsAre(fields, ARType[type])
  BY RequestFieldsAre
<1>2. \A i \in DOMAIN fields : fields[i].key \in DOMAIN r /\ Fits(r[fields[i].key], fields[i].size)
  BY DEF CanEncode
<1>3. key \in DOMAIN r /\ key # "attestationType" /\ "attestationType" \in DOMAIN r
  <2>1. /\ 1 \in DOMAIN fields /\ fields[1].key = "attestationType"
        /\ 3 \in DOMAIN fields /\ fields[3].key = "messageIntegrityCode"
    BY <1>1 DEF FieldsAre, Field
  <2>2. type = 2 => 6 \in DOMAIN fields /\ fields[6].key = "sourceAddressIndicator"
    BY SenderField DEF Field
  <2> QED BY <1>2, <2>1, <2>2 DEF WideKey
<1>4. DOMAIN s = DOMAIN r /\ s[key] = value /\ \A k \in DOMAIN r : k # key => s[k] = r[k]
  BY <1>3
<1> HIDE DEF s
<1>5. s.attestationType = type
  BY <1>3, <1>4
<1>6. ASSUME NEW i \in DOMAIN fields, fields[i].key = key PROVE fields[i].size = 32
  <2>1. CASE key = "messageIntegrityCode"
    <3>1. 3 \in DOMAIN fields /\ fields[3].key = "messageIntegrityCode" /\ fields[3].size = 32
      BY <1>1 DEF FieldsAre, Field
    <3>2. i = 3
      BY <1>1, <1>6, <2>1, <3>1 DEF FieldsAre
    <3> QED BY <3>1, <3>2
  <2>2. CASE type = 2 /\ key = "sourceAddressIndicator"
    <3>1. 6 \in DOMAIN fields /\ fields[6].key = "sourceAddressIndicator" /\ fields[6].size = 32
      BY <2>2, SenderField DEF Field
    <3>2. i = 6
      BY <1>1, <1>6, <2>2, <3>1 DEF FieldsAre
    <3> QED BY <3>1, <3>2
  <2> QED BY <2>1, <2>2 DEF WideKey
<1>7. Fits(value, 32)
  BY DEF Fits
<1>8. ASSUME NEW i \in DOMAIN fields
      PROVE  fields[i].key \in DOMAIN s /\ Fits(s[fields[i].key], fields[i].size)
  BY <1>2, <1>3, <1>4, <1>6, <1>7
<1>9. CanEncode(s)
  <2> HIDE DEF type
  <2>1. \A i \in DOMAIN RequestFields(s.attestationType) :
          LET field == RequestFields(s.attestationType)[i]
          IN  field.key \in DOMAIN s /\ Fits(s[field.key], field.size)
    BY <1>5, <1>8
  <2> QED BY <2>1 DEF CanEncode
<1> QED BY <1>4, <1>5, <1>9 DEF s

\* Bytes of a request are octets, and long enough to have a head.
LEMMA EncodedBytes ==
  ASSUME NEW r, r.attestationType \in Types, CanEncode(r),
         \A key \in ARType[r.attestationType] : r[key] \in Int
  PROVE  /\ encodeRequest(r) \in Seq(Octets) /\ encodeRequest(r) # Throws
         /\ Len(encodeRequest(r)) >= 38
PROOF
<1>1. /\ encodeRequest(r) \in Seq(Octets)
      /\ Len(encodeRequest(r)) = TotalLength(RequestFields(r.attestationType))
  BY EncodedFields
<1>2. TotalLength(RequestFields(r.attestationType)) >= 38
  <2>1. FieldsAre(RequestFields(r.attestationType), ARType[r.attestationType])
    BY RequestFieldsAre
  <2> QED BY <2>1, Places
<1>3. encodeRequest(r) \in Seq(Nat)
  <2>1. ASSUME NEW b \in Seq(Octets) PROVE b \in Seq(Nat)
    <3>1. \A i \in 1..Len(b) : b[i] \in Octets
      <4> HIDE DEF Octets
      <4> QED OBVIOUS
    <3>2. \A i \in 1..Len(b) : b[i] \in Nat
      BY <3>1, OctetsAreNumbers
    <3>3. b = [i \in 1..Len(b) |-> b[i]] /\ Len(b) \in Nat
      OBVIOUS
    <3> QED BY <3>2, <3>3
  <2> QED BY <1>1, <2>1
<1> QED BY <1>1, <1>2, <1>3, VerificationAssumption

\* What may be submitted for bytes are bytes.
LEMMA SubmissionsAre ==
  ASSUME NEW b \in Seq(Octets), Len(b) >= 38
  PROVE  Submissions(b) \subseteq Seq(Octets)
PROOF
<1>1. Len(b) \in Nat /\ Len(b) >= 38
  OBVIOUS
<1>2. Front(b) \in Seq(Octets)
  <2>1. Len(b) - 1 \in Nat /\ 0 <= Len(b) - 1 /\ Len(b) - 1 <= Len(b)
    BY <1>1
  <2>2. SubSeq(b, 0 + 1, Len(b) - 1) \in Seq(Octets)
    BY <2>1, Part
  <2> QED BY <2>2 DEF Front
<1>3. ASSUME NEW i \in 1..Len(b), NEW x \in Octets PROVE [b EXCEPT ![i] = x] \in Seq(Octets)
  <2> HIDE DEF Octets
  <2> QED OBVIOUS
<1>4. 9 \in Octets /\ 7 \in Octets
  BY DEF Octets
<1>5. \A x \in Octets : (x + 1) % 256 \in Octets
  BY DEF Octets
<1>6. /\ 38 \in 1..Len(b) /\ 6 \in 1..Len(b) /\ 2 \in 1..Len(b) /\ Len(b) \in 1..Len(b)
  BY <1>1
<1>7. \A i \in 1..Len(b) : b[i] \in Octets
  <2> HIDE DEF Octets
  <2> QED OBVIOUS
<1> DEFINE code == (b[38] + 1) % 256
           last == (b[Len(b)] + 1) % 256
<1>8. code \in Octets /\ last \in Octets
  BY <1>5, <1>6, <1>7
<1> HIDE DEF code, last
<1>9. /\ [b EXCEPT ![38] = code] \in Seq(Octets) /\ [b EXCEPT ![6] = 9] \in Seq(Octets)
      /\ [b EXCEPT ![2] = 7] \in Seq(Octets) /\ [b EXCEPT ![Len(b)] = last] \in Seq(Octets)
  BY <1>3, <1>4, <1>6, <1>8
<1>10. Submissions(b) \subseteq
         {b, Front(b), [b EXCEPT ![38] = code], [b EXCEPT ![6] = 9], [b EXCEPT ![2] = 7],
          [b EXCEPT ![Len(b)] = last]}
  BY DEF Submissions, code, last
<1> QED BY <1>2, <1>9, <1>10

\* A request that has the code of an answer of the first verifier.
Coded(req, a) ==
  /\ HasNumbers(req) /\ req.messageIntegrityCode = dataHash(req, a.response, MIC_SALT)
  /\ \E asked : AnswerFacts(1, asked, a) /\ Same(asked, req)

\* Numbers are natural numbers.
LEMMA NumbersAreNatural == \A x \in Numbers : x \in Nat /\ x \in Int
PROOF BY SMT DEF Numbers

\* What of a request comes through its bytes is the same request.
LEMMA ParsedSame ==
  ASSUME NEW r, HasNumbers(r), encodeRequest(r) # Throws
  PROVE  LET p == parseRequest(encodeRequest(r))
         IN  /\ p.attestationType = r.attestationType
             /\ DOMAIN p = ARType[r.attestationType]
             /\ \A key \in ARType[r.attestationType] : p[key] = r[key]
PROOF
<1>1. /\ r.attestationType \in Types
      /\ \A key \in ARType[r.attestationType] : r[key] \in Numbers /\ r[key] \in Int
  BY NumbersAreNatural DEF HasNumbers
<1> QED BY <1>1, EncodedParses

\* The request of the first verifier gets its code, and can be encoded with it,
\* as it can be with the sender's address then put into it.
LEMMA WithCodeIs ==
  ASSUME IndexersInv, NEW r, HasNumbers(r), encodeRequest(r) # Throws,
         NEW a, AnswerFacts(1, parseRequest(encodeRequest(r)), a), a # Throws, a.status = "OK"
  PROVE  LET coded == WithCode(r, a)
             resent == [coded EXCEPT !.sourceAddressIndicator = a.response.sourceAddressHash]
         IN  /\ coded.attestationType = r.attestationType
             /\ Coded(coded, a)
             /\ encodeRequest(coded) \in Seq(Octets) /\ Len(encodeRequest(coded)) >= 38
             /\ r.attestationType = 2 =>
                  /\ encodeRequest(resent) \in Seq(Octets) /\ Len(encodeRequest(resent)) >= 38
                  /\ resent.attestationType = 2
PROOF
<1> DEFINE p == parseRequest(encodeRequest(r))
           code == dataHash(r, a.response, MIC_SALT)
           coded == WithCode(r, a)
           type == r.attestationType
           sender == a.response.sourceAddressHash
           resent == [coded EXCEPT !.sourceAddressIndicator = sender]
<1>1. /\ type \in Types
      /\ \A key \in ARType[type] : key \in DOMAIN r /\ r[key] \in Numbers
  BY DEF HasNumbers
<1>2. CanEncode(r)
  BY <1>1, EncodedIs
<1>3. p.attestationType = type /\ \A key \in ARType[type] : p[key] = r[key]
  BY ParsedSame
<1>4. {"attestationType", "sourceId", "messageIntegrityCode"} \subseteq ARType[type]
  BY <1>1 DEF ARType, ARPayment, ARBalanceDecreasingTransaction, ARConfirmedBlockHeightExists,
              ARReferencedPaymentNonexistence, ARBase, Types
<1>5. p.sourceId = r.sourceId /\ r.sourceId \in Nat
  BY <1>1, <1>3, <1>4, NumbersAreNatural
<1>6. Request(p) /\ \E q : ResultFacts(1, p, q) /\ a = Verification(p, q)
  BY DEF AnswerFacts
<1>7. PICK q : ResultFacts(1, p, q) /\ a = Verification(p, q)
  BY <1>6
<1>8. q.status = "OK" /\ a.response = q.response /\ dataHash(p, q.response, NoSalt) # Throws
  BY <1>7, VerificationIs
<1>9. Numeric(q.response) /\ DOMAIN q.response = DHType[type]
  BY <1>3, <1>6, <1>7, <1>8, ResponseNumbers DEF Verifiers
<1>10. code \in Numbers
  <2>1. \A key \in DOMAIN q.response : q.response[key] \in Int
    BY <1>9 DEF Numeric
  <2>2. p.sourceId \in Nat /\ p.attestationType \in Types /\ MIC_SALT \in Int
    BY <1>1, <1>3, <1>5 DEF MIC_SALT
  <2>3. /\ dataHash(p, q.response, MIC_SALT) \in Numbers
        /\ dataHash(r, q.response, MIC_SALT) = dataHash(p, q.response, MIC_SALT)
    BY <1>3, <1>5, <1>8, <2>1, <2>2, DataHashIs
  <2> QED BY <1>8, <2>3
<1>11. /\ CanEncode(coded) /\ coded.attestationType = type
       /\ DOMAIN coded = DOMAIN r /\ coded.messageIntegrityCode = code
       /\ \A k \in DOMAIN r : k # "messageIntegrityCode" => coded[k] = r[k]
  <2>1. coded = [r EXCEPT !["messageIntegrityCode"] = code]
    BY DEF WithCode
  <2>2. WideKey(type, "messageIntegrityCode") /\ code \in Nat
    BY <1>10, NumbersAreNatural DEF WideKey
  <2> HIDE DEF code, coded
  <2> DEFINE key == "messageIntegrityCode"
             s == [r EXCEPT ![key] = code]
  <2>3. WideKey(r.attestationType, key)
    BY <2>2
  <2> HIDE DEF key
  <2>4. /\ CanEncode(s) /\ s.attestationType = r.attestationType
        /\ DOMAIN s = DOMAIN r /\ s[key] = code /\ \A k \in DOMAIN r : k # key => s[k] = r[k]
    BY <1>1, <1>2, <2>2, <2>3, Recoded
  <2>5. coded = s
    BY <2>1 DEF key
  <2> HIDE DEF s
  <2> QED BY <2>4, <2>5 DEF key
<1> HIDE DEF coded
<1>12. \A key \in ARType[type] : key \in DOMAIN coded /\ coded[key] \in Numbers
  BY <1>1, <1>10, <1>11
<1>13. HasNumbers(coded)
  BY <1>1, <1>11, <1>12 DEF HasNumbers
<1>14. Same(p, coded)
  BY <1>1, <1>3, <1>11 DEF Same
<1>15. code = dataHash(coded, a.response, MIC_SALT)
  <2>1. coded.sourceId = r.sourceId
    BY <1>1, <1>4, <1>11
  <2> QED BY <1>11, <2>1 DEF dataHash
<1>16. Coded(coded, a)
  BY <1>11, <1>13, <1>14, <1>15 DEF Coded
<1>17. \A key \in ARType[type] : coded[key] \in Int
  BY <1>12, NumbersAreNatural
<1>18. encodeRequest(coded) \in Seq(Octets) /\ Len(encodeRequest(coded)) >= 38
  BY <1>1, <1>11, <1>17, EncodedBytes
<1>19. ASSUME type = 2
       PROVE  /\ encodeRequest(resent) \in Seq(Octets) /\ Len(encodeRequest(resent)) >= 38
              /\ resent.attestationType = 2
  <2>1. sender \in Nat
    <3>1. "sourceAddressHash" \in DOMAIN q.response
      BY <1>9, <1>19 DEF DHType, DHBalanceDecreasingTransaction
    <3> QED BY <1>8, <1>9, <3>1 DEF Numeric
  <2>2. WideKey(coded.attestationType, "sourceAddressIndicator") /\ coded.attestationType \in Types
    BY <1>1, <1>11, <1>19 DEF WideKey
  <2> HIDE DEF sender
  <2>3. /\ CanEncode(resent) /\ resent.attestationType = coded.attestationType
        /\ DOMAIN resent = DOMAIN coded /\ resent.sourceAddressIndicator = sender
        /\ \A k \in DOMAIN coded : k # "sourceAddressIndicator" => resent[k] = coded[k]
    BY <1>11, <2>1, <2>2, Recoded
  <2> HIDE DEF resent
  <2>4. \A key \in ARType[resent.attestationType] : resent[key] \in Int
    BY <1>11, <1>12, <1>17, <2>1, <2>3
  <2> QED BY <1>11, <1>19, <2>2, <2>3, <2>4, EncodedBytes
<1> QED BY <1>11, <1>16, <1>18, <1>19 DEF coded

\* Bytes that begin as those of a request and are of another length are none.
LEMMA OtherLength ==
  ASSUME NEW b \in Seq(Octets), NEW c \in Seq(Octets), TypeIn(b) \in Types,
         Len(b) = TotalLength(RequestFields(TypeIn(b))), Len(c) >= 2, Len(c) # Len(b),
         c[1] = b[1], c[2] = b[2]
  PROVE  parseRequest(c) = Throws
PROOF
<1>2. Len(b) >= 38
  <2>1. FieldsAre(RequestFields(TypeIn(b)), ARType[TypeIn(b)])
    BY RequestFieldsAre
  <2> QED BY <2>1, Places
<1>3. SubSeq(c, 1, 2) = SubSeq(b, 1, 2)
  <2>1. /\ SubSeq(b, 0 + 1, 2) \in Seq(Octets) /\ Len(SubSeq(b, 0 + 1, 2)) = 2 - 0
        /\ \A j \in 1..(2 - 0) : SubSeq(b, 0 + 1, 2)[j] = b[0 + j]
    BY <1>2, Part
  <2>2. /\ SubSeq(c, 0 + 1, 2) \in Seq(Octets) /\ Len(SubSeq(c, 0 + 1, 2)) = 2 - 0
        /\ \A j \in 1..(2 - 0) : SubSeq(c, 0 + 1, 2)[j] = c[0 + j]
    BY Part
  <2>3. 0 + 1 = 1 /\ 2 - 0 = 2 /\ 1..2 = {1, 2} /\ 0 + 2 = 2
    OBVIOUS
  <2>4. \A j \in 1..2 : SubSeq(c, 1, 2)[j] = SubSeq(b, 1, 2)[j]
    BY <2>1, <2>2, <2>3
  <2>5. /\ SubSeq(b, 1, 2) \in Seq(Octets) /\ SubSeq(c, 1, 2) \in Seq(Octets)
        /\ Len(SubSeq(b, 1, 2)) = 2 /\ Len(SubSeq(c, 1, 2)) = 2
    BY <2>1, <2>2, <2>3
  <2> DEFINE x == SubSeq(b, 1, 2)
             y == SubSeq(c, 1, 2)
  <2> HIDE DEF x, y, Octets
  <2> QED BY <2>4, <2>5, SameElements DEF x, y
<1>4. TypeIn(c) = TypeIn(b)
  BY <1>3 DEF TypeIn
<1>5. ASSUME parseRequest(c) # Throws PROVE FALSE
  <2>1. Len(c) = TotalLength(RequestFields(TypeIn(c)))
    BY <1>5, ParsedIs
  <2> QED BY <1>4, <2>1
<1> QED BY <1>5

\* RoundTrip, of one request.
LEMMA Returns ==
  ASSUME NEW r, HasNumbers(r), encodeRequest(r) # Throws
  PROVE  LET b == encodeRequest(r)
         IN  /\ equalsRequest(parseRequest(b), r)
             /\ DOMAIN parseRequest(b) = ARType[r.attestationType]
             /\ parseRequest(Front(b)) = Throws /\ parseRequest(Append(b, 0)) = Throws
PROOF
<1> DEFINE b == encodeRequest(r)
           p == parseRequest(b)
           type == r.attestationType
<1>1. type \in Types /\ \A key \in ARType[type] : r[key] \in Int
  BY NumbersAreNatural DEF HasNumbers
<1>2. /\ p.attestationType = type /\ DOMAIN p = ARType[type]
      /\ \A key \in ARType[type] : p[key] = r[key]
  BY ParsedSame
<1>3. RequestKeys(type) = ARType[type]
  BY <1>1, RequestFieldsAre DEF RequestKeys, FieldsAre
<1>4. equalsRequest(p, r)
  BY <1>2, <1>3 DEF equalsRequest
<1>5. b \in Seq(Octets) /\ Len(b) >= 38
  BY <1>1, EncodedIs, EncodedBytes
<1>6. TypeIn(b) \in Types /\ Len(b) = TotalLength(RequestFields(TypeIn(b)))
  BY <1>1, Encoded
<1> HIDE DEF b, p
<1>7. Len(b) \in Nat
  BY <1>5
<1>8. /\ Front(b) \in Seq(Octets) /\ Len(Front(b)) = Len(b) - 1
      /\ Front(b)[1] = b[1] /\ Front(b)[2] = b[2]
  <2>1. Len(b) - 1 \in Nat /\ 0 <= Len(b) - 1 /\ Len(b) - 1 <= Len(b)
    BY <1>5, <1>7
  <2> DEFINE n == Len(b) - 1
  <2> HIDE DEF n
  <2>2. /\ SubSeq(b, 0 + 1, n) \in Seq(Octets) /\ Len(SubSeq(b, 0 + 1, n)) = n - 0
        /\ \A j \in 1..(n - 0) : SubSeq(b, 0 + 1, n)[j] = b[0 + j]
    BY <1>5, <2>1, Part DEF n
  <2>3. 0 + 1 = 1 /\ n - 0 = n /\ 1 \in 1..n /\ 2 \in 1..n /\ 0 + 2 = 2
    BY <1>5, <1>7 DEF n
  <2>4. Front(b) = SubSeq(b, 1, n)
    BY DEF Front, n
  <2> QED BY <2>2, <2>3, <2>4 DEF n
<1>9. /\ Append(b, 0) \in Seq(Octets) /\ Len(Append(b, 0)) = Len(b) + 1
      /\ Append(b, 0)[1] = b[1] /\ Append(b, 0)[2] = b[2]
  <2>1. 0 \in Octets /\ 1 \in 1..Len(b) /\ 2 \in 1..Len(b)
    BY <1>5, <1>7 DEF Octets
  <2> HIDE DEF Octets
  <2> QED BY <1>5, <2>1
<1>10. parseRequest(Front(b)) = Throws
  <2>1. Len(Front(b)) >= 2 /\ Len(Front(b)) # Len(b)
    BY <1>5, <1>7, <1>8
  <2> QED BY <1>5, <1>6, <1>8, <2>1, OtherLength DEF p
<1>11. parseRequest(Append(b, 0)) = Throws
  <2>1. Len(Append(b, 0)) >= 2 /\ Len(Append(b, 0)) # Len(b)
    BY <1>5, <1>7, <1>9
  <2> QED BY <1>5, <1>6, <1>9, <2>1, OtherLength DEF p
<1> QED BY <1>2, <1>4, <1>10, <1>11 DEF b, p

\* What a controller answers is what the attestation client sees.
LEMMA Seen == ASSUME NEW a PROVE Data(handleApiResponse(a)) = a
PROOF
<1>1. [status |-> "ERROR"].status # "OK"
  OBVIOUS
<1>2. [status |-> "OK", data |-> a].status = "OK" /\ [status |-> "OK", data |-> a].data = a
  OBVIOUS
<1> QED BY <1>1, <1>2 DEF Data, handleApiResponse

\* Statuses are summarized as they are listed.
LEMMA Summarized ==
  /\ getSummarizedVerificationStatus("OK") = "valid"
  /\ \A s \in Indeterminate : getSummarizedVerificationStatus(s) = "indeterminate"
PROOF
<1>1. "OK" \notin Invalid \cup Indeterminate
  BY DEF Invalid, Indeterminate
<1>2. \A s \in Indeterminate : s # "OK" /\ s \notin Invalid
  BY DEF Invalid, Indeterminate
<1> QED BY <1>1, <1>2 DEF getSummarizedVerificationStatus

\* PreparedIsConfirmed, of one request and what the second verifier answers.
LEMMA NotInvalid ==
  ASSUME IndexersInv, NEW r, encodeRequest(r) # Throws, NEW a, a # Throws, a.status = "OK",
         Coded(r, a), Held(2, Needed(r)), r.attestationType = 4 => Held(1, Needed(r)),
         NEW c, AnswerFacts(2, parseRequest(encodeRequest(r)), c)
  PROVE  Verdict(encodeRequest(r), c) # "invalid"
PROOF
<1> DEFINE b == encodeRequest(r)
           p == parseRequest(b)
           type == r.attestationType
           head == getAttestationTypeAndSource(b)
<1> SUFFICES ASSUME c # Throws PROVE Verdict(b, c) # "invalid"
  BY DEF Verdict
<1>1. /\ HasNumbers(r) /\ r.messageIntegrityCode = dataHash(r, a.response, MIC_SALT)
      /\ \E asked : AnswerFacts(1, asked, a) /\ Same(asked, r)
  BY DEF Coded
<1>2. type \in Types /\ \A key \in ARType[type] : r[key] \in Int
  BY <1>1, NumbersAreNatural DEF HasNumbers
<1>3. p.attestationType = type /\ \A key \in ARType[type] : p[key] = r[key]
  BY <1>1, ParsedSame
<1>4. head = [attestationType |-> p.attestationType, sourceId |-> p.sourceId,
              messageIntegrityCode |-> p.messageIntegrityCode]
  <2>1. /\ b \in Seq(Octets) /\ TypeIn(b) = type /\ Len(b) = TotalLength(RequestFields(type))
    BY <1>2, Encoded
  <2> HIDE DEF b
  <2> QED BY <1>2, <2>1, ParseIs
<1>5. {"attestationType", "sourceId", "messageIntegrityCode"} \subseteq ARType[type]
  BY <1>2 DEF ARType, ARPayment, ARBalanceDecreasingTransaction, ARConfirmedBlockHeightExists,
              ARReferencedPaymentNonexistence, ARBase, Types
<1>6. /\ head.attestationType = type /\ head.sourceId = r.sourceId
      /\ head.messageIntegrityCode = r.messageIntegrityCode
  BY <1>3, <1>4, <1>5
<1>7. Request(p) /\ \E q : ResultFacts(2, p, q) /\ c = Verification(p, q)
  BY DEF AnswerFacts
<1>8. PICK q : ResultFacts(2, p, q) /\ c = Verification(p, q)
  BY <1>7
<1>9. c.status = q.status /\ (q.status = "OK" => c.response = q.response)
  BY <1>8, VerificationIs
<1>10. PICK asked : AnswerFacts(1, asked, a) /\ Same(asked, r)
  BY <1>1
<1>11. Request(asked) /\ \E x : ResultFacts(1, asked, x) /\ a = Verification(asked, x)
  BY <1>10 DEF AnswerFacts
<1>12. PICK x : ResultFacts(1, asked, x) /\ a = Verification(asked, x)
  BY <1>11
<1>13. x.status = "OK" /\ a.response = x.response
  BY <1>12, VerificationIs
<1>14. Same(asked, p)
  <2>1. asked.attestationType = type
    BY <1>10 DEF Same
  <2> QED BY <1>3, <1>10, <2>1 DEF Same
<1>15. ResultFacts(1, p, x)
  BY <1>11, <1>12, <1>14, SameFacts
<1>16. Needed(p) = Needed(r)
  <2>1. CASE type \in {1, 2}
    <3>1. "blockNumber" \in ARType[type]
      BY <2>1 DEF ARType, ARPayment, ARBalanceDecreasingTransaction
    <3> QED BY <1>3, <2>1, <3>1 DEF Needed
  <2>2. CASE type = 3
    <3> QED BY <1>3, <2>2, SMT DEF Needed
  <2>3. CASE type = 4
    <3>1. {"minimalBlockNumber", "deadlineBlockNumber", "deadlineTimestamp"} \subseteq ARType[type]
      BY <2>3 DEF ARType, ARReferencedPaymentNonexistence
    <3>2. /\ p.minimalBlockNumber = r.minimalBlockNumber
          /\ p.deadlineBlockNumber = r.deadlineBlockNumber
          /\ p.deadlineTimestamp = r.deadlineTimestamp
      BY <1>3, <3>1
    <3>3. Overflow(p) = Overflow(r)
      BY <3>2 DEF Overflow
    <3>4. Window(p) = Window(r)
      BY <3>2, <3>3 DEF Window
    <3>5. Needed(p) = Window(p) /\ Needed(r) = Window(r)
      BY <1>3, <2>3, SMT DEF Needed
    <3> QED BY <3>4, <3>5
  <2> QED BY <1>2, <2>1, <2>2, <2>3 DEF Types
<1>17. q.status \in Indeterminate \/ q = x
  BY <1>3, <1>7, <1>8, <1>13, <1>15, <1>16, SameAnswer DEF Verifiers
<1>18. CASE q.status \in Indeterminate
  <2>1. getSummarizedVerificationStatus(c.status) = "indeterminate"
    BY <1>9, <1>18, Summarized
  <2>2. Verdict(b, c) = "error"
    BY <2>1 DEF Verdict
  <2> QED BY <2>2
<1>19. CASE q = x
  <2>1. getSummarizedVerificationStatus(c.status) = "valid"
    BY <1>9, <1>13, <1>19, Summarized
  <2>2. c.response = a.response
    BY <1>9, <1>13, <1>19
  <2>3. dataHash(head, c.response, MIC_SALT) = head.messageIntegrityCode
    <3>1. dataHash(head, a.response, MIC_SALT) = dataHash(r, a.response, MIC_SALT)
      BY <1>6 DEF dataHash
    <3> QED BY <1>1, <1>6, <2>2, <3>1
  <2>4. Verdict(b, c) = "valid"
    BY <2>1, <2>3 DEF Verdict
  <2> QED BY <2>4
<1> QED BY <1>17, <1>18, <1>19

-----------------------------------------------------------------------------
(* The invariant.                                                            *)

\* The random requests whose sender is set after the code is made.
Resent == origin = "random" /\ source = "XRP" /\ request.attestationType = 2

\* The verifier at work has answered.
Answered == pc \in {"answered", "judged"} /\ (who = 1 => answer[1] # None)

\* The first verifier has answered, and confirms the request.
Confirms == who = 2 /\ answer[1] \notin {None, Throws} /\ answer[1].status = "OK"

\* The request on its way, in JSON, in bytes and parsed, and the answers to it.
RequestInv ==
  /\ who \in Verifiers /\ origin \in {"server", "random"}
  /\ answer = [v \in Verifiers |-> answer[v]]
  /\ pc = "prepare" =>
       who = 1 /\ answer[1] = None /\ (origin = "server" => request \in Requests[source])
  /\ pc = "submitted" => who = 2 /\ bytes \in Seq(Octets)
  /\ pc = "judged" => who = 2 /\ verdict = Verdict(bytes, answer[2])
  /\ who = 1 /\ pc \in {"read", "answered"} =>
       HasNumbers(request) /\ encodeRequest(request) # Throws /\ bytes = encodeRequest(request)
  /\ pc = "read" \/ Answered => bytes \in Seq(Octets) /\ parsed = parseRequest(bytes)
  /\ Answered => AnswerFacts(who, parsed, answer[who])
  /\ Confirms /\ ~Resent => Coded(request, answer[1])

Inv == IndexersInv /\ ReadInv /\ RequestInv

\* Init establishes it.
LEMMA InitInv == ASSUME Init PROVE Inv
PROOF
<1>1. /\ chain \in Chains /\ source \in Sources
      /\ state = [v \in Verifiers |->
           [N |-> FirstN[v], first |-> FirstSaved[v], active |-> FirstTable[v],
            tables |-> [i \in 0..1 |-> IF i = FirstTable[v] THEN FirstSaved[v]..FirstN[v] ELSE {}]]]
      /\ \/ origin = "server" /\ request \in Requests[source]
         \/ origin = "random" /\ request = None
      /\ who = 1 /\ pc = "prepare" /\ answer = [v \in Verifiers |-> None]
  BY DEF Init
<1>2. /\ FirstSaved \in [Verifiers -> Nat \ {0}] /\ FirstN \in [Verifiers -> Nat]
      /\ \A v \in Verifiers :
           FirstSaved[v] <= FirstN[v] + 1 /\ \A c \in Chains : FirstN[v] <= Len(c)
      /\ FirstTable \in [Verifiers -> 0..1]
  BY VerificationAssumption
<1>3. ASSUME NEW v \in Verifiers
      PROVE  /\ state[v].N = FirstN[v] /\ state[v].first = FirstSaved[v]
             /\ state[v].active = FirstTable[v]
             /\ state[v].tables = [i \in 0..1 |-> IF i = FirstTable[v]
                                                  THEN FirstSaved[v]..FirstN[v] ELSE {}]
             /\ state[v] \in [N : Nat, first : Nat \ {0}, active : 0..1,
                              tables : [0..1 -> SUBSET Nat]]
  <2> DEFINE tables == [i \in 0..1 |-> IF i = FirstTable[v] THEN FirstSaved[v]..FirstN[v] ELSE {}]
  <2>1. state[v] = [N |-> FirstN[v], first |-> FirstSaved[v], active |-> FirstTable[v],
                    tables |-> tables]
    BY <1>1
  <2>2. FirstN[v] \in Nat /\ FirstSaved[v] \in Nat \ {0} /\ FirstTable[v] \in 0..1
    BY <1>2
  <2>3. tables \in [0..1 -> SUBSET Nat]
    BY <2>2
  <2> HIDE DEF tables
  <2>4. /\ state[v].N = FirstN[v] /\ state[v].first = FirstSaved[v]
        /\ state[v].active = FirstTable[v] /\ state[v].tables = tables
    BY <2>1
  <2>5. state[v] \in [N : Nat, first : Nat \ {0}, active : 0..1, tables : [0..1 -> SUBSET Nat]]
    BY <2>1, <2>2, <2>3
  <2> QED BY <2>4, <2>5 DEF tables
<1>4. IndexersInv
  <2> DEFINE T == [N : Nat, first : Nat \ {0}, active : 0..1, tables : [0..1 -> SUBSET Nat]]
  <2>1. state \in [Verifiers -> T]
    <3>1. state = [v \in Verifiers |-> state[v]]
      BY <1>1
    <3>2. \A v \in Verifiers : state[v] \in T
      BY <1>3
    <3> HIDE DEF T
    <3> QED BY <3>1, <3>2
  <2>2. ASSUME NEW v \in Verifiers
        PROVE  /\ state[v].first <= state[v].N + 1 /\ state[v].N <= Len(chain)
               /\ \A i \in 0..1 : state[v].tables[i] \subseteq Saved(v)
    BY <1>1, <1>2, <1>3 DEF Saved
  <2> QED BY <1>1, <2>1, <2>2 DEF IndexersInv
<1>5. ReadInv
  BY <1>1 DEF ReadInv
<1>6. RequestInv
  <2>1. answer = [v \in Verifiers |-> answer[v]] /\ answer[1] = None
    BY <1>1 DEF Verifiers
  <2>2. who \in Verifiers
    BY <1>1 DEF Verifiers
  <2> QED BY <1>1, <2>1, <2>2 DEF RequestInv, Answered, Confirms
<1> QED BY <1>4, <1>5, <1>6 DEF Inv

\* The facts of an answer stay where nothing changes that they are about, and so
\* does what was made of them.
LEMMA CodedStays ==
  ASSUME NEW r, NEW a, Coded(r, a), chain' = chain, source' = source, state'[1] = state[1]
  PROVE  Coded(r, a)'
PROOF
<1>1. PICK asked : AnswerFacts(1, asked, a) /\ Same(asked, r)
  BY DEF Coded
<1>2. AnswerFacts(1, asked, a)'
  BY <1>1, FactsStay
<1> QED BY <1>1, <1>2 DEF Coded

\* Steps that leave the chain and the databases alone leave IndexersInv.
LEMMA IndexersStay ==
  ASSUME IndexersInv, chain' = chain, source' = source, state' = state
  PROVE  IndexersInv'
PROOF BY DEF IndexersInv, Saved

\* The moves of an indexer preserve the invariant.
LEMMA InvIndexer ==
  ASSUME Inv, NEW v \in Verifiers, who = v, pc \in {"prepare", "submitted", "read"},
         SaveBlock(v) \/ DropTable(v)
  PROVE  Inv'
PROOF
<1>1. IndexersInv /\ ReadInv /\ RequestInv /\ who \in Verifiers
  BY DEF Inv, RequestInv
<1>2. /\ ReadInv' /\ IndexersInv' /\ UNCHANGED work /\ chain' = chain /\ source' = source
      /\ \A w \in Verifiers : w # v => state'[w] = state[w]
  BY <1>1, ReadStays
<1>3. UNCHANGED <<origin, request, bytes, parsed, who, pc, todo, got, answer, verdict>>
  BY <1>2 DEF work
<1>4. ~Answered /\ ~Answered'
  BY <1>3 DEF Answered
<1>5. (Confirms /\ ~Resent => Coded(request, answer[1]))'
  <2> SUFFICES ASSUME Confirms', ~Resent' PROVE Coded(request, answer[1])'
    OBVIOUS
  <2>1. Confirms /\ ~Resent
    BY <1>2, <1>3 DEF Confirms, Resent
  <2>2. state'[1] = state[1]
    BY <1>2, <2>1 DEF Confirms, Verifiers
  <2>3. Coded(request, answer[1])
    BY <1>1, <2>1 DEF RequestInv
  <2>4. ASSUME NEW r, NEW a, r = request, a = answer[1] PROVE Coded(r, a)'
    BY <1>2, <2>2, <2>3, <2>4, CodedStays
  <2>5. request' = request /\ answer' = answer
    BY <1>3
  <2> QED BY <2>4, <2>5
<1>6. RequestInv'
  BY <1>1, <1>2, <1>3, <1>4, <1>5 DEF RequestInv
<1> QED BY <1>2, <1>6 DEF Inv

\* A verification that the first verifier starts, of the request or of a random one.
LEMMA InvStarts ==
  ASSUME Inv, pc = "prepare", NEW r, HasNumbers(r), NEW supported \in BOOLEAN,
         origin = "random" => r.sourceId = SourceIds[source],
         request' = r, encodeRequest(r) # Throws, bytes' = encodeRequest(r),
         UNCHANGED <<chain, source, state, origin, who, verdict>>,
         Verify(encodeRequest(r), supported)
  PROVE  Inv'
PROOF
<1> DEFINE b == encodeRequest(r)
           p == parseRequest(b)
<1>1. /\ IndexersInv /\ RequestInv /\ who = 1 /\ answer[1] = None
      /\ answer = [v \in Verifiers |-> answer[v]]
  BY DEF Inv, RequestInv
<1>2. r.attestationType \in Types /\ \A key \in ARType[r.attestationType] : r[key] \in Int
  BY NumbersAreNatural DEF HasNumbers
<1>3. b \in Seq(Octets)
  BY <1>2, EncodedIs, EncodedBytes
<1>4. (origin = "random" /\ who = 1 /\ p # Throws) => p.sourceId = SourceIds[source]
  <2>1. "sourceId" \in ARType[r.attestationType]
    BY <1>2 DEF ARType, ARPayment, ARBalanceDecreasingTransaction, ARConfirmedBlockHeightExists,
                ARReferencedPaymentNonexistence, ARBase, Types
  <2>2. p.sourceId = r.sourceId
    BY <2>1, ParsedSame
  <2> QED BY <2>2
<1>5. /\ parsed' = p
      /\ \/ pc' = "read" /\ ReadInv' /\ UNCHANGED answer /\ p # Throws
         \/ pc' = "answered" /\ answer' = [answer EXCEPT ![who] = Throws]
  <2> HIDE DEF b
  <2>1. Verify(b, supported)
    BY DEF b
  <2> QED BY <1>3, <1>4, <2>1, VerifyStarts
<1>6. IndexersInv'
  BY <1>1, IndexersStay
<1>7. ReadInv'
  BY <1>5 DEF ReadInv
<1>8. answer' = [v \in Verifiers |-> answer'[v]]
  BY <1>1, <1>5
<1>9. Answered' => AnswerFacts(who, parsed, answer[who])'
  <2>1. CASE pc' = "read"
    BY <2>1 DEF Answered
  <2>2. CASE answer' = [answer EXCEPT ![who] = Throws]
    <3>1. answer'[who'] = Throws
      BY <1>1, <2>2 DEF Verifiers
    <3>2. (answer[who] = Throws)'
      BY <3>1
    <3> QED BY <3>2 DEF AnswerFacts
  <2> QED BY <1>5, <2>1, <2>2
<1>10. who' = 1 /\ who' \in Verifiers /\ ~Confirms' /\ pc' \in {"read", "answered"}
  BY <1>1, <1>5 DEF Confirms, Verifiers
<1>11. /\ origin' \in {"server", "random"} /\ bytes' \in Seq(Octets)
       /\ parsed' = parseRequest(bytes') /\ HasNumbers(r)
  BY <1>1, <1>3, <1>5 DEF RequestInv
<1>12. /\ HasNumbers(request)' /\ (encodeRequest(request) # Throws)'
       /\ (bytes = encodeRequest(request))'
  BY <1>11 DEF HasNumbers
<1>13. RequestInv'
  BY <1>8, <1>9, <1>10, <1>11, <1>12 DEF RequestInv
<1> QED BY <1>6, <1>7, <1>13 DEF Inv

\* The verifier server prepares a request.
LEMMA InvPrepare ==
  ASSUME Inv, PrepareAttestation
  PROVE  Inv'
PROOF
<1>1. /\ pc = "prepare" /\ origin = "server" /\ Validated(request)
      /\ \E b \in {encodeRequest(request)} :
           b # Throws /\ bytes' = b /\ Verify(b, assertIsSupported(b))
      /\ UNCHANGED <<chain, source, state, origin, request, who, verdict>>
  BY DEF PrepareAttestation
<1>2. /\ encodeRequest(request) # Throws /\ bytes' = encodeRequest(request)
      /\ Verify(encodeRequest(request), assertIsSupported(encodeRequest(request)))
  BY <1>1
<1>3. request \in Requests[source] /\ source \in Sources
  BY <1>1 DEF Inv, RequestInv, IndexersInv
<1>4. HasNumbers(request)
  BY <1>1, <1>3, ValidatedIs
<1>5. assertIsSupported(encodeRequest(request)) \in BOOLEAN
  BY DEF assertIsSupported
<1>6. ASSUME NEW r, r = request, NEW supported,
             supported = assertIsSupported(encodeRequest(request))
      PROVE  Inv'
  <2>1. HasNumbers(r) /\ supported \in BOOLEAN /\ encodeRequest(r) # Throws
    BY <1>2, <1>4, <1>5, <1>6
  <2>2. Verify(encodeRequest(r), supported) /\ bytes' = encodeRequest(r) /\ request' = r
    BY <1>1, <1>2, <1>6
  <2> QED BY <1>1, <2>1, <2>2, InvStarts
<1> QED BY <1>6

\* A random request is prepared; one that gets a wrong code is not verified.
LEMMA InvRandom ==
  ASSUME Inv, getRandomAttestationRequest
  PROVE  Inv'
PROOF
<1>1. /\ pc = "prepare" /\ origin = "random"
      /\ \E r \in RandomRequests, wrong \in BOOLEAN : \E b \in {encodeRequest(r)} :
           /\ b # Throws
           /\ request' = r /\ bytes' = b
           /\ IF wrong THEN pc' = "answered" /\ UNCHANGED <<parsed, todo, got, answer>>
              ELSE Verify(b, TRUE)
      /\ UNCHANGED <<chain, source, state, origin, who, verdict>>
  BY DEF getRandomAttestationRequest
<1>2. PICK r \in RandomRequests : \E wrong \in BOOLEAN :
        /\ encodeRequest(r) # Throws
        /\ request' = r /\ bytes' = encodeRequest(r)
        /\ IF wrong THEN pc' = "answered" /\ UNCHANGED <<parsed, todo, got, answer>>
           ELSE Verify(encodeRequest(r), TRUE)
  BY <1>1
<1>3. /\ IndexersInv /\ RequestInv /\ who = 1 /\ answer[1] = None
      /\ answer = [v \in Verifiers |-> answer[v]]
  BY <1>1 DEF Inv, RequestInv
<1>4. HasNumbers(r) /\ r.sourceId = SourceIds[source]
  BY <1>2, <1>3, RandomRequestIs
<1>5. CASE Verify(encodeRequest(r), TRUE)
  BY <1>1, <1>2, <1>4, <1>5, InvStarts
<1>6. CASE pc' = "answered" /\ UNCHANGED <<parsed, todo, got, answer>>
  <2>1. IndexersInv' /\ ReadInv'
    BY <1>1, <1>3, <1>6, IndexersStay DEF ReadInv
  <2>2. ~Answered' /\ ~Confirms' /\ who' = 1 /\ who' \in Verifiers
    BY <1>1, <1>3, <1>6 DEF Answered, Confirms, Verifiers
  <2>3. /\ HasNumbers(request)' /\ (encodeRequest(request) # Throws)'
        /\ (bytes = encodeRequest(request))'
    BY <1>2, <1>4 DEF HasNumbers
  <2>4. (answer = [v \in Verifiers |-> answer[v]])' /\ origin' \in {"server", "random"}
    BY <1>1, <1>3, <1>6
  <2>5. RequestInv'
    BY <1>6, <2>2, <2>3, <2>4 DEF RequestInv
  <2> QED BY <2>1, <2>5 DEF Inv
<1> QED BY <1>2, <1>5, <1>6

\* A statement is executed.
LEMMA InvRead ==
  ASSUME Inv, Read
  PROVE  Inv'
PROOF
<1>1. IndexersInv /\ ReadInv /\ RequestInv /\ who \in Verifiers /\ pc = "read"
  BY DEF Inv, RequestInv, Read
<1>2. /\ ReadInv' /\ IndexersInv'
      /\ UNCHANGED <<chain, source, state, origin, request, bytes, parsed, who, pc, answer,
                     verdict>>
  BY <1>1, ReadStep
<1>3. ~Answered /\ ~Answered'
  BY <1>1, <1>2 DEF Answered
<1>4. (Confirms /\ ~Resent => Coded(request, answer[1]))'
  <2> SUFFICES ASSUME Confirms', ~Resent' PROVE Coded(request, answer[1])'
    OBVIOUS
  <2>1. Coded(request, answer[1])
    BY <1>1, <1>2 DEF RequestInv, Confirms, Resent
  <2>2. ASSUME NEW r, NEW a, r = request, a = answer[1] PROVE Coded(r, a)'
    BY <1>2, <2>1, <2>2, CodedStays
  <2> QED BY <1>2, <2>2
<1>5. RequestInv'
  BY <1>1, <1>2, <1>3, <1>4 DEF RequestInv
<1> QED BY <1>2, <1>5 DEF Inv

\* Everything has been read, and the verifier answers.
LEMMA InvAnswer ==
  ASSUME Inv, Answer
  PROVE  Inv'
PROOF
<1>1. /\ IndexersInv /\ ReadInv /\ RequestInv /\ who \in Verifiers
      /\ answer = [v \in Verifiers |-> answer[v]] /\ pc = "read" /\ pc' = "answered"
  BY DEF Inv, RequestInv, Answer
<1>2. UNCHANGED <<chain, source, state, origin, request, bytes, parsed, who, todo, verdict>>
  BY DEF Answer
<1>3. PICK x : answer' = [answer EXCEPT ![who] = x]
  BY DEF Answer
<1>4. answer' = [v \in Verifiers |-> answer'[v]] /\ (who # 1 => answer'[1] = answer[1])
  BY <1>1, <1>3 DEF Verifiers
<1>5. IndexersInv' /\ ReadInv'
  BY <1>1, <1>2, IndexersStay DEF ReadInv
<1>6. AnswerFacts(who, parsed, answer[who])'
  <2>1. ASSUME NEW v, NEW req, NEW a, v = who, req = parsed, a = answer'[who]
        PROVE  AnswerFacts(v, req, a)'
    <3>1. AnswerFacts(v, req, a)
      BY <1>1, <2>1, AnswerIs
    <3> QED BY <1>2, <3>1, FactsStay
  <2> QED BY <1>2, <2>1
<1>7. (Confirms /\ ~Resent => Coded(request, answer[1]))'
  <2> SUFFICES ASSUME Confirms', ~Resent' PROVE Coded(request, answer[1])'
    OBVIOUS
  <2>1. Coded(request, answer[1]) /\ answer'[1] = answer[1]
    BY <1>1, <1>2, <1>4 DEF RequestInv, Confirms, Resent
  <2>2. ASSUME NEW r, NEW a, r = request, a = answer[1] PROVE Coded(r, a)'
    BY <1>2, <2>1, <2>2, CodedStays
  <2> QED BY <1>2, <2>1, <2>2
<1>8. RequestInv'
  BY <1>1, <1>2, <1>4, <1>6, <1>7 DEF RequestInv
<1> QED BY <1>5, <1>8 DEF Inv

\* The request is submitted.
LEMMA InvSubmit ==
  ASSUME Inv, Submit
  PROVE  Inv'
PROOF
<1> DEFINE ok == answer[1] \notin {None, Throws} /\ answer[1].status = "OK"
           prepared == IF ok
                       THEN IF origin = "random" THEN RandomWithCode(request, answer[1])
                            ELSE WithCode(request, answer[1])
                       ELSE request
<1>1. /\ pc = "answered" /\ who = 1 /\ request' = prepared
      /\ bytes' \in Submissions(encodeRequest(prepared))
      /\ who' = 2 /\ pc' = "submitted"
      /\ UNCHANGED <<chain, source, state, origin, answer, verdict>>
  BY DEF Submit
<1>2. /\ IndexersInv /\ RequestInv /\ answer = [v \in Verifiers |-> answer[v]]
      /\ HasNumbers(request) /\ encodeRequest(request) # Throws /\ bytes = encodeRequest(request)
  BY <1>1 DEF Inv, RequestInv
<1>3. IndexersInv' /\ ReadInv'
  BY <1>1, <1>2, IndexersStay DEF ReadInv
<1>4. ASSUME ok
      PROVE  LET coded == WithCode(request, answer[1])
                 resent == [coded EXCEPT
                              !.sourceAddressIndicator = answer[1].response.sourceAddressHash]
             IN  /\ coded.attestationType = request.attestationType
                 /\ Coded(coded, answer[1])
                 /\ encodeRequest(coded) \in Seq(Octets) /\ Len(encodeRequest(coded)) >= 38
                 /\ request.attestationType = 2 =>
                      /\ encodeRequest(resent) \in Seq(Octets) /\ Len(encodeRequest(resent)) >= 38
                      /\ resent.attestationType = 2
  <2>1. AnswerFacts(1, parseRequest(encodeRequest(request)), answer[1])
    BY <1>1, <1>2, <1>4 DEF RequestInv, Answered
  <2> QED BY <1>2, <1>4, <2>1, WithCodeIs
<1>5. /\ encodeRequest(prepared) \in Seq(Octets) /\ Len(encodeRequest(prepared)) >= 38
      /\ prepared.attestationType = request.attestationType
      /\ ok /\ ~(origin = "random" /\ source = "XRP" /\ request.attestationType = 2) =>
           Coded(prepared, answer[1])
  <2>1. CASE ~ok
    <3>1. /\ request.attestationType \in Types
          /\ \A key \in ARType[request.attestationType] : request[key] \in Int
      BY <1>2, NumbersAreNatural DEF HasNumbers
    <3>2. encodeRequest(request) \in Seq(Octets) /\ Len(encodeRequest(request)) >= 38
      BY <1>2, <3>1, EncodedIs, EncodedBytes
    <3> HIDE DEF ok
    <3> QED BY <2>1, <3>2
  <2>2. CASE ok
    <3> DEFINE coded == WithCode(request, answer[1])
               resent == [coded EXCEPT
                            !.sourceAddressIndicator = answer[1].response.sourceAddressHash]
    <3>1. \/ prepared = coded
          \/ /\ origin = "random" /\ source = "XRP" /\ request.attestationType = 2
             /\ prepared = resent
      BY <2>2 DEF RandomWithCode, AttestationType
    <3>2. /\ coded.attestationType = request.attestationType
          /\ Coded(coded, answer[1])
          /\ encodeRequest(coded) \in Seq(Octets) /\ Len(encodeRequest(coded)) >= 38
          /\ request.attestationType = 2 =>
               /\ encodeRequest(resent) \in Seq(Octets) /\ Len(encodeRequest(resent)) >= 38
               /\ resent.attestationType = 2
      BY <1>4, <2>2
    <3> HIDE DEF coded, resent, prepared, ok
    <3> QED BY <3>1, <3>2
  <2> HIDE DEF ok, prepared
  <2> QED BY <2>1, <2>2
<1> HIDE DEF ok, prepared
<1>6. bytes' \in Seq(Octets)
  BY <1>1, <1>5, SubmissionsAre
<1>7. (Confirms /\ ~Resent => Coded(request, answer[1]))'
  <2> SUFFICES ASSUME Confirms', ~Resent' PROVE Coded(request, answer[1])'
    OBVIOUS
  <2>1. ok
    BY <1>1 DEF Confirms, ok
  <2>2. ~(origin = "random" /\ source = "XRP" /\ request.attestationType = 2)
    BY <1>1, <1>5 DEF Resent
  <2>3. Coded(prepared, answer[1])
    BY <1>5, <2>1, <2>2
  <2>4. ASSUME NEW r, NEW a, r = prepared, a = answer[1] PROVE Coded(r, a)'
    BY <1>1, <2>3, <2>4, CodedStays
  <2> QED BY <1>1, <2>4
<1>8. ~Answered' /\ who' \in Verifiers /\ origin' \in {"server", "random"}
  BY <1>1, <1>2 DEF Answered, Verifiers, RequestInv
<1>9. RequestInv'
  BY <1>1, <1>2, <1>6, <1>7, <1>8 DEF RequestInv
<1> QED BY <1>3, <1>9 DEF Inv

\* The second verifier starts.
LEMMA InvVerify ==
  ASSUME Inv, VerifyAttestation
  PROVE  Inv'
PROOF
<1>1. /\ pc = "submitted" /\ Verify(bytes, assertIsSupported(bytes))
      /\ UNCHANGED <<chain, source, state, origin, request, bytes, who, verdict>>
  BY DEF VerifyAttestation
<1>2. /\ IndexersInv /\ RequestInv /\ who = 2 /\ bytes \in Seq(Octets)
      /\ answer = [v \in Verifiers |-> answer[v]]
  BY <1>1 DEF Inv, RequestInv
<1>3. /\ parsed' = parseRequest(bytes)
      /\ \/ pc' = "read" /\ ReadInv' /\ UNCHANGED answer
         \/ pc' = "answered" /\ answer' = [answer EXCEPT ![who] = Throws]
  <2>1. ASSUME NEW b, b = bytes, NEW supported, supported = assertIsSupported(bytes)
        PROVE  /\ parsed' = parseRequest(b)
               /\ \/ pc' = "read" /\ ReadInv' /\ UNCHANGED answer
                  \/ pc' = "answered" /\ answer' = [answer EXCEPT ![who] = Throws]
    <3>1. supported \in BOOLEAN
      BY <2>1 DEF assertIsSupported
    <3>2. b \in Seq(Octets) /\ Verify(b, supported)
      BY <1>1, <1>2, <2>1
    <3>3. (origin = "random" /\ who = 1 /\ parseRequest(b) # Throws) =>
            parseRequest(b).sourceId = SourceIds[source]
      BY <1>2
    <3> QED BY <1>1, <3>1, <3>2, <3>3, VerifyStarts
  <2> QED BY <2>1
<1>4. IndexersInv' /\ ReadInv'
  BY <1>1, <1>2, <1>3, IndexersStay DEF ReadInv
<1>5. answer' = [v \in Verifiers |-> answer'[v]] /\ answer'[1] = answer[1]
  BY <1>2, <1>3 DEF Verifiers
<1>6. Answered' => AnswerFacts(who, parsed, answer[who])'
  <2>1. CASE pc' = "read"
    BY <2>1 DEF Answered
  <2>2. CASE answer' = [answer EXCEPT ![who] = Throws]
    <3>1. (answer[who] = Throws)'
      BY <1>1, <1>2, <2>2 DEF Verifiers
    <3> QED BY <3>1 DEF AnswerFacts
  <2> QED BY <1>3, <2>1, <2>2
<1>7. (Confirms /\ ~Resent => Coded(request, answer[1]))'
  <2> SUFFICES ASSUME Confirms', ~Resent' PROVE Coded(request, answer[1])'
    OBVIOUS
  <2>1. Coded(request, answer[1])
    BY <1>1, <1>2, <1>5 DEF RequestInv, Confirms, Resent
  <2>2. ASSUME NEW r, NEW a, r = request, a = answer[1] PROVE Coded(r, a)'
    BY <1>1, <2>1, <2>2, CodedStays
  <2> QED BY <1>1, <1>5, <2>2
<1>8. pc' \in {"read", "answered"} /\ who' = 2 /\ who' \in Verifiers
      /\ origin' \in {"server", "random"} /\ bytes' = bytes
  BY <1>1, <1>2, <1>3 DEF RequestInv, Verifiers
<1>9. RequestInv'
  BY <1>2, <1>3, <1>5, <1>6, <1>7, <1>8 DEF RequestInv
<1> QED BY <1>4, <1>9 DEF Inv

\* The attestation client judges.
LEMMA InvJudge ==
  ASSUME Inv, Judge
  PROVE  Inv'
PROOF
<1>1. /\ pc = "answered" /\ who = 2 /\ pc' = "judged"
      /\ verdict' = Verdict(bytes, Data(handleApiResponse(answer[2])))
      /\ UNCHANGED <<chain, source, state, origin, request, bytes, parsed, who, todo, got, answer>>
  BY DEF Judge
<1>2. IndexersInv /\ RequestInv
  BY DEF Inv
<1>3. IndexersInv' /\ ReadInv'
  BY <1>1, <1>2, IndexersStay DEF ReadInv
<1>4. verdict' = Verdict(bytes, answer[2])
  BY <1>1, Seen
<1>5. verdict' = Verdict(bytes', answer'[2])
  BY <1>1, <1>4
<1>6. Answered
  BY <1>1 DEF Answered
<1>7. AnswerFacts(who, parsed, answer[who])'
  <2>1. AnswerFacts(who, parsed, answer[who])
    BY <1>2, <1>6 DEF RequestInv
  <2>2. ASSUME NEW v, NEW req, NEW a, v = who, req = parsed, a = answer[who]
        PROVE  AnswerFacts(v, req, a)'
    BY <1>1, <2>1, <2>2, FactsStay
  <2> QED BY <1>1, <2>2
<1>8. (Confirms /\ ~Resent => Coded(request, answer[1]))'
  <2> SUFFICES ASSUME Confirms', ~Resent' PROVE Coded(request, answer[1])'
    OBVIOUS
  <2>1. Coded(request, answer[1])
    BY <1>1, <1>2 DEF RequestInv, Confirms, Resent
  <2>2. ASSUME NEW r, NEW a, r = request, a = answer[1] PROVE Coded(r, a)'
    BY <1>1, <2>1, <2>2, CodedStays
  <2> QED BY <1>1, <2>2
<1>9. RequestInv'
  BY <1>1, <1>2, <1>5, <1>6, <1>7, <1>8 DEF RequestInv
<1> QED BY <1>3, <1>9 DEF Inv

\* Steps in which nothing changes preserve the invariant.
LEMMA InvStutter ==
  ASSUME Inv, UNCHANGED vars
  PROVE  Inv'
PROOF
<1>1. IndexersInv /\ ReadInv /\ RequestInv
  BY DEF Inv
<1>2. UNCHANGED <<chain, source, state, origin, request, bytes, parsed, who, pc, todo, got,
                  answer, verdict>>
  BY DEF vars, work
<1>3. IndexersInv'
  BY <1>1, <1>2, IndexersStay
<1>4. Answered' = Answered /\ Confirms' = Confirms /\ Resent' = Resent
  BY <1>2 DEF Answered, Confirms, Resent
<1>5. GoodRead => GoodRead'
  <2>1. Moved
    BY <1>1, <1>2, IndexerIs DEF Moved
  <2> QED BY <1>1, <1>2, <1>3, <2>1, GoodStays DEF RequestInv
<1>6. ReadInv'
  BY <1>1, <1>2, <1>5 DEF ReadInv, Request, DeadRead
<1>7. Answered => AnswerFacts(who, parsed, answer[who])'
  <2> SUFFICES ASSUME Answered PROVE AnswerFacts(who, parsed, answer[who])'
    OBVIOUS
  <2>1. AnswerFacts(who, parsed, answer[who])
    BY <1>1 DEF RequestInv
  <2>2. ASSUME NEW v, NEW req, NEW a, v = who, req = parsed, a = answer[who]
        PROVE  AnswerFacts(v, req, a)'
    BY <1>2, <2>1, <2>2, FactsStay
  <2> QED BY <1>2, <2>2
<1>8. Confirms /\ ~Resent => Coded(request, answer[1])'
  <2> SUFFICES ASSUME Confirms, ~Resent PROVE Coded(request, answer[1])'
    OBVIOUS
  <2>1. Coded(request, answer[1])
    BY <1>1 DEF RequestInv
  <2>2. ASSUME NEW r, NEW a, r = request, a = answer[1] PROVE Coded(r, a)'
    BY <1>2, <2>1, <2>2, CodedStays
  <2> QED BY <1>2, <2>2
<1>9. RequestInv'
  BY <1>1, <1>2, <1>4, <1>7, <1>8 DEF RequestInv
<1> QED BY <1>3, <1>6, <1>9 DEF Inv

\* The invariant holds in every state.
THEOREM Invariant == Spec => []Inv
PROOF
<1>1. Init => Inv
  BY InitInv
<1>2. Inv /\ [Next]_vars => Inv'
  <2> SUFFICES ASSUME Inv, [Next]_vars PROVE Inv'
    OBVIOUS
  <2>1. ASSUME NEW v \in Verifiers, who = v, pc \in {"prepare", "submitted", "read"},
               SaveBlock(v) \/ DropTable(v)
        PROVE  Inv'
    BY <2>1, InvIndexer
  <2>2. CASE PrepareAttestation
    BY <2>2, InvPrepare
  <2>3. CASE getRandomAttestationRequest
    BY <2>3, InvRandom
  <2>4. CASE Read
    BY <2>4, InvRead
  <2>5. CASE Answer
    BY <2>5, InvAnswer
  <2>6. CASE Submit
    BY <2>6, InvSubmit
  <2>7. CASE VerifyAttestation
    BY <2>7, InvVerify
  <2>8. CASE Judge
    BY <2>8, InvJudge
  <2>9. CASE UNCHANGED vars
    BY <2>9, InvStutter
  <2> QED BY <2>1, <2>2, <2>3, <2>4, <2>5, <2>6, <2>7, <2>8, <2>9 DEF Next
<1> QED BY <1>1, <1>2, PTL DEF Spec

-----------------------------------------------------------------------------
(* The properties.                                                           *)

\* Every definite answer is true of the chain.
LEMMA InvAnswerIsTrue == ASSUME Inv PROVE AnswerIsTrue
PROOF
<1>1. IndexersInv /\ RequestInv
  BY DEF Inv
<1>2. ASSUME NEW v \in Verifiers, Definite(v) PROVE IsTrue(v, parsed, answer[v])
  <2>1. Answered /\ who = v /\ answer[v] # Throws
    BY <1>2 DEF Definite, Answered
  <2>2. AnswerFacts(v, parsed, answer[v])
    BY <1>1, <2>1 DEF RequestInv
  <2> QED BY <1>1, <2>1, <2>2, FactsAreTrue
<1> QED BY <1>2 DEF AnswerIsTrue, IsTrue

\* A verifier that gives a definite answer says what is so on the chain, for any
\* chain, requests and histories of the indexers, and its response is of the
\* class generated for the type.
THEOREM AnswersAreTrue == Spec => []AnswerIsTrue
PROOF BY Invariant, InvAnswerIsTrue, PTL

\* Requests survive their bytes before they are prepared.
LEMMA InvRoundTrip == ASSUME Inv PROVE RoundTrip
PROOF
<1> SUFFICES ASSUME pc = "prepare", origin = "server", Validated(request),
                    encodeRequest(request) # Throws
             PROVE  LET b == encodeRequest(request)
                    IN  /\ equalsRequest(parseRequest(b), request)
                        /\ DOMAIN parseRequest(b) = ARType[request.attestationType]
                        /\ parseRequest(Front(b)) = Throws /\ parseRequest(Append(b, 0)) = Throws
  BY DEF RoundTrip
<1>1. request \in Requests[source] /\ source \in Sources
  BY DEF Inv, RequestInv, IndexersInv
<1>2. HasNumbers(request)
  BY <1>1, ValidatedIs
<1> QED BY <1>2, Returns

\* What a request says survives its bytes, for every request the pipe lets
\* through, and bytes with one more or one less are no request.
THEOREM RequestsReturn == Spec => []RoundTrip
PROOF BY Invariant, InvRoundTrip, PTL

\* What is judged of a request that was confirmed is not "invalid".
LEMMA InvPreparedIsConfirmed == ASSUME Inv PROVE PreparedIsConfirmed
PROOF
<1>1. IndexersInv /\ RequestInv
  BY DEF Inv
<1> SUFFICES ASSUME pc = "judged", bytes = encodeRequest(request), ~Resent,
                    answer[1] \notin {None, Throws}, answer[1].status = "OK",
                    request.attestationType = 4 => Held(1, Needed(request)),
                    Held(2, Needed(request))
             PROVE  verdict # "invalid"
  BY DEF PreparedIsConfirmed, Resent
<1>2. who = 2 /\ verdict = Verdict(bytes, answer[2])
  BY <1>1 DEF RequestInv
<1>3. Answered /\ Confirms
  BY <1>2 DEF Answered, Confirms
<1>4. /\ bytes \in Seq(Octets) /\ parsed = parseRequest(bytes)
      /\ AnswerFacts(2, parsed, answer[2])
  BY <1>1, <1>2, <1>3 DEF RequestInv
<1>5. Coded(request, answer[1])
  BY <1>1, <1>3 DEF RequestInv
<1>6. encodeRequest(request) # Throws
  <2>1. bytes \in Seq(Nat)
    <3>1. /\ Len(bytes) \in Nat /\ bytes = [i \in 1..Len(bytes) |-> bytes[i]]
          /\ \A i \in 1..Len(bytes) : bytes[i] \in Octets
      BY <1>4
    <3>2. \A i \in 1..Len(bytes) : bytes[i] \in Nat
      BY <3>1, OctetsAreNumbers
    <3> QED BY <3>1, <3>2
  <2>2. Throws \notin Seq(Nat)
    BY VerificationAssumption
  <2> QED BY <2>1, <2>2
<1>7. Verdict(encodeRequest(request), answer[2]) # "invalid"
  BY <1>1, <1>4, <1>5, <1>6, NotInvalid
<1> QED BY <1>2, <1>7

\* A request that one verifier prepared is never rejected through another one,
\* whatever the two indexers saved and dropped in the meantime.
THEOREM PreparedAreConfirmed == Spec => []PreparedIsConfirmed
PROOF BY Invariant, InvPreparedIsConfirmed, PTL

\* A transaction that is in a table is found by its id, as no other one has it.
LEMMA TransactionFound ==
  ASSUME IndexersInv, NEW v \in Verifiers,
         NEW row \in Database(v).tables[0] \cup Database(v).tables[1]
  PROVE  /\ row.blockNumber \in Saved(v) /\ row # None
         /\ getTransaction(Database(v), row.transactionId) = row
PROOF
<1> DEFINE all == Database(v).tables[0] \cup Database(v).tables[1]
           rows == {tx \in all : tx.transactionId = row.transactionId}
<1>1. ASSUME NEW other \in all
      PROVE  \E n \in Saved(v) : \E tx \in chain[n].transactions : other = TxRow(n, tx)
  <2>1. PICK i \in 0..1 : other \in Database(v).tables[i]
    OBVIOUS
  <2>2. PICK n \in state[v].tables[i] : \E tx \in chain[n].transactions : other = TxRow(n, tx)
    BY <2>1, TableRows
  <2>3. n \in Saved(v)
    BY <2>2, IndexerIs
  <2> QED BY <2>2, <2>3
<1>2. PICK n \in Saved(v) : \E tx \in chain[n].transactions : row = TxRow(n, tx)
  BY <1>1
<1>3. PICK tx \in chain[n].transactions : row = TxRow(n, tx)
  BY <1>2
<1>4. n \in Blocks /\ n \in Nat
  BY IndexerIs
<1>5. row.transactionId = tx.id /\ row.blockNumber = n
  BY <1>3, TxRowIs
<1>6. row # None
  <2>1. tx \in Transactions /\ chain[n].timestamp \in Nat
    BY <1>4, ChainIs
  <2>2. tx.id \in Nat /\ tx.paymentReference \in Nat
    BY <2>1, NumbersAreNatural DEF Transactions
  <2>3. row \in [transactionId : Nat, blockNumber : Nat, timestamp : Nat,
                 paymentReference : Nat, response : Transactions]
    BY <1>3, <1>4, <2>1, <2>2 DEF TxRow
  <2> QED BY <2>3, VerificationAssumption
<1>7. rows = {row}
  <2>1. ASSUME NEW other \in rows PROVE other = row
    <3>1. other \in all /\ other.transactionId = tx.id
      BY <1>5
    <3>2. PICK m \in Saved(v) : \E tz \in chain[m].transactions : other = TxRow(m, tz)
      BY <1>1, <3>1
    <3>3. PICK tz \in chain[m].transactions : other = TxRow(m, tz)
      BY <3>2
    <3>4. tz.id = tx.id /\ m \in Blocks
      BY <3>1, <3>3, TxRowIs, IndexerIs
    <3>5. m = n /\ tz = tx
      BY <1>4, <3>4, ChainIs
    <3> QED BY <1>3, <3>3, <3>5
  <2>2. row \in rows
    OBVIOUS
  <2> HIDE DEF rows
  <2> QED BY <2>1, <2>2
<1>8. getTransaction(Database(v), row.transactionId) = Lowest(rows)
  BY DEF getTransaction
<1> HIDE DEF rows
<1>9. \A b \in rows : b.blockNumber \in Nat
  BY <1>4, <1>5, <1>7
<1>10. Lowest(rows) \in rows
  BY <1>7, <1>9, LowestIs
<1> QED BY <1>5, <1>6, <1>7, <1>8, <1>10

\* A confirmed block is found by its number.
LEMMA BlockFound ==
  ASSUME IndexersInv, NEW v \in Verifiers, NEW n \in Saved(v)
  PROVE  confirmedBlockAt(Database(v), n) = Row(n, TRUE)
PROOF
<1>1. n \in Nat /\ n # 0
  BY IndexerIs, ChainIs
<1>2. queryBlock(Database(v), n) = Row(n, TRUE)
  BY <1>1, QueryBlock
<1> QED BY <1>1, <1>2 DEF queryBlock, confirmedBlockAt

\* The number of a row, or 0.
NumberOrZero(b) == IF b = None THEN 0 ELSE b.blockNumber

\* The range of the tables includes the blocks of all their rows.
LEMMA InRange ==
  ASSUME IndexersInv, NEW v \in Verifiers,
         NEW row \in Database(v).tables[0] \cup Database(v).tables[1]
  PROVE  row.blockNumber \in getBlockRange(Database(v)).first..getBlockRange(Database(v)).last
PROOF
<1> DEFINE t(i) == Database(v).tables[i]
           least == {NumberOrZero(Lowest(t(i))) : i \in 0..1}
           greatest == {NumberOrZero(Highest(t(i))) : i \in 0..1}
<1>1. /\ getBlockRange(Database(v)).first = Min(least)
      /\ getBlockRange(Database(v)).last = Max(greatest)
  BY DEF getBlockRange, NumberOrZero
<1>2. ASSUME NEW i \in 0..1, NEW b \in t(i)
      PROVE  b # None /\ b.blockNumber \in Nat /\ b.blockNumber <= Len(chain)
  <2>1. b \in Database(v).tables[0] \cup Database(v).tables[1]
    OBVIOUS
  <2>2. b # None /\ b.blockNumber \in Saved(v)
    BY <2>1, TransactionFound
  <2>3. b.blockNumber \in Blocks
    BY <2>2, IndexerIs
  <2> QED BY <2>2, <2>3, ChainIs
<1>3. Len(chain) \in Nat
  BY ChainIs
<1> HIDE DEF t
<1>4. ASSUME NEW i \in 0..1
      PROVE  /\ NumberOrZero(Lowest(t(i))) \in Nat /\ NumberOrZero(Highest(t(i))) \in Nat
             /\ NumberOrZero(Highest(t(i))) <= Len(chain)
             /\ \A b \in t(i) : /\ NumberOrZero(Lowest(t(i))) <= b.blockNumber
                                /\ b.blockNumber <= NumberOrZero(Highest(t(i)))
  <2>1. CASE t(i) = {}
    <3>1. Lowest(t(i)) = None /\ Highest(t(i)) = None
      BY <2>1 DEF Lowest, Highest
    <3> QED BY <1>3, <2>1, <3>1 DEF NumberOrZero
  <2>2. CASE t(i) # {}
    <3>1. \A b \in t(i) : b.blockNumber \in Nat
      BY <1>2
    <3>2. \A b \in t(i) : b.blockNumber <= Len(chain)
      BY <1>2
    <3>3. Lowest(t(i)) \in t(i) /\ \A b \in t(i) : Lowest(t(i)).blockNumber <= b.blockNumber
      BY <2>2, <3>1, LowestIs
    <3>4. Highest(t(i)) \in t(i) /\ \A b \in t(i) : Highest(t(i)).blockNumber >= b.blockNumber
      BY <1>3, <2>2, <3>1, <3>2, HighestIs
    <3>5. Lowest(t(i)) # None /\ Highest(t(i)) # None
      BY <1>2, <3>3, <3>4
    <3>6. /\ NumberOrZero(Lowest(t(i))) = Lowest(t(i)).blockNumber
          /\ NumberOrZero(Highest(t(i))) = Highest(t(i)).blockNumber
      BY <3>5 DEF NumberOrZero
    <3> QED BY <3>1, <3>2, <3>3, <3>4, <3>6
  <2> QED BY <2>1, <2>2
<1>5. least \in SUBSET Nat /\ greatest \in SUBSET Nat /\ \A x \in greatest : x <= Len(chain)
  BY <1>4
<1>6. PICK i \in 0..1 : row \in t(i)
  BY DEF t
<1>7. /\ NumberOrZero(Lowest(t(i))) \in least /\ NumberOrZero(Highest(t(i))) \in greatest
      /\ row.blockNumber \in Nat
      /\ NumberOrZero(Lowest(t(i))) <= row.blockNumber
      /\ row.blockNumber <= NumberOrZero(Highest(t(i)))
  BY <1>2, <1>4, <1>6
<1> HIDE DEF least, greatest
<1>8. Min(least) \in least /\ \A x \in least : Min(least) <= x
  BY <1>5, <1>7, Least DEF Min
<1>9. Max(greatest) \in greatest /\ \A x \in greatest : Max(greatest) >= x
  <2>1. \E x \in greatest : \A y \in greatest : y <= x
    BY <1>3, <1>5, <1>7, Greatest
  <2>2. \E x \in greatest : \A y \in greatest : x >= y
    BY <1>5, <2>1
  <2> QED BY <2>2 DEF Max
<1>10. /\ Min(least) \in Nat /\ Max(greatest) \in Nat
       /\ Min(least) <= row.blockNumber /\ row.blockNumber <= Max(greatest)
  <2>1. Min(least) <= NumberOrZero(Lowest(t(i))) /\ Max(greatest) >= NumberOrZero(Highest(t(i)))
    BY <1>7, <1>8, <1>9
  <2>2. Min(least) \in Nat /\ Max(greatest) \in Nat
    BY <1>5, <1>8, <1>9
  <2> QED BY <1>4, <1>7, <2>1, <2>2
<1> QED BY <1>1, <1>7, <1>10

\* The heights are those of the highest blocks, confirmed or not.
LEMMA BelowHeights ==
  ASSUME IndexersInv, NEW v \in Verifiers, NEW n \in Saved(v)
  PROVE  /\ n <= getLastConfirmedBlockNumber(Database(v))
         /\ n <= getBlockHeight(Database(v))
PROOF
<1> DEFINE confirmed == Confirmed(Database(v))
           blocks == Database(v).blocks
<1>1. n \in Nat /\ Row(n, TRUE) \in confirmed /\ Row(n, TRUE).blockNumber = n
  BY IndexerIs, ConfirmedIs
<1>2. confirmed \subseteq blocks
  BY DEF Confirmed
<1>3. \A b \in blocks : b.blockNumber \in Nat /\ b.blockNumber <= 2147483647
  <2>1. blocks = {Row(m, m <= state[v].N) : m \in state[v].first..Len(chain)} \cup Orphans
    BY DEF Database
  <2>2. ASSUME NEW m \in state[v].first..Len(chain)
        PROVE  /\ Row(m, m <= state[v].N).blockNumber \in Nat
               /\ Row(m, m <= state[v].N).blockNumber <= 2147483647
    <3>1. Row(m, m <= state[v].N).blockNumber = m
      BY DEF Row
    <3>2. Len(chain) \in Nat /\ Len(chain) <= 2147483647 /\ state[v].first \in Nat
      BY ChainIs, IndexerIs, SMT DEF Numbers
    <3>3. m \in Nat /\ m <= 2147483647
      BY <3>2, SMT
    <3> QED BY <3>1, <3>3
  <2>3. ASSUME NEW b \in Orphans PROVE b.blockNumber \in Nat /\ b.blockNumber <= 2147483647
    <3>1. b \in [blockNumber : Numbers, timestamp : Nat, confirmed : {FALSE}]
      BY VerificationAssumption
    <3>2. b.blockNumber \in Numbers
      BY <3>1
    <3> QED BY <3>2, SMT DEF Numbers
  <2> HIDE DEF blocks
  <2> QED BY <2>1, <2>2, <2>3
<1> DEFINE bound == 2147483647
<1>4. bound \in Nat
  BY SMT
<1>5. \A b \in blocks : b.blockNumber \in Nat /\ b.blockNumber <= bound
  BY <1>3
<1> HIDE DEF bound, confirmed, blocks
<1>6. Highest(blocks).blockNumber >= n
  <2>1. \A c \in blocks : Highest(blocks).blockNumber >= c.blockNumber
    BY <1>1, <1>2, <1>4, <1>5, HighestIs
  <2> QED BY <1>1, <1>2, <2>1
<1>7. Highest(confirmed).blockNumber >= n
  <2>1. \A b \in confirmed : b.blockNumber \in Nat /\ b.blockNumber <= bound
    BY <1>2, <1>5
  <2>2. \A c \in confirmed : Highest(confirmed).blockNumber >= c.blockNumber
    BY <1>1, <1>4, <2>1, HighestIs
  <2> QED BY <1>1, <2>2
<1>8. Highest(blocks).blockNumber \in Nat /\ Highest(confirmed).blockNumber \in Nat
  <2>1. Highest(blocks) \in blocks
    BY <1>1, <1>2, <1>4, <1>5, HighestIs
  <2>2. \A b \in confirmed : b.blockNumber \in Nat /\ b.blockNumber <= bound
    BY <1>2, <1>5
  <2>3. Highest(confirmed) \in confirmed
    BY <1>1, <1>4, <2>2, HighestIs
  <2> QED BY <1>2, <1>5, <2>1, <2>3
<1>9. confirmed # {} /\ blocks # {}
  BY <1>1, <1>2
<1>10. /\ n <= Highest(blocks).blockNumber /\ n <= Highest(confirmed).blockNumber
  BY <1>1, <1>6, <1>7, <1>8
<1> QED BY <1>9, <1>10 DEF getLastConfirmedBlockNumber, getBlockHeight, confirmed, blocks

\* The first confirmed block from a time that a saved block has.
LEMMA QueryFrom ==
  ASSUME IndexersInv, NEW v \in Verifiers, NEW k \in Saved(v)
  PROVE  \E from \in Saved(v) :
           /\ getFirstConfirmedBlockAfterTime(Database(v), chain[k].timestamp) = Row(from, TRUE)
           /\ chain[from].timestamp >= chain[k].timestamp
           /\ \A m \in Saved(v) : chain[m].timestamp >= chain[k].timestamp => from <= m
PROOF
<1> DEFINE time == chain[k].timestamp
           rows == {b \in Confirmed(Database(v)) : b.timestamp >= time}
<1>1. getFirstConfirmedBlockAfterTime(Database(v), time) = Lowest(rows)
  BY DEF getFirstConfirmedBlockAfterTime
<1>2. /\ \A b \in rows : \E n \in Saved(v) :
           /\ b = Row(n, TRUE) /\ b.blockNumber = n
           /\ chain[n].timestamp >= time
      /\ \A n \in Saved(v) : chain[n].timestamp >= time => Row(n, TRUE) \in rows
  <2>1. ASSUME NEW b \in rows
        PROVE  \E n \in Saved(v) :
                 /\ b = Row(n, TRUE) /\ b.blockNumber = n
                 /\ chain[n].timestamp >= time
    BY ConfirmedIs
  <2>2. ASSUME NEW n \in Saved(v), chain[n].timestamp >= time PROVE Row(n, TRUE) \in rows
    BY <2>2, ConfirmedIs
  <2> HIDE DEF rows
  <2> QED BY <2>1, <2>2
<1>3. Saved(v) \subseteq Nat /\ time \in Nat
  BY IndexerIs, ChainIs
<1>4. \A b \in rows : b.blockNumber \in Nat
  BY <1>2, <1>3, RowIs
<1>5. Row(k, TRUE) \in rows
  <2>1. chain[k].timestamp >= time
    BY <1>3
  <2> QED BY <1>2, <2>1
<1> HIDE DEF rows
<1>6. Lowest(rows) \in rows /\ \A c \in rows : Lowest(rows).blockNumber <= c.blockNumber
  BY <1>4, <1>5, LowestIs
<1>7. PICK from \in Saved(v) : Lowest(rows) = Row(from, TRUE) /\ chain[from].timestamp >= time
  BY <1>2, <1>6
<1>8. ASSUME NEW m \in Saved(v), chain[m].timestamp >= time PROVE from <= m
  <2>1. Row(m, TRUE) \in rows
    BY <1>2, <1>8
  <2> QED BY <1>6, <1>7, <2>1, RowIs
<1> QED BY <1>1, <1>7, <1>8

\* The last confirmed block before the time of one is next to the first from it.
LEMMA NextToEachOther ==
  ASSUME IndexersInv, NEW v \in Verifiers, NEW k \in Saved(v)
  PROVE  LET before == getLastConfirmedBlockStrictlyBeforeTime(Database(v), chain[k].timestamp)
             from == getFirstConfirmedBlockAfterTime(Database(v), chain[k].timestamp)
         IN  /\ hasIndexerConfirmedBlockStrictlyBeforeTime(Database(v), chain[k].timestamp)
                  <=> before # None
             /\ before # None => from.blockNumber = before.blockNumber + 1
PROOF
<1> DEFINE time == chain[k].timestamp
           before == getLastConfirmedBlockStrictlyBeforeTime(Database(v), time)
           from == getFirstConfirmedBlockAfterTime(Database(v), time)
           has == hasIndexerConfirmedBlockStrictlyBeforeTime(Database(v), time)
<1>1. has <=> \E m \in Saved(v) : chain[m].timestamp < time
  <2>1. ASSUME NEW b \in Confirmed(Database(v)), b.timestamp < time
        PROVE  \E m \in Saved(v) : chain[m].timestamp < time
    <3>1. PICK m \in Saved(v) : b.timestamp = chain[m].timestamp
      BY ConfirmedIs
    <3> QED BY <2>1, <3>1
  <2>2. ASSUME NEW m \in Saved(v), chain[m].timestamp < time
        PROVE  \E b \in Confirmed(Database(v)) : b.timestamp < time
    <3>1. Row(m, TRUE) \in Confirmed(Database(v)) /\ Row(m, TRUE).timestamp < time
      BY <2>2, ConfirmedIs
    <3> QED BY <3>1
  <2> QED BY <2>1, <2>2 DEF hasIndexerConfirmedBlockStrictlyBeforeTime
<1>2. ASSUME before = None, \A m \in Saved(v) : ~(chain[m].timestamp < time)
      PROVE  (has <=> before # None) /\ (before # None => from.blockNumber = before.blockNumber + 1)
  BY <1>1, <1>2
<1>3. ASSUME NEW low \in Saved(v), before = Row(low, TRUE), chain[low].timestamp < time,
             \A m \in Saved(v) : m > low => ~(chain[m].timestamp < time)
      PROVE  (has <=> before # None) /\ from.blockNumber = before.blockNumber + 1
  <2>1. PICK f \in Saved(v) : /\ from = Row(f, TRUE) /\ chain[f].timestamp >= time
                              /\ \A m \in Saved(v) : chain[m].timestamp >= time => f <= m
    BY QueryFrom
  <2>2. /\ low \in Blocks /\ f \in Blocks /\ k \in Blocks
        /\ low \in Nat /\ f \in Nat /\ k \in Nat
        /\ chain[low].timestamp \in Nat /\ chain[f].timestamp \in Nat /\ time \in Nat
    BY IndexerIs, ChainIs
  <2>3. low < f
    <3>1. f <= low => chain[f].timestamp <= chain[low].timestamp
      BY <2>2, ChainIs
    <3> QED BY <1>3, <2>1, <2>2, <3>1
  <2>4. low + 1 \in Saved(v)
    <3>1. f <= state[v].N /\ state[v].first <= low /\ state[v].N \in Nat /\ state[v].first \in Nat
      BY IndexerIs DEF Saved
    <3>2. state[v].first <= low + 1 /\ low + 1 <= state[v].N /\ low + 1 \in Nat
      BY <2>2, <2>3, <3>1
    <3> QED BY <3>1, <3>2 DEF Saved
  <2>5. chain[low + 1].timestamp \in Nat
    BY <2>4, IndexerIs, ChainIs
  <2>6. chain[low + 1].timestamp >= time
    BY <1>3, <2>2, <2>4, <2>5
  <2>7. f <= low + 1
    BY <2>1, <2>4, <2>6
  <2>8. f = low + 1
    BY <2>2, <2>3, <2>7
  <2>9. before # None
    BY <1>3, <2>2, RowIsNotNone
  <2>10. has <=> before # None
    <3>1. has
      BY <1>1, <1>3
    <3> QED BY <2>9, <3>1
  <2>11. from.blockNumber = f /\ before.blockNumber = low
    BY <1>3, <2>1, RowIs
  <2>12. from.blockNumber = before.blockNumber + 1
    BY <2>8, <2>11
  <2> HIDE DEF has, before, from
  <2> QED BY <2>10, <2>12
<1> HIDE DEF time, before, from, has
<1>4. \/ before = None /\ \A m \in Saved(v) : ~(chain[m].timestamp < time)
      \/ \E low \in Saved(v) : /\ before = Row(low, TRUE) /\ chain[low].timestamp < time
                               /\ \A m \in Saved(v) : m > low => ~(chain[m].timestamp < time)
  BY QueryBefore DEF before
<1>5. (has <=> before # None) /\ (before # None => from.blockNumber = before.blockNumber + 1)
  BY <1>2, <1>3, <1>4
<1> QED BY <1>5 DEF time, before, from, has

\* The engine agrees with itself in every state.
LEMMA InvEngineAgrees == ASSUME Inv PROVE EngineAgrees
PROOF
<1>1. IndexersInv
  BY DEF Inv
<1>2. ASSUME NEW v \in Verifiers,
             NEW row \in Database(v).tables[0] \cup Database(v).tables[1]
      PROVE  LET db == Database(v)
                 block == getTransactionBlock(db, row.transactionId)
             IN  /\ block # None /\ block.blockNumber = row.blockNumber
                 /\ block.blockNumber \in getBlockRange(db).first..getBlockRange(db).last
                 /\ block.blockNumber <= getLastConfirmedBlockNumber(db)
                 /\ block.blockNumber <= getBlockHeight(db)
  <2> DEFINE n == row.blockNumber
             block == getTransactionBlock(Database(v), row.transactionId)
  <2>1. /\ n \in Saved(v) /\ row # None
        /\ getTransaction(Database(v), row.transactionId) = row
    BY <1>1, TransactionFound
  <2>2. block = Row(n, TRUE)
    BY <1>1, <2>1, BlockFound DEF getTransactionBlock
  <2>3. block # None /\ block.blockNumber = n
    BY <1>1, <2>1, <2>2, RowIs, RowIsNotNone, IndexerIs
  <2> QED BY <1>1, <2>1, <2>3, InRange, BelowHeights
<1>3. ASSUME NEW v \in Verifiers, NEW b \in Confirmed(Database(v))
      PROVE  LET before == getLastConfirmedBlockStrictlyBeforeTime(Database(v), b.timestamp)
                 from == getFirstConfirmedBlockAfterTime(Database(v), b.timestamp)
             IN  /\ hasIndexerConfirmedBlockStrictlyBeforeTime(Database(v), b.timestamp)
                      <=> before # None
                 /\ before # None => from.blockNumber = before.blockNumber + 1
  <2>1. PICK k \in Saved(v) : b.timestamp = chain[k].timestamp
    BY <1>1, ConfirmedIs
  <2> QED BY <1>1, <2>1, NextToEachOther
<1> QED BY <1>2, <1>3 DEF EngineAgrees

\* A transaction the engine finds is in its range and in a confirmed block below
\* its heights, and the last block before a time is next to the first one from
\* it: for any chain whose times do not decrease and whose hashes are unique.
THEOREM EnginesAgree == Spec => []EngineAgrees
PROOF BY Invariant, InvEngineAgrees, PTL

-----------------------------------------------------------------------------
(* The pages of the engine.                                                  *)

\* How many rows are before one.
Before(rows, row) == Cardinality({tx \in rows : InOrder(tx, row)})

\* Rows in order.
Sorted(rows) == [i \in 1..Cardinality(rows) |-> CHOOSE row \in rows : Before(rows, row) = i - 1]

\* Rows that have one order.
Sortable(rows) ==
  /\ IsFiniteSet(rows)
  /\ \A a \in rows : a.blockNumber \in Nat /\ a.transactionId \in Nat
  /\ \A a, b \in rows : a.transactionId = b.transactionId => a = b

\* The order of such rows is strict and total.
LEMMA OrderIsTotal ==
  ASSUME NEW rows, Sortable(rows)
  PROVE  /\ \A a \in rows : ~InOrder(a, a)
         /\ \A a, b \in rows : a # b => InOrder(a, b) \/ InOrder(b, a)
         /\ \A a, b, c \in rows : InOrder(a, b) /\ InOrder(b, c) => InOrder(a, c)
PROOF BY DEF Sortable, InOrder

\* The more rows are before one, the later it is.
LEMMA BeforeIs ==
  ASSUME NEW rows, Sortable(rows)
  PROVE  /\ Cardinality(rows) \in Nat
         /\ \A a \in rows : Before(rows, a) \in 0..(Cardinality(rows) - 1)
         /\ \A a, b \in rows : InOrder(a, b) => Before(rows, a) < Before(rows, b)
PROOF
<1> DEFINE B(a) == {tx \in rows : InOrder(tx, a)}
<1>1. IsFiniteSet(rows) /\ Cardinality(rows) \in Nat
  BY FS_CardinalityType DEF Sortable
<1>2. ASSUME NEW a \in rows
      PROVE  IsFiniteSet(B(a)) /\ Cardinality(B(a)) \in Nat /\ Cardinality(B(a)) < Cardinality(rows)
  <2>1. B(a) \subseteq rows /\ a \notin B(a)
    BY OrderIsTotal
  <2> HIDE DEF B
  <2>2. /\ IsFiniteSet(B(a)) /\ Cardinality(B(a)) <= Cardinality(rows)
        /\ Cardinality(rows) = Cardinality(B(a)) => rows = B(a)
    BY <1>1, <2>1, FS_Subset
  <2>3. Cardinality(B(a)) \in Nat
    BY <2>2, FS_CardinalityType
  <2> QED BY <1>1, <2>1, <2>2, <2>3
<1>3. ASSUME NEW a \in rows, NEW b \in rows, InOrder(a, b)
      PROVE  Cardinality(B(a)) < Cardinality(B(b))
  <2>1. B(a) \subseteq B(b)
    BY <1>3, OrderIsTotal
  <2>2. a \in B(b) /\ a \notin B(a)
    BY <1>3, OrderIsTotal
  <2> HIDE DEF B
  <2>3. /\ Cardinality(B(a)) <= Cardinality(B(b))
        /\ Cardinality(B(b)) = Cardinality(B(a)) => B(b) = B(a)
    BY <1>2, <2>1, FS_Subset
  <2>4. Cardinality(B(a)) \in Nat /\ Cardinality(B(b)) \in Nat
    BY <1>2
  <2> QED BY <2>2, <2>3, <2>4
<1>4. \A a : Before(rows, a) = Cardinality(B(a))
  BY DEF Before
<1> HIDE DEF B
<1> QED BY <1>1, <1>2, <1>3, <1>4

\* Rows in order are all of them, each at its place.
LEMMA SortedIs ==
  ASSUME NEW rows, Sortable(rows)
  PROVE  /\ Sorted(rows) \in Seq(rows) /\ Len(Sorted(rows)) = Cardinality(rows)
         /\ \A row \in rows : \E i \in 1..Len(Sorted(rows)) : Sorted(rows)[i] = row
         /\ \A i, j \in 1..Len(Sorted(rows)) :
              i < j => InOrder(Sorted(rows)[i], Sorted(rows)[j])
PROOF
<1> DEFINE n == Cardinality(rows)
           f == [row \in rows |-> Before(rows, row)]
           s == Sorted(rows)
<1>1. /\ IsFiniteSet(rows) /\ n \in Nat
      /\ \A a \in rows : Before(rows, a) \in 0..(n - 1)
      /\ \A a, b \in rows : InOrder(a, b) => Before(rows, a) < Before(rows, b)
  BY BeforeIs DEF Sortable
<1>2. \A a, b \in rows : Before(rows, a) = Before(rows, b) => a = b
  <2> SUFFICES ASSUME NEW a \in rows, NEW b \in rows, Before(rows, a) = Before(rows, b), a # b
               PROVE  FALSE
    OBVIOUS
  <2>1. InOrder(a, b) \/ InOrder(b, a)
    BY OrderIsTotal
  <2>2. Before(rows, a) < Before(rows, b) \/ Before(rows, b) < Before(rows, a)
    BY <1>1, <2>1
  <2>3. Before(rows, a) \in Int /\ Before(rows, b) \in Int
    BY <1>1
  <2> QED BY <2>2, <2>3
<1>3. \A k \in 0..(n - 1) : \E row \in rows : Before(rows, row) = k
  <2>1. f \in Injection(rows, 0..(n - 1))
    BY <1>1, <1>2 DEF Injection, IsInjective
  <2>2. IsFiniteSet(0..(n - 1)) /\ Cardinality(0..(n - 1)) = n
    <3>1. 0 \in Int /\ n - 1 \in Int
      BY <1>1
    <3>2. /\ IsFiniteSet(0..(n - 1))
          /\ Cardinality(0..(n - 1)) = IF 0 > n - 1 THEN 0 ELSE (n - 1) - 0 + 1
      BY <3>1, FS_Interval
    <3> HIDE DEF n
    <3> QED BY <1>1, <3>2
  <2> HIDE DEF f
  <2>3. f \in Surjection(rows, 0..(n - 1))
    BY <2>1, <2>2, FS_Injection
  <2>4. \A k \in 0..(n - 1) : \E row \in rows : f[row] = k
    BY <2>3 DEF Surjection
  <2> QED BY <2>4 DEF f
<1>4. \A i \in 1..n : s[i] \in rows /\ Before(rows, s[i]) = i - 1
  <2> SUFFICES ASSUME NEW i \in 1..n PROVE s[i] \in rows /\ Before(rows, s[i]) = i - 1
    OBVIOUS
  <2>1. i - 1 \in 0..(n - 1)
    BY <1>1
  <2>2. s[i] = CHOOSE row \in rows : Before(rows, row) = i - 1
    BY DEF Sorted
  <2> QED BY <1>3, <2>1, <2>2
<1>5. s = [i \in 1..n |-> s[i]]
  BY DEF Sorted
<1> HIDE DEF s, n
<1>6. s \in Seq(rows) /\ Len(s) = n
  BY <1>1, <1>4, <1>5
<1>7. ASSUME NEW row \in rows PROVE \E i \in 1..n : s[i] = row
  <2>1. Before(rows, row) + 1 \in 1..n
    BY <1>1
  <2>2. Before(rows, s[Before(rows, row) + 1]) = Before(rows, row)
    BY <1>1, <1>4, <2>1
  <2>3. s[Before(rows, row) + 1] = row
    BY <1>2, <1>4, <2>1, <2>2
  <2> QED BY <2>1, <2>3
<1>8. ASSUME NEW i \in 1..n, NEW j \in 1..n, i < j PROVE InOrder(s[i], s[j])
  <2>1. s[i] # s[j]
    BY <1>4, <1>8
  <2>2. InOrder(s[i], s[j]) \/ InOrder(s[j], s[i])
    BY <1>4, <2>1, OrderIsTotal
  <2>3. ~InOrder(s[j], s[i])
    <3>1. ~(j - 1 < i - 1)
      BY <1>8
    <3> QED BY <1>1, <1>4, <3>1
  <2> QED BY <2>2, <2>3
<1> QED BY <1>6, <1>7, <1>8 DEF s, n

\* The rows of a table have one order: their ids are different numbers.
LEMMA TableSortable ==
  ASSUME IndexersInv, NEW v \in Verifiers, NEW i \in 0..1
  PROVE  /\ Sortable(Database(v).tables[i])
         /\ \A row \in Database(v).tables[i] : row.blockNumber \in state[v].tables[i]
         /\ Page(Database(v), i, 1, Len(chain)) = Sorted(Database(v).tables[i])
PROOF
<1> DEFINE rows == Database(v).tables[i]
<1>1. ASSUME NEW row \in rows
      PROVE  \E n \in state[v].tables[i] : \E tx \in chain[n].transactions :
               /\ row = TxRow(n, tx) /\ row.blockNumber = n /\ row.transactionId = tx.id
               /\ n \in Blocks /\ n \in Nat /\ tx.id \in Numbers
  <2>1. PICK n \in state[v].tables[i] : \E tx \in chain[n].transactions : row = TxRow(n, tx)
    BY TableRows
  <2>2. PICK tx \in chain[n].transactions : row = TxRow(n, tx)
    BY <2>1
  <2>3. n \in Blocks /\ n \in Nat
    BY IndexerIs
  <2>4. tx.id \in Numbers
    BY <2>3, ChainIs DEF Transactions
  <2> QED BY <2>2, <2>3, <2>4, TxRowIs
<1>2. \A row \in rows : /\ row.blockNumber \in Nat /\ row.blockNumber \in Blocks
                        /\ row.blockNumber \in state[v].tables[i]
                        /\ row.transactionId \in Numbers
  BY <1>1
<1>3. ASSUME NEW row \in rows, NEW other \in rows, row.transactionId = other.transactionId
      PROVE  row = other
  <2>1. PICK n \in Blocks : \E tx \in chain[n].transactions :
               row = TxRow(n, tx) /\ row.transactionId = tx.id
    BY <1>1
  <2>2. PICK tx \in chain[n].transactions : row = TxRow(n, tx) /\ row.transactionId = tx.id
    BY <2>1
  <2>3. PICK m \in Blocks : \E tx2 \in chain[m].transactions :
               other = TxRow(m, tx2) /\ other.transactionId = tx2.id
    BY <1>1
  <2>4. PICK tx2 \in chain[m].transactions : other = TxRow(m, tx2) /\ other.transactionId = tx2.id
    BY <2>3
  <2>5. m = n /\ tx = tx2
    BY <1>3, <2>2, <2>4, ChainIs
  <2> QED BY <2>2, <2>4, <2>5
<1>4. IsFiniteSet(rows)
  <2> DEFINE f == [row \in rows |-> row.transactionId]
  <2>1. f \in Injection(rows, Numbers)
    <3> HIDE DEF rows
    <3> QED BY <1>2, <1>3 DEF Injection, IsInjective
  <2>2. IsFiniteSet(Numbers)
    <3> DEFINE bound == 2147483647
    <3>1. bound \in Nat /\ Numbers \in SUBSET Nat /\ \A x \in Numbers : x <= bound
      BY SMT DEF Numbers
    <3> HIDE DEF bound
    <3> QED BY <3>1, FS_BoundedSetOfNaturals
  <2> HIDE DEF f
  <2> QED BY <2>1, <2>2, FS_Injection
<1>5. Sortable(rows)
  BY <1>2, <1>3, <1>4, NumbersAreNatural DEF Sortable
<1> DEFINE range == {tx \in rows : 1 <= tx.blockNumber /\ tx.blockNumber <= Len(chain)}
<1>6. range = rows
  BY <1>2, ChainIs
<1>7. Page(Database(v), i, 1, Len(chain)) = Sorted(range)
  BY DEF Page, Sorted, Before
<1> QED BY <1>2, <1>5, <1>6, <1>7

\* What is left of a sequence from an offset.
Rest(s, offset) == SubSeq(s, offset + 1, Len(s))

\* A page of two sequences of rows, of which the second is read after the first.
PageOf(a, b, limit, offset) ==
  IF offset < Len(a) THEN LimitOffset(a, limit, offset) ELSE LimitOffset(b, limit, offset - Len(a))

\* A part of a sequence, after m elements up to the n-th.
Slice(S, p, w, m, n) ==
  /\ p \in Seq(S) /\ w \in Seq(S) /\ m \in Nat /\ n \in Nat /\ m <= n /\ n <= Len(w)
  /\ Len(p) = n - m /\ \A k \in 1..(n - m) : p[k] = w[m + k]

\* SubSeq takes such a part.
LEMMA SliceIs ==
  ASSUME NEW S, NEW w \in Seq(S), NEW m \in Nat, NEW n \in Nat, m <= n, n <= Len(w)
  PROVE  Slice(S, SubSeq(w, m + 1, n), w, m, n)
PROOF BY DEF Slice

\* The rest is one.
LEMMA RestIs ==
  ASSUME NEW S, NEW w \in Seq(S), NEW m \in Nat, m <= Len(w)
  PROVE  Slice(S, Rest(w, m), w, m, Len(w))
PROOF
<1>1. Len(w) \in Nat /\ Len(w) <= Len(w)
  OBVIOUS
<1> QED BY <1>1, SliceIs DEF Rest

\* There is one part at a place.
LEMMA SliceUnique ==
  ASSUME NEW S, NEW w, NEW m, NEW n, NEW p, NEW q, Slice(S, p, w, m, n), Slice(S, q, w, m, n)
  PROVE  p = q
PROOF
<1>1. p \in Seq(S) /\ q \in Seq(S) /\ Len(p) = n - m /\ Len(q) = n - m
  BY DEF Slice
<1>2. \A k \in 1..(n - m) : p[k] = w[m + k] /\ q[k] = w[m + k]
  BY DEF Slice
<1>3. \A k \in 1..Len(p) : p[k] = q[k]
  BY <1>1, <1>2
<1> QED BY <1>1, <1>3, SameElements

\* Parts that follow one another join.
LEMMA SlicesJoin ==
  ASSUME NEW S, NEW w, NEW l, NEW m, NEW n, NEW p, NEW q, Slice(S, p, w, l, m), Slice(S, q, w, m, n)
  PROVE  Slice(S, p \o q, w, l, n)
PROOF
<1>1. /\ p \in Seq(S) /\ q \in Seq(S) /\ w \in Seq(S)
      /\ l \in Nat /\ m \in Nat /\ n \in Nat /\ l <= m /\ m <= n /\ n <= Len(w)
      /\ Len(p) = m - l /\ Len(q) = n - m
  BY DEF Slice
<1>2. /\ \A k \in 1..(m - l) : p[k] = w[l + k]
      /\ \A k \in 1..(n - m) : q[k] = w[m + k]
  BY DEF Slice
<1>3. /\ p \o q \in Seq(S) /\ Len(p \o q) = Len(p) + Len(q)
      /\ \A k \in 1..Len(p) : (p \o q)[k] = p[k]
      /\ \A k \in 1..Len(q) : (p \o q)[Len(p) + k] = q[k]
  <2>1. p \in Seq(S) /\ q \in Seq(S)
    BY <1>1
  <2> QED BY <2>1, Joined
<1> DEFINE z == p \o q
<1> HIDE DEF z
<1>4. Len(z) = n - l /\ l <= n
  BY <1>1, <1>3 DEF z
<1>5. ASSUME NEW k \in 1..(n - l) PROVE z[k] = w[l + k]
  <2>1. k \in Int /\ 1 <= k /\ k <= n - l
    BY <1>1
  <2>2. CASE k <= m - l
    <3>1. k \in 1..(m - l) /\ k \in 1..Len(p)
      BY <1>1, <2>1, <2>2
    <3>2. z[k] = p[k]
      BY <1>3, <3>1 DEF z
    <3>3. p[k] = w[l + k]
      BY <1>2, <3>1
    <3> QED BY <3>2, <3>3
  <2>3. CASE k > m - l
    <3> DEFINE j == k - (m - l)
    <3>1. j \in 1..Len(q) /\ j \in 1..(n - m) /\ Len(p) + j = k /\ m + j = l + k
      BY <1>1, <2>1, <2>3
    <3> HIDE DEF j
    <3>2. z[Len(p) + j] = q[j]
      BY <1>3, <3>1 DEF z
    <3>3. q[j] = w[m + j]
      BY <1>2, <3>1
    <3> QED BY <3>1, <3>2, <3>3
  <2>4. k <= m - l \/ k > m - l
    BY <1>1, <2>1
  <2> QED BY <2>2, <2>3, <2>4
<1>6. z \in Seq(S)
  BY <1>3 DEF z
<1>7. Slice(S, z, w, l, n)
  BY <1>1, <1>4, <1>5, <1>6 DEF Slice
<1> QED BY <1>7 DEF z

\* What follows a page of two sequences: it is empty only after the end, and
\* otherwise it and the rest after it are what was left.
PageAfter(w, page, offset) ==
  /\ Len(page) \in Nat
  /\ offset >= Len(w) => page = <<>>
  /\ offset < Len(w) =>
       /\ page # <<>> /\ Len(page) > 0 /\ offset + Len(page) <= Len(w)
       /\ page \o Rest(w, offset + Len(page)) = Rest(w, offset)

\* A part that is not empty is such a page.
LEMMA PageIsSlice ==
  ASSUME NEW S, NEW w, NEW page, NEW offset, NEW end, Slice(S, page, w, offset, end), offset < end
  PROVE  PageAfter(w, page, offset)
PROOF
<1>1. /\ w \in Seq(S) /\ offset \in Nat /\ end \in Nat /\ end <= Len(w) /\ Len(page) = end - offset
      /\ Len(w) \in Nat /\ page \in Seq(S)
  BY DEF Slice
<1>2. offset + Len(page) = end /\ Len(page) > 0 /\ Len(page) \in Nat /\ offset < Len(w)
  BY <1>1
<1>3. Slice(S, page \o Rest(w, end), w, offset, Len(w))
  BY <1>1, RestIs, SlicesJoin
<1>4. Slice(S, Rest(w, offset), w, offset, Len(w))
  BY <1>1, <1>2, RestIs
<1>5. page \o Rest(w, end) = Rest(w, offset)
  BY <1>3, <1>4, SliceUnique
<1>6. page # <<>>
  BY <1>2
<1>7. ~(offset >= Len(w))
  BY <1>1, <1>2
<1> QED BY <1>1, <1>2, <1>5, <1>6, <1>7 DEF PageAfter

\* The pages of two sequences of rows are parts of both joined.
LEMMA PageAfterPage ==
  ASSUME NEW S, NEW a \in Seq(S), NEW b \in Seq(S), NEW limit \in Nat \ {0}, NEW offset \in Nat
  PROVE  PageAfter(a \o b, PageOf(a, b, limit, offset), offset)
PROOF
<1> DEFINE page == PageOf(a, b, limit, offset)
           w == a \o b
<1>1. /\ Len(a) \in Nat /\ Len(b) \in Nat /\ w \in Seq(S) /\ Len(w) = Len(a) + Len(b)
      /\ \A m \in 1..Len(a) : w[m] = a[m]
      /\ \A m \in 1..Len(b) : w[Len(a) + m] = b[m]
  BY Joined
<1> HIDE DEF w
<1>2. CASE offset < Len(a)
  <2> DEFINE e == IF offset + limit < Len(a) THEN offset + limit ELSE Len(a)
  <2>1. page = SubSeq(a, offset + 1, e)
    BY <1>2 DEF PageOf, LimitOffset
  <2>2. e \in Nat /\ offset < e /\ offset <= e /\ e <= Len(a) /\ e <= Len(w)
    BY <1>1, <1>2
  <2> HIDE DEF e, page
  <2>3. Slice(S, page, a, offset, e)
    BY <2>1, <2>2, SliceIs
  <2>4. /\ page \in Seq(S) /\ Len(page) = e - offset
        /\ \A k \in 1..(e - offset) : page[k] = a[offset + k]
    BY <2>3 DEF Slice
  <2>5. \A k \in 1..(e - offset) : page[k] = w[offset + k]
    <3> SUFFICES ASSUME NEW k \in 1..(e - offset) PROVE page[k] = w[offset + k]
      OBVIOUS
    <3>1. offset + k \in 1..Len(a)
      BY <1>1, <2>2
    <3> QED BY <1>1, <2>4, <3>1
  <2>6. Slice(S, page, w, offset, e)
    BY <1>1, <2>2, <2>4, <2>5 DEF Slice
  <2>7. PageAfter(w, page, offset)
    BY <2>2, <2>6, PageIsSlice
  <2> QED BY <2>7 DEF page, w
<1>3. CASE offset >= Len(a) /\ offset < Len(w)
  <2> DEFINE o == offset - Len(a)
             e == IF o + limit < Len(b) THEN o + limit ELSE Len(b)
             end == Len(a) + e
  <2>1. page = SubSeq(b, o + 1, e)
    <3>1. page = LimitOffset(b, limit, o)
      BY <1>1, <1>3 DEF PageOf
    <3> QED BY <3>1 DEF LimitOffset
  <2>2. /\ o \in Nat /\ e \in Nat /\ o < e /\ o <= e /\ e <= Len(b) /\ offset = Len(a) + o
        /\ end = Len(a) + e
    BY <1>1, <1>3
  <2> HIDE DEF e, page, o, end
  <2>3. Slice(S, page, b, o, e)
    BY <2>1, <2>2, SliceIs
  <2>4. page \in Seq(S) /\ Len(page) = e - o /\ \A k \in 1..(e - o) : page[k] = b[o + k]
    BY <2>3 DEF Slice
  <2>5. /\ end \in Nat /\ offset < end /\ offset <= end /\ end <= Len(w)
        /\ Len(page) = end - offset
    <3>1. Len(a) \in Nat /\ Len(b) \in Nat /\ Len(w) = Len(a) + Len(b) /\ Len(page) = e - o
      BY <1>1, <2>4
    <3> QED BY <2>2, <3>1
  <2>6. \A k \in 1..(end - offset) : page[k] = w[offset + k]
    <3> SUFFICES ASSUME NEW k \in 1..(end - offset) PROVE page[k] = w[offset + k]
      OBVIOUS
    <3>1. o + k \in 1..Len(b) /\ k \in 1..(e - o) /\ Len(a) + (o + k) = offset + k
      BY <1>1, <2>2
    <3>2. w[Len(a) + (o + k)] = b[o + k]
      BY <1>1, <3>1
    <3> QED BY <2>4, <3>1, <3>2
  <2>7. Slice(S, page, w, offset, end)
    BY <1>1, <2>4, <2>5, <2>6 DEF Slice
  <2>8. PageAfter(w, page, offset)
    BY <2>5, <2>7, PageIsSlice
  <2> QED BY <2>8 DEF page, w
<1>4. CASE offset >= Len(w)
  <2> DEFINE o == offset - Len(a)
             e == IF o + limit < Len(b) THEN o + limit ELSE Len(b)
  <2>1. ~(offset < Len(a)) /\ o \in Nat /\ e \in Nat /\ o >= e
    BY <1>1, <1>4
  <2>2. page = SubSeq(b, o + 1, e)
    BY <2>1 DEF PageOf, LimitOffset
  <2> HIDE DEF e, page, o
  <2>3. page = <<>>
    BY <2>1, <2>2
  <2>4. Len(page) \in Nat
    BY <2>3
  <2>5. ~(offset < Len(w))
    BY <1>1, <1>4
  <2>6. PageAfter(w, page, offset)
    BY <2>3, <2>4, <2>5 DEF PageAfter
  <2> QED BY <2>6 DEF page, w
<1>5. offset < Len(a) \/ (offset >= Len(a) /\ offset < Len(w)) \/ offset >= Len(w)
  <2>1. Len(a) \in Nat /\ Len(w) \in Nat
    BY <1>1
  <2> HIDE DEF page
  <2> QED BY <2>1
<1> QED BY <1>2, <1>3, <1>4, <1>5

\* What a client asks for, page after page.
PageAt(db, limit, offset) == getTransactionsWithinBlockRange(db, 1, Len(chain), limit, offset)

\* The function that Pages chooses.
PagesFrom(db, limit) ==
  CHOOSE from : from = [offset \in Nat |->
                          IF PageAt(db, limit, offset) = <<>> THEN <<>>
                          ELSE PageAt(db, limit, offset)
                               \o from[offset + Len(PageAt(db, limit, offset))]]

\* When the pages are those of two sequences, all of them are both joined.
LEMMA PagesAre ==
  ASSUME NEW S, NEW a \in Seq(S), NEW b \in Seq(S), NEW limit \in Nat \ {0}, NEW db,
         \A offset \in Nat : PageAt(db, limit, offset) = PageOf(a, b, limit, offset)
  PROVE  Pages(db, limit) = a \o b
PROOF
<1> DEFINE w == a \o b
           p(offset) == PageAt(db, limit, offset)
           Is(f) == f = [offset \in Nat |-> IF p(offset) = <<>> THEN <<>>
                                            ELSE p(offset) \o f[offset + Len(p(offset))]]
           rest == [offset \in Nat |-> Rest(w, offset)]
           from == PagesFrom(db, limit)
<1>1. w \in Seq(S) /\ Len(w) \in Nat
  BY Joined
<1>2. \A offset \in Nat : PageAfter(w, p(offset), offset)
  BY PageAfterPage
<1> HIDE DEF w, p
<1>3. ASSUME NEW offset \in Nat, offset >= Len(w) PROVE p(offset) = <<>> /\ Rest(w, offset) = <<>>
  <2>1. p(offset) = <<>>
    BY <1>2, <1>3 DEF PageAfter
  <2>2. Rest(w, offset) = <<>>
    BY <1>1, <1>3 DEF Rest
  <2> QED BY <2>1, <2>2
<1>4. ASSUME NEW offset \in Nat, offset < Len(w)
      PROVE  /\ p(offset) # <<>> /\ offset + Len(p(offset)) \in Nat
             /\ offset < offset + Len(p(offset))
             /\ p(offset) \o Rest(w, offset + Len(p(offset))) = Rest(w, offset)
  <2>1. /\ Len(p(offset)) \in Nat /\ Len(p(offset)) > 0
        /\ p(offset) # <<>>
        /\ p(offset) \o Rest(w, offset + Len(p(offset))) = Rest(w, offset)
    BY <1>2, <1>4 DEF PageAfter
  <2> DEFINE size == Len(p(offset))
  <2>2. size \in Nat /\ size > 0
    BY <2>1
  <2> HIDE DEF size
  <2>3. offset + size \in Nat /\ offset < offset + size
    BY <2>2
  <2> QED BY <2>1, <2>3 DEF size
<1>5. \A offset \in Nat : offset >= Len(w) \/ offset < Len(w)
  BY <1>1
<1>6. Is(rest)
  <2>1. ASSUME NEW offset \in Nat
        PROVE  Rest(w, offset) = IF p(offset) = <<>> THEN <<>>
                                 ELSE p(offset) \o rest[offset + Len(p(offset))]
    BY <1>3, <1>4, <1>5
  <2> QED BY <2>1
<1>7. Is(from)
  <2>1. from = CHOOSE f : Is(f)
    BY DEF PagesFrom, p
  <2> HIDE DEF Is, from
  <2> QED BY <1>6, <2>1
<1>8. Pages(db, limit) = from[0]
  BY DEF Pages, PagesFrom, PageAt
<1> HIDE DEF rest, from
<1>9. \A offset \in Nat :
        from[offset] = IF p(offset) = <<>> THEN <<>> ELSE p(offset) \o from[offset + Len(p(offset))]
  BY <1>7
<1> HIDE DEF Is
<1> DEFINE Wrong == {offset \in Nat : from[offset] # Rest(w, offset)}
<1>10. ASSUME Wrong # {} PROVE FALSE
  <2>1. Wrong \in SUBSET Nat
    OBVIOUS
  <2>2. ASSUME NEW offset \in Wrong PROVE offset <= Len(w)
    <3>1. offset \in Nat /\ from[offset] # Rest(w, offset)
      OBVIOUS
    <3>2. offset >= Len(w) => from[offset] = Rest(w, offset)
      BY <1>3, <1>9, <3>1
    <3> QED BY <1>1, <3>1, <3>2
  <2>3. PICK last \in Wrong : \A offset \in Wrong : offset <= last
    <3> HIDE DEF Wrong
    <3> QED BY <1>1, <1>10, <2>1, <2>2, Greatest
  <2>4. last \in Nat /\ from[last] # Rest(w, last)
    OBVIOUS
  <2>5. last < Len(w)
    BY <1>3, <1>5, <1>9, <2>4
  <2> DEFINE next == last + Len(p(last))
  <2>6. /\ p(last) # <<>> /\ next \in Nat /\ last < next
        /\ p(last) \o Rest(w, next) = Rest(w, last)
    BY <1>4, <2>4, <2>5
  <2>7. from[last] = p(last) \o from[next]
    BY <1>9, <2>4, <2>6
  <2> HIDE DEF next
  <2>8. next \in Wrong
    BY <2>4, <2>6, <2>7
  <2>9. next <= last
    BY <2>3, <2>8
  <2> QED BY <2>4, <2>6, <2>9
<1>11. from[0] = Rest(w, 0)
  BY <1>10
<1>12. Rest(w, 0) = w
  <2>1. Slice(S, Rest(w, 0), w, 0, Len(w))
    BY <1>1, RestIs
  <2>2. /\ Rest(w, 0) \in Seq(S) /\ Len(Rest(w, 0)) = Len(w) - 0
        /\ \A k \in 1..(Len(w) - 0) : Rest(w, 0)[k] = w[0 + k]
    BY <2>1 DEF Slice
  <2>3. Len(Rest(w, 0)) = Len(w) /\ \A k \in 1..Len(w) : Rest(w, 0)[k] = w[k]
    BY <1>1, <2>2
  <2> QED BY <1>1, <2>2, <2>3, SameElements
<1> QED BY <1>8, <1>11, <1>12 DEF w

\* The blocks of the table that was filled first are before those of the other.
TablesInOrder ==
  \A v \in Verifiers :
    \A m \in state[v].tables[1 - state[v].active], n \in state[v].tables[state[v].active] : m < n

\* The tables are in order from the beginning.
LEMMA InitOrder == ASSUME Init PROVE TablesInOrder
PROOF
<1> SUFFICES ASSUME NEW v \in Verifiers
             PROVE  state[v].tables[1 - state[v].active] = {}
  BY DEF TablesInOrder
<1>1. FirstTable[v] \in 0..1
  BY VerificationAssumption
<1>2. /\ state[v].active = FirstTable[v]
      /\ state[v].tables =
           [i \in 0..1 |-> IF i = FirstTable[v] THEN FirstSaved[v]..FirstN[v] ELSE {}]
  BY DEF Init
<1>3. 1 - FirstTable[v] \in 0..1 /\ 1 - FirstTable[v] # FirstTable[v]
  BY <1>1
<1> QED BY <1>2, <1>3

\* They stay so when blocks are saved and when they take turns.
LEMMA OrderStays ==
  ASSUME IndexersInv, TablesInOrder, NEW v \in Verifiers, SaveBlock(v) \/ DropTable(v)
  PROVE  TablesInOrder'
PROOF
<1> DEFINE s == state[v]
           a == state[v].active
<1>1. /\ s.N \in Nat /\ a \in 0..1 /\ DOMAIN s.tables = 0..1
      /\ \A i \in 0..1 : s.tables[i] \subseteq Nat /\ \A m \in s.tables[i] : m <= s.N
  BY IndexerIs DEF Saved
<1>2. state[v] \in [N : Nat, first : Nat \ {0}, active : 0..1, tables : [0..1 -> SUBSET Nat]]
  BY DEF IndexersInv
<1>3. /\ DOMAIN state = Verifiers /\ DOMAIN s = {"N", "first", "active", "tables"}
  BY <1>2 DEF IndexersInv
<1>4. \A m \in s.tables[1 - a], n \in s.tables[a] : m < n
  BY DEF TablesInOrder
<1>5. \A m \in state'[v].tables[1 - state'[v].active],
         n \in state'[v].tables[state'[v].active] : m < n
  <2>1. CASE SaveBlock(v)
    <3> DEFINE tables == [s.tables EXCEPT ![a] = @ \cup {s.N + 1}]
               grown == [s EXCEPT !.N = @ + 1]
               new == [grown EXCEPT !.tables = tables]
    <3>1. state' = [state EXCEPT ![v] = new]
      BY <2>1, <1>3 DEF SaveBlock
    <3>2. tables[a] = s.tables[a] \cup {s.N + 1} /\ tables[1 - a] = s.tables[1 - a]
      BY <1>1
    <3> HIDE DEF tables
    <3>3. new.active = a /\ new.tables = tables
      BY <1>3
    <3> HIDE DEF new, s, a
    <3>4. state'[v] = new
      BY <1>3, <3>1
    <3>5. \A m \in s.tables[1 - a] : m < s.N + 1
      <4>1. 1 - a \in 0..1
        BY <1>1
      <4> QED BY <1>1, <4>1
    <3> QED BY <1>4, <3>2, <3>3, <3>4, <3>5
  <2>2. CASE DropTable(v)
    <3> DEFINE tables == [s.tables EXCEPT ![1 - a] = {}]
               turned == [s EXCEPT !.active = 1 - @]
               new == [turned EXCEPT !.tables = tables]
    <3>1. state' = [state EXCEPT ![v] = new]
      BY <2>2, <1>3 DEF DropTable
    <3>2. tables[1 - a] = {}
      BY <1>1
    <3> HIDE DEF tables
    <3>3. new.active = 1 - a /\ new.tables = tables
      BY <1>3
    <3> HIDE DEF new, s, a
    <3>4. state'[v] = new
      BY <1>3, <3>1
    <3> QED BY <3>2, <3>3, <3>4
  <2> QED BY <2>1, <2>2
<1>6. \A w \in Verifiers : w # v => state'[w] = state[w]
  BY IndexersMove
<1> SUFFICES ASSUME NEW w \in Verifiers
             PROVE  \A m \in state'[w].tables[1 - state'[w].active],
                       n \in state'[w].tables[state'[w].active] : m < n
  BY DEF TablesInOrder
<1>7. CASE w = v
  BY <1>5, <1>7
<1>8. CASE w # v
  BY <1>6, <1>8 DEF TablesInOrder
<1> QED BY <1>7, <1>8

\* The tables of an indexer hold the transactions in order: all blocks of one are
\* before those of the other, through every save and every turn.
THEOREM TablesTakeTurns == Spec => []TablesInOrder
PROOF
<1>1. Init => TablesInOrder
  BY InitOrder
<1>2. Inv /\ TablesInOrder /\ [Next]_vars => TablesInOrder'
  <2> SUFFICES ASSUME Inv, TablesInOrder, [Next]_vars PROVE TablesInOrder'
    OBVIOUS
  <2>1. ASSUME NEW v \in Verifiers, SaveBlock(v) \/ DropTable(v) PROVE TablesInOrder'
    BY <2>1, OrderStays DEF Inv
  <2>2. state' = state => TablesInOrder'
    BY DEF TablesInOrder
  <2>3. CASE PrepareAttestation
    BY <2>2, <2>3 DEF PrepareAttestation
  <2>4. CASE getRandomAttestationRequest
    BY <2>2, <2>4 DEF getRandomAttestationRequest
  <2>5. CASE Read
    BY <2>2, <2>5 DEF Read
  <2>6. CASE Answer
    BY <2>2, <2>6 DEF Answer
  <2>7. CASE Submit
    BY <2>2, <2>7 DEF Submit
  <2>8. CASE VerifyAttestation
    BY <2>2, <2>8 DEF VerifyAttestation
  <2>9. CASE Judge
    BY <2>2, <2>9 DEF Judge
  <2>10. CASE UNCHANGED vars
    BY <2>2, <2>10 DEF vars
  <2> QED BY <2>1, <2>3, <2>4, <2>5, <2>6, <2>7, <2>8, <2>9, <2>10 DEF Next
<1> QED BY Invariant, <1>1, <1>2, PTL DEF Spec

\* The rows of one sequence are before those of the other.
Follows(a, b) ==
  \A i \in 1..Len(a), j \in 1..Len(b) : a[i].blockNumber < b[j].blockNumber

\* Rows in order have numbers in order.
LEMMA NumbersInOrder ==
  ASSUME NEW x, NEW y, x.blockNumber \in Nat, y.blockNumber \in Nat,
         InOrder(x, y) \/ x.blockNumber < y.blockNumber
  PROVE  x.blockNumber <= y.blockNumber
PROOF BY DEF InOrder

\* Two sequences in order, one before the other, are in order when they are joined.
LEMMA InOrderJoined ==
  ASSUME NEW S, NEW a \in Seq(S), NEW b \in Seq(S), \A row \in S : row.blockNumber \in Nat,
         \A i, j \in 1..Len(a) : i < j => InOrder(a[i], a[j]),
         \A i, j \in 1..Len(b) : i < j => InOrder(b[i], b[j]),
         Follows(a, b)
  PROVE  \A i \in 1..(Len(a \o b) - 1) :
           (a \o b)[i].blockNumber <= (a \o b)[i + 1].blockNumber
PROOF
<1> DEFINE w == a \o b
<1>1. /\ Len(a) \in Nat /\ Len(b) \in Nat /\ Len(w) = Len(a) + Len(b)
      /\ \A m \in 1..Len(a) : w[m] = a[m]
      /\ \A m \in 1..Len(b) : w[Len(a) + m] = b[m]
  BY Joined
<1>2. /\ \A m \in 1..Len(a) : a[m] \in S /\ a[m].blockNumber \in Nat
      /\ \A m \in 1..Len(b) : b[m] \in S /\ b[m].blockNumber \in Nat
  OBVIOUS
<1> HIDE DEF w
<1> SUFFICES ASSUME NEW i \in 1..(Len(w) - 1) PROVE w[i].blockNumber <= w[i + 1].blockNumber
  BY DEF w
<1>3. i \in Nat /\ 1 <= i /\ i + 1 <= Len(a) + Len(b)
  BY <1>1
<1>4. CASE i + 1 <= Len(a)
  <2>1. i \in 1..Len(a) /\ i + 1 \in 1..Len(a) /\ i < i + 1
    BY <1>1, <1>3, <1>4
  <2>2. InOrder(a[i], a[i + 1])
    BY <2>1
  <2>3. w[i] = a[i] /\ w[i + 1] = a[i + 1]
    BY <1>1, <2>1
  <2>4. a[i].blockNumber \in Nat /\ a[i + 1].blockNumber \in Nat
    BY <1>2, <2>1
  <2>5. a[i].blockNumber <= a[i + 1].blockNumber
    BY <2>2, <2>4, NumbersInOrder
  <2> QED BY <2>3, <2>5
<1>5. CASE i = Len(a)
  <2>1. i \in 1..Len(a) /\ 1 \in 1..Len(b)
    BY <1>1, <1>3, <1>5
  <2>2. a[i].blockNumber < b[1].blockNumber
    BY <2>1 DEF Follows
  <2>3. w[i] = a[i] /\ w[i + 1] = b[1]
    BY <1>1, <1>5, <2>1
  <2>4. a[i].blockNumber \in Nat /\ b[1].blockNumber \in Nat
    BY <1>2, <2>1
  <2>5. a[i].blockNumber <= b[1].blockNumber
    BY <2>2, <2>4, NumbersInOrder
  <2> QED BY <2>3, <2>5
<1>6. CASE i > Len(a)
  <2> DEFINE m == i - Len(a)
  <2>1. /\ m \in 1..Len(b) /\ m + 1 \in 1..Len(b) /\ m < m + 1
        /\ Len(a) + m = i /\ Len(a) + (m + 1) = i + 1
    BY <1>1, <1>3, <1>6
  <2> HIDE DEF m
  <2>2. InOrder(b[m], b[m + 1])
    BY <2>1
  <2>3. w[i] = b[m] /\ w[i + 1] = b[m + 1]
    <3>1. w[Len(a) + m] = b[m] /\ w[Len(a) + (m + 1)] = b[m + 1]
      BY <1>1, <2>1
    <3> QED BY <2>1, <3>1
  <2>4. b[m].blockNumber \in Nat /\ b[m + 1].blockNumber \in Nat
    BY <1>2, <2>1
  <2>5. b[m].blockNumber <= b[m + 1].blockNumber
    BY <2>2, <2>4, NumbersInOrder
  <2> QED BY <2>3, <2>5
<1>7. i + 1 <= Len(a) \/ i = Len(a) \/ i > Len(a)
  <2>1. Len(a) \in Nat /\ i \in Nat
    BY <1>1, <1>3
  <2> QED BY <2>1
<1> QED BY <1>4, <1>5, <1>6, <1>7

\* A sequence of all rows of a table.
Lists(t, a) ==
  /\ IsFiniteSet(t) /\ a \in Seq(t) /\ Len(a) = Cardinality(t)
  /\ \A row \in t : \E i \in 1..Len(a) : a[i] = row

\* All rows of two tables are in the joined sequence, each once.
LEMMA AllJoined ==
  ASSUME NEW t, NEW u, NEW a, NEW b, Lists(t, a), Lists(u, b), t \cap u = {}
  PROVE  /\ ToSet(a \o b) = t \cup u
         /\ Len(a \o b) = Cardinality(t \cup u)
PROOF
<1> DEFINE w == a \o b
<1>1. a \in Seq(t \cup u) /\ b \in Seq(t \cup u)
  <2>1. /\ a = [i \in 1..Len(a) |-> a[i]] /\ \A i \in 1..Len(a) : a[i] \in t
        /\ Len(a) \in Nat
    BY DEF Lists
  <2>2. /\ b = [i \in 1..Len(b) |-> b[i]] /\ \A i \in 1..Len(b) : b[i] \in u
        /\ Len(b) \in Nat
    BY DEF Lists
  <2>3. a \in Seq(t \cup u)
    BY <2>1
  <2>4. b \in Seq(t \cup u)
    BY <2>2
  <2> QED BY <2>3, <2>4
<1>2. /\ Len(a) \in Nat /\ Len(b) \in Nat /\ Len(w) = Len(a) + Len(b) /\ w \in Seq(t \cup u)
      /\ \A m \in 1..Len(a) : w[m] = a[m]
      /\ \A m \in 1..Len(b) : w[Len(a) + m] = b[m]
  <2>1. Len(a) \in Nat /\ Len(b) \in Nat
    BY <1>1
  <2> QED BY <1>1, <2>1, Joined
<1> HIDE DEF w
<1>3. DOMAIN w = 1..Len(w)
  BY <1>2
<1>4. ASSUME NEW row \in t \cup u PROVE row \in ToSet(w)
  <2>1. CASE row \in t
    <3>1. PICK i \in 1..Len(a) : a[i] = row
      BY <2>1 DEF Lists
    <3>2. i \in DOMAIN w /\ w[i] = row
      BY <1>2, <1>3, <3>1
    <3> QED BY <3>2 DEF ToSet
  <2>2. CASE row \in u
    <3>1. PICK i \in 1..Len(b) : b[i] = row
      BY <2>2 DEF Lists
    <3>2. Len(a) + i \in DOMAIN w /\ w[Len(a) + i] = row
      BY <1>2, <1>3, <3>1
    <3> QED BY <3>2 DEF ToSet
  <2> QED BY <2>1, <2>2
<1>5. ToSet(w) \subseteq t \cup u
  <2>1. \A i \in 1..Len(w) : w[i] \in t \cup u
    BY <1>2
  <2> QED BY <1>3, <2>1 DEF ToSet
<1>6. Cardinality(t \cup u) = Cardinality(t) + Cardinality(u)
  <2>1. IsFiniteSet(t) /\ IsFiniteSet(u)
    BY DEF Lists
  <2>2. Cardinality(t \cup u) = Cardinality(t) + Cardinality(u) - Cardinality(t \cap u)
    BY <2>1, FS_Union
  <2>3. Cardinality(t \cap u) = 0
    BY FS_EmptySet
  <2>4. Cardinality(t) \in Nat /\ Cardinality(u) \in Nat
    BY <2>1, FS_CardinalityType
  <2> QED BY <2>2, <2>3, <2>4
<1>7. Len(w) = Cardinality(t \cup u)
  BY <1>2, <1>6 DEF Lists
<1> QED BY <1>4, <1>5, <1>7 DEF w

\* The pages of an engine whose tables are in order.
LEMMA InvPagesAreComplete == ASSUME Inv, TablesInOrder PROVE PagesAreComplete
PROOF
<1>1. IndexersInv
  BY DEF Inv
<1> SUFFICES ASSUME NEW v \in Verifiers, NEW limit \in 1..3
             PROVE  LET db == Database(v)
                        pages == Pages(db, limit)
                    IN  /\ ToSet(pages) = db.tables[0] \cup db.tables[1]
                        /\ Len(pages) = Cardinality(db.tables[0] \cup db.tables[1])
                        /\ \A i \in 1..(Len(pages) - 1) :
                             pages[i].blockNumber <= pages[i + 1].blockNumber
  BY DEF PagesAreComplete
<1> DEFINE db == Database(v)
           t == db.tables[0]
           u == db.tables[1]
           zero == Sorted(t)
           one == Sorted(u)
           swap == /\ zero # <<>> /\ one # <<>>
                   /\ Head(zero).blockNumber > Head(one).blockNumber
           a == IF swap THEN one ELSE zero
           b == IF swap THEN zero ELSE one
<1>2. /\ Sortable(t) /\ Sortable(u)
      /\ \A row \in t : row.blockNumber \in state[v].tables[0]
      /\ \A row \in u : row.blockNumber \in state[v].tables[1]
      /\ Page(db, 0, 1, Len(chain)) = zero /\ Page(db, 1, 1, Len(chain)) = one
  BY <1>1, TableSortable
<1>3. /\ state[v].active \in 0..1
      /\ \A i \in 0..1 : state[v].tables[i] \subseteq Nat
  BY <1>1, IndexerIs
<1>4. \A offset \in Nat : PageAt(db, limit, offset) = PageOf(a, b, limit, offset)
  <2> HIDE DEF db, t, u, zero, one
  <2> QED BY <1>2 DEF PageAt, PageOf, getTransactionsWithinBlockRange
<1> HIDE DEF db, t, u
<1>5. /\ zero \in Seq(t) /\ Len(zero) = Cardinality(t)
      /\ \A row \in t : \E i \in 1..Len(zero) : zero[i] = row
      /\ \A i, j \in 1..Len(zero) : i < j => InOrder(zero[i], zero[j])
  BY <1>2, SortedIs
<1>6. /\ one \in Seq(u) /\ Len(one) = Cardinality(u)
      /\ \A row \in u : \E i \in 1..Len(one) : one[i] = row
      /\ \A i, j \in 1..Len(one) : i < j => InOrder(one[i], one[j])
  BY <1>2, SortedIs
<1> HIDE DEF zero, one
<1>7. /\ Len(zero) \in Nat /\ Len(one) \in Nat
      /\ \A i \in 1..Len(zero) : zero[i] \in t /\ zero[i].blockNumber \in state[v].tables[0]
                                 /\ zero[i].blockNumber \in Nat
      /\ \A i \in 1..Len(one) : one[i] \in u /\ one[i].blockNumber \in state[v].tables[1]
                                /\ one[i].blockNumber \in Nat
  <2>1. Len(zero) \in Nat /\ \A i \in 1..Len(zero) : zero[i] \in t
    BY <1>5
  <2>2. Len(one) \in Nat /\ \A i \in 1..Len(one) : one[i] \in u
    BY <1>6
  <2>3. \A row \in t : row.blockNumber \in state[v].tables[0] /\ row.blockNumber \in Nat
    BY <1>2 DEF Sortable
  <2>4. \A row \in u : row.blockNumber \in state[v].tables[1] /\ row.blockNumber \in Nat
    BY <1>2 DEF Sortable
  <2> QED BY <2>1, <2>2, <2>3, <2>4
<1>8. \/ \A m \in state[v].tables[0], n \in state[v].tables[1] : m < n
      \/ \A m \in state[v].tables[1], n \in state[v].tables[0] : m < n
  <2>1. CASE state[v].active = 0
    <3>1. 1 - 0 = 1
      OBVIOUS
    <3> QED BY <2>1, <3>1 DEF TablesInOrder
  <2>2. CASE state[v].active = 1
    <3>1. 1 - 1 = 0
      OBVIOUS
    <3> QED BY <2>2, <3>1 DEF TablesInOrder
  <2> QED BY <1>3, <2>1, <2>2
<1>9. t \cap u = {}
  <2>1. ASSUME NEW row \in t, row \in u PROVE FALSE
    <3>1. /\ row.blockNumber \in state[v].tables[0] /\ row.blockNumber \in state[v].tables[1]
          /\ row.blockNumber \in Nat
      BY <1>2, <2>1 DEF Sortable
    <3>2. row.blockNumber < row.blockNumber
      BY <1>8, <3>1
    <3> QED BY <3>1, <3>2
  <2> QED BY <2>1
<1>10. swap <=> /\ Len(zero) > 0 /\ Len(one) > 0
                /\ zero[1].blockNumber > one[1].blockNumber
  <2>1. zero # <<>> <=> Len(zero) > 0
    BY <1>5
  <2>2. one # <<>> <=> Len(one) > 0
    BY <1>6
  <2>3. Head(zero) = zero[1] /\ Head(one) = one[1]
    OBVIOUS
  <2> QED BY <2>1, <2>2, <2>3
<1>11. Follows(a, b)
  <2>1. CASE Len(zero) = 0 \/ Len(one) = 0
    BY <1>7, <1>10, <2>1 DEF Follows
  <2>2. CASE Len(zero) > 0 /\ Len(one) > 0
    <3>1. 1 \in 1..Len(zero) /\ 1 \in 1..Len(one)
      BY <1>7, <2>2
    <3>2. /\ zero[1].blockNumber \in state[v].tables[0] /\ zero[1].blockNumber \in Nat
          /\ one[1].blockNumber \in state[v].tables[1] /\ one[1].blockNumber \in Nat
      BY <1>7, <3>1
    <3>3. CASE \A m \in state[v].tables[0], n \in state[v].tables[1] : m < n
      <4>1. zero[1].blockNumber < one[1].blockNumber
        BY <3>2, <3>3
      <4>2. ~swap
        BY <1>10, <3>2, <4>1
      <4>3. a = zero /\ b = one
        BY <4>2
      <4>4. Follows(zero, one)
        BY <1>7, <3>3 DEF Follows
      <4> HIDE DEF a, b
      <4> QED BY <4>3, <4>4
    <3>4. CASE \A m \in state[v].tables[1], n \in state[v].tables[0] : m < n
      <4>1. one[1].blockNumber < zero[1].blockNumber
        BY <3>2, <3>4
      <4>2. swap
        BY <1>10, <2>2, <3>2, <4>1
      <4>3. a = one /\ b = zero
        BY <4>2
      <4>4. Follows(one, zero)
        BY <1>7, <3>4 DEF Follows
      <4> HIDE DEF a, b
      <4> QED BY <4>3, <4>4
    <3> QED BY <1>8, <3>3, <3>4
  <2> QED BY <1>7, <2>1, <2>2
<1>12. /\ a \in Seq(t \cup u) /\ b \in Seq(t \cup u)
       /\ \A i, j \in 1..Len(a) : i < j => InOrder(a[i], a[j])
       /\ \A i, j \in 1..Len(b) : i < j => InOrder(b[i], b[j])
       /\ \A row \in t \cup u : row.blockNumber \in Nat
  <2>1. zero \in Seq(t \cup u) /\ one \in Seq(t \cup u)
    <3>1. zero = [i \in 1..Len(zero) |-> zero[i]] /\ one = [i \in 1..Len(one) |-> one[i]]
      BY <1>5, <1>6
    <3>2. zero \in Seq(t \cup u)
      BY <1>7, <3>1
    <3>3. one \in Seq(t \cup u)
      BY <1>7, <3>1
    <3> QED BY <3>2, <3>3
  <2>2. \A row \in t \cup u : row.blockNumber \in Nat
    BY <1>2 DEF Sortable
  <2>3. CASE swap
    BY <1>5, <1>6, <2>1, <2>2, <2>3
  <2>4. CASE ~swap
    BY <1>5, <1>6, <2>1, <2>2, <2>4
  <2> QED BY <2>3, <2>4
<1>13. ToSet(a \o b) = t \cup u /\ Len(a \o b) = Cardinality(t \cup u)
  <2> Lists(t, zero) /\ Lists(u, one)
    BY <1>2, <1>5, <1>6 DEF Lists, Sortable
  <2>1. CASE swap
    <3>1. a = one /\ b = zero
      BY <2>1
    <3>2. u \cap t = {}
      BY <1>9
    <3>3. ToSet(one \o zero) = u \cup t /\ Len(one \o zero) = Cardinality(u \cup t)
      BY <3>2, AllJoined, Zenon
    <3>4. u \cup t = t \cup u
      OBVIOUS
    <3> HIDE DEF a, b
    <3> QED BY <3>1, <3>3, <3>4
  <2>2. CASE ~swap
    <3>1. a = zero /\ b = one
      BY <2>2
    <3>2. ToSet(zero \o one) = t \cup u /\ Len(zero \o one) = Cardinality(t \cup u)
      BY <1>9, AllJoined
    <3> HIDE DEF a, b
    <3> QED BY <3>1, <3>2
  <2> QED BY <2>1, <2>2
<1> HIDE DEF a, b, swap
<1>14. \A i \in 1..(Len(a \o b) - 1) : (a \o b)[i].blockNumber <= (a \o b)[i + 1].blockNumber
  BY <1>11, <1>12, InOrderJoined
<1>15. Pages(db, limit) = a \o b
  <2>1. limit \in Nat \ {0}
    OBVIOUS
  <2> QED BY <1>4, <1>12, <2>1, PagesAre
<1> QED BY <1>13, <1>14, <1>15 DEF db, t, u

\* A client that asks for page after page gets every stored transaction once, by
\* block number, for any chain and however the tables have taken turns.
THEOREM PagesComplete == Spec => []PagesAreComplete
PROOF BY Invariant, TablesTakeTurns, InvPagesAreComplete, PTL

=============================================================================
