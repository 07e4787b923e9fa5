---------------------------- MODULE LiftedProofs ----------------------------
(***************************************************************************)
(* Proofs about Lifted and Products, for words of every width: registers   *)
(* hold words and the flags that a CMP leaves make the table CC of lift.py *)
(* compare its operands.  The inductive invariant adds to the type what    *)
(* ties the flags to the operands of the last comparison; multiplications  *)
(* and divisions keep it too.  Then, that what is emitted computes what    *)
(* the ARM does, for the instructions outside the known disagreements.     *)
(***************************************************************************)
EXTENDS Products, TLAPS

FlagsAreCompared ==
  compared # NoCompare => flags = SubFlags(compared[1], compared[2])

IInv == TypeOK /\ FlagsAreCompared

-----------------------------------------------------------------------------
\* Every remainder of a division by Word is a word.
LEMMA ModIsWord ==
  ASSUME NEW n \in Int
  PROVE  n % Word \in Words
  <1>1. Word \in Nat /\ Word > 0
    BY WordAssumption DEF Word
  <1> QED
    BY <1>1 DEF Words

\* The quotient of a natural number is not above it.
LEMMA QuotientIsSmaller ==
  ASSUME NEW a \in Nat, NEW p \in Nat \ {0}
  PROVE  a \div p \in Nat /\ a \div p <= a
  <1> DEFINE q == a \div p
             r == a % p
  <1>1. q \in Int /\ r \in 0..(p - 1) /\ a = p * q + r
    OBVIOUS
  <1>2. q >= 0
    <2>1. CASE q < 0
      <3> HIDE DEF q, r
      <3>1. p * q <= -p
        BY <1>1, <2>1
      <3> QED
        BY <1>1, <3>1
    <2> QED
      BY <1>1, <2>1
  <1>3. q <= p * q
    <2> HIDE DEF q, r
    <2> QED
      BY <1>1, <1>2
  <1> QED
    BY <1>1, <1>2, <1>3

\* Shifting a word gives a word.
LEMMA ShiftedIsWord ==
  ASSUME NEW a \in Words, NEW k \in 1..(W - 1), NEW shift \in Shifts
  PROVE  Shifted(shift, a, k) \in Words
  <1>1. /\ W \in Nat /\ k \in Nat /\ k \in 0..W /\ W - k \in 0..W
        /\ 2^k \in Nat \ {0} /\ 2^(W - k) \in Nat \ {0}
    BY WordAssumption
  <1>2. a \in Nat /\ Word \in Nat /\ a < Word
    BY WordAssumption DEF Word, Words
  <1>3. Lsl(a, k) \in Words /\ Lsl(a, W - k) \in Words
    <2>1. a * 2^k \in Int /\ a * 2^(W - k) \in Int
      BY <1>1, <1>2
    <2> QED
      BY <2>1, ModIsWord DEF Lsl
  <1>4. Lsr(a, k) \in Words
    <2>1. a \div 2^k \in Nat /\ a \div 2^k <= a
      BY <1>1, <1>2, QuotientIsSmaller
    <2> QED
      BY <1>2, <2>1 DEF Lsr, Words
  <1>5. Asr(a, k) \in Words
    <2>1. Signed(a) \in Int
      BY <1>2 DEF Signed
    <2>2. Signed(a) \div 2^k \in Int
      BY <1>1, <2>1
    <2> QED
      BY <2>2, ModIsWord DEF Asr
  <1>6. Ror(a, k) \in Words
    <2>1. Lsr(a, k) + Lsl(a, W - k) \in Int
      BY <1>2, <1>3, <1>4 DEF Words
    <2> QED
      BY <2>1, ModIsWord DEF Ror
  <1> QED
    BY <1>3, <1>4, <1>5, <1>6 DEF Shifted, Shifts

\* So does a shift by the amount in a register.
LEMMA ByAmountIsWord ==
  ASSUME NEW a \in Words, NEW b \in Words, NEW shift \in Shifts
  PROVE  ByAmount(shift, a, Amount(b)) \in Words
  <1> DEFINE k == Amount(b)
  <1>1. k \in Nat /\ W \in Nat \ {0} /\ Word \in Nat \ {0}
    BY WordAssumption DEF Amount, Words, Word
  <1>2. 0 \in Words
    BY <1>1 DEF Words
  <1>3. k % W \in 0..(W - 1)
    BY <1>1
  <1> HIDE DEF k
  <1>4. CASE shift \in {"lsl", "lsr"} /\ k >= W
    BY <1>4, <1>2 DEF ByAmount, k
  <1>5. CASE shift = "asr" /\ k >= W
    <2>1. Asr(a, W - 1) \in Words
      <3>1. W - 1 \in 0..W /\ 2^(W - 1) \in Nat \ {0}
        BY <1>1, WordAssumption
      <3>2. Signed(a) \in Int
        BY <1>1 DEF Signed, Words
      <3>3. Signed(a) \div 2^(W - 1) \in Int
        BY <3>1, <3>2
      <3> QED
        BY <3>3, ModIsWord DEF Asr
    <2> QED
      BY <1>5, <2>1 DEF ByAmount, k
  <1>6. CASE shift = "ror" /\ k % W = 0
    BY <1>6 DEF ByAmount, k
  <1>7. CASE shift = "ror" /\ k % W # 0
    <2>1. k % W \in 1..(W - 1)
      BY <1>1, <1>3, <1>7
    <2>2. Shifted("ror", a, k % W) \in Words
      BY <2>1, ShiftedIsWord DEF Shifts
    <2> QED
      BY <1>7, <2>2 DEF ByAmount, Shifted, k
  <1>8. CASE shift # "ror" /\ k < W
    <2>1. k = 0 \/ k \in 1..(W - 1)
      BY <1>1, <1>8
    <2>2. k # 0 => Shifted(shift, a, k) \in Words
      BY <2>1, ShiftedIsWord
    <2>3. ByAmount(shift, a, k) = IF k = 0 THEN a ELSE Shifted(shift, a, k)
      BY <1>1, <1>8 DEF ByAmount
    <2> QED
      BY <2>2, <2>3 DEF k
  <1> QED
    BY <1>1, <1>4, <1>5, <1>6, <1>7, <1>8 DEF Shifts

\* The second operand of an instruction is a word, whatever the compiler
\* makes of an undefined shift.
LEMMA ValuesAreWords ==
  ASSUME TypeOK, NEW src \in Immediate \cup ByConstant \cup ByRegister
  PROVE  Values(src) \subseteq Words
  <1>1. CASE src \in Immediate
    BY <1>1 DEF Immediate, Values
  <1>2. CASE src \in ByConstant
    <2>1. /\ src.kind = "const" /\ reg[src.m] \in Words
          /\ src.shift \in Shifts /\ src.k \in 0..W /\ W \in Nat
      BY <1>2, WordAssumption DEF ByConstant, TypeOK
    <2>2. CASE src.k = 0
      BY <2>1, <2>2 DEF Values
    <2>3. CASE src.k = W /\ src.k # 0
      BY <2>1, <2>3 DEF Values
    <2>4. CASE src.k \in 1..(W - 1)
      <3>1. Shifted(src.shift, reg[src.m], src.k) \in Words
        BY <2>1, <2>4, ShiftedIsWord
      <3> QED
        BY <2>1, <2>4, <3>1 DEF Values
    <2> QED
      BY <2>1, <2>2, <2>3, <2>4
  <1>3. CASE src \in ByRegister
    <2>1. /\ src.kind = "reg" /\ reg[src.m] \in Words /\ reg[src.rs] \in Words
          /\ src.shift \in Shifts
      BY <1>3 DEF ByRegister, TypeOK
    <2>2. ByAmount(src.shift, reg[src.m], Amount(reg[src.rs])) \in Words
      BY <2>1, ByAmountIsWord
    <2> QED
      BY <2>1, <2>2 DEF Values
  <1> QED
    BY <1>1, <1>2, <1>3

\* The sum and the difference of two words, brought back to a word.
LEMMA WrapIsWord ==
  ASSUME NEW a \in Words, NEW b \in Words
  PROVE  Wrap(a + b) \in Words /\ Wrap(a - b) \in Words
  BY WordAssumption DEF Wrap, Words, Word

\* Logical operations stay in the word.
LEMMA LogicResultIsWord ==
  ASSUME NEW a \in Words, NEW b \in Words, NEW op \in LogicOps \cup TestOps
  PROVE  LogicResult(op, a, b) \in Words
  <1>1. Complement(b) \in Words
    BY WordAssumption DEF Complement, Words, Word
  <1>2. \A x \in Words : /\ Logic("and", a, x) \in Words
                         /\ Logic("orr", a, x) \in Words
                         /\ Logic("eor", a, x) \in Words
    BY WordAssumption
  <1> QED
    BY <1>1, <1>2 DEF LogicResult, LogicOps, TestOps

\* So does what an instruction computes.
LEMMA ResultIsWord ==
  ASSUME NEW a \in Words, NEW b \in Words, NEW op \in ArithOps \cup LogicOps
  PROVE  Result(op, a, b) \in Words
  BY WrapIsWord, LogicResultIsWord DEF Result, ArithOps, LogicOps

\* The flag helpers give four flags.
LEMMA NewFlagsAreFlags ==
  ASSUME NEW a \in Words, NEW b \in Words, flags \in Flags,
         NEW op \in ArithOps \cup CompareOps \cup TestOps \cup LogicOps
  PROVE  NewFlags(op, a, b) \in Flags
  <1>1. \A x, y \in Words : AddFlags(x, y) \in Flags /\ SubFlags(x, y) \in Flags
    <2>1. ASSUME NEW n, NEW z, NEW c, NEW v,
                 n \in BOOLEAN, z \in BOOLEAN, c \in BOOLEAN, v \in BOOLEAN
          PROVE  [n |-> n, z |-> z, c |-> c, v |-> v] \in Flags
      BY <2>1 DEF Flags
    <2>2. TAKE x, y \in Words
    <2> DEFINE r == Wrap(x + y)
               q == Wrap(x - y)
    <2>3. /\ Negative(r) \in BOOLEAN /\ (r = 0) \in BOOLEAN
          /\ (x + y >= Word) \in BOOLEAN
          /\ (Negative(x) = Negative(y) /\ Negative(x) # Negative(r)) \in BOOLEAN
      BY DEF Negative
    <2>4. /\ Negative(q) \in BOOLEAN /\ (q = 0) \in BOOLEAN
          /\ (x >= y) \in BOOLEAN
          /\ (Negative(x) # Negative(y) /\ Negative(x) # Negative(q)) \in BOOLEAN
      BY DEF Negative
    <2> QED
      BY <2>1, <2>3, <2>4, Zenon DEF AddFlags, SubFlags
  <1>2. \A r \in Words : SetNZ(r) \in Flags
    <2>1. TAKE r \in Words
    <2>2. Negative(r) \in BOOLEAN /\ (r = 0) \in BOOLEAN
      BY DEF Negative
    <2> QED
      BY <2>2 DEF SetNZ, Flags
  <1>3. CASE op \in ArithOps \cup CompareOps
    BY <1>1, <1>3 DEF NewFlags, ArithOps, CompareOps, TestOps, LogicOps
  <1>4. CASE op \in TestOps \cup LogicOps
    <2>1. NewFlags(op, a, b) = SetNZ(LogicResult(op, a, b))
      BY <1>4 DEF NewFlags, TestOps, LogicOps
    <2> QED
      BY <1>2, <1>4, <2>1, LogicResultIsWord
  <1> QED
    BY <1>3, <1>4

-----------------------------------------------------------------------------
\* Before the first comparison there is nothing to compare.
LEMMA InitIInv == Init => IInv
  BY DEF Init, IInv, TypeOK, FlagsAreCompared

\* Every instruction keeps the invariant.
LEMMA NextIInv ==
  ASSUME IInv, [Next]_vars
  PROVE  IInv'
  <1>1. CASE UNCHANGED vars
    BY <1>1 DEF vars, IInv, TypeOK, FlagsAreCompared, SubFlags
  <1>2. ASSUME NEW i \in Program, Body(i) PROVE IInv'
    <2> DEFINE a == reg[i.n]
               compares == i.op \in CompareOps \cup TestOps
    <2>1. /\ i.op \in ArithOps \cup CompareOps \cup TestOps \cup LogicOps
          /\ i.d \in Registers /\ i.n \in Registers
          /\ i.src \in Immediate \cup ByConstant \cup ByRegister
      BY <1>2, ProgramAssumption DEF Instruction
    <2>2. PICK b \in Values(i.src) :
            /\ reg' = IF compares THEN reg ELSE [reg EXCEPT ![i.d] = Result(i.op, a, b)]
            /\ flags' = IF i.s \/ compares THEN NewFlags(i.op, a, b) ELSE flags
            /\ compared' = IF i.op = "cmp" THEN <<a, b>>
                           ELSE IF i.s \/ compares THEN NoCompare ELSE compared
      BY <1>2 DEF Body, Assigned, Flagged, Compares
    <2>3. a \in Words /\ b \in Words
      BY <2>1, <2>2, ValuesAreWords DEF IInv, TypeOK
    <2> HIDE DEF a
    <2>4. reg' \in [Registers -> Words]
      <3>1. CASE compares
        BY <2>2, <3>1 DEF IInv, TypeOK
      <3>2. CASE ~compares
        <4>1. Result(i.op, a, b) \in Words
          BY <2>1, <2>3, <3>2, ResultIsWord
        <4> QED
          BY <2>1, <2>2, <3>2, <4>1 DEF IInv, TypeOK
      <3> QED
        BY <3>1, <3>2
    <2>5. flags' \in Flags
      <3>1. NewFlags(i.op, a, b) \in Flags
        BY <2>1, <2>3, NewFlagsAreFlags DEF IInv, TypeOK
      <3> QED
        BY <2>2, <3>1 DEF IInv, TypeOK
    <2>6. compared' \in (Words \X Words) \cup {NoCompare}
      BY <2>2, <2>3 DEF IInv, TypeOK
    <2>7. FlagsAreCompared'
      <3>1. CASE i.op = "cmp"
        <4>1. compared' = <<a, b>> /\ flags' = NewFlags("cmp", a, b)
          BY <2>2, <3>1 DEF CompareOps
        <4>2. NewFlags("cmp", a, b) = SubFlags(a, b)
          BY DEF NewFlags, TestOps, LogicOps
        <4>3. FlagsAreCompared' <=> (compared' # NoCompare =>
                 flags' = SubFlags(compared'[1], compared'[2]))
          BY DEF FlagsAreCompared, SubFlags
        <4> QED
          BY <4>1, <4>2, <4>3
      <3>2. CASE i.op # "cmp" /\ (i.s \/ compares)
        BY <2>2, <3>2 DEF FlagsAreCompared
      <3>3. CASE i.op # "cmp" /\ ~(i.s \/ compares)
        BY <2>2, <3>3 DEF IInv, FlagsAreCompared, SubFlags
      <3> QED
        BY <3>1, <3>2, <3>3
    <2> QED
      BY <2>4, <2>5, <2>6, <2>7 DEF IInv, TypeOK
  <1> QED
    BY <1>1, <1>2 DEF Next, Emit

\* The invariant holds in every state of an execution.
THEOREM Inductive == Spec => []IInv
  <1> QED
    BY InitIInv, NextIInv, PTL DEF Spec

\* Registers hold words and the flags are flags, whatever the program
\* (ngage_runtime.h:87-113).
THEOREM TypeCorrect == Spec => []TypeOK
  <1>1. IInv => TypeOK
    BY DEF IInv
  <1> QED
    BY <1>1, Inductive, PTL

-----------------------------------------------------------------------------
\* The signed order of two words, from the flags of their difference.
LEMMA SignedOrder ==
  ASSUME NEW a \in Words, NEW b \in Words
  PROVE  LET f == SubFlags(a, b) IN (f.n = f.v) <=> Signed(a) >= Signed(b)
  <1>1. /\ Half \in Nat \ {0} /\ a \in Nat /\ b \in Nat
        /\ a < 2 * Half /\ b < 2 * Half
    BY WordAssumption DEF Words, Word
  <1> DEFINE r == Wrap(a - b)
  <1>2. r = IF a < b THEN a - b + 2 * Half ELSE a - b
    BY <1>1 DEF Wrap, Word
  <1>3. CASE Negative(a) /\ Negative(b)
    BY <1>1, <1>2, <1>3 DEF SubFlags, Signed, Negative, Word
  <1>4. CASE Negative(a) /\ ~Negative(b)
    BY <1>1, <1>2, <1>4 DEF SubFlags, Signed, Negative, Word
  <1>5. CASE ~Negative(a) /\ Negative(b)
    BY <1>1, <1>2, <1>5 DEF SubFlags, Signed, Negative, Word
  <1>6. CASE ~Negative(a) /\ ~Negative(b)
    BY <1>1, <1>2, <1>6 DEF SubFlags, Signed, Negative, Word
  <1> QED
    BY <1>3, <1>4, <1>5, <1>6

\* Equality and the unsigned order, from the same flags.
LEMMA UnsignedOrder ==
  ASSUME NEW a \in Words, NEW b \in Words
  PROVE  /\ SubFlags(a, b).z <=> a = b
         /\ SubFlags(a, b).c <=> a >= b
  <1>1. /\ Half \in Nat \ {0} /\ a \in Nat /\ b \in Nat
        /\ a < 2 * Half /\ b < 2 * Half
    BY WordAssumption DEF Words, Word
  <1>2. Wrap(a - b) = 0 <=> a = b
    BY <1>1 DEF Wrap, Word
  <1> QED
    BY <1>2 DEF SubFlags

\* Two words are the same exactly when their signed readings are.
LEMMA SignedFacts ==
  ASSUME NEW a \in Words, NEW b \in Words
  PROVE  /\ a \in Nat /\ b \in Nat
         /\ Signed(a) \in Int /\ Signed(b) \in Int
         /\ a = b <=> Signed(a) = Signed(b)
  <1>1. /\ Half \in Nat \ {0} /\ a \in Nat /\ b \in Nat
        /\ a < 2 * Half /\ b < 2 * Half
    BY WordAssumption DEF Words, Word
  <1> QED
    BY <1>1 DEF Signed, Negative, Word

\* What the invariant says of the flags is enough for the ten conditions.
LEMMA InvariantCompares ==
  ASSUME IInv
  PROVE  ConditionsCompare
  <1>1. SUFFICES ASSUME compared # NoCompare
                 PROVE  ConditionsCompare
    BY DEF ConditionsCompare
  <1> DEFINE a == compared[1]
             b == compared[2]
  <1>2. a \in Words /\ b \in Words /\ flags = SubFlags(a, b)
    BY <1>1 DEF IInv, TypeOK, FlagsAreCompared
  <1>3. Signed(a) \in Int /\ Signed(b) \in Int /\ a \in Nat /\ b \in Nat
    BY <1>2, SignedFacts
  <1>4. /\ flags.n \in BOOLEAN /\ flags.z \in BOOLEAN
        /\ flags.c \in BOOLEAN /\ flags.v \in BOOLEAN
    BY <1>1 DEF IInv, TypeOK, Flags
  <1>5. /\ flags.z <=> a = b
        /\ flags.c <=> a >= b
        /\ (flags.n = flags.v) <=> Signed(a) >= Signed(b)
    BY <1>2, SignedOrder, UnsignedOrder
  <1>6. a = b <=> Signed(a) = Signed(b)
    BY <1>2, SignedFacts
  <1> HIDE DEF a, b
  <1>7. /\ Holds("eq") <=> a = b
        /\ Holds("ne") <=> a # b
    BY <1>4, <1>5 DEF Holds
  <1>8. /\ Holds("hs") <=> a >= b
        /\ Holds("lo") <=> a < b
        /\ Holds("hi") <=> a > b
        /\ Holds("ls") <=> a <= b
    BY <1>3, <1>4, <1>5 DEF Holds
  <1>9. /\ Holds("ge") <=> flags.n = flags.v
        /\ Holds("lt") <=> flags.n # flags.v
        /\ Holds("gt") <=> ~flags.z /\ flags.n = flags.v
        /\ Holds("le") <=> flags.z \/ flags.n # flags.v
    BY DEF Holds
  <1>10. /\ Holds("ge") <=> Signed(a) >= Signed(b)
         /\ Holds("lt") <=> Signed(a) < Signed(b)
    BY <1>3, <1>4, <1>5, <1>9
  <1>11. /\ Holds("gt") <=> Signed(a) > Signed(b)
         /\ Holds("le") <=> Signed(a) <= Signed(b)
    BY <1>3, <1>4, <1>5, <1>6, <1>9
  <1> QED
    BY <1>7, <1>8, <1>10, <1>11 DEF ConditionsCompare, a, b

\* After a CMP, and until the flags are set again, the ten ordering conditions
\* of the table CC hold exactly when the operands compare that way, signed and
\* unsigned, for words of every width (lift.py:33-48).
THEOREM ConditionsAreRight == Spec => []ConditionsCompare
  <1>1. IInv => ConditionsCompare
    BY InvariantCompares
  <1> QED
    BY <1>1, Inductive, PTL

-----------------------------------------------------------------------------
\* The registers after a multiplication hold words.
LEMMA MultipliedWords ==
  ASSUME TypeOK, NEW i \in Products
  PROVE  Multiplied(i) \in [Registers -> Words]
  <1>1. CASE i \in Multiply
    <2>1. /\ i.op \in {"mul", "mla"} /\ reg[i.n] \in Int /\ reg[i.m] \in Int
          /\ reg[i.a] \in Int /\ i.d \in Registers
      BY <1>1, WordAssumption DEF Multiply, TypeOK, Words, Word
    <2> DEFINE sum == reg[i.n] * reg[i.m] + (IF i.op = "mla" THEN reg[i.a] ELSE 0)
    <2>2. sum \in Int
      BY <2>1
    <2> HIDE DEF sum
    <2>3. sum % Word \in Words
      BY <2>2, ModIsWord
    <2>4. Multiplied(i) = [reg EXCEPT ![i.d] = sum % Word]
      BY <2>1 DEF Multiplied, sum
    <2> QED
      BY <2>1, <2>3, <2>4 DEF TypeOK
  <1>2. CASE i \in Long
    <2>1. /\ i.op \in {"umull", "smull", "umlal", "smlal"}
          /\ i.n \in Registers /\ i.m \in Registers
          /\ i.d \in Registers /\ i.h \in Registers
      BY <1>2 DEF Long
    <2>2. /\ Word \in Nat \ {0} /\ \A r \in Registers : reg[r] \in Words
          /\ \A r \in Registers : reg[r] \in Int
      BY WordAssumption DEF TypeOK, Words, Word
    <2>3. Long64 \in Nat \ {0}
      BY <2>2 DEF Long64
    <2> DEFINE product == Product(i.op, reg[i.n], reg[i.m])
    <2>4. product \in Int
      <3>1. /\ Signed(reg[i.n]) \in Int /\ Signed(reg[i.m]) \in Int
            /\ reg[i.n] \in Int /\ reg[i.m] \in Int
        BY <2>1, <2>2, SignedFacts
      <3>2. \A x, y \in Int : (x * y) % Long64 \in Int
        BY <2>3
      <3> QED
        BY <3>1, <3>2 DEF Product
    <2>5. Sum(i) \in Int
      <3> HIDE DEF product
      <3>1. reg[i.d] + reg[i.h] * Word + product \in Int
        BY <2>1, <2>2, <2>4
      <3>2. (reg[i.d] + reg[i.h] * Word + product) % Long64 \in Int
        BY <2>3, <3>1
      <3> QED
        BY <2>4, <3>2 DEF Sum, product
    <2> HIDE DEF product
    <2>6. Sum(i) \div Word \in Int
      BY <2>2, <2>5
    <2>7. Sum(i) % Word \in Words /\ (Sum(i) \div Word) % Word \in Words
      BY <2>5, <2>6, ModIsWord
    <2>8. Multiplied(i) = [reg EXCEPT ![i.d] = Sum(i) % Word,
                                      ![i.h] = (Sum(i) \div Word) % Word]
      BY <2>1 DEF Multiplied
    <2> QED
      BY <2>1, <2>7, <2>8 DEF TypeOK
  <1> QED
    BY <1>1, <1>2, ProductsAssumption

\* A quotient of C is a number.
LEMMA TruncatedIsInt ==
  ASSUME NEW a \in Int, NEW b \in Int, b # 0
  PROVE  Truncated(a, b) \in Int
  <1> DEFINE x == IF a < 0 THEN -a ELSE a
             y == IF b < 0 THEN -b ELSE b
  <1>1. x \in Nat /\ y \in Nat \ {0}
    OBVIOUS
  <1> HIDE DEF x, y
  <1>2. x \div y \in Int
    BY <1>1
  <1> QED
    BY <1>2 DEF Truncated, x, y

\* The divisions return words, also the one that C leaves undefined.
LEMMA ReturnsAreWords ==
  ASSUME NEW f \in Divisions, NEW a \in Words, NEW b \in Words
  PROVE  Returns(f, a, b) \subseteq Words
  <1>1. 0 \in Words /\ a \in Nat /\ b \in Nat /\ a < Word
    BY WordAssumption DEF Words, Word
  <1>2. /\ Signed(a) \in Int /\ Signed(b) \in Int
        /\ b # 0 => Signed(b) # 0
    <2>1. Signed(0) = 0
      BY WordAssumption DEF Signed, Negative
    <2> QED
      BY <1>1, <2>1, SignedFacts
  <1>3. ASSUME b # 0 PROVE a \div b \in Words
    <2> DEFINE q == a \div b
    <2>1. q \in Nat /\ q <= a
      BY <1>1, <1>3, QuotientIsSmaller
    <2> HIDE DEF q
    <2>2. q \in Words
      BY <1>1, <2>1, WordAssumption DEF Words, Word
    <2> QED
      BY <2>2 DEF q
  <1>4. ASSUME b # 0
        PROVE  /\ Truncated(Signed(a), Signed(b)) % Word \in Words
               /\ (Signed(a) - Signed(b) * Truncated(Signed(a), Signed(b))) % Word \in Words
    <2>1. Truncated(Signed(a), Signed(b)) \in Int
      BY <1>2, <1>4, TruncatedIsInt
    <2>2. Signed(a) - Signed(b) * Truncated(Signed(a), Signed(b)) \in Int
      BY <1>2, <2>1
    <2> QED
      BY <2>1, <2>2, ModIsWord
  <1> QED
    BY <1>1, <1>3, <1>4 DEF Returns, Divisions

\* A multiplication keeps the invariant.
LEMMA ProductKeepsIInv ==
  ASSUME IInv, NEW i \in Products, EmitProduct(i)
  PROVE  IInv'
  <1>1. CASE ~Holds(i.cc)
    BY <1>1 DEF EmitProduct, vars, IInv, TypeOK, FlagsAreCompared, SubFlags
  <1>2. CASE Holds(i.cc)
    <2>1. reg' \in [Registers -> Words]
      BY <1>2, MultipliedWords DEF EmitProduct, IInv
    <2>2. CASE ~SetsFlags(i)
      <3>1. flags' = flags /\ compared' = compared
        BY <1>2, <2>2 DEF EmitProduct, FlagsBehind
      <3> QED
        BY <2>1, <3>1 DEF IInv, TypeOK, FlagsAreCompared, SubFlags
    <2>3. CASE SetsFlags(i)
      <3> DEFINE r == Multiplied(i)[i.d]
      <3>1. flags' = SetNZ(r) /\ compared' = NoCompare
        BY <1>2, <2>3 DEF EmitProduct, FlagsBehind
      <3>2. SetNZ(r) \in Flags
        <4> HIDE DEF r
        <4>1. Negative(r) \in BOOLEAN /\ (r = 0) \in BOOLEAN
          BY DEF Negative
        <4>2. flags \in Flags
          BY DEF IInv, TypeOK
        <4> QED
          BY <4>1, <4>2 DEF SetNZ, Flags
      <3> QED
        BY <2>1, <3>1, <3>2 DEF IInv, TypeOK, FlagsAreCompared
    <2> QED
      BY <2>2, <2>3
  <1> QED
    BY <1>1, <1>2

\* A division keeps the invariant.
LEMMA DivideKeepsIInv ==
  ASSUME IInv, NEW f \in Divisions, Divide(f)
  PROVE  IInv'
  <1>1. reg[0] \in Words /\ reg[1] \in Words
    BY ProductsAssumption DEF IInv, TypeOK
  <1>2. PICK r \in Returns(f, reg[0], reg[1]) : reg' = [reg EXCEPT ![0] = r]
    BY DEF Divide
  <1>3. r \in Words
    BY <1>1, <1>2, ReturnsAreWords
  <1>4. reg' \in [Registers -> Words]
    BY <1>2, <1>3 DEF IInv, TypeOK
  <1>5. flags' = flags /\ compared' = compared
    BY DEF Divide
  <1> QED
    BY <1>4, <1>5 DEF IInv, TypeOK, FlagsAreCompared, SubFlags

\* Multiplications and divisions keep it as well.
LEMMA ProductsInductive == PSpec => []IInv
  <1>1. ASSUME IInv, [PNext]_vars PROVE IInv'
    <2>1. CASE [Next]_vars
      BY <1>1, <2>1, NextIInv
    <2>2. CASE \E i \in Products : EmitProduct(i)
      BY <1>1, <2>2, ProductKeepsIInv
    <2>3. CASE \E f \in Divisions : Divide(f)
      BY <1>1, <2>3, DivideKeepsIInv
    <2> QED
      BY <1>1, <2>1, <2>2, <2>3 DEF PNext
  <1> QED
    BY <1>1, InitIInv, PTL DEF PSpec

\* Registers hold words and the flags are flags in programs that multiply and
\* divide, the undefined quotient included (lift.py:219-247, softfloat.c:43-46).
THEOREM ProductTypes == PSpec => []TypeOK
  <1>1. IInv => TypeOK
    BY DEF IInv
  <1> QED
    BY <1>1, ProductsInductive, PTL

\* Conditions after a CMP compare its operands, for words of every width, with
\* multiplications and divisions in between: the long products and the shims
\* leave the flags alone, and MULS ends the comparison (lift.py:33-48).
THEOREM ConditionsOutliveProducts == PSpec => []ConditionsCompare
  <1>1. IInv => ConditionsCompare
    BY InvariantCompares
  <1> QED
    BY <1>1, ProductsInductive, PTL

-----------------------------------------------------------------------------
\* A multiple of p leaves no remainder.
LEMMA MultipleOf ==
  ASSUME NEW k \in Int, NEW p \in Nat \ {0}
  PROVE  (k * p) % p = 0
  <1> DEFINE n == k * p
             q == n \div p
             r == n % p
  <1>1. n \in Int /\ q \in Int /\ r \in 0..(p - 1) /\ n = p * q + r
    BY DEF q, r
  <1>2. n = p * k
    OBVIOUS
  <1> HIDE DEF n, q, r
  <1> DEFINE d == k - q
  <1>3. d \in Int /\ r = p * d
    BY <1>1, <1>2
  <1> HIDE DEF d
  <1>4. CASE d >= 1
    <2>1. p * d >= p
      BY <1>3, <1>4
    <2> QED BY <2>1, <1>1, <1>3
  <1>5. CASE d <= -1
    <2>1. p * d <= -p
      BY <1>3, <1>5
    <2> QED BY <2>1, <1>1, <1>3
  <1>6. CASE d = 0
    <2>1. p * d = 0
      BY <1>6
    <2>2. r = 0
      BY <2>1, <1>3
    <2> QED BY <2>2 DEF r, n
  <1> QED BY <1>3, <1>4, <1>5, <1>6

\* Quotient and remainder are unique.
LEMMA DivisionIsUnique ==
  ASSUME NEW p \in Nat \ {0}, NEW q \in Int, NEW r \in 0..(p - 1)
  PROVE  (p * q + r) \div p = q /\ (p * q + r) % p = r
  <1> DEFINE n == p * q + r
             x == n \div p
             y == n % p
  <1>1. n \in Int /\ x \in Int /\ y \in 0..(p - 1) /\ n = p * x + y
    BY DEF x, y
  <1>2. n = p * q + r
    OBVIOUS
  <1> HIDE DEF n, x, y
  <1> DEFINE d == q - x
  <1>3. d \in Int /\ y - r = p * d
    BY <1>1, <1>2
  <1>4. q = x + d
    BY <1>1
  <1> HIDE DEF d
  <1>5. CASE d >= 1
    <2>1. p * d >= p
      BY <1>3, <1>5
    <2> QED BY <2>1, <1>1, <1>3
  <1>6. CASE d <= -1
    <2>1. p * d <= -p
      BY <1>3, <1>6
    <2> QED BY <2>1, <1>1, <1>3
  <1>7. CASE d = 0
    <2>1. p * d = 0
      BY <1>7
    <2>2. y = r /\ q = x
      BY <2>1, <1>1, <1>3, <1>4, <1>7
    <2> QED BY <2>2 DEF x, y, n
  <1> QED BY <1>3, <1>5, <1>6, <1>7

\* What is below p is its own remainder.
LEMMA OwnRemainder ==
  ASSUME NEW p \in Nat \ {0}, NEW r \in 0..(p - 1)
  PROVE  r % p = r
  <1>1. (p * 0 + r) % p = r
    BY DivisionIsUnique
  <1>2. p * 0 = 0 /\ 0 + r = r
    OBVIOUS
  <1>3. p * 0 + r = r
    BY <1>2
  <1> QED BY <1>1, <1>3

\* A remainder differs from its dividend by a multiple.
LEMMA ModDiffers ==
  ASSUME NEW n \in Int, NEW p \in Nat \ {0}
  PROVE  \E k \in Int : n % p = n + k * p
  <1> DEFINE q == n \div p
             r == n % p
  <1>1. q \in Int /\ r \in 0..(p - 1) /\ n = p * q + r
    BY DEF q, r
  <1> HIDE DEF q, r
  <1>2. -q \in Int /\ r = n + (-q) * p
    BY <1>1
  <1> QED BY <1>2 DEF r

\* A word, and its reading as a signed number, in integers.
LEMMA SignedBounds ==
  ASSUME NEW a \in Words
  PROVE  /\ Half \in Nat \ {0} /\ Word \in Nat \ {0} /\ Word = 2 * Half
         /\ a \in Nat /\ a < 2 * Half
         /\ Signed(a) \in Int /\ -Half <= Signed(a) /\ Signed(a) < Half
         /\ Signed(a) = IF a >= Half THEN a - 2 * Half ELSE a
  BY WordAssumption DEF Words, Word, Signed, Negative

\* The remainder of a number in the signed range is the word that reads as it.
LEMMA SignedOfRemainder ==
  ASSUME NEW t \in Int, -Half <= t, t < Half
  PROVE  t % Word \in Words /\ Signed(t % Word) = t
  <1>1. Half \in Nat \ {0} /\ Word \in Nat \ {0} /\ Word = 2 * Half
    BY WordAssumption DEF Word
  <1>2. CASE t >= 0
    <2>1. t \in 0..(Word - 1)
      BY <1>1, <1>2
    <2>2. t % Word = t
      BY <2>1, <1>1, OwnRemainder
    <2> QED BY <2>1, <2>2, <1>1, <1>2 DEF Words, Signed, Negative
  <1>3. CASE t < 0
    <2>1. t + Word \in 0..(Word - 1) /\ t = Word * (-1) + (t + Word) /\ -1 \in Int
      BY <1>1, <1>3
    <2>2. t % Word = t + Word
      BY <2>1, <1>1, DivisionIsUnique
    <2> QED BY <2>1, <2>2, <1>1, <1>3 DEF Words, Signed, Negative
  <1> QED BY <1>2, <1>3

-----------------------------------------------------------------------------
\* The sum of two words, with the ARM's carry 0.
LEMMA AddAgrees ==
  ASSUME NEW a \in Words, NEW b \in Words
  PROVE  /\ Wrap(a + b) = A!AddWithCarry(a, b, 0).r
         /\ AddFlags(a, b) = A!AddWithCarry(a, b, 0).f
  <1> DEFINE r == Wrap(a + b)
             q == A!Wrap(a + b + 0)
  <1>1. /\ Half \in Nat \ {0} /\ a \in Nat /\ b \in Nat
        /\ a < 2 * Half /\ b < 2 * Half
    BY WordAssumption DEF Words, Word
  <1>2. r = IF a + b >= 2 * Half THEN a + b - 2 * Half ELSE a + b
    BY <1>1 DEF Wrap, Word
  <1>3. q = r
    BY <1>1 DEF Wrap, Word, A!Wrap, A!Word
  <1>4. /\ Negative(r) <=> A!Negative(q)
        /\ a + b >= Word <=> a + b + 0 # q
    BY <1>1, <1>2, <1>3 DEF Negative, A!Negative, Word
  <1>5. (Negative(a) = Negative(b) /\ Negative(a) # Negative(r))
          <=> A!Signed(a) + A!Signed(b) + 0 # A!Signed(q)
    <2> HIDE DEF r, q
    <2>1. CASE a >= Half /\ b >= Half
      BY <1>1, <1>2, <1>3, <2>1 DEF Negative, A!Signed, A!Negative, A!Word
    <2>2. CASE a >= Half /\ ~(b >= Half)
      BY <1>1, <1>2, <1>3, <2>2 DEF Negative, A!Signed, A!Negative, A!Word
    <2>3. CASE ~(a >= Half) /\ b >= Half
      BY <1>1, <1>2, <1>3, <2>3 DEF Negative, A!Signed, A!Negative, A!Word
    <2>4. CASE ~(a >= Half) /\ ~(b >= Half)
      BY <1>1, <1>2, <1>3, <2>4 DEF Negative, A!Signed, A!Negative, A!Word
    <2> QED BY <2>1, <2>2, <2>3, <2>4
  <1>6. /\ Negative(r) = A!Negative(q) /\ (r = 0) = (q = 0)
        /\ (a + b >= Word) = (a + b + 0 # q)
        /\ (Negative(a) = Negative(b) /\ Negative(a) # Negative(r))
             = (A!Signed(a) + A!Signed(b) + 0 # A!Signed(q))
    BY <1>3, <1>4, <1>5 DEF Negative, A!Negative
  <1> QED BY <1>3, <1>6 DEF AddFlags, A!AddWithCarry

\* Their difference, as a sum with the complement and a carry.
LEMMA SubAgrees ==
  ASSUME NEW a \in Words, NEW b \in Words
  PROVE  /\ Wrap(a - b) = A!AddWithCarry(a, A!Complement(b), 1).r
         /\ SubFlags(a, b) = A!AddWithCarry(a, A!Complement(b), 1).f
  <1> DEFINE r == Wrap(a - b)
             m == A!Complement(b)
             q == A!Wrap(a + m + 1)
  <1>1. /\ Half \in Nat \ {0} /\ a \in Nat /\ b \in Nat
        /\ a < 2 * Half /\ b < 2 * Half
    BY WordAssumption DEF Words, Word
  <1>2. r = IF a < b THEN a - b + 2 * Half ELSE a - b
    BY <1>1 DEF Wrap, Word
  <1>3. m = 2 * Half - 1 - b
    BY DEF A!Complement, A!Word
  <1>4. q = r
    BY <1>1, <1>3 DEF Wrap, Word, A!Wrap, A!Word
  <1> HIDE DEF r, m, q
  <1>5. /\ Negative(r) <=> A!Negative(q)
        /\ a >= b <=> a + m + 1 # q
    BY <1>1, <1>2, <1>3, <1>4 DEF Negative, A!Negative, Word
  <1>6. (Negative(a) # Negative(b) /\ Negative(a) # Negative(r))
          <=> A!Signed(a) + A!Signed(m) + 1 # A!Signed(q)
    <2>1. CASE a >= Half /\ b >= Half
      BY <1>1, <1>2, <1>3, <1>4, <2>1 DEF Negative, A!Signed, A!Negative, A!Word
    <2>2. CASE a >= Half /\ ~(b >= Half)
      BY <1>1, <1>2, <1>3, <1>4, <2>2 DEF Negative, A!Signed, A!Negative, A!Word
    <2>3. CASE ~(a >= Half) /\ b >= Half
      BY <1>1, <1>2, <1>3, <1>4, <2>3 DEF Negative, A!Signed, A!Negative, A!Word
    <2>4. CASE ~(a >= Half) /\ ~(b >= Half)
      BY <1>1, <1>2, <1>3, <1>4, <2>4 DEF Negative, A!Signed, A!Negative, A!Word
    <2> QED BY <2>1, <2>2, <2>3, <2>4
  <1>7. /\ Negative(r) = A!Negative(q) /\ (r = 0) = (q = 0)
        /\ (a >= b) = (a + m + 1 # q)
        /\ (Negative(a) # Negative(b) /\ Negative(a) # Negative(r))
             = (A!Signed(a) + A!Signed(m) + 1 # A!Signed(q))
    BY <1>4, <1>5, <1>6 DEF Negative, A!Negative
  <1> QED BY <1>4, <1>7 DEF SubFlags, A!AddWithCarry, r, m, q

\* The words of both modules are the same.
LEMMA SameShifts ==
  ASSUME NEW a, NEW k, NEW shift
  PROVE  A!Shifted(shift, a, k) = Shifted(shift, a, k) /\ A!Ror(a, k) = Ror(a, k)
  <1>1. /\ A!Lsl(a, k) = Lsl(a, k) /\ A!Lsr(a, k) = Lsr(a, k)
        /\ A!Asr(a, k) = Asr(a, k)
    BY DEF A!Lsl, A!Lsr, A!Asr, Lsl, Lsr, Asr, A!Signed, Signed, A!Negative, Negative,
           A!Word, Word
  <1>2. A!Ror(a, k) = Ror(a, k)
    BY DEF A!Ror, Ror, A!Lsl, A!Lsr, Lsl, Lsr, A!Word, Word
  <1> QED BY <1>1, <1>2 DEF A!Shifted, Shifted

\* A word shifted right by all its bits but one has the sign everywhere.
LEMMA SignEverywhere ==
  ASSUME NEW a \in Words
  PROVE  Asr(a, W - 1) = IF A!Negative(a) THEN A!Word - 1 ELSE 0
  <1>1. 2^(W - 1) = Half /\ Half \in Nat \ {0} /\ Word = 2 * Half /\ A!Word = Word
    BY WordAssumption DEF Word, A!Word
  <1>2. /\ Signed(a) = (IF a >= Half THEN a - 2 * Half ELSE a)
        /\ a \in Nat /\ a < 2 * Half
    BY SignedBounds
  <1>3. CASE a >= Half
    <2>1. a - Half \in 0..(Half - 1) /\ Signed(a) = Half * (-1) + (a - Half) /\ -1 \in Int
      BY <1>1, <1>2, <1>3
    <2>2. Signed(a) \div Half = -1
      BY <2>1, <1>1, DivisionIsUnique
    <2>3. (-1) % Word = Word - 1
      <3>1. Word - 1 \in 0..(Word - 1) /\ -1 = Word * (-1) + (Word - 1) /\ Word \in Nat \ {0}
        BY <1>1
      <3> QED BY <3>1, DivisionIsUnique
    <2> QED BY <1>1, <1>3, <2>2, <2>3 DEF Asr, A!Negative
  <1>4. CASE a < Half
    <2>1. a \in 0..(Half - 1) /\ Signed(a) = Half * 0 + a
      BY <1>1, <1>2, <1>4
    <2>2. Signed(a) \div Half = 0
      BY <2>1, <1>1, DivisionIsUnique
    <2>3. 0 % Word = 0
      BY <1>1
    <2> QED BY <1>1, <1>2, <1>4, <2>2, <2>3 DEF Asr, A!Negative
  <1> QED BY <1>1, <1>2, <1>3, <1>4

-----------------------------------------------------------------------------
\* A shift by an amount from a register, of any size.
LEMMA AmountAgrees ==
  ASSUME NEW a \in Words, NEW k \in Nat, NEW shift \in Shifts
  PROVE  ByAmount(shift, a, k) = A!Shifter(shift, a, k).val
  <1>1. W \in Nat \ {0} /\ k % W \in 0..(W - 1)
    BY WordAssumption
  <1>2. k < W => k % W = k
    <2>1. ASSUME k < W PROVE k % W = k
      <3>1. k \in 0..(W - 1)
        BY <2>1, <1>1
      <3> QED BY <3>1, <1>1, OwnRemainder
    <2> QED BY <2>1
  <1>3. CASE k = 0
    <2>1. k % W = 0 /\ ~(k >= W)
      BY <1>1, <1>2, <1>3
    <2>2. ByAmount(shift, a, k) = a
      BY <2>1, <1>3 DEF ByAmount, Shifts
    <2> QED BY <2>1, <2>2, <1>1, <1>3 DEF A!Shifter
  <1>4. CASE k # 0 /\ shift = "ror"
    <2>1. CASE k % W = 0
      <3>1. ByAmount(shift, a, k) = a
        BY <2>1, <1>4 DEF ByAmount
      <3>2. A!Shifter(shift, a, k).val = a
        BY <2>1, <1>4 DEF A!Shifter
      <3> QED BY <3>1, <3>2
    <2>2. CASE k % W # 0
      <3>1. ByAmount(shift, a, k) = Ror(a, k % W)
        BY <2>2, <1>4 DEF ByAmount
      <3>2. A!Shifter(shift, a, k).val = A!Ror(a, k % W)
        BY <2>2, <1>4 DEF A!Shifter
      <3> QED BY <3>1, <3>2, SameShifts
    <2> QED BY <2>1, <2>2
  <1>5. CASE k >= W /\ shift = "asr"
    <2>1. ByAmount(shift, a, k) = Asr(a, W - 1)
      BY <1>5, <1>1 DEF ByAmount
    <2>2. A!Shifter(shift, a, k).val = IF A!Negative(a) THEN A!Word - 1 ELSE 0
      BY <1>5, <1>1 DEF A!Shifter
    <2> QED BY <2>1, <2>2, SignEverywhere
  <1>6. CASE k >= W /\ shift \in {"lsl", "lsr"}
    <2>1. ByAmount(shift, a, k) = 0
      BY <1>6, <1>1 DEF ByAmount
    <2>2. A!Shifter(shift, a, k).val = 0
      BY <1>6, <1>1 DEF A!Shifter
    <2> QED BY <2>1, <2>2
  <1>7. CASE 0 < k /\ k < W /\ shift # "ror"
    <2>1. ByAmount(shift, a, k) = Shifted(shift, a, k)
      BY <1>7, <1>1 DEF ByAmount
    <2>2. A!Shifter(shift, a, k).val = A!Shifted(shift, a, k)
      BY <1>7, <1>1 DEF A!Shifter
    <2> QED BY <2>1, <2>2, SameShifts
  <1> QED BY <1>1, <1>3, <1>4, <1>5, <1>6, <1>7 DEF Shifts

\* The C expression of a second operand has the value of the barrel shifter.
LEMMA OperandAgrees ==
  ASSUME TypeOK, NEW src \in Immediate \cup ByConstant \cup ByRegister,
         src.kind = "const" => src.k < W, NEW b \in Values(src)
  PROVE  b = A!Operand2(src).val
  <1>1. CASE src \in Immediate
    <2>1. src.kind = "imm"
      BY <1>1 DEF Immediate
    <2> QED BY <2>1 DEF Values, A!Operand2
  <1>2. CASE src \in ByConstant
    <2>1. /\ src.kind = "const" /\ src.k \in Nat /\ src.k < W
          /\ src.shift \in Shifts /\ reg[src.m] \in Words /\ W \in Nat
      BY <1>2, WordAssumption DEF ByConstant, TypeOK
    <2>2. A!Operand2(src) = A!Shifter(src.shift, reg[src.m], src.k)
      BY <2>1 DEF A!Operand2
    <2>3. b = ByAmount(src.shift, reg[src.m], src.k)
      <3>1. CASE src.k = 0
        <4>1. b = reg[src.m]
          BY <2>1, <3>1 DEF Values
        <4>2. 0 % W = 0 /\ ~(0 >= W)
          BY WordAssumption
        <4> QED BY <4>1, <4>2, <2>1, <3>1 DEF ByAmount, Shifts
      <3>2. CASE src.k # 0
        <4>1. b = Shifted(src.shift, reg[src.m], src.k)
          BY <2>1, <3>2 DEF Values
        <4>2. src.k % W = src.k
          <5>1. src.k \in 0..(W - 1) /\ W \in Nat \ {0}
            BY <2>1
          <5> QED BY <5>1, OwnRemainder
        <4>3. CASE src.shift = "ror"
          BY <4>1, <4>2, <4>3, <3>2 DEF ByAmount, Shifted
        <4>4. CASE src.shift # "ror"
          BY <4>1, <4>4, <2>1, <3>2 DEF ByAmount, Shifts
        <4> QED BY <4>3, <4>4
      <3> QED BY <3>1, <3>2
    <2> QED BY <2>1, <2>2, <2>3, AmountAgrees
  <1>3. CASE src \in ByRegister
    <2>1. /\ src.kind = "reg" /\ src.shift \in Shifts
          /\ reg[src.m] \in Words /\ reg[src.rs] \in Words
      BY <1>3 DEF ByRegister, TypeOK
    <2>2. Amount(reg[src.rs]) \in Nat /\ A!Amount(reg[src.rs]) = Amount(reg[src.rs])
      BY <2>1, SignedBounds DEF Amount, A!Amount
    <2>3. b = ByAmount(src.shift, reg[src.m], Amount(reg[src.rs]))
      BY <2>1 DEF Values
    <2>4. A!Operand2(src) = A!Shifter(src.shift, reg[src.m], Amount(reg[src.rs]))
      BY <2>1, <2>2 DEF A!Operand2
    <2> QED BY <2>1, <2>2, <2>3, <2>4, AmountAgrees
  <1> QED BY <1>1, <1>2, <1>3

\* The table CC is the ARM's.
LEMMA ConditionsAgree ==
  ASSUME flags \in Flags, NEW cc \in Conditions
  PROVE  Holds(cc) <=> A!Passed(cc)
  <1>1. /\ flags.n \in BOOLEAN /\ flags.z \in BOOLEAN
        /\ flags.c \in BOOLEAN /\ flags.v \in BOOLEAN
    BY DEF Flags
  <1>2. CASE cc \in {"eq", "ne", "hs", "lo", "mi", "pl", "vs", "vc", "al"}
    BY <1>1, <1>2 DEF Holds, A!Passed
  <1>3. CASE cc \in {"hi", "ls"}
    BY <1>1, <1>3 DEF Holds, A!Passed
  <1>4. CASE cc \in {"ge", "lt", "gt", "le"}
    BY <1>1, <1>4 DEF Holds, A!Passed
  <1> QED BY <1>2, <1>3, <1>4 DEF Conditions

\* What the logical and comparing instructions compute: with the bits of words,
\* the emitted C and the ARM do the same.
LEMMA LogicAgrees ==
  ASSUME NEW op, NEW a, NEW b
  PROVE  A!LogicResult(op, a, b) = LogicResult(op, a, b)
  BY DEF A!LogicResult, LogicResult, A!Complement, Complement, A!Word, Word

\* ngage_set_nz changes two of the four flags.
LEMMA TwoFlagsSet ==
  ASSUME NEW f \in Flags, NEW x \in BOOLEAN, NEW y \in BOOLEAN
  PROVE  [f EXCEPT !.n = x, !.z = y] = [n |-> x, z |-> y, c |-> f.c, v |-> f.v]
  <1> DEFINE g == [f EXCEPT !.n = x, !.z = y]
  <1>1. g \in Flags
    BY DEF Flags
  <1>2. g.n = x /\ g.z = y /\ g.c = f.c /\ g.v = f.v
    BY DEF Flags
  <1> HIDE DEF g
  <1>3. PICK p, q, s, t \in BOOLEAN : g = [n |-> p, z |-> q, c |-> s, v |-> t]
    BY <1>1 DEF Flags
  <1>4. p = x /\ q = y /\ s = f.c /\ t = f.v
    <2>1. g.n = p /\ g.z = q /\ g.c = s /\ g.v = t
      BY <1>3
    <2> QED BY <1>2, <2>1
  <1>5. g = [n |-> x, z |-> y, c |-> f.c, v |-> f.v]
    BY <1>3, <1>4, Zenon
  <1> QED BY <1>5 DEF g

\* A logical instruction that sets flags leaves the carry of before: its
\* operand is not shifted.
LEMMA LogicFlagsAgree ==
  ASSUME TypeOK, NEW r \in Words, NEW src, src.kind = "const", src.k = 0
  PROVE  SetNZ(r) = [n |-> A!Negative(r), z |-> r = 0, c |-> A!Operand2(src).c,
                     v |-> flags.v]
  <1>1. A!Operand2(src).c = flags.c
    <2>1. 0 % W = 0 /\ ~(0 >= W) /\ ~(0 > W) /\ 0 # W
      BY WordAssumption
    <2> QED BY <2>1 DEF A!Operand2, A!Shifter
  <1>2. A!Negative(r) = Negative(r)
    BY DEF A!Negative, Negative
  <1>3. flags \in Flags /\ Negative(r) \in BOOLEAN /\ (r = 0) \in BOOLEAN
    BY DEF TypeOK, Negative
  <1>4. SetNZ(r) = [n |-> Negative(r), z |-> r = 0, c |-> flags.c, v |-> flags.v]
    BY <1>3, TwoFlagsSet, Zenon DEF SetNZ
  <1> QED BY <1>1, <1>2, <1>4, Zenon

\* The statement of an exact instruction leaves what the ARM leaves.
LEMMA InstructionAgrees ==
  ASSUME TypeOK, NEW i \in Program, Exact(i), NEW b \in Values(i.src)
  PROVE  Assigned(i, b) = A!RegistersAfter(i) /\ Flagged(i, b) = A!FlagsAfter(i)
  <1>1. /\ i.op \in ArithOps \cup CompareOps \cup TestOps \cup LogicOps
        /\ i.d \in Registers /\ i.n \in Registers /\ i.s \in BOOLEAN
        /\ i.src \in Immediate \cup ByConstant \cup ByRegister
    BY ProgramAssumption DEF Instruction
  <1> DEFINE a == reg[i.n]
             o == A!Outcome(i.op, a, i.src)
  <1>2. a \in Words /\ b \in Words
    BY <1>1, ValuesAreWords DEF TypeOK
  <1>3. b = A!Operand2(i.src).val
    BY <1>1, OperandAgrees DEF Exact
  <1>4. /\ A!CompareOps = CompareOps /\ A!TestOps = TestOps /\ A!LogicOps = LogicOps
        /\ CompareOps = {"cmp", "cmn"} /\ ArithOps = {"add", "sub", "rsb"}
        /\ TestOps = {"tst", "teq"}
        /\ LogicOps = {"and", "orr", "eor", "bic", "mov", "mvn"}
    BY DEF A!CompareOps, A!TestOps, A!LogicOps, CompareOps, TestOps, LogicOps, ArithOps
  <1> HIDE DEF a, o
  <1>5. CASE i.op \in {"add", "cmn"}
    <2>1. o = A!AddWithCarry(a, b, 0)
      BY <1>3, <1>4, <1>5 DEF A!Outcome, o
    <2>2. o.r = Wrap(a + b) /\ o.f = AddFlags(a, b)
      BY <1>2, <2>1, AddAgrees
    <2>3. NewFlags(i.op, a, b) = o.f
      BY <2>2, <1>4, <1>5 DEF NewFlags
    <2>4. i.op = "add" => Result(i.op, a, b) = o.r
      BY <2>2, <1>4 DEF Result
    <2> QED BY <1>4, <1>5, <2>3, <2>4
            DEF Assigned, Flagged, Compares, A!RegistersAfter, A!FlagsAfter, a, o
  <1>6. CASE i.op \in {"sub", "cmp"}
    <2>1. o = A!AddWithCarry(a, A!Complement(b), 1)
      BY <1>3, <1>4, <1>6 DEF A!Outcome, o
    <2>2. o.r = Wrap(a - b) /\ o.f = SubFlags(a, b)
      BY <1>2, <2>1, SubAgrees
    <2>3. NewFlags(i.op, a, b) = o.f
      BY <2>2, <1>4, <1>6 DEF NewFlags
    <2>4. i.op = "sub" => Result(i.op, a, b) = o.r
      BY <2>2, <1>4 DEF Result
    <2> QED BY <1>4, <1>6, <2>3, <2>4
            DEF Assigned, Flagged, Compares, A!RegistersAfter, A!FlagsAfter, a, o
  <1>7. CASE i.op = "rsb"
    <2>1. o = A!AddWithCarry(b, A!Complement(a), 1)
      BY <1>3, <1>4, <1>7 DEF A!Outcome, o
    <2>2. o.r = Wrap(b - a) /\ o.f = SubFlags(b, a)
      BY <1>2, <2>1, SubAgrees
    <2>3. NewFlags(i.op, a, b) = o.f
      BY <2>2, <1>4, <1>7 DEF NewFlags
    <2>4. Result(i.op, a, b) = o.r
      BY <2>2, <1>4, <1>7 DEF Result
    <2> QED BY <1>4, <1>7, <2>3, <2>4
            DEF Assigned, Flagged, Compares, A!RegistersAfter, A!FlagsAfter, a, o
  <1>8. CASE i.op \in TestOps \cup LogicOps
    <2> DEFINE r == LogicResult(i.op, a, b)
    <2>1. o = [r |-> r, f |-> [n |-> A!Negative(r), z |-> r = 0,
                               c |-> A!Operand2(i.src).c, v |-> flags.v]]
      <3>1. A!LogicResult(i.op, a, b) = r
        BY LogicAgrees
      <3>2. i.op \notin {"add", "cmn"} /\ i.op \notin {"sub", "cmp"} /\ i.op # "rsb"
        BY <1>4, <1>8
      <3> HIDE DEF r
      <3> QED BY <1>3, <1>4, <1>8, <3>1, <3>2 DEF A!Outcome, o
    <2>2. r \in Words
      BY <1>2, <1>8, LogicResultIsWord
    <2>3. i.op \in LogicOps => Result(i.op, a, b) = o.r
      <3> HIDE DEF r
      <3>1. o.r = r
        BY <2>1
      <3> QED BY <1>4, <3>1 DEF Result, r
    <2>4. (i.s \/ Compares(i)) => NewFlags(i.op, a, b) = o.f
      <3>1. ASSUME i.s \/ Compares(i) PROVE NewFlags(i.op, a, b) = o.f
        <4>1. i.src.kind = "const" /\ i.src.k = 0
          BY <1>8, <3>1 DEF Exact
        <4>2. NewFlags(i.op, a, b) = SetNZ(r)
          BY <1>4, <1>8 DEF NewFlags
        <4> HIDE DEF r
        <4>3. SetNZ(r) = [n |-> A!Negative(r), z |-> r = 0,
                          c |-> A!Operand2(i.src).c, v |-> flags.v]
          BY <4>1, <2>2, LogicFlagsAgree
        <4> QED BY <2>1, <4>2, <4>3
      <3> QED BY <3>1
    <2>5. CASE Compares(i)
      BY <1>4, <2>4, <2>5
         DEF Assigned, Flagged, Compares, A!RegistersAfter, A!FlagsAfter, a, o
    <2>6. CASE ~Compares(i)
      <3>1. i.op \in LogicOps
        BY <1>8, <2>6 DEF Compares
      <3> QED BY <1>4, <2>3, <2>4, <2>6, <3>1
              DEF Assigned, Flagged, Compares, A!RegistersAfter, A!FlagsAfter, a, o
    <2> QED BY <2>5, <2>6
  <1> QED BY <1>1, <1>4, <1>5, <1>6, <1>7, <1>8

\* The instructions agree in every state of the type: the history of a state
\* is not needed.
LEMMA ExactAgrees ==
  ASSUME TypeOK, \A i \in Program : Exact(i)
  PROVE  ImplementsArm
  <1> SUFFICES ASSUME NEW i \in Program
               PROVE  /\ Holds(i.cc) <=> A!Passed(i.cc)
                      /\ \A b \in Values(i.src) : /\ Assigned(i, b) = A!RegistersAfter(i)
                                                  /\ Flagged(i, b) = A!FlagsAfter(i)
    BY DEF ImplementsArm
  <1>1. i.cc \in Conditions /\ flags \in Flags
    BY ProgramAssumption DEF Instruction, TypeOK
  <1> QED BY <1>1, ConditionsAgree, InstructionAgrees

-----------------------------------------------------------------------------
\* N and Z of a word, C and V as they were, are what the S-bit of a short
\* multiplication asks for.
LEMMA FlagsAgree ==
  ASSUME TypeOK, NEW r
  PROVE  /\ A!MultiplyFlags(TRUE, r >= Half, r = 0, SetNZ(r))
         /\ \A negative, zero : A!MultiplyFlags(FALSE, negative, zero, flags)
  <1>1. flags \in Flags
    BY DEF TypeOK
  <1>2. /\ SetNZ(r).n = Negative(r) /\ SetNZ(r).z = (r = 0) /\ SetNZ(r).v = flags.v
    BY <1>1 DEF SetNZ, Flags
  <1> QED BY <1>2, Zenon DEF A!MultiplyFlags, Negative

\* A short product, accumulated or not, is the ARM's, with its flags.
LEMMA MultiplyAgrees ==
  ASSUME TypeOK, NEW i \in Products, i \in Multiply
  PROVE  A!MultiplyDone(i, Multiplied(i), FlagsBehind(i))
  <1>1. /\ i.op \in {"mul", "mla"} /\ i.d \in Registers
        /\ reg[i.n] \in Int /\ reg[i.m] \in Int /\ reg[i.a] \in Int
        /\ reg \in [Registers -> Words] /\ Word \in Nat \ {0}
    <2>1. i.n \in Registers /\ i.m \in Registers /\ i.a \in Registers
      BY DEF Multiply
    <2>2. \A r \in Registers : reg[r] \in Int
      BY SignedBounds DEF TypeOK
    <2> QED BY <2>1, <2>2, WordAssumption DEF Multiply, TypeOK, Word
  <1> DEFINE sum == reg[i.n] * reg[i.m] + (IF i.op = "mla" THEN reg[i.a] ELSE 0)
             after == Multiplied(i)
  <1>2. sum \in Int
    <2>1. \A x, y \in Int : x * y \in Int
      OBVIOUS
    <2> QED BY <1>1, <2>1
  <1> HIDE DEF sum
  <1>3. after = [reg EXCEPT ![i.d] = sum % Word]
    BY <1>1 DEF Multiplied, sum
  <1> HIDE DEF after
  <1>4. after[i.d] = sum % Word /\ \A r \in Registers \ {i.d} : after[r] = reg[r]
    BY <1>1, <1>3
  <1>5. sum % Word \in Words
    BY <1>2, ModIsWord
  <1>6. ((sum % Word) - sum) % Word = 0
    <2>1. PICK k \in Int : sum % Word = sum + k * Word
      BY <1>1, <1>2, ModDiffers
    <2>2. k * Word \in Int /\ (sum % Word) - sum = k * Word
      BY <2>1, <1>1, <1>2
    <2> QED BY <2>2, <1>1, MultipleOf
  <1>7. i.s \in BOOLEAN /\ FlagsBehind(i) = IF i.s THEN SetNZ(sum % Word) ELSE flags
    BY <1>1, <1>4 DEF Multiply, FlagsBehind, SetsFlags, after
  <1>8. A!MultiplyFlags(i.s, after[i.d] >= Half, sum % Word = 0, FlagsBehind(i))
    <2> DEFINE r == sum % Word
    <2>1. after[i.d] = r
      BY <1>4
    <2> HIDE DEF r
    <2>2. CASE i.s
      <3>1. i.s = TRUE /\ FlagsBehind(i) = SetNZ(r)
        BY <1>7, <2>2 DEF r
      <3>2. A!MultiplyFlags(TRUE, r >= Half, r = 0, SetNZ(r))
        BY FlagsAgree
      <3> QED BY <2>1, <3>1, <3>2 DEF r
    <2>3. CASE ~i.s
      <3>1. i.s = FALSE /\ FlagsBehind(i) = flags
        BY <1>7, <2>3
      <3> QED BY <3>1, FlagsAgree
    <2> QED BY <2>2, <2>3
  <1>9. A!Words = Words /\ A!Word = Word
    BY DEF A!Words, A!Word, Words, Word
  <1>10. A!Others(after, {i.d})
    BY <1>4 DEF A!Others
  <1>11. A!MultiplyDone(i, after, FlagsBehind(i))
    BY <1>4, <1>5, <1>6, <1>8, <1>9, <1>10 DEF A!MultiplyDone, sum
  <1> QED BY <1>11 DEF after

\* The sum and the remainder of a sum, which a product of two numbers hides
\* from the provers when they are not named.
LEMMA SumsAreReduced ==
  ASSUME NEW o \in Int, NEW p \in Int, NEW L \in Nat \ {0}
  PROVE  /\ p % L \in 0..(L - 1) /\ ((p % L) - p) % L = 0
         /\ (o + (p % L)) % L \in 0..(L - 1) /\ (((o + (p % L)) % L) - (o + p)) % L = 0
  <1>1. PICK k \in Int : p % L = p + k * L
    BY ModDiffers
  <1>2. p % L \in 0..(L - 1)
    OBVIOUS
  <1> DEFINE r == p % L
             n == o + r
  <1>3. r \in Int /\ n \in Int
    BY <1>2
  <1> HIDE DEF n
  <1>4. n % L \in 0..(L - 1)
    BY <1>3
  <1>5. PICK m \in Int : n % L = n + m * L
    BY <1>3, ModDiffers
  <1>6. \A x \in Int : x * L \in Int /\ (x * L) % L = 0
    BY MultipleOf
  <1>7. (k + m) * L = k * L + m * L /\ k + m \in Int
    OBVIOUS
  <1>8. (n % L) - (o + p) = (k + m) * L
    <2>1. k * L \in Int /\ m * L \in Int
      BY <1>6
    <2>2. n = o + (p + k * L)
      BY <1>1 DEF n
    <2> HIDE DEF r
    <2> QED BY <1>5, <1>7, <2>1, <2>2
  <1>9. (p % L) - p = k * L
    <2>1. k * L \in Int
      BY <1>6
    <2> QED BY <1>1, <2>1
  <1>10. ((n % L) - (o + p)) % L = 0 /\ ((p % L) - p) % L = 0
    BY <1>6, <1>7, <1>8, <1>9
  <1> QED BY <1>2, <1>4, <1>10 DEF n

\* The two words of a number below the square of Word.
LEMMA TwoWords ==
  ASSUME NEW n \in 0..(Word * Word - 1)
  PROVE  /\ (n \div Word) % Word \in Words /\ n % Word \in Words
         /\ ((n \div Word) % Word) * Word + (n % Word) = n
  <1> DEFINE q == n \div Word
             r == n % Word
             M == Word
             S == M * M
  <1>1. M \in Nat \ {0} /\ S \in Int /\ n \in Int /\ n >= 0 /\ n < S
    BY WordAssumption DEF Word
  <1>2. q \in Int /\ r \in 0..(M - 1) /\ n = M * q + r
    BY <1>1
  <1> HIDE DEF q, r, M
  <1>3. /\ \A x \in Int : x <= -1 => M * x <= -M
        /\ \A x \in Int : x >= M => M * x >= M * M
        /\ \A x \in Int : M * x \in Int /\ M * x = x * M
    BY <1>1
  <1>4. q >= 0
    <2>1. M * q <= -M \/ q >= 0
      BY <1>2, <1>3
    <2> QED BY <2>1, <1>1, <1>2, <1>3
  <1>5. q < M
    <2>1. M * q >= S \/ q < M
      BY <1>1, <1>2, <1>3
    <2> HIDE DEF S
    <2> QED BY <2>1, <1>1, <1>2, <1>3
  <1>6. q % M = q
    <2>1. q \in 0..(M - 1)
      BY <1>1, <1>2, <1>4, <1>5
    <2> QED BY <2>1, <1>1
  <1>7. q * M + r = n
    BY <1>1, <1>2, <1>3
  <1> QED BY <1>1, <1>2, <1>4, <1>5, <1>6, <1>7 DEF q, r, M, Words

\* A long product, accumulated or not, is the ARM's, if its two words are in
\* different registers and it sets no flags.
LEMMA LongAgrees ==
  ASSUME TypeOK, NEW i \in Products, i \in Long, ExactProduct(i)
  PROVE  A!LongDone(i, Multiplied(i), FlagsBehind(i))
  <1> DEFINE product == IF i.op \in {"umull", "umlal"} THEN reg[i.n] * reg[i.m]
                                            ELSE Signed(reg[i.n]) * Signed(reg[i.m])
             both == reg[i.h] * Word + reg[i.d]
             old == IF i.op \in {"umlal", "smlal"} THEN both ELSE 0
             S == Sum(i)
             L == Word * Word
             after == Multiplied(i)
  <1>1. /\ i.op \in {"umull", "smull", "umlal", "smlal"}
        /\ i.d \in Registers /\ i.h \in Registers
        /\ \A r \in Registers : reg[r] \in Int /\ Signed(reg[r]) \in Int
        /\ i.n \in Registers /\ i.m \in Registers
        /\ reg \in [Registers -> Words] /\ Word \in Nat \ {0}
        /\ i.d # i.h /\ i.s = FALSE
    <2>1. \A r \in Registers : reg[r] \in Int /\ Signed(reg[r]) \in Int
      BY SignedBounds DEF TypeOK
    <2>2. i.d # i.h /\ i.s = FALSE
      BY DEF Long, ExactProduct
    <2> QED BY <2>1, <2>2, WordAssumption DEF Long, TypeOK, Word
  <1>2. \A x, y \in Int : x * y \in Int
    OBVIOUS
  <1>3. product \in Int /\ reg[i.h] * Word \in Int
    BY <1>1, <1>2
  <1>4. both \in Int /\ both = reg[i.d] + reg[i.h] * Word
    BY <1>1, <1>3
  <1>5. L \in Nat \ {0} /\ Long64 = L
    <2>1. \A x \in Nat \ {0} : x * x \in Nat \ {0}
      OBVIOUS
    <2> QED BY <2>1, <1>1 DEF Long64
  <1>6. Product(i.op, reg[i.n], reg[i.m]) = product % L
    BY <1>1, <1>5 DEF Product
  <1>7. S = IF i.op \in {"umlal", "smlal"} THEN (both + (product % L)) % L ELSE product % L
    BY <1>1, <1>4, <1>5, <1>6 DEF Sum
  <1>8. old \in Int /\ old + product = IF i.op \in {"umlal", "smlal"} THEN both + product
                                                                       ELSE product
    <2> HIDE DEF both, product
    <2> QED BY <1>3, <1>4
  <1>9. S \in 0..(L - 1) /\ (S - (old + product)) % L = 0
    <2> HIDE DEF both, product, S, L, old
    <2>1. /\ product % L \in 0..(L - 1) /\ ((product % L) - product) % L = 0
          /\ (both + (product % L)) % L \in 0..(L - 1)
          /\ (((both + (product % L)) % L) - (both + product)) % L = 0
      BY <1>3, <1>4, <1>5, SumsAreReduced
    <2> QED BY <2>1, <1>7, <1>8
  <1>10. /\ after[i.d] = S % Word /\ after[i.h] = (S \div Word) % Word
         /\ \A r \in Registers \ {i.d, i.h} : after[r] = reg[r]
    <2> DEFINE low == S % Word
               high == (S \div Word) % Word
    <2>1. after = [reg EXCEPT ![i.d] = low, ![i.h] = high]
      BY <1>1 DEF Multiplied
    <2> HIDE DEF low, high, after
    <2>2. after[i.d] = low /\ after[i.h] = high
          /\ \A r \in Registers \ {i.d, i.h} : after[r] = reg[r]
      BY <2>1, <1>1
    <2> QED BY <2>2 DEF low, high
  <1>11. /\ after[i.d] \in Words /\ after[i.h] \in Words
         /\ after[i.h] * Word + after[i.d] = S
    <2> HIDE DEF after, S
    <2> QED BY <1>9, <1>10, TwoWords
  <1>12. A!Words = Words /\ A!Word = Word /\ \A x : A!Signed(x) = Signed(x)
    BY DEF A!Words, A!Word, Words, Word, A!Signed, Signed, A!Negative, Negative
  <1>13. A!Others(after, {i.d, i.h})
    BY <1>10 DEF A!Others
  <1>14. (after[i.h] * Word + after[i.d] - (old + product)) % L = 0
    <2> HIDE DEF after, S, old, product, L
    <2>1. \A x : x = S => (x - (old + product)) % L = 0
      BY <1>9
    <2> DEFINE v == after[i.h] * Word
               e == after[i.d]
               c == old + product
    <2>2. e \in Int /\ v \in Int /\ c \in Int /\ v + e = S
      <3>1. after[i.h] \in Int /\ after[i.d] \in Int /\ Word \in Int
        BY <1>1, <1>11 DEF Words
      <3> QED BY <3>1, <1>2, <1>3, <1>8, <1>11
    <2> HIDE DEF v, e, c
    <2>3. v + e - c = S - c
      BY <2>2
    <2> QED BY <2>1, <2>3 DEF v, e, c
  <1> HIDE DEF after
  <1>15. \A negative, zero : A!MultiplyFlags(i.s, negative, zero, FlagsBehind(i))
    <2>1. FlagsBehind(i) = flags
      BY <1>1 DEF FlagsBehind, SetsFlags
    <2> QED BY <1>1, <2>1, FlagsAgree
  <1>16. A!LongDone(i, after, FlagsBehind(i))
    BY <1>11, <1>12, <1>13, <1>14, <1>15 DEF A!LongDone
  <1> QED BY <1>16 DEF after

-----------------------------------------------------------------------------
\* The quotient of two numbers that are not negative, and its remainder.
LEMMA QuotientBounds ==
  ASSUME NEW x \in Nat, NEW y \in Nat \ {0}
  PROVE  /\ x \div y \in Nat /\ y * (x \div y) \in Nat
         /\ x - y * (x \div y) \in 0..(y - 1)
         /\ x \div y <= x /\ (y # 1 => 2 * (x \div y) <= x)
  <1> DEFINE q == x \div y
             r == x % y
  <1>1. q \in Int /\ r \in 0..(y - 1) /\ x = y * q + r
    OBVIOUS
  <1> HIDE DEF q, r
  <1>2. /\ \A z \in Int : y * z \in Int /\ (z <= -1 => y * z <= -y)
        /\ \A z \in Nat : y * z >= z /\ (y # 1 => y * z >= 2 * z)
    OBVIOUS
  <1>3. q >= 0
    <2>1. y * q <= -y \/ q >= 0
      BY <1>1, <1>2
    <2> QED BY <2>1, <1>1, <1>2
  <1>4. q <= x /\ (y # 1 => 2 * q <= x)
    BY <1>1, <1>2, <1>3
  <1> QED BY <1>1, <1>2, <1>3, <1>4 DEF q

\* Division in C leaves a remainder below the divisor with the sign of the
\* dividend.
LEMMA TruncatedDivides ==
  ASSUME NEW a \in Int, NEW b \in Int, b # 0
  PROVE  /\ Truncated(a, b) \in Int /\ b * Truncated(a, b) \in Int
         /\ A!IsRemainder(a, b, a - b * Truncated(a, b))
         /\ A!Sized(Truncated(a, b)) <= A!Sized(a)
         /\ Truncated(a, b) > 0 => ((a < 0) <=> (b < 0))
         /\ b \notin {-1, 1} => 2 * A!Sized(Truncated(a, b)) <= A!Sized(a)
  <1> DEFINE x == IF a < 0 THEN -a ELSE a
             y == IF b < 0 THEN -b ELSE b
             q == x \div y
             t == Truncated(a, b)
  <1>1. x \in Nat /\ y \in Nat \ {0} /\ (y = 1 <=> b \in {-1, 1})
    OBVIOUS
  <1>2. t = IF (a < 0) = (b < 0) THEN q ELSE -q
    BY DEF Truncated
  <1>3. /\ q \in Nat /\ y * q \in Nat /\ x - y * q \in 0..(y - 1)
        /\ q <= x /\ (y # 1 => 2 * q <= x)
    <2> HIDE DEF x, y
    <2> QED BY <1>1, QuotientBounds
  <1> HIDE DEF q, t
  <1>4. b * t = IF a < 0 THEN -(y * q) ELSE y * q
    <2>1. \A z \in Int : (-b) * z = -(b * z) /\ b * (-z) = -(b * z)
      OBVIOUS
    <2>2. CASE b < 0
      <3>1. y * q = -(b * q)
        BY <2>1, <2>2, <1>3
      <3>2. b * q \in Int /\ b * (-q) = -(b * q)
        BY <2>1, <1>3
      <3> QED BY <2>2, <3>1, <3>2, <1>2
    <2>3. CASE b >= 0
      <3>1. y * q = b * q
        BY <2>3
      <3>2. b * q \in Int /\ b * (-q) = -(b * q)
        BY <2>1, <1>3
      <3> QED BY <2>3, <3>1, <3>2, <1>2
    <2> QED BY <2>2, <2>3
  <1> DEFINE u == y * q
             w == b * t
  <1>5. u \in Nat /\ w = (IF a < 0 THEN -u ELSE u) /\ x - u \in 0..(y - 1)
    BY <1>3, <1>4
  <1> HIDE DEF u, w
  <1>6. /\ t \in Int /\ w \in Int
        /\ A!Sized(t) = q /\ A!Sized(a) = x /\ A!Sized(b) = y
        /\ t > 0 => ((a < 0) <=> (b < 0))
    BY <1>2, <1>3, <1>5 DEF A!Sized
  <1>7. A!IsRemainder(a, b, a - w)
    BY <1>5, <1>6 DEF A!IsRemainder, A!Sized
  <1> QED BY <1>1, <1>3, <1>6, <1>7 DEF t, w

\* A division that has a result returns it.
LEMMA DivisionAgrees ==
  ASSUME TypeOK, NEW f \in Divisions, reg[1] # 0,
         f = "udivsi3" \/ ~Overflows(reg[0], reg[1]),
         NEW r \in Returns(f, reg[0], reg[1])
  PROVE  A!Divides(f, reg[0], reg[1], r)
  <1> DEFINE a == Signed(reg[0])
             b == Signed(reg[1])
             t == Truncated(a, b)
  <1>1. /\ 0 \in Registers /\ 1 \in Registers
        /\ reg[0] \in Words /\ reg[1] \in Words
        /\ f \in {"udivsi3", "divsi3", "modsi3"}
    BY ProductsAssumption DEF TypeOK, Divisions
  <1>2. A!Words = Words /\ A!Word = Word /\ \A x : A!Signed(x) = Signed(x)
    BY DEF A!Words, A!Word, Words, Word, A!Signed, Signed, A!Negative, Negative
  <1>3. CASE f = "udivsi3"
    <2> DEFINE x == reg[0]
               y == reg[1]
    <2>1. x \in Nat /\ y \in Nat \ {0}
      BY <1>1, SignedBounds
    <2>2. r = x \div y
      BY <1>3 DEF Returns
    <2> HIDE DEF x, y
    <2> DEFINE u == y * r
    <2>3. u \in Nat /\ x - u \in 0..(y - 1)
      BY <2>1, <2>2, QuotientBounds
    <2> HIDE DEF u
    <2>4. A!IsRemainder(x, y, x - u)
      BY <2>1, <2>3 DEF A!IsRemainder, A!Sized
    <2> QED BY <2>4, <1>3 DEF A!Divides, x, y, u
  <1>4. CASE f # "udivsi3"
    <2>1. /\ Half \in Nat \ {0} /\ a \in Int /\ b \in Int /\ b # 0
          /\ -Half <= a /\ a < Half /\ -Half <= b /\ b < Half
          /\ ~(a = -Half /\ b = -1)
      BY <1>1, <1>4, SignedBounds DEF Overflows
    <2> HIDE DEF a, b
    <2>2. /\ t \in Int /\ b * t \in Int /\ A!IsRemainder(a, b, a - b * t)
          /\ A!Sized(t) <= A!Sized(a) /\ (t > 0 => ((a < 0) <=> (b < 0)))
          /\ b \notin {-1, 1} => 2 * A!Sized(t) <= A!Sized(a)
      BY <2>1, TruncatedDivides
    <2> HIDE DEF t
    <2>3. CASE f = "divsi3"
      <3>1. -Half <= t /\ t < Half
        BY <2>1, <2>2 DEF A!Sized
      <3>2. r = t % Word
        BY <1>4, <2>3 DEF Returns, t, a, b
      <3>3. Signed(r) = t
        BY <2>2, <3>1, <3>2, SignedOfRemainder
      <3> QED BY <1>2, <2>2, <2>3, <3>3 DEF A!Divides, a, b
    <2>4. CASE f = "modsi3"
      <3> DEFINE m == a - b * t
      <3>1. m \in Int /\ A!IsRemainder(a, b, m)
        BY <2>1, <2>2
      <3>2. r = m % Word
        BY <1>4, <2>4 DEF Returns, t, a, b
      <3>3. a - m = b * t
        BY <2>1, <2>2
      <3> HIDE DEF m
      <3>4. -Half <= m /\ m < Half
        BY <2>1, <3>1 DEF A!IsRemainder, A!Sized
      <3>5. Signed(r) = m
        BY <3>1, <3>2, <3>4, SignedOfRemainder
      <3>6. (b * t) % A!Sized(b) = 0
        <4>1. \A z \in Int : t * z = b * t \/ z # b
          BY <2>1, <2>2
        <4>2. (-t) * (-b) = b * t /\ t * b = b * t
          BY <2>1, <2>2
        <4>3. CASE b < 0
          <5>1. A!Sized(b) = -b /\ -b \in Nat \ {0} /\ -t \in Int
            BY <2>1, <2>2, <4>3 DEF A!Sized
          <5>2. ((-t) * (-b)) % (-b) = 0
            BY <5>1, MultipleOf
          <5> QED BY <5>1, <5>2, <4>2
        <4>4. CASE b >= 0
          <5>1. A!Sized(b) = b /\ b \in Nat \ {0}
            BY <2>1, <4>4 DEF A!Sized
          <5>2. (t * b) % b = 0
            BY <5>1, <2>2, MultipleOf
          <5> QED BY <5>1, <5>2, <4>2
        <4> QED BY <2>1, <4>3, <4>4
      <3>7. (a - m) % A!Sized(b) = 0
        BY <3>3, <3>6
      <3> QED BY <1>2, <2>4, <3>1, <3>5, <3>7 DEF A!Divides, a, b
    <2> QED BY <1>1, <1>4, <2>3, <2>4
  <1> QED BY <1>3, <1>4

\* What the state predicate says follows from the types, whatever the state.
LEMMA ExactProductsAgree ==
  ASSUME TypeOK, \A i \in Program : Exact(i), \A i \in Products : ExactProduct(i)
  PROVE  ProductsImplementArm
  <1>1. ImplementsArm
    BY ExactAgrees
  <1>2. ASSUME NEW i \in Products
        PROVE  /\ Holds(i.cc) <=> A!Passed(i.cc)
               /\ IF i.op \in {"mul", "mla"}
                  THEN A!MultiplyDone(i, Multiplied(i), FlagsBehind(i))
                  ELSE A!LongDone(i, Multiplied(i), FlagsBehind(i))
    <2>1. i \in Multiply \/ i \in Long
      BY ProductsAssumption
    <2>2. i.cc \in Conditions /\ flags \in Flags
      BY <2>1 DEF Multiply, Long, TypeOK
    <2>3. Holds(i.cc) <=> A!Passed(i.cc)
      BY <2>2, ConditionsAgree
    <2>4. CASE i \in Multiply
      <3>1. i.op \in {"mul", "mla"}
        BY <2>4 DEF Multiply
      <3> QED BY <2>3, <2>4, <3>1, MultiplyAgrees
    <2>5. CASE i \in Long
      <3>1. i.op \notin {"mul", "mla"}
        BY <2>5 DEF Long
      <3> QED BY <2>3, <2>5, <3>1, LongAgrees
    <2> QED BY <2>1, <2>4, <2>5
  <1>3. ASSUME NEW f \in Divisions,
               reg[1] # 0 /\ (f = "udivsi3" \/ ~Overflows(reg[0], reg[1])),
               NEW r \in Returns(f, reg[0], reg[1])
        PROVE  A!Divides(f, reg[0], reg[1], r)
    BY <1>3, DivisionAgrees
  <1> QED BY <1>1, <1>2, <1>3 DEF ProductsImplementArm

\* In every state that a program can reach, whatever the width of a word, the
\* emitted C of an instruction outside the known disagreements leaves the
\* registers and the flags that the ARM leaves (lift.py:101-299).
THEOREM ExactIsArm ==
  ASSUME \A i \in Program : Exact(i)
  PROVE  Spec => []ImplementsArm
  <1>1. IInv => ImplementsArm
    BY ExactAgrees DEF IInv
  <1> QED
    BY <1>1, Inductive, PTL

\* The same with multiplications, the N and Z of MULS and MLAS included, whose
\* long forms keep their two words in different registers and set no flags, and
\* with the divisions that have a result (lift.py:219-247, softfloat.c:43-46).
THEOREM ProductsAreArm ==
  ASSUME \A i \in Program : Exact(i), \A i \in Products : ExactProduct(i)
  PROVE  PSpec => []ProductsImplementArm
  <1>1. IInv => ProductsImplementArm
    BY ExactProductsAgree DEF IInv
  <1> QED
    BY <1>1, ProductsInductive, PTL
=============================================================================
