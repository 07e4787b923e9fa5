------------------------------ MODULE Products ------------------------------
(***************************************************************************)
(* Multiplications as src/recompiler/lift.py translates them to C, and the *)
(* integer divisions of src/runtime/src/hle/softfloat.c, which generated   *)
(* code calls because the ARM does not divide, beside the data processing  *)
(* of Lifted on the same registers and flags.                              *)
(***************************************************************************)
EXTENDS Lifted

CONSTANTS Products       \* the multiplications that are executed

ASSUME ProductsAssumption ==
  /\ Products \subseteq Multiply \cup Long
  /\ {0, 1} \subseteq Registers

Long64 == Word * Word

\* Slip: the operands are taken as they are, not as signed numbers.
Product_Unsigned(op, a, b) == (a * b) % Long64

\* (uint64_t)((int64_t)(int32_t)a * (int64_t)(int32_t)b), or unsigned.
Product(op, a, b) == IF op \in {"smull", "smlal"} THEN (Signed(a) * Signed(b)) % Long64
                                                  ELSE (a * b) % Long64

\* _p, or _a after the sum.
Sum(i) == LET p == Product(i.op, reg[i.n], reg[i.m])
          IN IF i.op \in {"umull", "smull"} THEN p
             ELSE (reg[i.d] + reg[i.h] * Word + p) % Long64

\* The registers after a multiplication: the upper word is assigned last.
Multiplied(i) ==
  IF i.op \in {"mul", "mla"}
  THEN [reg EXCEPT ![i.d] =
          (reg[i.n] * reg[i.m] + (IF i.op = "mla" THEN reg[i.a] ELSE 0)) % Word]
  ELSE [reg EXCEPT ![i.d] = Sum(i) % Word, ![i.h] = (Sum(i) \div Word) % Word]

\* Only the short forms look at the S-bit.
SetsFlags(i) == i.op \in {"mul", "mla"} /\ i.s

\* Slip: N and Z are set before the destination is.
FlagsBehind_Before(i) == IF SetsFlags(i) THEN SetNZ(reg[i.d]) ELSE flags

\* N and Z are set from the destination after its assignment.
FlagsBehind(i) == IF SetsFlags(i) THEN SetNZ(Multiplied(i)[i.d]) ELSE flags

EmitProduct(i) ==
  IF Holds(i.cc)
  THEN /\ reg' = Multiplied(i)
       /\ flags' = FlagsBehind(i)
       /\ compared' = IF SetsFlags(i) THEN NoCompare ELSE compared
  ELSE UNCHANGED vars

-----------------------------------------------------------------------------
\* Division in C rounds to zero; \div rounds down.
Truncated(a, b) == LET q == (IF a < 0 THEN -a ELSE a) \div (IF b < 0 THEN -b ELSE b)
                   IN IF (a < 0) = (b < 0) THEN q ELSE -q

\* The quotient that does not fit its type: C leaves it undefined.
Overflows(a, b) == a = Half /\ b = Word - 1

\* What hle_divsi3, hle_udivsi3 and hle_modsi3 may return.
Returns(f, a, b) ==
  CASE b = 0 -> {0}
    [] b # 0 /\ f = "udivsi3" -> {a \div b}
    [] b # 0 /\ f # "udivsi3" /\ Overflows(a, b) -> Words
    [] b # 0 /\ f = "divsi3" /\ ~Overflows(a, b) -> {Truncated(Signed(a), Signed(b)) % Word}
    [] b # 0 /\ f = "modsi3" /\ ~Overflows(a, b) ->
         {(Signed(a) - Signed(b) * Truncated(Signed(a), Signed(b))) % Word}

Divide(f) == /\ \E r \in Returns(f, reg[0], reg[1]) : reg' = [reg EXCEPT ![0] = r]
             /\ UNCHANGED <<flags, compared>>

PNext == \/ Next
         \/ \E i \in Products : EmitProduct(i)
         \/ \E f \in Divisions : Divide(f)

PSpec == Init /\ [][PNext]_vars

-----------------------------------------------------------------------------
\* What the translation is exact for: long forms whose words are in different
\* registers, as the ARM demands, and which do not set flags.
ExactProduct(i) == i \in Long => i.d # i.h /\ ~i.s

\* Multiplications are executed under the condition, and leave the registers
\* and the flags, that the ARM's are and leave (lift.py:219-247; README of the
\* recompiler, lines 86-91), and the divisions that have a result return it
\* (softfloat.c:43-46), beside the instructions of Lifted.
ProductsImplementArm ==
  /\ ImplementsArm
  /\ \A i \in Products : /\ Holds(i.cc) <=> A!Passed(i.cc)
                         /\ IF i.op \in {"mul", "mla"}
                            THEN A!MultiplyDone(i, Multiplied(i), FlagsBehind(i))
                            ELSE A!LongDone(i, Multiplied(i), FlagsBehind(i))
  /\ \A f \in Divisions : reg[1] # 0 /\ (f = "udivsi3" \/ ~Overflows(reg[0], reg[1])) =>
       \A r \in Returns(f, reg[0], reg[1]) : A!Divides(f, reg[0], reg[1], r)
=============================================================================
