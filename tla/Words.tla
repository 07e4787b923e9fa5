------------------------------- MODULE Words -------------------------------
(***************************************************************************)
(* Machine words of W bits (32 in the code), their reading as signed       *)
(* numbers, and the instructions that data processing is made of, as the   *)
(* disassembler hands them to src/recompiler/lift.py.                      *)
(***************************************************************************)
EXTENDS Integers

CONSTANTS W,             \* the width of a word
          Half,          \* 2^(W - 1)
          Registers,
          Logic(_, _, _) \* the bits of a word under "and", "orr" and "eor"

Word == 2 * Half
Words == 0..(Word - 1)

ASSUME WordAssumption ==
  /\ W \in Nat \ {0} /\ Half \in Nat \ {0} /\ Word = 2^W /\ Half = 2^(W - 1)
  /\ \A k \in 0..W : 2^k \in Nat \ {0}
  /\ \A op \in {"and", "orr", "eor"}, a, b \in Words : Logic(op, a, b) \in Words

Negative(a) == a >= Half
Signed(a) == IF Negative(a) THEN a - Word ELSE a
Complement(a) == Word - 1 - a
Wrap(n) == IF n < 0 THEN n + Word ELSE IF n >= Word THEN n - Word ELSE n
Bit(a, i) == (a \div 2^i) % 2 = 1

\* The word a shifted by 0 < k < W bits.
Lsl(a, k) == (a * 2^k) % Word
Lsr(a, k) == a \div 2^k
Asr(a, k) == (Signed(a) \div 2^k) % Word
Ror(a, k) == (Lsr(a, k) + Lsl(a, W - k)) % Word

\* Rs[7:0], the amount that a register asks for.
Amount(a) == a % 256

Shifts == {"lsl", "lsr", "asr", "ror"}

Shifted(shift, a, k) == CASE shift = "lsl" -> Lsl(a, k)
                          [] shift = "lsr" -> Lsr(a, k)
                          [] shift = "asr" -> Asr(a, k)
                          [] shift = "ror" -> Ror(a, k)

\* What a logical instruction computes.
LogicResult(op, a, b) == CASE op \in {"and", "tst"} -> Logic("and", a, b)
                           [] op = "orr" -> Logic("orr", a, b)
                           [] op \in {"eor", "teq"} -> Logic("eor", a, b)
                           [] op = "bic" -> Logic("and", a, Complement(b))
                           [] op = "mov" -> b
                           [] op = "mvn" -> Complement(b)

\* Instructions: the operation, whether it sets flags, its condition, the
\* destination, the first operand's register and the second operand, which is
\* a constant or a register shifted by a constant or by a register.
ArithOps == {"add", "sub", "rsb"}
CompareOps == {"cmp", "cmn"}
TestOps == {"tst", "teq"}
LogicOps == {"and", "orr", "eor", "bic", "mov", "mvn"}

Conditions == {"eq", "ne", "hs", "lo", "mi", "pl", "vs", "vc",
               "hi", "ls", "ge", "lt", "gt", "le", "al"}

Immediate == [kind : {"imm"}, val : Words]
ByConstant == [kind : {"const"}, m : Registers, shift : Shifts, k : 0..W]
ByRegister == [kind : {"reg"}, m : Registers, shift : Shifts, rs : Registers]

Instruction == [op : ArithOps \cup CompareOps \cup TestOps \cup LogicOps,
                s : BOOLEAN, cc : Conditions, d : Registers, n : Registers,
                src : Immediate \cup ByConstant \cup ByRegister]

\* Multiplications: of two registers, with a third to add, and to two words of
\* which d is the lower.
Multiply == [op : {"mul", "mla"}, s : BOOLEAN, cc : Conditions, d : Registers,
             n : Registers, m : Registers, a : Registers]
Long == [op : {"umull", "smull", "umlal", "smlal"}, s : BOOLEAN, cc : Conditions,
         d : Registers, h : Registers, n : Registers, m : Registers]

\* The compiler's functions for a processor that does not divide.
Divisions == {"divsi3", "udivsi3", "modsi3"}

Flags == [n : BOOLEAN, z : BOOLEAN, c : BOOLEAN, v : BOOLEAN]
=============================================================================
