------------------------------- MODULE Lifted -------------------------------
(***************************************************************************)
(* Data processing as src/recompiler/lift.py translates it to C and as the *)
(* helpers of src/runtime/include/ngage_runtime.h compute it: one action   *)
(* is the C statement of one instruction.  A C shift by the width of the   *)
(* word is undefined and may give any word.                                *)
(***************************************************************************)
EXTENDS Words

CONSTANTS Program,       \* the instructions that are executed
          NoCompare      \* the flags are not those of a comparison

ASSUME ProgramAssumption ==
  Program \subseteq Instruction /\ NoCompare \notin Words \X Words

VARIABLES reg,           \* c->r
          flags,         \* c->cpsr
          compared       \* history: the operands of the CMP that set the flags

vars == <<reg, flags, compared>>

Init == /\ reg \in [Registers -> Words] /\ flags \in Flags
        /\ compared = NoCompare

-----------------------------------------------------------------------------
\* Slip: equality is left out.
Holds_NoZero(cc) ==
  CASE cc = "eq" -> flags.z
    [] cc = "ne" -> ~flags.z
    [] cc = "hs" -> flags.c
    [] cc = "lo" -> ~flags.c
    [] cc = "mi" -> flags.n
    [] cc = "pl" -> ~flags.n
    [] cc = "vs" -> flags.v
    [] cc = "vc" -> ~flags.v
    [] cc = "hi" -> flags.c /\ ~flags.z
    [] cc = "ls" -> ~flags.c
    [] cc = "ge" -> flags.n = flags.v
    [] cc = "lt" -> flags.n # flags.v
    [] cc = "gt" -> ~flags.z /\ flags.n = flags.v
    [] cc = "le" -> flags.z \/ flags.n # flags.v
    [] cc = "al" -> TRUE

\* The table CC: the C condition of the statement's guard.
Holds(cc) ==
  CASE cc = "eq" -> flags.z
    [] cc = "ne" -> ~flags.z
    [] cc = "hs" -> flags.c
    [] cc = "lo" -> ~flags.c
    [] cc = "mi" -> flags.n
    [] cc = "pl" -> ~flags.n
    [] cc = "vs" -> flags.v
    [] cc = "vc" -> ~flags.v
    [] cc = "hi" -> flags.c /\ ~flags.z
    [] cc = "ls" -> ~flags.c \/ flags.z
    [] cc = "ge" -> flags.n = flags.v
    [] cc = "lt" -> flags.n # flags.v
    [] cc = "gt" -> ~flags.z /\ flags.n = flags.v
    [] cc = "le" -> flags.z \/ flags.n # flags.v
    [] cc = "al" -> TRUE

\* ngage_lsl, ngage_lsr, ngage_asr and ngage_ror.
ByAmount(shift, a, k) ==
  CASE shift \in {"lsl", "lsr"} /\ k >= W -> 0
    [] shift = "asr" /\ k >= W -> Asr(a, W - 1)
    [] shift = "ror" /\ k % W = 0 -> a
    [] shift = "ror" /\ k % W # 0 -> Ror(a, k % W)
    [] OTHER -> IF k = 0 THEN a ELSE Shifted(shift, a, k)

\* src: the values that the C expression of the second operand may have.
Values(src) ==
  CASE src.kind = "imm" -> {src.val}
    [] src.kind = "const" /\ src.k = 0 -> {reg[src.m]}
    [] src.kind = "const" /\ 0 < src.k /\ src.k < W ->
         {Shifted(src.shift, reg[src.m], src.k)}
    [] src.kind = "const" /\ src.k = W -> Words
    [] src.kind = "reg" -> {ByAmount(src.shift, reg[src.m], Amount(reg[src.rs]))}

\* ngage_set_nz: C and V stay.
SetNZ(r) == [flags EXCEPT !.n = Negative(r), !.z = (r = 0)]

\* ngage_add_flags without a carry.
AddFlags(a, b) ==
  LET r == Wrap(a + b)
  IN [n |-> Negative(r), z |-> r = 0, c |-> a + b >= Word,
      v |-> Negative(a) = Negative(b) /\ Negative(a) # Negative(r)]

\* Slip: the carry is a borrow.
SubFlags_Borrow(a, b) ==
  LET r == Wrap(a - b)
  IN [n |-> Negative(r), z |-> r = 0, c |-> a < b,
      v |-> Negative(a) # Negative(b) /\ Negative(a) # Negative(r)]

\* ngage_sub_flags: C is set when there is no borrow.
SubFlags(a, b) ==
  LET r == Wrap(a - b)
  IN [n |-> Negative(r), z |-> r = 0, c |-> a >= b,
      v |-> Negative(a) # Negative(b) /\ Negative(a) # Negative(r)]

\* Slip: a sum is not brought back to a word.
Result_Wide(op, a, b) == CASE op = "add" -> a + b
                           [] op = "sub" -> Wrap(a - b)
                           [] op = "rsb" -> Wrap(b - a)
                           [] op \in LogicOps -> LogicResult(op, a, b)

\* _body: the value assigned to the destination.
Result(op, a, b) == CASE op = "add" -> Wrap(a + b)
                      [] op = "sub" -> Wrap(a - b)
                      [] op = "rsb" -> Wrap(b - a)
                      [] op \in LogicOps -> LogicResult(op, a, b)

\* _body: the flags after an instruction that sets them.
NewFlags(op, a, b) == CASE op \in {"add", "cmn"} -> AddFlags(a, b)
                        [] op \in {"sub", "cmp"} -> SubFlags(a, b)
                        [] op = "rsb" -> SubFlags(b, a)
                        [] op \in TestOps \cup LogicOps -> SetNZ(LogicResult(op, a, b))

Compares(i) == i.op \in CompareOps \cup TestOps

\* The registers and the flags after the statement, with the operand b.
Assigned(i, b) == IF Compares(i) THEN reg
                  ELSE [reg EXCEPT ![i.d] = Result(i.op, reg[i.n], b)]
Flagged(i, b) == IF i.s \/ Compares(i) THEN NewFlags(i.op, reg[i.n], b) ELSE flags

Body(i) ==
  \E b \in Values(i.src) :
    /\ reg' = Assigned(i, b)
    /\ flags' = Flagged(i, b)
    /\ compared' = IF i.op = "cmp" THEN <<reg[i.n], b>>
                   ELSE IF i.s \/ Compares(i) THEN NoCompare ELSE compared

\* emit and _guard.
Emit(i) == IF Holds(i.cc) THEN Body(i) ELSE UNCHANGED vars

Next == \E i \in Program : Emit(i)

Spec == Init /\ [][Next]_vars

-----------------------------------------------------------------------------
TypeOK == /\ reg \in [Registers -> Words] /\ flags \in Flags
          /\ compared \in (Words \X Words) \cup {NoCompare}

\* The conditions of the instructions after a CMP are the comparisons of its
\* operands, signed and unsigned, up to the next instruction that sets flags
\* (lift.py:33-48 with ngage_runtime.h:103-110).
ConditionsCompare ==
  compared # NoCompare =>
    LET a == compared[1]
        b == compared[2]
    IN /\ Holds("eq") <=> a = b
       /\ Holds("ne") <=> a # b
       /\ Holds("hs") <=> a >= b
       /\ Holds("lo") <=> a < b
       /\ Holds("hi") <=> a > b
       /\ Holds("ls") <=> a <= b
       /\ Holds("ge") <=> Signed(a) >= Signed(b)
       /\ Holds("lt") <=> Signed(a) < Signed(b)
       /\ Holds("gt") <=> Signed(a) > Signed(b)
       /\ Holds("le") <=> Signed(a) <= Signed(b)

\* Instructions whose translation is the ARM's: no constant shift by the width
\* of a word, which C leaves undefined, and no flags of a logical instruction
\* whose operand may have a carry of its own.
Exact(i) ==
  /\ i.src.kind = "const" => i.src.k < W
  /\ (i.s \/ Compares(i)) /\ i.op \in LogicOps \cup TestOps =>
       i.src.kind = "const" /\ i.src.k = 0

\* In every state the emitted C of every instruction does what the ARM does: it
\* is executed under the same condition, and leaves the same registers and the
\* same flags (README of the recompiler, lines 86-91, "Handled: ... the S-bit").
A == INSTANCE Arm
ImplementsArm ==
  \A i \in Program :
    /\ Holds(i.cc) <=> A!Passed(i.cc)
    /\ \A b \in Values(i.src) : /\ Assigned(i, b) = A!RegistersAfter(i)
                                /\ Flagged(i, b) = A!FlagsAfter(i)
=============================================================================
