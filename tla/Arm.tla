-------------------------------- MODULE Arm --------------------------------
(***************************************************************************)
(* Data processing on an ARMv4, after the architecture's definition: what  *)
(* the code that src/recompiler/lift.py emits has to do.  Subtraction is   *)
(* addition of the complement with a carry, and overflow is a signed sum   *)
(* that its word does not show.                                            *)
(***************************************************************************)
EXTENDS Words

VARIABLES reg,           \* the registers
          flags          \* N, Z, C and V

\* Whether an instruction with a condition is executed.
Passed(cc) ==
  CASE cc = "eq" -> flags.z
    [] cc = "ne" -> ~flags.z
    [] cc = "hs" -> flags.c
    [] cc = "lo" -> ~flags.c
    [] cc = "mi" -> flags.n
    [] cc = "pl" -> ~flags.n
    [] cc = "vs" -> flags.v
    [] cc = "vc" -> ~flags.v
    [] cc = "hi" -> flags.c /\ ~flags.z
    [] cc = "ls" -> ~(flags.c /\ ~flags.z)
    [] cc = "ge" -> flags.n = flags.v
    [] cc = "lt" -> ~(flags.n = flags.v)
    [] cc = "gt" -> ~flags.z /\ flags.n = flags.v
    [] cc = "le" -> ~(~flags.z /\ flags.n = flags.v)
    [] cc = "al" -> TRUE

\* The barrel shifter: the word a shifted by any amount, and its carry.
Shifter(shift, a, k) ==
  CASE k = 0 -> [val |-> a, c |-> flags.c]
    [] shift = "ror" /\ k # 0 /\ k % W = 0 -> [val |-> a, c |-> Bit(a, W - 1)]
    [] shift = "ror" /\ k % W # 0 ->
         [val |-> Ror(a, k % W), c |-> Bit(a, (k % W) - 1)]
    [] shift = "asr" /\ k >= W ->
         [val |-> IF Negative(a) THEN Word - 1 ELSE 0, c |-> Negative(a)]
    [] shift \in {"lsl", "lsr"} /\ k > W -> [val |-> 0, c |-> FALSE]
    [] shift \in {"lsl", "lsr"} /\ k = W ->
         [val |-> 0, c |-> IF shift = "lsl" THEN Bit(a, 0) ELSE Bit(a, W - 1)]
    [] shift # "ror" /\ 0 < k /\ k < W ->
         [val |-> Shifted(shift, a, k),
          c |-> IF shift = "lsl" THEN Bit(a, W - k) ELSE Bit(a, k - 1)]

Operand2(src) ==
  CASE src.kind = "imm" -> [val |-> src.val, c |-> flags.c]
    [] src.kind = "const" -> Shifter(src.shift, reg[src.m], src.k)
    [] src.kind = "reg" -> Shifter(src.shift, reg[src.m], Amount(reg[src.rs]))

AddWithCarry(a, b, carry) ==
  LET r == Wrap(a + b + carry)
  IN [r |-> r, f |-> [n |-> Negative(r), z |-> r = 0,
                      c |-> a + b + carry # r,
                      v |-> Signed(a) + Signed(b) + carry # Signed(r)]]

\* The result of an instruction and the flags that it leaves if it sets them.
Outcome(op, a, src) ==
  LET b == Operand2(src).val
      r == LogicResult(op, a, b)
  IN CASE op \in {"add", "cmn"} -> AddWithCarry(a, b, 0)
       [] op \in {"sub", "cmp"} -> AddWithCarry(a, Complement(b), 1)
       [] op = "rsb" -> AddWithCarry(b, Complement(a), 1)
       [] op \in TestOps \cup LogicOps ->
            [r |-> r, f |-> [n |-> Negative(r), z |-> r = 0,
                             c |-> Operand2(src).c, v |-> flags.v]]

RegistersAfter(i) ==
  IF i.op \in CompareOps \cup TestOps THEN reg
  ELSE [reg EXCEPT ![i.d] = Outcome(i.op, reg[i.n], i.src).r]

FlagsAfter(i) == IF i.s \/ i.op \in CompareOps \cup TestOps
                 THEN Outcome(i.op, reg[i.n], i.src).f ELSE flags

-----------------------------------------------------------------------------
\* Multiplications, as conditions on the registers and the flags f after them.
Others(after, changed) == \A r \in Registers \ changed : after[r] = reg[r]

\* The S-bit: N is the highest bit and Z says that there is no other; C is
\* unpredictable.  Without it no flag changes.
MultiplyFlags(s, negative, zero, f) ==
  IF s THEN f.n = negative /\ f.z = zero /\ f.v = flags.v ELSE f = flags

MultiplyDone(i, after, f) ==
  LET sum == reg[i.n] * reg[i.m] + (IF i.op = "mla" THEN reg[i.a] ELSE 0)
  IN /\ after[i.d] \in Words /\ (after[i.d] - sum) % Word = 0
     /\ Others(after, {i.d})
     /\ MultiplyFlags(i.s, after[i.d] >= Half, sum % Word = 0, f)

\* Two words together are the sum or the product, as a number of 2 * W bits.
LongDone(i, after, f) ==
  LET product == IF i.op \in {"umull", "umlal"} THEN reg[i.n] * reg[i.m]
                                                ELSE Signed(reg[i.n]) * Signed(reg[i.m])
      old == IF i.op \in {"umlal", "smlal"} THEN reg[i.h] * Word + reg[i.d] ELSE 0
  IN /\ after[i.h] \in Words /\ after[i.d] \in Words
     /\ (after[i.h] * Word + after[i.d] - (old + product)) % (Word * Word) = 0
     /\ Others(after, {i.d, i.h})
     /\ MultiplyFlags(i.s, after[i.h] >= Half, after[i.h] = 0 /\ after[i.d] = 0, f)

\* Division rounds to zero, and the remainder has the sign of the dividend.
Sized(n) == IF n < 0 THEN -n ELSE n
IsRemainder(a, b, r) == Sized(r) < Sized(b) /\ (a >= 0 => r >= 0) /\ (a <= 0 => r <= 0)

Divides(f, a, b, res) ==
  CASE f = "udivsi3" -> IsRemainder(a, b, a - b * res)
    [] f = "divsi3" -> IsRemainder(Signed(a), Signed(b), Signed(a) - Signed(b) * Signed(res))
    [] f = "modsi3" -> /\ IsRemainder(Signed(a), Signed(b), Signed(res))
                       /\ (Signed(a) - Signed(res)) % Sized(Signed(b)) = 0
=============================================================================
