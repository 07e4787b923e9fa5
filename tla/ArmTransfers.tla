---------------------------- MODULE ArmTransfers ----------------------------
(***************************************************************************)
(* Loads and stores on an ARMv4, after the architecture's definition: what *)
(* the code that src/recompiler/lift.py emits has to do.  All addresses    *)
(* come from the registers as they were before the instruction.  Words are *)
(* accessed at multiples of four: the two lowest bits of an address choose *)
(* how a loaded word is turned, and nothing else.  Halfwords at odd        *)
(* addresses are unpredictable, and not a case to compare with.            *)
(***************************************************************************)
EXTENDS GuestMemory

VARIABLES reg, mem

Signed(up, n) == IF up THEN n ELSE -n

OffsetOf(off) == IF off.kind = "imm" THEN off.val ELSE reg[off.m] * 2^off.k

\* The address that is accessed, and the word w turned right by n bytes.
WordAt(a) == a - (a % 4)
AccessedAt(a, size) == IF size = 4 THEN WordAt(a) ELSE a
Turned(w, n) == (w \div Base^n + w * Base^(4 - n)) % Word

TransferSingle(i) ==
  LET moved == (reg[i.b] + Signed(i.up, OffsetOf(i.off))) % Word
      a == IF i.index = "post" THEN reg[i.b] ELSE moved
      at == AccessedAt(a, i.size)
      val == Turned(Read(mem, at, i.size), a - at)
      based == IF i.index = "pre" THEN reg ELSE [reg EXCEPT ![i.b] = moved]
  IN /\ Inside(at, i.size)
     /\ IF i.load
        THEN /\ reg' = [based EXCEPT ![i.d] = IF i.signed THEN SignExtended(val, i.size)
                                                          ELSE val]
             /\ UNCHANGED mem
        ELSE /\ mem' = Written(mem, at, i.size, reg[i.d])
             /\ reg' = based

\* Upwards the first register is the nearest to the base, downwards the last;
\* the base is moved before or after each.
Place(list, r, base, up, before) ==
  LET steps == IF up THEN Position(list, r)
                     ELSE Cardinality(list) - 1 - Position(list, r)
  IN (base + Signed(up, 4 * (steps + (IF before THEN 1 ELSE 0)))) % Word

TransferBlock(load, list, b, up, before, wb) ==
  LET at(r) == WordAt(Place(list, r, reg[b], up, before))
      moved == (reg[b] + Signed(up, 4 * Cardinality(list))) % Word
      based == IF wb THEN [reg EXCEPT ![b] = moved] ELSE reg
  IN /\ \A r \in list : Inside(at(r), 4)
     /\ IF load
        THEN /\ reg' = [r \in Registers |-> IF r \in list THEN Read(mem, at(r), 4)
                                                          ELSE based[r]]
             /\ UNCHANGED mem
        ELSE /\ reg' = based
             /\ mem' = [x \in Memory |->
                          IF \E r \in list : x \in Bytes(at(r), 4)
                          THEN LET r == CHOOSE r \in list : x \in Bytes(at(r), 4)
                               IN Written(mem, at(r), 4, reg[r])[x]
                          ELSE mem[x]]

Execute(i) ==
  CASE i.kind = "single" -> TransferSingle(i)
    [] i.kind = "block" -> TransferBlock(i.load, i.list, i.b, i.mode \in {"ia", "ib"},
                                         i.mode \in {"ib", "db"}, i.wb)
    [] i.kind = "push" -> TransferBlock(FALSE, i.list, Sp, FALSE, TRUE, TRUE)
    [] i.kind = "pop" -> TransferBlock(TRUE, i.list, Sp, TRUE, FALSE, TRUE)
=============================================================================
