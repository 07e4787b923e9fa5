----------------------------- MODULE Transfers -----------------------------
(***************************************************************************)
(* Loads, stores and block transfers as src/recompiler/lift.py translates  *)
(* them to C: one action is the C statements of one instruction, in their  *)
(* order.  The base is written back after the access, by an expression     *)
(* that reads the registers again; block transfers take a copy of the base *)
(* first, push and pop do not.  Conditions are those of Lifted, and a load *)
(* of pc, which the C code makes a return, is left out.                    *)
(***************************************************************************)
EXTENDS GuestMemory

CONSTANTS Program,       \* the instructions that are executed
          TStarts,       \* registers and memory to start from
          MaxSteps       \* bound on the instructions of one execution

ASSUME TransfersAssumption ==
  /\ Program \subseteq Single \cup Block \cup Stack /\ MaxSteps \in Nat
  /\ \A i \in Program \cap Single : i.off.kind = "reg" => 2^i.off.k \in Nat
  /\ 2^0 = 1
  /\ TStarts \subseteq [Registers -> Words] \X [Memory -> 0..(Base - 1)]

VARIABLES reg,           \* c->r
          mem,           \* the bytes at c->mem
          steps          \* instructions executed

transferVars == <<reg, mem, steps>>

TransferInit == /\ \E s \in TStarts : reg = s[1] /\ mem = s[2]
        /\ steps = 0

-----------------------------------------------------------------------------
\* _mem: the base and the offset, evaluated with the registers r.  The
\* post-indexed form does not look at the shift of its index.
Displaced(r, i) ==
  LET off == IF i.off.kind = "imm" THEN i.off.val
             ELSE IF i.index = "post" THEN r[i.off.m]
             ELSE (r[i.off.m] * 2^i.off.k) % Word
  IN (IF i.up THEN r[i.b] + off ELSE r[i.b] - off) % Word

\* The address of the access.
Address(i) == IF i.index = "post" THEN reg[i.b] ELSE Displaced(reg, i)

Loaded(i, a) == LET val == Read(mem, a, i.size)
                IN IF i.signed THEN SignExtended(val, i.size) ELSE val

\* The access, then the update of the base.
LoadStore(i) ==
  LET a == Address(i)
      accessed == IF i.load THEN [reg EXCEPT ![i.d] = Loaded(i, a)] ELSE reg
  IN /\ Inside(a, i.size)
     /\ mem' = IF i.load THEN mem ELSE Written(mem, a, i.size, reg[i.d])
     /\ reg' = IF i.index = "pre" THEN accessed
               ELSE [accessed EXCEPT ![i.b] = Displaced(accessed, i)]

\* The words that registers have in r, stored at their places one after the
\* other, in ascending order of the registers (_reglist).
Stored(list, at, r) ==
  LET after[n \in 0..16] ==
        IF n = 0 THEN mem
        ELSE IF n - 1 \in list THEN Written(after[n - 1], at[n - 1], 4, r[n - 1])
        ELSE after[n - 1]
  IN after[16]

\* Slip: a block below the base starts a word too low.
Low_After(mode, n) == CASE mode = "ia" -> 0
                        [] mode = "ib" -> 4
                        [] mode \in {"da", "db"} -> -4 * n

\* The offset of the lowest word.
Low(mode, n) == CASE mode = "ia" -> 0
                  [] mode = "ib" -> 4
                  [] mode = "db" -> -4 * n
                  [] mode = "da" -> -4 * n + 4

\* _ldm_stm: the direction of the write-back is read off the lowest offset.
LdmStm(i) ==
  LET n == Cardinality(i.list)
      low == Low(i.mode, n)
      at == [r \in i.list |-> (reg[i.b] + low + 4 * Position(i.list, r)) % Word]
      loaded == [r \in Registers |-> IF i.load /\ r \in i.list THEN Read(mem, at[r], 4)
                                                               ELSE reg[r]]
  IN /\ \A r \in i.list : Inside(at[r], 4)
     /\ mem' = IF i.load THEN mem ELSE Stored(i.list, at, reg)
     /\ reg' = IF i.wb THEN [loaded EXCEPT ![i.b] =
                               (IF low >= 0 THEN reg[i.b] + 4 * n ELSE reg[i.b] - 4 * n) % Word]
               ELSE loaded

\* _push: sp moves first, and the words go up from it.
Push(list) ==
  LET sp == (reg[Sp] - 4 * Cardinality(list)) % Word
      below == [reg EXCEPT ![Sp] = sp]
      at == [r \in list |-> (sp + 4 * Position(list, r)) % Word]
  IN /\ \A r \in list : Inside(at[r], 4)
     /\ reg' = below
     /\ mem' = Stored(list, at, below)

\* The registers after the loads of a pop, each of which reads sp again.
Popped(list) ==
  LET after[n \in 0..16] ==
        IF n = 0 THEN reg
        ELSE IF n - 1 \in list
             THEN [after[n - 1] EXCEPT
                     ![n - 1] = Read(mem, (after[n - 1][Sp] + 4 * Position(list, n - 1)) % Word, 4)]
        ELSE after[n - 1]
  IN after[16]

\* _pop: sp moves last.
Pop(list) ==
  LET loaded == Popped(list)
  IN /\ \A q \in list : Inside((reg[Sp] + 4 * Position(list, q)) % Word, 4)
     /\ reg' = [loaded EXCEPT ![Sp] = (loaded[Sp] + 4 * Cardinality(list)) % Word]
     /\ UNCHANGED mem

Emit(i) == CASE i.kind = "single" -> LoadStore(i)
             [] i.kind = "block" -> LdmStm(i)
             [] i.kind = "push" -> Push(i.list)
             [] i.kind = "pop" -> Pop(i.list)

TransferNext == /\ steps < MaxSteps
        /\ steps' = steps + 1
        /\ \E i \in Program : Emit(i)

TransferSpec == TransferInit /\ [][TransferNext]_transferVars

-----------------------------------------------------------------------------
\* What the translation is exact for.  It loads before it moves the base, forgets
\* the shift of an index after the access, takes one register transferred
\* downwards ("da") with write-back to go upwards, and stores sp after it has
\* moved; a base that is loaded and written back is undefined on the ARM.
Exact(i) ==
  CASE i.kind = "single" ->
         /\ i.load /\ i.index # "pre" => i.d # i.b /\ (i.off.kind = "reg" => i.off.m # i.d)
         /\ i.index = "post" /\ i.off.kind = "reg" => i.off.k = 0
    [] i.kind = "block" -> i.wb => /\ i.load => i.b \notin i.list
                                   /\ i.mode = "da" => Cardinality(i.list) > 1
    [] i.kind = "push" -> Sp \notin i.list
    [] i.kind = "pop" -> TRUE

\* And where: at addresses that are multiples of the size.  At others the
\* accessors of the runtime take the bytes as they are (ngage_runtime.h:52-69),
\* where the ARM turns a loaded word and moves a stored one.
Aligned(i) == CASE i.kind = "single" -> Address(i) % i.size = 0
                [] i.kind = "block" -> reg[i.b] % 4 = 0
                [] i.kind \in {"push", "pop"} -> reg[Sp] % 4 = 0

\* The emitted C of every instruction whose access is aligned leaves the
\* registers and the bytes of memory as the ARM does, for every addressing form
\* in Program and with sequences of them (lift.py:305-434; recompiler/README.md:
\* 88-89 "pre- & post-index writeback, PUSH/POP/LDM/STM (ia/ib/da/db)").
A == INSTANCE ArmTransfers
TransfersImplementArm ==
  [][steps' # steps => \A i \in Program : Aligned(i) /\ Emit(i) => A!Execute(i)]_transferVars
=============================================================================
