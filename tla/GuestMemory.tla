---------------------------- MODULE GuestMemory ----------------------------
(***************************************************************************)
(* Guest memory as the accessors of src/runtime/include/ngage_runtime.h    *)
(* see it, little-endian bytes without alignment, and the loads and stores *)
(* that src/recompiler/lift.py is given.  A word is four bytes; the number *)
(* of values that a byte has is a constant.                                *)
(***************************************************************************)
EXTENDS Integers, FiniteSets

CONSTANTS Base,          \* 256: the values of a byte
          Memory,        \* the addresses of the guest's memory
          Registers,     \* their numbers
          Sp             \* 13: the register that push and pop use

Word == Base^4
Words == 0..(Word - 1)

ASSUME MemoryAssumption ==
  /\ Base \in Nat \ {0, 1} /\ Word % 4 = 0 /\ Memory \subseteq Words
  /\ Registers \subseteq 0..15 /\ Sp \in Registers /\ 4 * Cardinality(Registers) <= Word
  /\ Base^0 = 1 /\ Base^1 = Base /\ Base^2 = Base * Base /\ Base^3 = Base^2 * Base
  /\ Word = Base^3 * Base

Bytes(a, size) == {(a + k) % Word : k \in 0..(size - 1)}

\* The accesses that a program which keeps to its memory makes.
Inside(a, size) == Bytes(a, size) \subseteq Memory

\* ngage_r8, ngage_r16 and ngage_r32.
Read(mem, a, size) ==
  CASE size = 1 -> mem[a]
    [] size = 2 -> mem[a] + mem[(a + 1) % Word] * Base
    [] size = 4 -> mem[a] + mem[(a + 1) % Word] * Base + mem[(a + 2) % Word] * Base^2
                     + mem[(a + 3) % Word] * Base^3

\* ngage_w8, ngage_w16 and ngage_w32.
Written(mem, a, size, v) ==
  LET there == Bytes(a, size)
  IN [x \in Memory |-> IF x \in there THEN (v \div Base^((x - a) % Word)) % Base
                       ELSE mem[x]]

SignExtended(v, size) ==
  IF 2 * v >= Base^size THEN v + Word - Base^size ELSE v

\* One word or a part of it: the offset is a constant or a register shifted
\* left; "wb" and "post" write the base back.
Offset == [kind : {"imm"}, val : Words] \cup [kind : {"reg"}, m : Registers, k : Nat]

Single == [kind : {"single"}, load : BOOLEAN, size : {1, 2, 4}, signed : BOOLEAN,
           d : Registers, b : Registers, off : Offset, up : BOOLEAN,
           index : {"pre", "wb", "post"}]

\* Several words.
Block == [kind : {"block"}, load : BOOLEAN, mode : {"ia", "ib", "da", "db"},
          b : Registers, wb : BOOLEAN, list : (SUBSET Registers) \ {{}}]

\* push and pop; a pop into sp is undefined on the ARM.
Stack == [kind : {"push"}, list : (SUBSET Registers) \ {{}}]
           \cup [kind : {"pop"}, list : (SUBSET (Registers \ {Sp})) \ {{}}]

\* The bytes of a descriptor of a type before its text: EBufC, EPtrC, EPtr,
\* EBuf and EBufCPtr.
Header(a, type) == Bytes(a, CASE type \in {1, 3} -> 8
                              [] type \in {2, 4} -> 12
                              [] OTHER -> 4)

\* How many registers of a list come before r.
Position(list, r) == Cardinality({q \in list : q < r})
=============================================================================
