---------------------------- MODULE MCTransfers ----------------------------
(* Bytes of two bits, words of four bytes, of which fifty are the memory,   *)
(* the argument registers and the stack pointer.  The descriptors are two   *)
(* places of twelve bytes and, in the image, an EBufC of two bytes and an   *)
(* EBufCPtr of at most two, before eight bytes of text.                     *)
EXTENDS Descriptors

Imm(v) == [kind |-> "imm", val |-> v]
Index(m, k) == [kind |-> "reg", m |-> m, k |-> k]
Ls(load, size, signed, d, b, off, up, index) ==
  [kind |-> "single", load |-> load, size |-> size, signed |-> signed, d |-> d,
   b |-> b, off |-> off, up |-> up, index |-> index]
Bl(load, mode, b, wb, list) ==
  [kind |-> "block", load |-> load, mode |-> mode, b |-> b, wb |-> wb, list |-> list]

MCProgram ==
  {Ls(load, size, FALSE, 0, 1, Imm(4), up, index) :
     load \in BOOLEAN, size \in {1, 2, 4}, up \in BOOLEAN, index \in {"pre", "wb", "post"}}
  \cup {Ls(load, 4, FALSE, 0, 1, Imm(0), TRUE, "pre") : load \in BOOLEAN}
  \cup {Ls(TRUE, size, TRUE, 1, 1, Imm(1), TRUE, "pre") : size \in {1, 2}}
  \cup {Ls(load, 4, FALSE, 0, 1, Index(0, k), up, "pre") :
          load \in BOOLEAN, k \in {0, 1}, up \in BOOLEAN}
  \cup {Ls(FALSE, 2, FALSE, 13, 1, Index(0, 1), up, "wb") : up \in BOOLEAN}
  \cup {Ls(FALSE, 2, FALSE, 13, 1, Index(0, 0), up, "post") : up \in BOOLEAN}
  \cup {Bl(load, mode, 1, FALSE, list) :
          load \in BOOLEAN, mode \in {"ia", "ib", "da", "db"}, list \in {{0}, {0, 1}, {1, 13}}}
  \cup {Bl(load, mode, 1, TRUE, {0, 13}) :
          load \in BOOLEAN, mode \in {"ia", "ib", "da", "db"}}
  \cup {Bl(load, mode, 1, TRUE, {0}) : load \in BOOLEAN, mode \in {"ia", "ib", "db"}}
  \cup {Bl(FALSE, mode, 0, TRUE, {0, 1}) : mode \in {"ia", "ib", "da", "db"}}
  \cup {[kind |-> kind, list |-> list] : kind \in {"push", "pop"}, list \in {{0}, {0, 1}}}

ASSUME ProgramIsExact == \A i \in Program : Exact(i)

MCMemory == 4..53
MCRegisters == 0..3 \cup {13}
Filled(values) == [x \in MCMemory |-> IF x \in DOMAIN values THEN values[x] ELSE 0]

MCStarts ==
  {[r \in MCRegisters |-> CASE r = 0 -> a [] r = 1 -> b [] r = 13 -> s [] OTHER -> 0] :
     a \in {2, 12}, <<b, s>> \in {<<4, 8>>, <<7, 52>>, <<52, 8>>}}
  \X {[x \in MCMemory |-> (x * x + x \div 4) % 4]}

MCTexts == {46}
MCLiterals == {28, 34}
MCDStarts ==
  {<<[r \in MCRegisters |-> 0],
     Filled((28 :> 2) @@ (32 :> 1) @@ (33 :> 2)
            @@ (34 :> 1) @@ (37 :> 1) @@ (38 :> 2) @@ (42 :> 2) @@ (43 :> 3) @@ (44 :> 2)
            @@ (46 :> 1) @@ (48 :> 2) @@ (52 :> 3))>>}
=============================================================================
