---------------------------- MODULE Descriptors ----------------------------
(***************************************************************************)
(* Symbian descriptors in guest memory, as src/runtime/src/desc.c decodes  *)
(* them and the imports of hle/descriptors.c, hle/euser.c and hle/efsrv.c  *)
(* build and use them, between the loads and stores of generated code.     *)
(*                                                                         *)
(* The program keeps to the contract of the calls, which the imports do    *)
(* not check: descriptors are built in its own places, a length is not set *)
(* above the maximum, a text that is terminated has room for the zero, no  *)
(* more is copied or filled than the target holds, and its own stores do   *)
(* not hit what is before a text.  A file read is bounded by the import.   *)
(***************************************************************************)
EXTENDS Transfers, SequencesExt

CONSTANTS Places,        \* where a program with descriptors builds them
          Room,          \* the bytes there, for what is before a text and a text
          Literals,      \* those in its image
          Texts,         \* where it keeps other text
          Lengths,       \* the lengths, maxima and byte values it asks for
          DStarts,       \* registers and memory that it starts from
          MaxUses,       \* bound on the calls and instructions of a program with them
          Nothing        \* no descriptor

ASSUME DescriptorsAssumption ==
  /\ Places \cup Literals \cup Texts \subseteq Memory /\ Lengths \subseteq 0..(Base - 1)
  /\ \A o \in Places : Bytes(o, Room) \subseteq Memory /\ Room >= 12
  /\ 0..3 \subseteq Registers /\ Word % 16 = 0 /\ MaxUses \in Nat
  /\ DStarts \subseteq [Registers -> Words] \X [Memory -> 0..(Base - 1)]

VARIABLES places,        \* where this program builds descriptors
          live,          \* where there is a descriptor
          calls          \* imports called

dvars == <<reg, mem, steps, places, live, calls>>

\* A program without descriptors, or with them.
DInit == /\ \/ TransferInit /\ places = {} /\ live = {}
            \/ /\ \E s \in DStarts : reg = s[1] /\ mem = s[2]
               /\ steps = 0 /\ places = Places /\ live = Literals
         /\ calls = 0

-----------------------------------------------------------------------------
\* The first word: the type in the top 4 bits, the length below.
Unit == Word \div 16
DesType(w) == w \div Unit
DesLen(w) == w % Unit

\* ngage_desc.
Desc(a) ==
  LET word(k) == Read(mem, (a + k) % Word, 4)
      first == word(0)
      type == DesType(first)
      len == DesLen(first)
  IN [type |-> type, len |-> len,
      max |-> IF type \in {2, 3, 4} THEN word(4) ELSE len,
      ptr |-> CASE type = 1 -> word(4)
                [] type \in {2, 4} -> word(8)
                [] type = 3 -> (a + 8) % Word
                [] OTHER -> (a + 4) % Word]

\* Slip: the type is not kept.
WithLen_Alone(m, a, n) == Written(m, a, 4, n % Unit)

\* ngage_desc_setlen.
WithLen(m, a, n) == Written(m, a, 4, DesType(Read(m, a, 4)) * Unit + (n % Unit))

\* Words stored one after the other.
WithWords(m, a, ws) ==
  FoldLeftDomain(LAMBDA acc, k : Written(acc, (a + 4 * (k - 1)) % Word, 4, ws[k]), m, ws)

\* n bytes at p with the values v(0) to v(n - 1).
WithBytes(m, p, n, v(_)) ==
  LET there == Bytes(p, n)
  IN [x \in Memory |-> IF x \in there THEN v((x - p) % Word) ELSE m[x]]

\* The call of an import: arguments in the first registers, the answer in r0.
Called(args, m, answer) ==
  /\ steps + calls < MaxUses /\ calls' = calls + 1
  /\ mem' = m
  /\ reg' = [r \in Registers |-> IF r = 0 THEN answer
                                 ELSE IF r < Len(args) THEN args[r + 1] ELSE reg[r]]
  /\ UNCHANGED <<steps, places>>

Constructed(args, ws) == /\ Called(args, WithWords(mem, args[1], ws), args[1])
                         /\ live' = live \cup {args[1]}

-----------------------------------------------------------------------------
TPtr8_pm(o, p, m) == Constructed(<<o, p, m>>, <<2 * Unit, m, p>>)

TPtr8_plm(o, p, l, m) == /\ l <= m
                         /\ Constructed(<<o, p, l, m>>, <<2 * Unit + DesLen(l), m, p>>)

TBufBase(o, m) == Constructed(<<o, m>>, <<3 * Unit, m>>)

\* The string's length, if it ends.
TPtrC16_z(o, s) ==
  \E n \in 0..Cardinality(Memory) :
    /\ Inside(s, 2 * (n + 1))
    /\ \A k \in 0..n : (Read(mem, s + 2 * k, 2) = 0) <=> k = n
    /\ Constructed(<<o, s>>, <<Unit + DesLen(n), s>>)

Modifiable == {s \in live : Desc(s).type \in {2, 3, 4}}

Ptr(s) == Called(<<s>>, mem, Desc(s).ptr) /\ UNCHANGED live

Length(s) == Called(<<s>>, mem, Desc(s).len) /\ UNCHANGED live

SetLength(s, n) == /\ n <= Desc(s).max
                   /\ Called(<<s, n>>, WithLen(mem, s, n), s)
                   /\ UNCHANGED live

PtrZ(s) == LET d == Desc(s)
           IN /\ d.len < d.max
              /\ Called(<<s>>, WithBytes(mem, (d.ptr + d.len) % Word, 1, LAMBDA k : 0), d.ptr)
              /\ UNCHANGED live

\* memcpy of one descriptor's text to another's, which may be the same.
MemCpy(s, t) ==
  LET dst == Desc(s).ptr
      src == Desc(t).ptr
      n == Desc(t).len
  IN /\ n <= Desc(s).max /\ Desc(t).type # 1
     /\ Called(<<dst, src, n>>, WithBytes(mem, dst, n, LAMBDA k : mem[(src + k) % Word]), dst)
     /\ UNCHANGED live

\* memset; Mem::FillZ with the byte 0 has no such argument.
MemSet(s, b, n) ==
  LET dst == Desc(s).ptr
  IN /\ n <= Desc(s).max
     /\ \/ Called(<<dst, b, n>>, WithBytes(mem, dst, n, LAMBDA k : b), dst)
        \/ b = 0 /\ Called(<<dst, n>>, WithBytes(mem, dst, n, LAMBDA k : 0), dst)
     /\ UNCHANGED live

\* Slip: what is wanted is not cut to the maximum.
Readable_All(s, want) == want

\* read_into: as many bytes as are wanted, fit and are in the file.
Readable(s, want) == IF want > Desc(s).max THEN Desc(s).max ELSE want

RFileRead(s, args, want) ==
  \E got \in 0..Readable(s, want) :
    /\ Called(args, WithLen(WithBytes(mem, Desc(s).ptr, got, LAMBDA k : Base - 1), s, got), 0)
    /\ UNCHANGED live

Construct(o) ==
  \/ \E p \in Texts : \/ TPtrC16_z(o, p)
                      \/ \E m \in Lengths : /\ Inside(p, m)
                                            /\ \/ TPtr8_pm(o, p, m)
                                               \/ \E l \in Lengths : TPtr8_plm(o, p, l, m)
  \/ \E m \in Lengths : 8 + m <= Room /\ TBufBase(o, m)

Use(s) == \/ PtrZ(s)
          \/ \E t \in live : MemCpy(s, t)
          \/ \E n \in Lengths : \/ SetLength(s, n)
                                \/ \E b \in Lengths : MemSet(s, b, n)
                                \/ RFileRead(s, <<0, s, n>>, n)
          \/ RFileRead(s, <<0, s>>, Desc(s).max)

\* An instruction, which leaves what is before the texts alone; programs with
\* descriptors are followed through their stores only.
Compute == /\ TransferNext /\ UNCHANGED <<places, live, calls>>
           /\ places # {} => steps + calls < MaxUses /\ mem' # mem
           /\ \A s \in live : \A x \in Header(s, Desc(s).type) : mem'[x] = mem[x]

DNext == \/ Compute
         \/ \E o \in places : Construct(o)
         \/ \E s \in live : Ptr(s) \/ Length(s)
         \/ \E s \in Modifiable : Use(s)

DSpec == DInit /\ [][DNext]_dvars

-----------------------------------------------------------------------------
\* Through every sequence of these calls and of stores to texts, a descriptor
\* keeps the type, the maximum and the pointer that it was built with, its
\* length stays within its maximum, and a call changes the text of no
\* descriptor but its own, and no byte of any other (desc.c:14-32,
\* descriptors.c:14-56, efsrv.c:86-99; ngage_runtime.h:124-129).
S == INSTANCE Strings WITH
  Places <- Places \cup Literals,
  desc <- [s \in Places \cup Literals |-> IF s \in live THEN Desc(s) ELSE Nothing],
  text <- [x \in Memory \ UNION {Header(s, Desc(s).type) : s \in live} |-> mem[x]]
ImplementsStrings == S!Spec
=============================================================================
