------------------------------- MODULE Heap -------------------------------
(***************************************************************************)
(* The guest heap of the runtime (src/runtime/src/heap.c).                 *)
(*                                                                         *)
(* Blocks are laid end to end from g_base to the frontier g_brk.  Each has *)
(* an 8-byte header (size, then the free flag) at its own address and its  *)
(* payload after it.  An allocation takes the first free block that is     *)
(* large enough, whole, or extends the frontier; a free only sets the flag.*)
(* All C arithmetic is on uint32_t, here modulo Word.                      *)
(***************************************************************************)
EXTENDS Naturals

CONSTANTS Word,        \* the modulus of unsigned arithmetic (2^32 in C)
          Base, Size,  \* the arguments of ngage_heap_init
          Requests     \* the sizes callers ask for, any unsigned word

Wrap(x) == IF x < Word THEN x ELSE x - Word    \* of the sum of two words

RoundUp8(n) == Wrap(n + 7) - (Wrap(n + 7) % 8)     \* (n + 7u) & ~7u

GBase == RoundUp8(Base)
End   == Base + Size

ASSUME HeapAssumption ==
  /\ Word \in Nat /\ Word > 16 /\ Word % 8 = 0
  /\ Base \in Nat /\ Size \in Nat
  /\ Base > 0 /\ Base + 7 < Word /\ GBase <= End /\ End < Word
  /\ Requests \subseteq 0..(Word - 1)

VARIABLES brk,         \* g_brk
          size, free,  \* the two header words, by header address
          asked,       \* history: the size the block's last caller asked for
          dirty,       \* the words of the region that may hold a non-zero value
          result       \* what the last allocation returned

vars == <<brk, size, free, asked, dirty, result>>

Headers == DOMAIN size

\* The payload size a request gets: a multiple of 8, never 0.
CellSize(n) == IF RoundUp8(n) = 0 THEN 8 ELSE RoundUp8(n)

\* The frontier after a block of payload size s, as the C expression has it.
Frontier(s) == Wrap(Wrap(brk + 8) + s)

HasRoom(s) == Frontier(s) <= End

\* The words written by a loop `for (i = 0; i < n; i += 4)` at p + i.
WordsOf(p, n) == {a \in p..(p + n) : a < p + n /\ (a - p) % 4 = 0}

Init == /\ brk = GBase
        /\ size = [h \in {} |-> 0]
        /\ free = [h \in {} |-> FALSE]
        /\ asked = [h \in {} |-> 0]
        /\ dirty = WordsOf(GBase, End - GBase)     \* nobody cleared the window
        /\ result = 0

-----------------------------------------------------------------------------
\* The walk `for (p = g_base; p < g_brk; p += 8 + bsize)` visits the headers
\* below the frontier in address order (WalkVisitsEveryBlock below).
\* Slips a change to the walk could make: the size test or the flag test lost.
Fitting_NoSize(s) == {h \in Headers : h < brk /\ free[h]}
Fitting_NoFlag(s) == {h \in Headers : h < brk /\ size[h] >= s}

Fitting(s) == {h \in Headers : h < brk /\ free[h] /\ size[h] >= s}

FirstFit(s, h) == h \in Fitting(s) /\ \A k \in Fitting(s) : h <= k

\* Slip: the block is cut to the request, the rest of it is not carved.
Reuse_Cut(n, h) ==
  /\ FirstFit(CellSize(n), h)
  /\ free' = [free EXCEPT ![h] = FALSE]
  /\ size' = [size EXCEPT ![h] = CellSize(n)]
  /\ asked' = [asked EXCEPT ![h] = n]
  /\ result' = h + 8
  /\ UNCHANGED brk

Reuse(n, h) ==
  /\ FirstFit(CellSize(n), h)
  /\ free' = [free EXCEPT ![h] = FALSE]
  /\ asked' = [asked EXCEPT ![h] = n]
  /\ result' = h + 8
  /\ UNCHANGED <<brk, size>>

Extend(f, h, v) == [k \in DOMAIN f \cup {h} |-> IF k = h THEN v ELSE f[k]]

\* Slip: the frontier forgets the 8 bytes of the header.
Bump_NoHeader(n) ==
  /\ Fitting(CellSize(n)) = {}
  /\ HasRoom(CellSize(n))
  /\ size' = Extend(size, brk, CellSize(n))
  /\ free' = Extend(free, brk, FALSE)
  /\ asked' = Extend(asked, brk, n)
  /\ result' = Wrap(brk + 8)
  /\ brk' = Wrap(brk + CellSize(n))

Bump(n) ==
  /\ Fitting(CellSize(n)) = {}
  /\ HasRoom(CellSize(n))
  /\ size' = Extend(size, brk, CellSize(n))
  /\ free' = Extend(free, brk, FALSE)
  /\ asked' = Extend(asked, brk, n)
  /\ result' = Wrap(brk + 8)
  /\ brk' = Frontier(CellSize(n))

OutOfMemory(n) ==
  /\ Fitting(CellSize(n)) = {}
  /\ ~HasRoom(CellSize(n))
  /\ result' = 0
  /\ UNCHANGED <<brk, size, free, asked>>

Allocate(n) == \/ \E h \in Headers : Reuse(n, h)
               \/ Bump(n)
               \/ OutOfMemory(n)

\* ngage_alloc: the payload keeps whatever the last owner left in it.
Alloc(n) == Allocate(n) /\ UNCHANGED dirty

\* ngage_alloc_zeroed: clears the rounded request, not the whole block, which
\* may be larger when it is a reused one.
\* Slip: the request is rounded down, its last words keep their old value.
AllocZeroed_RoundDown(n) ==
  /\ Allocate(n)
  /\ dirty' = IF result' = 0 THEN dirty
              ELSE dirty \ WordsOf(result', n - (n % 8))

AllocZeroed(n) ==
  /\ Allocate(n)
  /\ dirty' = IF result' = 0 THEN dirty
              ELSE dirty \ WordsOf(result', RoundUp8(n))

\* Slip: the flag is written into the payload instead of the header.
Free_InPayload(h) == /\ free' = Extend(free, h + 8, TRUE)
                     /\ UNCHANGED <<brk, size, asked, dirty, result>>

\* ngage_free(NULL) does nothing; otherwise the flag word at ptr - 4 is set.
Free(h) == /\ free' = [free EXCEPT ![h] = TRUE]
           /\ UNCHANGED <<brk, size, asked, dirty, result>>

Live == {h \in Headers : ~free[h]}

\* The owner of a block fills it, up to the size it asked for.
GuestWrite(h) == /\ dirty' = dirty \cup WordsOf(h + 8, asked[h])
                 /\ UNCHANGED <<brk, size, free, asked, result>>

Next == \/ \E n \in Requests : Alloc(n)
        \/ \E n \in Requests : AllocZeroed(n)
        \/ \E h \in Live : Free(h)
        \/ \E h \in Live : GuestWrite(h)

Spec == Init /\ [][Next]_vars

-----------------------------------------------------------------------------
TypeOK ==
  /\ brk \in 0..(Word - 1)
  /\ size \in [Headers -> 0..(Word - 1)] /\ Headers \subseteq 0..(Word - 1)
  /\ free \in [Headers -> BOOLEAN]
  /\ asked \in [Headers -> Requests]
  /\ dirty \subseteq 0..(Word - 1)
  /\ result \in 0..(Word - 1)

\* No request is so large that rounding it up or adding it to the frontier
\* leaves the unsigned word.  It is what the callers must respect for the
\* heap to keep its promise: heap.c does not check it.
RequestsDoNotWrap == \A n \in Requests : End + n + 16 < Word

\* After h comes the next header or the frontier.
After(h) == h + 8 + size[h]

\* The walk of ngage_alloc (heap.c:27-38) starts at a header, meets every
\* block ever carved, and stops exactly at the frontier: no block is lost to
\* the walk, and none is read at an address that is not a header.
WalkVisitsEveryBlock ==
  /\ GBase \in Headers \cup {brk}
  /\ \A h \in Headers : /\ h >= GBase /\ size[h] > 0
                        /\ After(h) \in Headers \cup {brk}
                        /\ \A k \in Headers : k > h => k >= After(h)

\* A block handed out is as large as its caller asked, and ends inside the
\* region given to ngage_heap_init: anything that does not fit is answered 0
\* (ngage_runtime.h:118 "0 = OOM").
LiveCoversRequest ==
  \A h \in Live : asked[h] <= size[h] /\ After(h) <= End

\* ngage_alloc_zeroed returns memory that reads zero over the request (heap.c
\* 48-55, the guarantee CBase's operator new gives to the game), whatever the
\* block's earlier owners left there, and clears no word of another live block.
ZeroedReadsZero ==
  [][\A n \in Requests : AllocZeroed(n) =>
       /\ result' # 0 => WordsOf(result', n) \cap dirty' = {}
       /\ \A h \in Live : WordsOf(h + 8, size[h]) \cap dirty \subseteq dirty']_vars

\* Memory that was handed out once is never cut off from the heap: the
\* frontier never moves back and a block never changes its size.
BlocksArePermanent ==
  [][/\ brk' >= brk
     /\ \A h \in Headers : h \in DOMAIN size' /\ size'[h] = size[h]]_vars

\* The heap as an allocator of non-overlapping chunks: what Allocator.tla says.
Promise == INSTANCE Allocator WITH
             Lo <- GBase, Hi <- End, Lengths <- Requests,
             live <- {[ptr |-> h + 8, len |-> asked[h]] : h \in Live}

ImplementsAllocator == Promise!ASpec
=============================================================================
