----------------------------- MODULE Allocator -----------------------------
(***************************************************************************)
(* What a caller of ngage_alloc / ngage_free may rely on, and nothing of   *)
(* how the heap keeps its blocks: a set of live chunks, each an 8-aligned  *)
(* address and the length that was asked for, which lie in the region and  *)
(* do not overlap.  Heap.tla is shown to implement this specification.     *)
(***************************************************************************)
EXTENDS Naturals

CONSTANTS Lo, Hi,      \* the region chunks may occupy: Lo <= address < Hi
          Lengths      \* the lengths callers ask for

VARIABLES live,        \* the chunks in use, records [ptr, len]
          result       \* what the last allocation returned, 0 for "no memory"

avars == <<live, result>>

Chunk == [ptr: Lo..Hi, len: Lengths]

\* Every chunk owns at least the byte its address names, so that two chunks
\* of length zero have different addresses.
Extent(c) == IF c.len = 0 THEN 1 ELSE c.len

Apart(c, d) == \/ c.ptr + Extent(c) <= d.ptr
               \/ d.ptr + Extent(d) <= c.ptr

Fits(c) == /\ c.ptr % 8 = 0
           /\ c.ptr + Extent(c) <= Hi
           /\ \A d \in live : Apart(c, d)

AInit == live = {} /\ result = 0

Grant(n) == \E p \in Lo..Hi :
              LET c == [ptr |-> p, len |-> n]
              IN  /\ Fits(c)
                  /\ live' = live \cup {c}
                  /\ result' = p

\* The promise allows an allocation to fail at any time: fragmentation may
\* keep a request from being served although enough bytes are unused.
Refuse == result' = 0 /\ UNCHANGED live

Release(c) == live' = live \ {c} /\ UNCHANGED result

ANext == \/ \E n \in Lengths : Grant(n)
         \/ Refuse
         \/ \E c \in live : Release(c)

ASpec == AInit /\ [][ANext]_avars
=============================================================================
