----------------------------- MODULE HeapProofs -----------------------------
(***************************************************************************)
(* Theorems about Heap for every window, word size and set of requests     *)
(* that RequestsDoNotWrap admits.                                          *)
(***************************************************************************)
EXTENDS Heap, TLAPS

(***************************************************************************)
(* The inductive invariant.  The frontier and the headers are aligned and  *)
(* lie in the region; blocks in address order do not overlap; the end of   *)
(* each is the next header or the frontier; and no block is smaller than   *)
(* what its last caller asked for.                                         *)
(***************************************************************************)
FrontierOK == brk \in Nat /\ brk % 8 = 0 /\ GBase <= brk /\ brk <= End

BlockOK(h) == /\ h \in Nat /\ h % 8 = 0 /\ GBase <= h
              /\ size[h] \in Nat /\ size[h] % 8 = 0 /\ size[h] >= 8
              /\ h + 8 + size[h] <= brk
              /\ free[h] \in BOOLEAN
              /\ asked[h] \in Requests /\ asked[h] <= size[h]

Shapes == /\ size = [h \in Headers |-> size[h]]
          /\ free = [h \in Headers |-> free[h]]
          /\ asked = [h \in Headers |-> asked[h]]

Ordered == \A h, k \in Headers : k > h => k >= After(h)

Chained == /\ GBase \in Headers \cup {brk}
           /\ \A h \in Headers : After(h) \in Headers \cup {brk}

IInv == /\ FrontierOK
        /\ Shapes
        /\ \A h \in Headers : BlockOK(h)
        /\ Ordered
        /\ Chained
        /\ dirty \subseteq 0..(Word - 1)
        /\ result \in 0..(Word - 1)

-----------------------------------------------------------------------------
\* Requests are words.
LEMMA RequestsAreNat == Requests \subseteq Nat
  <1>1. 0..(Word - 1) \subseteq Nat
    BY HeapAssumption, SMT
  <1> QED
    BY <1>1, HeapAssumption, Zenon

\* Rounding up to a multiple of 8 when the sum does not leave the word.
LEMMA RoundUpFacts ==
  ASSUME NEW n \in Nat, n + 7 < Word
  PROVE  /\ RoundUp8(n) \in Nat /\ RoundUp8(n) % 8 = 0
         /\ n <= RoundUp8(n) /\ RoundUp8(n) <= n + 7
  BY HeapAssumption, SMT DEF RoundUp8, Wrap

\* The window is aligned and lies inside the address space.
LEMMA RegionFacts ==
  /\ GBase \in Nat /\ GBase % 8 = 0 /\ GBase > 0
  /\ End \in Nat /\ GBase <= End /\ End < Word
  <1>1. Base \in Nat /\ Base + 7 < Word
    BY HeapAssumption
  <1>2. GBase \in Nat /\ GBase % 8 = 0 /\ Base <= GBase
    BY <1>1, RoundUpFacts DEF GBase
  <1> QED
    BY <1>2, HeapAssumption, SMT DEF End

\* A cell is a positive multiple of 8 that covers the request.
LEMMA CellFacts ==
  ASSUME RequestsDoNotWrap, NEW n \in Requests
  PROVE  /\ n \in Nat
         /\ CellSize(n) \in Nat /\ CellSize(n) % 8 = 0 /\ CellSize(n) >= 8
         /\ n <= CellSize(n) /\ CellSize(n) <= n + 8
         /\ End + 8 + CellSize(n) < Word
  <1>1. n \in Nat /\ End + n + 16 < Word
    BY HeapAssumption, SMT DEF RequestsDoNotWrap
  <1>2. End \in Nat
    BY RegionFacts
  <1>3. n + 7 < Word
    BY <1>1, <1>2, HeapAssumption, SMT
  <1>4. /\ RoundUp8(n) \in Nat /\ RoundUp8(n) % 8 = 0
        /\ n <= RoundUp8(n) /\ RoundUp8(n) <= n + 7
    BY <1>1, <1>3, RoundUpFacts
  <1>5. /\ CellSize(n) \in Nat /\ CellSize(n) % 8 = 0 /\ CellSize(n) >= 8
        /\ n <= CellSize(n) /\ CellSize(n) <= n + 8
    BY <1>1, <1>4, SMT DEF CellSize
  <1> QED
    BY <1>1, <1>2, <1>5, HeapAssumption, SMT

\* With such requests the frontier is computed without wrapping.
LEMMA FrontierFacts ==
  ASSUME RequestsDoNotWrap, FrontierOK, NEW n \in Requests
  PROVE  /\ Frontier(CellSize(n)) = brk + 8 + CellSize(n)
         /\ Wrap(brk + 8) = brk + 8
  <1>1. End + 8 + CellSize(n) < Word /\ CellSize(n) \in Nat
    BY CellFacts
  <1>2. brk \in Nat /\ brk <= End /\ End \in Nat
    BY RegionFacts DEF FrontierOK
  <1> QED
    BY <1>1, <1>2, HeapAssumption, SMT DEF Frontier, Wrap

-----------------------------------------------------------------------------
\* A heap without blocks satisfies the invariant.
LEMMA InitIInv == Init => IInv
  <1> SUFFICES ASSUME Init PROVE IInv
    OBVIOUS
  <1>1. Headers = {}
    BY DEF Init, Headers
  <1>2. FrontierOK
    BY RegionFacts, SMT DEF Init, FrontierOK
  <1>3. Shapes
    BY <1>1, Zenon DEF Init, Shapes, Headers
  <1>4. Ordered /\ Chained
    BY <1>1 DEF Init, Ordered, Chained
  <1>5. dirty \subseteq 0..(Word - 1) /\ result \in 0..(Word - 1)
    BY RegionFacts, HeapAssumption, SMT DEF Init, WordsOf
  <1> QED
    BY <1>1, <1>2, <1>3, <1>4, <1>5 DEF IInv

\* Reusing a free block changes its owner and nothing else.
LEMMA ReuseIInv ==
  ASSUME RequestsDoNotWrap, IInv, NEW n \in Requests, NEW h \in Headers,
         Reuse(n, h), dirty' \subseteq 0..(Word - 1)
  PROVE  IInv'
  <1> USE DEF Reuse
  <1>1. /\ size' = size /\ brk' = brk /\ Headers' = Headers
        /\ DOMAIN free = Headers /\ DOMAIN asked = Headers
    BY DEF Headers, IInv, Shapes
  <1>2. /\ \A k \in Headers : free'[k] = IF k = h THEN FALSE ELSE free[k]
        /\ \A k \in Headers : asked'[k] = IF k = h THEN n ELSE asked[k]
    BY <1>1
  <1>3. Shapes'
    BY <1>1, Zenon DEF Shapes, IInv
  <1>4. size[h] >= CellSize(n) /\ n <= CellSize(n)
        /\ n \in Nat /\ CellSize(n) \in Nat
    BY CellFacts DEF FirstFit, Fitting
  <1>5. \A k \in Headers' : BlockOK(k)'
    <2> SUFFICES ASSUME NEW k \in Headers PROVE BlockOK(k)'
      BY <1>1
    <2>1. BlockOK(k)
      BY DEF IInv
    <2>2. free'[k] \in BOOLEAN
      BY <1>2, <2>1 DEF BlockOK
    <2>3. asked'[k] \in Requests /\ asked'[k] <= size[k]
      BY <1>2, <1>4, <2>1, SMT DEF BlockOK
    <2> QED
      BY <1>1, <2>1, <2>2, <2>3 DEF BlockOK
  <1>6. FrontierOK' /\ Ordered' /\ Chained'
    BY <1>1 DEF IInv, FrontierOK, Ordered, Chained, After
  <1>7. result' \in 0..(Word - 1)
    <2>1. h \in Nat /\ size[h] \in Nat /\ h + 8 + size[h] <= End
      BY RegionFacts, SMT DEF IInv, BlockOK, FrontierOK
    <2> QED
      BY <2>1, RegionFacts, HeapAssumption, SMT
  <1> QED
    BY <1>3, <1>5, <1>6, <1>7 DEF IInv

\* Carving a block at the frontier.
LEMMA BumpIInv ==
  ASSUME RequestsDoNotWrap, IInv, NEW n \in Requests,
         Bump(n), dirty' \subseteq 0..(Word - 1)
  PROVE  IInv'
  <1> DEFINE s == CellSize(n)
  <1>1. s \in Nat /\ s % 8 = 0 /\ s >= 8 /\ n <= s /\ n \in Nat
    BY CellFacts
  <1>2. brk \in Nat /\ brk % 8 = 0 /\ GBase <= brk /\ brk <= End
    BY DEF IInv, FrontierOK
  <1>3. brk' = brk + 8 + s /\ brk' <= End /\ result' = brk + 8
    BY FrontierFacts DEF Bump, IInv, HasRoom
  <1> HIDE DEF s
  <1>4. brk \notin Headers
    BY <1>2, SMT DEF IInv, BlockOK
  <1>5. /\ DOMAIN size = Headers /\ DOMAIN free = Headers
        /\ DOMAIN asked = Headers
    BY DEF Headers, IInv, Shapes
  <1>6. /\ size' = [k \in Headers \cup {brk} |-> IF k = brk THEN s ELSE size[k]]
        /\ free' = [k \in Headers \cup {brk} |-> IF k = brk THEN FALSE ELSE free[k]]
        /\ asked' = [k \in Headers \cup {brk} |-> IF k = brk THEN n ELSE asked[k]]
    BY <1>5 DEF Bump, Extend, s
  <1>7. Headers' = Headers \cup {brk}
    BY <1>6 DEF Headers
  <1>8. size'[brk] = s /\ \A k \in Headers : size'[k] = size[k]
    BY <1>4, <1>6
  <1>9. FrontierOK'
    BY <1>1, <1>2, <1>3, RegionFacts, SMT DEF FrontierOK
  <1>10. Shapes'
    BY <1>6, <1>7, Zenon DEF Shapes
  <1>11. \A k \in Headers' : BlockOK(k)'
    <2>1. ASSUME NEW k, k = brk PROVE BlockOK(k)'
      <3>1. size'[k] = s /\ free'[k] = FALSE /\ asked'[k] = n
        BY <2>1, <1>6
      <3>2. k + 8 + size'[k] <= brk'
        BY <2>1, <3>1, <1>1, <1>2, <1>3
      <3>3. k \in Nat /\ k % 8 = 0 /\ GBase <= k
        BY <2>1, <1>2
      <3>4. size'[k] \in Nat /\ size'[k] % 8 = 0 /\ size'[k] >= 8
        BY <3>1, <1>1
      <3>5. free'[k] \in BOOLEAN /\ asked'[k] \in Requests /\ asked'[k] <= size'[k]
        BY <3>1, <1>1
      <3> QED
        BY <3>2, <3>3, <3>4, <3>5 DEF BlockOK
    <2>2. ASSUME NEW k \in Headers PROVE BlockOK(k)'
      <3>1. BlockOK(k) /\ k # brk
        BY <1>4 DEF IInv
      <3>2. size'[k] = size[k] /\ free'[k] = free[k] /\ asked'[k] = asked[k]
        BY <3>1, <1>6
      <3> QED
        BY <3>1, <3>2, <1>1, <1>2, <1>3, SMT DEF BlockOK
    <2> QED
      BY <2>1, <2>2, <1>7
  <1>12. Ordered'
    <2> SUFFICES ASSUME NEW k \in Headers \cup {brk},
                        NEW m \in Headers \cup {brk}, m > k
                 PROVE  m >= k + 8 + size'[k]
      BY <1>7 DEF Ordered, After
    <2>1. \A j \in Headers : BlockOK(j)
      BY DEF IInv
    <2>2. CASE k = brk
      BY <2>1, <2>2, <1>2, SMT DEF BlockOK
    <2>3. CASE k \in Headers /\ m = brk
      BY <2>1, <2>3, <1>8 DEF BlockOK
    <2>4. CASE k \in Headers /\ m \in Headers
      BY <2>4, <1>8 DEF IInv, Ordered, After
    <2> QED
      BY <2>2, <2>3, <2>4
  <1>13. Chained'
    BY <1>2, <1>3, <1>7, <1>8 DEF IInv, Chained, After
  <1>14. result' \in 0..(Word - 1)
    BY <1>1, <1>2, <1>3, RegionFacts, HeapAssumption, SMT
  <1> QED
    BY <1>9, <1>10, <1>11, <1>12, <1>13, <1>14 DEF IInv

\* Nothing changes when there is no room.
LEMMA OutOfMemoryIInv ==
  ASSUME IInv, NEW n \in Requests, OutOfMemory(n), dirty' \subseteq 0..(Word - 1)
  PROVE  IInv'
  BY HeapAssumption, SMT DEF IInv, OutOfMemory, FrontierOK, Shapes, BlockOK,
     Ordered, Chained, After, Headers

\* Every outcome of an allocation keeps the invariant.
LEMMA AllocateIInv ==
  ASSUME RequestsDoNotWrap, IInv, NEW n \in Requests,
         Allocate(n), dirty' \subseteq 0..(Word - 1)
  PROVE  IInv'
  BY ReuseIInv, BumpIInv, OutOfMemoryIInv DEF Allocate

\* So does every other action.
LEMMA NextIInv ==
  ASSUME RequestsDoNotWrap, IInv, [Next]_vars
  PROVE  IInv'
  <1>1. ASSUME NEW n \in Requests, Alloc(n) PROVE IInv'
    BY <1>1, AllocateIInv DEF Alloc, IInv
  <1>2. ASSUME NEW n \in Requests, AllocZeroed(n) PROVE IInv'
    <2>1. dirty' \subseteq 0..(Word - 1)
      BY <1>2 DEF AllocZeroed, IInv
    <2> QED
      BY <1>2, <2>1, AllocateIInv DEF AllocZeroed
  <1>3. ASSUME NEW h \in Live, Free(h) PROVE IInv'
    <2>1. /\ size' = size /\ brk' = brk /\ asked' = asked /\ Headers' = Headers
          /\ h \in Headers /\ DOMAIN free = Headers
      BY <1>3 DEF Free, Live, Headers, IInv, Shapes
    <2>2. \A k \in Headers : free'[k] = IF k = h THEN TRUE ELSE free[k]
      BY <1>3, <2>1 DEF Free
    <2>3. Shapes'
      BY <1>3, <2>1, Zenon DEF Free, Shapes, IInv
    <2>4. ASSUME NEW k \in Headers PROVE BlockOK(k)'
      <3>1. BlockOK(k)
        BY DEF IInv
      <3>2. free'[k] \in BOOLEAN
        BY <2>2, <3>1 DEF BlockOK
      <3> QED
        BY <2>1, <3>1, <3>2 DEF BlockOK
    <2>5. FrontierOK' /\ Ordered' /\ Chained'
      BY <2>1 DEF IInv, FrontierOK, Ordered, Chained, After
    <2> QED
      BY <1>3, <2>1, <2>3, <2>4, <2>5 DEF IInv, Free
  <1>4. ASSUME NEW h \in Live, GuestWrite(h) PROVE IInv'
    <2>1. h \in Nat /\ asked[h] \in Nat /\ h + 8 + asked[h] <= End
      <3>1. BlockOK(h)
        BY DEF IInv, Live
      <3>2. asked[h] \in Nat
        BY <3>1, RequestsAreNat DEF BlockOK
      <3> QED
        BY <3>1, <3>2, RegionFacts DEF IInv, BlockOK, FrontierOK
    <2>2. WordsOf(h + 8, asked[h]) \subseteq 0..(Word - 1)
      BY <2>1, RegionFacts, HeapAssumption, SMT DEF WordsOf
    <2> QED
      BY <1>4, <2>2 DEF GuestWrite, IInv, FrontierOK, Shapes, BlockOK,
         Ordered, Chained, After, Headers
  <1>5. CASE UNCHANGED vars
    BY <1>5 DEF vars, IInv, FrontierOK, Shapes, BlockOK, Ordered, Chained,
       After, Headers
  <1> QED
    BY <1>1, <1>2, <1>3, <1>4, <1>5 DEF Next

\* The blocks chain up from the base to the frontier in every state, if no request
\* wraps when it is rounded.
THEOREM Invariance ==
  ASSUME RequestsDoNotWrap
  PROVE  Spec => []IInv
  <1>1. Init => IInv
    BY InitIInv
  <1>2. IInv /\ [Next]_vars => IInv'
    BY NextIInv
  <1> QED
    BY <1>1, <1>2, PTL DEF Spec

-----------------------------------------------------------------------------
\* The three invariants of Heap that TLC checks on a small window hold in any
\* window, for any requests that do not wrap.
LEMMA IInvImplies ==
  ASSUME IInv PROVE TypeOK /\ WalkVisitsEveryBlock /\ LiveCoversRequest
  <1>1. brk \in Nat /\ brk <= End /\ End < Word /\ End \in Nat
    BY RegionFacts DEF IInv, FrontierOK
  <1>2. \A h \in Headers : /\ h \in Nat /\ GBase <= h
                           /\ size[h] \in Nat /\ size[h] >= 8
                           /\ h + 8 + size[h] <= brk
    BY DEF IInv, BlockOK
  <1>3. \A h \in Headers : /\ free[h] \in BOOLEAN /\ asked[h] \in Requests
                           /\ asked[h] <= size[h]
    BY DEF IInv, BlockOK
  <1>4. \A h \in Headers : h \in 0..(Word - 1) /\ size[h] \in 0..(Word - 1)
    BY <1>1, <1>2, HeapAssumption, SMT
  <1>5. brk \in 0..(Word - 1)
    BY <1>1, HeapAssumption, SMT
  <1>6. TypeOK
    BY <1>3, <1>4, <1>5 DEF IInv, Shapes, TypeOK
  <1>7. WalkVisitsEveryBlock
    BY <1>2, SMT DEF IInv, Ordered, Chained, WalkVisitsEveryBlock, After
  <1>8. LiveCoversRequest
    BY <1>1, <1>2, <1>3, SMT DEF LiveCoversRequest, Live, After
  <1> QED
    BY <1>6, <1>7, <1>8

\* Type correctness of the headers and the frontier (heap.c:13-57).
THEOREM TypeCorrect ==
  ASSUME RequestsDoNotWrap PROVE Spec => []TypeOK
  BY Invariance, IInvImplies, PTL

\* Whatever sizes are asked for and freed in whatever order, the walk of
\* ngage_alloc never reads anything but a header and never misses a block.
THEOREM WalkIsSound ==
  ASSUME RequestsDoNotWrap PROVE Spec => []WalkVisitsEveryBlock
  BY Invariance, IInvImplies, PTL

\* No caller is ever given less than it asked for, or anything beyond g_end.
THEOREM RequestsAreCovered ==
  ASSUME RequestsDoNotWrap PROVE Spec => []LiveCoversRequest
  BY Invariance, IInvImplies, PTL

\* A step never retracts the frontier nor resizes a block.
LEMMA PermanentStep ==
  ASSUME RequestsDoNotWrap, IInv, [Next]_vars
  PROVE  /\ brk' >= brk
         /\ \A h \in Headers : h \in DOMAIN size' /\ size'[h] = size[h]
  <1> DEFINE P == /\ brk' >= brk
                  /\ \A h \in Headers : h \in DOMAIN size' /\ size'[h] = size[h]
  <1>1. brk \in Nat /\ brk >= brk /\ brk \notin Headers
    BY SMT DEF IInv, FrontierOK, BlockOK
  <1>2. ASSUME UNCHANGED <<brk, size>> PROVE P
    BY <1>1, <1>2 DEF Headers
  <1>3. ASSUME NEW n \in Requests, Bump(n) PROVE P
    <2>1. brk' >= brk
      BY <1>1, <1>3, FrontierFacts, CellFacts DEF Bump, IInv
    <2>2. size' = [k \in Headers \cup {brk} |-> IF k = brk THEN CellSize(n) ELSE size[k]]
      BY <1>3 DEF Bump, Extend, Headers
    <2> QED
      BY <1>1, <2>1, <2>2
  <1>4. ASSUME NEW n \in Requests, Allocate(n) PROVE P
    BY <1>2, <1>3, <1>4 DEF Allocate, Reuse, OutOfMemory
  <1> QED
    BY <1>2, <1>4 DEF Next, Alloc, AllocZeroed, Free, GuestWrite, vars

\* What was once a header stays one and its size never changes: the code neither
\* splits nor joins blocks (heap.c:31-36).
THEOREM PermanentBlocks ==
  ASSUME RequestsDoNotWrap PROVE Spec => BlocksArePermanent
  <1>1. ASSUME IInv, [Next]_vars
        PROVE  [/\ brk' >= brk
                /\ \A h \in Headers : h \in DOMAIN size' /\ size'[h] = size[h]]_vars
    BY <1>1, PermanentStep
  <1> QED
    BY <1>1, Invariance, PTL DEF Spec, BlocksArePermanent

-----------------------------------------------------------------------------
\* The heap implements the allocator.  A live block is the chunk its caller
\* sees: the payload address with the length asked for.
Chunks == {[ptr |-> h + 8, len |-> asked[h]] : h \in Live}

\* What is known of every block.
LEMMA LiveBlocks ==
  ASSUME IInv, NEW h \in Headers
  PROVE  /\ h \in Nat /\ h % 8 = 0 /\ GBase <= h
         /\ size[h] \in Nat /\ size[h] >= 8 /\ h + 8 + size[h] <= End
         /\ asked[h] \in Nat /\ asked[h] <= size[h] /\ asked[h] \in Requests
  <1>1. BlockOK(h)
    BY DEF IInv
  <1>2. brk \in Nat /\ brk <= End /\ End \in Nat
    BY RegionFacts DEF IInv, FrontierOK
  <1>3. /\ h \in Nat /\ size[h] \in Nat /\ h + 8 + size[h] <= brk
        /\ asked[h] \in Requests
    BY <1>1 DEF BlockOK
  <1>4. h + 8 + size[h] <= End
    BY <1>2, <1>3
  <1>5. asked[h] \in Nat
    BY <1>3, RequestsAreNat
  <1> QED
    BY <1>1, <1>4, <1>5 DEF BlockOK

\* A payload of s bytes at p that lies behind or before every live block may
\* be granted for any request it covers.
LEMMA GrantOK ==
  ASSUME IInv, NEW n \in Requests, NEW h \in Nat, NEW s \in Nat,
         s >= 8, n <= s, h % 8 = 0, GBase <= h, h + 8 + s <= End,
         \A k \in Live : k + 8 + size[k] <= h \/ h + 8 + s <= k,
         Chunks' = Chunks \cup {[ptr |-> h + 8, len |-> n]},
         result' = h + 8
  PROVE  Promise!Grant(n)
  <1> DEFINE p == h + 8
             c == [ptr |-> p, len |-> n]
  <1>1. n \in Nat /\ p \in GBase..End /\ p % 8 = 0
    BY RequestsAreNat, RegionFacts, SMT
  <1>2. p + Promise!Extent(c) <= h + 8 + s /\ Promise!Extent(c) \in Nat
    BY <1>1, SMT DEF Promise!Extent
  <1>3. \A d \in Chunks : Promise!Apart(c, d)
    <2> SUFFICES ASSUME NEW k \in Live
                 PROVE  Promise!Apart(c, [ptr |-> k + 8, len |-> asked[k]])
      BY DEF Chunks
    <2> DEFINE d == [ptr |-> k + 8, len |-> asked[k]]
    <2>1. /\ k \in Nat /\ size[k] \in Nat /\ size[k] >= 8
          /\ asked[k] \in Nat /\ asked[k] <= size[k]
      BY LiveBlocks DEF Live
    <2>2. Promise!Extent(d) <= size[k] /\ Promise!Extent(d) \in Nat
      BY <2>1, SMT DEF Promise!Extent
    <2>3. c.ptr = h + 8 /\ d.ptr = k + 8
      OBVIOUS
    <2> HIDE DEF c, d
    <2>4. c.ptr + Promise!Extent(c) <= d.ptr \/ d.ptr + Promise!Extent(d) <= c.ptr
      BY <1>2, <2>1, <2>2, <2>3, SMT
    <2> QED
      BY <2>4 DEF Promise!Apart, d
  <1>4. p + Promise!Extent(c) <= End
    BY <1>2, RegionFacts, SMT
  <1> QED
    BY <1>1, <1>3, <1>4 DEF Promise!Grant, Promise!Fits, Chunks

\* Every outcome of the common part of the two allocation entry points is a
\* grant or a refusal.
LEMMA AllocateRefines ==
  ASSUME RequestsDoNotWrap, IInv, NEW n \in Requests, Allocate(n)
  PROVE  Promise!Grant(n) \/ Promise!Refuse
  <1>0. CellSize(n) \in Nat /\ CellSize(n) >= 8 /\ n <= CellSize(n)
    BY CellFacts
  <1>1. DOMAIN free = Headers /\ DOMAIN asked = Headers
    BY DEF IInv, Shapes
  <1>2. ASSUME NEW h \in Headers, Reuse(n, h) PROVE Promise!Grant(n)
    <2>1. h \notin Live /\ size[h] >= CellSize(n)
      BY <1>2 DEF Reuse, FirstFit, Fitting, Live
    <2>2. Live' = Live \cup {h} /\ \A k \in Live : asked'[k] = asked[k]
      BY <1>1, <1>2, <2>1 DEF Reuse, Live, Headers
    <2>3. asked'[h] = n /\ result' = h + 8
      BY <1>1, <1>2 DEF Reuse
    <2>4. Chunks' = Chunks \cup {[ptr |-> h + 8, len |-> n]}
      BY <2>2, <2>3 DEF Chunks
    <2>5. \A k \in Live : k + 8 + size[k] <= h \/ h + 8 + size[h] <= k
      <3> SUFFICES ASSUME NEW k \in Live
                   PROVE  k + 8 + size[k] <= h \/ h + 8 + size[h] <= k
        OBVIOUS
      <3>1. k \in Headers /\ k # h /\ k \in Nat /\ h \in Nat
        BY <2>1, LiveBlocks DEF Live
      <3>2. k > h \/ h > k
        BY <3>1, SMT
      <3> QED
        BY <3>1, <3>2 DEF IInv, Ordered, After
    <2>6. n <= size[h]
      BY <1>0, <2>1, LiveBlocks, RequestsAreNat, SMT
    <2> QED
      BY <2>3, <2>4, <2>5, <2>6, LiveBlocks, GrantOK
  <1>3. ASSUME Bump(n) PROVE Promise!Grant(n)
    <2> DEFINE s == CellSize(n)
    <2>1. /\ brk \in Nat /\ brk % 8 = 0 /\ GBase <= brk
          /\ brk + 8 + s <= End /\ result' = brk + 8
      BY <1>3, FrontierFacts DEF Bump, IInv, HasRoom, FrontierOK
    <2>2. \A k \in Headers : k + 8 + size[k] <= brk /\ k # brk
      BY <2>1, SMT DEF IInv, BlockOK
    <2>3. /\ free' = [k \in Headers \cup {brk} |-> IF k = brk THEN FALSE ELSE free[k]]
          /\ asked' = [k \in Headers \cup {brk} |-> IF k = brk THEN n ELSE asked[k]]
          /\ Headers' = Headers \cup {brk}
      BY <1>1, <1>3 DEF Bump, Extend, Headers
    <2>4. Live' = Live \cup {brk} /\ \A k \in Live : asked'[k] = asked[k]
      BY <2>2, <2>3 DEF Live
    <2>5. Chunks' = Chunks \cup {[ptr |-> brk + 8, len |-> n]}
      BY <2>3, <2>4 DEF Chunks
    <2>6. \A k \in Live : k + 8 + size[k] <= brk \/ brk + 8 + s <= k
      BY <2>2 DEF Live
    <2> QED
      BY <1>0, <2>1, <2>5, <2>6, GrantOK
  <1>4. ASSUME OutOfMemory(n) PROVE Promise!Refuse
    BY <1>4 DEF OutOfMemory, Promise!Refuse, Live, Headers
  <1> QED
    BY <1>2, <1>3, <1>4 DEF Allocate

\* Two live blocks are never the same chunk, so freeing one releases one.
LEMMA FreeRefines ==
  ASSUME IInv, NEW h \in Live, Free(h)
  PROVE  \E c \in Chunks : Promise!Release(c)
  <1> DEFINE c == [ptr |-> h + 8, len |-> asked[h]]
  <1>1. DOMAIN free = Headers /\ h \in Headers
    BY DEF IInv, Shapes, Live
  <1>2. Live' = Live \ {h} /\ asked' = asked
    BY <1>1 DEF Free, Live, Headers
  <1>3. ASSUME NEW k \in Live, k # h
        PROVE  [ptr |-> k + 8, len |-> asked[k]] # c
    <2>1. k \in Nat /\ h \in Nat
      BY LiveBlocks DEF Live
    <2> QED
      BY <1>3, <2>1, SMT
  <1>4. Chunks' = Chunks \ {c}
    BY <1>2, <1>3 DEF Chunks
  <1>5. c \in Chunks
    BY DEF Chunks
  <1> QED
    BY <1>4, <1>5 DEF Promise!Release, Chunks, Free

\* Every step of the heap is one of the allocator, or none.
LEMMA RefineStep ==
  ASSUME RequestsDoNotWrap, IInv, [Next]_vars
  PROVE  [Promise!ANext]_(Promise!avars)
  <1>1. ASSUME NEW n \in Requests, Allocate(n) PROVE Promise!ANext
    BY <1>1, AllocateRefines DEF Promise!ANext
  <1>2. ASSUME NEW h \in Live, Free(h) PROVE Promise!ANext
    BY <1>2, FreeRefines DEF Promise!ANext, Chunks
  <1>3. ASSUME UNCHANGED <<size, free, asked, result>> PROVE UNCHANGED Promise!avars
    BY <1>3 DEF Promise!avars, Live, Headers
  <1> QED
    BY <1>1, <1>2, <1>3 DEF Next, Alloc, AllocZeroed, GuestWrite, vars

\* The heap implements the allocator: for any sequence of requests and frees,
\* live chunks are aligned, inside the window and pairwise disjoint.
THEOREM HeapImplementsAllocator ==
  ASSUME RequestsDoNotWrap PROVE Spec => ImplementsAllocator
  <1>1. Init => Promise!AInit
    BY DEF Init, Promise!AInit, Live, Headers
  <1>2. IInv /\ [Next]_vars => [Promise!ANext]_(Promise!avars)
    BY RefineStep
  <1> QED
    BY <1>1, <1>2, Invariance, PTL
    DEF Spec, ImplementsAllocator, Promise!ASpec
-----------------------------------------------------------------------------
\* The words of a part of a payload are words of all of it.
LEMMA WordsGrow ==
  ASSUME NEW p \in Nat, NEW n \in Nat, NEW m \in Nat, n <= m
  PROVE  WordsOf(p, n) \subseteq WordsOf(p, m)
  BY SMT DEF WordsOf

\* Payloads of which one ends before the other begins share no word.
LEMMA WordsApart ==
  ASSUME NEW p \in Nat, NEW n \in Nat, NEW q \in Nat, NEW m \in Nat,
         p + n <= q \/ q + m <= p
  PROVE  WordsOf(p, n) \cap WordsOf(q, m) = {}
  BY SMT DEF WordsOf

\* What an allocation answers is 0 or the payload of a block that nobody owned,
\* apart from the payload of each live block.
LEMMA GrantedApart ==
  ASSUME RequestsDoNotWrap, IInv, NEW n \in Requests, Allocate(n), result' # 0
  PROVE  /\ result' \in Nat
         /\ \A k \in Live : \/ result' + CellSize(n) <= k + 8
                            \/ k + 8 + size[k] <= result'
  <1>1. CellSize(n) \in Nat
    BY CellFacts
  <1>2. \A k \in Live : BlockOK(k) /\ k \in Headers
    BY DEF Live, IInv
  <1>3. ASSUME NEW h \in Headers, Reuse(n, h)
        PROVE  /\ result' \in Nat
               /\ \A k \in Live : \/ result' + CellSize(n) <= k + 8
                                  \/ k + 8 + size[k] <= result'
    <2>1. /\ result' = h + 8 /\ free[h] /\ size[h] >= CellSize(n) /\ BlockOK(h)
      BY <1>3 DEF Reuse, FirstFit, Fitting, IInv
    <2> SUFFICES ASSUME NEW k \in Live
                 PROVE  \/ h + 8 + CellSize(n) <= k + 8
                        \/ k + 8 + size[k] <= h + 8
      BY <2>1 DEF BlockOK
    <2>2. k # h
      BY <2>1 DEF Live
    <2>3. k >= h + 8 + size[h] \/ h >= k + 8 + size[k]
      BY <1>2, <2>1, <2>2 DEF IInv, Ordered, After, BlockOK
    <2> QED
      BY <1>1, <1>2, <2>1, <2>3 DEF BlockOK
  <1>4. CASE Bump(n)
    <2>1. result' = brk + 8 /\ brk \in Nat
      BY <1>4, FrontierFacts DEF Bump, IInv, FrontierOK
    <2>2. \A k \in Live : k + 8 + size[k] <= brk /\ k \in Nat /\ size[k] \in Nat
      BY <1>2 DEF BlockOK
    <2> QED
      BY <2>1, <2>2
  <1>5. CASE OutOfMemory(n)
    BY <1>5 DEF OutOfMemory
  <1> QED
    BY <1>3, <1>4, <1>5 DEF Allocate

\* The memory of ngage_alloc_zeroed reads zero over the request, however large
\* the reused block is and whatever its owners wrote, and no word of a live
\* block is cleared (heap.c:48-55).
THEOREM ZeroedMemoryReadsZero ==
  ASSUME RequestsDoNotWrap PROVE Spec => ZeroedReadsZero
  <1> DEFINE Zeroed == \A n \in Requests : AllocZeroed(n) =>
                 /\ result' # 0 => WordsOf(result', n) \cap dirty' = {}
                 /\ \A h \in Live : WordsOf(h + 8, size[h]) \cap dirty \subseteq dirty'
  <1>1. ASSUME IInv PROVE Zeroed
    <2> SUFFICES ASSUME NEW n \in Requests, AllocZeroed(n), result' # 0
                 PROVE  /\ WordsOf(result', n) \cap dirty' = {}
                        /\ \A h \in Live :
                             WordsOf(h + 8, size[h]) \cap dirty \subseteq dirty'
      BY <1>1 DEF AllocZeroed
    <2> DEFINE r == RoundUp8(n)
    <2>1. dirty' = dirty \ WordsOf(result', r)
      BY DEF AllocZeroed
    <2>2. n \in Nat /\ r \in Nat /\ n <= r /\ r <= CellSize(n) /\ CellSize(n) \in Nat
      <3>1. n \in Nat /\ CellSize(n) \in Nat /\ n + 7 < Word
        BY CellFacts, RegionFacts, HeapAssumption DEF RequestsDoNotWrap
      <3> QED
        BY <3>1, RoundUpFacts DEF CellSize
    <2>3. /\ result' \in Nat
          /\ \A k \in Live : \/ result' + CellSize(n) <= k + 8
                             \/ k + 8 + size[k] <= result'
      BY <1>1, GrantedApart DEF AllocZeroed
    <2>4. WordsOf(result', n) \subseteq WordsOf(result', r)
      BY <2>2, <2>3, WordsGrow
    <2>5. ASSUME NEW h \in Live
          PROVE  WordsOf(result', r) \cap WordsOf(h + 8, size[h]) = {}
      <3>1. h \in Nat /\ size[h] \in Nat
        BY <1>1 DEF IInv, Live, BlockOK
      <3>2. result' + r <= h + 8 \/ (h + 8) + size[h] <= result'
        BY <2>2, <2>3, <3>1
      <3> QED
        BY <2>2, <2>3, <3>1, <3>2, WordsApart
    <2> QED
      BY <2>1, <2>4, <2>5
  <1> HIDE DEF Zeroed
  <1>2. ASSUME IInv, [Next]_vars PROVE [Zeroed]_vars
    BY <1>1, <1>2
  <1> QED
    BY <1>2, Invariance, PTL DEF Spec, ZeroedReadsZero, Zeroed
=============================================================================
