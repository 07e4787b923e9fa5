------------------------------ MODULE Bitmaps ------------------------------
(***************************************************************************)
(* The bitmaps of src/runtime/src/hle/fbserv.c and the presenter of        *)
(* src/runtime/src/framebuffer.c: a table of MaxBm entries found by the    *)
(* CFbsBitmap's address, guest buffers for their pixels, and the flip that *)
(* converts the most drawn bitmap into the host's frame.                   *)
(*                                                                         *)
(* A buffer is its size in bytes and the number of words in it that are    *)
(* not zero; pixel values are left out, and so are the error codes that    *)
(* Create and Load answer.  Buffers are never freed, nor are entries.      *)
(* Load gives an entry a new size and keeps the buffer it has: the history *)
(* variable `stale` holds the entries this was done to.                    *)
(*                                                                         *)
(* Sizes are computed in 32 bits and wrap.  Overflow of an int, which C    *)
(* leaves undefined, wraps as it does in the builds.                       *)
(***************************************************************************)
EXTENDS Integers, FiniteSets, SequencesExt

CONSTANTS Bitmaps,       \* the CFbsBitmap objects' addresses
          NoKey,         \* the key of an entry that was never used
          MaxBm,         \* 32: the length of g_bm
          Word,          \* 2^32
          Largest,       \* the largest request that the heap adds up without a wrap
          Sizes,         \* the sizes the game asks for: <<width, height>>
          Modes,         \* the display modes it asks for
          LoadSize,      \* <<256, 256>>: the size of every loaded bitmap
          MaxBufs,       \* bound on the buffers allocated
          MaxInk         \* bound on the words counted in one buffer

Half == Word \div 2
Ints == -Half..(Half - 1)

ASSUME BitmapAssumption ==
  /\ NoKey \notin Bitmaps /\ MaxBm \in Nat
  /\ Word \in Nat \ {0} /\ Word % 2 = 0 /\ Largest \in 0..(Word - 1)
  /\ Sizes \subseteq Ints \X Ints /\ LoadSize \in (Ints \cap Nat) \X (Ints \cap Nat)
  /\ MaxBufs \in Nat /\ MaxInk \in Nat

VARIABLES bm,            \* g_bm
          bytes,         \* the pixel buffers' sizes; buffer 0 is the null pointer
          ink,           \* words of each buffer that are not zero
          frame,         \* the host's frame g_rgb: g_w, g_h, bytes allocated
          stale          \* history: entries whose buffer Load did not allocate

bitmapVars == <<bm, bytes, ink, frame, stale>>

\* The TDisplayMode values of ngage_runtime.h.
Gray256 == 4
Color256 == 6
Color64K == 7
Color16M == 8
Color4K == 10
Color16MU == 11

StorageBpp(mode) == CASE mode \in {Gray256, Color256} -> 8
                      [] mode = Color16M -> 24
                      [] mode = Color16MU -> 32
                      [] OTHER -> 16

\* An int, and its division by 32, which rounds towards zero.
Signed(n) == ((n + Half) % Word) - Half
By32(n) == IF n >= 0 THEN n \div 32 ELSE -((-n) \div 32)

\* Slip: rounded down to whole words.
ByteWidth_Down(w, mode) == By32(Signed(w * StorageBpp(mode))) * 4

\* Scanlines are whole words.
ByteWidth(w, mode) == By32(Signed(Signed(w * StorageBpp(mode)) + 31)) * 4

AtLeastZero(h) == IF h > 0 THEN h ELSE 0
BytesFor(w, h, mode) == (ByteWidth(w, mode) * AtLeastZero(h)) % Word

\* Whether nothing wraps on the way to that, and the scanline if nothing does.
Scanline(w, mode) == ((w * StorageBpp(mode) + 31) \div 32) * 4
Fits(w, h, mode) == /\ w >= 0 /\ w * StorageBpp(mode) + 31 < Half
                    /\ Scanline(w, mode) * AtLeastZero(h) <= Largest

Entries == 1..MaxBm
Empty == [key |-> NoKey, w |-> 0, h |-> 0, mode |-> 0, buf |-> 0]

BitmapInit == /\ bm = [i \in Entries |-> Empty]
              /\ bytes = << >> /\ ink = << >>
              /\ frame = [w |-> 0, h |-> 0, bytes |-> 0]
              /\ stale = {}

-----------------------------------------------------------------------------
\* Slip: only the free entries are searched.
BmFind_Free(x) == {i \in Entries : bm[i].key = NoKey}

\* bm_find: the bitmap's entry, or else the first that is free; or none.
BmFind(x) == LET own == {i \in Entries : bm[i].key = x}
             IN IF own # {} THEN own ELSE {i \in Entries : bm[i].key = NoKey}

\* ngage_alloc_zeroed gives a new buffer, or 0.  The block for a request that
\* wraps in the heap is one to count on no byte of.
Buffer(n, buf) ==
  \/ /\ Len(bytes) < MaxBufs /\ buf = Len(bytes) + 1
     /\ bytes' = Append(bytes, IF n <= Largest THEN n ELSE 0) /\ ink' = Append(ink, 0)
  \/ buf = 0 /\ UNCHANGED <<bytes, ink>>

\* The constructor finds an entry and changes nothing in it: a bitmap built
\* where another one was has that one's size and buffer.
Ctor(x) == /\ BmFind(x) # {}
           /\ bm' = [bm EXCEPT ![Min(BmFind(x))].key = x]
           /\ UNCHANGED <<bytes, ink, frame, stale>>

\* Slip: a buffer that is there is kept.
CreateBitmap_Keep(x, size, mode) ==
  /\ BmFind(x) # {}
  /\ LET i == Min(BmFind(x))
     IN \E buf \in 0..MaxBufs :
          /\ IF bm[i].buf # 0 THEN buf = bm[i].buf /\ UNCHANGED <<bytes, ink>>
             ELSE Buffer(BytesFor(size[1], size[2], mode), buf)
          /\ bm' = [bm EXCEPT ![i] = [key |-> x, w |-> size[1], h |-> size[2],
                                      mode |-> mode, buf |-> buf]]
          /\ stale' = stale \ {i}
  /\ UNCHANGED frame

\* A second Create forgets the first one's buffer.
CreateBitmap(x, size, mode) ==
  /\ BmFind(x) # {}
  /\ LET i == Min(BmFind(x))
     IN \E buf \in 0..MaxBufs :
          /\ Buffer(BytesFor(size[1], size[2], mode), buf)
          /\ bm' = [bm EXCEPT ![i] = [key |-> x, w |-> size[1], h |-> size[2],
                                      mode |-> mode, buf |-> buf]]
          /\ stale' = stale \ {i}
  /\ UNCHANGED frame

\* The size and mode are overwritten; a buffer that is there is kept.
Load(x) ==
  /\ BmFind(x) # {}
  /\ LET i == Min(BmFind(x))
         w == LoadSize[1]
         h == LoadSize[2]
     IN \E buf \in 0..MaxBufs :
          /\ IF bm[i].buf # 0 THEN buf = bm[i].buf /\ UNCHANGED <<bytes, ink>>
             ELSE Buffer(BytesFor(w, h, Color4K), buf)
          /\ bm' = [bm EXCEPT ![i] = [key |-> x, w |-> w, h |-> h,
                                      mode |-> Color4K, buf |-> buf]]
          /\ stale' = IF bm[i].buf # 0 THEN stale \cup {i} ELSE stale
  /\ UNCHANGED frame

\* The game draws through a DataAddress, that of a forgotten buffer too.
Draw(b, n) == /\ n <= bytes[b] \div 4
              /\ ink' = [ink EXCEPT ![b] = n]
              /\ UNCHANGED <<bm, bytes, frame, stale>>

\* What DataAddress, DisplayMode, SizeInPixels and Header answer, which make no
\* entry.  Header knows 8 and 16 bits per pixel.
Own(x) == {i \in Entries : bm[i].key = x}
EntryOf(x) == IF Own(x) = {} THEN Empty ELSE bm[Min(Own(x))]
DataAddress(x) == EntryOf(x).buf
DisplayMode(x) == EntryOf(x).mode
SizeInPixels(x) == <<EntryOf(x).w, EntryOf(x).h>>
HeaderOf(x) == LET b == EntryOf(x)
                   mode == IF Own(x) = {} THEN Color64K ELSE b.mode
               IN [bytes |-> (ByteWidth(b.w, mode) * b.h) % Word,
                   bpp |-> IF mode = Gray256 THEN 8 ELSE 16]

\* The entries that the flip looks at, when it counts nz[i] words for entry i,
\* and those it may present: the first of the most drawn.
\* Slip: the size is not looked at.
Sized_Any(i) == bm[i].key # NoKey /\ bm[i].buf # 0

Sized(i) == bm[i].key # NoKey /\ bm[i].buf # 0 /\ bm[i].w > 0 /\ bm[i].h > 0
Presentable(nz) == {i \in Entries : Sized(i) /\ nz[i] > 0}
MostDrawn(nz) == {i \in Presentable(nz) :
                    \A j \in Presentable(nz) : nz[j] <= nz[i]}

\* The count covers what the entry's size says.  That is the buffer, unless
\* the entry is stale or its size wraps: then it is a part of it, or runs on
\* behind it.
Regular(i) == i \notin stale /\ Fits(bm[i].w, bm[i].h, bm[i].mode)
Counts == {nz \in [Entries -> 0..MaxInk] :
             \A i \in Entries : Sized(i) /\ Regular(i) => nz[i] = ink[bm[i].buf]}

\* Slip: the frame is allocated again only when its width changes.
Fitted_Width(w, h) == IF frame.w = w THEN [frame EXCEPT !.h = h]
                      ELSE [w |-> w, h |-> h, bytes |-> w * h * 3]

\* The host's frame is allocated again when its size changes.
Fitted(w, h) == IF frame.w = w /\ frame.h = h THEN frame
                ELSE [w |-> w, h |-> h, bytes |-> w * h * 3]

\* NOKIAFC's flip and ngage_fb_snapshot, with ngage_present.
Present ==
  /\ \E nz \in Counts :
       /\ MostDrawn(nz) # {}
       /\ LET screen == bm[Min(MostDrawn(nz))]
          IN frame' = Fitted(screen.w, screen.h)
  /\ UNCHANGED <<bm, bytes, ink, stale>>

BitmapNext ==
  \/ \E x \in Bitmaps : \/ Ctor(x) \/ Load(x)
                        \/ \E s \in Sizes, m \in Modes : CreateBitmap(x, s, m)
  \/ \E b \in 1..Len(bytes), n \in 0..MaxInk : Draw(b, n)
  \/ Present

BitmapSpec == BitmapInit /\ [][BitmapNext]_bitmapVars

-----------------------------------------------------------------------------
BitmapTypeOK ==
  /\ bm \in [Entries -> [key : Bitmaps \cup {NoKey}, w : Ints, h : Ints,
                         mode : Modes \cup {0, Color4K}, buf : 0..Len(bytes)]]
  /\ bytes \in Seq(Nat) /\ Len(bytes) <= MaxBufs
  /\ ink \in Seq(Nat) /\ Len(ink) = Len(bytes)
  /\ frame \in [w : Nat, h : Nat, bytes : Nat]
  /\ stale \subseteq Entries

\* A bitmap has one entry: what Create sets is what DataAddress, Header and
\* the flip find (fbserv.c:19-24).
OneEntryPerBitmap ==
  \A i, j \in Entries : bm[i].key = bm[j].key /\ bm[i].key # NoKey => i = j

\* Unless Load was called on a bitmap that had a buffer, and for every size that
\* does not wrap in 32 bits, the buffer at its DataAddress holds the scanlines of
\* its SizeInPixels and DisplayMode, and as many bytes as its Header says,
\* whatever was created, built again or loaded before, and whatever sizes below
\* zero or too large; a row of the Header's bits per pixel is no longer than a
\* scanline.  Headers of negative heights and of EColor256 bitmaps, whose 8 bits
\* it calls 16, are left out (fbserv.c:5 "a real guest pixel buffer",
\* fbserv.c:44-72).
BufferFits ==
  \A x \in Bitmaps :
    LET size == SizeInPixels(x)
        held == bytes[DataAddress(x)]
    IN DataAddress(x) # 0 /\ (\A i \in Own(x) : Regular(i)) =>
         /\ Scanline(size[1], DisplayMode(x)) * AtLeastZero(size[2]) <= held
         /\ size[2] >= 0 => HeaderOf(x).bytes <= held
         /\ DisplayMode(x) # Color256 =>
              size[1] * HeaderOf(x).bpp <= 8 * ByteWidth(size[1], DisplayMode(x))

\* How ngage_present reads a pixel, and the end of what it has read.
PixelBytes(mode) == CASE StorageBpp(mode) = 8 -> 1
                      [] StorageBpp(mode) = 16 -> 2
                      [] OTHER -> 4
ReadEnd(b) == (b.h - 1) * ByteWidth(b.w, b.mode) + b.w * PixelBytes(b.mode)

\* The flip reads no byte outside the buffer it presents, for widths whose rows
\* are padded and rows that are not (framebuffer.c:71-86), of every size that
\* does not wrap in 32 bits and in every mode that framebuffer.c:8-9 lists;
\* EColor16M, stored in three bytes and read as four, is not among them.  And it
\* writes no pixel outside the host's frame, after any sequence of flips of
\* different sizes, those that wrap too (framebuffer.c:75-85).
PresentStaysInside ==
  /\ \A i \in Entries : Sized(i) /\ Regular(i) /\ bm[i].mode # Color16M =>
       ReadEnd(bm[i]) <= bytes[bm[i].buf]
  /\ frame.w * frame.h * 3 <= frame.bytes
=============================================================================
