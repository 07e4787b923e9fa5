---------------------------- MODULE ServersProofs ---------------------------
(***************************************************************************)
(* Theorems about the two servers that keep a table of the game's objects. *)
(*                                                                         *)
(* FileServer, for any number of slots, objects, names and paths: the      *)
(* table holds one stream for each open object, and implements the map     *)
(* from objects to cursors.                                                *)
(*                                                                         *)
(* Bitmaps, for any sizes, modes and lengths of the table: a bitmap has    *)
(* one entry, its buffer is large enough for its shape, and the flip reads *)
(* and writes inside.                                                      *)
(***************************************************************************)
EXTENDS FileServer, Bitmaps, TLAPS, FiniteSetTheorems, SequenceTheorems

(***************************************************************************)
(* The inductive invariant.  An open slot belongs to an object, which has  *)
(* no other, and its stream is in a file that exists.  What Create made    *)
(* under a name is the first of the name's paths that could be created,    *)
(* and is still there.                                                     *)
(***************************************************************************)
StreamsExist == \A i \in Slots : fp[i] # Closed => fp[i].path \in files

MadeFirst == \A n \in Names : made[n] # NoPath =>
               /\ made[n] \in files
               /\ Candidates(n, Creatable) # {} /\ made[n] = Found(n, Creatable)

IInv == TypeOK /\ OneSlotPerHandle /\ StreamsExist /\ MadeFirst

-----------------------------------------------------------------------------
\* Every set of naturals that is not empty has a least element.
LEMMA MinFacts ==
  ASSUME NEW S \in SUBSET Nat, S # {}
  PROVE  Min(S) \in S /\ \A y \in S : Min(S) <= y
  <1>1. OpToRel(<, Nat) = {ss \in Nat \X Nat : ss[1] < ss[2]}
    BY Zenon DEF OpToRel
  <1>2. PICK x \in S : \A y \in S : ~(<<y, x>> \in OpToRel(<, Nat))
    BY NatLessThanWellFounded, WFMin
  <1>3. \A y \in S : x <= y
    <2> SUFFICES ASSUME NEW y \in S PROVE x <= y
      OBVIOUS
    <2>1. <<y, x>> \notin {ss \in Nat \X Nat : ss[1] < ss[2]}
      BY <1>1, <1>2
    <2> QED BY <2>1
  <1> DEFINE P(z) == \A y \in S : z <= y
  <1>4. (CHOOSE z \in S : P(z)) \in S /\ P(CHOOSE z \in S : P(z))
    <2>1. \E z \in S : P(z)
      BY <1>3
    <2> HIDE DEF P
    <2> QED BY <2>1
  <1> QED BY <1>4 DEF Min

\* The lesser of two lengths.
LEMMA MinOfTwo ==
  ASSUME NEW a \in Nat, NEW b \in Nat
  PROVE  Min({a, b}) \in Nat /\ Min({a, b}) <= a /\ Min({a, b}) <= b
  <1>1. {a, b} \in SUBSET Nat /\ {a, b} # {}
    OBVIOUS
  <1> QED BY <1>1, MinFacts

\* The greater of two lengths.
LEMMA MaxOfTwo ==
  ASSUME NEW a \in Nat, NEW b \in Nat
  PROVE  Max({a, b}) \in {a, b}
  <1> DEFINE P(z) == \A y \in {a, b} : z >= y
  <1>1. \E z \in {a, b} : P(z)
    <2>1. CASE a >= b
      BY <2>1
    <2>2. CASE ~(a >= b)
      BY <2>2
    <2> QED BY <2>1, <2>2
  <1>2. (CHOOSE z \in {a, b} : P(z)) \in {a, b}
    <2> HIDE DEF P
    <2> QED BY <1>1
  <1> QED BY <1>2 DEF Max

\* The path that open_path finds is one of the name's that can be opened.
LEMMA FoundFacts ==
  ASSUME NEW n \in Names, NEW usable, Candidates(n, usable) # {}
  PROVE  Found(n, usable) \in usable \cap Paths
  <1>1. Candidates(n, usable) \in SUBSET Nat
    BY DEF Candidates
  <1>2. Min(Candidates(n, usable)) \in Candidates(n, usable)
    BY <1>1, MinFacts
  <1>3. Where[n] \in Seq(Paths)
    BY FileAssumption
  <1>4. /\ Min(Candidates(n, usable)) \in 1..Len(Where[n])
        /\ Found(n, usable) \in usable
    BY <1>2 DEF Candidates, Found
  <1> QED BY <1>3, <1>4, ElementOfSeq DEF Found

-----------------------------------------------------------------------------
\* The table as a value, so that what is said of it holds after a step too.
SlotsIn(k, f, h) == {i \in Slots : k[i] = h /\ f[i] # Closed}
CursorIn(k, f, h) == IF SlotsIn(k, f, h) # {} THEN f[Min(SlotsIn(k, f, h))] ELSE Closed
Once(k, f) == \A i, j \in Slots : f[i] # Closed /\ f[j] # Closed /\ k[i] = k[j] => i = j

\* The lookups as functions of the table, before and after a step.
LEMMA TableIs ==
  /\ \A k, f : k = key /\ f = fp =>
       /\ \A h : CursorOf(h) = CursorIn(k, f, h)
       /\ OneSlotPerHandle <=> Once(k, f)
  /\ \A k, f : k = key' /\ f = fp' =>
       /\ \A h : CursorOf(h)' = CursorIn(k, f, h)
       /\ OneSlotPerHandle' <=> Once(k, f)
  BY DEF SlotsOf, SlotsIn, CursorOf, CursorIn, IsOpen, SlotOf, OneSlotPerHandle, Once

\* Slots are numbers, which have a least.
LEMMA SlotsAreNumbers == Slots \in SUBSET Nat /\ FreeSlots \in SUBSET Nat
  BY FileAssumption DEF Slots, FreeSlots

\* The slot fh_slot finds for an object that is open.
LEMMA SlotFacts ==
  ASSUME NEW h, IsOpen(h)
  PROVE  /\ SlotOf(h) \in Slots /\ key[SlotOf(h)] = h /\ fp[SlotOf(h)] # Closed
         /\ CursorOf(h) = fp[SlotOf(h)]
  <1>1. SlotsOf(h) \in SUBSET Nat /\ SlotsOf(h) # {}
    BY SlotsAreNumbers DEF SlotsOf, IsOpen
  <1>2. SlotOf(h) \in SlotsOf(h)
    BY <1>1, MinFacts DEF SlotOf
  <1> QED BY <1>2 DEF SlotsOf, CursorOf

\* The slot it finds for one that is not, when there is one.
LEMMA FreeFacts ==
  ASSUME FreeSlots # {}
  PROVE  Min(FreeSlots) \in Slots /\ fp[Min(FreeSlots)] = Closed
  <1>1. Min(FreeSlots) \in FreeSlots
    BY SlotsAreNumbers, MinFacts
  <1> QED BY <1>1 DEF FreeSlots

\* The cursor of an object is the stream in its slot, if it has one.
LEMMA CursorInSlot ==
  ASSUME NEW k, NEW f, Once(k, f), NEW i \in Slots, f[i] # Closed
  PROVE  CursorIn(k, f, k[i]) = f[i]
  <1>1. i \in SlotsIn(k, f, k[i])
    BY DEF SlotsIn
  <1>2. SlotsIn(k, f, k[i]) \in SUBSET Nat
    BY SlotsAreNumbers DEF SlotsIn
  <1>3. Min(SlotsIn(k, f, k[i])) \in SlotsIn(k, f, k[i])
    BY <1>1, <1>2, MinFacts
  <1>4. Min(SlotsIn(k, f, k[i])) = i
    BY <1>3 DEF SlotsIn, Once
  <1> QED BY <1>1, <1>4 DEF CursorIn

\* Two tables that agree on the slots of an object give it the same cursor.
LEMMA CursorStays ==
  ASSUME NEW k, NEW f, NEW k2, NEW f2, NEW h,
         \A i \in Slots : \/ k2[i] = k[i] /\ f2[i] = f[i]
                          \/ /\ k[i] # h \/ f[i] = Closed
                             /\ k2[i] # h \/ f2[i] = Closed
  PROVE  CursorIn(k2, f2, h) = CursorIn(k, f, h)
  <1>1. SlotsIn(k2, f2, h) = SlotsIn(k, f, h)
    BY DEF SlotsIn
  <1>2. \A i \in SlotsIn(k, f, h) : f2[i] = f[i]
    BY DEF SlotsIn
  <1>3. SlotsIn(k, f, h) # {} => Min(SlotsIn(k, f, h)) \in SlotsIn(k, f, h)
    BY SlotsAreNumbers, MinFacts DEF SlotsIn
  <1> QED BY <1>1, <1>2, <1>3 DEF CursorIn

\* As many objects are open as slots are used.
LEMMA OpenCount ==
  ASSUME TypeOK, OneSlotPerHandle
  PROVE  LET open == {h \in Handles : CursorOf(h) # Closed}
         IN /\ FreeSlots # {} => Cardinality(open) < MaxOpen
            /\ FreeSlots = {} => Cardinality(open) = MaxOpen
  <1> DEFINE open == {h \in Handles : CursorOf(h) # Closed}
             used == Slots \ FreeSlots
             owner == [i \in used |-> key[i]]
  <1>1. \A i \in used : i \in Slots /\ fp[i] # Closed
    BY DEF FreeSlots
  <1>2. \A i \in used : key[i] \in Handles /\ CursorOf(key[i]) = fp[i]
    BY <1>1, CursorInSlot, TableIs DEF TypeOK
  <1>3. owner \in [used -> open]
    BY <1>1, <1>2
  <1>4. \A i, j \in used : owner[i] = owner[j] => i = j
    BY <1>1 DEF OneSlotPerHandle
  <1>5. \A h \in open : \E i \in used : owner[i] = h
    <2> SUFFICES ASSUME NEW h \in open PROVE \E i \in used : owner[i] = h
      OBVIOUS
    <2>1. IsOpen(h)
      BY DEF CursorOf
    <2>2. SlotOf(h) \in used /\ key[SlotOf(h)] = h
      BY <2>1, SlotFacts DEF FreeSlots
    <2> QED BY <2>2
  <1>6. ExistsBijection(used, open)
    <2> HIDE DEF owner
    <2>1. owner \in Bijection(used, open)
      BY <1>3, <1>4, <1>5 DEF Bijection, Injection, Surjection, IsInjective
    <2> QED BY <2>1 DEF ExistsBijection
  <1>7. MaxOpen \in Nat /\ IsFiniteSet(Slots) /\ Cardinality(Slots) = MaxOpen
    <2>1. MaxOpen \in Nat
      BY FileAssumption
    <2>2. IsFiniteSet(1..MaxOpen) /\ Cardinality(1..MaxOpen) = IF 1 > MaxOpen THEN 0 ELSE MaxOpen - 1 + 1
      BY <2>1, FS_Interval
    <2> QED BY <2>1, <2>2 DEF Slots
  <1>8. /\ IsFiniteSet(used) /\ Cardinality(used) <= MaxOpen
        /\ Cardinality(used) = MaxOpen => Slots = used
    BY <1>7, FS_Subset
  <1>9. Cardinality(open) = Cardinality(used) /\ Cardinality(used) \in Nat
    BY <1>6, <1>8, FS_Bijection, FS_CardinalityType
  <1>10. FreeSlots # {} => used # Slots
    BY DEF FreeSlots
  <1> HIDE DEF open, used
  <1>11. FreeSlots # {} => Cardinality(open) < MaxOpen
    BY <1>7, <1>8, <1>9, <1>10
  <1>12. FreeSlots = {} => Cardinality(open) = MaxOpen
    BY <1>7, <1>9 DEF used
  <1> QED BY <1>11, <1>12 DEF open

-----------------------------------------------------------------------------
TableType == /\ key \in [Slots -> Handles \cup {NoHandle}]
             /\ fp \in [Slots -> Stream \cup {Closed}]
             /\ \A i \in Slots : fp[i] # Closed => key[i] # NoHandle

\* A stream put into the slot of an open object, or into a free slot for one
\* that is not open.
LEMMA PutFacts ==
  ASSUME TypeOK, OneSlotPerHandle, NEW h \in Handles, NEW j \in Slots, NEW s \in Stream,
         IF IsOpen(h) THEN j = SlotOf(h) ELSE fp[j] = Closed,
         key' = [key EXCEPT ![j] = h], fp' = [fp EXCEPT ![j] = s]
  PROVE  /\ TableType' /\ OneSlotPerHandle'
         /\ CursorOf(h)' = s
         /\ \A g \in Handles \ {h} : CursorOf(g)' = CursorOf(g)
         /\ \A i \in Slots : i # j => fp'[i] = fp[i]
         /\ fp'[j] = s
  <1>1. s # Closed /\ h # NoHandle
    BY ClosedAssumption, FileAssumption
  <1>2. /\ key \in [Slots -> Handles \cup {NoHandle}]
        /\ fp \in [Slots -> Stream \cup {Closed}]
        /\ \A i \in Slots : fp[i] # Closed => key[i] # NoHandle
    BY DEF TypeOK
  <1>3. /\ key'[j] = h /\ fp'[j] = s
        /\ \A i \in Slots : i # j => key'[i] = key[i] /\ fp'[i] = fp[i]
    BY <1>2
  <1>4. \A i \in Slots : fp[i] # Closed /\ key[i] = h => i = j
    <2> SUFFICES ASSUME NEW i \in Slots, fp[i] # Closed, key[i] = h PROVE i = j
      OBVIOUS
    <2>1. IsOpen(h)
      BY DEF IsOpen, SlotsOf
    <2> QED BY <2>1, SlotFacts DEF OneSlotPerHandle
  <1>5. fp[j] = Closed \/ key[j] = h
    BY SlotFacts
  <1>6. TableType'
    BY <1>1, <1>2, <1>3 DEF TableType, Slots
  <1>7. PICK k, f : k = key' /\ f = fp'
    OBVIOUS
  <1>8. /\ k[j] = h /\ f[j] = s
        /\ \A i \in Slots : i # j => k[i] = key[i] /\ f[i] = fp[i]
    BY <1>3, <1>7
  <1>9. Once(k, f)
    BY <1>4, <1>8 DEF Once, OneSlotPerHandle
  <1>10. CursorIn(k, f, h) = s
    BY <1>1, <1>8, <1>9, CursorInSlot
  <1>11. \A g \in Handles \ {h} : CursorIn(k, f, g) = CursorIn(key, fp, g)
    BY <1>5, <1>8, CursorStays
  <1>12. /\ CursorOf(h)' = CursorIn(k, f, h) /\ OneSlotPerHandle'
         /\ \A g \in Handles \ {h} : CursorOf(g)' = CursorIn(k, f, g)
    BY <1>7, <1>9, TableIs
  <1>13. \A g \in Handles \ {h} : CursorOf(g) = CursorIn(key, fp, g)
    BY TableIs
  <1>14. \A g \in Handles \ {h} : CursorOf(g)' = CursorOf(g)
    BY <1>11, <1>12, <1>13
  <1> QED BY <1>3, <1>6, <1>10, <1>12, <1>14

\* The cardinality that Cursors speaks of is the same function.
LEMMA SameCardinality == \A S : C!Cardinality(S) = Cardinality(S)
  BY DEF C!Cardinality, Cardinality

\* What Open and Create do with a stream.
LEMMA AttachStep ==
  ASSUME TypeOK, OneSlotPerHandle, StreamsExist, files \subseteq files',
         NEW h \in Handles, NEW s \in Stream, s.pos = 0, s.path \in files', Attach(h, s)
  PROVE  /\ TableType' /\ OneSlotPerHandle' /\ StreamsExist'
         /\ reply' \in {KErrNone, KErrNoMemory}
         /\ reply' = KErrNone => CursorOf(h)' = s
         /\ C!Bind(h) \/ C!Refuse(h)
  <1>1. CASE IsOpen(h) \/ FreeSlots # {}
    <2> DEFINE j == IF IsOpen(h) THEN SlotOf(h) ELSE Min(FreeSlots)
    <2>1. j \in Slots /\ (IF IsOpen(h) THEN j = SlotOf(h) ELSE fp[j] = Closed)
      BY <1>1, SlotFacts, FreeFacts
    <2>2. IsOpen(h) => key = [key EXCEPT ![j] = h]
      BY SlotFacts DEF TypeOK
    <2>3. /\ key' = [key EXCEPT ![j] = h] /\ fp' = [fp EXCEPT ![j] = s]
          /\ reply' = KErrNone
      BY <1>1, <2>2 DEF Attach
    <2> HIDE DEF j
    <2>4. /\ TableType' /\ OneSlotPerHandle'
          /\ CursorOf(h)' = s
          /\ \A g \in Handles \ {h} : CursorOf(g)' = CursorOf(g)
          /\ \A i \in Slots : i # j => fp'[i] = fp[i]
          /\ fp'[j] = s
      BY <2>1, <2>3, PutFacts
    <2>5. StreamsExist'
      BY <2>4 DEF StreamsExist, Slots
    <2>6. /\ s = [path |-> s.path, writes |-> s.writes, pos |-> 0]
          /\ s.path \in Paths /\ s.writes \in BOOLEAN
      BY DEF Stream
    <2>7. [g \in Handles |-> CursorOf(g)]' = [[g \in Handles |-> CursorOf(g)] EXCEPT ![h] = s]
      BY <2>4
    <2>8. CursorOf(h) # Closed \/ Cardinality({g \in Handles : CursorOf(g) # Closed}) < MaxOpen
      BY <1>1, OpenCount, SlotFacts
    <2>9. C!Bind(h)
      BY <2>3, <2>6, <2>7, <2>8, SameCardinality DEF C!Bind, C!OpenHandles
    <2> QED BY <2>3, <2>4, <2>5, <2>9
  <1>2. CASE ~IsOpen(h) /\ FreeSlots = {}
    <2>1. reply' = KErrNoMemory /\ key' = key /\ fp' = fp
      BY <1>2 DEF Attach
    <2>2. TableType' /\ OneSlotPerHandle' /\ StreamsExist'
      BY <2>1 DEF TypeOK, TableType, OneSlotPerHandle, StreamsExist
    <2>3. CursorOf(h) = Closed /\ Cardinality({g \in Handles : CursorOf(g) # Closed}) = MaxOpen
      BY <1>2, OpenCount DEF CursorOf
    <2>4. [g \in Handles |-> CursorOf(g)]' = [g \in Handles |-> CursorOf(g)]
      BY <2>1, TableIs
    <2>5. C!Refuse(h)
      BY <2>1, <2>3, <2>4, SameCardinality DEF C!Refuse, C!OpenHandles
    <2>6. KErrNone # KErrNoMemory
      BY FileAssumption
    <2> QED BY <2>1, <2>2, <2>5, <2>6
  <1> QED BY <1>1, <1>2

\* What Read, Write and Seek do with the stream of an open object.
LEMMA MoveStep ==
  ASSUME TypeOK, OneSlotPerHandle, StreamsExist, NEW h \in Handles, IsOpen(h),
         NEW pos \in 0..MaxSize, MoveTo(h, pos), key' = key, files' = files
  PROVE  /\ TableType' /\ OneSlotPerHandle' /\ StreamsExist'
         /\ reply' = KErrNone
         /\ C!Move(h)
  <1> DEFINE j == SlotOf(h)
             s == [fp[j] EXCEPT !.pos = pos]
  <1>1. j \in Slots /\ key[j] = h /\ fp[j] # Closed /\ CursorOf(h) = fp[j]
    BY SlotFacts
  <1>2. fp[j] \in Stream /\ key = [key EXCEPT ![j] = h]
    BY <1>1 DEF TypeOK
  <1>3. s \in Stream /\ s.path = fp[j].path /\ s.writes = fp[j].writes
    BY <1>2 DEF Stream
  <1>4. fp' = [fp EXCEPT ![j] = s] /\ key' = [key EXCEPT ![j] = h] /\ reply' = KErrNone
    BY <1>2 DEF MoveTo
  <1>5. /\ j \in Slots /\ s \in Stream
        /\ IF IsOpen(h) THEN j = SlotOf(h) ELSE fp[j] = Closed
        /\ key' = [key EXCEPT ![j] = h] /\ fp' = [fp EXCEPT ![j] = s]
    BY <1>1, <1>3, <1>4
  <1> HIDE DEF j, s
  <1>6. /\ TableType' /\ OneSlotPerHandle'
        /\ CursorOf(h)' = s
        /\ \A g \in Handles \ {h} : CursorOf(g)' = CursorOf(g)
        /\ \A i \in Slots : i # j => fp'[i] = fp[i]
        /\ fp'[j] = s
    BY <1>5, PutFacts, Zenon
  <1>7. StreamsExist'
    <2>1. \A i \in Slots : fp'[i] # Closed => fp[i] # Closed /\ fp'[i].path = fp[i].path
      BY <1>1, <1>3, <1>6
    <2> QED BY <2>1 DEF StreamsExist, Slots
  <1>8. [g \in Handles |-> CursorOf(g)]' = [[g \in Handles |-> CursorOf(g)] EXCEPT ![h] = s]
    BY <1>6
  <1>9. /\ s.path \in Paths /\ s.writes \in BOOLEAN /\ s.pos \in Nat
        /\ s = [path |-> s.path, writes |-> s.writes, pos |-> s.pos]
    BY <1>3, FileAssumption DEF Stream
  <1>10. s \in C!Cursor
    BY <1>9 DEF C!Cursor
  <1>11. [g \in Handles |-> CursorOf(g)]'[h] = s /\ [g \in Handles |-> CursorOf(g)][h] = fp[j]
    BY <1>1, <1>6
  <1>12. C!Move(h)
    BY <1>1, <1>3, <1>4, <1>8, <1>10, <1>11 DEF C!Move
  <1> QED BY <1>4, <1>6, <1>7, <1>12

\* Close: the object's slot is free, and only that.
LEMMA CloseStep ==
  ASSUME TypeOK, OneSlotPerHandle, StreamsExist, NEW h \in Handles, Close(h)
  PROVE  /\ TableType' /\ OneSlotPerHandle' /\ StreamsExist'
         /\ C!Unbind(h)
  <1>1. /\ SlotOf(h) \in Slots /\ key[SlotOf(h)] = h /\ fp[SlotOf(h)] # Closed
        /\ key' = key /\ fp' = [fp EXCEPT ![SlotOf(h)] = Closed]
        /\ files' = files /\ reply' = reply
    BY SlotFacts DEF Close
  <1>2. fp \in [Slots -> Stream \cup {Closed}]
    BY DEF TypeOK
  <1>3. /\ fp'[SlotOf(h)] = Closed
        /\ \A i \in Slots : i # SlotOf(h) => fp'[i] = fp[i]
    BY <1>1, <1>2
  <1>4. TableType'
    BY <1>1, <1>2, <1>3 DEF TypeOK, TableType, Slots
  <1>5. OneSlotPerHandle'
    BY <1>1, <1>3 DEF OneSlotPerHandle, Slots
  <1>6. StreamsExist'
    BY <1>1, <1>3 DEF StreamsExist, Slots
  <1>7. PICK k, f : k = key' /\ f = fp'
    OBVIOUS
  <1>8. SlotsIn(k, f, h) = {}
    BY <1>1, <1>3, <1>7 DEF SlotsIn, OneSlotPerHandle
  <1>9. \A g \in Handles \ {h} : CursorIn(k, f, g) = CursorIn(key, fp, g)
    <2> SUFFICES ASSUME NEW g \in Handles \ {h}
                 PROVE  CursorIn(k, f, g) = CursorIn(key, fp, g)
      OBVIOUS
    <2>1. \A i \in Slots : \/ k[i] = key[i] /\ f[i] = fp[i]
                           \/ /\ key[i] # g \/ fp[i] = Closed
                              /\ k[i] # g \/ f[i] = Closed
      BY <1>1, <1>3, <1>7
    <2> QED BY <2>1, CursorStays
  <1>10. /\ \A g \in Handles : CursorOf(g)' = CursorIn(k, f, g)
         /\ \A g \in Handles : CursorOf(g) = CursorIn(key, fp, g)
    BY <1>7, TableIs
  <1>11. CursorOf(h)' = Closed /\ \A g \in Handles \ {h} : CursorOf(g)' = CursorOf(g)
    BY <1>8, <1>9, <1>10 DEF CursorIn
  <1>12. [g \in Handles |-> CursorOf(g)]' = [[g \in Handles |-> CursorOf(g)] EXCEPT ![h] = Closed]
    BY <1>11
  <1> QED BY <1>1, <1>4, <1>5, <1>6, <1>12 DEF C!Unbind

\* Calls that leave the table alone.
LEMMA TableStays ==
  ASSUME key' = key, fp' = fp
  PROVE  /\ TypeOK => TableType'
         /\ OneSlotPerHandle => OneSlotPerHandle'
         /\ [g \in Handles |-> CursorOf(g)]' = [g \in Handles |-> CursorOf(g)]
  <1>1. PICK k, f : k = key' /\ f = fp'
    OBVIOUS
  <1>2. \A g : CursorOf(g)' = CursorOf(g)
    BY <1>1, TableIs
  <1> QED BY <1>2 DEF TypeOK, TableType, OneSlotPerHandle

\* A call that finds no object answers and changes nothing.
LEMMA AnswerStep ==
  ASSUME IInv, NEW code \in {KErrNone, KErrNotFound}, Answer(code)
  PROVE  IInv' /\ C!Next
  <1>1. /\ key' = key /\ fp' = fp /\ files' = files /\ size' = size
        /\ made' = made /\ reply' = code
    BY DEF Answer
  <1>2. IInv'
    BY <1>1, TableStays DEF IInv, TypeOK, TableType, StreamsExist, OneSlotPerHandle, MadeFirst
  <1>3. C!NotFound \/ C!Granted
    BY <1>1, TableStays DEF C!NotFound, C!Granted
  <1> QED BY <1>2, <1>3 DEF C!Next

\* Open puts a stream at the start of the file that was found.
LEMMA OpenStep ==
  ASSUME IInv, NEW h \in Handles, NEW n \in Names, Open(h, n)
  PROVE  IInv' /\ C!Next
  <1>1. CASE Candidates(n, files) = {}
    <2>1. Answer(KErrNotFound)
      BY <1>1 DEF Open
    <2> QED BY <2>1, AnswerStep
  <1>2. CASE Candidates(n, files) # {}
    <2> DEFINE s == [path |-> Found(n, files), writes |-> FALSE, pos |-> 0]
    <2>1. Attach(h, s) /\ files' = files /\ size' = size /\ made' = made
      BY <1>2 DEF Open
    <2>2. Found(n, files) \in files \cap Paths /\ 0 \in 0..MaxSize
      BY <1>2, FoundFacts, FileAssumption
    <2>3. s \in Stream /\ s.pos = 0 /\ s.path \in files'
      BY <2>1, <2>2 DEF Stream
    <2> HIDE DEF s
    <2>4. /\ TableType' /\ OneSlotPerHandle' /\ StreamsExist'
          /\ reply' \in {KErrNone, KErrNoMemory}
          /\ C!Bind(h) \/ C!Refuse(h)
      BY <2>1, <2>3, AttachStep DEF IInv
    <2>5. TypeOK'
      BY <2>1, <2>4 DEF IInv, TypeOK, TableType
    <2>6. MadeFirst'
      BY <2>1 DEF IInv, MadeFirst
    <2> QED BY <2>4, <2>5, <2>6 DEF IInv, C!Next
  <1> QED BY <1>1, <1>2

\* Create puts one at the start of an empty file, or fails.
LEMMA CreateStep ==
  ASSUME IInv, NEW h \in Handles, NEW n \in Names, Create(h, n)
  PROVE  IInv' /\ C!Next
  <1>1. CASE Candidates(n, Creatable) = {}
    <2>1. Answer(KErrNotFound)
      BY <1>1 DEF Create
    <2> QED BY <2>1, AnswerStep
  <1>2. CASE Candidates(n, Creatable) # {}
    <2> DEFINE p == Found(n, Creatable)
               s == [path |-> p, writes |-> TRUE, pos |-> 0]
    <2>1. /\ Attach(h, s)
          /\ files' = files \cup {p}
          /\ size' = [q \in files \cup {p} |-> IF q = p THEN 0 ELSE size[q]]
          /\ made' = [made EXCEPT ![n] = p]
      BY <1>2 DEF Create
    <2>2. p \in Creatable \cap Paths /\ 0 \in 0..MaxSize
      BY <1>2, FoundFacts, FileAssumption
    <2>3. s \in Stream /\ s.pos = 0 /\ s.path \in files' /\ files \subseteq files'
      BY <2>1, <2>2 DEF Stream
    <2> HIDE DEF s, p
    <2>4. /\ TableType' /\ OneSlotPerHandle' /\ StreamsExist'
          /\ reply' \in {KErrNone, KErrNoMemory}
          /\ C!Bind(h) \/ C!Refuse(h)
      BY <2>1, <2>3, AttachStep DEF IInv
    <2>5. files' \subseteq Paths /\ size' \in [files' -> 0..MaxSize]
      BY <2>1, <2>2 DEF IInv, TypeOK
    <2>6. made' \in [Names -> Paths \cup {NoPath}]
      BY <2>1, <2>2 DEF IInv, TypeOK
    <2>7. TypeOK'
      BY <2>4, <2>5, <2>6 DEF TypeOK, TableType
    <2>8. MadeFirst'
      <3>1. made \in [Names -> Paths \cup {NoPath}]
        BY DEF IInv, TypeOK
      <3>2. made'[n] = p /\ \A m \in Names : m # n => made'[m] = made[m]
        BY <2>1, <3>1
      <3> QED BY <1>2, <2>1, <3>2 DEF IInv, MadeFirst, p
    <2> QED BY <2>4, <2>7, <2>8 DEF IInv, C!Next
  <1> QED BY <1>1, <1>2

\* A move within a file, which may have become longer.
LEMMA MovedStep ==
  ASSUME IInv, NEW h \in Handles, IsOpen(h), NEW pos \in 0..MaxSize, MoveTo(h, pos),
         UNCHANGED <<key, files, made>>, size' \in [files -> 0..MaxSize]
  PROVE  IInv' /\ C!Next
  <1>1. /\ TableType' /\ OneSlotPerHandle' /\ StreamsExist'
        /\ reply' = KErrNone /\ C!Move(h)
    BY MoveStep DEF IInv
  <1>2. TypeOK'
    BY <1>1 DEF IInv, TypeOK, TableType
  <1>3. MadeFirst'
    BY DEF IInv, MadeFirst
  <1> QED BY <1>1, <1>2, <1>3 DEF IInv, C!Next

\* The stream of an open object, its position and the length of its file.
LEMMA StreamFacts ==
  ASSUME IInv, NEW h \in Handles, IsOpen(h)
  PROVE  /\ fp[SlotOf(h)].path \in files
         /\ fp[SlotOf(h)].pos \in Nat /\ fp[SlotOf(h)].pos <= MaxSize
         /\ size[fp[SlotOf(h)].path] \in Nat /\ size[fp[SlotOf(h)].path] <= MaxSize
         /\ size \in [files -> 0..MaxSize] /\ MaxSize \in Nat
  <1>1. SlotOf(h) \in Slots /\ fp[SlotOf(h)] # Closed
    BY SlotFacts
  <1>2. fp[SlotOf(h)] \in Stream /\ fp[SlotOf(h)].path \in files
    BY <1>1 DEF IInv, TypeOK, StreamsExist
  <1>3. fp[SlotOf(h)].pos \in 0..MaxSize
    BY <1>2 DEF Stream
  <1>4. size \in [files -> 0..MaxSize] /\ MaxSize \in Nat
    BY FileAssumption DEF IInv, TypeOK
  <1> QED BY <1>2, <1>3, <1>4

\* Read moves the cursor by what is left in the file.
LEMMA ReadStep ==
  ASSUME IInv, NEW h \in Handles, NEW want \in 0..MaxSize, Read(h, want)
  PROVE  IInv' /\ C!Next
  <1>1. CASE ~IsOpen(h)
    BY <1>1, AnswerStep DEF Read
  <1>2. CASE IsOpen(h)
    <2> DEFINE s == fp[SlotOf(h)]
               rest == IF s.writes \/ s.pos > size[s.path] THEN 0 ELSE size[s.path] - s.pos
    <2>1. MoveTo(h, s.pos + Min({want, rest})) /\ UNCHANGED <<key, files, size, made>>
      BY <1>2 DEF Read
    <2>2. /\ s.pos \in Nat /\ s.pos <= MaxSize /\ MaxSize \in Nat
          /\ size[s.path] \in Nat /\ size[s.path] <= MaxSize
      BY <1>2, StreamFacts
    <2>3. rest \in Nat /\ s.pos + rest <= MaxSize
      BY <2>2
    <2>4. Min({want, rest}) \in Nat /\ Min({want, rest}) <= rest
      BY <2>2, <2>3, MinOfTwo
    <2>5. s.pos + Min({want, rest}) \in 0..MaxSize
      BY <2>2, <2>3, <2>4
    <2>6. size' \in [files -> 0..MaxSize]
      BY <1>2, <2>1, StreamFacts
    <2> QED BY <1>2, <2>1, <2>5, <2>6, MovedStep
  <1> QED BY <1>1, <1>2

\* Write moves the cursor, and the end of the file with it.
LEMMA WriteStep ==
  ASSUME IInv, NEW h \in Handles, NEW n \in 0..MaxSize, Write(h, n)
  PROVE  IInv' /\ C!Next
  <1>1. CASE ~IsOpen(h)
    BY <1>1, AnswerStep DEF Write
  <1>2. CASE IsOpen(h)
    <2> DEFINE s == fp[SlotOf(h)]
    <2>1. /\ s.path \in files /\ s.pos \in Nat /\ s.pos <= MaxSize /\ MaxSize \in Nat
          /\ size[s.path] \in Nat /\ size[s.path] <= MaxSize
          /\ size \in [files -> 0..MaxSize]
      BY <1>2, StreamFacts
    <2>2. CASE s.writes /\ n > 0
      <3>1. /\ s.pos + n <= MaxSize /\ MoveTo(h, s.pos + n)
            /\ size' = [size EXCEPT ![s.path] = Max({@, s.pos + n})]
            /\ UNCHANGED <<key, files, made>>
        BY <1>2, <2>2 DEF Write
      <3>2. s.pos + n \in Nat /\ s.pos + n \in 0..MaxSize
        BY <2>1, <3>1
      <3>3. Max({size[s.path], s.pos + n}) \in {size[s.path], s.pos + n}
        BY <2>1, <3>2, MaxOfTwo
      <3>4. Max({size[s.path], s.pos + n}) \in 0..MaxSize
        BY <2>1, <3>2, <3>3
      <3>5. size' \in [files -> 0..MaxSize]
        BY <2>1, <3>1, <3>4
      <3> QED BY <1>2, <3>1, <3>2, <3>5, MovedStep
    <2>3. CASE ~(s.writes /\ n > 0)
      <3>1. MoveTo(h, s.pos) /\ UNCHANGED <<key, files, size, made>>
        BY <1>2, <2>3 DEF Write
      <3>2. s.pos \in 0..MaxSize /\ size' \in [files -> 0..MaxSize]
        BY <2>1, <3>1
      <3> QED BY <1>2, <3>1, <3>2, MovedStep
    <2> QED BY <2>2, <2>3
  <1> QED BY <1>1, <1>2

\* Seek moves the cursor inside the bounds.
LEMMA SeekStep ==
  ASSUME IInv, NEW h \in Handles, NEW mode \in 0..2, NEW offset \in -1..MaxSize,
         Seek(h, mode, offset)
  PROVE  IInv' /\ C!Next
  <1>1. CASE ~IsOpen(h)
    BY <1>1, AnswerStep DEF Seek
  <1>2. CASE IsOpen(h)
    <2> DEFINE s == fp[SlotOf(h)]
               start == CASE mode = 0 -> 0 [] mode = 1 -> s.pos [] OTHER -> size[s.path]
               pos == offset + start
    <2>1. /\ pos <= MaxSize /\ MoveTo(h, IF pos < 0 THEN s.pos ELSE pos)
          /\ UNCHANGED <<key, files, size, made>>
      BY <1>2 DEF Seek
    <2>2. /\ s.pos \in Nat /\ s.pos <= MaxSize /\ MaxSize \in Nat
          /\ size[s.path] \in Nat /\ size \in [files -> 0..MaxSize]
      BY <1>2, StreamFacts
    <2>3. start \in Nat
      <3>1. CASE mode = 0
        BY <3>1
      <3>2. CASE mode = 1
        BY <3>2, <2>2
      <3>3. CASE mode = 2
        BY <3>3, <2>2
      <3> QED BY <3>1, <3>2, <3>3
    <2> HIDE DEF start
    <2>4. (IF pos < 0 THEN s.pos ELSE pos) \in 0..MaxSize
      BY <2>1, <2>2, <2>3
    <2>5. size' \in [files -> 0..MaxSize]
      BY <2>1, <2>2
    <2> QED BY <1>2, <2>1, <2>4, <2>5, MovedStep
  <1> QED BY <1>1, <1>2

-----------------------------------------------------------------------------
\* Closed slots are closed cursors.
LEMMA InitInv == Init => IInv /\ C!Init
  <1> SUFFICES ASSUME Init PROVE IInv /\ C!Init
    OBVIOUS
  <1>1. /\ key = [i \in Slots |-> NoHandle] /\ fp = [i \in Slots |-> Closed]
        /\ files \in SUBSET Paths /\ size \in [files -> 0..MaxSize]
        /\ reply = KErrNone /\ made = [n \in Names |-> NoPath]
    BY DEF Init
  <1>2. TypeOK
    BY <1>1 DEF TypeOK
  <1>3. OneSlotPerHandle /\ StreamsExist /\ MadeFirst
    BY <1>1 DEF OneSlotPerHandle, StreamsExist, MadeFirst
  <1>4. \A h \in Handles : CursorOf(h) = Closed
    BY <1>1 DEF CursorOf, IsOpen, SlotsOf
  <1> QED BY <1>1, <1>2, <1>3, <1>4 DEF IInv, C!Init

\* Every call keeps the invariant and is a step of the cursors.
LEMMA InvStep == IInv /\ [Next]_vars => IInv' /\ [C!Next]_<<[h \in Handles |-> CursorOf(h)], reply>>
  <1> SUFFICES ASSUME IInv, [Next]_vars
               PROVE  IInv' /\ [C!Next]_<<[h \in Handles |-> CursorOf(h)], reply>>
    OBVIOUS
  <1>1. ASSUME NEW h \in Handles, NEW n \in Names, Open(h, n) \/ Create(h, n)
        PROVE  IInv' /\ C!Next
    BY <1>1, OpenStep, CreateStep
  <1>2. ASSUME NEW h \in Handles, NEW n \in 0..MaxSize, Read(h, n) \/ Write(h, n)
        PROVE  IInv' /\ C!Next
    BY <1>2, ReadStep, WriteStep
  <1>3. ASSUME NEW h \in Handles, NEW mode \in 0..2, NEW offset \in -1..MaxSize,
               Seek(h, mode, offset)
        PROVE  IInv' /\ C!Next
    BY <1>3, SeekStep
  <1>4. ASSUME NEW h \in Handles, Size(h) PROVE IInv' /\ C!Next
    BY <1>4, AnswerStep DEF Size
  <1>5. ASSUME NEW h \in Handles, Close(h) PROVE IInv' /\ C!Next
    <2>1. /\ TableType' /\ OneSlotPerHandle' /\ StreamsExist' /\ C!Unbind(h)
          /\ UNCHANGED <<files, size, reply, made>>
      BY <1>5, CloseStep DEF IInv, Close
    <2>2. TypeOK' /\ MadeFirst'
      BY <2>1 DEF IInv, TypeOK, TableType, MadeFirst
    <2> QED BY <2>1, <2>2 DEF IInv, C!Next
  <1>6. CASE Granted
    BY <1>6, AnswerStep DEF Granted
  <1>7. CASE UNCHANGED vars
    <2>1. UNCHANGED <<key, fp, files, size, reply, made>>
      BY <1>7 DEF vars
    <2>2. IInv'
      BY <2>1, TableStays DEF IInv, TypeOK, TableType, StreamsExist, OneSlotPerHandle, MadeFirst
    <2> QED BY <2>1, <2>2, TableStays
  <1> QED BY <1>1, <1>2, <1>3, <1>4, <1>5, <1>6, <1>7 DEF Next

\* The invariant holds always.
LEMMA InvHolds == Spec => []IInv
  BY InitInv, InvStep, PTL DEF Spec

-----------------------------------------------------------------------------
\* In every state the table's variables have their types, and an open slot has
\* a key (efsrv.c:23-32).
THEOREM TypeCorrect == Spec => []TypeOK
  <1>1. IInv => TypeOK
    BY DEF IInv
  <1> QED BY <1>1, InvHolds, PTL

\* However objects are opened, closed and opened again, with slots used before
\* or not, an object has at most one open slot (efsrv.c:27-32).
THEOREM SlotsAreUnique == Spec => []OneSlotPerHandle
  <1>1. IInv => OneSlotPerHandle
    BY DEF IInv
  <1> QED BY <1>1, InvHolds, PTL

\* The table of slots implements the map from objects to cursors: a call
\* concerns one object's cursor, and room is refused only when MaxOpen other
\* objects are open (efsrv.c:66-119).
THEOREM FileServerImplementsCursors == Spec => ImplementsCursors
  BY InitInv, InvStep, InvHolds, PTL DEF Spec, ImplementsCursors, C!Spec

\* Where Create wrote is the first of a name's paths where it could, and what Open
\* finds is the first that exists: the same one unless a file that can only be
\* read is ahead.
LEMMA FoundIsMade ==
  ASSUME IInv, NEW n \in Names, made[n] # NoPath
  PROVE  /\ Candidates(n, files) # {}
         /\ Found(n, files) = made[n] <=> Ahead(n) = {}
  <1>1. /\ made[n] \in files /\ Candidates(n, Creatable) # {}
        /\ made[n] = Found(n, Creatable)
    BY DEF IInv, MadeFirst
  <1> DEFINE Places == Candidates(n, {made[n]})
             m == Min(Candidates(n, Creatable))
             f == Min(Candidates(n, files))
  <1>2. \A usable : Candidates(n, usable) \in SUBSET Nat
    BY DEF Candidates
  <1>3. /\ m \in Nat /\ m \in Candidates(n, Creatable) /\ made[n] = Where[n][m]
        /\ \A i \in Candidates(n, Creatable) : m <= i
    BY <1>1, <1>2, MinFacts DEF Found
  <1>4. m \in Candidates(n, files) /\ m \in Places
    BY <1>1, <1>3 DEF Candidates
  <1>5. /\ f \in Nat /\ f \in Candidates(n, files) /\ Found(n, files) = Where[n][f]
        /\ \A i \in Candidates(n, files) : f <= i
    BY <1>2, <1>4, MinFacts DEF Found
  <1>6. Min(Places) \in Places /\ Min(Places) \in Nat /\ Min(Places) <= m
    BY <1>2, <1>4, MinFacts
  <1>7. Places \subseteq Candidates(n, Creatable)
    BY <1>3 DEF Candidates
  <1>8. Min(Places) = m
    BY <1>3, <1>6, <1>7
  <1>9. Ahead(n) = {i \in Candidates(n, files \ Creatable) : i < m}
    BY <1>8 DEF Ahead
  <1>10. Candidates(n, files \ Creatable) = Candidates(n, files) \ Candidates(n, Creatable)
    BY DEF Candidates
  <1>11. Where[n][f] = made[n] => f \in Candidates(n, Creatable)
    BY <1>3, <1>5 DEF Candidates
  <1> HIDE DEF m, f, Places
  <1>12. f <= m
    BY <1>4, <1>5
  <1>13. ASSUME Ahead(n) = {} PROVE f = m
    BY <1>3, <1>5, <1>9, <1>10, <1>12, <1>13
  <1>14. ASSUME NEW i \in Ahead(n) PROVE Where[n][f] # made[n]
    <2>1. i \in Candidates(n, files) /\ i < m /\ i \in Nat
      BY <1>2, <1>9, <1>10
    <2>2. f < m
      BY <1>3, <1>5, <2>1
    <2> QED BY <1>3, <1>5, <1>11, <2>2
  <1> QED BY <1>3, <1>4, <1>5, <1>13, <1>14

\* Open finds what was created under its name last, though both look in two places
\* by different tests, exactly when no file that can only be read is ahead
\* (efsrv.c:52-64).
THEOREM CreatedIsFound == Spec => CreatedIsOpened
  <1>1. IInv /\ [Next]_vars =>
          [\A h \in Handles, n \in Names :
             made[n] # NoPath /\ reply' = KErrNone /\ Open(h, n)
               => (CursorOf(h)'.path = made[n] <=> Ahead(n) = {})]_vars
    <2> SUFFICES ASSUME IInv, NEW h \in Handles, NEW n \in Names,
                        made[n] # NoPath, reply' = KErrNone, Open(h, n)
                 PROVE  CursorOf(h)'.path = made[n] <=> Ahead(n) = {}
      OBVIOUS
    <2> DEFINE s == [path |-> Found(n, files), writes |-> FALSE, pos |-> 0]
    <2>1. Candidates(n, files) # {} /\ (Found(n, files) = made[n] <=> Ahead(n) = {})
      BY FoundIsMade
    <2>2. Attach(h, s) /\ files' = files
      BY <2>1 DEF Open
    <2>3. Found(n, files) \in files \cap Paths /\ 0 \in 0..MaxSize
      BY <2>1, FoundFacts, FileAssumption
    <2>4. s \in Stream /\ s.pos = 0 /\ s.path = Found(n, files) /\ s.path \in files'
      BY <2>2, <2>3 DEF Stream
    <2> HIDE DEF s
    <2>5. CursorOf(h)' = s
      BY <2>2, <2>4, AttachStep DEF IInv
    <2> QED BY <2>1, <2>4, <2>5
  <1> QED BY <1>1, InvHolds, PTL DEF Spec, CreatedIsOpened

-----------------------------------------------------------------------------
(***************************************************************************)
(* The inductive invariant: what a buffer holds follows from the entry it  *)
(* was allocated for, as long as the entry is not stale; the frame is      *)
(* always as large as its shape.                                           *)
(***************************************************************************)
Holds(i) ==
  LET n == BytesFor(bm[i].w, bm[i].h, bm[i].mode)
  IN bm[i].buf # 0 /\ n <= Largest => n <= bytes[bm[i].buf]
BuffersHold == \A i \in Entries \ stale : Holds(i)

FrameHolds == frame.bytes = frame.w * frame.h * 3

BitmapIInv == BitmapTypeOK /\ OneEntryPerBitmap /\ BuffersHold /\ FrameHolds

-----------------------------------------------------------------------------
\* The bits of a pixel.
LEMMA PixelBits == \A mode : StorageBpp(mode) \in {8, 16, 24, 32}
  BY DEF StorageBpp

\* Half and the ints are numbers, and zero is one of the ints.
LEMMA IntFacts == Half \in Nat /\ Word = 2 * Half /\ Half > 0 /\ Ints \in SUBSET Int /\ 0 \in Ints
  BY BitmapAssumption DEF Half, Ints

\* A row of a width that does not wrap has the scanline of whole words that its
\* bits ask for, and holds them.
LEMMA WidthFacts ==
  ASSUME NEW w \in Nat, NEW mode, w * StorageBpp(mode) + 31 < Half
  PROVE  /\ Scanline(w, mode) \in Nat
         /\ ByteWidth(w, mode) = Scanline(w, mode)
         /\ w * StorageBpp(mode) <= 8 * Scanline(w, mode)
  <1> DEFINE bits == w * StorageBpp(mode)
             n == bits + 31
  <1>1. bits \in Nat
    <2>1. \A a, b \in Nat : a * b \in Nat
      OBVIOUS
    <2> QED BY <2>1, PixelBits
  <1>2. n \in Nat /\ n = bits + 31 /\ n < Half
    BY <1>1
  <1>3. Scanline(w, mode) = (n \div 32) * 4
    BY DEF Scanline
  <1>4. ByteWidth(w, mode) = By32(Signed(Signed(bits) + 31)) * 4
    BY DEF ByteWidth
  <1>5. w * StorageBpp(mode) = bits
    OBVIOUS
  <1> HIDE DEF bits, n
  <1>6. \A k \in Nat : k < Half => Signed(k) = k
    BY IntFacts DEF Signed
  <1>7. Signed(bits) = bits /\ Signed(n) = n
    BY <1>1, <1>2, <1>6, IntFacts
  <1>8. By32(n) = n \div 32
    BY <1>2 DEF By32
  <1>9. n \div 32 \in Nat /\ n < 32 * (n \div 32) + 32
    BY <1>2
  <1>10. ByteWidth(w, mode) = Scanline(w, mode)
    BY <1>2, <1>3, <1>4, <1>7, <1>8
  <1> QED BY <1>1, <1>2, <1>3, <1>5, <1>9, <1>10

\* What is asked for is a number, for every size.
LEMMA BytesAreNat ==
  ASSUME NEW w \in Ints, NEW h \in Ints, NEW mode
  PROVE  BytesFor(w, h, mode) \in Nat
  <1>1. \A n \in Int : By32(n) \in Int
    BY DEF By32
  <1>2. \A n \in Int : Signed(n) \in Int
    BY IntFacts, BitmapAssumption DEF Signed
  <1>3. \A a, b \in Int : a * b \in Int
    OBVIOUS
  <1>4. StorageBpp(mode) \in Int /\ w \in Int /\ h \in Int
    BY PixelBits, IntFacts
  <1>5. Signed(Signed(w * StorageBpp(mode)) + 31) \in Int
    BY <1>2, <1>3, <1>4
  <1>6. ByteWidth(w, mode) \in Int
    BY <1>1, <1>5 DEF ByteWidth
  <1>7. AtLeastZero(h) \in Int
    BY <1>4 DEF AtLeastZero
  <1>8. ByteWidth(w, mode) * AtLeastZero(h) \in Int
    BY <1>3, <1>6, <1>7
  <1>9. \A n \in Int : n % Word \in Nat
    BY BitmapAssumption
  <1> QED BY <1>8, <1>9 DEF BytesFor

\* For a size that does not wrap, the scanlines are what is asked for, and the
\* heap can add it up.
LEMMA BytesFit ==
  ASSUME NEW w \in Ints, NEW h \in Ints, NEW mode, Fits(w, h, mode)
  PROVE  /\ w \in Nat /\ h \in Int /\ w * StorageBpp(mode) + 31 < Half
         /\ AtLeastZero(h) \in Nat
         /\ Scanline(w, mode) * AtLeastZero(h) \in 0..(Word - 1)
         /\ BytesFor(w, h, mode) = Scanline(w, mode) * AtLeastZero(h)
         /\ BytesFor(w, h, mode) <= Largest
  <1>1. w \in Nat /\ h \in Int /\ w * StorageBpp(mode) + 31 < Half
    BY IntFacts DEF Fits
  <1>2. Scanline(w, mode) \in Nat /\ ByteWidth(w, mode) = Scanline(w, mode)
    BY <1>1, WidthFacts
  <1>3. AtLeastZero(h) \in Nat
    BY <1>1 DEF AtLeastZero
  <1> DEFINE p == Scanline(w, mode) * AtLeastZero(h)
  <1>4. p \in Nat
    <2>1. \A a, b \in Nat : a * b \in Nat
      OBVIOUS
    <2> QED BY <1>2, <1>3, <2>1
  <1>5. p <= Largest
    BY DEF Fits
  <1>6. BytesFor(w, h, mode) = p % Word
    BY <1>2 DEF BytesFor
  <1> HIDE DEF p
  <1>7. p \in 0..(Word - 1) /\ p % Word = p
    BY <1>4, <1>5, BitmapAssumption
  <1> QED BY <1>1, <1>3, <1>5, <1>6, <1>7 DEF p

-----------------------------------------------------------------------------
\* The entry that bm_find gives belongs to the bitmap, or to none: no other
\* entry has the bitmap's key.
LEMMA BmFindFacts ==
  ASSUME OneEntryPerBitmap, MaxBm \in Nat, NEW x \in Bitmaps, BmFind(x) # {}
  PROVE  /\ Min(BmFind(x)) \in Entries
         /\ \A j \in Entries : bm[j].key = x => j = Min(BmFind(x))
  <1> DEFINE own == {i \in Entries : bm[i].key = x}
  <1>1. BmFind(x) \in SUBSET Nat /\ BmFind(x) \subseteq Entries
    BY DEF BmFind, Entries
  <1>2. Min(BmFind(x)) \in BmFind(x)
    BY <1>1, MinFacts
  <1>3. x # NoKey
    BY BitmapAssumption
  <1>4. own # {} => Min(BmFind(x)) \in own
    BY <1>2 DEF BmFind
  <1> QED BY <1>1, <1>2, <1>3, <1>4 DEF OneEntryPerBitmap

\* A new buffer has the shape that was asked for and all others stay.
LEMMA BufferFacts ==
  ASSUME BitmapTypeOK, NEW n \in Nat, NEW buf, Buffer(n, buf)
  PROVE  /\ bytes' \in Seq(Nat) /\ Len(bytes') <= MaxBufs
         /\ ink' \in Seq(Nat) /\ Len(ink') = Len(bytes')
         /\ Len(bytes) \in Nat /\ Len(bytes') \in Nat /\ Len(bytes) <= Len(bytes')
         /\ \A b \in 1..Len(bytes) : bytes'[b] = bytes[b]
         /\ buf \in 0..Len(bytes')
         /\ buf # 0 /\ n <= Largest => bytes'[buf] = n
  <1> DEFINE held == IF n <= Largest THEN n ELSE 0
  <1>1. /\ bytes \in Seq(Nat) /\ Len(bytes) <= MaxBufs /\ MaxBufs \in Nat
        /\ ink \in Seq(Nat) /\ Len(ink) = Len(bytes) /\ Len(bytes) \in Nat
    BY BitmapAssumption, LenProperties DEF BitmapTypeOK
  <1>2. CASE buf = 0 /\ UNCHANGED <<bytes, ink>>
    BY <1>1, <1>2
  <1>3. CASE /\ Len(bytes) < MaxBufs /\ buf = Len(bytes) + 1
             /\ bytes' = Append(bytes, held) /\ ink' = Append(ink, 0)
    <2>1. held \in Nat /\ (n <= Largest => held = n)
      OBVIOUS
    <2> HIDE DEF held
    <2>2. /\ bytes' \in Seq(Nat) /\ Len(bytes') = Len(bytes) + 1
          /\ \A b \in 1..Len(bytes) : bytes'[b] = bytes[b]
          /\ bytes'[Len(bytes) + 1] = held
      BY <1>1, <1>3, <2>1, AppendProperties
    <2>3. ink' \in Seq(Nat) /\ Len(ink') = Len(ink) + 1
      BY <1>1, <1>3, AppendProperties
    <2> QED BY <1>1, <1>3, <2>1, <2>2, <2>3
  <1> QED BY <1>2, <1>3 DEF Buffer

-----------------------------------------------------------------------------
\* An entry in whole, of a shape and with a buffer.
EntryFor(x, w, h, mode, buf) == [key |-> x, w |-> w, h |-> h, mode |-> mode, buf |-> buf]

\* Create and Load: the bitmap's entry gets a shape and a buffer, which is
\* large enough unless the entry is stale from now on.
LEMMA EntryKeeps ==
  ASSUME BitmapIInv, NEW x \in Bitmaps, NEW w \in Ints, NEW h \in Ints,
         NEW mode \in Modes \cup {0, Color4K}, NEW i \in Entries,
         \A j \in Entries : bm[j].key = x => j = i,
         NEW buf \in 0..Len(bytes'),
         bm' = [bm EXCEPT ![i] = EntryFor(x, w, h, mode, buf)],
         bytes' \in Seq(Nat), Len(bytes') <= MaxBufs, ink' \in Seq(Nat),
         Len(ink') = Len(bytes'), Len(bytes) \in Nat, Len(bytes') \in Nat,
         Len(bytes) <= Len(bytes'),
         \A b \in 1..Len(bytes) : bytes'[b] = bytes[b],
         stale' \subseteq Entries, stale \ {i} \subseteq stale',
         i \notin stale' => (buf # 0 /\ BytesFor(w, h, mode) <= Largest
                              => BytesFor(w, h, mode) <= bytes'[buf]),
         UNCHANGED frame
  PROVE  BitmapIInv'
  <1> DEFINE e == EntryFor(x, w, h, mode, buf)
  <1>1. bm \in [Entries -> [key : Bitmaps \cup {NoKey}, w : Ints, h : Ints,
                           mode : Modes \cup {0, Color4K}, buf : 0..Len(bytes)]]
    BY DEF BitmapIInv, BitmapTypeOK
  <1>2. bm'[i] = e /\ \A j \in Entries : j # i => bm'[j] = bm[j]
    BY <1>1
  <1>3. e.key = x /\ e.w = w /\ e.h = h /\ e.mode = mode /\ e.buf = buf
    BY DEF EntryFor
  <1>4. e \in [key : Bitmaps \cup {NoKey}, w : Ints, h : Ints,
              mode : Modes \cup {0, Color4K}, buf : 0..Len(bytes')]
    BY DEF EntryFor
  <1> HIDE DEF e
  <1>5. \A j \in Entries : bm[j] \in [key : Bitmaps \cup {NoKey}, w : Ints, h : Ints,
                                    mode : Modes \cup {0, Color4K}, buf : 0..Len(bytes')]
    <2> SUFFICES ASSUME NEW j \in Entries
                 PROVE  bm[j] \in [key : Bitmaps \cup {NoKey}, w : Ints, h : Ints,
                                  mode : Modes \cup {0, Color4K}, buf : 0..Len(bytes')]
      OBVIOUS
    <2>1. 0..Len(bytes) \subseteq 0..Len(bytes')
      OBVIOUS
    <2>2. bm[j] \in [key : Bitmaps \cup {NoKey}, w : Ints, h : Ints,
                    mode : Modes \cup {0, Color4K}, buf : 0..Len(bytes)]
      BY <1>1
    <2> QED BY <2>1, <2>2
  <1>6. bm' \in [Entries -> [key : Bitmaps \cup {NoKey}, w : Ints, h : Ints,
                            mode : Modes \cup {0, Color4K}, buf : 0..Len(bytes')]]
    <2>1. bm' = [bm EXCEPT ![i] = e]
      BY DEF e
    <2>2. bm' = [j \in Entries |-> IF j = i THEN e ELSE bm[j]]
      BY <1>1, <2>1
    <2> QED BY <1>4, <1>5, <2>2
  <1>7. BitmapTypeOK'
    BY <1>6 DEF BitmapIInv, BitmapTypeOK, Entries
  <1>8. OneEntryPerBitmap'
    <2> SUFFICES ASSUME NEW j \in Entries, NEW k \in Entries,
                        bm'[j].key = bm'[k].key, bm'[j].key # NoKey
                 PROVE  j = k
      BY DEF OneEntryPerBitmap, Entries
    <2>1. CASE j = i /\ k = i
      BY <2>1
    <2>2. CASE j = i /\ k # i
      BY <2>2, <1>2, <1>3
    <2>3. CASE j # i /\ k = i
      BY <2>3, <1>2, <1>3
    <2>4. CASE j # i /\ k # i
      BY <2>4, <1>2 DEF BitmapIInv, OneEntryPerBitmap
    <2> QED BY <2>1, <2>2, <2>3, <2>4
  <1>9. BuffersHold'
    <2> SUFFICES ASSUME NEW j \in Entries, j \notin stale', bm'[j].buf # 0,
                        BytesFor(bm'[j].w, bm'[j].h, bm'[j].mode) <= Largest
                 PROVE  BytesFor(bm'[j].w, bm'[j].h, bm'[j].mode) <= bytes'[bm'[j].buf]
      BY DEF BuffersHold, Holds, Entries
    <2>1. CASE j = i
      BY <2>1, <1>2, <1>3
    <2>2. CASE j # i
      <3>1. bm'[j] = bm[j] /\ j \in Entries \ stale
        BY <2>2, <1>2
      <3>2. bm[j].buf \in 0..Len(bytes) /\ bm[j].buf # 0
        BY <1>1, <3>1
      <3>3. bytes'[bm[j].buf] = bytes[bm[j].buf]
        BY <3>2
      <3>4. BytesFor(bm[j].w, bm[j].h, bm[j].mode) <= bytes[bm[j].buf]
        BY <3>1, <3>2 DEF BitmapIInv, BuffersHold, Holds
      <3> QED BY <3>1, <3>3, <3>4
    <2> QED BY <2>1, <2>2
  <1>10. FrameHolds'
    BY DEF BitmapIInv, FrameHolds
  <1> QED BY <1>7, <1>8, <1>9, <1>10 DEF BitmapIInv

\* The new buffer is as large as the new shape.
LEMMA CreateKeeps ==
  ASSUME BitmapIInv, NEW x \in Bitmaps, NEW shape \in Sizes, NEW mode \in Modes,
         CreateBitmap(x, shape, mode)
  PROVE  BitmapIInv'
  <1> DEFINE i == Min(BmFind(x))
             n == BytesFor(shape[1], shape[2], mode)
  <1>1. PICK buf \in 0..MaxBufs :
          /\ Buffer(n, buf)
          /\ bm' = [bm EXCEPT ![i] = EntryFor(x, shape[1], shape[2], mode, buf)]
          /\ stale' = stale \ {i}
    BY DEF CreateBitmap, EntryFor
  <1>2. BmFind(x) # {} /\ UNCHANGED frame
    BY DEF CreateBitmap
  <1>3. shape[1] \in Ints /\ shape[2] \in Ints /\ MaxBm \in Nat
    BY BitmapAssumption
  <1>4. i \in Entries /\ \A j \in Entries : bm[j].key = x => j = i
    BY <1>2, <1>3, BmFindFacts DEF BitmapIInv
  <1>5. n \in Nat
    BY <1>3, BytesAreNat
  <1>6. stale \subseteq Entries
    BY DEF BitmapIInv, BitmapTypeOK
  <1> HIDE DEF i, n
  <1>7. /\ bytes' \in Seq(Nat) /\ Len(bytes') <= MaxBufs
        /\ ink' \in Seq(Nat) /\ Len(ink') = Len(bytes')
        /\ Len(bytes) \in Nat /\ Len(bytes') \in Nat /\ Len(bytes) <= Len(bytes')
        /\ \A b \in 1..Len(bytes) : bytes'[b] = bytes[b]
        /\ buf \in 0..Len(bytes')
        /\ buf # 0 /\ n <= Largest => bytes'[buf] = n
    BY <1>1, <1>5, BufferFacts DEF BitmapIInv
  <1>8. buf # 0 /\ BytesFor(shape[1], shape[2], mode) <= Largest
          => BytesFor(shape[1], shape[2], mode) <= bytes'[buf]
    BY <1>5, <1>7 DEF n
  <1> QED BY <1>1, <1>2, <1>3, <1>4, <1>6, <1>7, <1>8, EntryKeeps

\* A loaded entry has a buffer of its shape, or is stale.
LEMMA LoadKeeps ==
  ASSUME BitmapIInv, NEW x \in Bitmaps, Load(x)
  PROVE  BitmapIInv'
  <1> DEFINE i == Min(BmFind(x))
             w == LoadSize[1]
             h == LoadSize[2]
             n == BytesFor(w, h, Color4K)
  <1>1. PICK buf \in 0..MaxBufs :
          /\ IF bm[i].buf # 0 THEN buf = bm[i].buf /\ UNCHANGED <<bytes, ink>>
             ELSE Buffer(n, buf)
          /\ bm' = [bm EXCEPT ![i] = EntryFor(x, w, h, Color4K, buf)]
          /\ stale' = IF bm[i].buf # 0 THEN stale \cup {i} ELSE stale
    BY DEF Load, EntryFor
  <1>2. BmFind(x) # {} /\ UNCHANGED frame
    BY DEF Load
  <1>3. w \in Ints /\ h \in Ints /\ MaxBm \in Nat
    BY BitmapAssumption
  <1>4. i \in Entries /\ \A j \in Entries : bm[j].key = x => j = i
    BY <1>2, <1>3, BmFindFacts DEF BitmapIInv
  <1>5. n \in Nat
    BY <1>3, BytesAreNat
  <1>6. /\ stale \subseteq Entries /\ bytes \in Seq(Nat) /\ Len(bytes) <= MaxBufs
        /\ ink \in Seq(Nat) /\ Len(ink) = Len(bytes) /\ Len(bytes) \in Nat
        /\ bm[i].buf \in 0..Len(bytes)
    BY <1>4, LenProperties DEF BitmapIInv, BitmapTypeOK
  <1> HIDE DEF i, n, w, h
  <1>7. CASE bm[i].buf # 0
    <2>1. bytes' = bytes /\ ink' = ink /\ buf = bm[i].buf /\ stale' = stale \cup {i}
      BY <1>1, <1>7
    <2>2. stale' \subseteq Entries /\ stale \ {i} \subseteq stale' /\ i \in stale'
      BY <1>4, <1>6, <2>1
    <2>3. /\ bytes' \in Seq(Nat) /\ Len(bytes') <= MaxBufs
          /\ ink' \in Seq(Nat) /\ Len(ink') = Len(bytes')
          /\ Len(bytes) \in Nat /\ Len(bytes') \in Nat /\ Len(bytes) <= Len(bytes')
          /\ \A b \in 1..Len(bytes) : bytes'[b] = bytes[b]
          /\ buf \in 0..Len(bytes')
      BY <1>6, <2>1
    <2> QED BY <1>1, <1>2, <1>3, <1>4, <2>2, <2>3, EntryKeeps
  <1>8. CASE bm[i].buf = 0
    <2>1. Buffer(n, buf) /\ stale' = stale
      BY <1>1, <1>8
    <2>2. /\ bytes' \in Seq(Nat) /\ Len(bytes') <= MaxBufs
          /\ ink' \in Seq(Nat) /\ Len(ink') = Len(bytes')
          /\ Len(bytes) \in Nat /\ Len(bytes') \in Nat /\ Len(bytes) <= Len(bytes')
          /\ \A b \in 1..Len(bytes) : bytes'[b] = bytes[b]
          /\ buf \in 0..Len(bytes')
          /\ buf # 0 /\ n <= Largest => bytes'[buf] = n
      BY <1>5, <2>1, BufferFacts DEF BitmapIInv
    <2>3. buf # 0 /\ BytesFor(w, h, Color4K) <= Largest
            => BytesFor(w, h, Color4K) <= bytes'[buf]
      BY <1>5, <2>2 DEF n
    <2> QED BY <1>1, <1>2, <1>3, <1>4, <1>6, <2>1, <2>2, <2>3, EntryKeeps
  <1> QED BY <1>7, <1>8

\* The constructor only writes a key.
LEMMA CtorKeeps ==
  ASSUME BitmapIInv, NEW x \in Bitmaps, Ctor(x)
  PROVE  BitmapIInv'
  <1> DEFINE i == Min(BmFind(x))
  <1>1. /\ bm' = [bm EXCEPT ![i].key = x] /\ BmFind(x) # {}
        /\ UNCHANGED <<bytes, ink, frame, stale>>
    BY DEF Ctor
  <1>2. i \in Entries /\ \A j \in Entries : bm[j].key = x => j = i
    BY <1>1, BitmapAssumption, BmFindFacts DEF BitmapIInv
  <1> HIDE DEF i
  <1>3. bm \in [Entries -> [key : Bitmaps \cup {NoKey}, w : Ints, h : Ints,
                           mode : Modes \cup {0, Color4K}, buf : 0..Len(bytes)]]
    BY DEF BitmapIInv, BitmapTypeOK
  <1>4. /\ bm' \in [Entries -> [key : Bitmaps \cup {NoKey}, w : Ints, h : Ints,
                               mode : Modes \cup {0, Color4K}, buf : 0..Len(bytes)]]
        /\ bm'[i].key = x
        /\ \A j \in Entries : /\ j # i => bm'[j].key = bm[j].key
                              /\ bm'[j].w = bm[j].w /\ bm'[j].h = bm[j].h
                              /\ bm'[j].mode = bm[j].mode /\ bm'[j].buf = bm[j].buf
    BY <1>1, <1>2, <1>3
  <1>5. BitmapTypeOK'
    BY <1>1, <1>4 DEF BitmapIInv, BitmapTypeOK, Entries
  <1>6. OneEntryPerBitmap'
    BY <1>2, <1>4 DEF BitmapIInv, OneEntryPerBitmap, Entries
  <1>7. BuffersHold'
    BY <1>1, <1>4 DEF BitmapIInv, BuffersHold, Holds, Entries
  <1>8. FrameHolds'
    BY <1>1 DEF BitmapIInv, FrameHolds
  <1> QED BY <1>5, <1>6, <1>7, <1>8 DEF BitmapIInv

\* The flip gives the host's frame the shape of an entry that has one.
LEMMA PresentKeeps ==
  ASSUME BitmapIInv, Present
  PROVE  BitmapIInv'
  <1>1. PICK nz \in Counts :
          /\ MostDrawn(nz) # {}
          /\ frame' = Fitted(bm[Min(MostDrawn(nz))].w, bm[Min(MostDrawn(nz))].h)
    BY DEF Present
  <1>2. UNCHANGED <<bm, bytes, ink, stale>>
    BY DEF Present
  <1> DEFINE i == Min(MostDrawn(nz))
  <1>3. i \in Entries /\ Sized(i)
    <2>1. MostDrawn(nz) \in SUBSET Nat /\ MostDrawn(nz) \subseteq Presentable(nz)
      BY BitmapAssumption DEF MostDrawn, Presentable, Entries
    <2>2. i \in Presentable(nz)
      BY <1>1, <2>1, MinFacts
    <2> QED BY <2>2 DEF Presentable
  <1>4. frame' = Fitted(bm[i].w, bm[i].h)
    BY <1>1
  <1> HIDE DEF i
  <1>5. bm[i].w \in Nat /\ bm[i].h \in Nat
    <2>1. bm[i].w \in Ints /\ bm[i].h \in Ints
      BY <1>3 DEF BitmapIInv, BitmapTypeOK
    <2>2. bm[i].w \in Int /\ bm[i].h \in Int
      BY <2>1, IntFacts
    <2> QED BY <1>3, <2>2 DEF Sized
  <1>6. \A a, b \in Nat : a * b * 3 \in Nat
    OBVIOUS
  <1>7. frame' = frame \/ frame' = [w |-> bm[i].w, h |-> bm[i].h, bytes |-> bm[i].w * bm[i].h * 3]
    BY <1>4 DEF Fitted
  <1>8. frame' \in [w : Nat, h : Nat, bytes : Nat]
    <2>1. bm[i].w * bm[i].h * 3 \in Nat
      BY <1>5, <1>6
    <2> QED BY <1>5, <1>7, <2>1 DEF BitmapIInv, BitmapTypeOK
  <1>9. FrameHolds'
    BY <1>7 DEF BitmapIInv, FrameHolds
  <1>10. BitmapTypeOK'
    BY <1>2, <1>8 DEF BitmapIInv, BitmapTypeOK
  <1>11. OneEntryPerBitmap' /\ BuffersHold'
    BY <1>2 DEF BitmapIInv, OneEntryPerBitmap, BuffersHold, Holds
  <1> QED BY <1>9, <1>10, <1>11 DEF BitmapIInv

\* Drawing changes no shape.
LEMMA DrawKeeps ==
  ASSUME BitmapIInv, NEW b \in 1..Len(bytes), NEW n \in 0..MaxInk, Draw(b, n)
  PROVE  BitmapIInv'
  <1>1. ink' = [ink EXCEPT ![b] = n] /\ UNCHANGED <<bm, bytes, frame, stale>>
    BY DEF Draw
  <1>2. ink \in Seq(Nat) /\ b \in 1..Len(ink) /\ n \in Nat /\ Len(ink) = Len(bytes)
    BY BitmapAssumption DEF BitmapIInv, BitmapTypeOK
  <1>3. ink' \in Seq(Nat) /\ Len(ink') = Len(ink)
    BY <1>1, <1>2, ExceptSeq
  <1>4. BitmapTypeOK'
    BY <1>1, <1>2, <1>3 DEF BitmapIInv, BitmapTypeOK
  <1>5. OneEntryPerBitmap' /\ BuffersHold' /\ FrameHolds'
    BY <1>1 DEF BitmapIInv, OneEntryPerBitmap, BuffersHold, Holds, FrameHolds
  <1> QED BY <1>4, <1>5 DEF BitmapIInv

\* No entry has a buffer at first.
LEMMA BitmapInitInv == BitmapInit => BitmapIInv
  <1> SUFFICES ASSUME BitmapInit PROVE BitmapIInv
    OBVIOUS
  <1>1. /\ bm = [i \in Entries |-> Empty] /\ bytes = << >> /\ ink = << >>
        /\ frame = [w |-> 0, h |-> 0, bytes |-> 0] /\ stale = {}
    BY DEF BitmapInit
  <1>2. bytes \in Seq(Nat) /\ ink \in Seq(Nat) /\ Len(bytes) = 0 /\ Len(ink) = 0
    BY <1>1
  <1>3. \A i \in Entries : bm[i] = Empty /\ bm[i].key = NoKey /\ bm[i].buf = 0
    BY <1>1 DEF Empty
  <1>4. Empty \in [key : Bitmaps \cup {NoKey}, w : Ints, h : Ints,
                  mode : Modes \cup {0, Color4K}, buf : 0..Len(bytes)]
    BY <1>2, IntFacts DEF Empty
  <1>5. BitmapTypeOK
    BY <1>1, <1>2, <1>4, BitmapAssumption DEF BitmapTypeOK
  <1>6. OneEntryPerBitmap /\ BuffersHold
    BY <1>3 DEF OneEntryPerBitmap, BuffersHold, Holds
  <1>7. FrameHolds
    BY <1>1 DEF FrameHolds
  <1> QED BY <1>5, <1>6, <1>7 DEF BitmapIInv

\* Every call keeps the invariant.
LEMMA BitmapInvStep == BitmapIInv /\ [BitmapNext]_bitmapVars => BitmapIInv'
  <1> SUFFICES ASSUME BitmapIInv, [BitmapNext]_bitmapVars PROVE BitmapIInv'
    OBVIOUS
  <1>1. ASSUME NEW x \in Bitmaps, Ctor(x) \/ Load(x) PROVE BitmapIInv'
    BY <1>1, CtorKeeps, LoadKeeps
  <1>2. ASSUME NEW x \in Bitmaps, NEW s \in Sizes, NEW m \in Modes, CreateBitmap(x, s, m) PROVE BitmapIInv'
    BY <1>2, CreateKeeps
  <1>3. ASSUME NEW b \in 1..Len(bytes), NEW n \in 0..MaxInk, Draw(b, n) PROVE BitmapIInv'
    BY <1>3, DrawKeeps
  <1>4. CASE Present
    BY <1>4, PresentKeeps
  <1>5. CASE UNCHANGED bitmapVars
    BY <1>5 DEF bitmapVars, BitmapIInv, BitmapTypeOK, OneEntryPerBitmap, BuffersHold, Holds, FrameHolds
  <1> QED BY <1>1, <1>2, <1>3, <1>4, <1>5 DEF BitmapNext

\* So it holds always.
LEMMA BitmapInvHolds == BitmapSpec => []BitmapIInv
  BY BitmapInitInv, BitmapInvStep, PTL DEF BitmapSpec

-----------------------------------------------------------------------------
\* In every state the table, the buffers and the frame have their types
\* (fbserv.c:10-16).
THEOREM BitmapTypeCorrect == BitmapSpec => []BitmapTypeOK
  <1>1. BitmapIInv => BitmapTypeOK
    BY DEF BitmapIInv
  <1> QED BY <1>1, BitmapInvHolds, PTL

\* No sequence of constructions, Create and Load gives a bitmap two entries
\* (fbserv.c:19-24).
THEOREM EntriesAreUnique == BitmapSpec => []OneEntryPerBitmap
  <1>1. BitmapIInv => OneEntryPerBitmap
    BY DEF BitmapIInv
  <1> QED BY <1>1, BitmapInvHolds, PTL

\* The entry that DataAddress and its like find, when the bitmap has a buffer.
LEMMA OwnFacts ==
  ASSUME BitmapIInv, NEW x \in Bitmaps, DataAddress(x) # 0
  PROVE  /\ Own(x) # {} /\ Min(Own(x)) \in Own(x)
         /\ Min(Own(x)) \in Entries /\ EntryOf(x) = bm[Min(Own(x))]
  <1>1. Own(x) # {}
    BY DEF DataAddress, EntryOf, Empty
  <1>2. Own(x) \in SUBSET Nat
    BY BitmapAssumption DEF Own, Entries
  <1>3. Min(Own(x)) \in Own(x)
    BY <1>1, <1>2, MinFacts
  <1> QED BY <1>1, <1>3 DEF EntryOf, Own

\* For every shape that does not wrap and every mode a bitmap's buffer holds its
\* scanlines, and what its Header says, unless Load kept an old buffer
\* (fbserv.c:44-72).
THEOREM BuffersAreLargeEnough == BitmapSpec => []BufferFits
  <1>1. BitmapIInv => BufferFits
    <2> SUFFICES ASSUME BitmapIInv, NEW x \in Bitmaps, DataAddress(x) # 0,
                        \A i \in Own(x) : Regular(i)
                 PROVE  LET shape == SizeInPixels(x)
                            held == bytes[DataAddress(x)]
                        IN /\ Scanline(shape[1], DisplayMode(x)) * AtLeastZero(shape[2]) <= held
                           /\ shape[2] >= 0 => HeaderOf(x).bytes <= held
                           /\ DisplayMode(x) # Color256 =>
                                shape[1] * HeaderOf(x).bpp
                                  <= 8 * ByteWidth(shape[1], DisplayMode(x))
      BY DEF BufferFits
    <2> DEFINE i == Min(Own(x))
               w == bm[i].w
               h == bm[i].h
               mode == bm[i].mode
               row == Scanline(w, mode)
    <2>1. Own(x) # {} /\ i \in Own(x) /\ i \in Entries /\ EntryOf(x) = bm[i] /\ Regular(i)
      BY OwnFacts
    <2>2. /\ SizeInPixels(x) = <<w, h>> /\ DisplayMode(x) = mode /\ DataAddress(x) = bm[i].buf
          /\ HeaderOf(x).bytes = (ByteWidth(w, mode) * h) % Word
          /\ HeaderOf(x).bpp = IF mode = Gray256 THEN 8 ELSE 16
      BY <2>1 DEF SizeInPixels, DisplayMode, DataAddress, HeaderOf
    <2>3. Holds(i) /\ bm[i].buf # 0 /\ Fits(w, h, mode)
      BY <2>1, <2>2 DEF BitmapIInv, BuffersHold, Regular
    <2>4. w \in Ints /\ h \in Ints
      BY <2>1 DEF BitmapIInv, BitmapTypeOK
    <2>5. BytesFor(w, h, mode) <= Largest => BytesFor(w, h, mode) <= bytes[bm[i].buf]
      BY <2>3 DEF Holds
    <2> HIDE DEF i, w, h, mode
    <2>6. /\ w \in Nat /\ h \in Int /\ w * StorageBpp(mode) + 31 < Half
          /\ row * AtLeastZero(h) \in 0..(Word - 1)
          /\ BytesFor(w, h, mode) = row * AtLeastZero(h)
          /\ BytesFor(w, h, mode) <= Largest
      BY <2>3, <2>4, BytesFit
    <2>7. row * AtLeastZero(h) <= bytes[bm[i].buf]
      BY <2>5, <2>6
    <2>8. /\ row \in Nat /\ ByteWidth(w, mode) = row
          /\ w * StorageBpp(mode) <= 8 * row
      BY <2>6, WidthFacts
    <2> HIDE DEF row
    <2>9. h >= 0 => HeaderOf(x).bytes = row * AtLeastZero(h)
      <3> SUFFICES ASSUME h >= 0 PROVE HeaderOf(x).bytes = row * AtLeastZero(h)
        OBVIOUS
      <3>1. AtLeastZero(h) = h
        BY <2>6 DEF AtLeastZero
      <3> DEFINE p == row * AtLeastZero(h)
      <3>2. HeaderOf(x).bytes = p % Word
        BY <2>2, <2>8, <3>1
      <3>3. p \in 0..(Word - 1)
        BY <2>6
      <3> HIDE DEF p
      <3>4. p % Word = p
        BY <3>3, BitmapAssumption
      <3> QED BY <3>2, <3>4 DEF p
    <2>10. mode # Color256 => w * HeaderOf(x).bpp <= 8 * ByteWidth(w, mode)
      <3>1. CASE mode = Gray256
        <4>1. StorageBpp(mode) = 8
          BY <3>1 DEF StorageBpp, Gray256, Color256, Color16M, Color16MU
        <4>2. HeaderOf(x).bpp = 8
          BY <3>1, <2>2
        <4> QED BY <4>1, <4>2, <2>8
      <3>2. CASE mode # Gray256 /\ mode # Color256
        <4>1. StorageBpp(mode) \in {16, 24, 32} /\ HeaderOf(x).bpp = 16
          BY <3>2, <2>2 DEF StorageBpp
        <4>2. CASE StorageBpp(mode) = 16
          BY <4>1, <4>2, <2>6, <2>8
        <4>3. CASE StorageBpp(mode) = 24
          BY <4>1, <4>3, <2>6, <2>8
        <4>4. CASE StorageBpp(mode) = 32
          BY <4>1, <4>4, <2>6, <2>8
        <4> QED BY <4>1, <4>2, <4>3, <4>4
      <3> QED BY <3>1, <3>2
    <2>11. bytes[DataAddress(x)] = bytes[bm[i].buf]
      BY <2>2
    <2>12. h >= 0 => HeaderOf(x).bytes <= bytes[DataAddress(x)]
      BY <2>7, <2>9, <2>11
    <2>13. Scanline(w, mode) * AtLeastZero(h) <= bytes[DataAddress(x)]
      BY <2>7, <2>11 DEF row
    <2> QED BY <2>2, <2>10, <2>12, <2>13
  <1> QED BY <1>1, BitmapInvHolds, PTL

\* The flip stays inside the buffer it reads, for every shape that does not wrap
\* and in every mode but EColor16M, and inside the frame it writes
\* (framebuffer.c:71-86).
THEOREM FlipsStayInside == BitmapSpec => []PresentStaysInside
  <1>1. BitmapIInv => PresentStaysInside
    <2> SUFFICES ASSUME BitmapIInv PROVE PresentStaysInside
      OBVIOUS
    <2>1. ASSUME NEW i \in Entries, Sized(i), Regular(i), bm[i].mode # Color16M
          PROVE  ReadEnd(bm[i]) <= bytes[bm[i].buf]
      <3> DEFINE w == bm[i].w
                 h == bm[i].h
                 mode == bm[i].mode
                 row == ByteWidth(w, mode)
      <3>1. w \in Ints /\ h \in Ints /\ h > 0 /\ bm[i].buf # 0 /\ Fits(w, h, mode)
        BY <2>1 DEF BitmapIInv, BitmapTypeOK, Sized, Regular
      <3>2. BytesFor(w, h, mode) <= Largest => BytesFor(w, h, mode) <= bytes[bm[i].buf]
        BY <2>1, <3>1 DEF BitmapIInv, BuffersHold, Holds, Regular
      <3>3. ReadEnd(bm[i]) = (h - 1) * row + w * PixelBytes(mode)
        BY DEF ReadEnd
      <3>4. mode # Color16M
        BY <2>1
      <3>5. bytes[bm[i].buf] \in Nat
        <4>1. bytes \in Seq(Nat) /\ Len(bytes) \in Nat /\ bm[i].buf \in 0..Len(bytes)
          BY <2>1, LenProperties DEF BitmapIInv, BitmapTypeOK
        <4> QED BY <3>1, <4>1, ElementOfSeq
      <3> HIDE DEF w, h, mode, row
      <3>6. /\ w \in Nat /\ h \in Nat
            /\ row \in Nat /\ row = Scanline(w, mode) /\ w * StorageBpp(mode) <= 8 * row
            /\ BytesFor(w, h, mode) <= bytes[bm[i].buf]
        <4>1. /\ w \in Nat /\ h \in Int /\ w * StorageBpp(mode) + 31 < Half
              /\ BytesFor(w, h, mode) <= Largest
          BY <3>1, BytesFit
        <4>2. /\ Scanline(w, mode) \in Nat /\ ByteWidth(w, mode) = Scanline(w, mode)
              /\ w * StorageBpp(mode) <= 8 * Scanline(w, mode)
          BY <4>1, WidthFacts
        <4>3. row = Scanline(w, mode)
          BY <4>2 DEF row
        <4> QED BY <3>1, <3>2, <4>1, <4>2, <4>3
      <3>7. BytesFor(w, h, mode) = row * h
        <4>1. BytesFor(w, h, mode) = Scanline(w, mode) * AtLeastZero(h)
          BY <3>1, BytesFit
        <4>2. AtLeastZero(h) = h
          BY <3>1, <3>6 DEF AtLeastZero
        <4> QED BY <3>6, <4>1, <4>2
      <3>8. w * PixelBytes(mode) <= row /\ w * PixelBytes(mode) \in Nat
        <4>1. \/ StorageBpp(mode) = 8 /\ PixelBytes(mode) = 1
              \/ StorageBpp(mode) = 16 /\ PixelBytes(mode) = 2
              \/ StorageBpp(mode) = 32 /\ PixelBytes(mode) = 4
          BY <3>4 DEF StorageBpp, PixelBytes
        <4>2. CASE StorageBpp(mode) = 8 /\ PixelBytes(mode) = 1
          BY <4>2, <3>6
        <4>3. CASE StorageBpp(mode) = 16 /\ PixelBytes(mode) = 2
          BY <4>3, <3>6
        <4>4. CASE StorageBpp(mode) = 32 /\ PixelBytes(mode) = 4
          BY <4>4, <3>6
        <4> QED BY <4>1, <4>2, <4>3, <4>4
      <3>9. (h - 1) * row + row = row * h
        <4>1. \A a, b \in Nat : (a - 1) * b + b = b * a
          OBVIOUS
        <4> QED BY <3>1, <3>6, <4>1
      <3>10. (h - 1) * row \in Nat
        <4>1. \A a, b \in Nat : a * b \in Nat
          OBVIOUS
        <4> QED BY <3>1, <3>6, <4>1
      <3>11. row * h \in Nat
        <4>1. \A a, b \in Nat : a * b \in Nat
          OBVIOUS
        <4> QED BY <3>1, <3>6, <4>1
      <3>12. \A a, b, c, d, e \in Nat : a <= b /\ c + b = d /\ d <= e => c + a <= e
        OBVIOUS
      <3>13. (h - 1) * row + w * PixelBytes(mode) <= bytes[bm[i].buf]
        BY <3>5, <3>6, <3>7, <3>8, <3>9, <3>10, <3>11, <3>12
      <3> QED BY <3>3, <3>13
    <2>2. frame.w * frame.h * 3 <= frame.bytes
      BY DEF BitmapIInv, BitmapTypeOK, FrameHolds
    <2> QED BY <2>1, <2>2 DEF PresentStaysInside
  <1> QED BY <1>1, BitmapInvHolds, PTL
=============================================================================
