-------------------------- MODULE PeriodicsProofs --------------------------
(***************************************************************************)
(* Theorems about Periodics for any set of timers and any length of the    *)
(* table: a frame calls every recorded callback and none twice, and time   *)
(* moves on between two calls of the same one.                             *)
(***************************************************************************)
EXTENDS Periodics, TLAPS, SequenceTheorems

(***************************************************************************)
(* The inductive invariant.  RecordedOnce: a timer that was never deleted  *)
(* is marked once it is recorded, and the guest does not start a marked    *)
(* timer again.  AtIndex, FiredBehind, FrameCovers: a frame has called     *)
(* exactly the callbacks behind its index, and the one at it while that    *)
(* runs.  NotYet: what it has not called was last called at an earlier     *)
(* tick.                                                                   *)
(***************************************************************************)
RecordedOnce ==
  /\ \A i \in 1..Len(per) : per[i] \notin deleted => per[i] \in created /\ marked[per[i]]
  /\ \A i, j \in 1..Len(per) : per[i] = per[j] /\ per[i] \notin deleted => i = j

AtIndex == pumping /\ GuestRuns => index \in 1..Len(per) /\ per[index] \in fired

Framing == pumping /\ index > 0

FiredBehind ==
  Framing => \A p \in fired : \E i \in 1..Len(per) :
               /\ per[i] = p
               /\ i <= index /\ (i = index => GuestRuns)

FrameCovers == Framing => \A i \in 1..Len(per) : i < index => per[i] \in fired

NotYet == /\ \A p \in Timers : lastTick[p] <= ticks
          /\ Framing => \A p \in Timers \ fired : lastTick[p] < ticks

IInv == TypeOK /\ RecordedOnce /\ AtIndex /\ FiredBehind /\ FrameCovers /\ NotYet

-----------------------------------------------------------------------------
\* The table, the clock and the index have their types.
LEMMA Facts ==
  ASSUME TypeOK
  PROVE  /\ per \in Seq(Timers) /\ Len(per) \in Nat /\ Len(per) <= MaxPer
         /\ \A i \in 1..Len(per) : per[i] \in Timers
         /\ ticks \in Nat /\ left \in Nat /\ index \in Nat
         /\ MaxPer \in Nat /\ MaxTicks \in Nat /\ MaxCount \in Nat
         /\ Nobody \notin Timers /\ Guest \notin Timers /\ Nobody # Guest
  <1>1. /\ per \in Seq(Timers) /\ Len(per) <= MaxPer
        /\ ticks \in Nat /\ left \in 0..MaxCount /\ index \in 0..MaxPer + 1
    BY DEF TypeOK
  <1>2. Len(per) \in Nat /\ \A i \in 1..Len(per) : per[i] \in Timers
    BY <1>1, LenProperties, ElementOfSeq
  <1>3. /\ MaxPer \in Nat /\ MaxTicks \in Nat /\ MaxCount \in Nat
        /\ Nobody \notin Timers /\ Guest \notin Timers /\ Nobody # Guest
    BY PeriodicsAssumption
  <1> QED BY <1>1, <1>2, <1>3

\* Start keeps what is recorded and appends at most the timer.
LEMMA RecordedFacts ==
  ASSUME TypeOK, NEW p \in Timers
  PROVE  /\ Recorded(p) \in Seq(Timers) /\ Len(Recorded(p)) <= MaxPer
         /\ Len(Recorded(p)) \in Nat /\ Len(per) <= Len(Recorded(p))
         /\ Len(Recorded(p)) <= Len(per) + 1
         /\ \A i \in 1..Len(per) : Recorded(p)[i] = per[i]
         /\ \A i \in 1..Len(Recorded(p)) : i > Len(per) => Recorded(p)[i] = p
  <1>1. /\ per \in Seq(Timers) /\ Len(per) \in Nat /\ Len(per) <= MaxPer /\ MaxPer \in Nat
    BY Facts
  <1>2. CASE Recorded(p) = per
    BY <1>1, <1>2
  <1>3. CASE Recorded(p) # per
    <2>1. Recorded(p) = Append(per, p) /\ Len(per) < MaxPer
      BY <1>3 DEF Recorded
    <2>2. /\ Append(per, p) \in Seq(Timers) /\ Len(Append(per, p)) = Len(per) + 1
          /\ \A i \in 1..Len(per) : Append(per, p)[i] = per[i]
          /\ Append(per, p)[Len(per) + 1] = p
      BY <1>1, AppendProperties
    <2>3. \A i \in 1..Len(Append(per, p)) : i > Len(per) => i = Len(per) + 1
      BY <1>1, <2>2
    <2> QED BY <1>1, <2>1, <2>2, <2>3
  <1> QED BY <1>2, <1>3

-----------------------------------------------------------------------------
\* The table is as it was.
LEMMA TableStays ==
  ASSUME IInv, UNCHANGED timers
  PROVE  /\ RecordedOnce'
         /\ per' \in Seq(Timers) /\ Len(per') <= MaxPer
         /\ created' \subseteq Timers /\ marked' \in [Timers -> BOOLEAN]
         /\ deleted' \subseteq Timers
  BY DEF IInv, timers, RecordedOnce, TypeOK

\* The pump is as it was, and the table at most longer.
LEMMA PumpStays ==
  ASSUME IInv, UNCHANGED pump, Len(per') \in Nat, Len(per) <= Len(per'),
         \A i \in 1..Len(per) : per'[i] = per[i]
  PROVE  /\ AtIndex' /\ FiredBehind' /\ NotYet'
         /\ ticks' \in Nat /\ ticks' + left' <= MaxTicks
         /\ pumping' \in BOOLEAN /\ left' \in 0..MaxCount
         /\ index' \in 0..MaxPer + 1
         /\ running' \in Timers \cup {Nobody, Guest}
         /\ fired' \subseteq Timers /\ lastTick' \in [Timers -> 0..MaxTicks]
  <1>1. /\ ticks' = ticks /\ pumping' = pumping /\ left' = left /\ index' = index
        /\ running' = running /\ fired' = fired /\ lastTick' = lastTick
    BY DEF pump
  <1>2. Len(per) \in Nat
    BY Facts DEF IInv
  <1>3. AtIndex'
    BY <1>1, <1>2 DEF IInv, AtIndex, GuestRuns
  <1>4. FiredBehind'
    BY <1>1, <1>2 DEF IInv, FiredBehind, Framing, GuestRuns
  <1>5. NotYet'
    BY <1>1 DEF IInv, NotYet, Framing
  <1> QED BY <1>1, <1>3, <1>4, <1>5 DEF IInv, TypeOK

\* A new timer is not in the table.
LEMMA NewLKeeps ==
  ASSUME IInv, NEW p \in Timers, NewL(p)
  PROVE  IInv'
  <1>1. /\ per' = per /\ deleted' = deleted /\ UNCHANGED pump
        /\ created' = created \cup {p} /\ marked' = [marked EXCEPT ![p] = FALSE]
        /\ p \notin created
    BY DEF NewL
  <1>2. /\ AtIndex' /\ FiredBehind' /\ NotYet'
        /\ ticks' \in Nat /\ ticks' + left' <= MaxTicks
        /\ pumping' \in BOOLEAN /\ left' \in 0..MaxCount
        /\ index' \in 0..MaxPer + 1
        /\ running' \in Timers \cup {Nobody, Guest}
        /\ fired' \subseteq Timers /\ lastTick' \in [Timers -> 0..MaxTicks]
    BY <1>1, Facts, PumpStays DEF IInv
  <1>3. /\ marked \in [Timers -> BOOLEAN] /\ created \subseteq Timers
        /\ \A i \in 1..Len(per) : per[i] \in Timers
    BY Facts DEF IInv, TypeOK
  <1>4. RecordedOnce'
    BY <1>1, <1>3 DEF IInv, RecordedOnce
  <1>5. FrameCovers'
    BY <1>1 DEF IInv, FrameCovers, Framing, pump
  <1>6. TypeOK'
    BY <1>1, <1>2, <1>3 DEF IInv, TypeOK
  <1> QED BY <1>2, <1>4, <1>5, <1>6 DEF IInv

\* A timer is recorded once, behind the index.
LEMMA StartKeeps ==
  ASSUME IInv, NEW p \in Timers, Start(p)
  PROVE  IInv'
  <1>1. /\ per' \in {Recorded(p), per} /\ deleted' = deleted /\ UNCHANGED pump
        /\ created' = created /\ marked' = [marked EXCEPT ![p] = TRUE]
        /\ p \in created /\ ~marked[p] /\ GuestRuns
    BY DEF Start
  <1>2. /\ per' \in Seq(Timers) /\ Len(per') <= MaxPer
        /\ Len(per') \in Nat /\ Len(per) <= Len(per') /\ Len(per') <= Len(per) + 1
        /\ \A i \in 1..Len(per) : per'[i] = per[i]
        /\ \A i \in 1..Len(per') : i > Len(per) => per'[i] = p
    <2>1. CASE per' = Recorded(p)
      BY <2>1, RecordedFacts DEF IInv
    <2>2. CASE per' = per
      BY <2>2, Facts DEF IInv
    <2> QED BY <1>1, <2>1, <2>2
  <1>3. /\ AtIndex' /\ FiredBehind' /\ NotYet'
        /\ ticks' \in Nat /\ ticks' + left' <= MaxTicks
        /\ pumping' \in BOOLEAN /\ left' \in 0..MaxCount
        /\ index' \in 0..MaxPer + 1
        /\ running' \in Timers \cup {Nobody, Guest}
        /\ fired' \subseteq Timers /\ lastTick' \in [Timers -> 0..MaxTicks]
    BY <1>1, <1>2, PumpStays
  <1>4. /\ marked \in [Timers -> BOOLEAN] /\ Len(per) \in Nat
        /\ \A i \in 1..Len(per) : per[i] \in Timers
    BY Facts DEF IInv, TypeOK
  <1>5. p \notin deleted => \A i \in 1..Len(per) : per[i] # p
    BY <1>1 DEF IInv, RecordedOnce
  <1>6. RecordedOnce'
    <2>1. \A i \in 1..Len(per') : per'[i] \notin deleted =>
            per'[i] \in created /\ marked'[per'[i]]
      <3> SUFFICES ASSUME NEW i \in 1..Len(per'), per'[i] \notin deleted
                   PROVE  per'[i] \in created /\ marked'[per'[i]]
        OBVIOUS
      <3>1. CASE i \in 1..Len(per)
        BY <3>1, <1>1, <1>2, <1>4 DEF IInv, RecordedOnce
      <3>2. CASE i > Len(per)
        BY <3>2, <1>1, <1>2, <1>4
      <3> QED BY <3>1, <3>2, <1>4
    <2>2. \A i, j \in 1..Len(per') : per'[i] = per'[j] /\ per'[i] \notin deleted => i = j
      <3> SUFFICES ASSUME NEW i \in 1..Len(per'), NEW j \in 1..Len(per'),
                          per'[i] = per'[j], per'[i] \notin deleted
                   PROVE  i = j
        OBVIOUS
      <3>1. CASE i \in 1..Len(per) /\ j \in 1..Len(per)
        BY <3>1, <1>2 DEF IInv, RecordedOnce
      <3>2. CASE i \in 1..Len(per) /\ j > Len(per)
        BY <3>2, <1>2, <1>5
      <3>3. CASE i > Len(per) /\ j \in 1..Len(per)
        BY <3>3, <1>2, <1>5
      <3>4. CASE i > Len(per) /\ j > Len(per)
        BY <3>4, <1>2, <1>4
      <3> QED BY <3>1, <3>2, <3>3, <3>4, <1>4
    <2> QED BY <1>1, <2>1, <2>2 DEF RecordedOnce
  <1>7. FrameCovers'
    <2>1. Framing => index <= Len(per)
      BY <1>1 DEF IInv, AtIndex, Framing
    <2>2. index' = index /\ fired' = fired /\ (Framing' <=> Framing)
      BY <1>1 DEF pump, Framing
    <2>3. index \in Nat
      BY Facts DEF IInv
    <2> QED BY <1>2, <1>4, <2>1, <2>2, <2>3 DEF IInv, FrameCovers
  <1>8. TypeOK'
    BY <1>1, <1>2, <1>3, <1>4 DEF IInv, TypeOK
  <1> QED BY <1>3, <1>6, <1>7, <1>8 DEF IInv

\* A deleted timer stays recorded, and is no longer spoken of.
LEMMA DeleteKeeps ==
  ASSUME IInv, NEW p \in Timers, Delete(p)
  PROVE  IInv'
  <1>1. /\ per' = per /\ marked' = marked /\ UNCHANGED pump
        /\ created' = created \ {p} /\ deleted' = deleted \cup {p}
    BY DEF Delete
  <1>2. /\ AtIndex' /\ FiredBehind' /\ NotYet'
        /\ ticks' \in Nat /\ ticks' + left' <= MaxTicks
        /\ pumping' \in BOOLEAN /\ left' \in 0..MaxCount
        /\ index' \in 0..MaxPer + 1
        /\ running' \in Timers \cup {Nobody, Guest}
        /\ fired' \subseteq Timers /\ lastTick' \in [Timers -> 0..MaxTicks]
    BY <1>1, Facts, PumpStays DEF IInv
  <1>3. RecordedOnce'
    BY <1>1 DEF IInv, RecordedOnce
  <1>4. FrameCovers'
    BY <1>1 DEF IInv, FrameCovers, Framing, pump
  <1>5. TypeOK'
    BY <1>1, <1>2 DEF IInv, TypeOK
  <1> QED BY <1>2, <1>3, <1>4, <1>5 DEF IInv

\* User::After moves the clock only.
LEMMA AfterKeeps ==
  ASSUME IInv, NEW us \in Delays, After(us)
  PROVE  IInv'
  <1> DEFINE d == AtLeastOne(us \div 15625)
  <1>1. /\ GuestRuns /\ ticks + d + left <= MaxTicks /\ ticks' = ticks + d
        /\ UNCHANGED <<timers, pumping, left, index, running, fired, lastTick>>
    BY DEF After
  <1>2. d \in Nat
    <2>1. us \in Nat
      BY PeriodicsAssumption
    <2> QED BY <2>1 DEF AtLeastOne
  <1> HIDE DEF d
  <1>3. /\ ticks \in Nat /\ left \in Nat /\ MaxTicks \in Nat
        /\ lastTick \in [Timers -> 0..MaxTicks]
    BY Facts DEF IInv, TypeOK
  <1>4. /\ RecordedOnce'
        /\ per' \in Seq(Timers) /\ Len(per') <= MaxPer
        /\ created' \subseteq Timers /\ marked' \in [Timers -> BOOLEAN]
        /\ deleted' \subseteq Timers /\ per' = per
    BY <1>1, TableStays DEF timers
  <1>5. ticks' \in Nat /\ ticks' + left <= MaxTicks /\ ticks' >= ticks
    BY <1>1, <1>2, <1>3
  <1>6. TypeOK'
    BY <1>1, <1>4, <1>5 DEF IInv, TypeOK
  <1>7. AtIndex' /\ FiredBehind' /\ FrameCovers'
    BY <1>1, <1>4 DEF IInv, AtIndex, FiredBehind, FrameCovers, Framing, GuestRuns
  <1>8. NotYet'
    BY <1>1, <1>3, <1>5 DEF IInv, NotYet, Framing
  <1> QED BY <1>4, <1>6, <1>7, <1>8 DEF IInv

\* The frame goes on behind the callback that has ended.
LEMMA GuestReturnsKeeps ==
  ASSUME IInv, GuestReturns
  PROVE  IInv'
  <1>1. /\ GuestRuns /\ running' = Nobody /\ ~GuestRuns'
        /\ index' = IF pumping THEN index + 1 ELSE index
        /\ UNCHANGED <<timers, ticks, pumping, left, fired, lastTick>>
    BY DEF GuestReturns, GuestRuns
  <1>2. /\ RecordedOnce'
        /\ per' \in Seq(Timers) /\ Len(per') <= MaxPer
        /\ created' \subseteq Timers /\ marked' \in [Timers -> BOOLEAN]
        /\ deleted' \subseteq Timers /\ per' = per
    BY <1>1, TableStays DEF timers
  <1>3. /\ Len(per) \in Nat /\ Len(per) <= MaxPer /\ MaxPer \in Nat
        /\ index \in Nat /\ index \in 0..MaxPer + 1
    BY Facts DEF IInv, TypeOK
  <1>4. pumping => index \in 1..Len(per) /\ per[index] \in fired
    BY <1>1 DEF IInv, AtIndex
  <1>5. index' \in 0..MaxPer + 1
    BY <1>1, <1>3, <1>4
  <1>6. TypeOK'
    BY <1>1, <1>2, <1>5 DEF IInv, TypeOK
  <1>7. AtIndex'
    BY <1>1 DEF AtIndex
  <1>8. FiredBehind'
    <2> SUFFICES ASSUME pumping, NEW p \in fired
                 PROVE  \E i \in 1..Len(per) : per[i] = p /\ i < index'
      BY <1>1, <1>2, <1>3 DEF FiredBehind, Framing
    <2>1. PICK i \in 1..Len(per) : per[i] = p /\ i <= index
      BY <1>4, <1>3 DEF IInv, FiredBehind, Framing
    <2> QED BY <2>1, <1>1, <1>3
  <1>9. FrameCovers'
    <2> SUFFICES ASSUME pumping, NEW i \in 1..Len(per), i < index'
                 PROVE  per[i] \in fired
      BY <1>1, <1>2 DEF FrameCovers, Framing
    <2>1. CASE i < index
      BY <2>1, <1>3, <1>4 DEF IInv, FrameCovers, Framing
    <2>2. CASE i = index
      BY <2>2, <1>4
    <2> QED BY <2>1, <2>2, <1>1, <1>3
  <1>10. NotYet'
    <2>1. pumping => index > 0
      BY <1>3, <1>4
    <2> QED BY <1>1, <2>1 DEF IInv, NotYet, Framing
  <1> QED BY <1>2, <1>6, <1>7, <1>8, <1>9, <1>10 DEF IInv

\* No frame is under way after these steps of host and guest.
LEMMA NoFrameKeeps ==
  ASSUME IInv, UNCHANGED <<timers, ticks, fired, lastTick>>, ~Framing',
         ~(pumping /\ GuestRuns)', pumping' \in BOOLEAN, left' \in 0..MaxCount,
         ticks + left' <= MaxTicks, index' \in 0..MaxPer + 1,
         running' \in Timers \cup {Nobody, Guest}
  PROVE  IInv'
  <1>1. /\ RecordedOnce'
        /\ per' \in Seq(Timers) /\ Len(per') <= MaxPer
        /\ created' \subseteq Timers /\ marked' \in [Timers -> BOOLEAN]
        /\ deleted' \subseteq Timers
    BY TableStays
  <1>2. TypeOK'
    BY <1>1 DEF IInv, TypeOK
  <1>3. AtIndex' /\ FiredBehind' /\ FrameCovers'
    BY DEF AtIndex, FiredBehind, FrameCovers
  <1>4. NotYet'
    BY DEF IInv, NotYet
  <1> QED BY <1>1, <1>2, <1>3, <1>4 DEF IInv

\* A frame begins with a tick and nothing called.
LEMMA BeginFrameKeeps ==
  ASSUME IInv, BeginFrame
  PROVE  IInv'
  <1>1. /\ running = Nobody /\ left > 0 /\ pumping /\ ~GuestRuns'
        /\ ticks' = ticks + 1 /\ left' = left - 1 /\ index' = 1 /\ fired' = {}
        /\ UNCHANGED <<timers, pumping, running, lastTick>>
    BY DEF BeginFrame, BetweenFrames, GuestRuns
  <1>2. /\ RecordedOnce'
        /\ per' \in Seq(Timers) /\ Len(per') <= MaxPer
        /\ created' \subseteq Timers /\ marked' \in [Timers -> BOOLEAN]
        /\ deleted' \subseteq Timers /\ per' = per
    BY <1>1, TableStays DEF timers
  <1>3. /\ ticks \in Nat /\ left \in Nat /\ MaxPer \in Nat /\ MaxCount \in Nat
        /\ MaxTicks \in Nat /\ left \in 0..MaxCount /\ ticks + left <= MaxTicks
        /\ Len(per) \in Nat /\ lastTick \in [Timers -> 0..MaxTicks]
    BY Facts DEF IInv, TypeOK
  <1>4. /\ ticks' \in Nat /\ ticks' + left' <= MaxTicks /\ left' \in 0..MaxCount
        /\ index' \in 0..MaxPer + 1
    BY <1>1, <1>3
  <1>5. TypeOK'
    BY <1>1, <1>2, <1>4 DEF IInv, TypeOK
  <1>6. AtIndex' /\ FiredBehind'
    BY <1>1 DEF AtIndex, FiredBehind
  <1>7. FrameCovers'
    BY <1>1, <1>2, <1>3 DEF FrameCovers
  <1>8. NotYet'
    BY <1>1, <1>3 DEF IInv, NotYet
  <1> QED BY <1>2, <1>5, <1>6, <1>7, <1>8 DEF IInv

\* A callback is called at the index, with what is behind it called before.
LEMMA FireKeeps ==
  ASSUME IInv, Fire
  PROVE  IInv'
  <1> DEFINE b == per[index]
  <1>1. /\ pumping /\ index > 0 /\ index <= Len(per)
        /\ running' = b /\ fired' = fired \cup {b}
        /\ lastTick' = [lastTick EXCEPT ![b] = ticks]
        /\ UNCHANGED <<timers, ticks, pumping, left, index>>
    BY DEF Fire, InFrame
  <1>2. /\ RecordedOnce'
        /\ per' \in Seq(Timers) /\ Len(per') <= MaxPer
        /\ created' \subseteq Timers /\ marked' \in [Timers -> BOOLEAN]
        /\ deleted' \subseteq Timers /\ per' = per
    BY <1>1, TableStays DEF timers
  <1>3. /\ ticks \in Nat /\ left \in Nat /\ MaxTicks \in Nat /\ ticks + left <= MaxTicks
        /\ Len(per) \in Nat /\ index \in Nat
        /\ lastTick \in [Timers -> 0..MaxTicks] /\ fired \subseteq Timers
    BY Facts DEF IInv, TypeOK
  <1>4. index \in 1..Len(per) /\ b \in Timers /\ b # Nobody
    BY <1>1, <1>3, Facts DEF IInv
  <1> HIDE DEF b
  <1>5. lastTick' \in [Timers -> 0..MaxTicks]
    BY <1>1, <1>3, <1>4
  <1>6. TypeOK'
    BY <1>1, <1>2, <1>3, <1>4, <1>5 DEF IInv, TypeOK
  <1>7. AtIndex'
    BY <1>1, <1>2, <1>4 DEF AtIndex, b
  <1>8. FiredBehind'
    <2> SUFFICES ASSUME NEW p \in fired \cup {b}
                 PROVE  \E i \in 1..Len(per) : per[i] = p /\ i <= index
      BY <1>1, <1>2, <1>4 DEF FiredBehind, GuestRuns
    <2>1. CASE p = b
      BY <2>1, <1>1, <1>4 DEF b
    <2>2. CASE p \in fired
      BY <2>2, <1>1 DEF IInv, FiredBehind, Framing
    <2> QED BY <2>1, <2>2
  <1>9. FrameCovers'
    BY <1>1, <1>2 DEF IInv, FrameCovers, Framing
  <1>10. NotYet'
    <2>1. \A p \in Timers : lastTick'[p] = IF p = b THEN ticks ELSE lastTick[p]
      BY <1>1, <1>3
    <2> QED BY <1>1, <1>3, <2>1 DEF IInv, NotYet, Framing
  <1> QED BY <1>2, <1>6, <1>7, <1>8, <1>9, <1>10 DEF IInv

-----------------------------------------------------------------------------
\* The invariant holds of an empty table.
LEMMA InitInv == Init => IInv
  <1> SUFFICES ASSUME Init PROVE IInv
    OBVIOUS
  <1>1. /\ per = << >> /\ created = {} /\ marked = [p \in Timers |-> FALSE]
        /\ ticks = 0 /\ pumping = FALSE /\ left = 0 /\ index = 0
        /\ running = Nobody /\ deleted = {} /\ fired = {}
        /\ lastTick = [p \in Timers |-> 0]
    BY DEF Init
  <1>2. MaxPer \in Nat /\ MaxTicks \in Nat /\ MaxCount \in Nat
    BY PeriodicsAssumption
  <1>3. per \in Seq(Timers) /\ Len(per) = 0
    BY <1>1
  <1>4. marked \in [Timers -> BOOLEAN] /\ pumping \in BOOLEAN
    BY <1>1
  <1>5. /\ ticks \in Nat /\ ticks + left <= MaxTicks /\ left \in 0..MaxCount
        /\ index \in 0..MaxPer + 1 /\ lastTick \in [Timers -> 0..MaxTicks]
    BY <1>1, <1>2
  <1>6. TypeOK
    BY <1>1, <1>2, <1>3, <1>4, <1>5 DEF TypeOK
  <1>7. RecordedOnce
    BY <1>3 DEF RecordedOnce
  <1>8. AtIndex /\ FiredBehind /\ FrameCovers
    BY <1>1 DEF AtIndex, FiredBehind, FrameCovers, Framing
  <1>9. NotYet
    BY <1>1 DEF NotYet, Framing
  <1> QED BY <1>6, <1>7, <1>8, <1>9 DEF IInv

\* Every action keeps it.
LEMMA InvStep == IInv /\ [Next]_vars => IInv'
  <1> SUFFICES ASSUME IInv, [Next]_vars PROVE IInv'
    OBVIOUS
  <1>0. /\ MaxPer \in Nat /\ MaxTicks \in Nat /\ MaxCount \in Nat
        /\ ticks \in Nat /\ left \in Nat /\ index \in Nat /\ TypeOK
    BY Facts DEF IInv
  <1>1. ASSUME NEW p \in Timers, NewL(p) \/ Start(p) \/ Delete(p) PROVE IInv'
    BY <1>1, NewLKeeps, StartKeeps, DeleteKeeps
  <1>2. ASSUME NEW us \in Delays, After(us) PROVE IInv'
    BY <1>2, AfterKeeps
  <1>3. CASE GuestReturns
    BY <1>3, GuestReturnsKeeps
  <1>4. CASE GuestLeaves
    <2>1. /\ UNCHANGED <<timers, ticks, fired, lastTick>> /\ pumping' = FALSE
          /\ left' = 0 /\ index' = 0 /\ running' = Nobody
      BY <1>4 DEF GuestLeaves
    <2>2. 0 \in 0..MaxCount /\ 0 \in 0..MaxPer + 1 /\ ticks + 0 <= MaxTicks
      BY <1>0 DEF TypeOK
    <2> QED BY <2>1, <2>2, NoFrameKeeps DEF Framing
  <1>5. CASE EnterGuest
    <2>1. UNCHANGED <<timers, ticks, pumping, left, index, fired, lastTick>> /\ ~pumping
          /\ running' = Guest
      BY <1>5 DEF EnterGuest
    <2> QED BY <1>0, <2>1, NoFrameKeeps DEF Framing, TypeOK
  <1>6. ASSUME NEW count \in 0..MaxCount, BeginPump(count) PROVE IInv'
    <2>1. /\ UNCHANGED <<timers, ticks, running, fired, lastTick>> /\ pumping' = TRUE
          /\ left' = count /\ index' = 0 /\ ticks + count <= MaxTicks /\ ~GuestRuns'
      BY <1>6 DEF BeginPump, GuestRuns
    <2>2. ~Framing' /\ index' \in 0..MaxPer + 1
      BY <1>0, <2>1 DEF Framing
    <2> QED BY <1>0, <2>1, <2>2, NoFrameKeeps DEF TypeOK
  <1>7. CASE BeginFrame
    BY <1>7, BeginFrameKeeps
  <1>8. CASE Fire
    BY <1>8, FireKeeps
  <1>9. CASE EndFrame
    <2>1. /\ UNCHANGED <<timers, ticks, pumping, left, running, fired, lastTick>>
          /\ index' = 0 /\ ~GuestRuns'
      BY <1>9 DEF EndFrame, InFrame, GuestRuns
    <2>2. ~Framing' /\ index' \in 0..MaxPer + 1
      BY <1>0, <2>1 DEF Framing
    <2> QED BY <1>0, <2>1, <2>2, NoFrameKeeps DEF TypeOK
  <1>10. CASE EndPump
    <2>1. /\ UNCHANGED <<timers, ticks, left, index, running, fired, lastTick>>
          /\ pumping' = FALSE
      BY <1>10 DEF EndPump
    <2> QED BY <1>0, <2>1, NoFrameKeeps DEF Framing, TypeOK
  <1>11. CASE UNCHANGED vars
    BY <1>11 DEF vars, IInv, TypeOK, RecordedOnce, AtIndex, FiredBehind, FrameCovers, NotYet,
                 Framing, GuestRuns
  <1> QED BY <1>1, <1>2, <1>3, <1>4, <1>5, <1>6, <1>7, <1>8, <1>9, <1>10, <1>11
          DEF Next, PumpOn

\* So it holds always.
LEMMA InvHolds == Spec => []IInv
  BY InitInv, InvStep, PTL DEF Spec

-----------------------------------------------------------------------------
\* In every state the timers' variables have their types: the table holds no
\* more than g_per has room for, and the loop index stays within one of its end
\* (scheduler.c:18-32, 45-57).
THEOREM TypeCorrect == Spec => []TypeOK
  <1>1. IInv => TypeOK
    BY DEF IInv
  <1> QED BY <1>1, InvHolds, PTL

\* Within a frame and outside guest code only the loop goes on.
LEMMA LoopSteps ==
  ASSUME InFrame, [Next]_vars
  PROVE  Fire \/ EndFrame \/ UNCHANGED vars
  <1>1. ~GuestRuns /\ pumping /\ ~(index = 0)
    BY DEF InFrame, GuestRuns
  <1>2. \A p \in Timers : ~NewL(p) /\ ~Start(p) /\ ~Delete(p)
    BY <1>1 DEF NewL, Start, Delete
  <1>3. \A us \in Delays : ~After(us)
    <2> SUFFICES ASSUME NEW us \in Delays, After(us) PROVE FALSE
      OBVIOUS
    <2>1. GuestRuns
      BY DEF After
    <2> QED BY <1>1, <2>1
  <1>4. ~GuestReturns /\ ~GuestLeaves
    BY <1>1 DEF GuestReturns, GuestLeaves
  <1>5. ~EnterGuest /\ \A count \in 0..MaxCount : ~BeginPump(count)
    BY <1>1 DEF EnterGuest, BeginPump
  <1>6. ~BeginFrame /\ ~EndPump
    BY <1>1 DEF BeginFrame, EndPump, BetweenFrames
  <1> QED BY <1>2, <1>3, <1>4, <1>5, <1>6 DEF Next, PumpOn

\* The step that calls a callback finds a timer that this frame has not called
\* and that was last called at an earlier tick, unless it was ever deleted.
LEMMA CallIsFirst ==
  ASSUME IInv, [Next]_vars, NEW p \in Timers \ deleted, InFrame, running' = p
  PROVE  p \notin fired /\ ticks > lastTick[p]
  <1>1. Nobody \notin Timers /\ Guest \notin Timers /\ running = Nobody
    BY Facts DEF IInv, InFrame
  <1>2. Fire
    <2>1. running' # running
      BY <1>1
    <2> QED BY <2>1, LoopSteps DEF EndFrame, vars
  <1>3. Framing /\ ~GuestRuns /\ index \in 1..Len(per) /\ per[index] = p
    BY <1>1, <1>2, Facts DEF IInv, Fire, InFrame, Framing, GuestRuns
  <1>4. ASSUME p \in fired PROVE FALSE
    <2>1. PICK i \in 1..Len(per) : per[i] = p /\ i <= index /\ (i = index => GuestRuns)
      BY <1>3, <1>4 DEF IInv, FiredBehind
    <2> QED BY <1>3, <2>1 DEF IInv, RecordedOnce
  <1>5. lastTick[p] < ticks
    BY <1>3, <1>4 DEF IInv, NotYet
  <1>6. lastTick[p] \in Nat /\ ticks \in Nat
    BY Facts DEF IInv, TypeOK
  <1> QED BY <1>4, <1>5, <1>6

\* One frame calls a timer that was never deleted at most once, for every table
\* and whatever its callbacks start (scheduler.c:44, 49-54).
THEOREM CalledOnce == Spec => OncePerFrame
  <1>1. IInv /\ [Next]_vars =>
          [\A p \in Timers \ deleted : InFrame /\ running' = p => p \notin fired]_vars
    BY CallIsFirst
  <1> QED BY <1>1, InvHolds, PTL DEF Spec, OncePerFrame

\* Between two calls of such a timer the tick count moves on, leaves or not
\* (scheduler.c:34-36, 47).
THEOREM TicksBetweenCalls == Spec => TimeAdvances
  <1>1. IInv /\ [Next]_vars =>
          [\A p \in Timers \ deleted : InFrame /\ running' = p => ticks > lastTick[p]]_vars
    BY CallIsFirst
  <1> QED BY <1>1, InvHolds, PTL DEF Spec, TimeAdvances

\* A frame that ends by itself has called every recorded callback, those that
\* were started meanwhile too (scheduler.c:49-54).
THEOREM FramesAreComplete == Spec => FrameCoversRecorded
  <1>1. IInv /\ [Next]_vars =>
          [InFrame /\ index' = 0 => ToSet(per) \subseteq fired]_vars
    <2> SUFFICES ASSUME IInv, [Next]_vars, InFrame, index' = 0, NEW p \in ToSet(per)
                 PROVE  p \in fired
      OBVIOUS
    <2>1. EndFrame
      <3>1. index' # index
        BY Facts DEF IInv, InFrame
      <3> QED BY <3>1, LoopSteps DEF Fire, vars
    <2>2. per \in Seq(Timers) /\ Len(per) \in Nat /\ index \in Nat
      BY Facts DEF IInv
    <2>3. PICK i \in 1..Len(per) : per[i] = p
      BY <2>2, LenProperties DEF ToSet
    <2> QED BY <2>1, <2>2, <2>3 DEF EndFrame, InFrame, IInv, FrameCovers, Framing
  <1> QED BY <1>1, InvHolds, PTL DEF Spec, FrameCoversRecorded
=============================================================================
