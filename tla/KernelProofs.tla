---------------------------- MODULE KernelProofs ----------------------------
(***************************************************************************)
(* Theorems about Kernel for any depths, array lengths and object sets, as *)
(* long as the guest pushes no more than g_cleanup holds.                  *)
(***************************************************************************)
EXTENDS Kernel, TLAPS, SequenceTheorems

(***************************************************************************)
(* The inductive invariant.  DepthOK: the depth counts the live            *)
(* activations and those that leaves abandoned.  TrapsOK: the marks of     *)
(* nested runs lie on the host stack and on the cleanup stack, in order,   *)
(* so that leaving one keeps the outer ones valid.  PushedOK: the pushed   *)
(* objects are allocated and distinct.                                     *)
(***************************************************************************)
DepthOK == /\ Len(frames) + lost <= MaxDepth
           /\ ~aborted => calldepth = Len(frames) + lost

StackOK == lost = 0 =>
             \A i \in 1..Len(frames) : i <= StackLen => stack[i - 1] = frames[i]

TrapsOK ==
  /\ \A i \in 1..Len(traps) : /\ traps[i].depth <= Len(frames)
                              /\ traps[i].level = traps[i].plevel
                              /\ traps[i].plevel <= Len(promised)
  /\ \A i, j \in 1..Len(traps) : i <= j => /\ traps[i].depth <= traps[j].depth
                                           /\ traps[i].plevel <= traps[j].plevel

PushedOK ==
  \A i \in 1..Len(promised) : promised[i] # Null =>
    /\ promised[i] \in live
    /\ \A j \in 1..Len(promised) : promised[j] = promised[i] => j = i

CleanupOK == cleanup = promised /\ Len(promised) <= MaxPush

IInv == TypeOK /\ DepthOK /\ StackOK /\ TrapsOK /\ PushedOK /\ CleanupOK

-----------------------------------------------------------------------------
\* A prefix of a sequence.
LEMMA PrefixFacts ==
  ASSUME NEW S, NEW s \in Seq(S), NEW n \in Nat, n <= Len(s)
  PROVE  /\ SubSeq(s, 1, n) \in Seq(S)
         /\ Len(SubSeq(s, 1, n)) = n
         /\ \A i \in 1..n : SubSeq(s, 1, n)[i] = s[i]
  <1>1. \A i \in 1..n : s[i] \in S
    BY ElementOfSeq, LenProperties
  <1> QED
    BY <1>1, SubSeqProperties

\* What is left of a sequence without its last element.
LEMMA FrontFacts ==
  ASSUME NEW S, NEW s \in Seq(S), s # << >>
  PROVE  /\ Front(s) \in Seq(S) /\ Len(Front(s)) = Len(s) - 1
         /\ Len(s) \in Nat \ {0}
         /\ \A i \in 1..(Len(s) - 1) : Front(s)[i] = s[i]
         /\ Last(s) = s[Len(s)] /\ Last(s) \in S
  <1>1. Len(s) \in Nat \ {0}
    BY EmptySeq, LenProperties
  <1>2. Len(s) - 1 \in Nat /\ Len(s) - 1 <= Len(s) /\ Len(s) \in 1..Len(s)
    BY <1>1
  <1>3. Last(s) \in S
    BY <1>2, ElementOfSeq DEF Last
  <1> QED
    BY <1>1, <1>2, <1>3, PrefixFacts DEF Front, Last

\* What a call writes into ngage_stack leaves the slots below alone.
LEMMA RecordedFacts ==
  ASSUME TypeOK, NEW a \in Addresses
  PROVE  /\ Recorded(a) \in [0..(StackLen - 1) -> Addresses \cup {Null}]
         /\ \A i \in 0..(StackLen - 1) :
              Recorded(a)[i] = IF i = calldepth THEN a ELSE stack[i]
  BY KernelAssumption DEF TypeOK, Recorded

\* The stacks have lengths.
LEMMA LenFacts ==
  ASSUME IInv
  PROVE  /\ Len(frames) \in Nat /\ Len(traps) \in Nat /\ Len(promised) \in Nat
         /\ lost \in Nat /\ calldepth \in Nat
         /\ frames \in Seq(Functions) /\ traps \in Seq(Trap)
         /\ promised \in Seq(Objects \cup {Null})
  BY LenProperties DEF IInv, TypeOK

\* A trap remembers depths that the stacks still have.
LEMMA TrapFacts ==
  ASSUME IInv, NEW i \in 1..Len(traps)
  PROVE  /\ traps[i] \in Trap
         /\ traps[i].depth \in Nat /\ traps[i].depth <= Len(frames)
         /\ traps[i].level \in 0..MaxCleanup /\ traps[i].level = traps[i].plevel
         /\ traps[i].plevel \in Nat /\ traps[i].plevel <= Len(promised)
  <1>1. traps \in Seq(Trap)
    BY LenFacts
  <1>2. traps[i] \in Trap
    BY <1>1, ElementOfSeq
  <1>3. /\ traps[i].depth \in Nat /\ traps[i].plevel \in Nat
        /\ traps[i].level \in 0..MaxCleanup
    BY <1>2 DEF Trap
  <1> QED
    BY <1>2, <1>3 DEF IInv, TrapsOK

-----------------------------------------------------------------------------
\* Empty stacks satisfy the invariant.
LEMMA InitIInv == Init => IInv
  <1> SUFFICES ASSUME Init PROVE IInv
    OBVIOUS
  <1>1. /\ frames \in Seq(Functions) /\ Len(frames) = 0
        /\ traps \in Seq(Trap) /\ Len(traps) = 0
        /\ cleanup \in Seq(Objects \cup {Null}) /\ Len(cleanup) = 0
        /\ promised = cleanup
    BY EmptySeq DEF Init
  <1>2. TypeOK
    BY <1>1, KernelAssumption DEF Init, TypeOK
  <1> QED
    BY <1>1, <1>2, KernelAssumption
    DEF Init, IInv, DepthOK, StackOK, TrapsOK, PushedOK, CleanupOK

\* A call adds one frame and counts it.
LEMMA CallIInv ==
  ASSUME IInv, NEW f \in Functions, Call(f)
  PROVE  IInv'
  <1>1. /\ frames' = Append(frames, f) /\ calldepth' = calldepth + 1
        /\ stack' = Recorded(f) /\ calldepth < MaxDepth /\ ~aborted /\ ~aborted'
        /\ UNCHANGED <<traps, cleanup, live, promised, aborted, ret, lost>>
    BY DEF Call, Admitted, objects
  <1>2. /\ frames' \in Seq(Functions) /\ Len(frames') = Len(frames) + 1
        /\ \A i \in 1..Len(frames) : frames'[i] = frames[i]
        /\ frames'[Len(frames) + 1] = f
    BY <1>1, LenFacts, AppendProperties
  <1>3. /\ stack' \in [0..(StackLen - 1) -> Addresses \cup {Null}]
        /\ \A i \in 0..(StackLen - 1) :
             stack'[i] = IF i = calldepth THEN f ELSE stack[i]
    BY <1>1, RecordedFacts DEF IInv, Addresses
  <1>4. calldepth = Len(frames) + lost
    BY <1>1 DEF IInv, DepthOK
  <1>5. TypeOK'
    BY <1>1, <1>2, <1>3, LenFacts, KernelAssumption DEF IInv, TypeOK
  <1>6. DepthOK'
    BY <1>1, <1>2, <1>4, LenFacts, KernelAssumption DEF DepthOK
  <1>7. StackOK'
    <2> SUFFICES ASSUME lost = 0, NEW i \in 1..(Len(frames) + 1), i <= StackLen
                 PROVE  stack'[i - 1] = frames'[i]
      BY <1>1, <1>2 DEF StackOK
    <2>1. i - 1 \in 0..(StackLen - 1) /\ Len(frames) = calldepth
      BY <1>4, LenFacts, KernelAssumption
    <2>2. CASE i = Len(frames) + 1
      BY <2>1, <2>2, <1>2, <1>3, LenFacts
    <2>3. CASE i # Len(frames) + 1
      <3>1. i \in 1..Len(frames) /\ i - 1 # calldepth
        BY <2>1, <2>3, LenFacts
      <3> QED
        BY <3>1, <2>1, <1>2, <1>3 DEF IInv, StackOK
    <2> QED
      BY <2>2, <2>3
  <1>8. TrapsOK'
    <2>1. \A i \in 1..Len(traps) : traps[i].depth \in Nat
      BY TrapFacts
    <2> QED
      BY <1>1, <1>2, <2>1, LenFacts DEF IInv, TrapsOK
  <1> QED
    BY <1>1, <1>5, <1>6, <1>7, <1>8 DEF IInv, PushedOK, CleanupOK

\* A return takes one away and counts that.
LEMMA ReturnIInv ==
  ASSUME IInv, Return
  PROVE  IInv'
  <1>1. /\ frames' = Front(frames) /\ calldepth' = calldepth - 1 /\ frames # << >>
        /\ ~aborted
        /\ UNCHANGED <<stack, traps, cleanup, live, promised, aborted, ret, lost>>
    BY DEF Return, objects
  <1>2. /\ frames' \in Seq(Functions) /\ Len(frames') = Len(frames) - 1
        /\ Len(frames) \in Nat \ {0}
        /\ \A i \in 1..(Len(frames) - 1) : frames'[i] = frames[i]
    BY <1>1, LenFacts, FrontFacts
  <1>3. calldepth = Len(frames) + lost /\ calldepth <= MaxDepth
    BY <1>1 DEF IInv, DepthOK
  <1>4. TypeOK'
    BY <1>1, <1>2, <1>3, LenFacts, KernelAssumption DEF IInv, TypeOK
  <1>5. DepthOK'
    BY <1>1, <1>2, <1>3, LenFacts, KernelAssumption DEF DepthOK
  <1>6. StackOK'
    <2>1. 1..Len(frames') \subseteq 1..Len(frames)
      BY <1>2
    <2>2. \A i \in 1..Len(frames') : frames'[i] = frames[i]
      BY <1>2
    <2> QED
      BY <1>1, <2>1, <2>2 DEF IInv, StackOK
  <1>7. TrapsOK'
    <2>1. CASE traps = << >>
      BY <2>1, <1>1, EmptySeq DEF TrapsOK
    <2>2. CASE traps # << >>
      <3>1. /\ Last(traps) = traps[Len(traps)] /\ Len(traps) \in Nat \ {0}
        BY <2>2, LenFacts, FrontFacts
      <3>2. \A i \in 1..Len(traps) : traps[i].depth \in Nat
        BY TrapFacts
      <3>3. traps[Len(traps)].depth < Len(frames) /\ Len(traps) \in 1..Len(traps)
        BY <2>2, <3>1, <3>2, LenFacts DEF Return
      <3>4. \A i \in 1..Len(traps) : i <= Len(traps) /\ traps[i].depth <= traps[Len(traps)].depth
        BY <3>3, <3>1 DEF IInv, TrapsOK
      <3>5. \A i \in 1..Len(traps) : traps[i].depth <= Len(frames) - 1
        BY <3>2, <3>3, <3>4, LenFacts
      <3> QED
        BY <3>5, <1>1, <1>2 DEF IInv, TrapsOK
    <2> QED
      BY <2>1, <2>2
  <1> QED
    BY <1>1, <1>4, <1>5, <1>6, <1>7 DEF IInv, PushedOK, CleanupOK

\* Writing a slot above the live activations, or one of them after a leave,
\* and changing nothing else a group speaks of.
LEMMA RecordIInv ==
  ASSUME IInv, NEW a \in Addresses, ~aborted, stack' = Recorded(a),
         UNCHANGED <<frames, lost>>
  PROVE  /\ stack' \in [0..(StackLen - 1) -> Addresses \cup {Null}]
         /\ StackOK'
  <1>1. /\ stack' \in [0..(StackLen - 1) -> Addresses \cup {Null}]
        /\ \A i \in 0..(StackLen - 1) :
             stack'[i] = IF i = calldepth THEN a ELSE stack[i]
    BY RecordedFacts DEF IInv
  <1>2. calldepth = Len(frames) + lost
    BY DEF IInv, DepthOK
  <1>3. StackOK'
    <2> SUFFICES ASSUME lost = 0, NEW i \in 1..Len(frames), i <= StackLen
                 PROVE  stack'[i - 1] = frames[i]
      BY DEF StackOK
    <2>1. i - 1 \in 0..(StackLen - 1) /\ i - 1 # calldepth
      BY <1>2, LenFacts, KernelAssumption
    <2> QED
      BY <2>1, <1>1 DEF IInv, StackOK
  <1> QED
    BY <1>1, <1>3

\* Imports that neither leave nor pop: the host stack and the traps stay, and
\* the cleanup stack does not shrink.
LEMMA ImportIInv ==
  ASSUME IInv, InImport, Len(promised) <= Len(promised'),
         cleanup' \in Seq(Objects \cup {Null}), Len(cleanup') <= MaxCleanup,
         promised' \in Seq(Objects \cup {Null}), live' \subseteq Objects
  PROVE  TypeOK' /\ DepthOK' /\ StackOK' /\ TrapsOK'
  <1>1. /\ stack' = Recorded(Import) /\ ~aborted
        /\ UNCHANGED <<frames, calldepth, traps, aborted, ret, lost>>
    BY DEF InImport, Running
  <1>2. stack' \in [0..(StackLen - 1) -> Addresses \cup {Null}] /\ StackOK'
    BY <1>1, RecordIInv DEF Addresses
  <1>3. TypeOK'
    BY <1>1, <1>2 DEF IInv, TypeOK
  <1>4. DepthOK'
    BY <1>1 DEF IInv, DepthOK
  <1>5. Len(promised') \in Nat /\ Len(promised) \in Nat
    BY LenProperties, LenFacts
  <1>6. \A i \in 1..Len(traps) : traps[i].plevel \in Nat /\ traps[i].plevel <= Len(promised')
    BY <1>5, TrapFacts
  <1>7. TrapsOK'
    BY <1>1, <1>6 DEF IInv, TrapsOK
  <1> QED
    BY <1>2, <1>3, <1>4, <1>7

\* A new object is not on the cleanup stack.
LEMMA NewIInv ==
  ASSUME IInv, NEW o \in Objects, New(o)
  PROVE  IInv'
  <1>1. live' = live \cup {o} /\ UNCHANGED <<cleanup, promised>> /\ InImport
    BY DEF New
  <1>2. TypeOK' /\ DepthOK' /\ StackOK' /\ TrapsOK'
    BY <1>1, ImportIInv, LenFacts DEF IInv, TypeOK
  <1> QED
    BY <1>1, <1>2 DEF IInv, PushedOK, CleanupOK

\* The guest deletes no object that it has pushed.
LEMMA DeleteIInv ==
  ASSUME IInv, NEW o \in Objects, Delete(o)
  PROVE  IInv'
  <1>1. /\ live' = live \ {o} /\ UNCHANGED <<cleanup, promised>> /\ InImport
        /\ o \notin ToSet(promised)
    BY DEF Delete, Owned
  <1>2. TypeOK' /\ DepthOK' /\ StackOK' /\ TrapsOK'
    BY <1>1, ImportIInv, LenFacts DEF IInv, TypeOK
  <1>3. DOMAIN promised = 1..Len(promised)
    BY LenFacts, LenProperties
  <1>4. \A i \in 1..Len(promised) : promised[i] # o
    BY <1>1, <1>3 DEF ToSet
  <1> QED
    BY <1>1, <1>2, <1>4 DEF IInv, PushedOK, CleanupOK

\* A push puts one object on both cleanup stacks.
LEMMA PushIInv ==
  ASSUME CleanupIsLargeEnough, IInv, NEW o \in Objects \cup {Null}, PushL(o)
  PROVE  IInv'
  <1>1. /\ InImport /\ promised' = Append(promised, o) /\ live' = live
        /\ Len(promised) < MaxPush
        /\ o \in live \ ToSet(promised) \/ o = Null
    BY DEF PushL, Owned
  <1>2. /\ promised' \in Seq(Objects \cup {Null})
        /\ Len(promised') = Len(promised) + 1
        /\ \A i \in 1..Len(promised) : promised'[i] = promised[i]
        /\ promised'[Len(promised) + 1] = o
    BY <1>1, LenFacts, AppendProperties
  <1>3. cleanup' = promised' /\ Len(promised') <= MaxPush /\ Len(cleanup') <= MaxCleanup
    BY <1>1, <1>2, LenFacts, KernelAssumption
    DEF CleanupIsLargeEnough, IInv, CleanupOK, PushL
  <1>4. TypeOK' /\ DepthOK' /\ StackOK' /\ TrapsOK'
    BY <1>1, <1>2, <1>3, ImportIInv, LenFacts DEF IInv, TypeOK
  <1>5. PushedOK'
    <2>1. DOMAIN promised = 1..Len(promised)
      BY LenFacts, LenProperties
    <2>2. \A i \in 1..Len(promised) : o # Null => promised[i] # o
      BY <1>1, <2>1 DEF ToSet
    <2>3. \A i \in 1..Len(promised') : i \in 1..Len(promised) \/ i = Len(promised) + 1
      BY <1>2, LenFacts
    <2> QED
      BY <1>1, <1>2, <2>2, <2>3 DEF IInv, PushedOK
  <1> QED
    BY <1>3, <1>4, <1>5 DEF IInv, CleanupOK

\* Taking the cleanup stack down to m entries, no lower than the mark of the
\* innermost run, while what is freed was above.
LEMMA ShrinkOK ==
  ASSUME IInv, NEW m \in Nat, m <= Len(promised),
         promised' = SubSeq(promised, 1, m), cleanup' = promised',
         live' \in {live, live \ Above(promised, m)}
  PROVE  /\ PushedOK' /\ CleanupOK'
         /\ promised' \in Seq(Objects \cup {Null}) /\ Len(promised') = m
         /\ Len(cleanup') <= MaxCleanup /\ live' \subseteq Objects
  <1>1. /\ promised' \in Seq(Objects \cup {Null}) /\ Len(promised') = m
        /\ \A i \in 1..m : promised'[i] = promised[i] /\ i \in 1..Len(promised)
    BY LenFacts, PrefixFacts
  <1>2. Len(promised) <= MaxPush /\ Len(promised) <= MaxCleanup /\ live \subseteq Objects
    BY DEF IInv, CleanupOK, TypeOK
  <1>3. m <= MaxPush /\ m <= MaxCleanup
    BY <1>2, LenFacts, KernelAssumption
  <1>4. PushedOK'
    <2> SUFFICES ASSUME NEW i \in 1..m, promised[i] # Null
                 PROVE  /\ promised[i] \in live'
                        /\ \A j \in 1..m : promised[j] = promised[i] => j = i
      BY <1>1 DEF PushedOK
    <2>1. /\ promised[i] \in live
          /\ \A j \in 1..Len(promised) : promised[j] = promised[i] => j = i
      BY <1>1 DEF IInv, PushedOK
    <2>2. \A j \in (m + 1)..Len(promised) : j \in 1..Len(promised) /\ j # i
      BY LenFacts
    <2>3. promised[i] \notin Above(promised, m)
      BY <2>1, <2>2 DEF Above
    <2> QED
      BY <1>1, <2>1, <2>3
  <1> QED
    BY <1>1, <1>2, <1>3, <1>4 DEF CleanupOK

\* A pop inside a run leaves what was there when the run began.
LEMMA PopBounds ==
  ASSUME IInv, NEW n \in Nat, MayPop(n)
  PROVE  /\ Len(promised) - n \in Nat /\ Len(promised) - n <= Len(promised)
         /\ \A i \in 1..Len(traps) : traps[i].plevel <= Len(promised) - n
  <1>1. CASE traps = << >>
    BY <1>1, LenFacts, EmptySeq DEF MayPop
  <1>2. CASE traps # << >>
    <2>0. Last(traps) = traps[Len(traps)] /\ Len(traps) \in Nat \ {0}
      BY <1>2, LenFacts, FrontFacts
    <2>1. Last(traps) = traps[Len(traps)] /\ Len(traps) \in 1..Len(traps)
      BY <2>0
    <2>2. Len(promised) - n >= traps[Len(traps)].plevel
      BY <1>2, <2>1 DEF MayPop
    <2>3. ASSUME NEW i \in 1..Len(traps)
          PROVE  /\ traps[i].plevel \in Nat
                 /\ traps[i].plevel <= traps[Len(traps)].plevel
      <3>1. traps[i].plevel \in Nat
        BY <2>3, TrapFacts
      <3>2. i <= Len(traps)
        BY <2>3, LenFacts
      <3> QED
        BY <2>1, <2>3, <3>1, <3>2 DEF IInv, TrapsOK
    <2> QED
      BY <2>1, <2>2, <2>3, LenFacts
  <1> QED
    BY <1>1, <1>2

\* A pop of some takes the same objects from both.
LEMMA PopNIInv ==
  ASSUME IInv, NEW n \in Nat, InImport, MayPop(n),
         cleanup' = Less(cleanup, n), promised' = Less(promised, n),
         live' \in {live, live \ Above(promised, Len(promised) - n)}
  PROVE  IInv'
  <1> DEFINE m == Len(promised) - n
  <1>1. m \in Nat /\ m <= Len(promised)
    BY PopBounds
  <1>2. promised' = SubSeq(promised, 1, m) /\ cleanup' = promised'
    BY DEF Less, IInv, CleanupOK
  <1>3. live' \in {live, live \ Above(promised, m)}
    OBVIOUS
  <1> HIDE DEF m
  <1>4. /\ PushedOK' /\ CleanupOK'
        /\ promised' \in Seq(Objects \cup {Null}) /\ Len(promised') = m
        /\ Len(cleanup') <= MaxCleanup /\ live' \subseteq Objects
    BY <1>1, <1>2, <1>3, ShrinkOK
  <1>5. /\ stack' = Recorded(Import) /\ ~aborted
        /\ UNCHANGED <<frames, calldepth, traps, aborted, ret, lost>>
    BY DEF InImport, Running
  <1>6. stack' \in [0..(StackLen - 1) -> Addresses \cup {Null}] /\ StackOK'
    BY <1>5, RecordIInv DEF Addresses
  <1>7. TypeOK'
    BY <1>2, <1>4, <1>5, <1>6 DEF IInv, TypeOK
  <1>8. DepthOK'
    BY <1>5 DEF IInv, DepthOK
  <1>9. \A i \in 1..Len(traps) : traps[i].plevel <= Len(promised')
    BY <1>4, PopBounds DEF m
  <1>10. TrapsOK'
    BY <1>5, <1>9 DEF IInv, TrapsOK
  <1> QED
    BY <1>4, <1>6, <1>7, <1>8, <1>10 DEF IInv

\* Popping leaves the objects alone.
LEMMA PopIInv ==
  ASSUME IInv, Pop
  PROVE  IInv'
  BY PopNIInv DEF Pop

\* Popping and destroying frees objects that are live.
LEMMA PopAndDestroyIInv ==
  ASSUME IInv, NEW n \in 1..MaxPush, PopAndDestroy(n)
  PROVE  IInv'
  <1>1. n \in Nat
    OBVIOUS
  <1>2. Len(promised) - n \in Nat /\ cleanup = promised
    BY <1>1, PopBounds DEF PopAndDestroy, IInv, CleanupOK
  <1>3. live' = live \ Above(promised, Len(promised) - n)
    BY <1>1, <1>2, LenFacts DEF PopAndDestroy
  <1> QED
    BY <1>1, <1>3, PopNIInv DEF PopAndDestroy

-----------------------------------------------------------------------------
\* An entry from the host remembers both levels.
LEMMA RunIInv ==
  ASSUME IInv, Run
  PROVE  IInv'
  <1> DEFINE t == [level |-> Len(cleanup), depth |-> Len(frames),
                   plevel |-> Len(promised)]
             n == Len(traps)
  <1>1. /\ traps' = Append(traps, t)
        /\ UNCHANGED <<frames, calldepth, stack, cleanup, live, promised, aborted,
                       ret, lost>>
    BY DEF Run, machine, objects
  <1>2. /\ t.depth = Len(frames) /\ t.level = t.plevel /\ t.plevel = Len(promised)
        /\ t.level \in 0..MaxCleanup
    BY LenFacts, KernelAssumption DEF IInv, CleanupOK, TypeOK
  <1>3. t \in Trap
    BY <1>2, LenFacts DEF Trap
  <1> HIDE DEF t
  <1>4. /\ traps' \in Seq(Trap) /\ Len(traps') = n + 1 /\ n \in Nat
        /\ \A i \in 1..n : traps'[i] = traps[i]
        /\ traps'[n + 1] = t
    BY <1>1, <1>3, LenFacts, AppendProperties
  <1>5. \A i \in 1..(n + 1) : i \in 1..n \/ i = n + 1
    BY <1>4
  <1>6. TrapsOK'
    <2>1. ASSUME NEW i \in 1..(n + 1)
          PROVE  /\ traps'[i].depth <= Len(frames)
                 /\ traps'[i].level = traps'[i].plevel
                 /\ traps'[i].plevel <= Len(promised)
      <3>1. CASE i = n + 1
        BY <3>1, <1>2, <1>4, LenFacts
      <3>2. CASE i \in 1..n
        BY <3>2, <1>4, TrapFacts
      <3> QED
        BY <3>1, <3>2, <1>5
    <2>2. ASSUME NEW i \in 1..(n + 1), NEW j \in 1..(n + 1), i <= j
          PROVE  /\ traps'[i].depth <= traps'[j].depth
                 /\ traps'[i].plevel <= traps'[j].plevel
      <3>1. CASE j = n + 1
        BY <3>1, <1>2, <1>4, <2>1
      <3>2. CASE j \in 1..n
        <4>1. i \in 1..n
          BY <3>2, <2>2, <1>4
        <4> QED
          BY <4>1, <3>2, <2>2, <1>4 DEF IInv, TrapsOK
      <3> QED
        BY <3>1, <3>2, <1>5
    <2> QED
      BY <2>1, <2>2, <1>1, <1>4 DEF TrapsOK
  <1>7. TypeOK'
    BY <1>1, <1>4 DEF IInv, TypeOK
  <1> QED
    BY <1>1, <1>6, <1>7 DEF IInv, DepthOK, StackOK, PushedOK, CleanupOK

\* The traps that stay when the innermost run ends.
LEMMA OuterTraps ==
  ASSUME IInv, traps # << >>
  PROVE  /\ Last(traps) = traps[Len(traps)] /\ Len(traps) \in 1..Len(traps)
         /\ Front(traps) \in Seq(Trap) /\ Len(Front(traps)) = Len(traps) - 1
         /\ \A i \in 1..(Len(traps) - 1) :
              /\ Front(traps)[i] = traps[i] /\ i \in 1..Len(traps)
              /\ traps[i].depth <= Last(traps).depth
              /\ traps[i].plevel <= Last(traps).plevel
  <1>1. /\ Last(traps) = traps[Len(traps)] /\ Len(traps) \in Nat \ {0}
        /\ Front(traps) \in Seq(Trap) /\ Len(Front(traps)) = Len(traps) - 1
        /\ \A i \in 1..(Len(traps) - 1) : Front(traps)[i] = traps[i]
    BY LenFacts, FrontFacts
  <1>2. Len(traps) \in 1..Len(traps)
    BY <1>1
  <1>3. \A i \in 1..(Len(traps) - 1) : i \in 1..Len(traps) /\ i <= Len(traps)
    BY <1>1
  <1> QED
    BY <1>1, <1>2, <1>3 DEF IInv, TrapsOK

\* A return to the host forgets them.
LEMMA RunDoneIInv ==
  ASSUME IInv, RunDone
  PROVE  IInv'
  <1>1. /\ traps' = Front(traps) /\ traps # << >>
        /\ ret' = [how |-> "done", code |-> 0]
        /\ UNCHANGED <<frames, calldepth, stack, cleanup, live, promised, aborted, lost>>
    BY DEF RunDone, machine, objects
  <1>2. /\ traps' \in Seq(Trap) /\ Len(traps') = Len(traps) - 1
        /\ \A i \in 1..Len(traps') : traps'[i] = traps[i] /\ i \in 1..Len(traps)
    BY <1>1, OuterTraps
  <1>3. TrapsOK'
    BY <1>1, <1>2 DEF IInv, TrapsOK
  <1>4. TypeOK'
    BY <1>1, <1>2 DEF IInv, TypeOK
  <1> QED
    BY <1>1, <1>3, <1>4 DEF IInv, DepthOK, StackOK, PushedOK, CleanupOK

\* A leave cuts both cleanup stacks at the level of the innermost trap.
LEMMA LeaveIInv ==
  ASSUME IInv, NEW reason \in Int, Leave(reason)
  PROVE  IInv'
  <1>1. stack' = Recorded(Import) /\ ~aborted /\ ~aborted' /\ calldepth < MaxDepth
    BY DEF Leave, Running, Admitted
  <1>2. stack' \in [0..(StackLen - 1) -> Addresses \cup {Null}]
    BY <1>1, RecordedFacts DEF IInv, Addresses
  <1>3. CASE traps = << >>
    <2>1. /\ UNCHANGED <<frames, calldepth, traps, cleanup, live, promised, ret, lost, aborted>>
      BY <1>3 DEF Leave, objects
    <2>2. StackOK'
      BY <1>1, <2>1, RecordIInv DEF Addresses
    <2>3. TypeOK'
      BY <1>2, <2>1 DEF IInv, TypeOK
    <2> QED
      BY <2>1, <2>2, <2>3 DEF IInv, DepthOK, TrapsOK, PushedOK, CleanupOK
  <1>4. CASE traps # << >>
    <2> DEFINE t == Last(traps)
    <2>1. LeaveTo(t, reason) /\ aborted' = aborted
      BY <1>4 DEF Leave
    <2>2. /\ t = traps[Len(traps)] /\ Len(traps) \in 1..Len(traps)
          /\ traps' \in Seq(Trap) /\ Len(traps') = Len(traps) - 1
          /\ \A i \in 1..(Len(traps) - 1) :
               /\ traps'[i] = traps[i] /\ i \in 1..Len(traps)
               /\ traps[i].depth <= t.depth /\ traps[i].plevel <= t.plevel
      BY <1>4, <2>1, OuterTraps DEF LeaveTo
    <2>3. /\ t.depth \in Nat /\ t.depth <= Len(frames)
          /\ t.level = t.plevel /\ t.plevel \in Nat /\ t.plevel <= Len(promised)
      BY <2>2, TrapFacts
    <2> HIDE DEF t
    <2>4. /\ frames' = SubSeq(frames, 1, t.depth)
          /\ frames' \in Seq(Functions) /\ Len(frames') = t.depth
      BY <2>1, <2>3, LenFacts, PrefixFacts DEF LeaveTo
    <2>5. /\ promised' = SubSeq(promised, 1, t.plevel)
          /\ live' = live \ Above(promised, t.plevel)
      BY <2>1, <2>3 DEF LeaveTo, IInv, CleanupOK
    <2>6. cleanup' = promised'
      <3>1. CASE Len(promised) > t.plevel
        BY <3>1, <2>1, <2>3 DEF LeaveTo, IInv, CleanupOK
      <3>2. CASE Len(promised) = t.plevel
        <4>1. SubSeq(promised, 1, Len(promised)) = promised
          BY <3>2, LenFacts, PrefixFacts, SeqEqual
        <4> QED
          BY <4>1, <3>2, <2>1, <2>3 DEF LeaveTo, IInv, CleanupOK
      <3> QED
        BY <3>1, <3>2, <2>3, LenFacts
    <2>7. /\ PushedOK' /\ CleanupOK'
          /\ promised' \in Seq(Objects \cup {Null}) /\ Len(promised') = t.plevel
          /\ Len(cleanup') <= MaxCleanup /\ live' \subseteq Objects
      BY <2>3, <2>5, <2>6, ShrinkOK
    <2>8. calldepth = Len(frames) + lost
      BY <1>1 DEF IInv, DepthOK
    <2>9. /\ calldepth' = calldepth + 1 /\ lost' = lost + 1 + Len(frames) - t.depth
          /\ ret' = [how |-> "left", code |-> reason]
      BY <2>1 DEF LeaveTo
    <2>10. /\ lost' \in Nat /\ lost' # 0 /\ calldepth' = Len(frames') + lost'
           /\ calldepth' <= MaxDepth /\ calldepth' \in Nat
      <3>1. /\ Len(frames) \in Nat /\ lost \in Nat /\ calldepth \in Nat
            /\ MaxDepth \in Nat
        BY LenFacts, KernelAssumption
      <3>2. lost' \in Nat /\ lost' # 0
        BY <3>1, <2>3, <2>9
      <3>3. calldepth' = Len(frames') + lost'
        BY <3>1, <2>3, <2>4, <2>8, <2>9
      <3> QED
        BY <3>1, <3>2, <3>3, <1>1, <2>9
    <2>11. TypeOK'
      <3>1. calldepth' \in 0..(MaxDepth + 1)
        BY <2>10, KernelAssumption
      <3>2. ret'.how = "left" /\ ret'.code \in Int
        BY <2>9
      <3>3. aborted' \in BOOLEAN
        BY <2>1 DEF IInv, TypeOK
      <3>4. cleanup' \in Seq(Objects \cup {Null})
        BY <2>6, <2>7
      <3> QED
        BY <1>2, <2>2, <2>4, <2>7, <2>10, <3>1, <3>2, <3>3, <3>4 DEF TypeOK
    <2>12. DepthOK' /\ StackOK'
      BY <2>10 DEF DepthOK, StackOK
    <2>13. TrapsOK'
      BY <2>2, <2>3, <2>4, <2>7 DEF IInv, TrapsOK
    <2> QED
      BY <2>7, <2>11, <2>12, <2>13 DEF IInv
  <1> QED
    BY <1>3, <1>4

-----------------------------------------------------------------------------
\* Every action keeps the invariant.
LEMMA NextIInv ==
  ASSUME CleanupIsLargeEnough, IInv, [Next]_vars
  PROVE  IInv'
  <1>1. CASE CallUnregistered
    <2>1. stack' = Recorded(Stray) /\ ~aborted
          /\ UNCHANGED <<calldepth, frames, traps, cleanup, live, promised, aborted,
                         ret, lost>>
      BY <1>1 DEF CallUnregistered, objects
    <2>2. stack' \in [0..(StackLen - 1) -> Addresses \cup {Null}] /\ StackOK'
      BY <2>1, RecordIInv DEF Addresses
    <2>3. TypeOK'
      BY <2>1, <2>2 DEF IInv, TypeOK
    <2> QED
      BY <2>1, <2>2, <2>3 DEF IInv, DepthOK, TrapsOK, PushedOK, CleanupOK
  <1>2. ASSUME NEW a \in Addresses, Runaway(a) PROVE IInv'
    <2>1. /\ stack' = Recorded(a) /\ ~aborted /\ aborted' = TRUE
          /\ calldepth' = calldepth + 1 /\ calldepth >= MaxDepth
          /\ UNCHANGED <<frames, traps, cleanup, live, promised, ret, lost>>
      BY <1>2, LenFacts, KernelAssumption DEF Runaway, Admitted, objects
    <2>2. stack' \in [0..(StackLen - 1) -> Addresses \cup {Null}] /\ StackOK'
      BY <2>1, RecordIInv
    <2>3. calldepth <= MaxDepth
      BY <2>1 DEF IInv, DepthOK
    <2>4. calldepth' \in 0..(MaxDepth + 1)
      BY <2>1, <2>3, LenFacts, KernelAssumption
    <2>5. TypeOK'
      BY <2>1, <2>2, <2>4 DEF IInv, TypeOK
    <2> QED
      BY <2>1, <2>2, <2>5 DEF IInv, DepthOK, TrapsOK, PushedOK, CleanupOK
  <1>3. CASE RunRefused
    <2>1. /\ ret' = [how |-> "full", code |-> -1]
          /\ UNCHANGED <<frames, calldepth, stack, traps, cleanup, live, promised,
                         aborted, lost>>
      BY <1>3 DEF RunRefused, machine, objects
    <2>2. TypeOK'
      BY <2>1 DEF IInv, TypeOK
    <2> QED
      BY <2>1, <2>2 DEF IInv, DepthOK, StackOK, TrapsOK, PushedOK, CleanupOK
  <1>4. CASE MemFault
    <2>1. /\ aborted' = TRUE
          /\ UNCHANGED <<frames, calldepth, stack, traps, cleanup, live, promised,
                         ret, lost>>
      BY <1>4 DEF MemFault, machine, objects
    <2> QED
      BY <2>1 DEF IInv, TypeOK, DepthOK, StackOK, TrapsOK, PushedOK, CleanupOK
  <1>5. ASSUME NEW e \in Reasons, LeaveIfError(e) \/ Panic(e) PROVE IInv'
    BY <1>5, LeaveIInv, KernelAssumption DEF LeaveIfError, Panic
  <1>6. ASSUME NEW e \in ExitCodes, Exit(e) PROVE IInv'
    BY <1>6, LeaveIInv, KernelAssumption DEF Exit
  <1>7. CASE NoMemory
    BY <1>7, LeaveIInv DEF NoMemory
  <1>8. CASE UNCHANGED vars
    BY <1>8 DEF vars, IInv, TypeOK, DepthOK, StackOK, TrapsOK, PushedOK, CleanupOK
  <1> QED
    BY <1>1, <1>2, <1>3, <1>4, <1>5, <1>6, <1>7, <1>8, CallIInv, ReturnIInv,
       NewIInv, DeleteIInv, PushIInv, PopIInv, PopAndDestroyIInv, RunIInv,
       RunDoneIInv
    DEF Next

\* The runtime's stacks follow the guest's, as long as no push is dropped.
THEOREM Invariance ==
  ASSUME CleanupIsLargeEnough PROVE Spec => []IInv
  <1>1. Init => IInv
    BY InitIInv
  <1>2. IInv /\ [Next]_vars => IInv'
    BY NextIInv
  <1> QED
    BY <1>1, <1>2, PTL DEF Spec

\* Type correctness of the stacks (kernel.c:17-30).
THEOREM TypeCorrect ==
  ASSUME CleanupIsLargeEnough PROVE Spec => []TypeOK
  <1>1. IInv => TypeOK
    BY DEF IInv
  <1> QED
    BY <1>1, Invariance, PTL

\* No leave, from any depth of nested runs, frees an object twice or one that
\* was deleted, whatever the guest pushes within the array.
THEOREM NoDoubleFree ==
  ASSUME CleanupIsLargeEnough PROVE Spec => []CleanupHoldsLiveObjects
  <1>1. IInv => CleanupHoldsLiveObjects
    BY DEF IInv, PushedOK, CleanupOK, CleanupHoldsLiveObjects
  <1> QED
    BY <1>1, Invariance, PTL

\* What the runtime would free is what the guest pushed and did not pop
\* (kernel.c:22-41).
THEOREM CleanupFaithful ==
  ASSUME CleanupIsLargeEnough PROVE Spec => []CleanupIsPromised
  <1>1. IInv => CleanupIsPromised
    BY DEF IInv, CleanupOK, CleanupIsPromised
  <1> QED
    BY <1>1, Invariance, PTL

\* Runaway recursion never exhausts more than MaxDepth activations, although
\* leaves make the counter drift: it only ever drifts upwards.
THEOREM RunawayCaught ==
  ASSUME CleanupIsLargeEnough PROVE Spec => []RunawayIsCaught
  <1>1. ASSUME IInv PROVE RunawayIsCaught
    BY <1>1, LenFacts, KernelAssumption DEF IInv, DepthOK, RunawayIsCaught
  <1> QED
    BY <1>1, Invariance, PTL

\* Before the first leave a report shows exactly the callers.
THEOREM ReportsAreRight ==
  ASSUME CleanupIsLargeEnough PROVE Spec => []ReportShowsCallers
  <1>1. ASSUME IInv PROVE ReportShowsCallers
    <2> SUFFICES ASSUME lost = 0, ~aborted, calldepth <= StackLen, NEW i \in Reported
                 PROVE  stack[i] = frames[i + 1]
      BY DEF ReportShowsCallers
    <2>1. calldepth = Len(frames) /\ Len(frames) \in Nat
      BY <1>1, LenFacts DEF IInv, DepthOK
    <2>2. i + 1 \in 1..Len(frames) /\ i + 1 <= StackLen /\ (i + 1) - 1 = i
      BY <2>1, KernelAssumption DEF Reported
    <2>3. stack[(i + 1) - 1] = frames[i + 1]
      BY <1>1, <2>2 DEF IInv, StackOK
    <2> QED
      BY <2>2, <2>3
  <1> QED
    BY <1>1, Invariance, PTL

\* A leave frees exactly what was pushed since the run it ends began.
THEOREM LeaveUnwinds ==
  ASSUME CleanupIsLargeEnough PROVE Spec => LeaveFreesWhatWasPushed
  <1> DEFINE P == Len(traps') < Len(traps) /\ ret'.how = "left" =>
                    LET level == Last(traps).plevel
                    IN  /\ cleanup' = SubSeq(promised, 1, level)
                        /\ live' = live \ Above(promised, level)
  <1>1. ASSUME IInv, IInv', NEW e \in Int, Leave(e) PROVE P
    <2>1. CASE traps = << >>
      BY <1>1, <2>1, LenFacts DEF Leave
    <2>2. CASE traps # << >>
      <3>1. Last(traps).level = Last(traps).plevel
        BY <1>1, <2>2, OuterTraps, TrapFacts
      <3>2. /\ promised' = SubSeq(promised, 1, Last(traps).plevel)
            /\ live' = live \ Above(promised, Last(traps).plevel)
        BY <1>1, <2>2, <3>1 DEF Leave, LeaveTo, IInv, CleanupOK
      <3> QED
        BY <1>1, <3>2 DEF IInv, CleanupOK
    <2> QED
      BY <2>1, <2>2
  <1>2. ASSUME IInv, UNCHANGED traps PROVE P
    BY <1>2, LenFacts
  <1>3. ASSUME IInv, Run PROVE P
    <2>1. Len(traps') = Len(traps) + 1
      BY <1>3, RunIInv, LenFacts, AppendProperties DEF Run, IInv, TypeOK
    <2> QED
      BY <1>3, <2>1, LenFacts
  <1>4. ASSUME RunDone PROVE P
    BY <1>4 DEF RunDone
  <1>5. ASSUME IInv, IInv', [Next]_vars PROVE [P]_vars
    <2>1. ASSUME NEW e \in Reasons, LeaveIfError(e) \/ Panic(e) PROVE P
      BY <1>1, <1>5, <2>1, KernelAssumption DEF LeaveIfError, Panic
    <2>2. ASSUME NEW e \in ExitCodes, Exit(e) PROVE P
      BY <1>1, <1>5, <2>2, KernelAssumption DEF Exit
    <2>3. CASE NoMemory
      BY <1>1, <1>5, <2>3 DEF NoMemory
    <2>4. ASSUME UNCHANGED traps PROVE P
      BY <1>2, <1>5, <2>4
    <2>5. CASE Run \/ RunDone
      BY <1>3, <1>4, <1>5, <2>5
    <2> HIDE DEF P
    <2> QED
      BY <1>5, <2>1, <2>2, <2>3, <2>4, <2>5
      DEF Next, Call, Return, CallUnregistered, Runaway, New, Delete, PushL, Pop,
          PopAndDestroy, InImport, RunRefused, MemFault
  <1>6. IInv /\ IInv' /\ [Next]_vars => [P]_vars
    BY <1>5
  <1> QED
    BY <1>6, Invariance, PTL DEF Spec, LeaveFreesWhatWasPushed
=============================================================================
