----------------------------- MODULE CodeProofs -----------------------------
(***************************************************************************)
(* The emitted functions follow the ARM, for any images that the lifter    *)
(* can lift, any functions found in them and any number of activations;    *)
(* and so do the emitted loads, stores and block transfers, for registers, *)
(* bytes and memories of any size.  The first half is about Flow alone.    *)
(***************************************************************************)
EXTENDS Flow, Transfers, TLAPS, SequenceTheorems, FiniteSetTheorems, WellFoundedInduction

-----------------------------------------------------------------------------
\* Where control goes from the k outermost of the activations in s: the next
\* statement of the innermost of them that has more to do than to return.
Goes(s, k) == LET busy == {j \in 1..k : s[j].at # Done}
              IN IF busy = {} THEN Host ELSE s[Max(busy)].at

Activation == [fn : Starts \cup Imports, at : Nat \cup {Done}, home : Nat \cup {Host}]

TypeInv == /\ frames \in Seq(Activation) /\ image \in Images
           /\ lr \in Nat \cup {Host}

\* An activation of an emitted function, at a statement of its own, or of a shim.
InCode(a) == a.fn \in Starts /\ (a.at = Done \/ a.at \in HeadsOf(a.fn))
InShim(a) == a.fn \in Imports /\ a.at = a.fn

\* A shim is innermost, and was entered with its return address in lr.
PlacesOK == \A k \in 1..Len(frames) :
              \/ InCode(frames[k])
              \/ InShim(frames[k]) /\ k = Len(frames) /\ lr = frames[k].home

\* Each activation was entered with the address where its caller goes on.
Homes(s) == \A k \in 1..Len(s) : s[k].home = Goes(s, k - 1)

\* The return address in lr is the one of an instruction that sets it.
LrOK == \/ lr = Host
        \/ \E fn \in Functions : \E h \in fn.heads :
             \/ image[h].op = "bl" /\ lr = h + 1
             \/ image[h].op = "mov_lr_pc" /\ lr = h + 2

\* The bx of an indirect call is only reached from the mov lr, pc before it.
CallsOK == \A k \in 1..Len(frames) :
             frames[k].fn \in Starts /\ frames[k].at # Done /\ IsCall(image, frames[k].at)
             => /\ k = Len(frames)
                /\ (image[frames[k].at].cc => flag) => lr = frames[k].at + 1

FlowInv == TypeInv /\ PlacesOK /\ Homes(frames) /\ LrOK /\ CallsOK

-----------------------------------------------------------------------------
\* Every set of natural numbers has a least member.
LEMMA Least ==
  ASSUME NEW S \in SUBSET Nat, S # {}
  PROVE  \E n \in S : \A m \in S : n <= m
  <1>1. IsWellFoundedOn(OpToRel(<, Nat), Nat)
    BY NatLessThanWellFounded
  <1>2. PICK n \in S : \A m \in S : <<m, n>> \notin OpToRel(<, Nat)
    BY <1>1, WFMin
  <1>3. ASSUME NEW m \in S PROVE n <= m
    <2>1. m < n => <<m, n>> \in OpToRel(<, Nat)
      BY DEF OpToRel
    <2>2. ~(m < n)
      BY <1>2, <2>1, Zenon
    <2>3. m \in Nat /\ n \in Nat
      OBVIOUS
    <2> QED
      BY <2>2, <2>3
  <1> QED
    BY <1>3

\* And every non-empty set of numbers up to n has a greatest.
LEMMA MaxIsMember ==
  ASSUME NEW n \in Nat, NEW S \in SUBSET (1..n), S # {}
  PROVE  Max(S) \in S
  <1> DEFINE T == {n - j : j \in S}
  <1>1. T \in SUBSET Nat /\ T # {}
    OBVIOUS
  <1>2. PICK t \in T : \A u \in T : t <= u
    <2> HIDE DEF T
    <2> QED
      BY <1>1, Least
  <1>3. PICK x \in S : t = n - x
    BY <1>2
  <1>4. ASSUME NEW y \in S PROVE x >= y
    <2>1. n - x <= n - y
      BY <1>2, <1>3
    <2>2. x \in Int /\ y \in Int
      OBVIOUS
    <2> QED
      BY <2>1, <2>2
  <1>5. \E z \in S : \A y \in S : z >= y
    BY <1>4
  <1> QED
    BY <1>5, Zenon DEF Max

\* Without an activation control is with the host.
LEMMA GoesNowhere == ASSUME NEW s PROVE Goes(s, 0) = Host
  BY SMT DEF Goes

\* An activation with a statement to execute has control.
LEMMA GoesOn ==
  ASSUME NEW s, NEW n \in Nat, n # 0, s[n].at # Done
  PROVE  Goes(s, n) = s[n].at
  <1> DEFINE busy == {j \in 1..n : s[j].at # Done}
  <1>1. n \in busy /\ \A j \in busy : j \in Int /\ n >= j
    OBVIOUS
  <1> HIDE DEF busy
  <1>2. Max(busy) = n
    <2> DEFINE P(x) == x \in busy /\ \A y \in busy : x >= y
    <2>1. P(n)
      BY <1>1
    <2>2. ASSUME NEW x, P(x) PROVE x = n
      BY <1>1, <2>2
    <2> QED
      BY <2>1, <2>2 DEF Max
  <1> QED
    BY <1>1, <1>2 DEF Goes, busy

\* One that has only to return leaves control where it is without it.
LEMMA GoesBack ==
  ASSUME NEW s, NEW n \in Nat, n # 0, s[n].at = Done
  PROVE  Goes(s, n) = Goes(s, n - 1)
  <1>1. {j \in 1..n : s[j].at # Done} = {j \in 1..(n - 1) : s[j].at # Done}
    OBVIOUS
  <1> QED
    BY <1>1, Zenon DEF Goes

\* Where control goes depends on the next statements only.
LEMMA GoesSame ==
  ASSUME NEW s, NEW t, NEW n \in Nat, \A j \in 1..n : s[j].at = t[j].at
  PROVE  Goes(s, n) = Goes(t, n)
  <1> DEFINE busy == {j \in 1..n : s[j].at # Done}
  <1>1. busy = {j \in 1..n : t[j].at # Done}
    OBVIOUS
  <1>2. CASE busy = {}
    BY <1>1, <1>2, Zenon DEF Goes
  <1>3. CASE busy # {}
    <2>1. Max(busy) \in busy
      <3>1. busy \in SUBSET (1..n)
        OBVIOUS
      <3> HIDE DEF busy
      <3> QED
        BY <1>3, <3>1, MaxIsMember
    <2>2. s[Max(busy)].at = t[Max(busy)].at
      BY <2>1
    <2>3. Goes(s, n) = s[Max(busy)].at
      BY <1>3, Zenon DEF Goes
    <2>4. Goes(t, n) = t[Max(busy)].at
      BY <1>1, <1>3, Zenon DEF Goes
    <2> QED
      BY <2>2, <2>3, <2>4
  <1> QED
    BY <1>2, <1>3

-----------------------------------------------------------------------------
\* Another statement of the innermost activation, and the others as they are.
LEMMA MovedShape ==
  ASSUME NEW s \in Seq(Activation), s # << >>, NEW b \in Nat \cup {Done}
  PROVE  LET n == Len(s)
             t == [s EXCEPT ![n].at = b]
         IN /\ t \in Seq(Activation) /\ Len(t) = n /\ n \in Nat \ {0}
            /\ \A j \in 1..n : j # n => t[j] = s[j]
            /\ t[n].at = b /\ t[n].fn = s[n].fn /\ t[n].home = s[n].home
  <1> DEFINE n == Len(s)
             e == [s[n] EXCEPT !.at = b]
  <1>1. n \in Nat \ {0} /\ DOMAIN s = 1..n /\ n \in 1..n /\ s[n] \in Activation
    BY EmptySeq, LenProperties, ElementOfSeq
  <1>2. /\ e \in Activation /\ e.at = b /\ e.fn = s[n].fn /\ e.home = s[n].home
    BY <1>1 DEF Activation
  <1> HIDE DEF e
  <1> DEFINE t == [s EXCEPT ![n] = e]
  <1>3. t = [s EXCEPT ![n].at = b]
    BY DEF e
  <1>4. t \in Seq(Activation) /\ Len(t) = n
    BY <1>1, <1>2, ExceptSeq
  <1>5. t[n] = e /\ \A j \in 1..n : j # n => t[j] = s[j]
    BY <1>1
  <1> QED
    BY <1>1, <1>2, <1>3, <1>4, <1>5

\* When only the innermost activation goes elsewhere, the others go on where
\* they did.
LEMMA FrameMoved ==
  ASSUME NEW s \in Seq(Activation), NEW t \in Seq(Activation), NEW n \in Nat \ {0},
         Len(s) = n, Len(t) = n, Homes(s),
         \A j \in 1..n : j # n => t[j] = s[j], t[n].home = s[n].home
  PROVE  /\ Homes(t)
         /\ Goes(t, n) = IF t[n].at = Done THEN s[n].home ELSE t[n].at
  <1>1. ASSUME NEW k \in 0..(n - 1) PROVE Goes(t, k) = Goes(s, k)
    <2>1. k \in Nat /\ \A j \in 1..k : t[j].at = s[j].at
      OBVIOUS
    <2> QED
      BY <2>1, GoesSame
  <1>2. ASSUME NEW k \in 1..n
        PROVE  /\ k - 1 \in 0..(n - 1) /\ t[k].home = s[k].home
               /\ s[k].home = Goes(s, k - 1)
    BY DEF Homes
  <1>3. Homes(t)
    BY <1>1, <1>2 DEF Homes
  <1>4. Goes(t, n) = IF t[n].at = Done THEN s[n].home ELSE t[n].at
    <2>1. CASE t[n].at = Done
      <3>1. Goes(t, n) = Goes(t, n - 1) /\ n \in 1..n
        BY <2>1, GoesBack
      <3> QED
        BY <1>1, <1>2, <2>1, <3>1
    <2>2. CASE t[n].at # Done
      BY <2>2, GoesOn
    <2> QED
      BY <2>1, <2>2
  <1> QED
    BY <1>3, <1>4

\* A function is entered with the address where control goes on without it.
LEMMA FramePushed ==
  ASSUME NEW s \in Seq(Activation), NEW t \in Seq(Activation), NEW m \in Nat,
         Len(s) = m, Len(t) = m + 1, Homes(s), \A j \in 1..m : t[j] = s[j],
         t[m + 1].home = Goes(s, m), t[m + 1].at # Done
  PROVE  Homes(t) /\ Goes(t, m + 1) = t[m + 1].at
  <1>1. ASSUME NEW k \in 0..m PROVE Goes(t, k) = Goes(s, k)
    <2>1. k \in Nat /\ \A j \in 1..k : t[j].at = s[j].at
      OBVIOUS
    <2> QED
      BY <2>1, GoesSame
  <1>2. ASSUME NEW k \in 1..(m + 1)
        PROVE  k - 1 \in 0..m /\ t[k].home = Goes(s, k - 1)
    <2>1. CASE k = m + 1
      BY <2>1
    <2>2. CASE k # m + 1
      BY <2>2 DEF Homes
    <2> QED
      BY <2>1, <2>2
  <1>3. Homes(t)
    BY <1>1, <1>2 DEF Homes
  <1>4. m + 1 \in Nat /\ m + 1 # 0
    OBVIOUS
  <1> QED
    BY <1>3, <1>4, GoesOn

\* The innermost activation returns.
LEMMA FramePopped ==
  ASSUME NEW s \in Seq(Activation), s # << >>, Homes(s), NEW t, t = Front(s),
         NEW n, n = Len(s)
  PROVE  /\ t \in Seq(Activation) /\ Len(t) = n - 1
         /\ \A j \in 1..(n - 1) : t[j] = s[j] /\ j \in 1..n /\ j # n
         /\ Homes(t) /\ Goes(t, n - 1) = s[n].home
  <1> DEFINE m == n - 1
  <1>1. n \in Nat \ {0} /\ m \in Nat /\ n \in 1..n
    BY EmptySeq, LenProperties
  <1>2. /\ t \in Seq(Activation) /\ Len(t) = m
        /\ \A j \in 1..m : t[j] = s[j] /\ j \in 1..n /\ j # n
    <2> HIDE DEF m
    <2>1. m \in Nat /\ \A i \in 1..m : s[i] \in Activation /\ i \in 1..n /\ i # n
      <3>1. \A i \in 1..m : i \in 1..n /\ i # n
        BY <1>1 DEF m
      <3> QED
        BY <1>1, <3>1, ElementOfSeq
    <2>2. t = SubSeq(s, 1, m)
      BY DEF Front, m
    <2> QED
      BY <2>1, <2>2, SubSeqProperties
  <1>3. ASSUME NEW k \in 0..m PROVE Goes(t, k) = Goes(s, k)
    <2>1. k \in Nat /\ \A j \in 1..k : j \in 1..m
      BY <1>1
    <2>2. \A j \in 1..k : t[j].at = s[j].at
      BY <1>2, <2>1, Zenon
    <2> QED
      BY <2>1, <2>2, GoesSame
  <1>4. Homes(t)
    <2> SUFFICES ASSUME NEW k \in 1..m PROVE t[k].home = Goes(t, k - 1)
      BY <1>2 DEF Homes
    <2>1. k - 1 \in 0..m
      BY <1>1
    <2> QED
      BY <1>2, <1>3, <2>1 DEF Homes
  <1>5. Goes(t, m) = s[n].home
    <2>1. m \in 0..m /\ s[n].home = Goes(s, n - 1)
      BY <1>1 DEF Homes
    <2> QED
      BY <1>3, <2>1
  <1> QED
    BY <1>2, <1>4, <1>5

\* The refinement mapping is where control goes from all activations.
LEMMA PcGoes ==
  ASSUME frames \in Seq(Activation)
  PROVE  Pc = Goes(frames, Len(frames))
  <1>1. DOMAIN frames = 1..Len(frames)
    BY LenProperties
  <1> QED
    BY <1>1, Zenon DEF Pc, Goes

\* The same after a step.
LEMMA PcGoesNext ==
  ASSUME frames' \in Seq(Activation)
  PROVE  Pc' = Goes(frames', Len(frames'))
  <1>1. DOMAIN frames' = 1..Len(frames')
    BY LenProperties
  <1> QED
    BY <1>1, Zenon DEF Pc, Goes

-----------------------------------------------------------------------------
\* The function registered at an address, and its heads.
LEMMA FunctionFacts ==
  ASSUME NEW f \in Starts
  PROVE  /\ FunctionAt(f) \in Functions /\ FunctionAt(f).start = f
         /\ f \in HeadsOf(f) /\ HeadsOf(f) \subseteq Nat /\ f \in Nat
  <1>1. \E fn \in Functions : fn.start = f
    BY DEF Starts
  <1>2. FunctionAt(f) \in Functions /\ FunctionAt(f).start = f
    BY <1>1 DEF FunctionAt
  <1> QED
    BY <1>2, FlowAssumption DEF HeadsOf

\* A statement that is left forwards is left for the next instruction.
LEMMA FollowingFacts ==
  ASSUME Liftable(image), NEW f \in Starts, NEW h \in HeadsOf(f), FallsThrough(image, h)
  PROVE  /\ h \in Nat /\ h + 1 \in HeadsOf(f)
         /\ NextHead(f, h) = h + 1 /\ NextAddr(f, h) = h + 1
  <1>1. h \in Nat /\ HeadsOf(f) \subseteq Nat /\ FunctionAt(f) \in Functions
    BY FunctionFacts
  <1>2. h + 1 \in HeadsOf(f)
    <2>1. HeadsAreWhole(image, FunctionAt(f))
      BY <1>1 DEF Liftable
    <2>2. \A x \in HeadsOf(f) : FallsThrough(image, x) => x + 1 \in HeadsOf(f)
      BY <2>1, Zenon DEF HeadsAreWhole, HeadsOf
    <2> QED
      BY <2>2, Zenon
  <1>3. h + 1 \in After(f, h) /\ \A x \in After(f, h) : x \in Nat /\ h + 1 <= x
    BY <1>1, <1>2 DEF After
  <1>4. Min(After(f, h)) = h + 1
    <2> DEFINE P(x) == x \in After(f, h) /\ \A y \in After(f, h) : x <= y
    <2>1. P(h + 1)
      BY <1>3
    <2>2. ASSUME NEW x, P(x) PROVE x = h + 1
      BY <1>1, <1>3, <2>2
    <2> QED
      BY <2>1, <2>2 DEF Min
  <1> QED
    BY <1>1, <1>2, <1>3, <1>4 DEF NextHead, NextAddr

\* The innermost activation of a running function, and the machine, are at one
\* of the function's instructions.
LEMMA TopFacts ==
  ASSUME FlowInv, Running
  PROVE  /\ frames \in Seq(Activation) /\ frames # << >>
         /\ Len(frames) \in Nat \ {0} /\ Len(frames) \in 1..Len(frames)
         /\ Top = frames[Len(frames)] /\ Top \in Activation
         /\ Top.fn \in Starts /\ Top.at \in HeadsOf(Top.fn) /\ Top.at \in Nat
         /\ Top.at # Done /\ Pc = Top.at
  <1>1. frames \in Seq(Activation) /\ frames # << >>
    BY DEF FlowInv, TypeInv, Running
  <1>2. /\ Len(frames) \in Nat \ {0} /\ Len(frames) \in 1..Len(frames)
        /\ Top = frames[Len(frames)] /\ Top \in Activation
    BY <1>1, EmptySeq, LenProperties, ElementOfSeq DEF Top, Last
  <1>3. Top.at # Done /\ Top.at \notin Imports
    BY DEF Running
  <1>4. Top.fn \in Starts /\ Top.at \in HeadsOf(Top.fn)
    BY <1>2, <1>3 DEF FlowInv, PlacesOK, InCode, InShim
  <1>5. Pc = Goes(frames, Len(frames))
    BY <1>1, PcGoes
  <1>6. Goes(frames, Len(frames)) = Top.at
    BY <1>2, <1>3, GoesOn
  <1>7. Top.at \in Nat
    BY <1>4, FunctionFacts
  <1> QED
    BY <1>1, <1>2, <1>3, <1>4, <1>5, <1>6, <1>7

\* A goto inside the function.
LEMMA GotoStep ==
  ASSUME FlowInv, Running, NEW b \in HeadsOf(Top.fn), Goto(b), image' = image,
         lr' \in Nat \cup {Host}, LrOK',
         IsCall(image, b) => ((image[b].cc => flag') => lr' = b + 1)
  PROVE  FlowInv' /\ Pc' = b
  <1> DEFINE n == Len(frames)
  <1>1. /\ frames \in Seq(Activation) /\ frames # << >> /\ n \in Nat \ {0}
        /\ Top = frames[n] /\ Top.fn \in Starts /\ b \in Nat /\ b # Done
    BY TopFacts, FunctionFacts, FlowAssumption
  <1>2. /\ frames' \in Seq(Activation) /\ Len(frames') = n
        /\ \A j \in 1..n : j # n => frames'[j] = frames[j]
        /\ frames'[n].at = b /\ frames'[n].fn = Top.fn /\ frames'[n].home = frames[n].home
    BY <1>1, MovedShape DEF Goto, At
  <1>3. Homes(frames') /\ Goes(frames', n) = b
    BY <1>1, <1>2, FrameMoved DEF FlowInv
  <1>4. Pc' = b
    BY <1>2, <1>3, PcGoesNext
  <1>5. TypeInv'
    BY <1>2 DEF FlowInv, TypeInv
  <1>6. PlacesOK'
    <2> SUFFICES ASSUME NEW k \in 1..n PROVE InCode(frames'[k])
      BY <1>2 DEF PlacesOK
    <2>1. CASE k = n
      BY <1>1, <1>2, <2>1 DEF InCode
    <2>2. CASE k # n
      BY <1>2, <2>2 DEF FlowInv, PlacesOK
    <2> QED
      BY <2>1, <2>2
  <1>7. CallsOK'
    <2> SUFFICES ASSUME NEW k \in 1..n, IsCall(image, frames'[k].at),
                        frames'[k].fn \in Starts, frames'[k].at # Done
                 PROVE  /\ k = n
                        /\ (image[frames'[k].at].cc => flag') => lr' = frames'[k].at + 1
      BY <1>2 DEF CallsOK
    <2>1. CASE k = n
      BY <1>2, <2>1
    <2>2. CASE k # n
      BY <1>2, <2>2 DEF FlowInv, CallsOK
    <2> QED
      BY <2>1, <2>2
  <1> QED
    BY <1>3, <1>4, <1>5, <1>6, <1>7 DEF FlowInv

\* A call through the dispatch table, with the address where the caller goes on
\* in lr.
LEMMA CallStep ==
  ASSUME FlowInv, Liftable(image), Running, NEW a, Registered(a),
         NEW k \in HeadsOf(Top.fn) \cup {Done}, k # Done => ~IsCall(image, k),
         lr' = IF k = Done THEN Top.home ELSE k, LrOK',
         CallThen(a, lr', k), image' = image
  PROVE  FlowInv' /\ Pc' = a
  <1> DEFINE n == Len(frames)
             s == At(k)
             e == Entered(a, lr')
  <1>1. /\ frames \in Seq(Activation) /\ frames # << >> /\ n \in Nat \ {0}
        /\ Top = frames[n] /\ Top \in Activation /\ Top.fn \in Starts
        /\ k \in Nat \cup {Done}
    BY TopFacts, FunctionFacts
  <1>2. /\ s \in Seq(Activation) /\ Len(s) = n
        /\ \A j \in 1..n : j # n => s[j] = frames[j]
        /\ s[n].at = k /\ s[n].fn = Top.fn /\ s[n].home = frames[n].home
    BY <1>1, MovedShape DEF At
  <1> HIDE DEF s
  <1>3. Homes(s) /\ Goes(s, n) = lr'
    BY <1>1, <1>2, FrameMoved DEF FlowInv
  <1>4. a \in Nat /\ a # Done /\ a \in Starts \cup Imports
    BY FunctionFacts, FlowAssumption DEF Registered
  <1>5. lr' \in Nat \cup {Host}
    BY <1>1 DEF Activation
  <1>6. /\ e \in Activation /\ e.at = a /\ e.fn = a /\ e.home = lr'
    BY <1>4, <1>5 DEF Entered, Activation
  <1>7. frames' = Append(s, e)
    BY DEF CallThen, s
  <1> HIDE DEF e
  <1>8. /\ frames' \in Seq(Activation) /\ Len(frames') = n + 1
        /\ \A j \in 1..(n + 1) : j # n + 1 => frames'[j] = s[j] /\ j \in 1..n
        /\ frames'[n + 1] = e /\ Homes(frames') /\ Goes(frames', n + 1) = a
    <2>1. /\ frames' \in Seq(Activation) /\ Len(frames') = n + 1
          /\ \A j \in 1..n : frames'[j] = s[j]
          /\ frames'[n + 1] = e
      BY <1>2, <1>6, <1>7, AppendProperties
    <2>2. n \in Nat /\ e.home = Goes(s, n) /\ e.at # Done
      BY <1>1, <1>3, <1>4, <1>6
    <2>3. Homes(frames') /\ Goes(frames', n + 1) = a
      <3> HIDE DEF n
      <3> QED
        BY <1>2, <1>3, <1>6, <2>1, <2>2, FramePushed
    <2>4. \A j \in 1..(n + 1) : j # n + 1 => j \in 1..n
      BY <1>1
    <2> QED
      BY <2>1, <2>3, <2>4
  <1>9. Pc' = a
    BY <1>8, PcGoesNext
  <1>10. TypeInv'
    BY <1>5, <1>8 DEF FlowInv, TypeInv
  <1>11. ASSUME NEW j \in 1..n PROVE InCode(s[j])
    <2>1. CASE j = n
      BY <1>1, <1>2, <2>1 DEF InCode
    <2>2. CASE j # n
      BY <1>2, <2>2 DEF FlowInv, PlacesOK
    <2> QED
      BY <2>1, <2>2
  <1>12. PlacesOK'
    <2> SUFFICES ASSUME NEW j \in 1..(n + 1)
                 PROVE  \/ InCode(frames'[j])
                        \/ InShim(frames'[j]) /\ j = n + 1 /\ lr' = frames'[j].home
      BY <1>8 DEF PlacesOK
    <2>1. CASE j = n + 1
      BY <1>4, <1>6, <1>8, <2>1, FunctionFacts DEF InCode, InShim
    <2>2. CASE j # n + 1
      BY <1>8, <1>11, <2>2
    <2> QED
      BY <2>1, <2>2
  <1>13. CallsOK'
    <2> SUFFICES ASSUME NEW j \in 1..(n + 1), IsCall(image, frames'[j].at),
                        frames'[j].fn \in Starts, frames'[j].at # Done
                 PROVE  FALSE
      BY <1>8 DEF CallsOK
    <2>1. CASE j = n + 1
      <3>1. a \in Starts /\ IsCall(image, a)
        BY <1>6, <1>8, <2>1
      <3> QED
        BY <3>1, FunctionFacts DEF Liftable, CallsAreWhole, HeadsOf
    <2>2. CASE j = n
      BY <1>1, <1>2, <1>8, <2>2
    <2>3. CASE j # n /\ j # n + 1
      BY <1>1, <1>2, <1>8, <2>3 DEF FlowInv, CallsOK
    <2> QED
      BY <2>1, <2>2, <2>3
  <1> QED
    BY <1>8, <1>9, <1>10, <1>12, <1>13 DEF FlowInv

\* A return of the innermost C function.
LEMMA ReturnStep ==
  ASSUME FlowInv, frames # << >>, Return, image' = image, lr' = lr
  PROVE  FlowInv' /\ Pc' = Top.home
  <1> DEFINE n == Len(frames)
  <1>1. frames \in Seq(Activation) /\ n \in Nat \ {0} /\ Top = frames[n]
    BY EmptySeq, LenProperties DEF FlowInv, TypeInv, Top, Last
  <1>2. /\ frames' \in Seq(Activation) /\ Len(frames') = n - 1
        /\ \A j \in 1..(n - 1) : frames'[j] = frames[j] /\ j \in 1..n /\ j # n
        /\ Homes(frames') /\ Goes(frames', n - 1) = Top.home
    BY <1>1, FramePopped DEF FlowInv, Return
  <1>3. Pc' = Top.home
    BY <1>2, PcGoesNext
  <1>4. TypeInv' /\ LrOK'
    BY <1>2 DEF FlowInv, TypeInv, LrOK
  <1>5. PlacesOK'
    BY <1>2 DEF FlowInv, PlacesOK
  <1>6. CallsOK'
    BY <1>2 DEF FlowInv, CallsOK
  <1> QED
    BY <1>2, <1>3, <1>4, <1>5, <1>6 DEF FlowInv

-----------------------------------------------------------------------------
\* What the lifter takes for granted, of the function that is running.
LEMMA LiftedFacts ==
  ASSUME FlowInv, Liftable(image), Running
  PROVE  LET fn == FunctionAt(Top.fn)
         IN /\ fn \in Functions /\ fn.start = Top.fn /\ fn.heads = HeadsOf(Top.fn)
            /\ HeadsAreWhole(image, fn) /\ TargetsAreKnown(image, fn)
            /\ TablesAreUniform(image, fn) /\ CallsAreWhole(image, fn)
            /\ Pc = Top.at /\ Top.at \in DOMAIN image
  <1> DEFINE fn == FunctionAt(Top.fn)
  <1>1. Top.fn \in Starts /\ Top.at \in HeadsOf(Top.fn) /\ Pc = Top.at
    BY TopFacts
  <1>2. fn \in Functions /\ fn.start = Top.fn /\ fn.heads = HeadsOf(Top.fn)
    BY <1>1, FunctionFacts DEF HeadsOf
  <1>3. /\ HeadsAreWhole(image, fn) /\ TargetsAreKnown(image, fn)
        /\ TablesAreUniform(image, fn) /\ CallsAreWhole(image, fn)
    BY <1>2, Zenon DEF Liftable
  <1>4. Top.at \in DOMAIN image
    BY <1>1, <1>2, <1>3 DEF HeadsAreWhole
  <1> QED
    BY <1>1, <1>2, <1>3, <1>4

\* The next statement after an instruction that may fall through, when it is no
\* mov lr, pc: the instruction behind it is not the bx of an indirect call.
LEMMA FallThrough ==
  ASSUME FlowInv, Liftable(image), Running, FallsThrough(image, Top.at)
  PROVE  /\ Following = Top.at + 1 /\ Following \in HeadsOf(Top.fn)
         /\ NextAddr(Top.fn, Top.at) = Top.at + 1
         /\ image[Top.at].op # "mov_lr_pc" => ~IsCall(image, Top.at + 1)
  <1>1. Top.fn \in Starts /\ Top.at \in HeadsOf(Top.fn) /\ Top.at \in Nat
    BY TopFacts
  <1>2. /\ Following = Top.at + 1 /\ Following \in HeadsOf(Top.fn)
        /\ NextAddr(Top.fn, Top.at) = Top.at + 1
    BY <1>1, FollowingFacts DEF Following
  <1>3. (Top.at + 1) - 1 = Top.at
    BY <1>1
  <1> QED
    BY <1>2, <1>3 DEF IsCall

\* Statements that set no return address leave where it came from.
LEMMA LrStays ==
  ASSUME FlowInv, image' = image, lr' = lr
  PROVE  LrOK' /\ lr' \in Nat \cup {Host}
  BY DEF FlowInv, TypeInv, LrOK

Follows == FlowInv' /\ (Arm!Next \/ UNCHANGED Arm!vars)

\* An instruction whose condition fails.  If it is the mov lr, pc of an indirect
\* call, the bx behind it is under the same condition.
LEMMA SkipFollows ==
  ASSUME FlowInv, Liftable(image), Skip PROVE Follows
  <1> USE DEF Skip, Current, guest
  <1>1. FallsThrough(image, Top.at)
    BY DEF FallsThrough
  <1>2. Following = Top.at + 1 /\ Following \in HeadsOf(Top.fn)
    BY <1>1, FallThrough
  <1>3. IsCall(image, Following) => ~(image[Following].cc => flag')
    <2>1. FunctionAt(Top.fn).heads = HeadsOf(Top.fn) /\ CallsAreWhole(image, FunctionAt(Top.fn))
      BY LiftedFacts
    <2>2. IsCall(image, Following) => image[Following - 1].cc = image[Following].cc
      BY <1>2, <2>1 DEF CallsAreWhole
    <2>3. Following - 1 = Top.at
      BY <1>2, TopFacts
    <2> QED
      BY <2>2, <2>3
  <1>4. FlowInv' /\ Pc' = Following
    BY <1>2, <1>3, LrStays, GotoStep
  <1>5. Arm!Next
    BY <1>2, <1>4, LiftedFacts DEF Arm!Next, Arm!GoTo
  <1> QED
    BY <1>4, <1>5 DEF Follows

\* What computes goes on with the next instruction.
LEMMA ComputeFollows ==
  ASSUME FlowInv, Liftable(image), Compute PROVE Follows
  <1> USE DEF Compute, Taken, Current
  <1>1. FallsThrough(image, Top.at) /\ image[Top.at].op # "mov_lr_pc"
    BY DEF FallsThrough, Jumps
  <1>2. /\ Following = Top.at + 1 /\ Following \in HeadsOf(Top.fn)
        /\ ~IsCall(image, Following)
    BY <1>1, FallThrough
  <1>3. FlowInv' /\ Pc' = Following
    BY <1>2, LrStays, GotoStep
  <1>4. Arm!Next
    BY <1>2, <1>3, LiftedFacts DEF Arm!Next, Arm!Step
  <1> QED
    BY <1>3, <1>4 DEF Follows

\* A branch is a goto inside the function and a tail call out of it.
LEMMA BranchFollows ==
  ASSUME FlowInv, Liftable(image), Branch PROVE Follows
  <1> USE DEF Branch, Taken, Current, guest
  <1> DEFINE to == image[Top.at].to
             fn == FunctionAt(Top.fn)
  <1>1. /\ Top.at \in fn.heads /\ fn.heads = HeadsOf(Top.fn)
        /\ TargetsAreKnown(image, fn) /\ CallsAreWhole(image, fn)
    BY TopFacts, LiftedFacts
  <1>2. FlowInv' /\ Pc' = to
    <2>1. CASE to \in HeadsOf(Top.fn)
      <3>1. ~IsCall(image, to) /\ Goto(to)
        BY <1>1, <2>1 DEF CallsAreWhole, IsLocal
      <3> HIDE DEF to
      <3> QED
        BY <2>1, <3>1, LrStays, GotoStep
    <2>2. CASE to \notin HeadsOf(Top.fn)
      <3>1. Registered(to) /\ lr' = Top.home /\ CallThen(to, lr', Done)
        BY <1>1, <2>2 DEF TargetsAreKnown, IsLocal, Hands
      <3> HIDE DEF to
      <3> QED
        BY <3>1, LrStays, CallStep
    <2> QED
      BY <2>1, <2>2
  <1>3. Arm!Next
    BY <1>2, LiftedFacts DEF Arm!Next, Arm!Step, Arm!GoTo
  <1> QED
    BY <1>2, <1>3 DEF Follows

\* A call leaves the next instruction in lr, where the caller goes on.
LEMMA BranchLinkFollows ==
  ASSUME FlowInv, Liftable(image), BranchLink PROVE Follows
  <1> USE DEF BranchLink, Taken, Current
  <1> DEFINE to == image[Top.at].to
             fn == FunctionAt(Top.fn)
  <1>1. /\ fn \in Functions /\ Top.at \in fn.heads /\ TargetsAreKnown(image, fn)
        /\ Top.at \in Nat
    BY TopFacts, LiftedFacts
  <1>2. /\ Following = Top.at + 1 /\ Following \in HeadsOf(Top.fn)
        /\ ~IsCall(image, Following) /\ lr' = Following
        /\ CallThen(to, lr', Following)
    <2>1. FallsThrough(image, Top.at) /\ image[Top.at].op # "mov_lr_pc"
      BY DEF FallsThrough, Jumps
    <2> QED
      BY <2>1, FallThrough
  <1>3. LrOK'
    BY <1>1, <1>2, Zenon DEF LrOK
  <1>4. Registered(to) /\ Following # Done
    BY <1>1, <1>2, FlowAssumption DEF TargetsAreKnown
  <1>5. FlowInv' /\ Pc' = to
    <2> HIDE DEF to
    <2> QED
      BY <1>2, <1>3, <1>4, CallStep
  <1>6. Arm!Next
    BY <1>2, <1>5, LiftedFacts DEF Arm!Next, Arm!Step, Arm!GoTo
  <1> QED
    BY <1>5, <1>6 DEF Follows

\* mov lr, pc leaves the address behind the bx that follows it.
LEMMA MoveLrFollows ==
  ASSUME FlowInv, Liftable(image), MoveLr PROVE Follows
  <1> USE DEF MoveLr, Taken, Current
  <1> DEFINE fn == FunctionAt(Top.fn)
  <1>1. fn \in Functions /\ Top.at \in fn.heads /\ Top.at \in Nat
    BY TopFacts, LiftedFacts
  <1>2. Following = Top.at + 1 /\ Following \in HeadsOf(Top.fn)
    <2>1. FallsThrough(image, Top.at)
      BY DEF FallsThrough, Jumps
    <2> QED
      BY <2>1, FallThrough
  <1>3. LrOK' /\ lr' \in Nat
    BY <1>1 DEF LrOK
  <1>4. lr' = Following + 1
    BY <1>1, <1>2
  <1>5. FlowInv' /\ Pc' = Following
    BY <1>2, <1>3, <1>4, GotoStep
  <1>6. Arm!Next
    BY <1>2, <1>5, LiftedFacts DEF Arm!Next, Arm!Step, Arm!GoTo
  <1> QED
    BY <1>5, <1>6 DEF Follows

\* The lifter takes the bx of an indirect call for one, and no other.
LEMMA CallsAreFound ==
  ASSUME FlowInv, Liftable(image), Running, Current.op = "bx"
  PROVE  CallContinues(Top.fn, Top.at) <=> IsCall(image, Top.at)
  <1> USE DEF Current
  <1> DEFINE fn == FunctionAt(Top.fn)
  <1>1. /\ Top.fn \in Starts /\ Top.at \in HeadsOf(Top.fn) /\ Top.at \in Nat
        /\ HeadsOf(Top.fn) \subseteq Nat /\ fn.heads = HeadsOf(Top.fn)
        /\ HeadsAreWhole(image, fn) /\ CallsAreWhole(image, fn)
    BY TopFacts, LiftedFacts, FunctionFacts
  <1>2. ASSUME NEW b \in HeadsOf(Top.fn), image[b].op = "mov_lr_pc"
        PROVE  NextHead(Top.fn, b) = b + 1 /\ b \in Nat /\ b \in DOMAIN image
    <2>1. FallsThrough(image, b)
      BY <1>2 DEF FallsThrough, Jumps
    <2> QED
      BY <1>1, <2>1, FollowingFacts DEF HeadsAreWhole
  <1>3. ASSUME CallContinues(Top.fn, Top.at) PROVE IsCall(image, Top.at)
    <2>1. PICK b \in HeadsOf(Top.fn) : NextHead(Top.fn, b) = Top.at /\ image[b].op = "mov_lr_pc"
      BY <1>3 DEF CallContinues
    <2>2. b = Top.at - 1 /\ b \in DOMAIN image
      BY <1>1, <1>2, <2>1
    <2> QED
      BY <2>1, <2>2 DEF IsCall
  <1>4. ASSUME IsCall(image, Top.at) PROVE CallContinues(Top.fn, Top.at)
    <2>1. Top.at - 1 \in HeadsOf(Top.fn) /\ image[Top.at - 1].op = "mov_lr_pc"
      BY <1>1, <1>4 DEF CallsAreWhole, IsCall
    <2>2. NextHead(Top.fn, Top.at - 1) = Top.at
      BY <1>1, <1>2, <2>1
    <2> QED
      BY <2>1, <2>2 DEF CallContinues
  <1> QED
    BY <1>3, <1>4

\* A bx is a call when mov lr, pc is before it, and a tail call when it is not:
\* then lr is not the next address, as no instruction has put that there.
LEMMA BranchExchangeFollows ==
  ASSUME FlowInv, Liftable(image), BranchExchange PROVE Follows
  <1> USE DEF BranchExchange, Taken, Current, guest
  <1>1. /\ Top.at \in Nat /\ Len(frames) \in 1..Len(frames) /\ Top = frames[Len(frames)]
        /\ Top.fn \in Starts /\ Top.at # Done
    BY TopFacts
  <1>2. CallContinues(Top.fn, Top.at) <=> IsCall(image, Top.at)
    BY CallsAreFound
  <1>3. LrOK'
    BY LrStays
  <1>4. FlowInv' /\ Pc' = rm
    <2>1. CASE IsCall(image, Top.at)
      <3>1. FallsThrough(image, Top.at)
        BY <2>1 DEF FallsThrough
      <3>2. /\ Following = Top.at + 1 /\ Following \in HeadsOf(Top.fn)
            /\ ~IsCall(image, Following)
        BY <3>1, FallThrough
      <3>3. lr = Top.at + 1
        BY <1>1, <2>1 DEF FlowInv, CallsOK
      <3>4. Following # Done /\ lr' = Following /\ CallThen(rm, lr', Following)
        BY <1>2, <2>1, <3>2, <3>3, TopFacts, FlowAssumption
      <3> QED
        BY <1>3, <3>2, <3>4, CallStep
    <2>2. CASE ~IsCall(image, Top.at)
      <3>1. ASSUME lr = Top.at + 1 PROVE FALSE
        <4>1. lr \in Nat /\ lr # Host
          BY <1>1, <3>1, FlowAssumption
        <4>2. PICK fn \in Functions : \E h \in fn.heads :
                \/ image[h].op = "bl" /\ lr = h + 1
                \/ image[h].op = "mov_lr_pc" /\ lr = h + 2
          BY <4>1 DEF FlowInv, LrOK
        <4>3. PICK h \in fn.heads :
                \/ image[h].op = "bl" /\ lr = h + 1
                \/ image[h].op = "mov_lr_pc" /\ lr = h + 2
          BY <4>2
        <4>4. h \in Nat /\ h \in DOMAIN image
          BY FlowAssumption DEF Liftable, HeadsAreWhole
        <4>5. CASE image[h].op = "bl" /\ lr = h + 1
          <5>1. h = Top.at
            BY <1>1, <3>1, <4>4, <4>5
          <5> QED
            BY <4>5, <5>1
        <4>6. CASE image[h].op = "mov_lr_pc" /\ lr = h + 2
          <5>1. h = Top.at - 1
            BY <1>1, <3>1, <4>4, <4>6
          <5> QED
            BY <2>2, <4>4, <4>6, <5>1 DEF IsCall
        <4> QED
          BY <4>3, <4>5, <4>6
      <3>2. lr' = Top.home /\ CallThen(rm, lr', Done)
        BY <1>2, <2>2, <3>1 DEF Hands
      <3> QED
        BY <1>3, <3>2, CallStep
    <2> QED
      BY <2>1, <2>2
  <1>5. Arm!Next
    BY <1>4, LiftedFacts DEF Arm!Next, Arm!Step, Arm!GoTo
  <1> QED
    BY <1>4, <1>5 DEF Follows

\* A return to the value that lr had when the function was entered.
LEMMA ReturnByLrFollows ==
  ASSUME FlowInv, Liftable(image), ReturnByLr PROVE Follows
  <1> USE DEF ReturnByLr, Taken, Current, guest
  <1>1. FlowInv' /\ Pc' = lr
    BY TopFacts, ReturnStep DEF Hands
  <1>2. Arm!Next
    BY <1>1, LiftedFacts DEF Arm!Next, Arm!Step, Arm!GoTo
  <1> QED
    BY <1>1, <1>2 DEF Follows

\* The popped value is where the C function was called from.
LEMMA PopPcFollows ==
  ASSUME FlowInv, Liftable(image), PopPc PROVE Follows
  <1> USE DEF PopPc, Taken, Current
  <1>1. FlowInv' /\ Pc' = Last(saved)
    BY TopFacts, ReturnStep DEF Hands
  <1>2. Arm!Last(saved) = Last(saved) /\ Arm!Front(saved) = Front(saved)
    BY Zenon DEF Arm!Last, Last, Arm!Front, Front
  <1>3. Arm!Next
    BY <1>1, <1>2, LiftedFacts DEF Arm!Next, Arm!Step, Arm!GoTo
  <1> QED
    BY <1>1, <1>3 DEF Follows

\* A constant that is loaded into pc is a tail call of what is there.
LEMMA LoadPcFollows ==
  ASSUME FlowInv, Liftable(image), LoadPc PROVE Follows
  <1> USE DEF LoadPc, Taken, Current, guest
  <1> DEFINE to == image[Top.at + 2 + image[Top.at].disp].val
  <1>1. Registered(to)
    BY TopFacts, LiftedFacts DEF TargetsAreKnown
  <1>2. lr' = Top.home /\ CallThen(to, lr', Done)
    BY DEF Hands
  <1>3. FlowInv' /\ Pc' = to
    <2> HIDE DEF to
    <2> QED
      BY <1>1, <1>2, LrStays, CallStep
  <1>4. Arm!Next
    BY <1>3, LiftedFacts DEF Arm!Next, Arm!Step, Arm!GoTo
  <1> QED
    BY <1>3, <1>4 DEF Follows

\* A push of lr goes on with the next instruction.
LEMMA PushLrFollows ==
  ASSUME FlowInv, Liftable(image), PushLr PROVE Follows
  <1> USE DEF PushLr, Taken, Current
  <1>1. FallsThrough(image, Top.at) /\ image[Top.at].op # "mov_lr_pc"
    BY DEF FallsThrough, Jumps
  <1>2. /\ Following = Top.at + 1 /\ Following \in HeadsOf(Top.fn)
        /\ ~IsCall(image, Following)
    BY <1>1, FallThrough
  <1>3. FlowInv' /\ Pc' = Following
    BY <1>2, LrStays, GotoStep
  <1>4. Arm!Next
    BY <1>2, <1>3, LiftedFacts DEF Arm!Next, Arm!Step, Arm!GoTo
  <1> QED
    BY <1>3, <1>4 DEF Follows

\* A return after a tail call takes the machine nowhere.
LEMMA LeaveFollows ==
  ASSUME FlowInv, Leave PROVE Follows
  <1> USE DEF Leave, guest
  <1>1. frames \in Seq(Activation) /\ Len(frames) \in Nat \ {0} /\ Top = frames[Len(frames)]
        /\ Len(frames) \in 1..Len(frames)
    BY EmptySeq, LenProperties DEF FlowInv, TypeInv, Top, Last
  <1>2. Pc = Top.home
    <2>1. Pc = Goes(frames, Len(frames) - 1)
      BY <1>1, PcGoes, GoesBack
    <2> QED
      BY <1>1, <2>1 DEF FlowInv, Homes
  <1>3. FlowInv' /\ Pc' = Top.home
    BY ReturnStep
  <1>4. UNCHANGED Arm!vars
    BY <1>2, <1>3 DEF Arm!vars
  <1> QED
    BY <1>3, <1>4 DEF Follows

\* A shim comes back to the value that lr had when it was called.
LEMMA ShimReturnsFollows ==
  ASSUME FlowInv, Liftable(image), ShimReturns PROVE Follows
  <1> USE DEF ShimReturns, guest
  <1>1. /\ frames \in Seq(Activation) /\ Len(frames) \in Nat \ {0}
        /\ Top = frames[Len(frames)] /\ Len(frames) \in 1..Len(frames)
    BY EmptySeq, LenProperties DEF FlowInv, TypeInv, Top, Last
  <1>2. Top.at # Done /\ Top.at \in Nat
    BY FlowAssumption
  <1>3. Pc = Top.at
    BY <1>1, <1>2, PcGoes, GoesOn
  <1>4. lr = Top.home
    <2>1. ~InCode(Top)
      <3>1. ASSUME Top.fn \in Starts, Top.at \in HeadsOf(Top.fn) PROVE FALSE
        BY <3>1, FunctionFacts DEF Liftable, HeadsAreWhole, HeadsOf
      <3> QED
        BY <1>2, <3>1 DEF InCode
    <2>2. InCode(Top) \/ (InShim(Top) /\ lr = Top.home)
      BY <1>1 DEF FlowInv, PlacesOK
    <2> QED
      BY <2>1, <2>2
  <1>5. FlowInv' /\ Pc' = lr
    BY <1>4, ReturnStep
  <1>6. Arm!System
    BY <1>3, <1>5 DEF Arm!System, Arm!GoTo
  <1> QED
    BY <1>5, <1>6 DEF Follows, Arm!Next

\* The cases of the switch are the words of the table up to the first that is
\* no label.
LEMMA TargetsFacts ==
  ASSUME NEW f, NEW a
  PROVE  \E n \in 0..256 :
           /\ n = 0 => Targets(f, a) = << >>
           /\ Len(Targets(f, a)) = n
           /\ \A k \in 1..n : Targets(f, a)[k] = image[a + 2 + (k - 1)].val
           /\ \A k \in 0..(n - 1) : IsLabel(image, FunctionAt(f), a + 2 + k)
           /\ n = 256 \/ ~IsLabel(image, FunctionAt(f), a + 2 + n)
  <1> DEFINE word(k) == image[a + 2 + k]
             taken(k) == /\ a + 2 + k \in DOMAIN image
                         /\ word(k).op = "word" /\ word(k).val \in HeadsOf(f)
             stops(m) == /\ \A k \in 0..(m - 1) : taken(k)
                         /\ m = 256 \/ ~taken(m)
             n == CHOOSE m \in 0..256 : stops(m)
             Stops == {m \in 0..256 : m = 256 \/ ~taken(m)}
  <1>1. ASSUME NEW k PROVE taken(k) <=> IsLabel(image, FunctionAt(f), a + 2 + k)
    BY DEF IsLabel, HeadsOf
  <1>2. Targets(f, a) = [k \in 1..n |-> word(k - 1).val]
    BY Zenon DEF Targets
  <1> HIDE DEF taken
  <1>3. PICK m \in Stops : \A x \in Stops : m <= x
    <2>1. Stops \in SUBSET Nat /\ 256 \in Stops
      OBVIOUS
    <2> HIDE DEF Stops
    <2> QED
      BY <2>1, Least
  <1>4. m \in 0..256 /\ stops(m)
    <2>1. ASSUME NEW k \in 0..(m - 1) PROVE taken(k)
      <3>1. k \notin Stops /\ k \in 0..256
        BY <1>3
      <3> QED
        BY <3>1
    <2> QED
      BY <1>3, <2>1
  <1>5. n \in 0..256 /\ stops(n)
    <2> HIDE DEF stops
    <2> QED
      BY <1>4
  <1>6. /\ n = 0 => Targets(f, a) = << >>
        /\ Len(Targets(f, a)) = n /\ \A k \in 1..n : Targets(f, a)[k] = word(k - 1).val
    <2> DEFINE S == {word(k - 1).val : k \in 1..n}
    <2>1. n \in Nat
      <3> HIDE DEF n, stops
      <3> QED
        BY <1>5
    <2>2. Targets(f, a) \in [1..n -> S]
      <3> HIDE DEF n, word
      <3> QED
        BY <1>2
    <2>3. \A k \in 1..n : Targets(f, a)[k] = word(k - 1).val
      <3> HIDE DEF n, word
      <3> QED
        BY <1>2
    <2> HIDE DEF n, word, S
    <2>4. Targets(f, a) \in Seq(S) /\ Len(Targets(f, a)) = n
      BY <2>1, <2>2
    <2> QED
      BY <2>3, <2>4, EmptySeq
  <1>7. /\ \A k \in 0..(n - 1) : IsLabel(image, FunctionAt(f), a + 2 + k)
        /\ n = 256 \/ ~IsLabel(image, FunctionAt(f), a + 2 + n)
    <2> HIDE DEF n
    <2> QED
      BY <1>1, <1>5
  <1>8. n \in 0..256
    <2> HIDE DEF n, stops
    <2> QED
      BY <1>5
  <1> HIDE DEF n
  <1> USE <1>8
  <1> WITNESS n \in 0..256
  <1> QED
    BY <1>6, <1>7

\* A switch goes where the table says, for every index that the guest uses.
LEMMA TableJumpFollows ==
  ASSUME FlowInv, Liftable(image), rm \in Values, TableJump PROVE Follows
  <1> DEFINE fn == FunctionAt(Top.fn)
             to == image[Top.at + 2 + rm].val
             targets == Targets(Top.fn, Top.at)
  <1>1. Running /\ UNCHANGED guest
    BY DEF TableJump, Taken
  <1>2. /\ Top.at \in fn.heads /\ fn.heads = HeadsOf(Top.fn) /\ rm \in Nat
        /\ TablesAreUniform(image, fn) /\ CallsAreWhole(image, fn)
    BY <1>1, TopFacts, LiftedFacts, FlowAssumption
  <1>3. /\ image[Top.at].op = "ldr_pc_table" /\ (image[Top.at].cc => flag)
        /\ Top.at + 2 + rm \in DOMAIN image /\ image[Top.at + 2 + rm].op = "word"
    BY DEF TableJump, Taken, Current
  <1>4. IF targets = << >> THEN lr = Top.home /\ CallThen(to, lr, Done)
        ELSE Goto(IF rm < Len(targets) THEN targets[rm + 1] ELSE Following)
    BY DEF TableJump, Hands
  <1>5. PICK n \in 0..256 :
          /\ n = 0 => targets = << >>
          /\ Len(targets) = n
          /\ \A k \in 1..n : targets[k] = image[Top.at + 2 + (k - 1)].val
          /\ \A k \in 0..(n - 1) : IsLabel(image, fn, Top.at + 2 + k)
          /\ n = 256 \/ ~IsLabel(image, fn, Top.at + 2 + n)
    BY TargetsFacts, Zenon
  <1>6. \/ rm < 256 /\ \A k \in 0..rm : IsLabel(image, fn, Top.at + 2 + k)
        \/ ~IsLabel(image, fn, Top.at + 2) /\ Registered(to)
    BY <1>2, <1>3, Zenon DEF TablesAreUniform
  <1>7. LrOK' /\ lr' \in Nat \cup {Host} /\ lr' = lr /\ image' = image
    BY <1>1, LrStays DEF guest
  <1> HIDE DEF targets
  <1>8. FlowInv' /\ Pc' = to
    <2>1. CASE rm < 256 /\ \A k \in 0..rm : IsLabel(image, fn, Top.at + 2 + k)
      <3>1. rm < n
        <4>1. rm \in 0..rm /\ (n <= rm => n \in 0..rm)
          BY <1>2
        <4> QED
          BY <1>2, <1>5, <2>1, <4>1
      <3>2. targets # << >>
        BY <1>2, <1>5, <3>1, EmptySeq
      <3>3. targets[rm + 1] = to
        <4>1. rm + 1 \in 1..n /\ (rm + 1) - 1 = rm
          BY <1>2, <3>1
        <4> QED
          BY <1>5, <4>1
      <3>4. Goto(to)
        BY <1>4, <1>5, <3>1, <3>2, <3>3
      <3>5. to \in HeadsOf(Top.fn) /\ ~IsCall(image, to)
        <4>1. IsLabel(image, fn, Top.at + 2 + rm)
          BY <1>2, <2>1
        <4> QED
          BY <1>2, <1>3, <4>1, Zenon DEF CallsAreWhole, IsLabel
      <3> HIDE DEF to
      <3> QED
        BY <1>1, <1>7, <3>4, <3>5, GotoStep
    <2>2. CASE ~IsLabel(image, fn, Top.at + 2) /\ Registered(to)
      <3>1. n = 0
        <4>1. n # 0 => 0 \in 0..(n - 1) /\ Top.at + 2 + 0 = Top.at + 2
          BY <1>1, TopFacts
        <4> QED
          BY <1>5, <2>2, <4>1
      <3>2. targets = << >>
        BY <1>5, <3>1, EmptySeq
      <3>3. lr' = Top.home /\ CallThen(to, lr', Done)
        BY <1>4, <1>7, <3>2
      <3> HIDE DEF to
      <3> QED
        BY <1>1, <1>7, <2>2, <3>3, CallStep
    <2> QED
      BY <1>6, <2>1, <2>2
  <1>9. Arm!Next
    BY <1>1, <1>3, <1>8, LiftedFacts DEF Arm!Next, Arm!Step, Arm!GoTo, guest
  <1> QED
    BY <1>8, <1>9 DEF Follows

-----------------------------------------------------------------------------
Inv == FlowInv /\ rm \in Values

\* The only activation at first is at the start of a function, and so is the
\* machine.
LEMMA InitFollows ==
  ASSUME Init, \A i \in Images : Liftable(i) PROVE Inv /\ Arm!Init
  <1> USE DEF Init
  <1>1. PICK a \in Starts : frames = <<Entered(a, Host)>>
    OBVIOUS
  <1>2. /\ a \in Nat /\ a # Done /\ a \in HeadsOf(a) /\ FunctionAt(a) \in Functions
        /\ FunctionAt(a).start = a /\ Liftable(image)
    BY FunctionFacts, FlowAssumption
  <1>3. /\ Entered(a, Host) \in Activation /\ Entered(a, Host).at = a
        /\ Entered(a, Host).fn = a /\ Entered(a, Host).home = Host
    BY <1>2 DEF Entered, Activation
  <1> HIDE DEF Init
  <1>4. /\ frames \in Seq(Activation) /\ Len(frames) = 1 /\ 1..Len(frames) = {1}
        /\ frames[1].at = a /\ frames[1].fn = a /\ frames[1].home = Host
    BY <1>1, <1>3
  <1>5. Pc = a
    BY <1>2, <1>4, PcGoes, GoesOn
  <1>6. FlowInv
    <2>1. TypeInv /\ LrOK
      BY <1>4 DEF TypeInv, LrOK, Init
    <2>2. PlacesOK
      BY <1>2, <1>4 DEF PlacesOK, InCode
    <2>3. Homes(frames)
      BY <1>4, GoesNowhere DEF Homes
    <2>4. ~IsCall(image, a)
      BY <1>2 DEF Liftable, CallsAreWhole, HeadsOf
    <2>5. CallsOK
      BY <1>4, <2>4 DEF CallsOK
    <2> QED
      BY <2>1, <2>2, <2>3, <2>5 DEF FlowInv
  <1>7. a \in DOMAIN image
    BY <1>2 DEF Liftable, HeadsAreWhole, HeadsOf
  <1> QED
    BY <1>5, <1>6, <1>7 DEF Inv, Init, Arm!Init

\* What every step keeps and where it takes the machine.
LEMMA StepFollows ==
  ASSUME Inv, [Next]_vars, \A i \in Images : Liftable(i)
  PROVE  Inv' /\ [Arm!Next]_(Arm!vars)
  <1>1. FlowInv /\ rm \in Values /\ Liftable(image)
    BY DEF Inv, FlowInv, TypeInv
  <1>2. CASE UNCHANGED vars
    <2>1. Pc' = Pc
      BY <1>2 DEF vars, Pc
    <2>2. FlowInv'
      <3>1. (TypeInv /\ PlacesOK /\ LrOK /\ CallsOK)'
        BY <1>1, <1>2 DEF vars, FlowInv, TypeInv, PlacesOK, LrOK, CallsOK, InCode, InShim
      <3>2. Homes(frames')
        BY <1>1, <1>2 DEF vars, FlowInv
      <3> QED
        BY <3>1, <3>2 DEF FlowInv
    <2> QED
      BY <1>1, <1>2, <2>1, <2>2 DEF vars, Inv, Arm!vars
  <1>3. CASE Next
    <2>1. Follows
      BY <1>1, <1>3, SkipFollows, ComputeFollows, BranchFollows, BranchLinkFollows,
         MoveLrFollows, BranchExchangeFollows, ReturnByLrFollows, LoadPcFollows,
         TableJumpFollows, PushLrFollows, PopPcFollows, LeaveFollows,
         ShimReturnsFollows DEF Next
    <2>2. rm' \in Values
      BY <1>1, <1>3 DEF Next, guest, Skip, Compute, Branch, BranchLink, MoveLr,
         BranchExchange, ReturnByLr, LoadPc, TableJump, PushLr, PopPc, Leave,
         ShimReturns
    <2> QED
      BY <2>1, <2>2, Zenon DEF Follows, Inv
  <1> QED
    BY <1>2, <1>3

\* Whatever the images, the functions found in them, and the number of
\* activations: each C function returns to where the ARM goes on, lr is what an
\* instruction left there, and no bx of an indirect call is reached otherwise
\* than from the mov lr, pc before it.
THEOREM ActivationsGoHome ==
  ASSUME \A i \in Images : Liftable(i) PROVE Spec => []Inv
  <1>1. Init => Inv
    BY InitFollows
  <1>2. Inv /\ [Next]_vars => Inv'
    BY StepFollows
  <1> QED
    BY <1>1, <1>2, PTL DEF Spec

\* The emitted functions follow the ARM's program counter, its lr and its stack
\* of return addresses, for every image that the lifter can lift.
THEOREM LiftedCodeFollowsTheArm ==
  ASSUME \A i \in Images : Liftable(i) PROVE Spec => ImplementsArm
  <1>1. Init => Inv /\ Arm!Init
    BY InitFollows
  <1>2. Inv /\ [Next]_vars => Inv' /\ [Arm!Next]_(Arm!vars)
    BY StepFollows
  <1> QED
    BY <1>1, <1>2, PTL DEF Spec, ImplementsArm, Arm!Spec

-----------------------------------------------------------------------------
\* Remainders.  Division leaves one.
LEMMA Divided ==
  ASSUME NEW n \in Int, NEW p \in Nat \ {0}
  PROVE  \E q \in Int, r \in 0..(p - 1) : n = p * q + r /\ n % p = r
  <1> DEFINE q == n \div p
             r == n % p
  <1>1. q \in Int /\ r \in 0..(p - 1) /\ n = p * q + r
    BY DEF q, r
  <1>2. n % p = r
    OBVIOUS
  <1> HIDE DEF q, r
  <1> QED
    BY <1>1, <1>2

\* Remainders that are a multiple of p apart are the same.
LEMMA RemainderIsUnique ==
  ASSUME NEW p \in Nat \ {0}, NEW r \in 0..(p - 1), NEW t \in 0..(p - 1),
         NEW d \in Int, r - t = p * d
  PROVE  r = t
  <1>1. CASE d >= 1
    <2>1. p * d >= p
      BY <1>1
    <2> QED
      BY <2>1
  <1>2. CASE d <= -1
    <2>1. p * d <= -p
      BY <1>2
    <2> QED
      BY <2>1
  <1>3. CASE d = 0
    <2>1. p * d = 0
      BY <1>3
    <2> QED
      BY <2>1
  <1> QED
    BY <1>1, <1>2, <1>3

\* Two numbers that are closer to each other than p have different remainders.
LEMMA NearDiffer ==
  ASSUME NEW p \in Nat \ {0}, NEW x \in Int, NEW y \in Int, x < y, y - x < p
  PROVE  x % p # y % p
  <1>1. PICK q \in Int, r \in 0..(p - 1) : x = p * q + r /\ x % p = r
    BY Divided
  <1>2. PICK s \in Int, t \in 0..(p - 1) : y = p * s + t /\ y % p = t
    BY Divided
  <1>3. ASSUME r = t PROVE FALSE
    <2> DEFINE d == s - q
    <2>1. d \in Int /\ y - x = p * d
      BY <1>1, <1>2, <1>3
    <2> HIDE DEF d
    <2>2. CASE d >= 1
      <3>1. p * d >= p
        BY <2>1, <2>2
      <3> QED
        BY <2>1, <3>1
    <2>3. CASE d <= 0
      <3>1. p * d <= 0
        BY <2>1, <2>3
      <3> QED
        BY <2>1, <3>1
    <2> QED
      BY <2>1, <2>2, <2>3
  <1> QED
    BY <1>1, <1>2, <1>3

\* Numbers that differ by a multiple of p have the same remainder.
LEMMA SameRemainder ==
  ASSUME NEW p \in Nat \ {0}, NEW x \in Int, NEW y \in Int, NEW k \in Int, y = x + p * k
  PROVE  y % p = x % p
  <1>1. PICK q \in Int, r \in 0..(p - 1) : x = p * q + r /\ x % p = r
    BY Divided
  <1>2. PICK s \in Int, t \in 0..(p - 1) : y = p * s + t /\ y % p = t
    BY Divided
  <1> DEFINE d == s - q - k
  <1>3. d \in Int /\ r - t = p * d
    <2>1. p * d = p * s - p * q - p * k
      OBVIOUS
    <2> QED
      BY <1>1, <1>2, <2>1
  <1> HIDE DEF d
  <1>4. r = t
    BY <1>3, RemainderIsUnique
  <1> QED
    BY <1>1, <1>2, <1>4

\* A sum has the remainder that it has when one term is replaced by its own.
LEMMA RemainderOfSum ==
  ASSUME NEW p \in Nat \ {0}, NEW x \in Int, NEW y \in Int
  PROVE  (x + (y % p)) % p = (x + y) % p /\ (x - (y % p)) % p = (x - y) % p
  <1>1. PICK q \in Int, r \in 0..(p - 1) : y = p * q + r /\ y % p = r
    BY Divided
  <1>2. (x + y) % p = (x + r) % p
    <2>1. x + y = (x + r) + p * q /\ x + y \in Int /\ x + r \in Int
      BY <1>1
    <2> QED
      BY <2>1, SameRemainder
  <1>3. (x - y) % p = (x - r) % p
    <2>1. x - y = (x - r) + p * (-q) /\ x - y \in Int /\ x - r \in Int /\ -q \in Int
      BY <1>1
    <2> QED
      BY <2>1, SameRemainder
  <1> QED
    BY <1>1, <1>2, <1>3

\* What is below p is its own remainder.
LEMMA OwnRemainder ==
  ASSUME NEW p \in Nat \ {0}, NEW x \in 0..(p - 1)
  PROVE  x % p = x
  <1>1. PICK q \in Int, r \in 0..(p - 1) : x = p * q + r /\ x % p = r
    BY Divided
  <1>2. x - r = p * q
    BY <1>1
  <1>3. x = r
    BY <1>2, RemainderIsUnique
  <1> QED
    BY <1>1, <1>3

-----------------------------------------------------------------------------
\* A word has Base^4 values, and every remainder by it is a word.
LEMMA WordFacts ==
  /\ Word \in Nat \ {0} /\ Base \in Nat \ {0, 1}
  /\ \A k \in 0..3 : Base^k \in Nat \ {0}
  /\ \A n \in Int : n % Word \in Words
  <1>1. Base \in Nat \ {0, 1}
    BY MemoryAssumption
  <1>2. \A x, y \in Nat \ {0} : x * y \in Nat \ {0}
    OBVIOUS
  <1>3. Base^0 \in Nat \ {0} /\ Base^1 \in Nat \ {0}
    BY <1>1, MemoryAssumption
  <1>4. Base^2 \in Nat \ {0}
    BY <1>1, <1>2, MemoryAssumption
  <1>5. Base^3 \in Nat \ {0}
    BY <1>1, <1>2, <1>4, MemoryAssumption
  <1>6. Word \in Nat \ {0}
    BY <1>1, <1>2, <1>5, MemoryAssumption
  <1>7. ASSUME NEW k \in 0..3 PROVE Base^k \in Nat \ {0}
    <2>1. k = 0 \/ k = 1 \/ k = 2 \/ k = 3
      OBVIOUS
    <2> QED
      BY <1>3, <1>4, <1>5, <2>1
  <1>8. ASSUME NEW n \in Int PROVE n % Word \in Words
    <2> HIDE DEF Word
    <2> QED
      BY <1>6 DEF Words
  <1> QED
    BY <1>1, <1>6, <1>7, <1>8

\* Two digits make a number below the product of their bases.
LEMMA TwoDigits ==
  ASSUME NEW p \in Nat \ {0}, NEW q \in Nat \ {0}, NEW x \in 0..(p - 1), NEW y \in 0..(q - 1)
  PROVE  x + y * p \in 0..(p * q - 1)
  <1>1. y * p \in Nat /\ p * q \in Nat
    OBVIOUS
  <1> DEFINE d == q - y
  <1>2. d * p >= p
    <2>1. d \in Nat /\ d >= 1
      OBVIOUS
    <2> HIDE DEF d
    <2> QED
      BY <2>1
  <1>3. (q - y) * p = p * q - y * p
    OBVIOUS
  <1> QED
    BY <1>1, <1>2, <1>3

\* The values of one, two and four bytes, in words.
LEMMA SizeFacts ==
  /\ Base^1 = Base /\ Base^2 = Base * Base /\ Base^4 = Word
  /\ Base <= Base^2 /\ Base^2 <= Base^3 /\ Base^3 <= Word /\ 4 <= Word
  <1>1. Base^1 = Base /\ Base^2 = Base * Base /\ Base^4 = Word
    BY MemoryAssumption DEF Word
  <1>2. ASSUME NEW x \in Nat \ {0}, NEW y \in Nat, y >= 2 PROVE x <= x * y /\ 2 * x <= x * y
    <2> DEFINE d == y - 2
    <2>1. d \in Nat /\ x * y = 2 * x + x * d
      BY <1>2
    <2> HIDE DEF d
    <2>2. x * d \in Nat
      BY <2>1
    <2> QED
      BY <2>1, <2>2
  <1>3. Base \in Nat \ {0} /\ Base >= 2
    BY WordFacts
  <1>4. Base^2 \in Nat \ {0} /\ Base^3 \in Nat \ {0}
    BY WordFacts
  <1>5. Base <= Base^2 /\ 4 <= Base^2
    BY <1>1, <1>2, <1>3
  <1>6. Base^2 <= Base^3
    BY <1>2, <1>3, <1>4, MemoryAssumption
  <1>7. Base^3 <= Word
    BY <1>2, <1>3, <1>4, MemoryAssumption
  <1> QED
    BY <1>1, <1>4, <1>5, <1>6, <1>7, WordFacts

\* What memory holds: bytes.
Contents == [Memory -> 0..(Base - 1)]

\* An access inside the memory has all its bytes there.
LEMMA InsideFacts ==
  ASSUME NEW a \in Words, NEW size \in {1, 2, 4}, Inside(a, size)
  PROVE  /\ a \in Memory
         /\ \A k \in 0..(size - 1) : (a + k) % Word \in Memory
  <1>1. \A k \in 0..(size - 1) : (a + k) % Word \in Memory
    BY DEF Inside, Bytes
  <1>2. a % Word = a
    BY WordFacts, OwnRemainder DEF Words
  <1>3. a + 0 = a /\ 0 \in 0..(size - 1)
    BY WordFacts DEF Words
  <1> QED
    BY <1>1, <1>2, <1>3

\* What is read fits into its size, and a word when its sign is extended.
LEMMA ReadFits ==
  ASSUME NEW m \in Contents, NEW a \in Words, NEW size \in {1, 2, 4}, Inside(a, size)
  PROVE  /\ Read(m, a, size) \in 0..(Base^size - 1)
         /\ Base^size \in Nat \ {0} /\ Base^size <= Word
  <1> DEFINE byte(k) == m[(a + k) % Word]
  <1>1. /\ Base \in Nat \ {0} /\ Base^2 \in Nat \ {0} /\ Base^3 \in Nat \ {0}
        /\ Word \in Nat \ {0}
    BY WordFacts
  <1>2. m[a] \in 0..(Base - 1) /\ \A k \in 0..(size - 1) : byte(k) \in 0..(Base - 1)
    BY InsideFacts DEF Contents
  <1>3. CASE size = 1
    <2>1. Read(m, a, size) = m[a]
      BY <1>3 DEF Read
    <2> QED
      BY <1>1, <1>2, <1>3, <2>1, SizeFacts
  <1>4. CASE size = 2
    <2>1. byte(1) \in 0..(Base - 1)
      BY <1>2, <1>4
    <2>2. Read(m, a, size) = m[a] + byte(1) * Base
      BY <1>4 DEF Read
    <2> HIDE DEF byte
    <2>3. m[a] + byte(1) * Base \in 0..(Base * Base - 1)
      BY <1>1, <1>2, <2>1, TwoDigits
    <2> QED
      BY <1>1, <1>4, <2>2, <2>3, SizeFacts
  <1>5. CASE size = 4
    <2>1. byte(1) \in 0..(Base - 1) /\ byte(2) \in 0..(Base - 1) /\ byte(3) \in 0..(Base - 1)
      BY <1>2, <1>5
    <2>2. Read(m, a, size) = m[a] + byte(1) * Base + byte(2) * Base^2 + byte(3) * Base^3
      BY <1>5 DEF Read
    <2> HIDE DEF byte
    <2> DEFINE two == m[a] + byte(1) * Base
               three == two + byte(2) * Base^2
    <2>3. two \in 0..(Base^2 - 1)
      BY <1>1, <1>2, <2>1, TwoDigits, SizeFacts
    <2>4. three \in 0..(Base^3 - 1)
      <3> HIDE DEF two
      <3>1. three \in 0..(Base^2 * Base - 1)
        BY <1>1, <2>1, <2>3, TwoDigits
      <3> QED
        BY <3>1, MemoryAssumption
    <2>5. three + byte(3) * Base^3 \in 0..(Word - 1)
      <3> HIDE DEF three
      <3>1. three + byte(3) * Base^3 \in 0..(Base^3 * Base - 1)
        BY <1>1, <2>1, <2>4, TwoDigits
      <3> QED
        BY <3>1, MemoryAssumption
    <2> HIDE DEF two
    <2> QED
      BY <1>1, <1>5, <2>2, <2>5, SizeFacts DEF two
  <1> QED
    BY <1>3, <1>4, <1>5

\* What is read is a word, and so it is with its sign extended.
LEMMA SignExtendedIsWord ==
  ASSUME NEW size \in {1, 2, 4}, Base^size \in Nat \ {0}, Base^size <= Word,
         NEW v \in 0..(Base^size - 1)
  PROVE  SignExtended(v, size) \in Words /\ v \in Words
  <1> DEFINE p == Base^size
  <1>1. Word \in Nat \ {0} /\ p \in Nat \ {0} /\ p <= Word /\ v \in 0..(p - 1)
    BY WordFacts
  <1>2. SignExtended(v, size) = IF 2 * v >= p THEN v + Word - p ELSE v
    BY DEF SignExtended
  <1> HIDE DEF p
  <1>3. v \in 0..(Word - 1) /\ (IF 2 * v >= p THEN v + Word - p ELSE v) \in 0..(Word - 1)
    BY <1>1
  <1> QED
    BY <1>2, <1>3 DEF Words

\* The distance of a byte of an access from its address.
LEMMA DistanceInside ==
  ASSUME NEW a \in Words, NEW size \in {1, 2, 4}, NEW x \in Bytes(a, size)
  PROVE  (x - a) % Word \in 0..(size - 1)
  <1>1. Word \in Nat \ {0} /\ a \in Int /\ 4 <= Word
    BY WordFacts, SizeFacts DEF Words
  <1>2. PICK k \in 0..(size - 1) : x = (a + k) % Word
    BY DEF Bytes
  <1> DEFINE c == a + k
             t == x - a
  <1>3. PICK q \in Int, r \in 0..(Word - 1) : c = Word * q + r /\ c % Word = r
    <2>1. c \in Int
      BY <1>1
    <2> HIDE DEF c
    <2> QED
      BY <1>1, <2>1, Divided
  <1>4. x - a \in Int /\ x - a = k + Word * (-q) /\ -q \in Int /\ k \in 0..(Word - 1)
    <2>1. x = r
      BY <1>2, <1>3, Zenon
    <2>2. Word * (-q) = -(Word * q) /\ Word * q \in Int
      BY <1>1
    <2>3. x - a = k - Word * q /\ x \in Int
      BY <1>1, <1>3, <2>1, <2>2
    <2> QED
      BY <1>1, <2>2, <2>3
  <1>5. t % Word = k % Word
    <2> DEFINE h == -q
    <2>1. t \in Int /\ k \in Int /\ h \in Int /\ t = k + Word * h
      BY <1>4
    <2> HIDE DEF t, h
    <2>2. Word \in Nat \ {0}
      BY <1>1
    <2> QED
      BY <2>1, <2>2, SameRemainder
  <1>6. k % Word = k
    BY <1>1, <1>4, OwnRemainder
  <1>7. (x - a) % Word = k
    BY <1>5, <1>6, Zenon
  <1> QED
    BY <1>7

\* A store leaves bytes in memory.
LEMMA WrittenFits ==
  ASSUME NEW m \in Contents, NEW a \in Words, NEW size \in {1, 2, 4}, NEW v \in Words
  PROVE  Written(m, a, size, v) \in Contents
  <1>1. ASSUME NEW x \in Bytes(a, size)
        PROVE  (v \div Base^((x - a) % Word)) % Base \in 0..(Base - 1)
    <2> DEFINE k == (x - a) % Word
    <2>1. k \in 0..3
      BY DistanceInside
    <2> HIDE DEF k
    <2>2. Base^k \in Nat \ {0} /\ Base \in Nat \ {0} /\ v \in Int
      BY <2>1, WordFacts DEF Words
    <2> DEFINE p == Base^k
    <2>3. p \in Nat \ {0}
      BY <2>2
    <2> HIDE DEF p
    <2>4. v \div p \in Int
      BY <2>2, <2>3
    <2>5. (v \div p) % Base \in 0..(Base - 1)
      BY <2>2, <2>4
    <2> QED
      BY <2>5 DEF k, p
  <1> QED
    BY <1>1 DEF Written, Contents

-----------------------------------------------------------------------------
\* The lists of registers that are transferred.
Lists == SUBSET Registers

\* A list of registers has at most as many as the words of the memory hold.
LEMMA ListFacts ==
  ASSUME NEW list \in Lists
  PROVE  /\ IsFiniteSet(list) /\ Cardinality(list) \in Nat
         /\ 4 * Cardinality(list) <= Word
         /\ \A r \in list : r \in 0..15
  <1>1. IsFiniteSet(Registers) /\ Cardinality(Registers) \in Nat
    <2>1. IsFiniteSet(0..15)
      <3>1. 0 \in Int /\ 15 \in Int
        OBVIOUS
      <3> QED
        BY <3>1, FS_Interval, Zenon
    <2>2. Registers \in SUBSET (0..15)
      BY MemoryAssumption
    <2> QED
      BY <2>1, <2>2, FS_Subset, FS_CardinalityType
  <1>2. IsFiniteSet(list) /\ Cardinality(list) <= Cardinality(Registers)
    BY <1>1, FS_Subset DEF Lists
  <1>3. Cardinality(list) \in Nat
    BY <1>2, FS_CardinalityType
  <1>4. Word \in Nat /\ 4 * Cardinality(Registers) <= Word
    BY MemoryAssumption, WordFacts
  <1>5. 4 * Cardinality(list) <= Word
    BY <1>1, <1>2, <1>3, <1>4
  <1>6. \A r \in list : r \in 0..15
    BY MemoryAssumption DEF Lists
  <1> QED
    BY <1>2, <1>3, <1>5, <1>6

\* The places of registers in a list are numbered from 0 in their order.
LEMMA PositionFacts ==
  ASSUME NEW list \in Lists, NEW r \in list
  PROVE  /\ Position(list, r) \in 0..(Cardinality(list) - 1)
         /\ \A q \in list : q < r => Position(list, q) < Position(list, r)
  <1> DEFINE below(x) == {y \in list : y < x}
  <1>1. IsFiniteSet(list) /\ Cardinality(list) \in Nat /\ \A x \in list : x \in Int
    BY ListFacts
  <1>2. \A x : Position(list, x) = Cardinality(below(x)) /\ below(x) \in SUBSET list
    BY DEF Position
  <1>3. ASSUME NEW x PROVE Position(list, x) \in Nat
    <2>1. IsFiniteSet(below(x))
      BY <1>1, FS_Subset
    <2>2. Cardinality(below(x)) \in Nat
      BY <2>1, FS_CardinalityType, Zenon
    <2> QED
      BY <1>2, <2>2, Zenon
  <1>4. below(r) \in SUBSET (list \ {r})
    BY <1>1
  <1>5. Position(list, r) <= Cardinality(list) - 1
    <2>1. IsFiniteSet(list \ {r}) /\ Cardinality(list \ {r}) = Cardinality(list) - 1
      BY <1>1, FS_RemoveElement
    <2>2. Cardinality(below(r)) <= Cardinality(list \ {r})
      <3> HIDE DEF below
      <3> QED
        BY <1>4, <2>1, FS_Subset
    <2> QED
      BY <1>2, <2>1, <2>2, Zenon
  <1>6. ASSUME NEW q \in list, q < r PROVE Position(list, q) < Position(list, r)
    <2>1. q \in below(r) /\ below(q) \in SUBSET (below(r) \ {q})
      BY <1>1, <1>6
    <2>2. IsFiniteSet(below(r))
      BY <1>1, FS_Subset
    <2> HIDE DEF below
    <2>3. /\ IsFiniteSet(below(r) \ {q})
          /\ Cardinality(below(r) \ {q}) = Cardinality(below(r)) - 1
      BY <2>1, <2>2, FS_RemoveElement
    <2>4. Cardinality(below(q)) <= Cardinality(below(r) \ {q})
      BY <2>1, <2>3, FS_Subset
    <2>5. /\ Position(list, q) = Cardinality(below(q))
          /\ Position(list, r) = Cardinality(below(r))
      BY <1>2, Zenon
    <2> QED
      BY <1>3, <2>3, <2>4, <2>5
  <1> QED
    BY <1>1, <1>3, <1>5, <1>6

\* Words one after the other, from a on, in the order of their registers.
Ascending(list, at, a) == \A r \in list : at[r] = (a + 4 * Position(list, r)) % Word

\* Their bytes do not overlap, however the addresses wrap around.
LEMMA WordsApart ==
  ASSUME NEW list \in Lists, NEW at, NEW a \in Int, Ascending(list, at, a),
         NEW q \in list, NEW r \in list, q # r
  PROVE  Bytes(at[q], 4) \cap Bytes(at[r], 4) = {}
  <1>1. Word \in Nat \ {0}
    BY WordFacts
  <1>2. SUFFICES ASSUME NEW q1 \in list, NEW r1 \in list, q1 < r1
                 PROVE  Bytes(at[q1], 4) \cap Bytes(at[r1], 4) = {}
    <2>1. q \in Int /\ r \in Int /\ (q < r \/ r < q)
      BY ListFacts
    <2> QED
      BY <2>1, <1>2
  <1> DEFINE i == Position(list, q1)
             j == Position(list, r1)
             n == Cardinality(list)
  <1>3. i \in Nat /\ j \in Nat /\ i < j /\ n \in Nat /\ j <= n - 1 /\ 4 * n <= Word
    BY <1>2, ListFacts, PositionFacts
  <1>4. at[q1] = (a + 4 * i) % Word /\ at[r1] = (a + 4 * j) % Word
    BY DEF Ascending
  <1> HIDE DEF i, j, n
  <1>5. ASSUME NEW x, NEW y \in Int
        PROVE  x \in Bytes(y % Word, 4) <=> \E k \in 0..3 : x = (y + k) % Word
    <2>1. ASSUME NEW k \in 0..3 PROVE ((y % Word) + k) % Word = (y + k) % Word
      <3>1. PICK h \in Int, rest \in 0..(Word - 1) : y = Word * h + rest /\ y % Word = rest
        BY <1>1, <1>5, Divided
      <3>2. y + k \in Int /\ rest + k \in Int /\ y + k = (rest + k) + Word * h
        BY <1>1, <1>5, <3>1
      <3>3. (y + k) % Word = (rest + k) % Word
        BY <1>1, <3>2, SameRemainder
      <3> QED
        BY <3>1, <3>3, Zenon
    <2>2. 4 - 1 = 3
      OBVIOUS
    <2> QED
      BY <2>1, <2>2, Zenon DEF Bytes
  <1>6. ASSUME NEW x \in Bytes(at[q1], 4), x \in Bytes(at[r1], 4) PROVE FALSE
    <2>1. a + 4 * i \in Int /\ a + 4 * j \in Int
      BY <1>3
    <2>2. PICK k \in 0..3 : x = ((a + 4 * i) + k) % Word
      BY <1>4, <1>5, <1>6, <2>1
    <2>3. PICK l \in 0..3 : x = ((a + 4 * j) + l) % Word
      BY <1>4, <1>5, <1>6, <2>1
    <2> DEFINE u == (a + 4 * i) + k
               v == (a + 4 * j) + l
    <2>4. u \in Int /\ v \in Int /\ u < v /\ v - u < Word
      BY <1>1, <1>3
    <2>5. u % Word = v % Word
      BY <2>2, <2>3, Zenon
    <2> HIDE DEF u, v
    <2> QED
      BY <1>1, <2>4, <2>5, NearDiffer
  <1> QED
    BY <1>6

-----------------------------------------------------------------------------
\* Memory with a word at the address of every register of a list.
Overlaid(list, at, r) ==
  [x \in Memory |-> IF \E q \in list : x \in Bytes(at[q], 4)
                    THEN LET q == CHOOSE q \in list : x \in Bytes(at[q], 4)
                         IN Written(mem, at[q], 4, r[q])[x]
                    ELSE mem[x]]

Apart(list, at) == \A q, r \in list : q # r => Bytes(at[q], 4) \cap Bytes(at[r], 4) = {}

\* Words that do not overlap are found in memory after they were stored in
\* turn.
LEMMA StoredOverlays ==
  ASSUME NEW list \in Lists, NEW at, NEW r, mem \in Contents, Apart(list, at)
  PROVE  Stored(list, at, r) = Overlaid(list, at, r)
  <1> DEFINE hit(x, n) == \E q \in list : q < n /\ x \in Bytes(at[q], 4)
             owner(x) == CHOOSE q \in list : x \in Bytes(at[q], 4)
             byte(x) == Written(mem, at[owner(x)], 4, r[owner(x)])[x]
             Half(n) == [x \in Memory |-> IF hit(x, n) THEN byte(x) ELSE mem[x]]
             Follow(m, n) == IF n - 1 \in list THEN Written(m, at[n - 1], 4, r[n - 1]) ELSE m
             OneByOne(g) == g = [n \in 0..16 |-> IF n = 0 THEN mem
                                                ELSE IF n - 1 \in list
                                                THEN Written(g[n - 1], at[n - 1], 4, r[n - 1])
                                                ELSE g[n - 1]]
             after == CHOOSE g : OneByOne(g)
  <1>1. Stored(list, at, r) = after[16]
    BY DEF Stored
  <1>2. \A q \in list : q \in 0..15
    BY ListFacts
  <1>3. Half(0) = mem
    <2>1. \A x : ~hit(x, 0)
      BY <1>2
    <2> HIDE DEF hit, byte
    <2> QED
      BY <2>1 DEF Contents
  <1>4. ASSUME NEW n \in 1..16 PROVE Half(n) = Follow(Half(n - 1), n)
    <2>1. CASE n - 1 \notin list
      <3>1. \A x : hit(x, n) <=> hit(x, n - 1)
        BY <1>2, <2>1
      <3> HIDE DEF hit, byte
      <3> QED
        BY <2>1, <3>1
    <2>2. CASE n - 1 \in list
      <3> DEFINE q == n - 1
                 there == Bytes(at[q], 4)
      <3>1. \A x : hit(x, n) <=> hit(x, q) \/ x \in there
        BY <1>2, <2>2
      <3>2. ASSUME NEW x \in there PROVE owner(x) = q
        <4>1. q \in list
          BY <2>2
        <4> HIDE DEF q
        <4> QED
          BY <3>2, <4>1 DEF Apart
      <3>3. ASSUME NEW x \in Memory
            PROVE  Half(n)[x] = Written(Half(q), at[q], 4, r[q])[x]
        <4>1. Half(n)[x] = IF hit(x, n) THEN byte(x) ELSE mem[x]
          OBVIOUS
        <4>2. Half(q)[x] = IF hit(x, q) THEN byte(x) ELSE mem[x]
          OBVIOUS
        <4> HIDE DEF Half, hit
        <4>3. CASE x \in there
          <5>1. byte(x) = Written(mem, at[q], 4, r[q])[x]
            BY <3>2, <4>3
          <5> HIDE DEF byte, q
          <5>2. Written(mem, at[q], 4, r[q])[x] = Written(Half(q), at[q], 4, r[q])[x]
            BY <4>3 DEF Written
          <5>3. hit(x, n)
            BY <3>1, <4>3
          <5> QED
            BY <4>1, <5>1, <5>2, <5>3
        <4>4. CASE x \notin there
          <5> HIDE DEF byte, q
          <5>1. Written(Half(q), at[q], 4, r[q])[x] = Half(q)[x]
            BY <4>4 DEF Written
          <5> QED
            BY <3>1, <4>1, <4>2, <4>4, <5>1
        <4> QED
          BY <4>3, <4>4
      <3>4. Half(n) = [x \in Memory |-> Half(n)[x]]
        OBVIOUS
      <3>5. Written(Half(q), at[q], 4, r[q])
              = [x \in Memory |-> Written(Half(q), at[q], 4, r[q])[x]]
        <4> HIDE DEF Half
        <4> QED
          BY DEF Written
      <3>6. Half(n) = Written(Half(q), at[q], 4, r[q])
        <4> HIDE DEF Half, q
        <4> QED
          BY <3>3, <3>4, <3>5, Zenon
      <3> HIDE DEF Half
      <3> QED
        BY <2>2, <3>6
    <2> QED
      BY <2>1, <2>2
  <1> HIDE DEF Half
  <1>5. OneByOne([n \in 0..16 |-> Half(n)])
    <2> DEFINE g == [n \in 0..16 |-> Half(n)]
    <2>1. ASSUME NEW n \in 0..16
          PROVE  Half(n) = IF n = 0 THEN mem
                           ELSE IF n - 1 \in list THEN Written(g[n - 1], at[n - 1], 4, r[n - 1])
                           ELSE g[n - 1]
      <3>1. CASE n = 0
        BY <1>3, <3>1
      <3>2. CASE n # 0
        <4>1. n \in 1..16 /\ n - 1 \in 0..16
          BY <3>2
        <4>2. g[n - 1] = Half(n - 1)
          BY <4>1
        <4> HIDE DEF g
        <4> QED
          BY <1>4, <3>2, <4>1, <4>2
      <3> QED
        BY <3>1, <3>2
    <2> QED
      BY <2>1
  <1>6. OneByOne(after)
    <2> HIDE DEF OneByOne
    <2> QED
      BY <1>5
  <1> HIDE DEF after
  <1>7. ASSUME NEW n \in 0..16 PROVE after[n] = Half(n)
    <2> DEFINE Wrong == {m \in 0..16 : after[m] # Half(m)}
    <2>1. SUFFICES ASSUME Wrong # {} PROVE FALSE
      OBVIOUS
    <2>2. Wrong \in SUBSET Nat
      OBVIOUS
    <2>3. PICK m \in Wrong : \A k \in Wrong : m <= k
      <3> HIDE DEF Wrong
      <3> QED
        BY <2>1, <2>2, Least
    <2>4. m \in 0..16 /\ after[m] # Half(m)
      OBVIOUS
    <2>5. after[m] = IF m = 0 THEN mem
                     ELSE IF m - 1 \in list THEN Written(after[m - 1], at[m - 1], 4, r[m - 1])
                     ELSE after[m - 1]
      BY <1>6, <2>4
    <2>6. CASE m = 0
      BY <1>3, <2>4, <2>5, <2>6
    <2>7. CASE m # 0
      <3>1. m \in 1..16 /\ m - 1 \in 0..16
        BY <2>4, <2>7
      <3>2. m - 1 \notin Wrong
        BY <2>3, <3>1
      <3>3. after[m - 1] = Half(m - 1)
        BY <3>1, <3>2
      <3> HIDE DEF Wrong
      <3> QED
        BY <1>4, <2>4, <2>5, <2>7, <3>1, <3>3
    <2> QED
      BY <2>6, <2>7
  <1>8. Half(16) = Overlaid(list, at, r)
    <2>1. \A x : hit(x, 16) <=> \E q \in list : x \in Bytes(at[q], 4)
      BY <1>2
    <2>2. ASSUME NEW x \in Memory
          PROVE  (IF hit(x, 16) THEN byte(x) ELSE mem[x]) = Overlaid(list, at, r)[x]
      <3> HIDE DEF hit
      <3> QED
        BY <2>1 DEF Overlaid
    <2>3. Overlaid(list, at, r) = [x \in Memory |-> Overlaid(list, at, r)[x]]
      BY DEF Overlaid
    <2> HIDE DEF hit, byte
    <2> QED
      BY <2>2, <2>3 DEF Half
  <1> QED
    BY <1>1, <1>7, <1>8

\* The registers with a word from memory in every one of a list.
Fetched(list, at) == [q \in Registers |-> IF q \in list THEN Read(mem, at[q], 4) ELSE reg[q]]

\* The loads of a pop find sp where it was.
LEMMA PoppedFetches ==
  ASSUME NEW list \in Lists, Sp \notin list, reg \in [Registers -> Words],
         NEW at, Ascending(list, at, reg[Sp])
  PROVE  Popped(list) = Fetched(list, at)
  <1> DEFINE Half(n) == [q \in Registers |-> IF q \in list /\ q < n THEN Read(mem, at[q], 4)
                                             ELSE reg[q]]
             Follow(h, n) ==
               IF n - 1 \in list
               THEN [h EXCEPT ![n - 1] = Read(mem, (h[Sp] + 4 * Position(list, n - 1)) % Word, 4)]
               ELSE h
             OneByOne(g) ==
               g = [n \in 0..16 |->
                      IF n = 0 THEN reg
                      ELSE IF n - 1 \in list
                           THEN [g[n - 1] EXCEPT
                                   ![n - 1] = Read(mem, (g[n - 1][Sp] + 4 * Position(list, n - 1))
                                                          % Word, 4)]
                      ELSE g[n - 1]]
             after == CHOOSE g : OneByOne(g)
  <1>1. Popped(list) = after[16]
    BY DEF Popped
  <1>2. (\A q \in list : q \in 0..15 /\ q \in Registers) /\ \A q \in Registers : q \in 0..15
    BY ListFacts, MemoryAssumption DEF Lists
  <1>3. Half(0) = reg
    <2>1. \A q \in list : ~(q < 0)
      BY <1>2
    <2> QED
      BY <2>1
  <1>4. ASSUME NEW n \in 1..16 PROVE Half(n) = Follow(Half(n - 1), n)
    <2> DEFINE k == n - 1
    <2>1. \A q \in Registers : q < n <=> q < k \/ q = k
      BY <1>2
    <2>2. ~(k < k)
      OBVIOUS
    <2>3. CASE k \notin list
      <3> HIDE DEF k
      <3>1. \A q \in Registers : q \in list /\ q < n <=> q \in list /\ q < k
        BY <2>1, <2>3
      <3>2. Half(n) = Half(k)
        BY <3>1
      <3> HIDE DEF Half
      <3> QED
        BY <2>3, <3>2 DEF k
    <2>4. CASE k \in list
      <3>1. Half(k)[Sp] = reg[Sp]
        BY MemoryAssumption
      <3>2. at[k] = (Half(k)[Sp] + 4 * Position(list, k)) % Word
        <4> HIDE DEF Half, k
        <4> QED
          BY <2>4, <3>1 DEF Ascending
      <3>3. Half(n) = [Half(k) EXCEPT ![k] = Read(mem, at[k], 4)]
        <4> HIDE DEF k
        <4>1. k \in Registers
          BY <1>2, <2>4
        <4>2. ASSUME NEW q \in Registers
              PROVE  Half(n)[q] = [Half(k) EXCEPT ![k] = Read(mem, at[k], 4)][q]
          BY <2>1, <2>2, <2>4, <4>1
        <4>3. /\ Half(n) = [q \in Registers |-> Half(n)[q]]
              /\ [Half(k) EXCEPT ![k] = Read(mem, at[k], 4)]
                   = [q \in Registers |-> [Half(k) EXCEPT ![k] = Read(mem, at[k], 4)][q]]
          OBVIOUS
        <4> HIDE DEF Half
        <4> QED
          BY <4>2, <4>3
      <3> HIDE DEF Half
      <3> QED
        BY <2>4, <3>2, <3>3
    <2> QED
      BY <2>3, <2>4
  <1> HIDE DEF Half
  <1>5. OneByOne([n \in 0..16 |-> Half(n)])
    <2> DEFINE g == [n \in 0..16 |-> Half(n)]
    <2>1. ASSUME NEW n \in 0..16
          PROVE  Half(n) =
                   IF n = 0 THEN reg
                   ELSE IF n - 1 \in list
                        THEN [g[n - 1] EXCEPT
                                ![n - 1] = Read(mem, (g[n - 1][Sp] + 4 * Position(list, n - 1))
                                                       % Word, 4)]
                   ELSE g[n - 1]
      <3>1. CASE n = 0
        BY <1>3, <3>1
      <3>2. CASE n # 0
        <4>1. n \in 1..16 /\ n - 1 \in 0..16
          BY <3>2
        <4>2. g[n - 1] = Half(n - 1)
          BY <4>1
        <4> HIDE DEF g
        <4> QED
          BY <1>4, <3>2, <4>1, <4>2
      <3> QED
        BY <3>1, <3>2
    <2> QED
      BY <2>1
  <1>6. OneByOne(after)
    <2> HIDE DEF OneByOne
    <2> QED
      BY <1>5
  <1> HIDE DEF after
  <1>7. ASSUME NEW n \in 0..16 PROVE after[n] = Half(n)
    <2> DEFINE Wrong == {m \in 0..16 : after[m] # Half(m)}
    <2>1. SUFFICES ASSUME Wrong # {} PROVE FALSE
      OBVIOUS
    <2>2. Wrong \in SUBSET Nat
      OBVIOUS
    <2>3. PICK m \in Wrong : \A k \in Wrong : m <= k
      <3> HIDE DEF Wrong
      <3> QED
        BY <2>1, <2>2, Least
    <2>4. m \in 0..16 /\ after[m] # Half(m)
      OBVIOUS
    <2>5. after[m] =
            IF m = 0 THEN reg
            ELSE IF m - 1 \in list
                 THEN [after[m - 1] EXCEPT
                         ![m - 1] = Read(mem, (after[m - 1][Sp] + 4 * Position(list, m - 1))
                                                % Word, 4)]
            ELSE after[m - 1]
      BY <1>6, <2>4
    <2>6. CASE m = 0
      BY <1>3, <2>4, <2>5, <2>6
    <2>7. CASE m # 0
      <3>1. m \in 1..16 /\ m - 1 \in 0..16
        BY <2>4, <2>7
      <3>2. m - 1 \notin Wrong
        BY <2>3, <3>1
      <3>3. after[m - 1] = Half(m - 1)
        BY <3>1, <3>2
      <3> HIDE DEF Wrong
      <3> QED
        BY <1>4, <2>4, <2>5, <2>7, <3>1, <3>3
    <2> QED
      BY <2>6, <2>7
  <1>8. Half(16) = Fetched(list, at)
    BY <1>2 DEF Half, Fetched
  <1> QED
    BY <1>1, <1>7, <1>8

-----------------------------------------------------------------------------
\* Registers hold words, and memory bytes.
HoldsWords == reg \in [Registers -> Words] /\ mem \in Contents

\* The ARM's memory is the same.
LEMMA ArmMemory ==
  /\ A!Word = Word
  /\ \A a, n : A!Bytes(a, n) = Bytes(a, n)
  /\ \A a, n : A!Inside(a, n) <=> Inside(a, n)
  /\ \A m, a, n : A!Read(m, a, n) = Read(m, a, n)
  /\ \A m, a, n, v : A!Written(m, a, n, v) = Written(m, a, n, v)
  /\ \A v, n : A!SignExtended(v, n) = SignExtended(v, n)
  /\ \A list, r : A!Position(list, r) = Position(list, r)
  /\ \A list : A!Cardinality(list) = Cardinality(list)
  <1>1. A!Word = Word
    BY DEF A!Word, Word
  <1>2. \A a, n : A!Bytes(a, n) = Bytes(a, n)
    BY <1>1, Zenon DEF A!Bytes, Bytes
  <1>3. \A a, n : A!Inside(a, n) <=> Inside(a, n)
    BY <1>2, Zenon DEF A!Inside, Inside
  <1>4. \A m, a, n : A!Read(m, a, n) = Read(m, a, n)
    BY <1>1, Zenon DEF A!Read, Read
  <1>5. ASSUME NEW m, NEW a, NEW n, NEW v PROVE A!Written(m, a, n, v) = Written(m, a, n, v)
    <2> DEFINE there == Bytes(a, n)
    <2>1. A!Bytes(a, n) = there
      BY <1>2
    <2> HIDE DEF there
    <2> DEFINE byte(x) == (v \div Base^((x - a) % Word)) % Base
               armByte(x) == (v \div Base^((x - a) % A!Word)) % Base
    <2>2. Written(m, a, n, v) = [x \in Memory |-> IF x \in there THEN byte(x) ELSE m[x]]
      BY DEF Written, there
    <2>3. A!Written(m, a, n, v) = [x \in Memory |-> IF x \in there THEN armByte(x) ELSE m[x]]
      BY <2>1 DEF A!Written
    <2>4. \A x : armByte(x) = byte(x)
      BY <1>1, Zenon
    <2> HIDE DEF byte, armByte
    <2> QED
      BY <2>2, <2>3, <2>4
  <1>6. \A v, n : A!SignExtended(v, n) = SignExtended(v, n)
    BY <1>1, Zenon DEF A!SignExtended, SignExtended
  <1>7. \A list, r : A!Position(list, r) = Position(list, r)
    BY Zenon DEF A!Position, Position, A!Cardinality, Cardinality
  <1>8. \A list : A!Cardinality(list) = Cardinality(list)
    BY Zenon DEF A!Cardinality, Cardinality
  <1> QED
    BY <1>1, <1>2, <1>3, <1>4, <1>5, <1>6, <1>7, <1>8

\* The kind of an instruction tells what fields it has.
LEMMA KindFacts ==
  ASSUME NEW i \in Program
  PROVE  /\ i.kind = "single" => i \in Single
         /\ i.kind = "block" => i \in Block
         /\ i.kind = "push" => i.list \in Lists
         /\ i.kind = "pop" => i.list \in Lists /\ Sp \notin i.list
         /\ i.kind \in {"single", "block", "push", "pop"}
  <1>1. i \in Single \/ i \in Block \/ i \in Stack
    BY TransfersAssumption
  <1>2. CASE i \in Single
    BY <1>2 DEF Single
  <1>3. CASE i \in Block
    BY <1>3 DEF Block
  <1>4. CASE i \in Stack
    BY <1>4 DEF Stack, Lists
  <1> QED
    BY <1>1, <1>2, <1>3, <1>4

\* The fields of a load or store of one word.
LEMMA SingleFacts ==
  ASSUME NEW i \in Single
  PROVE  /\ i.load \in BOOLEAN /\ i.size \in {1, 2, 4} /\ i.signed \in BOOLEAN
         /\ i.d \in Registers /\ i.b \in Registers /\ i.up \in BOOLEAN
         /\ i.index \in {"pre", "wb", "post"}
         /\ i.off.kind = "imm" => i.off.val \in Words
         /\ i.off.kind # "imm" => i.off.kind = "reg" /\ i.off.m \in Registers /\ i.off.k \in Nat
  <1>1. i.off \in Offset
    BY DEF Single
  <1>2. /\ i.off.kind = "imm" => i.off.val \in Words
        /\ i.off.kind # "imm" => i.off.kind = "reg" /\ i.off.m \in Registers /\ i.off.k \in Nat
    BY <1>1 DEF Offset
  <1> QED
    BY <1>2 DEF Single

\* The base and the offset make the address that the ARM computes; after the
\* access, where the shift of the index is not looked at, if there is none.
LEMMA DisplacedFacts ==
  ASSUME NEW i \in Program, i.kind = "single", NEW r \in [Registers -> Words]
  PROVE  /\ Displaced(r, i) \in Words
         /\ (/\ r[i.b] = reg[i.b]
             /\ i.off.kind # "imm" => r[i.off.m] = reg[i.off.m]
             /\ i.index = "post" /\ i.off.kind = "reg" => i.off.k = 0)
              => Displaced(r, i) = (reg[i.b] + A!Signed(i.up, A!OffsetOf(i.off))) % Word
  <1> DEFINE b == r[i.b]
             off == IF i.off.kind = "imm" THEN i.off.val
                    ELSE IF i.index = "post" THEN r[i.off.m]
                    ELSE (r[i.off.m] * 2^i.off.k) % Word
             whole == IF i.off.kind = "imm" THEN i.off.val ELSE r[i.off.m] * 2^i.off.k
  <1>1. i \in Single
    BY KindFacts
  <1>2. Word \in Nat \ {0} /\ \A x \in Words : x \in Int
    BY WordFacts DEF Words
  <1>3. b \in Int
    BY <1>1, <1>2, SingleFacts
  <1>4. Displaced(r, i) = (IF i.up THEN b + off ELSE b - off) % Word
    BY DEF Displaced
  <1>5. off \in Int /\ whole \in Int
    <2>1. CASE i.off.kind = "imm"
      BY <1>1, <1>2, <2>1, SingleFacts
    <2>2. CASE i.off.kind # "imm"
      <3>1. i.off.kind = "reg" /\ r[i.off.m] \in Int
        BY <1>1, <1>2, <2>2, SingleFacts
      <3>2. 2^i.off.k \in Nat
        BY <1>1, <3>1, TransfersAssumption
      <3> DEFINE p == 2^i.off.k
                 x == r[i.off.m]
      <3>3. p \in Nat /\ x \in Int
        BY <3>1, <3>2
      <3> HIDE DEF p, x
      <3>4. x * p \in Int
        BY <3>3
      <3>5. (x * p) % Word \in Int
        BY <1>2, <3>4
      <3>6. whole = x * p /\ (off = x \/ off = (x * p) % Word)
        BY <2>2 DEF p, x
      <3> HIDE DEF off, whole
      <3> QED
        BY <3>3, <3>4, <3>5, <3>6
    <2> QED
      BY <2>1, <2>2
  <1>6. off = whole \/ off = whole % Word
           \/ (i.index = "post" /\ i.off.kind = "reg" /\ i.off.k # 0)
    <2>1. CASE i.off.kind = "imm"
      BY <2>1
    <2>2. CASE i.off.kind # "imm" /\ i.index # "post"
      BY <2>2
    <2>3. CASE i.off.kind # "imm" /\ i.index = "post"
      <3>1. i.off.kind = "reg" /\ r[i.off.m] \in Int
        BY <1>1, <1>2, <2>3, SingleFacts
      <3>2. CASE i.off.k = 0
        <4>1. 2^i.off.k = 1
          BY <3>2, TransfersAssumption
        <4>2. whole = r[i.off.m] * 1
          BY <2>3, <4>1
        <4>3. off = r[i.off.m]
          BY <2>3
        <4> QED
          BY <3>1, <4>2, <4>3
      <3> QED
        BY <2>3, <3>1, <3>2
    <2> QED
      BY <2>1, <2>2, <2>3
  <1> DEFINE found == IF i.up THEN b + off ELSE b - off
             meant == IF i.up THEN b + whole ELSE b - whole
  <1>7. ASSUME off = whole \/ off = whole % Word
        PROVE  found % Word = meant % Word
    <2>1. CASE off = whole
      <3> HIDE DEF b, off, whole
      <3> QED
        BY <2>1
    <2>2. CASE off = whole % Word
      <3> HIDE DEF b, off, whole
      <3>1. /\ (b + (whole % Word)) % Word = (b + whole) % Word
            /\ (b - (whole % Word)) % Word = (b - whole) % Word
        BY <1>2, <1>3, <1>5, RemainderOfSum
      <3>2. \/ found = b + (whole % Word) /\ meant = b + whole
            \/ found = b - (whole % Word) /\ meant = b - whole
        BY <2>2
      <3> HIDE DEF found, meant
      <3> QED
        <4>1. CASE found = b + (whole % Word) /\ meant = b + whole
          <5>1. found % Word = (b + (whole % Word)) % Word
            BY <4>1, Zenon
          <5>2. meant % Word = (b + whole) % Word
            BY <4>1, Zenon
          <5> QED
            BY <3>1, <5>1, <5>2, Zenon
        <4>2. CASE found = b - (whole % Word) /\ meant = b - whole
          <5>1. found % Word = (b - (whole % Word)) % Word
            BY <4>2, Zenon
          <5>2. meant % Word = (b - whole) % Word
            BY <4>2, Zenon
          <5> QED
            BY <3>1, <5>1, <5>2, Zenon
        <4> QED
          BY <3>2, <4>1, <4>2, Zenon
    <2> HIDE DEF found, meant, off, whole
    <2> QED
      BY <1>7, <2>1, <2>2
  <1>8. Displaced(r, i) \in Words
    <2> HIDE DEF b, off
    <2>1. (IF i.up THEN b + off ELSE b - off) \in Int
      BY <1>3, <1>5
    <2> QED
      BY <1>4, <2>1, WordFacts
  <1>9. ASSUME r[i.b] = reg[i.b], i.off.kind # "imm" => r[i.off.m] = reg[i.off.m],
               i.index = "post" /\ i.off.kind = "reg" => i.off.k = 0
        PROVE  Displaced(r, i) = (reg[i.b] + A!Signed(i.up, A!OffsetOf(i.off))) % Word
    <2>1. A!OffsetOf(i.off) = whole
      BY <1>9 DEF A!OffsetOf
    <2>2. (IF i.up THEN b + whole ELSE b - whole) = b + A!Signed(i.up, whole)
      <3> HIDE DEF b, whole
      <3> QED
        BY <1>3, <1>5 DEF A!Signed
    <2>3. off = whole \/ off = whole % Word
      <3> HIDE DEF off, whole
      <3> QED
        BY <1>6, <1>9
    <2>4. Displaced(r, i) = (IF i.up THEN b + whole ELSE b - whole) % Word
      <3> HIDE DEF b, off, whole
      <3> QED
        BY <1>4, <1>7, <2>3
    <2>5. b = reg[i.b]
      BY <1>9
    <2> HIDE DEF b, off, whole
    <2> QED
      BY <2>1, <2>2, <2>4, <2>5, Zenon
  <1> QED
    BY <1>8, <1>9

\* At an address that is a multiple of its size the ARM accesses what the code
\* does, and turns no word.
LEMMA AlignedAccess ==
  ASSUME NEW a \in Int, NEW size \in {1, 2, 4}, a % size = 0
  PROVE  /\ A!AccessedAt(a, size) = a
         /\ \A w \in Words : A!Turned(w, a - A!AccessedAt(a, size)) = w
  <1>1. A!AccessedAt(a, size) = a
    <2>1. CASE size = 4
      BY <2>1 DEF A!AccessedAt, A!WordAt
    <2>2. CASE size # 4
      BY <2>2 DEF A!AccessedAt
    <2> QED
      BY <2>1, <2>2
  <1>2. ASSUME NEW w \in Words PROVE A!Turned(w, 0) = w
    <2>1. Word \in Nat \ {0} /\ w \in Int /\ w \in 0..(Word - 1)
      BY WordFacts DEF Words
    <2>2. Base^0 = 1 /\ Base^(4 - 0) = Word /\ A!Word = Word
      BY MemoryAssumption, SizeFacts, ArmMemory
    <2> HIDE DEF Word
    <2>3. w \div 1 = w
      BY <2>1
    <2>4. (w + w * Word) % Word = w % Word
      <3>1. w + w * Word = w + Word * w /\ w + w * Word \in Int
        BY <2>1
      <3> QED
        BY <2>1, <3>1, SameRemainder
    <2>5. w % Word = w
      BY <2>1, OwnRemainder
    <2>6. A!Turned(w, 0) = (w \div Base^0 + w * Base^(4 - 0)) % Word
      BY <2>2 DEF A!Turned
    <2>7. A!Turned(w, 0) = (w + w * Word) % Word
      BY <2>2, <2>3, <2>6
    <2> QED
      BY <2>4, <2>5, <2>7
  <1>3. a - A!AccessedAt(a, size) = 0
    BY <1>1
  <1> QED
    BY <1>1, <1>2, <1>3

\* Words at a distance of whole words from an aligned base are aligned, also
\* where addresses wrap around.
LEMMA AlignedPlace ==
  ASSUME NEW base \in Int, base % 4 = 0, NEW x \in Int
  PROVE  ((base + 4 * x) % Word) % 4 = 0
  <1>1. Word \in Nat \ {0} /\ Word % 4 = 0
    BY WordFacts, MemoryAssumption
  <1> DEFINE n == base + 4 * x
  <1>2. n \in Int
    OBVIOUS
  <1>3. PICK q \in Int, r \in 0..(Word - 1) : n = Word * q + r /\ n % Word = r
    BY <1>1, <1>2, Divided
  <1>4. PICK u \in Int : Word = 4 * u
    <2>1. PICK u \in Int, s \in 0..3 : Word = 4 * u + s /\ Word % 4 = s
      BY <1>1, Divided
    <2> QED
      BY <1>1, <2>1
  <1>5. Word * q = 4 * (u * q) /\ u * q \in Int
    <2>1. u * q \in Int /\ (4 * u) * q = 4 * (u * q)
      OBVIOUS
    <2> QED
      BY <1>4, <2>1
  <1> DEFINE d == x - u * q
  <1>6. d \in Int /\ r = base + 4 * d
    <2> HIDE DEF Word
    <2>1. base + 4 * x = 4 * (u * q) + r
      BY <1>3, <1>5
    <2> DEFINE p == u * q
    <2>2. p \in Int /\ base + 4 * x = 4 * p + r /\ d = x - p
      BY <1>5, <2>1
    <2>3. r \in Int
      BY <1>1, <1>3
    <2> HIDE DEF p, d
    <2> QED
      BY <2>2, <2>3
  <1> HIDE DEF d, n
  <1>7. r \in Int
    BY <1>1, <1>3
  <1>8. r % 4 = base % 4
    BY <1>6, <1>7, SameRemainder
  <1> QED
    BY <1>3, <1>8 DEF n

\* A load or store of one word.
LEMMA LoadStoreStep ==
  ASSUME HoldsWords, NEW i \in Program, i.kind = "single", LoadStore(i)
  PROVE  HoldsWords' /\ (Exact(i) /\ Aligned(i) => A!Execute(i))
  <1> DEFINE a == Address(i)
             accessed == IF i.load THEN [reg EXCEPT ![i.d] = Loaded(i, a)] ELSE reg
             moved == (reg[i.b] + A!Signed(i.up, A!OffsetOf(i.off))) % Word
  <1>1. i \in Single /\ i.size \in {1, 2, 4} /\ i.d \in Registers /\ i.b \in Registers
    BY KindFacts, SingleFacts
  <1>2. reg \in [Registers -> Words] /\ mem \in Contents
    BY DEF HoldsWords
  <1>3. Displaced(reg, i) \in Words /\ reg[i.b] \in Words
    BY <1>1, <1>2, DisplacedFacts
  <1>4. a \in Words
    BY <1>3 DEF Address
  <1>5. /\ Inside(a, i.size)
        /\ mem' = IF i.load THEN mem ELSE Written(mem, a, i.size, reg[i.d])
        /\ reg' = IF i.index = "pre" THEN accessed
                  ELSE [accessed EXCEPT ![i.b] = Displaced(accessed, i)]
    BY DEF LoadStore
  <1>6. Loaded(i, a) \in Words /\ Read(mem, a, i.size) \in Words
    <2>1. /\ Read(mem, a, i.size) \in 0..(Base^i.size - 1)
          /\ Base^i.size \in Nat \ {0} /\ Base^i.size <= Word
      BY <1>1, <1>2, <1>4, <1>5, ReadFits
    <2>2. /\ Read(mem, a, i.size) \in Words
          /\ SignExtended(Read(mem, a, i.size), i.size) \in Words
      BY <1>1, <2>1, SignExtendedIsWord
    <2> QED
      BY <2>2 DEF Loaded
  <1> HIDE DEF a
  <1>7. accessed \in [Registers -> Words]
    BY <1>1, <1>2, <1>6
  <1>8. Written(mem, a, i.size, reg[i.d]) \in Contents
    BY <1>1, <1>2, <1>4, WrittenFits
  <1>9. HoldsWords'
    <2>1. mem' \in Contents
      BY <1>2, <1>5, <1>8
    <2>2. Displaced(accessed, i) \in Words
      <3> HIDE DEF accessed
      <3> QED
        BY <1>7, DisplacedFacts
    <2>3. reg' \in [Registers -> Words]
      <3> HIDE DEF accessed
      <3> QED
        BY <1>5, <1>7, <2>2
    <2> QED
      BY <2>1, <2>3 DEF HoldsWords, Contents
  <1>10. ASSUME Exact(i), Aligned(i) PROVE A!TransferSingle(i)
    <2>1. /\ i.load /\ i.index # "pre" => i.d # i.b /\ (i.off.kind = "reg" => i.off.m # i.d)
          /\ i.index = "post" /\ i.off.kind = "reg" => i.off.k = 0
      BY <1>10 DEF Exact
    <2>2. i.index \in {"pre", "wb", "post"} /\ i.load \in BOOLEAN
          /\ (i.off.kind # "imm" => i.off.kind = "reg" /\ i.off.m \in Registers)
      BY <1>1, SingleFacts
    <2>3. Displaced(reg, i) = moved
      BY <1>2, <2>1, DisplacedFacts
    <2>4. a = IF i.index = "post" THEN reg[i.b] ELSE moved
      BY <2>3 DEF a, Address
    <2>5. i.index # "pre" => Displaced(accessed, i) = moved
      <3>1. ASSUME i.index # "pre"
            PROVE  /\ accessed[i.b] = reg[i.b]
                   /\ i.off.kind # "imm" => accessed[i.off.m] = reg[i.off.m]
        BY <1>1, <1>2, <2>1, <2>2, <3>1
      <3> HIDE DEF accessed, moved
      <3> QED
        BY <1>7, <2>1, <3>1, DisplacedFacts DEF moved
    <2> DEFINE based == IF i.index = "pre" THEN reg ELSE [reg EXCEPT ![i.b] = moved]
    <2>6. i.load => reg' = [based EXCEPT ![i.d] = Loaded(i, a)]
      <3> SUFFICES ASSUME i.load PROVE reg' = [based EXCEPT ![i.d] = Loaded(i, a)]
        OBVIOUS
      <3>1. accessed = [reg EXCEPT ![i.d] = Loaded(i, a)]
        OBVIOUS
      <3>2. CASE i.index = "pre"
        BY <1>5, <3>1, <3>2
      <3>3. CASE i.index # "pre"
        <4>1. i.d # i.b
          BY <2>1, <3>3
        <4>2. reg' = [accessed EXCEPT ![i.b] = moved]
          BY <1>5, <2>5, <3>3
        <4> HIDE DEF accessed, moved
        <4> QED
          BY <1>1, <1>2, <3>1, <3>3, <4>1, <4>2
      <3> QED
        BY <3>2, <3>3
    <2>7. ~i.load => reg' = based
      BY <1>5, <2>5
    <2>8. Loaded(i, a) = IF i.signed THEN SignExtended(Read(mem, a, i.size), i.size)
                         ELSE Read(mem, a, i.size)
      BY DEF Loaded
    <2> DEFINE at == A!AccessedAt(a, i.size)
    <2>9. /\ at = a
          /\ A!Turned(Read(mem, a, i.size), a - at) = Read(mem, a, i.size)
      <3>1. a % i.size = 0
        BY <1>10 DEF Aligned, a
      <3>2. a \in Int
        BY <1>4, WordFacts DEF Words
      <3> QED
        BY <1>1, <1>6, <3>1, <3>2, AlignedAccess
    <2> DEFINE val == A!Turned(A!Read(mem, at, i.size), a - at)
    <2>10. val = Read(mem, a, i.size) /\ A!Inside(at, i.size)
      BY <1>5, <2>9, ArmMemory
    <2>11. A!Written(mem, at, i.size, reg[i.d]) = Written(mem, a, i.size, reg[i.d])
      BY <2>9, ArmMemory
    <2>12. i.load => /\ mem' = mem
                     /\ reg' = [based EXCEPT ![i.d] = IF i.signed THEN A!SignExtended(val, i.size)
                                                                  ELSE val]
      BY <1>5, <2>6, <2>8, <2>10, ArmMemory
    <2>13. ~i.load => mem' = A!Written(mem, at, i.size, reg[i.d])
      BY <1>5, <2>11
    <2>14. moved = (reg[i.b] + A!Signed(i.up, A!OffsetOf(i.off))) % A!Word
      BY ArmMemory
    <2> HIDE DEF accessed, moved, at, val, based
    <2> QED
      BY <2>4, <2>7, <2>10, <2>12, <2>13, <2>14 DEF A!TransferSingle, at, val, based
  <1>11. Exact(i) /\ Aligned(i) => A!Execute(i)
    BY <1>10 DEF A!Execute
  <1> QED
    BY <1>9, <1>11

-----------------------------------------------------------------------------
\* What memory holds under words that do not overlap.
LEMMA OverlaidAt ==
  ASSUME NEW list, NEW at, NEW r, Apart(list, at), NEW x \in Memory
  PROVE  /\ \A q \in list : x \in Bytes(at[q], 4)
                              => Overlaid(list, at, r)[x] = Written(mem, at[q], 4, r[q])[x]
         /\ (\A q \in list : x \notin Bytes(at[q], 4)) => Overlaid(list, at, r)[x] = mem[x]
  <1>1. ASSUME NEW q \in list, x \in Bytes(at[q], 4)
        PROVE  Overlaid(list, at, r)[x] = Written(mem, at[q], 4, r[q])[x]
    <2> DEFINE owner == CHOOSE p \in list : x \in Bytes(at[p], 4)
    <2>1. owner = q
      BY <1>1 DEF Apart
    <2>2. Overlaid(list, at, r)[x] = Written(mem, at[owner], 4, r[owner])[x]
      BY <1>1 DEF Overlaid
    <2> QED
      BY <2>1, <2>2
  <1>2. ASSUME \A q \in list : x \notin Bytes(at[q], 4) PROVE Overlaid(list, at, r)[x] = mem[x]
    BY <1>2 DEF Overlaid
  <1> QED
    BY <1>1, <1>2

\* Words over bytes leave bytes.
LEMMA OverlaidFits ==
  ASSUME NEW list, NEW at, NEW r, Apart(list, at), mem \in Contents,
         \A q \in list : at[q] \in Words /\ r[q] \in Words
  PROVE  Overlaid(list, at, r) \in Contents
  <1>1. ASSUME NEW x \in Memory PROVE Overlaid(list, at, r)[x] \in 0..(Base - 1)
    <2>1. CASE \E q \in list : x \in Bytes(at[q], 4)
      <3>1. PICK q \in list : x \in Bytes(at[q], 4)
        BY <2>1
      <3>2. Written(mem, at[q], 4, r[q]) \in Contents
        BY WrittenFits
      <3>3. Written(mem, at[q], 4, r[q])[x] \in 0..(Base - 1)
        BY <3>2 DEF Contents
      <3> QED
        BY <3>1, <3>3, OverlaidAt
    <2>2. CASE \A q \in list : x \notin Bytes(at[q], 4)
      BY <2>2, OverlaidAt DEF Contents
    <2> QED
      BY <2>1, <2>2
  <1>2. Overlaid(list, at, r) = [x \in Memory |-> Overlaid(list, at, r)[x]]
    BY DEF Overlaid
  <1> HIDE DEF Overlaid
  <1> QED
    BY <1>1, <1>2 DEF Contents

\* Words fetched from memory leave words in registers.
LEMMA FetchedFits ==
  ASSUME NEW list, NEW at, HoldsWords,
         \A q \in list : at[q] \in Words /\ Inside(at[q], 4)
  PROVE  Fetched(list, at) \in [Registers -> Words]
  <1>1. ASSUME NEW q \in list PROVE Read(mem, at[q], 4) \in Words
    <2>1. Read(mem, at[q], 4) \in 0..(Base^4 - 1)
      BY ReadFits DEF HoldsWords
    <2> QED
      BY <2>1 DEF Words, Word
  <1> QED
    BY <1>1 DEF Fetched, HoldsWords

\* The places of the words of each form of block transfer.
LEMMA PlaceFacts ==
  ASSUME NEW list \in Lists, NEW q \in list, NEW base \in Int,
         NEW mode \in {"ia", "ib", "da", "db"}
  PROVE  /\ Low(mode, Cardinality(list)) \in Int
         /\ A!Place(list, q, base, mode \in {"ia", "ib"}, mode \in {"ib", "db"})
              = (base + Low(mode, Cardinality(list)) + 4 * Position(list, q)) % Word
  <1> DEFINE n == Cardinality(list)
             k == Position(list, q)
             up == mode \in {"ia", "ib"}
             before == mode \in {"ib", "db"}
             away == (IF up THEN k ELSE n - 1 - k) + (IF before THEN 1 ELSE 0)
             found == base + A!Signed(up, 4 * away)
             meant == base + Low(mode, n) + 4 * k
  <1>1. n \in Nat /\ k \in Nat
    BY ListFacts, PositionFacts
  <1>2. A!Place(list, q, base, up, before) = found % Word
    BY ArmMemory DEF A!Place
  <1> HIDE DEF n, k
  <1>3. found = meant /\ Low(mode, n) \in Int
    <2>1. CASE mode = "ia"
      BY <1>1, <2>1 DEF Low, A!Signed
    <2>2. CASE mode = "ib"
      BY <1>1, <2>2 DEF Low, A!Signed
    <2>3. CASE mode = "da"
      BY <1>1, <2>3 DEF Low, A!Signed
    <2>4. CASE mode = "db"
      BY <1>1, <2>4 DEF Low, A!Signed
    <2> QED
      BY <2>1, <2>2, <2>3, <2>4
  <1> HIDE DEF found
  <1> QED
    BY <1>2, <1>3 DEF n, k

\* Words lie inside the memory where the ARM places and accesses them.
Placed(list, at, b, up, before) ==
  \A q \in list : at[q] = A!WordAt(A!Place(list, q, reg[b], up, before)) /\ Inside(at[q], 4)

\* They do if each is at its place and the base is aligned.
LEMMA AlignedPlaces ==
  ASSUME NEW list, NEW at, NEW b, NEW up, NEW before, NEW base \in Int, base % 4 = 0,
         \A q \in list : \E x \in Int : at[q] = (base + 4 * x) % Word,
         \A q \in list : at[q] = A!Place(list, q, reg[b], up, before) /\ Inside(at[q], 4)
  PROVE  Placed(list, at, b, up, before)
  <1>1. ASSUME NEW q \in list PROVE A!WordAt(at[q]) = at[q]
    <2>1. PICK x \in Int : at[q] = (base + 4 * x) % Word
      OBVIOUS
    <2>2. base + 4 * x \in Int
      OBVIOUS
    <2>3. at[q] % 4 = 0
      BY <2>1, AlignedPlace
    <2>4. at[q] \in Int
      <3>1. at[q] \in Words
        BY <2>1, <2>2, WordFacts
      <3> QED
        BY <3>1, WordFacts DEF Words
    <2> QED
      BY <2>3, <2>4 DEF A!WordAt
  <1> QED
    BY <1>1 DEF Placed

\* The registers after the ARM's write-back.
Based(list, b, up, wb) ==
  IF wb THEN [reg EXCEPT ![b] = (reg[b] + A!Signed(up, 4 * Cardinality(list))) % Word]
  ELSE reg

\* Words that were stored where the ARM places them are what the ARM stores.
LEMMA StoresFollow ==
  ASSUME NEW list, NEW at, NEW b, NEW up, NEW before, NEW wb, NEW r,
         Apart(list, at), Placed(list, at, b, up, before), \A q \in list : r[q] = reg[q],
         mem' = Overlaid(list, at, r), reg' = Based(list, b, up, wb)
  PROVE  A!TransferBlock(FALSE, list, b, up, before, wb)
  <1> DEFINE place(q) == A!WordAt(A!Place(list, q, reg[b], up, before))
             owner(x) == CHOOSE q \in list : x \in Bytes(place(q), 4)
             meant(x) == IF \E q \in list : x \in Bytes(place(q), 4)
                         THEN Written(mem, place(owner(x)), 4, reg[owner(x)])[x]
                         ELSE mem[x]
  <1>1. ASSUME NEW q \in list PROVE place(q) = at[q] /\ Inside(place(q), 4)
    BY DEF Placed
  <1> HIDE DEF place
  <1>2. ASSUME NEW x \in Memory PROVE Overlaid(list, at, r)[x] = meant(x)
    <2>1. CASE \E q \in list : x \in Bytes(place(q), 4)
      <3>1. PICK q \in list : x \in Bytes(at[q], 4)
        BY <1>1, <2>1
      <3>2. owner(x) = q
        BY <1>1, <3>1 DEF Apart
      <3>3. Overlaid(list, at, r)[x] = Written(mem, at[q], 4, reg[q])[x]
        BY <3>1, OverlaidAt
      <3>4. at[q] = place(q)
        BY <1>1
      <3>5. meant(x) = Written(mem, place(owner(x)), 4, reg[owner(x)])[x]
        BY <2>1
      <3> HIDE DEF owner, meant
      <3> QED
        BY <3>2, <3>3, <3>4, <3>5
    <2>2. CASE \A q \in list : x \notin Bytes(place(q), 4)
      <3>1. \A q \in list : x \notin Bytes(at[q], 4)
        BY <1>1, <2>2
      <3> QED
        BY <2>2, <3>1, OverlaidAt
    <2> QED
      BY <2>1, <2>2
  <1>3. mem' = [x \in Memory |-> meant(x)]
    <2>1. Overlaid(list, at, r) = [x \in Memory |-> Overlaid(list, at, r)[x]]
      BY DEF Overlaid
    <2> HIDE DEF meant
    <2> QED
      BY <1>2, <2>1
  <1>4. \A q \in list : Inside(place(q), 4)
    BY <1>1
  <1> QED
    BY <1>3, <1>4, ArmMemory DEF A!TransferBlock, Based, place

\* Words that were fetched from there are what it loads.
LEMMA LoadsFollow ==
  ASSUME NEW list, NEW at, NEW b, NEW up, NEW before, NEW wb,
         Placed(list, at, b, up, before), mem' = mem,
         reg' = [q \in Registers |-> IF q \in list THEN Read(mem, at[q], 4)
                                     ELSE Based(list, b, up, wb)[q]]
  PROVE  A!TransferBlock(TRUE, list, b, up, before, wb)
  <1> DEFINE place(q) == A!WordAt(A!Place(list, q, reg[b], up, before))
  <1>1. ASSUME NEW q \in list PROVE place(q) = at[q] /\ Inside(place(q), 4)
    BY DEF Placed
  <1> HIDE DEF place
  <1>2. reg' = [q \in Registers |-> IF q \in list THEN Read(mem, place(q), 4)
                                    ELSE Based(list, b, up, wb)[q]]
    BY <1>1
  <1>3. \A q \in list : Inside(place(q), 4)
    BY <1>1
  <1> QED
    BY <1>2, <1>3, ArmMemory DEF A!TransferBlock, Based, place

\* The fields of a load or store of several.
LEMMA BlockFacts ==
  ASSUME NEW i \in Block
  PROVE  /\ i.load \in BOOLEAN /\ i.mode \in {"ia", "ib", "da", "db"} /\ i.b \in Registers
         /\ i.wb \in BOOLEAN /\ i.list \in Lists /\ i.list # {}
  <1>1. i.list \in (SUBSET Registers) \ {{}}
    BY DEF Block
  <1>2. i.list \in Lists /\ i.list # {}
    BY <1>1 DEF Lists
  <1>3. i.load \in BOOLEAN /\ i.wb \in BOOLEAN
    BY DEF Block
  <1>4. i.mode \in {"ia", "ib", "da", "db"} /\ i.b \in Registers
    BY DEF Block
  <1> QED
    BY <1>2, <1>3, <1>4

\* Several words, by LDM and STM.
LEMMA LdmStmStep ==
  ASSUME HoldsWords, NEW i \in Program, i.kind = "block", LdmStm(i)
  PROVE  HoldsWords' /\ (Exact(i) /\ Aligned(i) => A!Execute(i))
  <1> DEFINE n == Cardinality(i.list)
             low == Low(i.mode, n)
             at == [r \in i.list |-> (reg[i.b] + low + 4 * Position(i.list, r)) % Word]
             loaded == [r \in Registers |-> IF i.load /\ r \in i.list THEN Read(mem, at[r], 4)
                                                                      ELSE reg[r]]
             new == (IF low >= 0 THEN reg[i.b] + 4 * n ELSE reg[i.b] - 4 * n) % Word
             up == i.mode \in {"ia", "ib"}
             before == i.mode \in {"ib", "db"}
  <1>1. /\ i.load \in BOOLEAN /\ i.mode \in {"ia", "ib", "da", "db"} /\ i.b \in Registers
        /\ i.wb \in BOOLEAN /\ i.list \in Lists /\ i.list # {}
    BY KindFacts, BlockFacts
  <1>2. reg \in [Registers -> Words] /\ mem \in Contents
    BY DEF HoldsWords
  <1>3. reg[i.b] \in Int /\ Word \in Nat \ {0}
    BY <1>1, <1>2, WordFacts DEF Words
  <1>4. n \in Nat /\ n >= 1
    <2>1. IsFiniteSet(i.list) /\ n \in Nat
      BY <1>1, ListFacts
    <2>2. n # 0
      BY <1>1, <2>1, FS_EmptySet
    <2> QED
      BY <2>1, <2>2
  <1>5. low \in Int
    <2>1. PICK q \in i.list : TRUE
      BY <1>1
    <2> QED
      BY <1>1, <1>3, <2>1, PlaceFacts
  <1>6. /\ \A r \in i.list : Inside(at[r], 4)
        /\ mem' = IF i.load THEN mem ELSE Stored(i.list, at, reg)
        /\ reg' = IF i.wb THEN [loaded EXCEPT ![i.b] = new] ELSE loaded
    BY DEF LdmStm
  <1>7. \A r \in i.list : at[r] = ((reg[i.b] + low) + 4 * Position(i.list, r)) % Word
    OBVIOUS
  <1> HIDE DEF at, low, n
  <1>8. Ascending(i.list, at, reg[i.b] + low)
    BY <1>7 DEF Ascending
  <1>9. Apart(i.list, at)
    <2>1. reg[i.b] + low \in Int
      BY <1>3, <1>5
    <2> QED
      BY <1>1, <1>8, <2>1, WordsApart DEF Apart
  <1>10. \A r \in i.list : at[r] \in Words
    <2>1. ASSUME NEW r \in i.list PROVE at[r] \in Words
      <3>1. Position(i.list, r) \in Int
        BY <1>1, ListFacts, PositionFacts
      <3>2. (reg[i.b] + low) + 4 * Position(i.list, r) \in Int
        BY <1>3, <1>5, <3>1
      <3> QED
        BY <1>7, <3>2, WordFacts
    <2> QED
      BY <2>1
  <1>11. /\ i.load => loaded = Fetched(i.list, at) /\ mem' = mem
         /\ ~i.load => loaded = reg /\ mem' = Overlaid(i.list, at, reg)
    <2>1. i.load => loaded = Fetched(i.list, at)
      BY DEF Fetched
    <2>2. ~i.load => loaded = reg
      BY <1>2
    <2>3. ~i.load => mem' = Overlaid(i.list, at, reg)
      BY <1>1, <1>2, <1>6, <1>9, StoredOverlays
    <2> HIDE DEF loaded
    <2> QED
      BY <1>6, <2>1, <2>2, <2>3
  <1> HIDE DEF loaded
  <1>12. HoldsWords'
    <2>1. loaded \in [Registers -> Words]
      BY <1>1, <1>2, <1>6, <1>10, <1>11, FetchedFits
    <2>2. new \in Words
      <3>1. reg[i.b] + 4 * n \in Int /\ reg[i.b] - 4 * n \in Int
        BY <1>3, <1>4
      <3> QED
        BY <3>1, WordFacts
    <2>3. reg' \in [Registers -> Words]
      <3> HIDE DEF new
      <3> QED
        BY <1>1, <1>6, <2>1, <2>2
    <2>4. mem' \in Contents
      <3>1. \A q \in i.list : at[q] \in Words /\ reg[q] \in Words
        BY <1>1, <1>2, <1>10 DEF Lists
      <3>2. Overlaid(i.list, at, reg) \in Contents
        BY <1>2, <1>9, <3>1, OverlaidFits
      <3> QED
        BY <1>1, <1>2, <1>11, <3>2
    <2> QED
      BY <2>3, <2>4 DEF HoldsWords, Contents
  <1>13. ASSUME Exact(i), Aligned(i) PROVE A!TransferBlock(i.load, i.list, i.b, up, before, i.wb)
    <2>1. i.wb => /\ i.load => i.b \notin i.list
                  /\ i.mode = "da" => n > 1
      BY <1>13 DEF Exact, n
    <2>2. Placed(i.list, at, i.b, up, before)
      <3>1. ASSUME NEW q \in i.list PROVE at[q] = A!Place(i.list, q, reg[i.b], up, before)
        BY <1>1, <1>3, PlaceFacts DEF at, low, n
      <3>2. reg[i.b] % 4 = 0
        BY <1>13 DEF Aligned
      <3>3. ASSUME NEW q \in i.list PROVE \E x \in Int : at[q] = (reg[i.b] + 4 * x) % Word
        <4> DEFINE k == Position(i.list, q)
        <4>1. PICK y \in Int : low = 4 * y
          <5>1. CASE i.mode = "ia"
            <6>1. low = 4 * 0
              BY <5>1 DEF low, Low
            <6> QED BY <6>1
          <5>2. CASE i.mode = "ib"
            <6>1. low = 4 * 1
              BY <5>2 DEF low, Low
            <6> QED BY <6>1
          <5>3. CASE i.mode = "db"
            <6>1. low = 4 * (-n) /\ -n \in Int
              BY <1>4, <5>3 DEF low, Low
            <6> QED BY <6>1
          <5>4. CASE i.mode = "da"
            <6>1. low = 4 * (1 - n) /\ 1 - n \in Int
              BY <1>4, <5>4 DEF low, Low
            <6> QED BY <6>1
          <5> QED BY <1>1, <5>1, <5>2, <5>3, <5>4
        <4>2. k \in Int
          BY <1>1, ListFacts, PositionFacts
        <4>3. (reg[i.b] + low) + 4 * k = reg[i.b] + 4 * (y + k) /\ y + k \in Int
          BY <1>3, <1>5, <4>1, <4>2
        <4>4. at[q] = ((reg[i.b] + low) + 4 * k) % Word
          BY <1>7
        <4>5. at[q] = (reg[i.b] + 4 * (y + k)) % Word
          BY <4>3, <4>4, Zenon
        <4> QED BY <4>3, <4>5
      <3> HIDE DEF up, before
      <3> QED
        BY <1>3, <1>6, <3>1, <3>2, <3>3, AlignedPlaces
    <2>3. i.wb => (low >= 0 <=> up)
      BY <1>1, <1>4, <2>1 DEF low, Low
    <2>4. i.wb => new = (reg[i.b] + A!Signed(up, 4 * n)) % Word
      <3>1. CASE up
        BY <2>3, <3>1 DEF A!Signed
      <3>2. CASE ~up
        <4>1. reg[i.b] - 4 * n = reg[i.b] + (-(4 * n))
          BY <1>3, <1>4
        <4>2. A!Signed(up, 4 * n) = -(4 * n)
          BY <3>2 DEF A!Signed
        <4>3. i.wb => new = (reg[i.b] - 4 * n) % Word
          BY <2>3, <3>2
        <4> HIDE DEF new, up
        <4> QED
          BY <4>1, <4>2, <4>3, Zenon
      <3> QED
        BY <3>1, <3>2
    <2> HIDE DEF new, up, before
    <2> DEFINE based == Based(i.list, i.b, up, i.wb)
    <2>5. based = IF i.wb THEN [reg EXCEPT ![i.b] = new] ELSE reg
      BY <2>4 DEF Based, n
    <2> HIDE DEF based
    <2>6. CASE ~i.load
      <3>1. reg' = based /\ mem' = Overlaid(i.list, at, reg)
        BY <1>6, <1>11, <2>5, <2>6
      <3>2. A!TransferBlock(FALSE, i.list, i.b, up, before, i.wb)
        BY <1>9, <2>2, <3>1, StoresFollow DEF based
      <3>3. i.load = FALSE
        BY <1>1, <2>6
      <3> QED
        BY <3>2, <3>3
    <2>7. CASE i.load
      <3>1. reg' = [q \in Registers |-> IF q \in i.list THEN Read(mem, at[q], 4) ELSE based[q]]
        <4>1. loaded = Fetched(i.list, at)
          BY <1>11, <2>7
        <4>2. CASE ~i.wb
          BY <1>6, <2>5, <4>1, <4>2 DEF Fetched
        <4>3. CASE i.wb
          <5>1. i.b \notin i.list /\ reg' = [loaded EXCEPT ![i.b] = new]
            BY <1>6, <2>1, <2>7, <4>3
          <5>2. based = [reg EXCEPT ![i.b] = new]
            BY <2>5, <4>3
          <5> QED
            BY <1>1, <1>2, <4>1, <5>1, <5>2 DEF Fetched
        <4> QED
          BY <1>1, <4>2, <4>3
      <3>2. A!TransferBlock(TRUE, i.list, i.b, up, before, i.wb)
        BY <1>11, <2>2, <2>7, <3>1, LoadsFollow DEF based
      <3>3. i.load = TRUE
        BY <1>1, <2>7
      <3> QED
        BY <3>2, <3>3
    <2> QED
      BY <2>6, <2>7
  <1>14. Exact(i) /\ Aligned(i) => A!Execute(i)
    BY <1>13 DEF A!Execute
  <1> QED
    BY <1>12, <1>14

\* Several words on the stack.
LEMMA PushStep ==
  ASSUME HoldsWords, NEW i \in Program, i.kind = "push", Push(i.list)
  PROVE  HoldsWords' /\ (Exact(i) /\ Aligned(i) => A!Execute(i))
  <1> DEFINE list == i.list
             n == Cardinality(list)
             sp == (reg[Sp] - 4 * n) % Word
             below == [reg EXCEPT ![Sp] = sp]
             at == [r \in list |-> (sp + 4 * Position(list, r)) % Word]
  <1>1. list \in Lists
    BY KindFacts
  <1>2. reg \in [Registers -> Words] /\ mem \in Contents /\ Sp \in Registers
    BY MemoryAssumption DEF HoldsWords
  <1>3. reg[Sp] \in Int /\ Word \in Nat \ {0} /\ n \in Nat
    BY <1>1, <1>2, WordFacts, ListFacts DEF Words
  <1>4. sp \in Words /\ sp \in Int
    <2>1. reg[Sp] - 4 * n \in Int
      BY <1>3
    <2> QED
      BY <2>1, WordFacts DEF Words
  <1>5. (\A r \in list : Inside(at[r], 4)) /\ reg' = below /\ mem' = Stored(list, at, below)
    BY DEF Push
  <1>6. \A r \in list : at[r] = (sp + 4 * Position(list, r)) % Word
    OBVIOUS
  <1>7. sp = (reg[Sp] - 4 * n) % Word
    OBVIOUS
  <1> HIDE DEF at, sp, n
  <1>8. Ascending(list, at, sp)
    BY <1>6 DEF Ascending
  <1>9. Apart(list, at)
    BY <1>1, <1>4, <1>8, WordsApart DEF Apart
  <1>10. ASSUME NEW r \in list PROVE at[r] \in Words
    <2>1. Position(list, r) \in Int
      BY <1>1, ListFacts, PositionFacts
    <2>2. sp + 4 * Position(list, r) \in Int
      BY <1>4, <2>1
    <2> QED
      BY <1>6, <2>2, WordFacts
  <1>11. below \in [Registers -> Words]
    BY <1>2, <1>4
  <1>12. mem' = Overlaid(list, at, below)
    <2> HIDE DEF below
    <2> QED
      BY <1>1, <1>2, <1>5, <1>9, StoredOverlays
  <1>13. HoldsWords'
    <2> HIDE DEF below
    <2>1. \A q \in list : at[q] \in Words /\ below[q] \in Words
      BY <1>1, <1>10, <1>11 DEF Lists
    <2>2. Overlaid(list, at, below) \in Contents
      BY <1>2, <1>9, <2>1, OverlaidFits
    <2> QED
      BY <1>5, <1>11, <1>12, <2>2 DEF HoldsWords, Contents
  <1>14. ASSUME Exact(i), Aligned(i) PROVE A!TransferBlock(FALSE, list, Sp, FALSE, TRUE, TRUE)
    <2>1. Sp \notin list
      BY <1>14 DEF Exact
    <2>2. \A q \in list : below[q] = reg[q]
      BY <1>1, <1>2, <2>1 DEF Lists
    <2>3. Placed(list, at, Sp, FALSE, TRUE)
      <3>1. ASSUME NEW q \in list PROVE at[q] = A!Place(list, q, reg[Sp], FALSE, TRUE)
        <4> DEFINE base == reg[Sp]
                   k == Position(list, q)
                   away == base - 4 * n
                   off == 4 * k
        <4>1. k \in Int
          BY <1>1, ListFacts, PositionFacts
        <4>2. A!Place(list, q, base, "db" \in {"ia", "ib"}, "db" \in {"ib", "db"})
                = (base + Low("db", n) + 4 * k) % Word
          BY <1>1, <1>3, PlaceFacts DEF n
        <4>3. "db" \notin {"ia", "ib"} /\ "db" \in {"ib", "db"}
          OBVIOUS
        <4>4. Low("db", n) = -4 * n
          BY DEF Low
        <4>5. base + Low("db", n) + 4 * k = off + away /\ off \in Int /\ away \in Int
          BY <1>3, <4>1, <4>4
        <4>6. sp = away % Word /\ sp + off = off + sp
          BY <1>4, <1>7, <4>5
        <4>7. at[q] = (sp + off) % Word
          BY <1>6
        <4> HIDE DEF base, k, away, off
        <4>8. (off + (away % Word)) % Word = (off + away) % Word
          BY <1>3, <4>5, RemainderOfSum
        <4>9. at[q] = (off + away) % Word
          BY <4>6, <4>7, <4>8, Zenon
        <4>10. A!Place(list, q, base, FALSE, TRUE) = (off + away) % Word
          <5>1. ("db" \in {"ia", "ib"}) = FALSE /\ ("db" \in {"ib", "db"}) = TRUE
            BY <4>3
          <5> QED
            BY <4>2, <4>5, <5>1, Zenon
        <4> QED
          BY <4>9, <4>10, Zenon DEF base
      <3>2. reg[Sp] % 4 = 0
        BY <1>14 DEF Aligned
      <3>3. ASSUME NEW q \in list PROVE \E x \in Int : at[q] = (reg[Sp] + 4 * x) % Word
        <4> DEFINE base == reg[Sp]
                   k == Position(list, q)
                   away == base - 4 * n
                   off == 4 * k
        <4>1. k \in Int /\ off \in Int /\ away \in Int
          BY <1>1, <1>3, ListFacts, PositionFacts
        <4>2. sp = away % Word /\ sp + off = off + sp /\ at[q] = (sp + off) % Word
          BY <1>4, <1>6, <1>7, <4>1
        <4>3. off + away = base + 4 * (k - n) /\ k - n \in Int
          BY <1>3, <4>1
        <4> HIDE DEF base, k, away, off
        <4>4. (off + (away % Word)) % Word = (off + away) % Word
          BY <1>3, <4>1, RemainderOfSum
        <4>5. at[q] = (base + 4 * (k - n)) % Word
          BY <4>2, <4>3, <4>4, Zenon
        <4> QED
          BY <4>3, <4>5 DEF base
      <3> QED
        BY <1>3, <1>5, <3>1, <3>2, <3>3, AlignedPlaces
    <2>4. reg' = Based(list, Sp, FALSE, TRUE)
      <3>1. A!Signed(FALSE, 4 * n) = -(4 * n)
        BY DEF A!Signed
      <3>2. reg[Sp] - 4 * n = reg[Sp] + (-(4 * n))
        BY <1>3
      <3>3. sp = (reg[Sp] + A!Signed(FALSE, 4 * n)) % Word
        BY <1>7, <3>1, <3>2, Zenon
      <3> QED
        BY <1>5, <3>3 DEF Based, n
    <2> HIDE DEF below, list
    <2> QED
      BY <1>9, <1>12, <2>2, <2>3, <2>4, StoresFollow
  <1>15. Exact(i) /\ Aligned(i) => A!Execute(i)
    BY <1>14 DEF A!Execute
  <1> QED
    BY <1>13, <1>15

\* And off the stack, which is exact always.
LEMMA PopStep ==
  ASSUME HoldsWords, NEW i \in Program, i.kind = "pop", Pop(i.list)
  PROVE  HoldsWords' /\ (Aligned(i) => A!Execute(i))
  <1> DEFINE list == i.list
             n == Cardinality(list)
             at == [r \in list |-> (reg[Sp] + 4 * Position(list, r)) % Word]
             new == (reg[Sp] + 4 * n) % Word
  <1>1. list \in Lists /\ Sp \notin list
    BY KindFacts
  <1>2. reg \in [Registers -> Words] /\ mem \in Contents /\ Sp \in Registers
    BY MemoryAssumption DEF HoldsWords
  <1>3. reg[Sp] \in Int /\ Word \in Nat \ {0} /\ n \in Nat
    BY <1>1, <1>2, WordFacts, ListFacts DEF Words
  <1>4. \A r \in list : at[r] = (reg[Sp] + 4 * Position(list, r)) % Word
    OBVIOUS
  <1>5. /\ \A r \in list : Inside(at[r], 4)
        /\ reg' = [Popped(list) EXCEPT ![Sp] = (Popped(list)[Sp] + 4 * n) % Word]
        /\ mem' = mem
    BY DEF Pop
  <1> HIDE DEF at
  <1>6. Popped(list) = Fetched(list, at)
    <2>1. Ascending(list, at, reg[Sp])
      BY <1>4 DEF Ascending
    <2> QED
      BY <1>1, <1>2, <2>1, PoppedFetches
  <1>7. Fetched(list, at)[Sp] = reg[Sp]
    BY <1>1, <1>2 DEF Fetched
  <1>8. reg' = [Fetched(list, at) EXCEPT ![Sp] = new]
    BY <1>5, <1>6, <1>7
  <1>9. HoldsWords'
    <2>1. ASSUME NEW r \in list PROVE at[r] \in Words
      <3>1. Position(list, r) \in Int
        BY <1>1, ListFacts, PositionFacts
      <3>2. reg[Sp] + 4 * Position(list, r) \in Int
        BY <1>3, <3>1
      <3> QED
        BY <1>4, <3>2, WordFacts
    <2>2. Fetched(list, at) \in [Registers -> Words]
      BY <1>5, <2>1, FetchedFits
    <2>3. new \in Words
      <3>1. reg[Sp] + 4 * n \in Int
        BY <1>3
      <3> QED
        BY <3>1, WordFacts
    <2>4. reg' \in [Registers -> Words]
      <3> HIDE DEF new
      <3> QED
        BY <1>2, <1>8, <2>2, <2>3
    <2> QED
      BY <1>2, <1>5, <2>4 DEF HoldsWords, Contents
  <1>10. ASSUME Aligned(i) PROVE Placed(list, at, Sp, TRUE, FALSE)
    <2>1. ASSUME NEW q \in list PROVE at[q] = A!Place(list, q, reg[Sp], TRUE, FALSE)
      <3> DEFINE base == reg[Sp]
                 k == Position(list, q)
      <3>1. k \in Int
        BY <1>1, ListFacts, PositionFacts
      <3>2. A!Place(list, q, base, "ia" \in {"ia", "ib"}, "ia" \in {"ib", "db"})
              = (base + Low("ia", n) + 4 * k) % Word
        BY <1>1, <1>3, PlaceFacts
      <3>3. ("ia" \in {"ia", "ib"}) = TRUE /\ ("ia" \in {"ib", "db"}) = FALSE
        OBVIOUS
      <3>4. Low("ia", n) = 0
        BY DEF Low
      <3>5. base + Low("ia", n) + 4 * k = base + 4 * k
        BY <1>3, <3>1, <3>4
      <3>6. at[q] = (base + 4 * k) % Word
        BY <1>4
      <3> HIDE DEF base, k
      <3> QED
        BY <3>2, <3>3, <3>5, <3>6, Zenon DEF base
    <2>2. reg[Sp] % 4 = 0
      BY <1>10 DEF Aligned
    <2>3. ASSUME NEW q \in list PROVE \E x \in Int : at[q] = (reg[Sp] + 4 * x) % Word
      <3>1. Position(list, q) \in Int
        BY <1>1, ListFacts, PositionFacts
      <3> QED
        BY <1>4, <3>1
    <2> QED
      BY <1>3, <1>5, <2>1, <2>2, <2>3, AlignedPlaces
  <1>11. new = (reg[Sp] + A!Signed(TRUE, 4 * n)) % Word
    BY DEF A!Signed
  <1> HIDE DEF new
  <1>12. Based(list, Sp, TRUE, TRUE) = [reg EXCEPT ![Sp] = new]
    BY <1>11 DEF Based
  <1>13. reg' = [q \in Registers |-> IF q \in list THEN Read(mem, at[q], 4)
                                     ELSE Based(list, Sp, TRUE, TRUE)[q]]
    BY <1>1, <1>2, <1>8, <1>12 DEF Fetched
  <1>14. ASSUME Aligned(i) PROVE A!TransferBlock(TRUE, list, Sp, TRUE, FALSE, TRUE)
    <2> HIDE DEF list
    <2> QED
      BY <1>5, <1>10, <1>13, <1>14, LoadsFollow
  <1>15. Aligned(i) => A!Execute(i)
    BY <1>14 DEF A!Execute
  <1> QED
    BY <1>9, <1>15

-----------------------------------------------------------------------------
\* Every instruction keeps words in registers and bytes in memory, and is the
\* ARM's where the translation is exact and the access aligned.
LEMMA EmitStep ==
  ASSUME HoldsWords, NEW i \in Program, Emit(i)
  PROVE  HoldsWords' /\ (Exact(i) /\ Aligned(i) => A!Execute(i))
  <1>1. i.kind \in {"single", "block", "push", "pop"}
    BY KindFacts
  <1>2. CASE i.kind = "single"
    BY <1>2, LoadStoreStep DEF Emit
  <1>3. CASE i.kind = "block"
    BY <1>3, LdmStmStep DEF Emit
  <1>4. CASE i.kind = "push"
    BY <1>4, PushStep DEF Emit
  <1>5. CASE i.kind = "pop"
    BY <1>5, PopStep DEF Emit
  <1> QED
    BY <1>1, <1>2, <1>3, <1>4, <1>5

\* Registers hold words and memory holds bytes, whatever is executed.
THEOREM WordsStayWords == TransferSpec => []HoldsWords
  <1>1. TransferInit => HoldsWords
    BY TransfersAssumption DEF TransferInit, HoldsWords, Contents
  <1>2. HoldsWords /\ [TransferNext]_transferVars => HoldsWords'
    <2>1. ASSUME HoldsWords, TransferNext PROVE HoldsWords'
      BY <2>1, EmitStep DEF TransferNext
    <2>2. ASSUME HoldsWords, UNCHANGED transferVars PROVE HoldsWords'
      BY <2>2 DEF transferVars, HoldsWords, Contents
    <2> QED
      BY <2>1, <2>2
  <1> QED
    BY <1>1, <1>2, PTL DEF TransferSpec

\* The emitted C of every instruction whose access is aligned leaves the
\* registers and the bytes of memory as the ARM does, for registers and memories
\* of every size, in every addressing form outside the known departures
\* (lift.py:305-434).
THEOREM EmittedTransfersAreTheArms ==
  ASSUME \A i \in Program : Exact(i)
  PROVE  TransferSpec => TransfersImplementArm
  <1>1. HoldsWords =>
          (steps' # steps => \A i \in Program : Aligned(i) /\ Emit(i) => A!Execute(i))
    BY EmitStep
  <1>2. HoldsWords =>
          [steps' # steps =>
             \A i \in Program : Aligned(i) /\ Emit(i) => A!Execute(i)]_transferVars
    BY <1>1
  <1> QED
    BY <1>2, WordsStayWords, PTL DEF TransfersImplementArm
=============================================================================
