--------------------------- MODULE ObjectsProofs ---------------------------
(***************************************************************************)
(* Theorems about the dispatch table for tables of any size, and about the *)
(* object factories over it, for any kinds of objects with vtables of any  *)
(* length.  The first half is about Dispatch alone.                        *)
(***************************************************************************)
EXTENDS Objects, TLAPS, SequenceTheorems, FiniteSetTheorems

(***************************************************************************)
(* The inductive invariant: the table holds the handlers of exactly the    *)
(* addresses registered so far, is sorted unless g_dirty says otherwise,   *)
(* and the interval of a running search brackets the target.               *)
(***************************************************************************)
TableOK ==
  /\ tab \in Seq(Entry)
  /\ \A i \in 1..Len(tab) : tab[i].fn = Handler[tab[i].addr]
  /\ \A i \in 1..Len(tab) : tab[i].addr \in known
  /\ \A a \in known : \E i \in 1..Len(tab) : tab[i].addr = a
  /\ dirty \/ Sorted(tab)
  /\ cap \in Nat /\ Len(tab) <= cap

IInv == TypeOK /\ TableOK /\ SearchBrackets

\* An entry of the table has an address and a handler.
LEMMA EntryFacts ==
  ASSUME NEW t \in Seq(Entry), NEW i \in 1..Len(t)
  PROVE  t[i] \in Entry /\ t[i].addr \in Nat /\ t[i].addr \in DOMAIN Handler
  <1>1. t[i] \in Entry
    BY ElementOfSeq
  <1> QED
    BY <1>1, DispatchAssumption DEF Entry

\* The handler of an address is a handler.
LEMMA HandlerInRange ==
  ASSUME NEW a \in DOMAIN Handler PROVE Handler[a] \in Range(Handler)
  BY DEF Range

\* qsort keeps the length, the entries, and nothing but the entries.
LEMMA OrderingFacts ==
  ASSUME NEW t \in Seq(Entry), NEW u \in Orderings(t)
  PROVE  /\ u \in Seq(Entry) /\ Len(u) = Len(t) /\ Sorted(u)
         /\ \A i \in 1..Len(t) : \E j \in 1..Len(t) : u[i] = t[j]
         /\ \A j \in 1..Len(t) : \E i \in 1..Len(t) : u[i] = t[j]
  <1> DEFINE D == 1..Len(t)
  <1>1. DOMAIN t = D /\ Len(t) \in Nat
    BY LenProperties
  <1>2. PICK p \in Bijection(DOMAIN t, DOMAIN t) : u = [i \in DOMAIN t |-> t[p[i]]]
    BY DEF Orderings
  <1>3. /\ p \in [D -> D]
        /\ \A j \in D : \E i \in D : p[i] = j
    BY <1>1, <1>2 DEF Bijection, Surjection, Injection
  <1>4. \A i \in D : u[i] = t[p[i]] /\ p[i] \in D
    BY <1>1, <1>2, <1>3
  <1>5. \A i \in D : u[i] \in Entry
    BY <1>4, EntryFacts
  <1>6. u = [i \in 1..Len(t) |-> u[i]]
    BY <1>1, <1>2
  <1>7. u \in Seq(Entry) /\ Len(u) = Len(t)
    BY <1>1, <1>5, <1>6, SMT
  <1>8. Sorted(u)
    BY DEF Orderings
  <1> QED
    BY <1>3, <1>4, <1>7, <1>8

-----------------------------------------------------------------------------
\* The empty table satisfies the invariant.
LEMMA InitIInv == Init => IInv
  <1> SUFFICES ASSUME Init PROVE IInv
    OBVIOUS
  <1>1. tab \in Seq(Entry) /\ Len(tab) = 0 /\ 1..Len(tab) = {} /\ DOMAIN tab = {}
    BY EmptySeq, SMT DEF Init
  <1>2. Sorted(tab)
    BY <1>1 DEF Sorted
  <1>3. TypeOK
    BY <1>1 DEF Init, TypeOK
  <1>4. TableOK
    BY <1>1, <1>2 DEF Init, TableOK
  <1> QED
    BY <1>3, <1>4 DEF Init, IInv, SearchBrackets

\* A registration keeps it and makes the table dirty.
LEMMA RegisterIInv ==
  ASSUME IInv, NEW a \in DOMAIN Handler, Register(a)
  PROVE  IInv'
  <1> DEFINE e == [addr |-> a, fn |-> Handler[a]]
             n == Len(tab)
  <1>1. tab \in Seq(Entry) /\ n \in Nat /\ cap \in Nat /\ n <= cap
    BY LenProperties DEF IInv, TableOK
  <1>2. e \in Entry
    BY HandlerInRange DEF Entry
  <1>3. /\ tab' = Append(tab, e) /\ tab' \in Seq(Entry) /\ Len(tab') = n + 1
        /\ \A i \in 1..n : tab'[i] = tab[i]
        /\ tab'[n + 1] = e
    BY <1>1, <1>2, AppendProperties DEF Register
  <1>4. cap' \in Nat /\ n + 1 <= cap'
    BY <1>1, DispatchAssumption, SMT DEF Register, Grown
  <1>5. known' = known \cup {a} /\ dirty' = TRUE /\ pc' = "idle"
    BY DEF Register
  <1>6. \A i \in 1..(n + 1) : i \in 1..n \/ i = n + 1
    BY <1>1
  <1>7. \A i \in 1..Len(tab') : /\ tab'[i].fn = Handler[tab'[i].addr]
                                /\ tab'[i].addr \in known'
    <2> SUFFICES ASSUME NEW i \in 1..(n + 1)
                 PROVE  /\ tab'[i].fn = Handler[tab'[i].addr]
                        /\ tab'[i].addr \in known'
      BY <1>3
    <2>1. CASE i \in 1..n
      BY <2>1, <1>3, <1>5 DEF IInv, TableOK
    <2>2. CASE i = n + 1
      BY <2>2, <1>3, <1>5
    <2> QED
      BY <2>1, <2>2, <1>6
  <1>8. \A b \in known' : \E i \in 1..Len(tab') : tab'[i].addr = b
    <2>1. ASSUME NEW b \in known PROVE \E i \in 1..(n + 1) : tab'[i].addr = b
      <3>1. PICK i \in 1..n : tab[i].addr = b
        BY DEF IInv, TableOK
      <3> QED
        BY <3>1, <1>1, <1>3
    <2>2. n + 1 \in 1..(n + 1) /\ tab'[n + 1].addr = a
      BY <1>1, <1>3
    <2> QED
      BY <2>1, <2>2, <1>3, <1>5
  <1>9. TypeOK'
    BY <1>3, <1>4, <1>5 DEF IInv, TypeOK, Register
  <1>10. SearchBrackets'
    BY <1>5 DEF SearchBrackets
  <1> QED
    BY <1>3, <1>4, <1>5, <1>7, <1>8, <1>9, <1>10 DEF IInv, TableOK

\* The sort keeps it and begins a search over the whole table.
LEMMA SortIInv ==
  ASSUME IInv, Sort
  PROVE  IInv'
  <1>1. tab \in Seq(Entry) /\ Len(tab) \in Nat
    BY LenProperties DEF IInv, TableOK
  <1>2. /\ tab' \in Seq(Entry) /\ Len(tab') = Len(tab) /\ Sorted(tab')
        /\ \A i \in 1..Len(tab) : \E j \in 1..Len(tab) : tab'[i] = tab[j]
        /\ \A j \in 1..Len(tab) : \E i \in 1..Len(tab) : tab'[i] = tab[j]
    <2>1. CASE dirty
      BY <2>1, <1>1, OrderingFacts DEF Sort
    <2>2. CASE ~dirty
      BY <2>2, <1>1 DEF Sort, IInv, TableOK
    <2> QED
      BY <2>1, <2>2
  <1>3. /\ dirty' = FALSE /\ lo' = 0 /\ hi' = Len(tab) /\ pc' = "search"
        /\ UNCHANGED <<cap, target, answer, known>>
    BY DEF Sort
  <1>4. TableOK'
    <2>1. \A i \in 1..Len(tab') : /\ tab'[i].fn = Handler[tab'[i].addr]
                                  /\ tab'[i].addr \in known'
      <3> SUFFICES ASSUME NEW i \in 1..Len(tab)
                   PROVE  /\ tab'[i].fn = Handler[tab'[i].addr]
                          /\ tab'[i].addr \in known
        BY <1>2, <1>3
      <3>1. PICK j \in 1..Len(tab) : tab'[i] = tab[j]
        BY <1>2
      <3> QED
        BY <3>1 DEF IInv, TableOK
    <2>2. \A a \in known' : \E i \in 1..Len(tab') : tab'[i].addr = a
      <3> SUFFICES ASSUME NEW a \in known
                   PROVE  \E i \in 1..Len(tab) : tab'[i].addr = a
        BY <1>2, <1>3
      <3>1. PICK j \in 1..Len(tab) : tab[j].addr = a
        BY DEF IInv, TableOK
      <3> QED
        BY <3>1, <1>2
    <2> QED
      BY <1>2, <1>3, <2>1, <2>2 DEF IInv, TableOK
  <1>5. TypeOK'
    <2>1. target \in Addresses /\ cap \in Nat /\ known \subseteq DOMAIN Handler
      BY DEF IInv, TypeOK, Sort
    <2>2. answer' \in [addr: Addresses \cup {Unregistered},
                      fn: Range(Handler) \cup {Unregistered}]
      BY <1>3 DEF IInv, TypeOK
    <2> QED
      BY <1>1, <1>2, <1>3, <2>1, <2>2 DEF TypeOK
  <1>6. SearchBrackets'
    <2>1. \A i \in 1..Len(tab') : ~(i <= 0) /\ ~(i > Len(tab))
      BY <1>1, <1>2
    <2> QED
      BY <1>1, <1>2, <1>3, <2>1 DEF SearchBrackets
  <1> QED
    BY <1>4, <1>5, <1>6 DEF IInv

\* The middle of an interval is in it, and halves it.
LEMMA MidFacts ==
  ASSUME NEW l \in Nat, NEW h \in Nat, l < h
  PROVE  LET m == l + ((h - l) \div 2)
         IN  /\ m \in Nat /\ l <= m /\ m < h
             /\ 2 * (m - l) <= h - l
             /\ 2 * (h - (m + 1)) <= h - l
  OBVIOUS

\* A turn of the search keeps the target between its ends.
LEMMA BisectIInv ==
  ASSUME IInv, Bisect
  PROVE  IInv' /\ 2 * (hi' - lo') <= hi - lo
  <1>1. /\ tab \in Seq(Entry) /\ Len(tab) \in Nat /\ Sorted(tab) /\ ~dirty
        /\ lo \in Nat /\ hi \in Nat /\ lo < hi /\ hi <= Len(tab)
        /\ DOMAIN tab = 1..Len(tab)
    BY LenProperties DEF IInv, TypeOK, SearchBrackets, Bisect
  <1>2. /\ Mid \in Nat /\ lo <= Mid /\ Mid < hi
        /\ 2 * (Mid - lo) <= hi - lo /\ 2 * (hi - (Mid + 1)) <= hi - lo
    BY <1>1, MidFacts DEF Mid
  <1>3. Mid + 1 \in 1..Len(tab)
    BY <1>1, <1>2
  <1>4. target \in Nat
    BY DispatchAssumption DEF IInv, TypeOK
  <1>5. \A i \in 1..Len(tab) : tab[i].addr \in Nat
    BY <1>1, EntryFacts
  <1>6. /\ \A i \in 1..Len(tab) : i <= Mid + 1 => tab[i].addr <= tab[Mid + 1].addr
        /\ \A i \in 1..Len(tab) : i > Mid => tab[i].addr >= tab[Mid + 1].addr
    <2> SUFFICES ASSUME NEW i \in 1..Len(tab)
                 PROVE  /\ i <= Mid + 1 => tab[i].addr <= tab[Mid + 1].addr
                        /\ i > Mid => tab[i].addr >= tab[Mid + 1].addr
      OBVIOUS
    <2>1. CASE i = Mid + 1
      BY <2>1, <1>3, <1>5
    <2>2. CASE i < Mid + 1
      BY <2>2, <1>1, <1>2, <1>3 DEF Sorted
    <2>3. CASE i > Mid + 1
      BY <2>3, <1>1, <1>2, <1>3 DEF Sorted
    <2> QED
      BY <2>1, <2>2, <2>3, <1>2
  <1>7. \A i \in 1..Len(tab) : /\ i <= lo => tab[i].addr < target
                               /\ i > hi => tab[i].addr >= target
    BY DEF IInv, SearchBrackets, Bisect
  <1>8. /\ UNCHANGED <<tab, cap, dirty, pc, target, answer, known>>
        /\ Sorted(tab')
    BY <1>1 DEF Bisect
  <1>9. CASE tab[Mid + 1].addr < target
    <2>1. lo' = Mid + 1 /\ hi' = hi
      BY <1>9 DEF Bisect
    <2>2. \A i \in 1..Len(tab) : i <= Mid + 1 => tab[i].addr < target
      BY <1>3, <1>4, <1>5, <1>6, <1>9
    <2>3. SearchBrackets'
      <3>1. lo' <= hi' /\ hi' <= Len(tab)
        BY <1>1, <1>2, <2>1
      <3>2. \A i \in 1..Len(tab) : /\ i <= lo' => tab[i].addr < target
                                   /\ i > hi' => tab[i].addr >= target
        BY <1>7, <2>1, <2>2, Zenon
      <3> QED
        BY <1>1, <1>8, <3>1, <3>2 DEF SearchBrackets
    <2> QED
      BY <1>2, <1>8, <2>1, <2>3 DEF IInv, TypeOK, TableOK
  <1>10. CASE ~(tab[Mid + 1].addr < target)
    <2>1. hi' = Mid /\ lo' = lo
      BY <1>10 DEF Bisect
    <2>2. \A i \in 1..Len(tab) : i > Mid => tab[i].addr >= target
      BY <1>3, <1>4, <1>5, <1>6, <1>10
    <2>3. SearchBrackets'
      <3>1. lo' <= hi' /\ hi' <= Len(tab)
        BY <1>1, <1>2, <2>1
      <3>2. \A i \in 1..Len(tab) : /\ i <= lo' => tab[i].addr < target
                                   /\ i > hi' => tab[i].addr >= target
        BY <1>7, <2>1, <2>2, Zenon
      <3> QED
        BY <1>1, <1>8, <3>1, <3>2 DEF SearchBrackets
    <2> QED
      BY <1>2, <1>8, <2>1, <2>3 DEF IInv, TypeOK, TableOK
  <1> QED
    BY <1>9, <1>10

\* At the end of the search the lower bound decides: an address that is not
\* there is nowhere in the table.
LEMMA FinishFinds ==
  ASSUME IInv, Finish
  PROVE  /\ Hit <=> target \in known
         /\ Hit => tab[lo + 1].fn = Handler[target] /\ target \in DOMAIN Handler
  <1>1. /\ tab \in Seq(Entry) /\ Len(tab) \in Nat /\ Sorted(tab)
        /\ lo \in Nat /\ hi = lo /\ lo <= Len(tab)
        /\ DOMAIN tab = 1..Len(tab)
    BY LenProperties DEF IInv, TypeOK, SearchBrackets, Finish
  <1>2. target \in Nat /\ \A i \in 1..Len(tab) : tab[i].addr \in Nat
    BY <1>1, EntryFacts, DispatchAssumption DEF IInv, TypeOK
  <1>3. \A i \in 1..Len(tab) : /\ i <= lo => tab[i].addr < target
                               /\ i > lo => tab[i].addr >= target
    BY <1>1 DEF IInv, SearchBrackets, Finish
  <1>4. ASSUME Hit
        PROVE  /\ target \in known
               /\ tab[lo + 1].fn = Handler[target] /\ target \in DOMAIN Handler
    <2>1. lo + 1 \in 1..Len(tab) /\ tab[lo + 1].addr = target
      BY <1>1, <1>4 DEF Hit
    <2> QED
      BY <1>1, <2>1, EntryFacts DEF IInv, TableOK
  <1>5. ASSUME target \in known PROVE Hit
    <2>1. PICK i \in 1..Len(tab) : tab[i].addr = target
      BY <1>5 DEF IInv, TableOK
    <2>2. i > lo
      <3>1. ~(i <= lo)
        <4> SUFFICES ASSUME i <= lo PROVE FALSE
          OBVIOUS
        <4>1. tab[i].addr < target /\ tab[i].addr \in Nat
          BY <1>2, <1>3
        <4> QED
          BY <4>1, <2>1
      <3> QED
        BY <3>1, <1>1
    <2>3. lo + 1 \in 1..Len(tab) /\ lo + 1 <= i
      BY <1>1, <2>2
    <2>4. tab[lo + 1].addr <= target
      <3>1. CASE i = lo + 1
        BY <3>1, <2>1, <1>2
      <3>2. CASE lo + 1 < i
        BY <3>2, <1>1, <2>1, <2>3 DEF Sorted
      <3> QED
        BY <3>1, <3>2, <2>3, <1>1
    <2>5. tab[lo + 1].addr >= target
      BY <1>1, <1>3, <2>3
    <2> QED
      BY <1>1, <1>2, <2>3, <2>4, <2>5 DEF Hit
  <1> QED
    BY <1>4, <1>5

\* A search that has ended leaves the table as it is.
LEMMA FinishIInv ==
  ASSUME IInv, Finish
  PROVE  IInv'
  <1>1. UNCHANGED <<tab, cap, dirty, target, lo, hi, known>> /\ pc' = "idle"
    BY DEF Finish
  <1>2. target \in Addresses
    BY DEF IInv, TypeOK, Finish
  <1>3. answer'.fn \in Range(Handler) \cup {Unregistered}
    BY FinishFinds, HandlerInRange DEF Finish
  <1>4. answer' \in [addr: Addresses \cup {Unregistered},
                    fn: Range(Handler) \cup {Unregistered}]
    BY <1>2, <1>3 DEF Finish
  <1>5. TypeOK'
    BY <1>1, <1>2, <1>4 DEF IInv, TypeOK
  <1>6. TableOK'
    BY <1>1 DEF IInv, TableOK, Sorted
  <1> QED
    BY <1>1, <1>5, <1>6 DEF IInv, SearchBrackets

-----------------------------------------------------------------------------
\* Every action keeps the invariant.
LEMMA NextIInv ==
  ASSUME IInv, [Next]_vars
  PROVE  IInv'
  <1>1. ASSUME NEW a \in DOMAIN Handler, Register(a) PROVE IInv'
    BY <1>1, RegisterIInv
  <1>2. ASSUME NEW a \in Addresses, Begin(a) PROVE IInv'
    BY <1>2 DEF Begin, IInv, TypeOK, TableOK, SearchBrackets, Sorted
  <1>3. ASSUME Lookup PROVE IInv'
    BY <1>3, SortIInv, BisectIInv, FinishIInv DEF Lookup
  <1>4. CASE UNCHANGED vars
    BY <1>4 DEF vars, IInv, TypeOK, TableOK, SearchBrackets, Sorted
  <1> QED
    BY <1>1, <1>2, <1>3, <1>4 DEF Next

\* The table holds what was registered, sorted when it is searched, in every state.
THEOREM Invariance == Spec => []IInv
  <1>1. Init => IInv
    BY InitIInv
  <1>2. IInv /\ [Next]_vars => IInv'
    BY NextIInv
  <1> QED
    BY <1>1, <1>2, PTL DEF Spec

\* The table never overflows its array, whatever its first capacity.
THEOREM ArrayFits == Spec => []TableFits
  <1>1. IInv => TableFits
    BY DEF IInv, TableOK, TableFits
  <1> QED
    BY <1>1, Invariance, PTL

\* In a table of any size, the interval of ngage_call's bisection brackets the
\* place of the target at every turn.
THEOREM SearchIsSound == Spec => []SearchBrackets
  <1>1. IInv => SearchBrackets
    BY DEF IInv
  <1> QED
    BY <1>1, Invariance, PTL

\* Every turn at least halves the interval, so a lookup takes a number of
\* turns logarithmic in the number of entries.
THEOREM LookupIsLogarithmic == Spec => SearchHalves
  <1>1. ASSUME IInv, [Next]_vars
        PROVE  [pc = "search" /\ pc' = "search" => 2 * (hi' - lo') <= hi - lo]_vars
    <2>1. CASE Bisect
      BY <1>1, <2>1, BisectIInv
    <2>2. CASE UNCHANGED vars
      BY <2>2
    <2>3. CASE Next /\ ~Bisect
      BY <2>3 DEF Next, Register, Begin, Lookup, Sort, Finish
    <2> QED
      BY <1>1, <2>1, <2>2, <2>3
  <1> QED
    BY <1>1, Invariance, PTL DEF Spec, SearchHalves

\* ngage_call finds the handler of every address registered before the call,
\* in whatever order registrations came, and of no other address.
THEOREM DispatchImplementsDirectory == Spec => ImplementsDirectory
  <1>1. Init => Promise!DInit
    BY DEF Init, Promise!DInit
  <1>2. ASSUME IInv, [Next]_vars PROVE [Promise!DNext]_(Promise!dvars)
    <2>1. ASSUME NEW a \in DOMAIN Handler, Register(a) PROVE Promise!DNext
      BY <2>1 DEF Register, Promise!DNext, Promise!Enter
    <2>2. ASSUME NEW a \in Addresses, Begin(a) PROVE UNCHANGED Promise!dvars
      BY <2>2 DEF Begin, Promise!dvars
    <2>3. CASE Sort \/ Bisect \/ UNCHANGED vars
      BY <2>3 DEF Sort, Bisect, vars, Promise!dvars
    <2>4. ASSUME Finish PROVE Promise!DNext
      <3>1. target \in Addresses /\ known' = known
        BY <2>4, <1>2 DEF IInv, TypeOK, Finish
      <3>2. answer' = [addr |-> target, fn |-> IF target \in known
                                              THEN Handler[target]
                                              ELSE Unregistered]
        BY <2>4, <1>2, FinishFinds DEF Finish
      <3> QED
        BY <3>1, <3>2 DEF Promise!DNext, Promise!Find
    <2> QED
      BY <1>2, <2>1, <2>2, <2>3, <2>4 DEF Next, Lookup
  <1> QED
    BY <1>1, <1>2, Invariance, PTL
    DEF Spec, ImplementsDirectory, Promise!DSpec

-----------------------------------------------------------------------------
\* Registered, or about to be before the factory returns.
Underway(a) == a \in known \/ \E i \in 1..Len(pending) : pending[i] = a

\* A factory registers methods only, and nothing is looked up in the meantime.
PendingOK == /\ pending \in Seq(DOMAIN Handler)
             /\ pending # << >> => pc = "idle"

\* The methods of a vtable that exists are registered or underway, and so are
\* those of the object that the game holds.
BuiltOK == \A k \in Kinds : k \in built => \A a \in MethodsOf(k) : Underway(a)
HeldOK == held # Nothing => /\ held.kind \in Kinds
                            /\ held.vtable => held.kind \in built
UniversalOK == universal.vtable => Hle \in built

FInv == PendingOK /\ BuiltOK /\ HeldOK /\ UniversalOK
OInv == IInv /\ FInv

\* A kind's methods, and their addresses.
LEMMA MethodFacts ==
  ASSUME NEW k \in Kinds
  PROVE  /\ Methods[k] \in Seq(DOMAIN Handler) /\ Len(Methods[k]) \in Nat
         /\ \A a \in MethodsOf(k) : \E i \in 1..Len(Methods[k]) : Methods[k][i] = a
         /\ MethodsOf(k) \subseteq DOMAIN Handler
  <1>1. Methods[k] \in Seq(DOMAIN Handler)
    BY ObjectsAssumption
  <1>2. Len(Methods[k]) \in Nat /\ DOMAIN Methods[k] = 1..Len(Methods[k])
    BY <1>1, LenProperties
  <1>3. \A a \in MethodsOf(k) : \E i \in 1..Len(Methods[k]) : Methods[k][i] = a
    BY <1>2 DEF MethodsOf, Range
  <1>4. \A i \in 1..Len(Methods[k]) : Methods[k][i] \in DOMAIN Handler
    BY <1>1, ElementOfSeq
  <1> QED
    BY <1>1, <1>2, <1>3, <1>4

-----------------------------------------------------------------------------
\* A factory leaves the table alone: what it does to it comes after, one
\* registration at a time.  Every step is one of the table's or a stutter.
LEMMA StepIsDispatch ==
  ASSUME FInv, [ONext]_ovars PROVE [Next]_vars
  <1>1. CASE RegisterNext
    <2>1. Head(pending) \in DOMAIN Handler
      BY <1>1, HeadTailProperties DEF RegisterNext, FInv, PendingOK
    <2> QED
      BY <1>1, <2>1 DEF RegisterNext, Next
  <1>2. ASSUME NEW k \in Kinds, Construct(k) \/ Make(k) PROVE UNCHANGED vars
    BY <1>2 DEF Construct, Make
  <1>3. CASE HleObject \/ Singleton
    BY <1>3 DEF HleObject, Singleton
  <1>4. ASSUME NEW i \in 1..MaxTable, VCall(i) PROVE Next
    <2>1. /\ Begin(Methods[held.kind][i]) /\ i \in DOMAIN Methods[held.kind]
          /\ held.kind \in Kinds
      BY <1>4 DEF VCall, FInv, HeldOK
    <2>2. Methods[held.kind][i] \in Addresses
      BY <2>1, MethodFacts, LenProperties, ElementOfSeq, DispatchAssumption
    <2> QED
      BY <2>1, <2>2 DEF Next
  <1>5. CASE Generated
    <2>1. Code \subseteq DOMAIN Handler
      BY DEF Code
    <2> QED
      BY <1>5, <2>1 DEF Generated, Next
  <1>6. CASE Lookup
    BY <1>6 DEF Next
  <1>7. CASE UNCHANGED ovars
    BY <1>7 DEF ovars
  <1> QED
    BY <1>1, <1>2, <1>3, <1>4, <1>5, <1>6, <1>7 DEF ONext

-----------------------------------------------------------------------------
\* One call of hle_vtable, obj_vtable or audio_vtable while nothing is pending.
LEMMA VtableFacts ==
  ASSUME FInv, pending = << >>, pc = "idle", UNCHANGED vars,
         NEW k \in Kinds, NEW got \in BOOLEAN, NEW times \in {1, 2},
         VtableCalls(k, got, times)
  PROVE  /\ PendingOK' /\ BuiltOK'
         /\ built \subseteq built' /\ (got => k \in built')
  <1>1. /\ Methods[k] \in Seq(DOMAIN Handler)
        /\ Methods[k] \o Methods[k] \in Seq(DOMAIN Handler)
        /\ << >> \in Seq(DOMAIN Handler)
    BY MethodFacts, ConcatProperties, EmptySeq
  <1>2. PendingOK'
    <2>1. pending' \in {<< >>, Methods[k], Methods[k] \o Methods[k]}
      BY DEF VtableCalls
    <2>2. pc' = "idle"
      BY DEF vars
    <2> QED
      BY <1>1, <2>1, <2>2 DEF PendingOK
  <1>3. built \subseteq built' /\ (got => k \in built') /\ built' \subseteq built \cup {k}
    BY DEF VtableCalls
  <1>4. ASSUME NEW l \in Kinds, l \in built', NEW a \in MethodsOf(l) PROVE Underway(a)'
    <2>1. CASE l \in built
      <3>1. Underway(a)
        BY <2>1, <1>4 DEF FInv, BuiltOK
      <3>2. ~ \E i \in 1..Len(pending) : pending[i] = a
        <4>1. 1..Len(pending) = {}
          BY EmptySeq, SMT
        <4> QED
          BY <4>1
      <3> QED
        BY <3>1, <3>2 DEF Underway, vars
    <2>2. CASE l \notin built
      <3>1. l = k /\ got /\ pending' = Methods[k]
        BY <2>2, <1>3, <1>4 DEF VtableCalls
      <3> QED
        BY <3>1, <1>4, MethodFacts DEF Underway
    <2> QED
      BY <2>1, <2>2
  <1> QED
    BY <1>2, <1>3, <1>4 DEF BuiltOK

\* One turn of the registering loop moves a method from pending to the table.
LEMMA RegisterNextFInv ==
  ASSUME FInv, RegisterNext PROVE FInv'
  <1>1. /\ pending \in Seq(DOMAIN Handler) /\ pending # << >>
        /\ pending' = Tail(pending) /\ known' = known \cup {Head(pending)}
        /\ pc' = "idle" /\ UNCHANGED <<built, universal, held>>
    BY DEF RegisterNext, Register, FInv, PendingOK
  <1>2. /\ Len(pending) \in Nat \ {0} /\ Head(pending) = pending[1]
        /\ Tail(pending) \in Seq(DOMAIN Handler) /\ Len(Tail(pending)) = Len(pending) - 1
        /\ \A i \in 1..(Len(pending) - 1) : Tail(pending)[i] = pending[i + 1]
    BY <1>1, HeadTailProperties, LenProperties, EmptySeq
  <1>3. ASSUME NEW a, Underway(a) PROVE Underway(a)'
    <2>1. CASE a \in known
      BY <2>1, <1>1 DEF Underway
    <2>2. CASE \E i \in 1..Len(pending) : pending[i] = a
      <3>1. PICK i \in 1..Len(pending) : pending[i] = a
        BY <2>2
      <3>2. CASE i = 1
        BY <3>1, <3>2, <1>1, <1>2 DEF Underway
      <3>3. CASE i # 1
        <4>1. i - 1 \in 1..(Len(pending) - 1) /\ (i - 1) + 1 = i
          BY <3>3, <1>2
        <4>2. pending'[i - 1] = a /\ i - 1 \in 1..Len(pending')
          BY <4>1, <3>1, <1>1, <1>2
        <4> QED
          BY <4>2 DEF Underway
      <3> QED
        BY <3>2, <3>3
    <2> QED
      BY <1>3, <2>1, <2>2 DEF Underway
  <1>4. PendingOK'
    BY <1>1, <1>2 DEF PendingOK
  <1>5. BuiltOK'
    BY <1>1, <1>3 DEF FInv, BuiltOK
  <1> QED
    BY <1>1, <1>4, <1>5 DEF FInv, HeldOK, UniversalOK

\* A factory that builds a vtable puts all its methods into pending.
LEMMA FactoryFInv ==
  ASSUME FInv, [ONext]_ovars PROVE FInv'
  <1> USE ObjectsAssumption
  <1>1. CASE RegisterNext
    BY <1>1, RegisterNextFInv
  <1>2. ASSUME NEW k \in Kinds, Construct(k) \/ Make(k) PROVE FInv'
    <2>1. PICK vtable \in BOOLEAN :
            /\ VtableCalls(k, vtable \/ k \in built, 1)
            /\ \/ held' = held
               \/ held' = [kind |-> k, vtable |-> vtable \/ k \in built,
                           member |-> FALSE, full |-> vtable \/ k \in built]
      BY <1>2 DEF Construct, Make, Handed
    <2>2. PendingOK' /\ BuiltOK' /\ built \subseteq built'
          /\ (vtable \/ k \in built => k \in built')
      BY <1>2, <2>1, VtableFacts DEF Construct, Make, Ready
    <2>3. HeldOK' /\ UniversalOK'
      BY <1>2, <2>1, <2>2 DEF FInv, HeldOK, UniversalOK, Construct, Make
    <2> QED
      BY <2>2, <2>3 DEF FInv
  <1>3. CASE HleObject
    <2>1. PICK room \in 0..3 :
            LET has == room >= 2 \/ Hle \in built
                there == room >= 3 \/ universal.made
            IN /\ VtableCalls(Hle, has, IF universal.made THEN 1 ELSE 2)
               /\ universal' \in {universal, [made |-> TRUE, vtable |-> has]}
               /\ held' \in {held, [kind |-> Hle, vtable |-> has, member |-> there,
                                    full |-> has /\ there]}
      BY <1>3 DEF HleObject, Handed
    <2> DEFINE has == room >= 2 \/ Hle \in built
               times == IF universal.made THEN 1 ELSE 2
    <2>2. has \in BOOLEAN /\ times \in {1, 2} /\ VtableCalls(Hle, has, times)
      BY <2>1
    <2>3. universal' = universal \/ universal'.vtable = has
      <3>1. universal' \in {universal, [made |-> TRUE, vtable |-> has]}
        BY <2>1
      <3> HIDE DEF has
      <3> QED
        BY <3>1
    <2>4. held' = held \/ (held'.kind = Hle /\ held'.vtable = has)
      <3>1. \E there \in BOOLEAN :
              held' \in {held, [kind |-> Hle, vtable |-> has, member |-> there,
                               full |-> has /\ there]}
        BY <2>1
      <3> HIDE DEF has
      <3> QED
        BY <3>1
    <2>5. pending = << >> /\ pc = "idle" /\ UNCHANGED vars
      BY <1>3 DEF HleObject, Ready
    <2> HIDE DEF has, times
    <2>6. PendingOK' /\ BuiltOK' /\ built \subseteq built' /\ (has => Hle \in built')
      BY <2>2, <2>5, VtableFacts
    <2>7. HeldOK' /\ UniversalOK'
      BY <2>6, <2>3, <2>4 DEF FInv, HeldOK, UniversalOK
    <2> QED
      BY <2>6, <2>7 DEF FInv
  <1>4. CASE Singleton
    <2>1. CASE universal.made
      <3>1. /\ UNCHANGED <<vars, built, universal, pending>>
            /\ held' \in {held, [kind |-> Hle, vtable |-> universal.vtable,
                                 member |-> TRUE, full |-> universal.vtable]}
        BY <1>4, <2>1 DEF Singleton, Handed
      <3>2. HeldOK' /\ UniversalOK'
        BY <3>1 DEF FInv, HeldOK, UniversalOK
      <3>3. PendingOK' /\ BuiltOK'
        <4>1. known' = known /\ pc' = pc
          BY <3>1 DEF vars
        <4> QED
          BY <3>1, <4>1 DEF FInv, PendingOK, BuiltOK, Underway
      <3> QED
        BY <3>2, <3>3 DEF FInv
    <2>2. CASE ~universal.made
      <3>1. PICK object \in BOOLEAN, vtable \in BOOLEAN :
              LET has == vtable \/ Hle \in built
              IN /\ VtableCalls(Hle, has, 1)
                 /\ universal' \in {universal, [made |-> TRUE, vtable |-> has]}
                 /\ held' \in {held, [kind |-> Hle, vtable |-> has, member |-> TRUE,
                                      full |-> has]}
        BY <1>4, <2>2 DEF Singleton, Handed
      <3>2. /\ PendingOK' /\ BuiltOK' /\ built \subseteq built'
            /\ (vtable \/ Hle \in built => Hle \in built')
        BY <1>4, <3>1, VtableFacts DEF Singleton, Ready
      <3>3. HeldOK' /\ UniversalOK'
        BY <3>1, <3>2 DEF FInv, HeldOK, UniversalOK
      <3> QED
        BY <3>2, <3>3 DEF FInv
    <2> QED
      BY <2>1, <2>2
  <1>5. CASE (\E i \in 1..MaxTable : VCall(i)) \/ Generated
    <2>1. /\ UNCHANGED factory /\ pending = << >>
          /\ known \subseteq known'
      BY <1>5 DEF VCall, Generated, Ready, Begin, Register
    <2> QED
      BY <2>1 DEF factory, FInv, PendingOK, BuiltOK, HeldOK, UniversalOK, Underway
  <1>6. CASE Lookup /\ UNCHANGED factory
    <2>1. pc # "idle" /\ known' = known
      BY <1>6 DEF Lookup, Sort, Bisect, Finish
    <2> QED
      BY <1>6, <2>1 DEF factory, FInv, PendingOK, BuiltOK, HeldOK, UniversalOK, Underway
  <1>7. CASE UNCHANGED ovars
    BY <1>7 DEF ovars, vars, factory, FInv, PendingOK, BuiltOK, HeldOK, UniversalOK, Underway
  <1> QED
    BY <1>1, <1>2, <1>3, <1>4, <1>5, <1>6, <1>7 DEF ONext

\* Nothing is built or pending at first.
LEMMA InitOInv == OInit => OInv
  <1> SUFFICES ASSUME OInit PROVE OInv
    OBVIOUS
  <1>1. IInv
    BY InitIInv DEF OInit
  <1>2. FInv
    BY EmptySeq DEF OInit, Absent, FInv, PendingOK, BuiltOK, HeldOK, UniversalOK
  <1> QED
    BY <1>1, <1>2 DEF OInv

\* The invariant of the table and the factories holds always.
LEMMA ObjectsInvariance == OSpec => []OInv
  <1>1. OInv /\ [ONext]_ovars => OInv'
    BY StepIsDispatch, NextIInv, FactoryFInv DEF OInv
  <1> QED
    BY <1>1, InitOInv, PTL DEF OSpec

-----------------------------------------------------------------------------
\* What holds of the dispatch table alone holds of the table that the factories
\* register in while the game runs.
THEOREM FactoriesUseTheTable == OSpec => Spec
  <1>1. OInit => Init
    BY DEF OInit
  <1>2. OInv /\ [ONext]_ovars => [Next]_vars
    BY StepIsDispatch DEF OInv
  <1> QED
    BY <1>1, <1>2, ObjectsInvariance, PTL DEF OSpec, Spec

\* Whatever is registered, in any order, and whichever allocations fail: a slot
\* of an object that has a vtable leads to the method of that slot.
THEOREM VirtualCallsReach == OSpec => VirtualCallsResolve
  <1>1. ASSUME OInv, [ONext]_ovars
        PROVE  [pc = "search" /\ pc' = "idle" /\ held # Nothing /\ held.vtable
                  /\ target \in MethodsOf(held.kind)
                  => answer'.fn = Handler[target]]_ovars
    <2> SUFFICES ASSUME pc = "search", pc' = "idle", held # Nothing, held.vtable,
                        target \in MethodsOf(held.kind)
                 PROVE  answer'.fn = Handler[target]
      OBVIOUS
    <2>1. Finish
      BY <1>1 DEF ONext, RegisterNext, Register, Construct, Make, HleObject, Singleton, VCall,
                  Generated, Ready, Lookup, Sort, Bisect, ovars, vars
    <2>2. pending = << >> /\ Underway(target)
      BY <1>1 DEF OInv, FInv, PendingOK, BuiltOK, HeldOK
    <2>3. target \in known
      <3>1. 1..Len(pending) = {}
        BY <2>2, EmptySeq, SMT
      <3> QED
        BY <2>2, <3>1 DEF Underway
    <2> QED
      BY <1>1, <2>1, <2>3, FinishFinds DEF OInv, Finish
  <1> QED
    BY <1>1, ObjectsInvariance, PTL DEF OSpec, VirtualCallsResolve

-----------------------------------------------------------------------------
\* The types of what the factories keep, and what a failed allocation leaves.
FactoryTypeOK ==
  /\ built \subseteq Kinds
  /\ universal \in [made : BOOLEAN, vtable : BOOLEAN]
  /\ held \in Object \cup {Nothing}
  /\ failed \in [Kinds -> 0..MaxFailed]

ChaseInv == /\ universal.made /\ ~universal.vtable => failed[Hle] > 0
            /\ ChaseStaysValid

\* Failures are counted, and a vtable that was not built has one.
LEMMA CallsCount ==
  ASSUME FactoryTypeOK, NEW k \in Kinds, NEW got \in BOOLEAN, NEW times \in {1, 2},
         VtableCalls(k, got, times), Bounded
  PROVE  /\ failed' \in [Kinds -> 0..MaxFailed] /\ built' \subseteq Kinds
         /\ \A l \in Kinds : failed'[l] >= failed[l]
         /\ k \notin built /\ ~got => failed'[k] > 0
  <1> USE ObjectsAssumption
  <1>1. \A l \in Kinds : failed[l] \in Nat
    BY DEF FactoryTypeOK
  <1>2. failed' \in [Kinds -> Nat] /\ \A l \in Kinds : failed'[l] >= failed[l]
    <2>1. CASE k \in built \/ got
      BY <2>1, <1>1 DEF VtableCalls, FactoryTypeOK
    <2>2. CASE ~(k \in built \/ got)
      <3>1. failed' = [failed EXCEPT ![k] = @ + times]
        BY <2>2 DEF VtableCalls
      <3>2. \A l \in Kinds : failed'[l] = IF l = k THEN failed[k] + times ELSE failed[l]
        BY <3>1 DEF FactoryTypeOK
      <3>3. \A l \in Kinds : failed'[l] \in Nat /\ failed'[l] >= failed[l]
        BY <3>2, <1>1
      <3>4. failed' = [l \in Kinds |-> failed'[l]]
        BY <3>1 DEF FactoryTypeOK
      <3> QED
        BY <3>3, <3>4
    <2> QED
      BY <2>1, <2>2
  <1>3. \A l \in Kinds : failed'[l] \in 0..MaxFailed
    BY <1>2 DEF Bounded
  <1>4. failed' \in [Kinds -> 0..MaxFailed]
    BY <1>2, <1>3
  <1>5. built' \subseteq Kinds
    BY DEF VtableCalls, FactoryTypeOK
  <1>6. ASSUME k \notin built, ~got PROVE failed'[k] > 0
    BY <1>6, <1>1 DEF VtableCalls, FactoryTypeOK
  <1> QED
    BY <1>2, <1>4, <1>5, <1>6

\* The parts of an object record.
LEMMA ObjectFacts ==
  ASSUME NEW o, NEW k \in Kinds, NEW v \in BOOLEAN, NEW m \in BOOLEAN, NEW s \in BOOLEAN,
         o = [kind |-> k, vtable |-> v, member |-> m, full |-> s]
  PROVE  o \in Object /\ o.kind = k /\ o.vtable = v /\ o.member = m /\ o.full = s
  BY DEF Object

\* A step that hands out an object, or none.
LEMMA HandOut ==
  ASSUME FactoryTypeOK, ChaseInv, NEW o \in Object, NEW handed \in BOOLEAN,
         held' = held \/ (held' = o /\ handed),
         failed[Hle] \in Nat, failed'[Hle] \in Nat, failed'[Hle] >= failed[Hle],
         universal.made => universal'.made,
         universal' = universal \/ ~universal.made,
         universal'.made /\ ~universal'.vtable => failed'[Hle] > 0,
         handed /\ o.full => /\ o.vtable
                             /\ o.kind = Hle => o.member /\ universal'.made
  PROVE  held' \in Object \cup {Nothing} /\ ChaseInv'
  <1>1. held' \in Object \cup {Nothing}
    BY DEF FactoryTypeOK
  <1>2. CASE held' = o /\ handed
    BY <1>1, <1>2 DEF ChaseInv, ChaseStaysValid
  <1>3. CASE held' = held
    <2>1. held # Nothing /\ held.full =>
            held.vtable /\ (held.kind = Hle => held.member /\ universal.made)
      BY DEF ChaseInv, ChaseStaysValid
    <2>2. universal'.made => universal'.vtable \/ failed'[Hle] > 0
      OBVIOUS
    <2>3. held' # Nothing /\ held'.full =>
            held'.vtable /\ (held'.kind = Hle => held'.member /\ universal'.made)
      BY <1>3, <2>1
    <2>4. ChaseStaysValid'
      BY <2>2, <2>3, Zenon DEF ChaseStaysValid
    <2> QED
      BY <1>1, <2>4 DEF ChaseInv
  <1> QED
    BY <1>1, <1>2, <1>3

\* Every step hands out objects whose pointers lead somewhere, or counts a failure.
LEMMA ChaseNext ==
  ASSUME OInv, FactoryTypeOK, ChaseInv, [ONext]_ovars
  PROVE  FactoryTypeOK' /\ ChaseInv'
  <1> USE ObjectsAssumption
  <1>1. ASSUME NEW k \in Kinds, Construct(k) \/ Make(k) PROVE FactoryTypeOK' /\ ChaseInv'
    <2>1. PICK vtable \in BOOLEAN :
            /\ VtableCalls(k, vtable \/ k \in built, 1)
            /\ \/ held' = held
               \/ held' = [kind |-> k, vtable |-> vtable \/ k \in built,
                           member |-> FALSE, full |-> vtable \/ k \in built]
      BY <1>1 DEF Construct, Make, Handed
    <2>2. k # Hle /\ Bounded /\ universal' = universal
      BY <1>1 DEF Construct, Make
    <2>3. /\ failed' \in [Kinds -> 0..MaxFailed] /\ built' \subseteq Kinds
          /\ failed'[Hle] >= failed[Hle]
      BY <2>1, <2>2, CallsCount
    <2>4. failed[Hle] \in Nat /\ failed'[Hle] \in Nat
      BY <2>3 DEF FactoryTypeOK
    <2>5. failed[Hle] > 0 => failed'[Hle] > 0
      BY <2>3, <2>4
    <2> DEFINE v == vtable \/ k \in built
               o == [kind |-> k, vtable |-> v, member |-> FALSE, full |-> v]
    <2>6. held' = held \/ held' = o
      BY <2>1
    <2>7. o \in Object /\ o.kind = k /\ o.vtable = v /\ o.full = v
      BY DEF Object
    <2> HIDE DEF v, o
    <2>8. held' \in Object \cup {Nothing} /\ ChaseInv'
      <3>1. universal'.made /\ ~universal'.vtable => failed'[Hle] > 0
        BY <2>2, <2>5 DEF ChaseInv
      <3> QED
        BY <2>2, <2>3, <2>4, <2>6, <2>7, <3>1, HandOut
    <2> QED
      BY <2>2, <2>3, <2>8 DEF FactoryTypeOK
  <1>2. CASE HleObject
    <2>1. PICK room \in 0..3 :
            LET has == room >= 2 \/ Hle \in built
                there == room >= 3 \/ universal.made
            IN /\ VtableCalls(Hle, has, IF universal.made THEN 1 ELSE 2)
               /\ universal' = IF there /\ ~universal.made
                               THEN [made |-> TRUE, vtable |-> has]
                               ELSE universal
               /\ held' \in {held, [kind |-> Hle, vtable |-> has, member |-> there,
                                    full |-> has /\ there]}
      BY <1>2 DEF HleObject, Handed
    <2> DEFINE has == room >= 2 \/ Hle \in built
               there == room >= 3 \/ universal.made
               times == IF universal.made THEN 1 ELSE 2
    <2>2. /\ has \in BOOLEAN /\ there \in BOOLEAN /\ times \in {1, 2}
          /\ VtableCalls(Hle, has, times) /\ Bounded
      BY <1>2, <2>1 DEF FactoryTypeOK, HleObject
    <2>3. universal' = IF there /\ ~universal.made THEN [made |-> TRUE, vtable |-> has]
                       ELSE universal
      BY <2>1
    <2>4. held' = held \/ held' = [kind |-> Hle, vtable |-> has, member |-> there,
                                  full |-> has /\ there]
      BY <2>1
    <2>5. there /\ ~universal.made => has
      OBVIOUS
    <2> HIDE DEF has, there, times
    <2>6. /\ failed' \in [Kinds -> 0..MaxFailed] /\ built' \subseteq Kinds
          /\ failed'[Hle] >= failed[Hle]
      BY <2>2, CallsCount
    <2>7. failed[Hle] \in Nat /\ failed'[Hle] \in Nat
      BY <2>6 DEF FactoryTypeOK
    <2>8. failed[Hle] > 0 => failed'[Hle] > 0
      BY <2>6, <2>7
    <2> DEFINE o == [kind |-> Hle, vtable |-> has, member |-> there,
                     full |-> has /\ there]
    <2>9. /\ o \in Object /\ o.kind = Hle /\ o.vtable = has /\ o.member = there
          /\ o.full = (has /\ there) /\ (held' = held \/ held' = o)
      <3>1. (has /\ there) \in BOOLEAN
        OBVIOUS
      <3> QED
        BY <2>2, <2>4, <3>1, ObjectFacts
    <2> HIDE DEF o
    <2>10. /\ universal'.made /\ ~universal'.vtable => failed'[Hle] > 0
           /\ universal.made => universal'.made
           /\ there => universal'.made
           /\ universal' = universal \/ ~universal.made
      BY <2>3, <2>5, <2>8 DEF ChaseInv
    <2>11. held' \in Object \cup {Nothing} /\ ChaseInv'
      BY <2>6, <2>7, <2>9, <2>10, HandOut
    <2>12. universal' \in [made : BOOLEAN, vtable : BOOLEAN]
      BY <2>2, <2>3 DEF FactoryTypeOK
    <2> QED
      BY <2>6, <2>11, <2>12 DEF FactoryTypeOK
  <1>3. CASE Singleton
    <2>1. CASE universal.made
      <3>1. /\ UNCHANGED <<built, universal, failed>>
            /\ \/ held' = held
               \/ held' = [kind |-> Hle, vtable |-> universal.vtable,
                           member |-> TRUE, full |-> universal.vtable]
        BY <1>3, <2>1 DEF Singleton, Handed
      <3>2. universal.vtable \in BOOLEAN
        BY DEF FactoryTypeOK
      <3> DEFINE o == [kind |-> Hle, vtable |-> universal.vtable, member |-> TRUE,
                       full |-> universal.vtable]
      <3>3. /\ o \in Object /\ o.kind = Hle /\ o.vtable = universal.vtable /\ o.member
            /\ o.full = universal.vtable /\ (held' = held \/ held' = o)
        BY <3>1, <3>2, ObjectFacts
      <3> HIDE DEF o
      <3>4. failed[Hle] \in Nat /\ failed'[Hle] = failed[Hle]
        BY <3>1 DEF FactoryTypeOK
      <3>5. universal'.made /\ ~universal'.vtable => failed'[Hle] > 0
        BY <3>1 DEF ChaseInv
      <3>6. held' \in Object \cup {Nothing} /\ ChaseInv'
        <4>1. failed'[Hle] >= failed[Hle] /\ failed'[Hle] \in Nat
          BY <3>4
        <4> QED
          BY <2>1, <3>1, <3>3, <3>4, <3>5, <4>1, HandOut
      <3> QED
        BY <3>1, <3>6 DEF FactoryTypeOK
    <2>2. CASE ~universal.made
      <3>1. PICK object \in BOOLEAN, vtable \in BOOLEAN :
              LET has == vtable \/ Hle \in built
              IN /\ VtableCalls(Hle, has, 1)
                 /\ universal' = IF object THEN [made |-> TRUE, vtable |-> has] ELSE universal
                 /\ \/ held' = held
                    \/ object /\ held' = [kind |-> Hle, vtable |-> has, member |-> TRUE,
                                          full |-> has]
        BY <1>3, <2>2 DEF Singleton, Handed
      <3> DEFINE has == vtable \/ Hle \in built
      <3>2. /\ has \in BOOLEAN /\ VtableCalls(Hle, has, 1) /\ Bounded
            /\ universal' = IF object THEN [made |-> TRUE, vtable |-> has] ELSE universal
            /\ \/ held' = held
               \/ object /\ held' = [kind |-> Hle, vtable |-> has, member |-> TRUE,
                                     full |-> has]
        BY <1>3, <3>1 DEF Singleton
      <3>3. ~has => Hle \notin built
        OBVIOUS
      <3> HIDE DEF has
      <3>4. /\ failed' \in [Kinds -> 0..MaxFailed] /\ built' \subseteq Kinds
            /\ failed'[Hle] >= failed[Hle] /\ (~has => failed'[Hle] > 0)
        BY <3>2, <3>3, CallsCount
      <3>5. failed[Hle] \in Nat /\ failed'[Hle] \in Nat
        BY <3>4 DEF FactoryTypeOK
      <3>6. failed[Hle] > 0 => failed'[Hle] > 0
        BY <3>4, <3>5
      <3> DEFINE o == [kind |-> Hle, vtable |-> has, member |-> TRUE, full |-> has]
      <3>7. /\ o \in Object /\ o.kind = Hle /\ o.vtable = has /\ o.member
            /\ o.full = has /\ (held' = held \/ (object /\ held' = o))
        BY <3>2, ObjectFacts
      <3> HIDE DEF o
      <3>8. /\ universal'.made /\ ~universal'.vtable => failed'[Hle] > 0
            /\ object => universal'.made
            /\ universal' \in [made : BOOLEAN, vtable : BOOLEAN]
        BY <2>2, <3>2, <3>4, <3>6 DEF ChaseInv, FactoryTypeOK
      <3>9. held' \in Object \cup {Nothing} /\ ChaseInv'
        BY <2>2, <3>4, <3>5, <3>7, <3>8, HandOut
      <3> QED
        BY <3>4, <3>8, <3>9 DEF FactoryTypeOK
    <2> QED
      BY <2>1, <2>2
  <1>4. CASE UNCHANGED <<built, universal, held, failed>>
    BY <1>4 DEF FactoryTypeOK, ChaseInv, ChaseStaysValid
  <1>5. CASE RegisterNext \/ (\E i \in 1..MaxTable : VCall(i)) \/ Generated
             \/ (Lookup /\ UNCHANGED factory) \/ UNCHANGED ovars
    BY <1>4, <1>5 DEF RegisterNext, VCall, Generated, factory, ovars
  <1> QED
    BY <1>1, <1>2, <1>3, <1>5 DEF ONext

\* So that holds always.
LEMMA ChaseInvariance == OSpec => [](OInv /\ FactoryTypeOK /\ ChaseInv)
  <1>1. OInit => FactoryTypeOK /\ ChaseInv
    BY ObjectsAssumption DEF OInit, Absent, FactoryTypeOK, ChaseInv, ChaseStaysValid
  <1>2. OInv /\ FactoryTypeOK /\ ChaseInv /\ [ONext]_ovars
          => (FactoryTypeOK /\ ChaseInv)'
    BY ChaseNext
  <1> QED
    BY <1>1, <1>2, ObjectsInvariance, PTL DEF OSpec

\* Type correctness of the table and of the factories, the table inside its
\* array included.
THEOREM ObjectTypes == OSpec => []OTypeOK
  <1>1. OInv /\ FactoryTypeOK => OTypeOK
    BY DEF OInv, IInv, TableOK, FInv, PendingOK, FactoryTypeOK, OTypeOK
  <1> QED
    BY <1>1, ChaseInvariance, PTL

\* A chain of pointers out of an object that was made in full stays in objects
\* with a vtable, unless an earlier allocation of the vtable failed.
THEOREM ChasesAreSafe == OSpec => []ChaseStaysValid
  <1>1. ChaseInv => ChaseStaysValid
    BY DEF ChaseInv
  <1> QED
    BY <1>1, ChaseInvariance, PTL

-----------------------------------------------------------------------------
\* Where an address is in the table, and where among what is to be registered.
InTable(a) == {i \in DOMAIN tab : tab[i].addr = a}
ToCome(a) == {i \in DOMAIN pending : pending[i] = a}

\* What RegisteredOnce needs to be inductive: before its vtable exists, a method
\* is registered at most once for each allocation that failed.
CountsOK ==
  \A k \in Kinds : \A a \in MethodsOf(k) :
    Cardinality(InTable(a)) + Cardinality(ToCome(a))
      <= failed[k] + (IF k \in built THEN 1 ELSE 0)

\* A set of places in a sequence is finite.
LEMMA PlacesAreFinite ==
  ASSUME NEW n \in Nat, NEW P \in SUBSET (1..n)
  PROVE  IsFiniteSet(P) /\ Cardinality(P) \in Nat
  <1>1. IsFiniteSet(1..n)
    BY FS_Interval
  <1>2. IsFiniteSet(P)
    BY <1>1, FS_Subset
  <1> QED
    BY <1>2, FS_CardinalityType

\* A set whose members all differ in what f says of them is not larger than
\* the set that f leads to.
LEMMA Injected ==
  ASSUME NEW S, NEW T, IsFiniteSet(T), NEW f \in [S -> T],
         \A x, y \in S : f[x] = f[y] => x = y
  PROVE  Cardinality(S) <= Cardinality(T)
  <1>1. f \in Injection(S, T)
    BY DEF Injection, IsInjective
  <1> QED
    BY <1>1, FS_Injection

\* The places of a method in the table and in pending are finite in number.
LEMMA CountFacts ==
  ASSUME TypeOK, PendingOK, NEW a
  PROVE  /\ IsFiniteSet(InTable(a)) /\ Cardinality(InTable(a)) \in Nat
         /\ IsFiniteSet(ToCome(a)) /\ Cardinality(ToCome(a)) \in Nat
         /\ InTable(a) \subseteq 1..Len(tab) /\ ToCome(a) \subseteq 1..Len(pending)
         /\ Len(tab) \in Nat /\ Len(pending) \in Nat
         /\ DOMAIN tab = 1..Len(tab) /\ DOMAIN pending = 1..Len(pending)
  <1>1. /\ Len(tab) \in Nat /\ DOMAIN tab = 1..Len(tab)
        /\ Len(pending) \in Nat /\ DOMAIN pending = 1..Len(pending)
    BY LenProperties DEF TypeOK, PendingOK
  <1>2. InTable(a) \subseteq 1..Len(tab) /\ ToCome(a) \subseteq 1..Len(pending)
    BY <1>1 DEF InTable, ToCome
  <1> QED
    BY <1>1, <1>2, PlacesAreFinite

\* The same of the state after a step.
LEMMA CountFactsNext ==
  ASSUME TypeOK', PendingOK', NEW a
  PROVE  Cardinality(InTable(a)') \in Nat /\ Cardinality(ToCome(a)') \in Nat
  <1>1. /\ Len(tab)' \in Nat /\ DOMAIN tab' = 1..Len(tab)'
        /\ Len(pending)' \in Nat /\ DOMAIN pending' = 1..Len(pending)'
    BY LenProperties DEF TypeOK, PendingOK
  <1>2. InTable(a)' \subseteq 1..Len(tab)' /\ ToCome(a)' \subseteq 1..Len(pending)'
    BY <1>1 DEF InTable, ToCome
  <1> QED
    BY <1>1, <1>2, PlacesAreFinite

\* A registration adds one place for its address.
LEMMA RegisterCounts ==
  ASSUME TypeOK, NEW a \in DOMAIN Handler, Register(a), NEW b
  PROVE  /\ IsFiniteSet(InTable(b)) /\ Cardinality(InTable(b)) \in Nat
         /\ Cardinality(InTable(b)') <= Cardinality(InTable(b)) + (IF b = a THEN 1 ELSE 0)
         /\ Cardinality(InTable(b)') \in Nat
  <1> DEFINE e == [addr |-> a, fn |-> Handler[a]]
             n == Len(tab)
  <1>1. tab \in Seq(Entry) /\ n \in Nat /\ DOMAIN tab = 1..n /\ e \in Entry
    BY LenProperties, HandlerInRange DEF TypeOK, Entry
  <1>2. /\ tab' = Append(tab, e) /\ tab' \in Seq(Entry) /\ Len(tab') = n + 1
        /\ \A i \in 1..n : tab'[i] = tab[i]
        /\ tab'[n + 1] = e
    BY <1>1, AppendProperties DEF Register
  <1>3. DOMAIN tab' = 1..(n + 1) /\ \A i \in 1..(n + 1) : i \in 1..n \/ i = n + 1
    BY <1>1, <1>2, LenProperties
  <1>4. IsFiniteSet(InTable(b)) /\ Cardinality(InTable(b)) \in Nat
    <2>1. InTable(b) \subseteq 1..n
      BY <1>1 DEF InTable
    <2> QED
      BY <1>1, <2>1, PlacesAreFinite
  <1>5. InTable(b)' \subseteq IF b = a THEN InTable(b) \cup {n + 1} ELSE InTable(b)
    <2>1. ASSUME NEW i \in 1..(n + 1), tab'[i].addr = b
          PROVE  i \in InTable(b) \/ (i = n + 1 /\ b = a)
      <3>1. CASE i \in 1..n
        BY <3>1, <2>1, <1>1, <1>2 DEF InTable
      <3>2. CASE i = n + 1
        BY <3>2, <2>1, <1>2
      <3> QED
        BY <3>1, <3>2, <1>3
    <2>2. InTable(b)' = {i \in 1..(n + 1) : tab'[i].addr = b}
      BY <1>3 DEF InTable
    <2> QED
      BY <2>1, <2>2
  <1>6. /\ IsFiniteSet(InTable(b) \cup {n + 1})
        /\ Cardinality(InTable(b) \cup {n + 1}) <= Cardinality(InTable(b)) + 1
    <2> DEFINE S == InTable(b)
               T == S \cup {n + 1}
    <2> HIDE DEF S
    <2>1. IsFiniteSet(S) /\ Cardinality(S) \in Nat
      BY <1>4 DEF S
    <2>2. IsFiniteSet(T) /\ Cardinality(T) = IF n + 1 \in S THEN Cardinality(S)
                                                           ELSE Cardinality(S) + 1
      BY <2>1, FS_AddElement
    <2>3. Cardinality(T) <= Cardinality(S) + 1
      BY <2>1, <2>2
    <2> QED
      BY <2>2, <2>3 DEF S
  <1>7. CASE b = a
    <2>1. Cardinality(InTable(b)') <= Cardinality(InTable(b) \cup {n + 1})
          /\ IsFiniteSet(InTable(b)')
      BY <1>5, <1>6, <1>7, FS_Subset
    <2>2. Cardinality(InTable(b)') \in Nat /\ Cardinality(InTable(b) \cup {n + 1}) \in Nat
      BY <2>1, <1>6, FS_CardinalityType
    <2> QED
      BY <1>4, <1>6, <1>7, <2>1, <2>2
  <1>8. CASE b # a
    <2>1. Cardinality(InTable(b)') <= Cardinality(InTable(b)) /\ IsFiniteSet(InTable(b)')
      BY <1>4, <1>5, <1>8, FS_Subset
    <2>2. Cardinality(InTable(b)') \in Nat
      BY <2>1, FS_CardinalityType
    <2> QED
      BY <1>4, <1>8, <2>1, <2>2
  <1> QED
    BY <1>4, <1>7, <1>8

\* Registering what is at the head of what is to come moves its place.
LEMMA RegisterNextCounts ==
  ASSUME TypeOK, PendingOK, RegisterNext, NEW b
  PROVE  Cardinality(InTable(b)') + Cardinality(ToCome(b)')
           <= Cardinality(InTable(b)) + Cardinality(ToCome(b))
  <1> DEFINE m == Len(pending)
             a == Head(pending)
  <1>1. pending # << >> /\ pending' = Tail(pending) /\ Register(a)
    BY DEF RegisterNext
  <1>2. /\ pending \in Seq(DOMAIN Handler) /\ m \in Nat \ {0}
        /\ DOMAIN pending = 1..m /\ a = pending[1] /\ a \in DOMAIN Handler
        /\ DOMAIN pending' = 1..(m - 1)
        /\ \A i \in 1..(m - 1) : pending'[i] = pending[i + 1]
    <2>1. pending \in Seq(DOMAIN Handler)
      BY DEF PendingOK
    <2> QED
      BY <1>1, <2>1, EmptySeq, LenProperties, HeadTailProperties, ElementOfSeq
  <1>3. /\ Cardinality(InTable(b)) \in Nat /\ Cardinality(InTable(b)') \in Nat
        /\ Cardinality(InTable(b)') <= Cardinality(InTable(b)) + (IF b = a THEN 1 ELSE 0)
    BY <1>1, <1>2, RegisterCounts
  <1>4. /\ IsFiniteSet(ToCome(b)) /\ Cardinality(ToCome(b)) \in Nat
        /\ IsFiniteSet(ToCome(b) \ {1}) /\ Cardinality(ToCome(b) \ {1}) \in Nat
        /\ Cardinality(ToCome(b) \ {1}) = IF 1 \in ToCome(b) THEN Cardinality(ToCome(b)) - 1
                                                            ELSE Cardinality(ToCome(b))
    <2>1. IsFiniteSet(ToCome(b)) /\ Cardinality(ToCome(b)) \in Nat
      BY CountFacts
    <2>2. /\ IsFiniteSet(ToCome(b) \ {1})
          /\ Cardinality(ToCome(b) \ {1}) = IF 1 \in ToCome(b) THEN Cardinality(ToCome(b)) - 1
                                                              ELSE Cardinality(ToCome(b))
      BY <2>1, FS_RemoveElement
    <2> QED
      BY <2>1, <2>2, FS_CardinalityType
  <1>5. 1 \in ToCome(b) <=> b = a
    BY <1>2 DEF ToCome
  <1>6. ToCome(b)' = {i \in 1..(m - 1) : pending[i + 1] = b}
    BY <1>1, <1>2 DEF ToCome
  <1>7. Cardinality(ToCome(b)') <= Cardinality(ToCome(b) \ {1})
    <2> DEFINE f == [i \in ToCome(b)' |-> i + 1]
               T == ToCome(b) \ {1}
    <2>1. \A i \in ToCome(b)' : i \in Int /\ i + 1 \in T
      <3>1. ASSUME NEW i \in 1..(m - 1), pending[i + 1] = b
            PROVE  i + 1 \in 1..m /\ i + 1 # 1
        BY <1>2
      <3> QED
        BY <1>2, <1>6, <3>1 DEF ToCome
    <2>2. f \in [ToCome(b)' -> T] /\ \A x, y \in ToCome(b)' : f[x] = f[y] => x = y
      BY <2>1
    <2> QED
      BY <1>4, <2>2, Injected
  <1>8. Cardinality(ToCome(b)') \in Nat
    <2>1. ToCome(b)' \subseteq 1..(m - 1) /\ m - 1 \in Nat
      BY <1>2, <1>6
    <2> QED
      BY <2>1, PlacesAreFinite
  <1> QED
    BY <1>3, <1>4, <1>5, <1>7, <1>8

\* Sorting keeps the number of places of an address.
LEMMA SortCounts ==
  ASSUME TypeOK, Sort, NEW b
  PROVE  Cardinality(InTable(b)') <= Cardinality(InTable(b))
  <1>1. DOMAIN tab = 1..Len(tab) /\ Len(tab) \in Nat
    BY LenProperties DEF TypeOK
  <1>2. IsFiniteSet(InTable(b)) /\ Cardinality(InTable(b)) \in Nat
    <2>1. InTable(b) \subseteq 1..Len(tab)
      BY <1>1 DEF InTable
    <2> QED
      BY <1>1, <2>1, PlacesAreFinite
  <1>3. CASE ~dirty
    <2>1. tab' = tab
      BY <1>3 DEF Sort
    <2> QED
      BY <2>1, <1>2 DEF InTable
  <1>4. CASE dirty
    <2>1. tab' \in Orderings(tab)
      BY <1>4 DEF Sort
    <2>2. PICK p \in Bijection(DOMAIN tab, DOMAIN tab) :
            tab' = [i \in DOMAIN tab |-> tab[p[i]]]
      BY <2>1 DEF Orderings
    <2>3. /\ p \in [DOMAIN tab -> DOMAIN tab]
          /\ \A x, y \in DOMAIN tab : p[x] = p[y] => x = y
      BY <2>2 DEF Bijection, Injection, IsInjective
    <2>4. InTable(b)' = {i \in DOMAIN tab : tab[p[i]].addr = b}
      BY <2>2 DEF InTable
    <2> DEFINE f == [i \in InTable(b)' |-> p[i]]
    <2>5. /\ f \in [InTable(b)' -> InTable(b)]
          /\ \A x, y \in InTable(b)' : f[x] = f[y] => x = y
      BY <2>3, <2>4 DEF InTable
    <2> QED
      BY <1>2, <2>5, Injected
  <1> QED
    BY <1>3, <1>4

\* A call of a vtable function leaves what RegisteredOnce allows to come.
LEMMA VtableCounts ==
  ASSUME TypeOK, FInv, FactoryTypeOK, CountsOK, pending = << >>, UNCHANGED vars,
         NEW k \in Kinds, NEW got \in BOOLEAN, NEW times \in {1, 2},
         VtableCalls(k, got, times)
  PROVE  CountsOK'
  <1> SUFFICES ASSUME NEW l \in Kinds, NEW a \in MethodsOf(l)
               PROVE  Cardinality(InTable(a)') + Cardinality(ToCome(a)')
                        <= failed'[l] + (IF l \in built' THEN 1 ELSE 0)
    BY DEF CountsOK
  <1>1. /\ Cardinality(InTable(a)) + Cardinality(ToCome(a))
             <= failed[l] + (IF l \in built THEN 1 ELSE 0)
        /\ Cardinality(InTable(a)) \in Nat /\ failed[l] \in Nat
    BY CountFacts DEF CountsOK, FInv, FactoryTypeOK
  <1>2. ToCome(a) = {} /\ Cardinality(ToCome(a)) = 0
    <2>1. DOMAIN pending = {}
      BY EmptySeq, SMT
    <2> QED
      BY <2>1, FS_EmptySet DEF ToCome
  <1>3. InTable(a)' = InTable(a)
    BY DEF InTable, vars
  <1> DEFINE n == Len(Methods[k])
  <1>4. Methods[k] \in Seq(DOMAIN Handler) /\ n \in Nat /\ DOMAIN Methods[k] = 1..n
    BY MethodFacts, LenProperties
  <1>5. /\ \A i, j \in 1..n : Methods[k][i] = Methods[k][j] => i = j
        /\ \A i \in 1..n : Methods[k][i] \in MethodsOf(k)
    BY <1>4, ObjectsAssumption DEF IsInjective, MethodsOf, Range
  <1>6. failed' = failed \/ (k \notin built /\ ~got /\ failed' = [failed EXCEPT ![k] = @ + times])
    BY DEF VtableCalls
  <1>7. failed'[l] \in Nat /\ failed'[l] >= failed[l]
        /\ (l \in built => l \in built')
    BY <1>1, <1>6 DEF VtableCalls, FactoryTypeOK
  <1>8. CASE ToCome(a)' = {}
    <2>1. Cardinality(ToCome(a)') = 0
      BY <1>8, FS_EmptySet
    <2> QED
      BY <1>1, <1>2, <1>3, <1>7, <2>1
  <1>9. CASE k \in built
    <2>1. pending' = << >>
      BY <1>9 DEF VtableCalls
    <2>2. DOMAIN pending' = {}
      BY <2>1, EmptySeq, SMT
    <2> QED
      BY <1>8, <2>2 DEF ToCome
  <1>10. CASE k \notin built /\ l # k
    <2>1. a \notin MethodsOf(k)
      BY <1>10, ObjectsAssumption
    <2>2. pending' = Methods[k] \/ pending' = Methods[k] \o Methods[k]
      BY <1>10 DEF VtableCalls
    <2>3. \A i \in DOMAIN pending' : pending'[i] \in MethodsOf(k)
      <3>1. CASE pending' = Methods[k]
        BY <1>4, <1>5, <3>1
      <3>2. CASE pending' = Methods[k] \o Methods[k]
        <4>1. DOMAIN pending' = 1..(n + n)
              /\ \A i \in 1..(n + n) :
                   pending'[i] = Methods[k][IF i <= n THEN i ELSE i - n]
          BY <3>2, <1>4, ConcatProperties, LenProperties
        <4>2. \A i \in 1..(n + n) : (IF i <= n THEN i ELSE i - n) \in 1..n
          BY <1>4
        <4> QED
          BY <1>5, <4>1, <4>2
      <3> QED
        BY <2>2, <3>1, <3>2
    <2>4. ToCome(a)' = {}
      BY <2>1, <2>3 DEF ToCome
    <2> QED
      BY <1>8, <2>4
  <1>11. CASE k \notin built /\ l = k
    <2>1. CASE pending' = Methods[k]
      <3>1. \A i, j \in ToCome(a)' : i = j
        BY <1>4, <1>5, <2>1 DEF ToCome
      <3>2. Cardinality(ToCome(a)') \in Nat /\ Cardinality(ToCome(a)') <= 1
        <4>1. PICK x : ToCome(a)' \subseteq {x}
          BY <3>1
        <4>2. IsFiniteSet({x}) /\ Cardinality({x}) = 1
          BY FS_Singleton
        <4>3. IsFiniteSet(ToCome(a)') /\ Cardinality(ToCome(a)') <= 1
          BY <4>1, <4>2, FS_Subset
        <4> QED
          BY <4>3, FS_CardinalityType
      <3>3. failed'[l] + (IF l \in built' THEN 1 ELSE 0) >= failed[l] + 1
        <4>1. CASE got
          BY <1>7, <1>1, <1>11, <4>1 DEF VtableCalls
        <4>2. CASE ~got
          BY <1>1, <1>11, <4>2 DEF VtableCalls, FactoryTypeOK
        <4> QED
          BY <4>1, <4>2
      <3> QED
        BY <1>1, <1>2, <1>3, <1>7, <1>11, <3>2, <3>3
    <2>2. CASE pending' # Methods[k]
      <3>1. pending' = Methods[k] \o Methods[k] /\ ~got /\ times = 2
        BY <1>11, <2>2 DEF VtableCalls
      <3>2. DOMAIN pending' = 1..(n + n)
            /\ \A i \in 1..(n + n) : pending'[i] = Methods[k][IF i <= n THEN i ELSE i - n]
        BY <3>1, <1>4, ConcatProperties, LenProperties
      <3>3. \A i, j \in ToCome(a)' : (i <= n <=> j <= n) => i = j
        <4>1. ASSUME NEW i \in 1..(n + n), NEW j \in 1..(n + n), i <= n, j <= n,
                     pending'[i] = a, pending'[j] = a
              PROVE  i = j
          BY <4>1, <3>2, <1>4, <1>5
        <4>2. ASSUME NEW i \in 1..(n + n), NEW j \in 1..(n + n), i > n, j > n,
                     pending'[i] = a, pending'[j] = a
              PROVE  i = j
          <5>1. i - n \in 1..n /\ j - n \in 1..n
            BY <4>2, <1>4
          <5>2. i - n = j - n
            BY <4>2, <3>2, <1>4, <1>5, <5>1
          <5> QED
            BY <5>2, <1>4
        <4>3. \A i \in 1..(n + n) : i <= n \/ i > n
          BY <1>4
        <4> QED
          BY <3>2, <4>1, <4>2, <4>3 DEF ToCome
      <3>4. Cardinality(ToCome(a)') \in Nat /\ Cardinality(ToCome(a)') <= 2
        <4> DEFINE f == [i \in ToCome(a)' |-> IF i <= n THEN 1 ELSE 2]
        <4>1. ToCome(a)' \subseteq 1..(n + n) /\ n + n \in Nat
          BY <3>2, <1>4 DEF ToCome
        <4>2. f \in [ToCome(a)' -> {1, 2}]
          OBVIOUS
        <4>3. \A x, y \in ToCome(a)' : f[x] = f[y] => x = y
          <5> SUFFICES ASSUME NEW x \in ToCome(a)', NEW y \in ToCome(a)', f[x] = f[y]
                       PROVE  x = y
            OBVIOUS
          <5>1. (IF x <= n THEN 1 ELSE 2) = (IF y <= n THEN 1 ELSE 2)
            OBVIOUS
          <5>2. x \in Int /\ y \in Int
            BY <4>1
          <5>3. x <= n <=> y <= n
            BY <5>1, <5>2, <1>4
          <5> QED
            BY <5>3, <3>3
        <4>4. IsFiniteSet({1, 2}) /\ Cardinality({1, 2}) = 2
          <5> DEFINE one == Cardinality({1})
                     two == Cardinality({1} \cup {2})
          <5>1. IsFiniteSet({1}) /\ one = 1
            BY FS_Singleton
          <5>2. IsFiniteSet({1} \cup {2}) /\ two = IF 2 \in {1} THEN one ELSE one + 1
            BY <5>1, FS_AddElement
          <5>3. {1} \cup {2} = {1, 2} /\ 2 \notin {1}
            OBVIOUS
          <5>4. two = one + 1
            BY <5>2, <5>3, Zenon
          <5> HIDE DEF one, two
          <5>5. two = 2
            BY <5>1, <5>4
          <5> QED
            BY <5>2, <5>3, <5>5, Zenon DEF two
        <4>5. Cardinality(ToCome(a)') <= Cardinality({1, 2})
          BY <4>2, <4>3, <4>4, Injected
        <4>6. Cardinality(ToCome(a)') \in Nat
          BY <4>1, PlacesAreFinite
        <4> QED
          BY <4>4, <4>5, <4>6
      <3>5. failed'[l] = failed[l] + 2
        BY <1>1, <1>11, <3>1 DEF VtableCalls, FactoryTypeOK
      <3> QED
        BY <1>1, <1>2, <1>3, <1>7, <1>11, <3>4, <3>5
    <2> QED
      BY <2>1, <2>2
  <1> QED
    BY <1>9, <1>10, <1>11

\* Steps that register nothing of a vtable.
LEMMA KeepCounts ==
  ASSUME TypeOK, PendingOK, FactoryTypeOK, CountsOK,
         UNCHANGED <<built, pending, failed>>,
         \A k \in Kinds : \A a \in MethodsOf(k) :
           Cardinality(InTable(a)') \in Nat
             /\ Cardinality(InTable(a)') <= Cardinality(InTable(a))
  PROVE  CountsOK'
  <1> SUFFICES ASSUME NEW l \in Kinds, NEW a \in MethodsOf(l)
               PROVE  Cardinality(InTable(a)') + Cardinality(ToCome(a)')
                        <= failed'[l] + (IF l \in built' THEN 1 ELSE 0)
    BY DEF CountsOK
  <1>1. /\ Cardinality(InTable(a)) \in Nat /\ Cardinality(ToCome(a)) \in Nat
        /\ failed[l] \in Nat
        /\ Cardinality(InTable(a)) + Cardinality(ToCome(a))
             <= failed[l] + (IF l \in built THEN 1 ELSE 0)
    BY CountFacts DEF CountsOK, FactoryTypeOK
  <1>2. ToCome(a)' = ToCome(a)
    BY DEF ToCome
  <1>3. Cardinality(InTable(a)') \in Nat /\ Cardinality(InTable(a)') <= Cardinality(InTable(a))
    OBVIOUS
  <1> QED
    BY <1>1, <1>2, <1>3

\* Every step keeps the counts.
LEMMA CountsNext ==
  ASSUME OInv, FactoryTypeOK, CountsOK, [ONext]_ovars
  PROVE  CountsOK'
  <1> USE ObjectsAssumption
  <1>1. TypeOK /\ FInv /\ PendingOK
    BY DEF OInv, IInv, FInv
  <1>2. CASE RegisterNext
    <2> SUFFICES ASSUME NEW l \in Kinds, NEW a \in MethodsOf(l)
                 PROVE  Cardinality(InTable(a)') + Cardinality(ToCome(a)')
                          <= failed'[l] + (IF l \in built' THEN 1 ELSE 0)
      BY DEF CountsOK
    <2>1. Cardinality(InTable(a)') + Cardinality(ToCome(a)')
            <= Cardinality(InTable(a)) + Cardinality(ToCome(a))
      BY <1>1, <1>2, RegisterNextCounts
    <2>2. /\ Cardinality(InTable(a)) \in Nat /\ Cardinality(ToCome(a)) \in Nat
          /\ failed[l] \in Nat /\ failed' = failed /\ built' = built
          /\ Cardinality(InTable(a)) + Cardinality(ToCome(a))
               <= failed[l] + (IF l \in built THEN 1 ELSE 0)
      BY <1>1, <1>2, CountFacts DEF CountsOK, FactoryTypeOK, RegisterNext
    <2>3. Cardinality(InTable(a)') \in Nat /\ Cardinality(ToCome(a)') \in Nat
      <3>1. TypeOK' /\ PendingOK'
        BY StepIsDispatch, NextIInv, FactoryFInv DEF OInv, IInv, FInv
      <3> QED
        BY <3>1, CountFactsNext
    <2> QED
      BY <2>1, <2>2, <2>3
  <1>3. ASSUME NEW k \in Kinds, Construct(k) \/ Make(k) PROVE CountsOK'
    <2>1. PICK vtable \in BOOLEAN : VtableCalls(k, vtable \/ k \in built, 1)
      BY <1>3 DEF Construct, Make
    <2>2. pending = << >> /\ UNCHANGED vars
      BY <1>3 DEF Construct, Make, Ready
    <2> DEFINE got == vtable \/ k \in built
    <2>3. got \in BOOLEAN /\ VtableCalls(k, got, 1)
      BY <2>1
    <2> HIDE DEF got
    <2> QED
      BY <1>1, <2>2, <2>3, VtableCounts
  <1>4. CASE HleObject
    <2>1. PICK room \in 0..3 :
            VtableCalls(Hle, room >= 2 \/ Hle \in built, IF universal.made THEN 1 ELSE 2)
      BY <1>4 DEF HleObject
    <2>2. pending = << >> /\ UNCHANGED vars
      BY <1>4 DEF HleObject, Ready
    <2> DEFINE got == room >= 2 \/ Hle \in built
               times == IF universal.made THEN 1 ELSE 2
    <2>3. got \in BOOLEAN /\ times \in {1, 2} /\ VtableCalls(Hle, got, times)
      BY <2>1
    <2> HIDE DEF got, times
    <2> QED
      BY <1>1, <2>2, <2>3, VtableCounts
  <1>5. CASE Singleton
    <2>1. pending = << >> /\ UNCHANGED vars
      BY <1>5 DEF Singleton, Ready
    <2>2. CASE universal.made
      <3>1. UNCHANGED <<built, pending, failed>> /\ tab' = tab
        BY <1>5, <2>1, <2>2 DEF Singleton, vars
      <3>2. \A a : InTable(a)' = InTable(a) /\ Cardinality(InTable(a)) \in Nat
        BY <3>1, <1>1, CountFacts DEF InTable
      <3>3. \A a : Cardinality(InTable(a)') \in Nat
                     /\ Cardinality(InTable(a)') <= Cardinality(InTable(a))
        BY <3>2
      <3> QED
        BY <1>1, <3>1, <3>3, KeepCounts
    <2>3. CASE ~universal.made
      <3>1. PICK vtable \in BOOLEAN : VtableCalls(Hle, vtable \/ Hle \in built, 1)
        BY <1>5, <2>3 DEF Singleton
      <3> DEFINE got == vtable \/ Hle \in built
      <3>2. got \in BOOLEAN /\ VtableCalls(Hle, got, 1)
        BY <3>1
      <3> HIDE DEF got
      <3> QED
        BY <1>1, <2>1, <3>2, VtableCounts
    <2> QED
      BY <2>2, <2>3
  <1>6. ASSUME NEW a \in Code, Register(a), UNCHANGED factory PROVE CountsOK'
    <2>1. a \in DOMAIN Handler /\ \A k \in Kinds : a \notin MethodsOf(k)
      BY DEF Code
    <2>2. \A k \in Kinds : \A b \in MethodsOf(k) :
            Cardinality(InTable(b)') \in Nat
              /\ Cardinality(InTable(b)') <= Cardinality(InTable(b))
      <3> SUFFICES ASSUME NEW k \in Kinds, NEW b \in MethodsOf(k)
                   PROVE  Cardinality(InTable(b)') \in Nat
                            /\ Cardinality(InTable(b)') <= Cardinality(InTable(b))
        OBVIOUS
      <3>1. b # a
        BY <2>1
      <3> QED
        BY <1>1, <1>6, <2>1, <3>1, RegisterCounts
    <2> QED
      BY <1>1, <1>6, <2>2, KeepCounts DEF factory
  <1>7. ASSUME tab' = tab, UNCHANGED <<built, pending, failed>> PROVE CountsOK'
    <2>1. \A a : InTable(a)' = InTable(a) /\ Cardinality(InTable(a)) \in Nat
      BY <1>7, <1>1, CountFacts DEF InTable
    <2>2. \A a : Cardinality(InTable(a)') \in Nat
                   /\ Cardinality(InTable(a)') <= Cardinality(InTable(a))
      BY <2>1
    <2> QED
      BY <1>1, <1>7, <2>2, KeepCounts
  <1>8. CASE \/ \E i \in 1..MaxTable : VCall(i)
             \/ \E a \in Addresses : Begin(a) /\ UNCHANGED factory
    BY <1>7, <1>8 DEF VCall, Begin, factory
  <1>9. CASE Lookup /\ UNCHANGED factory
    <2>1. CASE Sort
      <3>1. \A a : Cardinality(InTable(a)') <= Cardinality(InTable(a))
        BY <1>1, <2>1, SortCounts
      <3>2. TypeOK' /\ PendingOK'
        BY StepIsDispatch, NextIInv, FactoryFInv DEF OInv, IInv, FInv
      <3>3. \A a : Cardinality(InTable(a)') \in Nat
        BY <3>2, CountFactsNext
      <3> QED
        BY <1>1, <1>9, <3>1, <3>3, KeepCounts DEF factory
    <2>2. CASE Bisect \/ Finish
      BY <1>7, <1>9, <2>2 DEF Bisect, Finish, factory
    <2> QED
      BY <1>9, <2>1, <2>2 DEF Lookup
  <1>10. CASE UNCHANGED ovars
    BY <1>7, <1>10 DEF ovars, vars, factory
  <1> QED
    BY <1>2, <1>3, <1>4, <1>5, <1>6, <1>8, <1>9, <1>10 DEF ONext, Generated

\* The table does not grow with the objects that are made: a method is in it
\* once, and once more for each time the allocation of its vtable failed
\* (hleobj.c:13-27, fbserv.c:18-27).
THEOREM MethodsRegisteredOnce == OSpec => []RegisteredOnce
  <1>1. OInit => CountsOK
    <2> SUFFICES ASSUME OInit, NEW k \in Kinds, NEW a \in MethodsOf(k)
                 PROVE  Cardinality(InTable(a)) + Cardinality(ToCome(a))
                          <= failed[k] + (IF k \in built THEN 1 ELSE 0)
      BY DEF CountsOK
    <2>1. DOMAIN tab = {} /\ DOMAIN pending = {}
      BY EmptySeq, SMT DEF OInit, Init
    <2>2. InTable(a) = {} /\ ToCome(a) = {}
      BY <2>1 DEF InTable, ToCome
    <2>3. Cardinality(InTable(a)) = 0 /\ Cardinality(ToCome(a)) = 0
      BY <2>2, FS_EmptySet
    <2> QED
      BY <2>3 DEF OInit
  <1>2. OInv /\ FactoryTypeOK /\ CountsOK /\ [ONext]_ovars => CountsOK'
    BY CountsNext
  <1>3. OInv /\ FactoryTypeOK /\ CountsOK => RegisteredOnce
    <2> SUFFICES ASSUME OInv, FactoryTypeOK, CountsOK,
                        NEW k \in Kinds, NEW a \in Addresses, a \in MethodsOf(k)
                 PROVE  Cardinality(InTable(a)) + Cardinality(ToCome(a)) <= 1 + failed[k]
      BY DEF RegisteredOnce, InTable, ToCome
    <2>1. /\ Cardinality(InTable(a)) \in Nat /\ Cardinality(ToCome(a)) \in Nat
          /\ failed[k] \in Nat
          /\ Cardinality(InTable(a)) + Cardinality(ToCome(a))
               <= failed[k] + (IF k \in built THEN 1 ELSE 0)
      BY CountFacts DEF OInv, IInv, FInv, CountsOK, FactoryTypeOK
    <2> QED
      BY <2>1
  <1> QED
    BY <1>1, <1>2, <1>3, ChaseInvariance, PTL DEF OSpec
============================================================================
