------------------------ MODULE ActiveObjectsProofs ------------------------
(***************************************************************************)
(* Theorems about ActiveObjects for any set of objects and any length of   *)
(* the list: a step runs no object twice and none too few, whatever the    *)
(* RunLs it calls do to the list and to the objects.                       *)
(***************************************************************************)
EXTENDS ActiveObjects, TLAPS, SequenceTheorems

(***************************************************************************)
(* The inductive invariant.  ListedOnce: an object has one place on the    *)
(* list.  RanBehind: what the step has run lies behind its index, or at it *)
(* while the RunL is running.  Reached: what was due and lies behind the   *)
(* index has been run.  StillDue: what was due and has not been run is     *)
(* still listed and still complete, for the guest can only issue a request *)
(* on an object that is not active, and only a run makes it so.            *)
(***************************************************************************)
ListedOnce == \A i, j \in 1..Len(list) : list[i] = list[j] => i = j

AtIndex == stepping /\ GuestRuns => next <= Len(list) /\ list[next] \in ran

RanBehind ==
  stepping => \A a \in ran : \E i \in 1..Len(list) :
                /\ list[i] = a
                /\ i <= next /\ (i = next => GuestRuns)

Reached ==
  stepping => \A i \in 1..Len(list) : i < next /\ list[i] \in due => list[i] \in ran

StillDue ==
  stepping => \A a \in due : /\ \E i \in 1..Len(list) : list[i] = a
                             /\ a \notin ran => isActive[a] /\ ~pending[a]

IInv == TypeOK /\ ListedOnce /\ AtIndex /\ RanBehind /\ Reached /\ StillDue

-----------------------------------------------------------------------------
\* Add keeps what is on the list, appends at most the object, and never twice.
LEMMA ListedFacts ==
  ASSUME TypeOK, ListedOnce, NEW a \in Actives
  PROVE  /\ Listed(a) \in Seq(Actives) /\ Len(Listed(a)) <= MaxActive
         /\ Len(list) \in Nat /\ Len(Listed(a)) \in Nat
         /\ Len(list) <= Len(Listed(a))
         /\ \A i \in 1..Len(list) : Listed(a)[i] = list[i]
         /\ \A i \in 1..Len(Listed(a)) : i > Len(list) =>
              Listed(a)[i] = a /\ \A k \in 1..Len(list) : list[k] # a
         /\ \A i, j \in 1..Len(Listed(a)) : Listed(a)[i] = Listed(a)[j] => i = j
  <1>1. list \in Seq(Actives) /\ Len(list) \in Nat /\ Len(list) <= MaxActive /\ MaxActive \in Nat
    BY LenProperties, ActiveAssumption DEF TypeOK
  <1>2. CASE Listed(a) = list
    BY <1>1, <1>2 DEF ListedOnce
  <1>3. CASE Listed(a) # list
    <2>1. /\ Listed(a) = Append(list, a) /\ Len(list) < MaxActive
          /\ \A k \in 1..Len(list) : list[k] # a
      BY <1>3, <1>1 DEF Listed, Contains
    <2>2. /\ Append(list, a) \in Seq(Actives)
          /\ Len(Append(list, a)) = Len(list) + 1
          /\ \A i \in 1..Len(list) : Append(list, a)[i] = list[i]
          /\ Append(list, a)[Len(list) + 1] = a
      BY <1>1, AppendProperties
    <2>3. \A i \in 1..Len(Append(list, a)) : i > Len(list) => i = Len(list) + 1
      BY <1>1, <2>2
    <2>4. \A i, j \in 1..Len(Append(list, a)) :
            Append(list, a)[i] = Append(list, a)[j] => i = j
      <3>1. TAKE i, j \in 1..Len(Append(list, a))
      <3>2. CASE i <= Len(list) /\ j <= Len(list)
        BY <3>2, <2>2, <1>1 DEF ListedOnce
      <3>3. CASE i > Len(list) /\ j > Len(list)
        BY <3>3, <2>3
      <3>4. CASE i <= Len(list) /\ j > Len(list)
        BY <3>4, <2>1, <2>2, <2>3, <1>1
      <3>5. CASE i > Len(list) /\ j <= Len(list)
        BY <3>5, <2>1, <2>2, <2>3, <1>1
      <3> QED BY <3>2, <3>3, <3>4, <3>5, <2>2, <1>1
    <2> QED BY <1>1, <2>1, <2>2, <2>3, <2>4
  <1> QED BY <1>2, <1>3

\* The list has a length, and objects at its places.
LEMMA Elements ==
  ASSUME TypeOK
  PROVE  /\ Len(list) \in Nat
         /\ \A i \in 1..Len(list) : list[i] \in Actives
  BY LenProperties, ElementOfSeq DEF TypeOK

-----------------------------------------------------------------------------
\* The type holds of an empty list at rest.
LEMMA InitType == Init => TypeOK
  <1> SUFFICES ASSUME Init PROVE TypeOK
    OBVIOUS
  <1>1. << >> \in Seq(Actives) /\ Len(<< >>) = 0
    OBVIOUS
  <1>2. list \in Seq(Actives) /\ Len(list) <= MaxActive
    BY <1>1, ActiveAssumption DEF Init
  <1>3. alive \subseteq Actives /\ ran \subseteq Actives /\ due \subseteq Actives
    BY DEF Init
  <1>4. /\ virtual \in [Actives -> BOOLEAN] /\ pending \in [Actives -> BOOLEAN]
        /\ isActive \in [Actives -> BOOLEAN] /\ ref \in [Actives -> BOOLEAN]
    BY DEF Init
  <1>5. owed \in [Actives -> Nat]
    BY DEF Init
  <1>7. stepping \in BOOLEAN
    BY DEF Init
  <1>8. next \in Nat \ {0}
    BY DEF Init
  <1>6. running \in Actives \cup {Nobody, Guest}
    BY DEF Init
  <1> QED BY <1>2, <1>3, <1>4, <1>5, <1>6, <1>7, <1>8 DEF TypeOK

\* Every action keeps the type.
LEMMA TypeStep == TypeOK /\ [Next]_vars => TypeOK'
  <1> SUFFICES ASSUME TypeOK, [Next]_vars PROVE TypeOK'
    OBVIOUS
  <1>0. MaxActive \in Nat /\ MaxOwed \in Nat
    BY ActiveAssumption
  <1>1. ASSUME NEW a \in Actives, Construct(a) PROVE TypeOK'
    BY <1>1 DEF Construct, host, TypeOK
  <1>2. ASSUME NEW a \in Actives, Destroy(a) PROVE TypeOK'
    BY <1>2 DEF Destroy, host, TypeOK
  <1>3. ASSUME NEW a \in Actives, Overwrite(a) PROVE TypeOK'
    BY <1>3 DEF Overwrite, host, TypeOK
  <1>4. ASSUME NEW a \in Actives, Add(a) PROVE TypeOK'
    <2>1. Listed(a) = list \/ (Listed(a) = Append(list, a) /\ Len(list) < MaxActive)
      BY DEF Listed
    <2>2. list \in Seq(Actives) /\ Len(list) \in Nat
      BY LenProperties DEF TypeOK
    <2>3. Append(list, a) \in Seq(Actives) /\ Len(Append(list, a)) = Len(list) + 1
      BY <2>2, AppendProperties
    <2>4. list' = list \/ (list' = Append(list, a) /\ Len(list) < MaxActive)
      BY <1>4, <2>1 DEF Add
    <2>5. Len(list) <= MaxActive
      BY DEF TypeOK
    <2>6. list' \in Seq(Actives) /\ Len(list') <= MaxActive
      BY <1>0, <2>2, <2>3, <2>4, <2>5
    <2> QED BY <1>4, <2>6 DEF Add, memory, TypeOK
  <1>5. ASSUME NEW a \in Actives, Issue(a) PROVE TypeOK'
    BY <1>5 DEF Issue, host, TypeOK
  <1>6. ASSUME NEW a \in Actives, RequestComplete(a) PROVE TypeOK'
    BY <1>6 DEF RequestComplete, host, TypeOK
  <1>7. CASE GuestReturns
    <2>1. owed' \in [Actives -> Nat]
      BY <1>7 DEF GuestReturns, TypeOK
    <2>2. next' \in Nat \ {0}
      BY <1>7 DEF GuestReturns, TypeOK
    <2> QED BY <1>7, <2>1, <2>2 DEF GuestReturns, TypeOK
  <1>8. CASE GuestLeaves
    <2>1. UNCHANGED memory /\ list' = list /\ running' = Nobody /\ stepping' = FALSE
      BY <1>8 DEF GuestLeaves
    <2>2. next' \in Nat \ {0} /\ ran' \subseteq Actives /\ due' \subseteq Actives
      BY <1>8 DEF GuestLeaves
    <2> QED BY <2>1, <2>2 DEF memory, TypeOK
  <1>9. CASE EnterGuest
    BY <1>9 DEF EnterGuest, memory, TypeOK
  <1>10. CASE BeginStep
    <2>1. ToSet(list) \subseteq Actives
      BY Elements DEF ToSet, TypeOK
    <2> QED BY <1>10, <2>1 DEF BeginStep, memory, TypeOK
  <1>11. CASE RunNext
    <2>1. list[next] \in Actives
      BY <1>11, Elements DEF RunNext, TypeOK
    <2> QED BY <1>11, <2>1 DEF RunNext, TypeOK
  <1>12. CASE RunRefused
    <2>1. list[next] \in Actives
      BY <1>12, Elements DEF RunRefused, TypeOK
    <2> QED BY <1>12, <2>1 DEF RunRefused, TypeOK
  <1>13. CASE SkipNext
    BY <1>13 DEF SkipNext, memory, TypeOK
  <1>14. CASE EndStep
    <2>1. UNCHANGED memory /\ list' = list /\ running' = running /\ stepping' = FALSE
      BY <1>14 DEF EndStep
    <2>2. next' \in Nat \ {0} /\ ran' \subseteq Actives /\ due' \subseteq Actives
      BY <1>14 DEF EndStep
    <2> QED BY <2>1, <2>2 DEF memory, TypeOK
  <1>15. CASE UNCHANGED vars
    BY <1>15 DEF vars, TypeOK
  <1> QED BY <1>1, <1>2, <1>3, <1>4, <1>5, <1>6, <1>7, <1>8, <1>9, <1>10, <1>11,
             <1>12, <1>13, <1>14, <1>15 DEF Next, StepOn

-----------------------------------------------------------------------------
\* The invariant holds before the first step of the scheduler.
LEMMA InitInv == Init => IInv
  <1> SUFFICES ASSUME Init PROVE IInv
    OBVIOUS
  <1>1. TypeOK
    BY InitType
  <1>2. Len(list) = 0
    BY DEF Init
  <1>3. ListedOnce
    BY <1>2 DEF ListedOnce
  <1>4. ~stepping
    BY DEF Init
  <1> QED BY <1>1, <1>3, <1>4 DEF IInv, AtIndex, RanBehind, Reached, StillDue

\* What the invariant says of one state, with its definitions expanded.
LEMMA Facts ==
  ASSUME IInv
  PROVE  /\ TypeOK /\ ListedOnce
         /\ Len(list) \in Nat /\ next \in Nat /\ next > 0
         /\ \A i \in 1..Len(list) : list[i] \in Actives
         /\ ran \subseteq Actives /\ due \subseteq Actives
         /\ Nobody \notin Actives /\ Guest \notin Actives /\ Nobody # Guest
  BY Elements, ActiveAssumption DEF IInv, TypeOK

\* The guest's steps that touch neither the list nor the loop: it is enough
\* that they keep what is due complete.
LEMMA GuestKeeps ==
  ASSUME IInv, TypeOK', UNCHANGED host, due' \subseteq due,
         \A a \in due' : isActive[a] /\ ~pending[a] => isActive'[a] /\ ~pending'[a]
  PROVE  IInv'
  <1>1. /\ list' = list /\ stepping' = stepping /\ next' = next
        /\ running' = running /\ ran' = ran
    BY DEF host
  <1>2. ListedOnce' /\ AtIndex' /\ RanBehind'
    BY <1>1 DEF IInv, ListedOnce, AtIndex, RanBehind, GuestRuns
  <1>3. Reached'
    BY <1>1 DEF IInv, Reached
  <1>4. StillDue'
    BY <1>1 DEF IInv, StillDue
  <1> QED BY <1>2, <1>3, <1>4 DEF IInv

\* An object is added once, and behind the index.
LEMMA AddKeeps ==
  ASSUME IInv, TypeOK', NEW a \in Actives, Add(a)
  PROVE  IInv'
  <1>0. list' = Listed(a)
    BY DEF Add
  <1>1. /\ stepping' = stepping /\ next' = next /\ running' = running
        /\ ran' = ran /\ due' = due /\ isActive' = isActive /\ pending' = pending
    BY DEF Add, memory
  <1>2. /\ Len(list) \in Nat /\ Len(list') \in Nat /\ Len(list) <= Len(list')
        /\ \A i \in 1..Len(list) : list'[i] = list[i]
        /\ \A i \in 1..Len(list') : i > Len(list) =>
             list'[i] = a /\ \A k \in 1..Len(list) : list[k] # a
        /\ \A i, j \in 1..Len(list') : list'[i] = list'[j] => i = j
    <2>1. TypeOK /\ ListedOnce
      BY Facts
    <2>2. /\ Len(list) \in Nat /\ Len(Listed(a)) \in Nat /\ Len(list) <= Len(Listed(a))
          /\ \A i \in 1..Len(list) : Listed(a)[i] = list[i]
          /\ \A i \in 1..Len(Listed(a)) : i > Len(list) =>
               Listed(a)[i] = a /\ \A k \in 1..Len(list) : list[k] # a
          /\ \A i, j \in 1..Len(Listed(a)) : Listed(a)[i] = Listed(a)[j] => i = j
      BY <2>1, ListedFacts
    <2> QED BY <2>2, <1>0
  <1>3. ListedOnce'
    BY <1>2 DEF ListedOnce
  <1>4. AtIndex'
    <2>1. next \in Nat /\ next > 0
      BY Facts
    <2> QED BY <1>1, <1>2, <2>1 DEF IInv, AtIndex, GuestRuns
  <1>5. RanBehind'
    BY <1>1, <1>2 DEF IInv, RanBehind, GuestRuns
  <1>6. Reached'
    <2> SUFFICES ASSUME stepping, NEW i \in 1..Len(list'), i < next, list'[i] \in due
                 PROVE  list'[i] \in ran
      BY <1>1 DEF Reached
    <2>1. CASE i <= Len(list)
      BY <2>1, <1>2 DEF IInv, Reached
    <2>2. CASE i > Len(list)
      <3>1. list'[i] = a /\ \A k \in 1..Len(list) : list[k] # a
        BY <2>2, <1>2
      <3> QED BY <3>1 DEF IInv, StillDue
    <2> QED BY <2>1, <2>2, <1>2
  <1>7. StillDue'
    BY <1>1, <1>2 DEF IInv, StillDue
  <1> QED BY <1>3, <1>4, <1>5, <1>6, <1>7 DEF IInv

\* Running an object, whether its RunL is found or not: the object is counted,
\* and is on the list once, at the index.
LEMMA RunKeeps ==
  ASSUME IInv, TypeOK', RunNext \/ RunRefused
  PROVE  IInv'
  <1> DEFINE b == list[next]
  <1>1. /\ stepping /\ ~GuestRuns /\ next \in 1..Len(list)
        /\ stepping' = stepping /\ list' = list /\ due' = due /\ pending' = pending
        /\ isActive' = [isActive EXCEPT ![b] = FALSE] /\ ran' = ran \cup {b}
    BY Facts DEF RunNext, RunRefused, InStep, GuestRuns
  <1>2. b \in Actives /\ isActive \in [Actives -> BOOLEAN]
    BY <1>1, Facts DEF TypeOK
  <1>3. \/ next' = next /\ GuestRuns'
        \/ next' = next + 1 /\ ~GuestRuns'
    BY <1>2, Facts DEF RunNext, RunRefused, InStep, GuestRuns
  <1>4. next \in Nat /\ Len(list) \in Nat
    BY Facts
  <1> HIDE DEF b
  <1>5. ListedOnce'
    BY <1>1 DEF IInv, ListedOnce
  <1>6. AtIndex'
    BY <1>1, <1>3, <1>4 DEF AtIndex, b
  <1>7. RanBehind'
    <2> SUFFICES ASSUME NEW d \in ran \cup {b}
                 PROVE  \E i \in 1..Len(list) : /\ list[i] = d
                                                /\ i <= next' /\ (i = next' => GuestRuns')
      BY <1>1 DEF RanBehind
    <2>1. CASE d = b
      BY <2>1, <1>1, <1>3, <1>4 DEF b
    <2>2. CASE d \in ran
      <3>1. PICK i \in 1..Len(list) : list[i] = d /\ i <= next /\ (i = next => GuestRuns)
        BY <2>2, <1>1 DEF IInv, RanBehind
      <3> QED BY <3>1, <1>1, <1>3, <1>4
    <2> QED BY <2>1, <2>2
  <1>8. Reached'
    <2> SUFFICES ASSUME NEW i \in 1..Len(list), i < next', list[i] \in due
                 PROVE  list[i] \in ran \cup {b}
      BY <1>1 DEF Reached
    <2>1. CASE i < next
      BY <2>1, <1>1 DEF IInv, Reached
    <2>2. CASE i = next
      BY <2>2 DEF b
    <2> QED BY <2>1, <2>2, <1>3, <1>4
  <1>9. StillDue'
    <2> SUFFICES ASSUME NEW d \in due
                 PROVE  /\ \E i \in 1..Len(list) : list[i] = d
                        /\ d \notin ran \cup {b} => isActive'[d] /\ ~pending[d]
      BY <1>1 DEF StillDue
    <2>1. /\ \E i \in 1..Len(list) : list[i] = d
          /\ d \notin ran => isActive[d] /\ ~pending[d]
      BY <1>1 DEF IInv, StillDue
    <2>2. d \in Actives
      BY Facts
    <2>3. d # b => isActive'[d] = isActive[d]
      BY <1>1, <1>2, <2>2
    <2> QED BY <2>1, <2>3
  <1> QED BY <1>5, <1>6, <1>7, <1>8, <1>9 DEF IInv

\* The index moves on from an object that has been run or is not complete.
LEMMA MoveOnKeeps ==
  ASSUME IInv, TypeOK',
         UNCHANGED <<list, pending, isActive, stepping, ran, due>>,
         running' = Nobody, next' = IF stepping THEN next + 1 ELSE next,
         stepping => next <= Len(list) /\ (list[next] \in ran \/ pending[list[next]])
  PROVE  IInv'
  <1>1. /\ list' = list /\ stepping' = stepping /\ ran' = ran /\ due' = due
        /\ pending' = pending /\ isActive' = isActive /\ ~GuestRuns'
        /\ stepping => next' = next + 1
    BY DEF GuestRuns
  <1>2. next \in Nat /\ Len(list) \in Nat /\ next > 0
    BY Facts
  <1>3. ListedOnce' /\ AtIndex'
    BY <1>1 DEF IInv, ListedOnce, AtIndex
  <1>4. RanBehind'
    <2> SUFFICES ASSUME stepping, NEW d \in ran
                 PROVE  \E i \in 1..Len(list) : list[i] = d /\ i < next'
      BY <1>1, <1>2 DEF RanBehind
    <2>1. PICK i \in 1..Len(list) : list[i] = d /\ i <= next
      BY DEF IInv, RanBehind
    <2> QED BY <2>1, <1>1, <1>2
  <1>5. Reached'
    <2> SUFFICES ASSUME stepping, NEW i \in 1..Len(list), i < next', list[i] \in due
                 PROVE  list[i] \in ran
      BY <1>1 DEF Reached
    <2>1. CASE i < next
      BY <2>1 DEF IInv, Reached
    <2>2. CASE i = next
      BY <2>2 DEF IInv, StillDue
    <2> QED BY <2>1, <2>2, <1>1, <1>2
  <1>6. StillDue'
    BY <1>1 DEF IInv, StillDue
  <1> QED BY <1>3, <1>4, <1>5, <1>6 DEF IInv

\* No step is under way after these: nothing is left to show but the list.
LEMMA NoStepKeeps ==
  ASSUME IInv, TypeOK', list' = list, ~stepping'
  PROVE  IInv'
  BY DEF IInv, ListedOnce, AtIndex, RanBehind, Reached, StillDue

\* A step begins at the front, with nothing run yet.
LEMMA BeginKeeps ==
  ASSUME IInv, TypeOK', BeginStep
  PROVE  IInv'
  <1>1. /\ list' = list /\ next' = 1 /\ ran' = {} /\ ~GuestRuns'
        /\ pending' = pending /\ isActive' = isActive
        /\ due' = {a \in ToSet(list) : Completed(a)}
    BY DEF BeginStep, memory, GuestRuns
  <1>2. Len(list) \in Nat
    BY Facts
  <1>3. ListedOnce' /\ AtIndex'
    BY <1>1 DEF IInv, ListedOnce, AtIndex
  <1>4. RanBehind'
    BY <1>1 DEF RanBehind
  <1>5. Reached'
    BY <1>1, <1>2 DEF Reached
  <1>6. DOMAIN list = 1..Len(list)
    BY LenProperties DEF IInv, TypeOK
  <1>7. StillDue'
    BY <1>1, <1>6 DEF StillDue, ToSet, Completed
  <1> QED BY <1>3, <1>4, <1>5, <1>7 DEF IInv

\* Every action keeps the invariant.
LEMMA InvStep == IInv /\ [Next]_vars => IInv'
  <1> SUFFICES ASSUME IInv, [Next]_vars PROVE IInv'
    OBVIOUS
  <1>0. TypeOK'
    BY TypeStep DEF IInv
  <1>t. /\ isActive \in [Actives -> BOOLEAN] /\ pending \in [Actives -> BOOLEAN]
        /\ due \subseteq Actives
    BY DEF IInv, TypeOK
  <1>1. ASSUME NEW a \in Actives, Construct(a) PROVE IInv'
    <2>1. UNCHANGED host /\ due' = due \ {a}
      BY <1>1 DEF Construct
    <2>2. \A d \in Actives : d # a => isActive'[d] = isActive[d] /\ pending'[d] = pending[d]
      BY <1>1, <1>t DEF Construct
    <2> QED BY <1>0, <1>t, <2>1, <2>2, GuestKeeps
  <1>2. ASSUME NEW a \in Actives, Destroy(a) PROVE IInv'
    BY <1>2, <1>0, GuestKeeps DEF Destroy
  <1>3. ASSUME NEW a \in Actives, Overwrite(a) PROVE IInv'
    <2>1. UNCHANGED host /\ due' = due \ {a}
      BY <1>3 DEF Overwrite
    <2>2. \A d \in Actives : d # a => isActive'[d] = isActive[d] /\ pending'[d] = pending[d]
      BY <1>3, <1>t DEF Overwrite
    <2> QED BY <1>0, <1>t, <2>1, <2>2, GuestKeeps
  <1>4. ASSUME NEW a \in Actives, Add(a) PROVE IInv'
    BY <1>0, <1>4, AddKeeps
  <1>5. ASSUME NEW a \in Actives, Issue(a) PROVE IInv'
    <2>1. UNCHANGED host /\ due' = due /\ ~isActive[a]
      BY <1>5 DEF Issue
    <2>2. \A d \in Actives : d # a => isActive'[d] = isActive[d] /\ pending'[d] = pending[d]
      BY <1>5, <1>t DEF Issue
    <2> QED BY <1>0, <1>t, <2>1, <2>2, GuestKeeps
  <1>6. ASSUME NEW a \in Actives, RequestComplete(a) PROVE IInv'
    <2>1. UNCHANGED host /\ due' = due /\ isActive' = isActive
      BY <1>6 DEF RequestComplete
    <2>2. \A d \in Actives : pending'[d] => pending[d]
      BY <1>6, <1>t DEF RequestComplete
    <2> QED BY <1>0, <1>t, <2>1, <2>2, GuestKeeps
  <1>7. CASE GuestReturns
    <2>1. stepping => next <= Len(list) /\ list[next] \in ran
      BY <1>7 DEF GuestReturns, IInv, AtIndex
    <2> QED BY <1>0, <1>7, <2>1, MoveOnKeeps DEF GuestReturns
  <1>8. CASE GuestLeaves
    BY <1>0, <1>8, NoStepKeeps DEF GuestLeaves
  <1>9. CASE EnterGuest
    BY <1>0, <1>9, NoStepKeeps DEF EnterGuest
  <1>10. CASE BeginStep
    BY <1>0, <1>10, BeginKeeps
  <1>11. CASE RunNext \/ RunRefused
    BY <1>0, <1>11, RunKeeps
  <1>12. CASE SkipNext
    BY <1>0, <1>12, MoveOnKeeps DEF SkipNext, InStep, memory
  <1>13. CASE EndStep
    BY <1>0, <1>13, NoStepKeeps DEF EndStep
  <1>14. CASE UNCHANGED vars
    BY <1>0, <1>14, GuestKeeps DEF vars, host
  <1> QED BY <1>1, <1>2, <1>3, <1>4, <1>5, <1>6, <1>7, <1>8, <1>9, <1>10, <1>11,
             <1>12, <1>13, <1>14 DEF Next, StepOn

\* So it holds always.
LEMMA InvHolds == Spec => []IInv
  BY InitInv, InvStep, PTL DEF Spec

-----------------------------------------------------------------------------
\* In every state the scheduler's variables have their types; the list holds
\* no more than g_active has room for (scheduler.c:97-103).
THEOREM TypeCorrect == Spec => []TypeOK
  <1>1. IInv => TypeOK
    BY DEF IInv
  <1> QED BY <1>1, InvHolds, PTL

\* One ngage_as_step enters the RunL of an object at most once, for every list
\* and whatever the RunLs add to it (scheduler.c:129-142).
THEOREM RunsOnce == Spec => OncePerStep
  <1>1. IInv /\ [Next]_vars =>
          [\A a \in Actives : stepping /\ running = Nobody /\ running' = a
                             => a \notin ran]_vars
    <2> SUFFICES ASSUME IInv, [Next]_vars, NEW a \in Actives,
                        stepping, running = Nobody, running' = a
                 PROVE  a \notin ran
      OBVIOUS
    <2>1. Nobody \notin Actives
      BY Facts
    <2>2. RunNext
      BY <2>1, Facts DEF Next, StepOn, vars, memory, host, GuestRuns, InStep, Construct, Destroy,
                  Overwrite, Add, Issue, RequestComplete, GuestReturns, GuestLeaves,
                  EnterGuest, BeginStep, RunRefused, SkipNext, EndStep
    <2>3. next \in 1..Len(list) /\ list[next] = a /\ ~GuestRuns
      BY <2>2, Facts DEF RunNext, GuestRuns
    <2>4. SUFFICES ASSUME a \in ran PROVE FALSE
      OBVIOUS
    <2>5. PICK i \in 1..Len(list) : list[i] = a /\ i <= next /\ (i = next => GuestRuns)
      BY <2>4 DEF IInv, RanBehind
    <2> QED BY <2>3, <2>5 DEF IInv, ListedOnce
  <1> QED BY <1>1, InvHolds, PTL DEF Spec, OncePerStep

\* A step that ends by itself has run every object that was listed and
\* completed when it began (scheduler.c:129-142).
THEOREM ServesDue == Spec => StepServesDue
  <1>1. IInv /\ [Next]_vars =>
          [stepping /\ running = Nobody /\ ~stepping' => due \subseteq ran]_vars
    <2> SUFFICES ASSUME IInv, [Next]_vars, stepping, running = Nobody, ~stepping',
                        NEW a \in due
                 PROVE  a \in ran
      OBVIOUS
    <2>1. EndStep
      BY DEF Next, StepOn, vars, memory, host, GuestRuns, Construct, Destroy, Overwrite, Add,
             Issue, RequestComplete, GuestReturns, GuestLeaves, EnterGuest, BeginStep,
             RunNext, RunRefused, SkipNext
    <2>2. PICK i \in 1..Len(list) : list[i] = a
      BY DEF IInv, StillDue
    <2>3. i < next
      BY <2>1, Facts DEF EndStep
    <2> QED BY <2>2, <2>3 DEF IInv, Reached
  <1> QED BY <1>1, InvHolds, PTL DEF Spec, StepServesDue
=============================================================================
