------------------------------- MODULE Objects -------------------------------
(***************************************************************************)
(* The factories of C++ objects that the game only calls virtually, over   *)
(* the dispatch table they register in: src/runtime/src/hleobj.c and       *)
(* hle/wserv.c (kind Hle), hle/fbserv.c and hle/media.c.                   *)
(*                                                                         *)
(* Each kind of object has one vtable, built at the first use: a block of  *)
(* the guest heap whose slots are addresses of no-op methods, registered   *)
(* as they are written.  An object of kind Hle has a pointer to one shared *)
(* object, the universal, in all its members; the universal points to      *)
(* itself.  Any allocation may fail.  Then the address is 0, and in a      *)
(* build with the soft guard what is written there is dropped and reads    *)
(* as 0; with the hard guard the process stops.                            *)
(*                                                                         *)
(* The vtables and the universal are never freed: the destructors the game *)
(* calls are no-ops like all the other methods.                            *)
(***************************************************************************)
EXTENDS Dispatch, FiniteSets

CONSTANTS Methods,       \* by kind: the addresses of its vtable's slots
          Hle,           \* the kind of hleobj.c
          Nothing,       \* the game holds no object
          MaxFailed      \* bound on the failed allocations of one thing

Kinds == DOMAIN Methods
MethodsOf(k) == Range(Methods[k])
Code == DOMAIN Handler \ UNION {MethodsOf(k) : k \in Kinds}

ASSUME ObjectsAssumption ==
  /\ Hle \in Kinds
  /\ \A k \in Kinds : Methods[k] \in Seq(DOMAIN Handler)
  /\ \A k, l \in Kinds : k # l => MethodsOf(k) \cap MethodsOf(l) = {}
  /\ \A k \in Kinds : IsInjective(Methods[k])
  /\ MaxFailed \in Nat

VARIABLES built,         \* the kinds whose g_vt, g_obj_vtable or g_audio_vtable is not 0
          universal,     \* g_universal, and whether its first word is a vtable
          held,          \* an object that the game holds: is its vtable word, are its
                         \* members what they should be; was there memory for all of it
          pending,       \* what the running factory has still to register
          failed         \* history: by kind, failed allocations of its vtable

factory == <<built, universal, held, pending, failed>>
ovars == <<vars, factory>>

Object == [kind : Kinds, vtable : BOOLEAN, member : BOOLEAN, full : BOOLEAN]
Absent == [made |-> FALSE, vtable |-> FALSE]

OInit == /\ Init
         /\ built = {} /\ universal = Absent /\ held = Nothing
         /\ pending = << >> /\ failed = [k \in Kinds |-> 0]

-----------------------------------------------------------------------------
\* The runtime has one thread: a factory returns before anything else happens.
Ready == pc = "idle" /\ pending = << >>

\* ngage_register inside a factory's loop.
RegisterNext == /\ pending # << >>
                /\ Register(Head(pending))
                /\ pending' = Tail(pending)
                /\ UNCHANGED <<built, universal, held, failed>>

\* Slip: the loop is not behind the test of the pointer.
VtableCalls_Always(k, got, times) ==
  /\ built' = IF got THEN built \cup {k} ELSE built
  /\ pending' = Methods[k]
  /\ failed' = IF k \in built \/ got THEN failed ELSE [failed EXCEPT ![k] = @ + times]

\* Slip: the last slot is left out.
VtableCalls_Short(k, got, times) ==
  /\ built' = IF got THEN built \cup {k} ELSE built
  /\ pending' = IF k \in built THEN << >> ELSE Tail(Methods[k])
  /\ failed' = IF k \in built \/ got THEN failed ELSE [failed EXCEPT ![k] = @ + times]

\* hle_vtable, obj_vtable or audio_vtable, called once, or twice when it fails
\* the first time.  All slots are registered whether or not there is a block.
VtableCalls(k, got, times) ==
  /\ built' = IF got THEN built \cup {k} ELSE built
  /\ pending' = IF k \in built THEN << >>
                ELSE IF got \/ times = 1 THEN Methods[k] ELSE Methods[k] \o Methods[k]
  /\ failed' = IF k \in built \/ got THEN failed ELSE [failed EXCEPT ![k] = @ + times]

Bounded == /\ Len(tab) + Len(pending') <= MaxTable
           /\ \A k \in Kinds : failed'[k] <= MaxFailed

\* The game keeps the new object, or the one it has.
Handed(o) == held' \in {held, o}

\* CFbsBitmap's constructor: the object is in the game's own memory.
Construct(k) ==
  /\ Ready /\ k # Hle
  /\ \E vtable \in BOOLEAN :
       LET has == vtable \/ k \in built
       IN /\ VtableCalls(k, has, 1)
          /\ Handed([kind |-> k, vtable |-> has, member |-> FALSE, full |-> has])
  /\ Bounded
  /\ UNCHANGED <<vars, universal>>

\* hle_make_object of fbserv.c, and NewL of media.c.
Make(k) ==
  /\ Ready /\ k # Hle
  /\ \E object, vtable \in BOOLEAN :
       LET has == vtable \/ k \in built
       IN /\ VtableCalls(k, has, 1)
          /\ IF object THEN Handed([kind |-> k, vtable |-> has, member |-> FALSE,
                                    full |-> has])
             ELSE UNCHANGED held
  /\ Bounded
  /\ UNCHANGED <<vars, universal>>

\* Slip: the members are read before the universal is made.
HleObject_Early ==
  /\ Ready
  /\ \E room \in 0..3 :
       LET has == room >= 2 \/ Hle \in built
           there == room >= 3 \/ universal.made
       IN /\ VtableCalls(Hle, has, IF there THEN 1 ELSE 2)
          /\ universal' = IF there /\ ~universal.made
                          THEN [made |-> TRUE, vtable |-> has]
                          ELSE universal
          /\ IF room >= 1 THEN Handed([kind |-> Hle, vtable |-> has, member |-> universal.made,
                                       full |-> has /\ there])
             ELSE UNCHANGED held
  /\ Bounded
  /\ UNCHANGED vars

\* ngage_hle_object: the object, the vtable and the universal are allocated in
\* this order, each larger than the one before, so that one that does not fit
\* is followed by none that does.
HleObject ==
  /\ Ready
  /\ \E room \in 0..3 :
       LET has == room >= 2 \/ Hle \in built
           there == room >= 3 \/ universal.made
       IN /\ VtableCalls(Hle, has, IF universal.made THEN 1 ELSE 2)
          /\ universal' = IF there /\ ~universal.made
                          THEN [made |-> TRUE, vtable |-> has]
                          ELSE universal
          /\ IF room >= 1 THEN Handed([kind |-> Hle, vtable |-> has, member |-> there,
                                       full |-> has /\ there])
             ELSE UNCHANGED held
  /\ Bounded
  /\ UNCHANGED vars

\* ngage_hle_universal and hle_return_object: the universal before its vtable.
\* One that was made without a vtable stays as it is.
Singleton ==
  /\ Ready
  /\ IF universal.made
     THEN /\ Handed([kind |-> Hle, vtable |-> universal.vtable, member |-> TRUE,
                     full |-> universal.vtable])
          /\ UNCHANGED <<built, universal, pending, failed>>
     ELSE \E object, vtable \in BOOLEAN :
            LET has == vtable \/ Hle \in built
            IN /\ VtableCalls(Hle, has, 1)
               /\ universal' = IF object THEN [made |-> TRUE, vtable |-> has]
                               ELSE universal
               /\ IF object THEN Handed([kind |-> Hle, vtable |-> has, member |-> TRUE,
                                         full |-> has])
                  ELSE UNCHANGED held
  /\ Bounded
  /\ UNCHANGED vars

-----------------------------------------------------------------------------
\* ngage_vcall of a slot of the object that the game holds.  A vtable word that
\* is 0 has an empty slot, which is only reported.
VCall(i) == /\ Ready /\ held # Nothing /\ held.vtable
            /\ i \in DOMAIN Methods[held.kind]
            /\ Begin(Methods[held.kind][i])
            /\ UNCHANGED factory

\* Generated code registers its functions, and calls any address.
Generated == /\ Ready
             /\ \/ \E a \in Code : Register(a)
                \/ \E a \in Addresses : Begin(a)
             /\ UNCHANGED factory

ONext == \/ RegisterNext
         \/ \E k \in Kinds : Construct(k) \/ Make(k)
         \/ HleObject
         \/ Singleton
         \/ \E i \in 1..MaxTable : VCall(i)
         \/ Generated
         \/ Lookup /\ UNCHANGED factory

OSpec == OInit /\ [][ONext]_ovars

-----------------------------------------------------------------------------
OTypeOK == /\ TypeOK
           /\ Len(tab) <= cap
           /\ built \subseteq Kinds /\ pending \in Seq(DOMAIN Handler)
           /\ universal \in [made : BOOLEAN, vtable : BOOLEAN]
           /\ held \in Object \cup {Nothing}
           /\ failed \in [Kinds -> 0..MaxFailed]

\* A call of a slot of the object that the game holds reaches the slot's method,
\* whichever registrations, sorts and failed allocations came in between
\* (hleobj.c:7 "so those calls resolve instead of indexing null").
VirtualCallsResolve ==
  [][pc = "search" /\ pc' = "idle" /\ held # Nothing /\ held.vtable
       /\ target \in MethodsOf(held.kind) => answer'.fn = Handler[target]]_ovars

\* An object for all of which there was memory has a vtable, and a chain of
\* pointers that begins in one of its members stays in objects that have one
\* (hleobj.c:30-32), unless the vtable could not be allocated when the universal
\* was made.
ChaseStaysValid ==
  held # Nothing /\ held.full =>
    /\ held.vtable
    /\ held.kind = Hle => /\ held.member /\ universal.made
                          /\ universal.vtable \/ failed[Hle] > 0

\* The table does not grow with the objects made: a method is registered once,
\* and once more for each time the allocation of its vtable failed.
RegisteredOnce ==
  \A k \in Kinds, a \in Addresses : a \in MethodsOf(k) =>
    Cardinality({i \in DOMAIN tab : tab[i].addr = a})
      + Cardinality({i \in DOMAIN pending : pending[i] = a}) <= 1 + failed[k]
=============================================================================
