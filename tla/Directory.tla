----------------------------- MODULE Directory -----------------------------
(***************************************************************************)
(* What the runtime promises generated code of ngage_call: an address that *)
(* was registered, at any time before the call, reaches its own handler,   *)
(* and every other address reaches none.  Dispatch.tla implements it.      *)
(***************************************************************************)
CONSTANTS Addresses,     \* the guest addresses calls are made to
          Handler,       \* the native function of each registrable address
          Unregistered   \* the outcome of a call that finds no function

VARIABLES known,         \* the addresses registered so far
          answer         \* the last call and what it reached

dvars == <<known, answer>>

DInit == known = {} /\ answer = [addr |-> Unregistered, fn |-> Unregistered]

Enter(a) == known' = known \cup {a} /\ UNCHANGED answer

Find(a) == /\ answer' = [addr |-> a, fn |-> IF a \in known THEN Handler[a]
                                            ELSE Unregistered]
           /\ UNCHANGED known

DNext == \/ \E a \in DOMAIN Handler : Enter(a)
         \/ \E a \in Addresses : Find(a)

DSpec == DInit /\ [][DNext]_dvars
=============================================================================
