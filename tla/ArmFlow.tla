------------------------------ MODULE ArmFlow ------------------------------
(***************************************************************************)
(* The flow of control of an ARMv4 through an image, after the             *)
(* architecture: what the functions that src/recompiler/lift.py emits have *)
(* to follow.  The program counter reads as two instructions ahead.        *)
(***************************************************************************)
EXTENDS Integers, SequencesExt

CONSTANTS Imports,       \* the addresses of the system's functions
          Values         \* what a computation may leave in a register

VARIABLES image,         \* the instruction or data word at each address
          pc, lr,
          rm,            \* a register that holds an index or a code address
          flag,          \* whether the condition of an instruction holds
          saved          \* the return addresses on the guest's stack

vars == <<image, pc, lr, rm, flag, saved>>

Init == /\ pc \in DOMAIN image /\ saved = << >>
        /\ rm \in Values /\ flag \in BOOLEAN

GoTo(a) == pc' = a /\ UNCHANGED <<image, rm, flag>>

Step(i) ==
  CASE i.op = "compute" -> /\ rm' \in Values /\ flag' \in BOOLEAN /\ pc' = pc + 1
                           /\ UNCHANGED <<image, lr, saved>>
    [] i.op = "b" -> GoTo(i.to) /\ UNCHANGED <<lr, saved>>
    [] i.op = "bl" -> GoTo(i.to) /\ lr' = pc + 1 /\ UNCHANGED saved
    [] i.op = "mov_lr_pc" -> GoTo(pc + 1) /\ lr' = pc + 2 /\ UNCHANGED saved
    [] i.op = "bx" -> GoTo(rm) /\ UNCHANGED <<lr, saved>>
    [] i.op = "bx_lr" -> GoTo(lr) /\ UNCHANGED <<lr, saved>>
    [] i.op = "ldr_pc" -> GoTo(image[pc + 2 + i.disp].val) /\ UNCHANGED <<lr, saved>>
    [] i.op = "ldr_pc_table" -> GoTo(image[pc + 2 + rm].val) /\ UNCHANGED <<lr, saved>>
    [] i.op = "push_lr" -> GoTo(pc + 1) /\ saved' = Append(saved, lr) /\ UNCHANGED lr
    [] i.op = "pop_pc" -> GoTo(Last(saved)) /\ saved' = Front(saved) /\ UNCHANGED lr

\* A function of the system comes back to where it was called from.
System == pc \in Imports /\ GoTo(lr) /\ UNCHANGED <<lr, saved>>

Next == \/ /\ pc \in DOMAIN image
           /\ IF image[pc].cc => flag THEN Step(image[pc])
              ELSE GoTo(pc + 1) /\ UNCHANGED <<lr, saved>>
        \/ System

Spec == Init /\ [][Next]_vars
=============================================================================
