------------------------------- MODULE Kernel -------------------------------
(***************************************************************************)
(* Calls, leaves and the cleanup stack: ngage_call's bookkeeping           *)
(* (dispatch.c), ngage_run and ngage_leave (kernel.c), and the imports of  *)
(* euser.c built on them.                                                  *)
(*                                                                         *)
(* ngage_run marks a place on the host stack with setjmp; a leave frees    *)
(* what was pushed on the cleanup stack since, abandons every activation   *)
(* of ngage_call above that place with longjmp, and makes that ngage_run   *)
(* return.  Abandoned activations never reach their `ngage_calldepth--`.   *)
(*                                                                         *)
(* The guest keeps Symbian's rules: it pushes objects it owns, pops what   *)
(* it pushed, and deletes what it owns and has not pushed.  The history    *)
(* variable `promised` is the cleanup stack as that guest sees it.         *)
(***************************************************************************)
EXTENDS Integers, SequencesExt

CONSTANTS Functions,     \* registered guest functions
          Import,        \* the address of an import slot, as ngage_stack sees it
          Stray,         \* an address nothing is registered for
          Objects,       \* the addresses the heap has room for
          Null,
          MaxDepth,      \* 20000: the depth taken for runaway recursion
          StackLen,      \* 512: the length of ngage_stack
          Window,        \* the most entries a report prints (12, 22 or 24)
          MaxTraps,      \* 32: the length of g_traps
          MaxCleanup,    \* 1024: the length of g_cleanup
          MaxPush,       \* bound: what the guest pushes at most
          Reasons,       \* negative reasons of LeaveIfError and Panic
          ExitCodes      \* the arguments of User::Exit

ASSUME KernelAssumption ==
  /\ MaxDepth \in Nat \ {0} /\ StackLen \in Nat \ {0} /\ Window \in Nat
  /\ MaxTraps \in Nat /\ MaxCleanup \in Nat /\ MaxPush \in Nat
  /\ Null \notin Objects
  /\ Reasons \subseteq Int /\ ExitCodes \subseteq Int

VARIABLES frames,        \* the live activations of ngage_call, innermost last
          calldepth,     \* ngage_calldepth
          stack,         \* ngage_stack
          traps,         \* g_traps[0..g_trap_n - 1]
          cleanup,       \* g_cleanup[0..g_cleanup_n - 1]
          live,          \* the objects allocated on the guest heap
          aborted,       \* the process called abort()
          ret,           \* how the last ngage_run returned, and with what
          promised,      \* history: the cleanup stack the guest built
          lost           \* history: the activations abandoned by leaves

machine == <<frames, calldepth, stack>>
objects == <<cleanup, live, promised>>
vars == <<frames, calldepth, stack, traps, cleanup, live, aborted, ret,
          promised, lost>>

Addresses == Functions \cup {Import, Stray}

\* A trap: the cleanup level and the host stack at its setjmp; plevel is the
\* level of the guest's own cleanup stack then.
Trap == [level: 0..MaxCleanup, depth: Nat, plevel: Nat]

Init == /\ frames = << >> /\ calldepth = 0
        /\ stack = [i \in 0..(StackLen - 1) |-> Null]     \* static, zero
        /\ traps = << >> /\ cleanup = << >> /\ live = {}
        /\ aborted = FALSE /\ ret = [how |-> "none", code |-> 0]
        /\ promised = << >> /\ lost = 0

\* Guest code is running: in the entry of an ngage_run, or in a function the
\* host reached through ngage_call.
Running == ~aborted /\ (frames # << >> \/ traps # << >>)

-----------------------------------------------------------------------------
\* Slip: the depth is counted before the slot is written.
Recorded_TooHigh(a) == IF calldepth + 1 < StackLen
                       THEN [stack EXCEPT ![calldepth + 1] = a] ELSE stack

\* ngage_call.  The slot of the stack is written before the depth is counted,
\* and only while it exists.
Recorded(a) == IF calldepth < StackLen THEN [stack EXCEPT ![calldepth] = a]
                                       ELSE stack

\* Slip: off by one in the depth test.
Admitted_OneMore == calldepth <= MaxDepth

\* `++ngage_calldepth > 20000` is false.
Admitted == calldepth < MaxDepth

\* A registered function: its activation stays until it returns or is left.
Call(f) == /\ ~aborted /\ Admitted
           /\ stack' = Recorded(f)
           /\ calldepth' = calldepth + 1
           /\ frames' = Append(frames, f)
           /\ UNCHANGED <<traps, objects, aborted, ret, lost>>

Return == /\ ~aborted /\ frames # << >>
          /\ traps # << >> => Len(frames) > Last(traps).depth
          /\ frames' = Front(frames)
          /\ calldepth' = calldepth - 1
          /\ UNCHANGED <<stack, traps, objects, aborted, ret, lost>>

\* Slip: the depth is given back on both paths out of the lookup.
CallUnregistered_Twice ==
  /\ ~aborted /\ Admitted
  /\ stack' = Recorded(Stray)
  /\ calldepth' = calldepth - 1
  /\ UNCHANGED <<frames, traps, objects, aborted, ret, lost>>

\* Nothing there: ngage_unimplemented is told and the call comes back.
CallUnregistered ==
  /\ ~aborted /\ Admitted
  /\ stack' = Recorded(Stray)
  /\ UNCHANGED <<calldepth, frames, traps, objects, aborted, ret, lost>>

\* The depth test fails: abort().
Runaway(a) == /\ ~aborted /\ ~Admitted
              /\ stack' = Recorded(a)
              /\ calldepth' = calldepth + 1
              /\ aborted' = TRUE
              /\ UNCHANGED <<frames, traps, objects, ret, lost>>

\* An import runs inside its own activation, which is gone when it returns.
InImport == /\ Running /\ Admitted
            /\ stack' = Recorded(Import)
            /\ UNCHANGED <<frames, calldepth, traps, aborted, ret, lost>>

-----------------------------------------------------------------------------
\* The heap as the imports use it, and the cleanup stack.

\* CBase::operator new, operator new[] and User::AllocL, with memory left.
New(o) == /\ InImport
          /\ o \in Objects \ live
          /\ live' = live \cup {o}
          /\ UNCHANGED <<cleanup, promised>>

Owned == live \ ToSet(promised)

Delete(o) == /\ InImport
             /\ o \in Owned
             /\ live' = live \ {o}
             /\ UNCHANGED <<cleanup, promised>>

\* CleanupStack::PushL; a push onto the full array is dropped in silence.
PushL(o) == /\ InImport
            /\ o \in Owned \cup {Null} /\ Len(promised) < MaxPush
            /\ cleanup' = IF Len(cleanup) < MaxCleanup THEN Append(cleanup, o)
                                                       ELSE cleanup
            /\ promised' = Append(promised, o)
            /\ UNCHANGED live

\* What is left of a stack after n pops; popping an empty one gives 0.
Less(s, n) == SubSeq(s, 1, Len(s) - n)

\* The entries of s above level n.
Above(s, n) == {s[i] : i \in (n + 1)..Len(s)}

\* The guest pops what it pushed since the trap it runs under.
MayPop(n) == Len(promised) - n >= IF traps = << >> THEN 0 ELSE Last(traps).plevel

Pop == /\ InImport /\ MayPop(1)
       /\ cleanup' = Less(cleanup, 1) /\ promised' = Less(promised, 1)
       /\ UNCHANGED live

\* Slip: one free is skipped, the entry is popped all the same.
PopAndDestroy_OneShort(n) ==
  /\ InImport /\ MayPop(n)
  /\ cleanup' = Less(cleanup, n - 1) /\ promised' = Less(promised, n)
  /\ live' = live \ Above(cleanup, IF n > Len(cleanup) THEN 0 ELSE Len(cleanup) - n)

\* PopAndDestroy (n = 1) and PopAndDestroy(TInt).
PopAndDestroy(n) ==
  /\ InImport /\ MayPop(n)
  /\ cleanup' = Less(cleanup, n) /\ promised' = Less(promised, n)
  /\ live' = live \ Above(cleanup, IF n > Len(cleanup) THEN 0 ELSE Len(cleanup) - n)

-----------------------------------------------------------------------------
\* ngage_run: the entry is called directly, not through ngage_call.
Run == /\ ~aborted /\ Len(traps) < MaxTraps
       /\ traps' = Append(traps, [level |-> Len(cleanup), depth |-> Len(frames),
                                  plevel |-> Len(promised)])
       /\ UNCHANGED <<machine, objects, aborted, ret, lost>>

RunRefused == /\ ~aborted /\ Len(traps) >= MaxTraps
              /\ ret' = [how |-> "full", code |-> -1]
              /\ UNCHANGED <<machine, traps, objects, aborted, lost>>

\* The entry returned.  The cleanup stack is not looked at.
RunDone == /\ ~aborted /\ traps # << >> /\ Len(frames) = Last(traps).depth
           /\ traps' = Front(traps)
           /\ ret' = [how |-> "done", code |-> 0]
           /\ UNCHANGED <<machine, objects, aborted, lost>>

\* Slip: the unwinding stops one entry early.
LeaveTo_Early(t, reason) ==
  /\ cleanup' = IF Len(cleanup) > t.level + 1 THEN SubSeq(cleanup, 1, t.level + 1)
                                              ELSE cleanup
  /\ live' = live \ Above(cleanup, t.level + 1)
  /\ promised' = SubSeq(promised, 1, t.plevel)
  /\ frames' = SubSeq(frames, 1, t.depth)
  /\ calldepth' = calldepth + 1
  /\ lost' = lost + 1 + Len(frames) - t.depth
  /\ traps' = Front(traps)
  /\ ret' = [how |-> "left", code |-> reason]

\* ngage_leave from inside an import, up to the return of the ngage_run whose
\* trap t is on top.  The import's own activation is among those abandoned.
LeaveTo(t, reason) ==
  /\ cleanup' = IF Len(cleanup) > t.level THEN SubSeq(cleanup, 1, t.level)
                                          ELSE cleanup
  /\ live' = live \ Above(cleanup, t.level)
  /\ promised' = SubSeq(promised, 1, t.plevel)
  /\ frames' = SubSeq(frames, 1, t.depth)
  /\ calldepth' = calldepth + 1
  /\ lost' = lost + 1 + Len(frames) - t.depth
  /\ traps' = Front(traps)
  /\ ret' = [how |-> "left", code |-> reason]

\* Without a trap ngage_leave reports and returns, and so does the import.
Leave(reason) ==
  /\ Running /\ Admitted
  /\ stack' = Recorded(Import)
  /\ UNCHANGED aborted
  /\ \/ /\ traps = << >>
        /\ UNCHANGED <<frames, calldepth, traps, objects, ret, lost>>
     \/ /\ traps # << >>
        /\ LeaveTo(Last(traps), reason)

LeaveIfError(e) == Leave(e)           \* e < 0; otherwise the import does nothing
Exit(e)         == Leave(e)           \* any code, also 0
Panic(e)        == Leave(-1000 - e)   \* after printing the call stack
NoMemory        == Objects \subseteq live /\ Leave(-4)   \* AllocL, new (ELeave)

\* An access outside the guest's memory in a guard build: report and abort().
MemFault == /\ Running
            /\ aborted' = TRUE
            /\ UNCHANGED <<machine, traps, objects, ret, lost>>

Next == \/ \E f \in Functions : Call(f)
        \/ Return
        \/ CallUnregistered
        \/ \E a \in Addresses : Runaway(a)
        \/ \E o \in Objects : New(o) \/ Delete(o)
        \/ \E o \in Objects \cup {Null} : PushL(o)
        \/ Pop
        \/ \E n \in 1..MaxPush : PopAndDestroy(n)
        \/ Run \/ RunRefused \/ RunDone
        \/ \E e \in Reasons : LeaveIfError(e) \/ Panic(e)
        \/ \E e \in ExitCodes : Exit(e)
        \/ NoMemory
        \/ MemFault

Spec == Init /\ [][Next]_vars

-----------------------------------------------------------------------------
TypeOK ==
  /\ frames \in Seq(Functions) /\ calldepth \in 0..(MaxDepth + 1)
  /\ stack \in [0..(StackLen - 1) -> Addresses \cup {Null}]
  /\ traps \in Seq(Trap)
  /\ cleanup \in Seq(Objects \cup {Null}) /\ Len(cleanup) <= MaxCleanup
  /\ live \subseteq Objects
  /\ aborted \in BOOLEAN
  /\ ret.how \in {"none", "done", "left", "full"} /\ ret.code \in Int
  /\ promised \in Seq(Objects \cup {Null})
  /\ lost \in Nat

\* The guest never needs more than the array holds.
CleanupIsLargeEnough == MaxPush <= MaxCleanup

\* The runtime's cleanup stack is the one the guest built, through nested
\* ngage_runs, pops and leaves: "guest pointers pushed via
\* CleanupStack::PushL" (kernel.c:18).
CleanupIsPromised == cleanup = promised

\* What the unwinding will free is allocated and appears once: no leave
\* frees an object twice, or one the guest has deleted.
CleanupHoldsLiveObjects ==
  \A i \in 1..Len(cleanup) : cleanup[i] # Null =>
    /\ cleanup[i] \in live
    /\ \A j \in 1..Len(cleanup) : cleanup[j] = cleanup[i] => j = i

\* A leave frees exactly what was pushed since the nearest ngage_run and gives
\* that run back the cleanup stack it started with (kernel.c:4-5, 53).
LeaveFreesWhatWasPushed ==
  [][Len(traps') < Len(traps) /\ ret'.how = "left" =>
       LET level == Last(traps).plevel
       IN  /\ cleanup' = SubSeq(promised, 1, level)
           /\ live' = live \ Above(promised, level)]_vars

\* Recursion is stopped before the host stack holds more than MaxDepth
\* activations (dispatch.c:50), also after leaves left the counter too high.
RunawayIsCaught == Len(frames) <= MaxDepth

\* The indices mem_fault, watch_hit and User::Panic print now.
Reported == {i \in 0..(calldepth - 1) : i >= calldepth - Window}

\* As long as nothing was left and the array was not outgrown, a report shows
\* the callers, innermost last (dispatch.c:27-28).
ReportShowsCallers ==
  lost = 0 /\ ~aborted /\ calldepth <= StackLen =>
    \A i \in Reported : stack[i] = frames[i + 1]

=============================================================================
