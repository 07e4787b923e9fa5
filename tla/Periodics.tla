----------------------------- MODULE Periodics -----------------------------
(***************************************************************************)
(* The CPeriodic timers of src/runtime/src/hle/scheduler.c, which are the  *)
(* game loop: ngage_pump_periodics calls the callback of every timer that  *)
(* was started, once a frame, and the game takes its time from             *)
(* User::TickCount.  A callback is guest code: it creates and starts       *)
(* timers, waits in User::After, deletes timers and may leave, which       *)
(* abandons the whole pump.                                                *)
(*                                                                         *)
(* A timer and its callback have one name here.  The guest starts a timer  *)
(* that exists, so that line 30 finds it, and that is not active, as line  *)
(* 21 says it does.                                                        *)
(***************************************************************************)
EXTENDS Naturals, SequencesExt

CONSTANTS Timers,        \* the CPeriodic objects, with their callbacks
          Nobody,        \* no guest code is running
          Guest,         \* guest code that is no callback
          MaxPer,        \* 16: the length of g_per
          Delays,        \* the arguments of User::After, in microseconds
          MaxCount,      \* bound on the frames of one pump
          MaxTicks       \* bound on the tick counter

ASSUME PeriodicsAssumption ==
  /\ {Nobody, Guest} \cap Timers = {} /\ Nobody # Guest
  /\ MaxPer \in Nat /\ Delays \subseteq Nat
  /\ MaxCount \in Nat /\ MaxTicks \in Nat

VARIABLES per,           \* g_per[0..g_nper - 1]
          created,       \* the timers that exist
          marked,        \* the word at offset 8 is not 0, by timer
          ticks,         \* ngage_g_ticks
          pumping,       \* the host is inside ngage_pump_periodics
          left,          \* frames that it has still to begin
          index,         \* its index in g_per, from 1; 0 between two frames
          running,       \* whose code runs
          deleted,       \* history: the timers the guest ever deleted
          fired,         \* history: the callbacks called in this frame
          lastTick       \* history: the tick of each callback's last call

timers == <<per, created, marked, deleted>>
vars == <<per, created, marked, ticks, pumping, left, index, running,
          deleted, fired, lastTick>>

Init == /\ per = << >> /\ created = {}
        /\ marked = [p \in Timers |-> FALSE]
        /\ ticks = 0 /\ pumping = FALSE /\ left = 0 /\ index = 0
        /\ running = Nobody /\ deleted = {} /\ fired = {}
        /\ lastTick = [p \in Timers |-> 0]

pump == <<ticks, pumping, left, index, running, fired, lastTick>>

GuestRuns == running # Nobody

-----------------------------------------------------------------------------
\* Guest code and the imports it calls.

\* CPeriodic::NewL: offset 8 of a zeroed allocation reads 0.
NewL(p) == /\ GuestRuns /\ p \notin created
           /\ created' = created \cup {p}
           /\ marked' = [marked EXCEPT ![p] = FALSE]
           /\ UNCHANGED <<per, deleted, pump>>

\* Slip: the bound is one too high.
Recorded_TooLong(p) == IF Len(per) <= MaxPer THEN Append(per, p) ELSE per

\* The 17th callback is dropped in silence.
Recorded(p) == IF Len(per) < MaxPer THEN Append(per, p) ELSE per

\* Slip: the timer is not marked active.
Start_Unmarked(p) ==
  /\ GuestRuns /\ p \in created /\ ~marked[p]
  /\ per' \in {Recorded(p), per}
  /\ UNCHANGED <<created, marked, deleted, pump>>

\* CPeriodic::Start; delay and interval are not looked at.  A null callback is
\* not recorded.
Start(p) == /\ GuestRuns /\ p \in created /\ ~marked[p]
            /\ marked' = [marked EXCEPT ![p] = TRUE]
            /\ per' \in {Recorded(p), per}
            /\ UNCHANGED <<created, deleted, pump>>

\* Cancel and the destructor are no-ops: g_per keeps the callback.
Delete(p) == /\ GuestRuns /\ p \in created
             /\ created' = created \ {p}
             /\ deleted' = deleted \cup {p}
             /\ UNCHANGED <<per, marked, pump>>

AtLeastOne(n) == IF n = 0 THEN 1 ELSE n

\* User::After: microseconds become whole ticks of 1/64 s, at least one.
After(us) == /\ GuestRuns
             /\ ticks + AtLeastOne(us \div 15625) + left <= MaxTicks
             /\ ticks' = ticks + AtLeastOne(us \div 15625)
             /\ UNCHANGED <<timers, pumping, left, index, running, fired, lastTick>>

\* Slip: the index does not move on.
GuestReturns_Stay ==
  /\ GuestRuns /\ running' = Nobody
  /\ UNCHANGED <<timers, ticks, pumping, left, index, fired, lastTick>>

\* The guest code comes back to the host, a callback to the pump's loop.
GuestReturns ==
  /\ GuestRuns /\ running' = Nobody
  /\ index' = IF pumping THEN index + 1 ELSE index
  /\ UNCHANGED <<timers, ticks, pumping, left, fired, lastTick>>

\* A leave goes to the ngage_run around the host's call of the pump.
GuestLeaves ==
  /\ GuestRuns
  /\ running' = Nobody /\ pumping' = FALSE /\ left' = 0 /\ index' = 0
  /\ UNCHANGED <<timers, ticks, fired, lastTick>>

-----------------------------------------------------------------------------
\* The host.

EnterGuest == /\ running = Nobody /\ ~pumping
              /\ running' = Guest
              /\ UNCHANGED <<timers, ticks, pumping, left, index, fired, lastTick>>

BeginPump(count) ==
  /\ running = Nobody /\ ~pumping /\ ticks + count <= MaxTicks
  /\ pumping' = TRUE /\ left' = count /\ index' = 0
  /\ UNCHANGED <<timers, ticks, running, fired, lastTick>>

BetweenFrames == pumping /\ running = Nobody /\ index = 0
InFrame == pumping /\ running = Nobody /\ index > 0

\* Slip: time stands still.
BeginFrame_NoTick ==
  /\ BetweenFrames /\ left > 0
  /\ left' = left - 1 /\ index' = 1 /\ fired' = {}
  /\ UNCHANGED <<timers, ticks, pumping, running, lastTick>>

BeginFrame == /\ BetweenFrames /\ left > 0
              /\ ticks' = ticks + 1
              /\ left' = left - 1 /\ index' = 1 /\ fired' = {}
              /\ UNCHANGED <<timers, pumping, running, lastTick>>

\* g_nper is read again each turn: timers started by a callback are reached.
Fire == /\ InFrame /\ index <= Len(per)
        /\ running' = per[index]
        /\ fired' = fired \cup {per[index]}
        /\ lastTick' = [lastTick EXCEPT ![per[index]] = ticks]
        /\ UNCHANGED <<timers, ticks, pumping, left, index>>

\* Slip: the last callback is left out.
EndFrame_Early ==
  /\ InFrame /\ index >= Len(per)
  /\ index' = 0
  /\ UNCHANGED <<timers, ticks, pumping, left, running, fired, lastTick>>

EndFrame == /\ InFrame /\ index > Len(per)
            /\ index' = 0
            /\ UNCHANGED <<timers, ticks, pumping, left, running, fired, lastTick>>

EndPump == /\ BetweenFrames /\ left = 0
           /\ pumping' = FALSE
           /\ UNCHANGED <<timers, ticks, left, index, running, fired, lastTick>>

PumpOn == BeginFrame \/ Fire \/ EndFrame \/ EndPump

Next == \/ \E p \in Timers : NewL(p) \/ Start(p) \/ Delete(p)
        \/ \E us \in Delays : After(us)
        \/ GuestReturns \/ GuestLeaves
        \/ EnterGuest
        \/ \E count \in 0..MaxCount : BeginPump(count)
        \/ PumpOn

Spec == Init /\ [][Next]_vars

\* A pump that was begun goes on, and guest code ends.
Fairness == WF_vars(PumpOn) /\ WF_vars(GuestReturns \/ GuestLeaves)

FairSpec == Spec /\ Fairness

-----------------------------------------------------------------------------
TypeOK == /\ per \in Seq(Timers) /\ Len(per) <= MaxPer
          /\ created \subseteq Timers /\ marked \in [Timers -> BOOLEAN]
          /\ ticks \in Nat /\ ticks + left <= MaxTicks
          /\ pumping \in BOOLEAN /\ left \in 0..MaxCount
          /\ index \in 0..MaxPer + 1
          /\ running \in Timers \cup {Nobody, Guest}
          /\ deleted \subseteq Timers /\ fired \subseteq Timers
          /\ lastTick \in [Timers -> 0..MaxTicks]

\* A timer the guest never deleted runs its callback at most once in a frame
\* (scheduler.c:44 "one frame each"), although callbacks start timers while the
\* loop walks them, and after leaves that cut a pump short.
OncePerFrame ==
  [][\A p \in Timers \ deleted : InFrame /\ running' = p => p \notin fired]_vars

\* From one call of such a callback to its next, User::TickCount has moved on
\* (scheduler.c:34-36), after leaves too.
TimeAdvances ==
  [][\A p \in Timers \ deleted : InFrame /\ running' = p => ticks > lastTick[p]]_vars

\* A frame that no leave cut short has called every recorded callback when it
\* ends, those that were started during the frame included (scheduler.c:49-54).
FrameCoversRecorded ==
  [][InFrame /\ index' = 0 => ToSet(per) \subseteq fired]_vars

\* Every pump comes back to the host, whatever its callbacks start
\* (scheduler.c:45-57).
PumpEnds == pumping ~> ~pumping
=============================================================================
