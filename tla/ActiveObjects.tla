--------------------------- MODULE ActiveObjects ---------------------------
(***************************************************************************)
(* The active scheduler of src/runtime/src/hle/scheduler.c: the list of    *)
(* CActive objects, request completion and ngage_as_step.                  *)
(*                                                                         *)
(* The host calls ngage_as_step, which calls the RunL of each listed       *)
(* object whose iStatus is not KRequestPending.  RunL is guest code: while *)
(* it runs it adds objects, issues and completes requests, constructs and  *)
(* destroys objects, and it may leave, which abandons the whole step.      *)
(* The memory of a destroyed object may be given to something else, while  *)
(* its address stays on the list.                                          *)
(* The guest issues a request only on an object that is not active, and    *)
(* does not destroy the object whose RunL is running.                      *)
(***************************************************************************)
EXTENDS Naturals, SequencesExt

CONSTANTS Actives,       \* the addresses of CActive objects
          Nobody,        \* no guest code is running
          Guest,         \* guest code other than a RunL: boot code or an event
          MaxActive,     \* 64: the length of g_active
          MaxOwed        \* bound on completions not yet followed by a RunL

ASSUME ActiveAssumption ==
  /\ {Nobody, Guest} \cap Actives = {} /\ Nobody # Guest
  /\ MaxActive \in Nat /\ MaxOwed \in Nat

VARIABLES list,          \* g_active[0..g_nactive - 1]
          alive,         \* the objects that are constructed
          virtual,       \* the word at an address is a vtable with a method there
          pending,       \* iStatus = KRequestPending, by object
          isActive,      \* iActive, by object
          ref,           \* the service's pointer to the iStatus is not null
          stepping,      \* the host is inside ngage_as_step
          next,          \* its loop index, from 1
          running,       \* whose code runs
          owed,          \* history: completions not yet followed by a RunL
          ran,           \* history: the objects run by this step
          due            \* history: what this step found listed and completed

memory == <<alive, virtual, pending, isActive, ref, owed>>
vars == <<list, alive, virtual, pending, isActive, ref, stepping, next, running,
          owed, ran, due>>

Init == /\ list = << >> /\ alive = {}
        /\ virtual = [a \in Actives |-> FALSE]
        /\ pending = [a \in Actives |-> FALSE]
        /\ isActive = [a \in Actives |-> FALSE]
        /\ ref = [a \in Actives |-> FALSE]
        /\ stepping = FALSE /\ next = 1 /\ running = Nobody
        /\ owed = [a \in Actives |-> 0] /\ ran = {} /\ due = {}

GuestRuns == running # Nobody

host == <<list, stepping, next, running, ran>>

Completed(a) == isActive[a] /\ ~pending[a]

-----------------------------------------------------------------------------
\* Guest code and the imports it calls.

\* operator new zeroes the object: its iStatus is not KRequestPending.  The
\* address may be that of an object destroyed before.
Construct(a) == /\ GuestRuns /\ a \notin alive
                /\ alive' = alive \cup {a}
                /\ virtual' = [virtual EXCEPT ![a] = TRUE]
                /\ pending' = [pending EXCEPT ![a] = FALSE]
                /\ isActive' = [isActive EXCEPT ![a] = FALSE]
                /\ ref' = [ref EXCEPT ![a] = FALSE]
                /\ owed' = [owed EXCEPT ![a] = 0]
                /\ due' = due \ {a}
                /\ UNCHANGED host

\* ~CActive and Cancel are no-ops, the list keeps the address, and free()
\* leaves the contents: only the owner's claim to the object ends.
Destroy(a) == /\ GuestRuns /\ a \in alive /\ running # a
              /\ alive' = alive \ {a}
              /\ UNCHANGED <<virtual, pending, isActive, ref, owed, host, due>>

\* Something else is allocated where an object was whose address is still on
\* the list: its words are any, the first may be a vtable whose method would be
\* called for a RunL, and no service completes requests there.
Overwrite(a) == /\ GuestRuns /\ a \notin alive /\ Contains(list, a)
                /\ \E v, p, f \in BOOLEAN :
                     /\ virtual' = [virtual EXCEPT ![a] = v]
                     /\ pending' = [pending EXCEPT ![a] = p]
                     /\ isActive' = [isActive EXCEPT ![a] = f]
                /\ ref' = [ref EXCEPT ![a] = FALSE]
                /\ owed' = [owed EXCEPT ![a] = 0]
                /\ due' = due \ {a}
                /\ UNCHANGED <<alive, host>>

\* Slip: the bound is one too high.
Listed_TooLong(a) == IF Len(list) <= MaxActive /\ ~Contains(list, a)
                     THEN Append(list, a) ELSE list

\* Slip: the search for the object is left out.
Listed_Again(a) == IF Len(list) < MaxActive THEN Append(list, a) ELSE list

Listed(a) == IF Len(list) < MaxActive /\ ~Contains(list, a)
             THEN Append(list, a) ELSE list

\* CActiveScheduler::Add; the 65th object is dropped in silence.
Add(a) == /\ GuestRuns /\ a \in alive
          /\ list' = Listed(a)
          /\ UNCHANGED <<memory, stepping, next, running, ran, due>>

\* The guest asks its own service for something, which marks the status
\* pending and keeps a reference to it; then CActive::SetActive.
Issue(a) == /\ GuestRuns /\ a \in alive /\ ~isActive[a]
            /\ pending' = [pending EXCEPT ![a] = TRUE]
            /\ ref' = [ref EXCEPT ![a] = TRUE]
            /\ isActive' = [isActive EXCEPT ![a] = TRUE]
            /\ UNCHANGED <<alive, virtual, owed, host, due>>

\* User::RequestComplete: writes *aStatus, if aStatus is not null, and nulls it.
RequestComplete(a) ==
  /\ GuestRuns /\ owed[a] < MaxOwed
  /\ pending' = IF ref[a] THEN [pending EXCEPT ![a] = FALSE] ELSE pending
  /\ ref' = [ref EXCEPT ![a] = FALSE]
  /\ owed' = IF ref[a] THEN [owed EXCEPT ![a] = owed[a] + 1] ELSE owed
  /\ UNCHANGED <<alive, virtual, isActive, host, due>>

\* The guest code comes back to the host.
GuestReturns ==
  /\ GuestRuns
  /\ running' = Nobody
  /\ next' = IF stepping THEN next + 1 ELSE next
  /\ owed' = IF running \in Actives /\ owed[running] > 0
             THEN [owed EXCEPT ![running] = owed[running] - 1] ELSE owed
  /\ UNCHANGED <<list, alive, virtual, pending, isActive, ref, stepping, ran, due>>

\* A leave goes to the ngage_run around the host's call: nothing of
\* ngage_as_step, ngage_call_vmethod or ngage_inject_key is left.  The index and
\* the histories of a step end with it.
GuestLeaves ==
  /\ GuestRuns
  /\ running' = Nobody /\ stepping' = FALSE /\ next' = 1 /\ ran' = {} /\ due' = {}
  /\ UNCHANGED <<memory, list>>

-----------------------------------------------------------------------------
\* The host.

\* The entry of the game, a control's Draw, or the OfferKeyEventL that
\* ngage_inject_key calls.
EnterGuest == /\ running = Nobody /\ ~stepping
              /\ running' = Guest
              /\ UNCHANGED <<memory, list, stepping, next, ran, due>>

BeginStep == /\ running = Nobody /\ ~stepping
             /\ stepping' = TRUE /\ next' = 1 /\ ran' = {}
             /\ due' = {a \in ToSet(list) : Completed(a)}
             /\ UNCHANGED <<memory, list, running>>

InStep == stepping /\ running = Nobody

\* Slip: the object that was run is taken off the list.
RunNext_Remove ==
  /\ InStep /\ next <= Len(list) /\ ~pending[list[next]] /\ virtual[list[next]]
  /\ running' = list[next]
  /\ list' = RemoveAt(list, next)
  /\ isActive' = [isActive EXCEPT ![list[next]] = FALSE]
  /\ ran' = ran \cup {list[next]}
  /\ UNCHANGED <<alive, virtual, pending, ref, owed, stepping, next, due>>

\* The status is not KRequestPending: clear iActive and call RunL.  iActive
\* itself is not looked at, nor is iStatus changed.
RunNext == /\ InStep /\ next <= Len(list) /\ ~pending[list[next]] /\ virtual[list[next]]
           /\ isActive' = [isActive EXCEPT ![list[next]] = FALSE]
           /\ running' = list[next]
           /\ ran' = ran \cup {list[next]}
           /\ UNCHANGED <<list, alive, virtual, pending, ref, owed, stepping, next, due>>

\* ngage_call_vmethod finds no method in the image: iActive, or what is there
\* now, is cleared all the same, and the object counts as run.
RunRefused == /\ InStep /\ next <= Len(list) /\ ~pending[list[next]] /\ ~virtual[list[next]]
              /\ isActive' = [isActive EXCEPT ![list[next]] = FALSE]
              /\ ran' = ran \cup {list[next]}
              /\ next' = next + 1
              /\ UNCHANGED <<list, alive, virtual, pending, ref, owed, stepping, running, due>>

\* Slip: the first pending object ends the step.
SkipNext_Break == /\ InStep /\ next <= Len(list) /\ pending[list[next]]
                  /\ stepping' = FALSE
                  /\ UNCHANGED <<memory, list, next, running, ran, due>>

SkipNext == /\ InStep /\ next <= Len(list) /\ pending[list[next]]
            /\ next' = next + 1
            /\ UNCHANGED <<memory, list, stepping, running, ran, due>>

\* g_nactive is read again each turn: objects added by a RunL are reached.
EndStep == /\ InStep /\ next > Len(list)
           /\ stepping' = FALSE /\ next' = 1 /\ ran' = {} /\ due' = {}
           /\ UNCHANGED <<memory, list, running>>

StepOn == RunNext \/ RunRefused \/ SkipNext \/ EndStep

Next == \/ \E a \in Actives : \/ Construct(a) \/ Destroy(a) \/ Overwrite(a)
                              \/ Add(a) \/ Issue(a) \/ RequestComplete(a)
        \/ GuestReturns \/ GuestLeaves
        \/ EnterGuest
        \/ BeginStep \/ StepOn

Spec == Init /\ [][Next]_vars

\* The host's loop: guest code ends, a step that was begun goes on, and the
\* host begins a step again and again.
Fairness == /\ WF_vars(GuestReturns \/ GuestLeaves)
            /\ WF_vars(StepOn)
            /\ SF_vars(BeginStep)

FairSpec == Spec /\ Fairness

-----------------------------------------------------------------------------
TypeOK ==
  /\ list \in Seq(Actives) /\ Len(list) <= MaxActive
  /\ alive \subseteq Actives /\ virtual \in [Actives -> BOOLEAN]
  /\ pending \in [Actives -> BOOLEAN] /\ isActive \in [Actives -> BOOLEAN]
  /\ ref \in [Actives -> BOOLEAN] /\ owed \in [Actives -> Nat]
  /\ stepping \in BOOLEAN /\ next \in Nat \ {0}
  /\ running \in Actives \cup {Nobody, Guest}
  /\ ran \subseteq Actives /\ due \subseteq Actives

\* One call of ngage_as_step runs an object at most once, although RunLs add
\* objects to the list while the loop walks it (scheduler.c:129-142).
OncePerStep ==
  [][\A a \in Actives : stepping /\ running = Nobody /\ running' = a
                          => a \notin ran]_vars

\* A step that no leave cut short has run, when it ends, every object that was
\* listed with its request completed when it began, whatever the RunLs before
\* it added, issued, completed or destroyed (scheduler.c:129-142).
StepServesDue ==
  [][stepping /\ running = Nobody /\ ~stepping' => due \subseteq ran]_vars

\* If guest code stops leaving, a completed request of a listed object leads
\* to its RunL, or the object is destroyed (scheduler.c:129-130): no leave
\* before, and nothing another RunL does, makes the scheduler forget it.
CompletedIsServed ==
  <>[][~GuestLeaves]_vars =>
    \A a \in Actives :
      Contains(list, a) /\ Completed(a) ~> running = a \/ a \notin alive

-----------------------------------------------------------------------------
\* scheduler.c:129 "run RunL for any CActive whose request has completed": a
\* RunL answers a completion.  An object with no request at all is run too.
OneRunPerCompletion == running \in Actives => owed[running] > 0
=============================================================================
