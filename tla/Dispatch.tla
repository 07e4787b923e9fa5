------------------------------ MODULE Dispatch ------------------------------
(***************************************************************************)
(* The guest-to-native dispatch table (src/runtime/src/dispatch.c).        *)
(*                                                                         *)
(* ngage_register appends to an array and marks it unsorted; the next      *)
(* ngage_call sorts it with qsort, which leaves entries of equal address   *)
(* in any order, and finds the lower bound of its target by bisection.     *)
(* Registrations also come while the program runs: the synthetic vtables   *)
(* of hleobj.c, fbserv.c and media.c register theirs at the first use, and *)
(* again when the allocation of the vtable failed.                         *)
(* Indices are those of C, from 0: g_tab[i] is tab[i + 1].                 *)
(***************************************************************************)
EXTENDS Naturals, Sequences, Functions

CONSTANTS Addresses,     \* the addresses calls go to, numbers
          Handler,       \* the function registered for each registrable address
          Unregistered,
          FirstCap,      \* the capacity of the first allocation (1024)
          MaxTable       \* bound: no more registrations than this

ASSUME DispatchAssumption ==
  /\ Addresses \subseteq Nat
  /\ DOMAIN Handler \subseteq Addresses
  /\ FirstCap \in Nat \ {0}
  /\ MaxTable \in Nat

VARIABLES tab,           \* g_tab[0..g_n - 1]
          cap,           \* g_cap
          dirty,         \* g_dirty
          pc,            \* where ngage_call is: "idle", "sort" or "search"
          target,        \* its argument
          lo, hi,        \* its interval
          answer,        \* the last call that ended, and the function it found
          known          \* history: the addresses registered so far

vars == <<tab, cap, dirty, pc, target, lo, hi, answer, known>>

Entry == [addr: DOMAIN Handler, fn: Range(Handler)]

Init == /\ tab = << >> /\ cap = 0 /\ dirty = FALSE
        /\ pc = "idle" /\ target = 0 /\ lo = 0 /\ hi = 0
        /\ answer = [addr |-> Unregistered, fn |-> Unregistered]
        /\ known = {}

\* Slip: the array grows one registration too late.
Grown_Late(n) == IF n > cap THEN (IF cap = 0 THEN FirstCap ELSE 2 * cap) ELSE cap

\* The capacity once there is space for an entry behind n others.
Grown(n) == IF n = cap THEN (IF cap = 0 THEN FirstCap ELSE 2 * cap) ELSE cap

\* Slip: the table is taken to stay sorted.
Register_Clean(a) ==
  /\ pc = "idle" /\ Len(tab) < MaxTable
  /\ cap' = Grown(Len(tab))
  /\ tab' = Append(tab, [addr |-> a, fn |-> Handler[a]])
  /\ known' = known \cup {a}
  /\ UNCHANGED <<dirty, pc, target, lo, hi, answer>>

\* ngage_register.  No registration happens inside a lookup: the runtime has
\* one thread, and the search calls nothing.
Register(a) ==
  /\ pc = "idle" /\ Len(tab) < MaxTable
  /\ cap' = Grown(Len(tab))
  /\ tab' = Append(tab, [addr |-> a, fn |-> Handler[a]])
  /\ dirty' = TRUE
  /\ known' = known \cup {a}
  /\ UNCHANGED <<pc, target, lo, hi, answer>>

-----------------------------------------------------------------------------
\* ngage_call, up to the sort.
Begin(a) == /\ pc = "idle"
            /\ target' = a
            /\ pc' = "sort"
            /\ UNCHANGED <<tab, cap, dirty, lo, hi, answer, known>>

Sorted(t) == \A i, j \in DOMAIN t : i < j => t[i].addr <= t[j].addr

\* The outcomes of qsort: every sorted rearrangement.
Orderings(t) ==
  {u \in {[i \in DOMAIN t |-> t[p[i]]] : p \in Bijection(DOMAIN t, DOMAIN t)} :
     Sorted(u)}

\* `if (g_dirty) { qsort(...); g_dirty = 0; }`, then lo = 0, hi = g_n.
Sort == /\ pc = "sort"
        /\ tab' \in IF dirty THEN Orderings(tab) ELSE {tab}
        /\ dirty' = FALSE
        /\ lo' = 0 /\ hi' = Len(tab)
        /\ pc' = "search"
        /\ UNCHANGED <<cap, target, answer, known>>

Mid == lo + ((hi - lo) \div 2)

\* Slip: <= for <, which looks for the upper bound.
Bisect_Upper ==
  /\ pc = "search" /\ lo < hi
  /\ IF tab[Mid + 1].addr <= target
       THEN lo' = Mid + 1 /\ UNCHANGED hi
       ELSE hi' = Mid /\ UNCHANGED lo
  /\ UNCHANGED <<tab, cap, dirty, pc, target, answer, known>>

Bisect ==
  /\ pc = "search" /\ lo < hi
  /\ IF tab[Mid + 1].addr < target
       THEN lo' = Mid + 1 /\ UNCHANGED hi
       ELSE hi' = Mid /\ UNCHANGED lo
  /\ UNCHANGED <<tab, cap, dirty, pc, target, answer, known>>

Hit == lo < Len(tab) /\ tab[lo + 1].addr = target

\* The test after the loop.  A hit runs the function, which may register and
\* call in turn: the table is not used again for this call.
Finish ==
  /\ pc = "search" /\ ~(lo < hi)
  /\ answer' = [addr |-> target, fn |-> IF Hit THEN tab[lo + 1].fn
                                        ELSE Unregistered]
  /\ pc' = "idle"
  /\ UNCHANGED <<tab, cap, dirty, target, lo, hi, known>>

Lookup == Sort \/ Bisect \/ Finish

Next == \/ \E a \in DOMAIN Handler : Register(a)
        \/ \E a \in Addresses : Begin(a)
        \/ Lookup

Spec == Init /\ [][Next]_vars

-----------------------------------------------------------------------------
TypeOK ==
  /\ tab \in Seq(Entry) /\ cap \in Nat /\ dirty \in BOOLEAN
  /\ pc \in {"idle", "sort", "search"}
  /\ target \in Addresses \cup {0} /\ (pc # "idle" => target \in Addresses)
  /\ lo \in Nat /\ hi \in Nat
  /\ answer \in [addr: Addresses \cup {Unregistered},
                 fn: Range(Handler) \cup {Unregistered}]
  /\ known \subseteq DOMAIN Handler

\* ngage_register writes g_tab[g_n] inside the array it has allocated.
TableFits == Len(tab) <= cap

\* The interval of the search always brackets the target's place: entries
\* below lo are smaller, entries from hi on are not (dispatch.c:56-60), in a
\* table that registrations since the last call left in any order.
SearchBrackets ==
  pc = "search" =>
    /\ ~dirty /\ Sorted(tab)
    /\ lo <= hi /\ hi <= Len(tab)
    /\ \A i \in 1..Len(tab) : /\ i <= lo => tab[i].addr < target
                              /\ i > hi => tab[i].addr >= target

\* The lookup is logarithmic (dispatch.c:10): each turn at least halves the
\* interval that is left.
SearchHalves ==
  [][pc = "search" /\ pc' = "search" => 2 * (hi' - lo') <= hi - lo]_vars

\* A call reaches the handler of its address whenever that was registered
\* before, and only then: Directory.tla.
Promise == INSTANCE Directory

ImplementsDirectory == Promise!DSpec
=============================================================================
