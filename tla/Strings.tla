------------------------------ MODULE Strings ------------------------------
(***************************************************************************)
(* What descriptors promise the program that uses them: a descriptor has   *)
(* a type, a text, a length and a maximum, kept apart from all text.  A    *)
(* call builds one, sets its length within the maximum, or writes to its   *)
(* text, and touches no other; the program's own code changes texts only.  *)
(***************************************************************************)
EXTENDS GuestMemory

CONSTANTS Places,        \* where descriptors are kept
          Texts,         \* where text is kept that descriptors point at
          Nothing        \* no descriptor is kept there

VARIABLES desc,          \* the descriptors
          text,          \* the bytes of memory where no descriptor is kept
          calls          \* calls made

vars == <<desc, text, calls>>

\* The bytes that a descriptor may use, and those that it uses.
Span(d, n) == Bytes(d.ptr, IF d.type = 1 THEN 2 * n ELSE n)

Sound(s, d) ==
  /\ d.len <= d.max /\ Span(d, d.max) \subseteq Memory
  /\ d.type \in {0, 1} => d.max = d.len
  /\ IF d.type = 0 THEN d.ptr = s + 4 ELSE IF d.type = 3 THEN d.ptr = s + 8
     ELSE d.ptr \in Texts

Init == /\ \A s \in Places : desc[s] # Nothing => Sound(s, desc[s])
        /\ calls = 0

Modifiable(d) == d # Nothing /\ d.type \in {2, 3, 4}

Same(bytes) == LET was == text
                   is == text'
               IN \A x \in (DOMAIN was \cap DOMAIN is) \ bytes : is[x] = was[x]

\* A wide string ends before a zero unit.
Terminated(d) ==
  LET t == text
  IN \A k \in 0..d.len : (Read(t, (d.ptr + 2 * k) % Word, 2) = 0) <=> k = d.len

\* A constructor: a descriptor d is at s, whatever was there before.
Build(s, d) ==
  /\ d.type \in {1, 2, 3} /\ Sound(s, d)
  /\ d.type = 1 => Terminated(d)
  /\ Same({})

\* A new length, and perhaps as many bytes as that.
Resize(d, new) == /\ Modifiable(d) /\ new.len <= d.max
                  /\ new = [d EXCEPT !.len = new.len]
                  /\ Same(Span(d, new.len))

\* The text of one descriptor, to its maximum.
Write(d) == Modifiable(d) /\ Same(Span(d, d.max))

Call ==
  LET was == desc
      is == desc'
  IN \/ is = was /\ (text' = text \/ \E s \in Places : Write(was[s]))
     \/ \E s \in Places :
          /\ is[s] # Nothing /\ is = [was EXCEPT ![s] = is[s]]
          /\ Build(s, is[s]) \/ Resize(was[s], is[s])

\* The program's own code leaves the descriptors alone.
Next == \/ calls' = calls + 1 /\ Call
        \/ calls' = calls /\ desc' = desc

Spec == Init /\ [][Next]_vars
=============================================================================
