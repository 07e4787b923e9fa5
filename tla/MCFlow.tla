------------------------------- MODULE MCFlow -------------------------------
(* A function f of five instructions, three of which are any, a function g  *)
(* of two, a thunk t for an import, and a function s with a jump table of   *)
(* three words behind it, which a branch leads around.                      *)
EXTENDS Flow

f == 0
g == 5
t == 7
s == 9
import == 20

Always(op) == [op |-> op, cc |-> FALSE]
Maybe(op) == {[op |-> op, cc |-> cc] : cc \in BOOLEAN}
To(op, a) == {[op |-> op, cc |-> cc, to |-> a] : cc \in BOOLEAN}
Word(a) == [op |-> "word", val |-> a]

\* A computation, calls, branches within f, early returns.
InF == {Always("compute")} \cup To("bl", g) \cup To("bl", import) \cup To("bl", s)
       \cup To("b", 1) \cup To("b", 4) \cup Maybe("pop_pc")
\* mov lr, pc and the bx after it are executed under one condition.
Idioms == {<<[op |-> "mov_lr_pc", cc |-> cc], [op |-> "bx", cc |-> cc]>> : cc \in BOOLEAN}
Bodies == {<<x, y, Always("compute")>> : x \in InF, y \in InF}
          \cup {i \o <<x>> : i \in Idioms, x \in InF}
          \cup {<<x>> \o i : i \in Idioms, x \in InF}
InG == {Always("compute")} \cup Maybe("bx") \cup Maybe("bx_lr")
       \cup To("b", f) \cup To("b", s) \cup To("b", t)
\* A table of labels, and one of functions.
Tables == {<<14, 15, 14>>, <<g, t, g>>}

Image(body, z, table) ==
  [a \in 0..15 |->
     CASE a = f -> Always("push_lr") [] a \in 1..3 -> body[a] [] a = 4 -> Always("pop_pc")
       [] a = g -> z [] a = 6 -> Always("bx_lr")
       [] a = t -> [op |-> "ldr_pc", cc |-> FALSE, disp |-> -1] [] a = 8 -> Word(import)
       [] a = s -> [op |-> "ldr_pc_table", cc |-> TRUE]
       [] a = 10 -> [op |-> "b", cc |-> FALSE, to |-> 15]
       [] a \in 11..13 -> Word(table[a - 10])
       [] a = 14 -> Always("compute") [] a = 15 -> Always("bx_lr")]

MCImages == {Image(body, z, table) : body \in Bodies, z \in InG, table \in Tables}
MCFunctions == {[start |-> f, end |-> 5, heads |-> 0..4],
                [start |-> g, end |-> 7, heads |-> 5..6],
                [start |-> t, end |-> 9, heads |-> {7}],
                [start |-> s, end |-> 16, heads |-> {9, 10, 14, 15}]}
MCValues == {0, 1, 2, g, import}
MCImports == {import}

\* The images of this run are among those that the theorem is about.
ASSUME ImagesAreLiftable == \A i \in Images : Liftable(i)
=============================================================================
