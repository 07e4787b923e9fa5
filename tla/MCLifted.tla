------------------------------ MODULE MCLifted ------------------------------
(* Two registers of W bits.  Plain holds the instructions whose translation *)
(* is exact; Shifting sets flags with a shifted operand.                    *)
EXTENDS Products, Bitwise

MCLogic(op, a, b) == CASE op = "and" -> a & b
                       [] op = "orr" -> a | b
                       [] op = "eor" -> a ^^ b

Ins(op, s, cc, d, src) == [op |-> op, s |-> s, cc |-> cc, d |-> d, n |-> 0, src |-> src]
Plain2 == [kind |-> "const", m |-> 1, shift |-> "lsl", k |-> 0]
Const(shift, k) == [kind |-> "const", m |-> 1, shift |-> shift, k |-> k]

Plain ==
  {Ins(op, s, "al", d, Plain2) : op \in ArithOps \cup LogicOps, s \in BOOLEAN, d \in {0, 1}}
  \cup {Ins(op, TRUE, "al", 0, Plain2) : op \in CompareOps \cup TestOps}
  \cup {Ins("mov", FALSE, cc, 0, [kind |-> "imm", val |-> 1]) : cc \in Conditions}
  \cup {Ins("mov", FALSE, "al", 0, Const(sh, k)) : sh \in Shifts, k \in 1..(W - 1)}
  \cup {Ins("add", TRUE, "al", 0, Const(sh, 1)) : sh \in Shifts}
  \cup {Ins("mov", FALSE, "al", 0, [kind |-> "reg", m |-> 0, shift |-> sh, rs |-> 1]) :
          sh \in Shifts}

\* The lower and the upper word of a long product in different registers.
MCProducts ==
  {[op |-> op, s |-> s, cc |-> "al", d |-> d, n |-> 0, m |-> 1, a |-> 1] :
     op \in {"mul", "mla"}, s \in BOOLEAN, d \in {0, 1}}
  \cup {[op |-> op, s |-> FALSE, cc |-> "ne", d |-> d, h |-> 1 - d, n |-> 0, m |-> 1] :
          op \in {"umull", "smull", "umlal", "smlal"}, d \in {0, 1}}

\* What the proofs ask of a program that is to do what the ARM does.
ASSUME PlainIsExact == /\ \A i \in Plain : Exact(i)
                       /\ \A i \in MCProducts : ExactProduct(i)

Shifting == {Ins("mov", TRUE, "al", 0, Const("lsr", 1))}
=============================================================================
