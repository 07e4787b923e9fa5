----------------------------- MODULE MCObjects -----------------------------
(* One function of generated code and two kinds of objects, that of hleobj.c *)
(* with two slots; calls go to addresses below, between and above them.      *)
EXTENDS Objects

CONSTANTS f1, f2, f3, Fbs

MCHandler == [a \in {2, 4, 6, 7} |-> CASE a = 2 -> f1 [] a = 4 -> f2 [] OTHER -> f3]
MCMethods == [k \in {Hle, Fbs} |-> IF k = Hle THEN <<6, 7>> ELSE <<4>>]
=============================================================================
