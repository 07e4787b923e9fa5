--------------------------- MODULE MCFileServer ---------------------------
(* Two names with one fallback file; of the second's own path there may be a *)
(* file, which cannot be written.                                            *)
EXTENDS FileServer

CONSTANTS direct1, direct2, fallback, name1, name2

MCSymmetry == Permutations(Handles)
MCPaths == {direct1, direct2, fallback}
MCNames == {name1, name2}
MCWhere == [n \in MCNames |-> IF n = name1 THEN <<direct1, fallback>>
                                           ELSE <<direct2, fallback>>]
MCCreatable == {direct1, fallback}
=============================================================================
