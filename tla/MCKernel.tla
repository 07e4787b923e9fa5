------------------------------ MODULE MCKernel ------------------------------
(***************************************************************************)
(* Two functions, two objects and two nested runs; the arrays are so short *)
(* that the depth passes StackLen and reaches MaxDepth.                    *)
(***************************************************************************)
EXTENDS Kernel

ASSUME MCCleanup == CleanupIsLargeEnough

MCReasons == {-4}
=============================================================================
