------------------------------- MODULE MCHeap -------------------------------
(***************************************************************************)
(* A window of at most 4 blocks.  Base is not a multiple of 8: g_base is   *)
(* rounded up; the requests include 0 and sizes on both sides of a         *)
(* multiple of 8, so a freed block is reused by a smaller request.         *)
(***************************************************************************)
EXTENDS Heap

ASSUME MCRequestsFit == RequestsDoNotWrap
=============================================================================
