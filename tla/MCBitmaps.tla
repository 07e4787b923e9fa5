----------------------------- MODULE MCBitmaps -----------------------------
(* Words of 9 bits.  A size whose rows need padding; one of no width, of a  *)
(* negative height, of a negative width; one whose row wraps and one whose  *)
(* rows together do.  The size of loaded bitmaps is scaled down.            *)
EXTENDS Bitmaps

MCSymmetry == Permutations(Bitmaps)
MCSizes == {<<5, 2>>, <<0, 1>>, <<1, -1>>, <<-9, 1>>, <<16, 1>>, <<4, 32>>}
MCLoadSize == <<4, 2>>
=============================================================================
