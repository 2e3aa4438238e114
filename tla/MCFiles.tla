------------------------------- MODULE MCFiles -------------------------------
(* Files with the values TLC gives its constants. *)
EXTENDS Files, TLC

CONSTANTS b1, f1, p1, p2, p3
OneBuffer   == {b1}
OneFile     == {f1}
ThreePieces == {p1, p2, p3}
(* No piece of text is special. *)
Alike       == Permutations(ThreePieces)
==============================================================================
