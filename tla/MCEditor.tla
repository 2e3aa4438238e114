------------------------------ MODULE MCEditor -------------------------------
(* Editor with the values TLC gives its constants. *)
EXTENDS Editor

CONSTANTS a, nl, sp
MCChar == {a, nl, sp}
MCWord == {a}
MCWhite == {sp}
MCMarker == {Mark, Lo, Hi}
MCArgs == {-1, 1, 2}
==============================================================================
