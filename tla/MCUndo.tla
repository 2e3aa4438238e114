------------------------------- MODULE MCUndo --------------------------------
(* Undo with the values TLC gives its constants. *)
EXTENDS Undo, TLC

CONSTANTS x, y, main, other
TwoBuffers  == {main, other}
MCChar      == {x, y}
(* The commands treat all characters, and all buffers, alike. *)
Alike       == Permutations(MCChar) \cup Permutations(TwoBuffers)
==============================================================================
