--------------------------- MODULE MCFlashControl ---------------------------
(* Small instances of FlashControl.                                         *)
EXTENDS FlashControl, TLC

Symmetry == Permutations(Val)

=============================================================================
