--------------------------- MODULE MCFlashMailbox ---------------------------
(* FlashMailbox on a window of two blocks: the values are in the cfg files. *)
EXTENDS FlashMailbox, TLC

MCRanges == {<<1, 3>>, <<0, 4>>}

Symmetry == Permutations(Users)

=============================================================================
