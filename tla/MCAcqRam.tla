------------------------------ MODULE MCAcqRam ------------------------------
(* AcqRam for TLC: controllers are alike, and so are boards.               *)
EXTENDS AcqRam, TLC

MCSymmetry == Permutations(Controllers) \cup Permutations(Boards)
==============================================================================
