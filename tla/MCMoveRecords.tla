--------------------------- MODULE MCMoveRecords ---------------------------
(***************************************************************************)
(* MoveRecords for TLC: two files that may stand for each other.            *)
(***************************************************************************)
EXTENDS MoveRecords, TLC
CONSTANTS f1, f2
MCFiles == {f1, f2}
MCSymmetry == Permutations(MCFiles)
=============================================================================
