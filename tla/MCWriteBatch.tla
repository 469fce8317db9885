---------------------------- MODULE MCWriteBatch ----------------------------
(***************************************************************************)
(* Small instances of WriteBatch for TLC: two runs over two cells.         *)
(***************************************************************************)
EXTENDS WriteBatchProps, TLC

Symmetry == Permutations(Runs) \cup Permutations(Cells)
=============================================================================
