------------------------------ MODULE MCEditor ------------------------------
(* Editor for TLC: the files are alike.                                    *)
EXTENDS Editor, TLC

FileSymmetry == Permutations(Files)
=============================================================================
