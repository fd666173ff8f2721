------------------------------- MODULE MCFsOps -------------------------------
(* FsOps over two directories and the files in them.                       *)
EXTENDS FsOps, TLC

Tree == {<<>>, <<"a">>, <<"b">>, <<"a", "f">>, <<"b", "f">>}

Symmetry == Permutations(Conns)
=============================================================================
