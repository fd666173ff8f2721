------------------------------ MODULE MCFsWatch ------------------------------
(* FsWatch over small trees.                                               *)
EXTENDS FsWatch, TLC

Chain == {<<>>, <<"a">>, <<"a", "b">>}
Single == {<<>>, <<"a">>}

Symmetry == Permutations(Conns)
=============================================================================
