----------------------------- MODULE MCFileTree -----------------------------
(* FileTree on two names in the root and one below each, of which          *)
(* directory a is there at first, with a file.                             *)
EXTENDS FileTree

MCNames == {"a", "b", "x"}
MCPaths == {<<>>, <<"a">>, <<"b">>, <<"a", "x">>, <<"b", "x">>}
MCTrees == {[p \in MCPaths |-> CASE p = <<"a", "x">> -> "file"
                                 [] p \in {<<>>, <<"a">>} -> "dir"
                                 [] OTHER -> "none"]}
=============================================================================
