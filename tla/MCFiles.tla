--------------------------------- MODULE MCFiles ---------------------------------
(* For TLC: the init directory holds a file "a" and a folder "b" with a file in *)
(* it; it is mounted as "init", and the folder can be mounted as well.           *)
EXTENDS Files

E(n, f, t) == [name |-> n, file |-> f, to |-> t]
MCFolders == <<<<E("a", TRUE, 1), E("b", FALSE, 2)>>, <<E("a", TRUE, 2)>>>>
MCContent == <<<<"x", "y">>, <<"z">>>>
MCBootMounts == <<[name |-> "init", folder |-> 1]>>
MCPaths == {<<>>, <<"", "init">>, <<"init", ".">>, <<"init", "a">>, <<"init", "b", "a">>,
            <<"init", "..">>, <<"..">>, <<"b">>, <<"init", "init">>}
===============================================================================
