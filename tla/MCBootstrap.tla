----------------------------- MODULE MCBootstrap -----------------------------
(* A small instance of Bootstrap: two directories, of which one may hold a *)
(* third, with one file name in each.                                      *)
EXTENDS Bootstrap

MCDirPaths == {<<1>>, <<2>>, <<1, 1>>}
MCFilePaths == {<<1, 2>>, <<2, 2>>, <<1, 1, 2>>}
MCTrees ==
  LET flat == [dirs |-> {<<1>>, <<2>>}, files |-> [p \in {<<1, 2>>} |-> 1]]
      nested == [dirs |-> {<<1>>, <<1, 1>>},
                 files |-> [p \in {<<1, 1, 2>>} |-> 1]]
  IN  {flat, nested}
=============================================================================
