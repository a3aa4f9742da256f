------------------------------ MODULE MCInodes ------------------------------
EXTENDS Inodes, TLC

Sym == Permutations(Proc)

OneName == {<<"a">>}
RootToo == {<<>>, <<"a">>}
UpPaths == {<<"a">>, <<"a", "a">>, <<"..">>}
=============================================================================
