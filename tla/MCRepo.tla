------------------------------- MODULE MCRepo -------------------------------
(* An instance of RepoWrite for TLC: a patch of two files, one that creates  *)
(* a file, and one of another writer on top.                                 *)
EXTENDS RepoProps, TLC

CONSTANTS X, Y, W1, W2, Ann, Bob

Texts == {X, Y}
Threads == {W1, W2}
Modify(b, d) == [base |-> b, data |-> d]
Patches ==
  {[id |-> 1, writer |-> Ann, files |-> (1 :> Modify(Absent, X) @@ 2 :> Modify(X, Y))],
   [id |-> 2, writer |-> Bob, files |-> (2 :> Modify(Y, X))],
   [id |-> 2, writer |-> Ann, files |-> (1 :> Modify(X, Y))]}
Sym == Permutations(Threads)
=============================================================================
