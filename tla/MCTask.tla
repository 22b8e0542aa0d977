------------------------------- MODULE MCTask -------------------------------
(* An instance of TaskAuthority for TLC: two incarnations of one             *)
(* conversation and another conversation, each in any role.                  *)
EXTENDS TaskProps, TLC

CONSTANTS A, B, C, T1, Thread, Chat

Pair    == {A, C}
Three   == {A, B, C}
PairNatives  == [e \in Pair |-> IF e = C THEN Chat ELSE Thread]
ThreeNatives == [e \in Three |-> IF e = C THEN Chat ELSE Thread]
JustA   == {A}
JustC   == {C}
OneTool == {T1}
=============================================================================
