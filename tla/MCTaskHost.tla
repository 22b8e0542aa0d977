----------------------------- MODULE MCTaskHost -----------------------------
(* Instances of TaskHost for TLC: A and B are the processes one conversation *)
(* ran in.                                                                   *)
EXTENDS TaskHostProps, TLC

CONSTANTS A, B, Out, T, U, W1, W2, Chat

Pair    == {A, B}
Others  == {Out}
Natives == [e \in Pair |-> Chat]
Tasks   == {T, U}
Threads == {W1, W2}
Sym     == Permutations(Threads)

Base == [starts |-> [t \in Tasks |-> Out], bound |-> {}, open |-> {},
         moving |-> Tasks, moves |-> 0, freezes |-> 0, stops |-> 0,
         restarts |-> {}, requests |-> 0, codex |-> TRUE]
Of(a) == [t \in Tasks |-> IF t = T THEN a ELSE Out]

(* Hand-offs of a bound task away and back; two hand-offs at once; a         *)
(* restart that resumes; a task with an open operation, on either platform.  *)
Instances ==
  {[Base EXCEPT !.starts = Of(A), !.bound = {A}, !.moving = {T}, !.moves = 2,
                !.stops = 1, !.requests = 3],
   [Base EXCEPT !.moves = 2, !.freezes = 1, !.requests = 3],
   [Base EXCEPT !.starts = Of(A), !.bound = {A}, !.moves = 1,
                !.restarts = {A}, !.requests = 3],
   [Base EXCEPT !.starts = Of(A), !.bound = {A}, !.open = {<<A, T>>},
                !.moving = {U}, !.moves = 1, !.stops = 1, !.restarts = {A},
                !.requests = 3],
   [Base EXCEPT !.starts = Of(A), !.bound = {A}, !.open = {<<A, T>>},
                !.stops = 1, !.requests = 2, !.codex = FALSE]}
=============================================================================
