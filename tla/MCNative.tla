------------------------------ MODULE MCNative ------------------------------
(* Instances of Native for TLC. *)
EXTENDS NativeProps, TLC

(* Two hooks, a fault and a withdrawal; a hand-off and a fault; a hand-off *)
(* and an acknowledgement; or two messages, of which the first may be      *)
(* withdrawn, and nothing that fails.                                      *)
Single == [messages |-> 1, hooks |-> 1, faults |-> 0, withdrawn |-> 0,
           dies |-> TRUE, acks |-> FALSE]
Cases == {[Single EXCEPT !.hooks = 2, !.faults = 1, !.withdrawn = 1, !.dies = FALSE],
          [Single EXCEPT !.faults = 1],
          [Single EXCEPT !.acks = TRUE],
          [Single EXCEPT !.messages = 2, !.withdrawn = 1, !.dies = FALSE]}
=============================================================================
