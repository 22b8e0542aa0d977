--------------------------- MODULE DeliveryPromise ---------------------------
(***************************************************************************)
(* What a mailbox promises the sender of a message, whatever hosts,        *)
(* incarnations, adapters and retries are behind it: an accepted message   *)
(* is open until it is granted to an adapter, withdrawn by its sender, or  *)
(* closed; it is granted at most once, and never once withdrawn or closed. *)
(* A reader that acknowledges an open message itself closes it.            *)
(***************************************************************************)
EXTENDS Naturals

CONSTANT Message
VARIABLES phase, grants

Init == /\ phase = [m \in Message |-> "none"]
        /\ grants = [m \in Message |-> 0]

Move(m, before, after) ==
  /\ phase[m] = before
  /\ phase' = [phase EXCEPT ![m] = after]

Offer(m)    == Move(m, "none", "open") /\ UNCHANGED grants
Withdraw(m) == Move(m, "open", "withdrawn") /\ UNCHANGED grants
Grant(m)    == /\ Move(m, "open", "granted")
               /\ grants' = [grants EXCEPT ![m] = 1]

(* Several messages close together when their endpoint is retired. *)
Close(S) ==
  /\ \A m \in S : phase[m] = "open"
  /\ phase' = [m \in Message |-> IF m \in S THEN "closed" ELSE phase[m]]
  /\ UNCHANGED grants

Next == \/ \E m \in Message : Offer(m) \/ Withdraw(m) \/ Grant(m)
        \/ \E S \in SUBSET Message : Close(S)

Spec == Init /\ [][Next]_<<phase, grants>>
=============================================================================
