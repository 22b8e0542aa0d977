------------------------------ MODULE HostHub ------------------------------
(***************************************************************************)
(* The mailbox as a host adapter meets it: one request at a time over a    *)
(* socket, answered, refused, or given up by the caller and then served    *)
(* later or never (Host.rpc).  A message has the hub's state, with the     *)
(* states in which it waits for an adapter taken together as "open".       *)
(*                                                                         *)
(* Mailbox models the hub's own handlers; here a handler is the states it  *)
(* accepts and the state it leaves.                                        *)
(***************************************************************************)
EXTENDS Naturals, FiniteSets

CONSTANTS Message,  \* message ids
          MaxLate   \* bound on requests served after their caller gave up

ASSUME HostHubAssumption == MaxLate \in Nat

VARIABLES state,  \* messages.state, "none" before the message exists
          late    \* requests whose caller gave up

MessageState == {"none", "open", "dispatching", "uncertain", "presented",
                 "cancelled", "closed"}
Begun == {"dispatching", "uncertain", "presented"}
Operation == {"submit", "begin_present", "uncertain", "presented"}

(* What each handler accepts; a receipt names the state it reports. *)
Accepts(op) == CASE op = "submit"        -> {"none"}
                 [] op = "begin_present" -> {"open"}
                 [] op = "uncertain"     -> {"open", "dispatching", "uncertain"}
                 [] op = "presented"     -> Begun \union {"open"}
Result(op) == CASE op = "submit"        -> "open"
                [] op = "begin_present" -> "dispatching"
                [] OTHER                -> op

Accepted(op, m) == state[m] \in Accepts(op)
Serve(op, m) == state' = IF Accepted(op, m) THEN [state EXCEPT ![m] = Result(op)] ELSE state

Answered(op, m) == Serve(op, m) /\ UNCHANGED late
GaveUp(Q) == /\ Cardinality(late \union Q) <= MaxLate
             /\ late' = late \union Q
             /\ UNCHANGED state
(* When a host is killed, a request on its way may still arrive. *)
LeftBehind(Q) == (\E S \in SUBSET Q : GaveUp(S)) \/ UNCHANGED <<state, late>>

ServeLate(op, m) == /\ <<op, m>> \in late
                    /\ late' = late \ {<<op, m>>}
                    /\ Serve(op, m)

(* The sender cancels, or the deadline passes, while the message waits. *)
Withdraw(m) == /\ state[m] = "open"
               /\ \E s \in {"cancelled", "closed"} : state' = [state EXCEPT ![m] = s]
               /\ UNCHANGED late

HubInit == state = [m \in Message |-> "none"] /\ late = {}
HubStep == \E m \in Message : Withdraw(m) \/ \E op \in Operation : ServeLate(op, m)

HubTypeOK == /\ state \in [Message -> MessageState]
             /\ late \subseteq Operation \X Message
=============================================================================
