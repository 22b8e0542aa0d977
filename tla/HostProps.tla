------------------------------ MODULE HostProps ------------------------------
(***************************************************************************)
(* What the path of a message through a host must guarantee.               *)
(***************************************************************************)
EXTENDS HostPath

TypeOK == HubTypeOK /\ QueueTypeOK /\ DeliveryTypeOK /\ kills \in 0 .. MaxKills

(* A message is pasted into the agent's terminal at most once, over ticks, *)
(* failed tmux commands and kills at any point of the injection window     *)
(* (Host.__init__: "must never trigger another injection"), and only after *)
(* the hub let it begin: never once its sender withdrew it, however late   *)
(* the gate answers.                                                       *)
PastedOnce ==
  \A m \in Message : /\ pasted[m] <= 1
                     /\ pasted[m] > 0 => state[m] \in Begun

(* Refinement: what the sender of a message is promised, of the terminal.   *)
(* A message is open from the hub until its text is in the terminal; a      *)
(* window that a kill or a failed command ends before that closes it.       *)
InWindow(m) == tick.pc \in {"journal", "paste"} /\ tick.m = m
PhaseOf(m) ==
  IF pasted[m] > 0 THEN "granted"
  ELSE IF state[m] = "none" THEN "none"
  ELSE IF state[m] = "open" \/ InWindow(m) THEN "open"
  ELSE IF state[m] = "cancelled" THEN "withdrawn" ELSE "closed"

Promise == INSTANCE DeliveryPromise
             WITH phase <- [m \in Message |-> PhaseOf(m)], grants <- pasted

(* Host and hub together keep, for the agent's terminal, the promise the    *)
(* hub alone keeps for the adapter: pasted at most once, never once it was  *)
(* withdrawn or closed, through kills, lost answers and late requests.      *)
PastedAsPromised == Promise!Spec

(* A submission whose cancellation was confirmed (control) is a tombstone: *)
(* the hub does not have the message, and no call that could still bring   *)
(* it there is on its way.                                                 *)
CancelledStaysOut ==
  \A m \in Message : work[m] = "cancelled" => state[m] = "none" /\ <<"submit", m>> \notin late

(* Deferred work is submitted by at most one call, and by no direct        *)
(* request beside it, whatever fails or is killed (work_once,              *)
(* duplicate_work_receipt): ambiguous outcomes are held, never resent.     *)
SubmittedOnce ==
  \A m \in Message : work[m] # "none" => sent[m] <= 1 /\ request[m] # "journaled"

(* The journal claims the hub's acceptance only of messages the hub has.   *)
CommittedIsThere == \A m \in Message : work[m] = "hub_committed" => state[m] # "none"

(* The sender is told "presented" only for what the agent has seen or      *)
(* acknowledged.                                                           *)
PresentedWasRead == \A m \in Message : state[m] = "presented" => m \in seen \union acked

(* Work does not go round between pending and dispatching for ever: it is  *)
(* committed, held, blocked or cancelled (work_once).                      *)
PendingEnds ==
  \A m \in Message : LET active == work[m] \in {"pending", "dispatching"}
                     IN active ~> ~active

(* A row that stays uncertain does not stay "dispatching" for its sender:  *)
(* the hub is told.  The exception is a row mark_uncertain wrote over an   *)
(* acknowledgement: the hub refuses it in every tick, and the refusal ends *)
(* the visit of the rows behind it.                                        *)
Refused == \E m \in Message : row[m] = "uncertain" /\ state[m] = "presented"
UncertainIsTold ==
  \A m \in Message :
    row[m] = "uncertain" ~> (state[m] # "dispatching" \/ row[m] # "uncertain" \/ Refused)
=============================================================================
