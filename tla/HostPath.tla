------------------------------ MODULE HostPath ------------------------------
(***************************************************************************)
(* A message from the service that submits it to the agent that reads it:  *)
(* the submission queue of its host, the hub, and the delivery thread.     *)
(* Sender and recipient are served by one host process here, so one kill   *)
(* interrupts both.                                                        *)
(***************************************************************************)
EXTENDS SubmissionQueue, HostDelivery

CONSTANT MaxKills \* bound on kills of the host

ASSUME HostPathAssumption == MaxKills \in Nat

VARIABLE kills

hub == <<state, late>>
vars == <<hub, queue, delivery, kills>>

Init == HubInit /\ QueueInit /\ DeliveryInit /\ kills = 0

Kill ==
  /\ kills < MaxKills /\ kills' = kills + 1
  /\ LeftBehind(InFlight \union DeliveryInFlight)
  /\ QueueRestart
  /\ DeliveryRestart

Next ==
  \/ HubStep /\ UNCHANGED <<queue, delivery, kills>>
  \/ QueueStep /\ UNCHANGED <<delivery, kills>>
  \/ DeliveryStep /\ UNCHANGED <<queue, kills>>
  \/ Kill

Spec == Init /\ [][Next]_vars

(***************************************************************************)
(* The loops of main run for ever.  A hub that is up answers: a call that  *)
(* is made again and again is not refused its answer for ever.             *)
(***************************************************************************)
Fairness ==
  /\ WF_vars(DeliveryStep /\ tick' # tick /\ UNCHANGED <<queue, kills>>)
  /\ \A m \in Message :
       /\ WF_vars(WorkClaim(m) /\ UNCHANGED <<delivery, kills>>)
       /\ \A op \in {"uncertain", "presented"} :
            SF_vars(Told(op, m) /\ UNCHANGED <<queue, kills>>)
  /\ WF_vars(WorkSubmit /\ UNCHANGED <<delivery, kills>>)
  /\ SF_vars(WorkQuery /\ UNCHANGED <<delivery, kills>>)
  /\ WF_vars(WorkConfirm /\ UNCHANGED <<delivery, kills>>)
FairSpec == Spec /\ Fairness
=============================================================================
