-------------------------- MODULE FederationProps --------------------------
(***************************************************************************)
(* What two federated hubs promise about a message, over Federation.       *)
(***************************************************************************)
EXTENDS Federation

Call == {Idle} \union
        [op : {"accept", "cancel"}, msg : Message,
         stage : {"sent", "half", "answered", "copy"},
         answer : Outcomes \union Refusals \union {"none", "too_late"}]

(* The columns, the threads and the wire hold values of their types. *)
TypeOK ==
  /\ row \in [Message -> {"absent", "pending", "cancel_pending", "delivered",
                          "cancelled", "expired", "rejected"}]
  /\ acceptance \in [Message -> Outcomes \union {"none"}]
  /\ place \in [Message -> Nat]
  /\ copy \in [Message -> {"absent", "accepted", "cancelled", "rejected",
                           "stale_session"}]
  /\ lapsedHere \subseteq Message /\ lapsedThere \subseteq Message
  /\ calls \in [Thread -> Call]
  /\ batch \subseteq [msg : Message, state : {"pending", "cancel_pending"}]
  /\ late \subseteq Call
  /\ phase \in [Message -> Outcomes \union {"none"}]
  /\ grants \in [Message -> Nat]
  /\ byCancel \subseteq Message
  /\ crashes \in 0..MaxCrashes

(* docs/reference/message-cancellation.md: across hosts, cancellation is    *)
(* confirmed by the recipient's mailbox.  A sender whose own hub shows      *)
(* "cancelled" can rely on it whatever requests are still on their way, and *)
(* one that is answered "too_late" knows that the message was taken.        *)
CancelAnswersTrue ==
  /\ \A m \in Message : copy[m] = "cancelled" =>
                          phase[m] = "withdrawn" /\ grants[m] = 0
  /\ \A t \in Thread : calls[t].answer = "too_late" =>
                         phase[calls[t].msg] \in {"granted", "closed"}

(* docs/reference/unified-messaging.md: sender retry responses preserve the *)
(* recipient's recorded state: what the outbox keeps is a state the message *)
(* really had there, and once final it still has it.                        *)
AcceptanceTrue ==
  \A m \in Message :
    acceptance[m] # "none" => /\ phase[m] # "none"
                              /\ acceptance[m] # "open" =>
                                   phase[m] = acceptance[m]

(* A message whose outbox row says delivered was accepted at its            *)
(* destination: no lost, late or repeated answer makes the sender stop      *)
(* retrying before that.                                                    *)
DeliveredIsThere ==
  \A m \in Message : row[m] = "delivered" => phase[m] # "none"

(* Refinement: what the sender is promised end to end. *)
EndPhase(m) == IF copy[m] = "absent" THEN "none"
               ELSE IF phase[m] = "none" THEN "open" ELSE phase[m]

EndToEnd == INSTANCE DeliveryPromise
              WITH phase <- [m \in Message |-> EndPhase(m)]

(* The two hubs together keep the promise one hub makes: a message sent to  *)
(* another host is presented at most once and never once it was withdrawn,  *)
(* through lost, late and repeated calls and kills of the sender's hub.     *)
EndToEndKept == EndToEnd!Spec

(* flush_one and tick: an accepted message does not stay pending for ever,  *)
(* also when its destination never answers and others are ahead of it.      *)
PendingSettles ==
  \A m \in Message : (row[m] = "pending") ~> (row[m] # "pending")

-----------------------------------------------------------------------------
(* What the documents say and the code does not keep. *)

CancelsRunning(m) == {t \in Thread : calls[t].op = "cancel"
                                       /\ calls[t].msg = m}

(* message-cancellation.md: "Durable recovery retries the same cancellation *)
(* ID": once the sender was told that the cancellation is pending, it is    *)
(* not dropped while it could still succeed.                                *)
CancelNotForgotten ==
  [][\A m \in Message :
       (/\ row[m] = "cancel_pending" /\ row'[m] = "delivered"
        /\ CancelsRunning(m) = {}) => phase[m] # "open"]_vars

(* The same, as progress: a pending cancellation is tried again.            *)
CancelRetried ==
  \A m \in Message :
    (row[m] = "cancel_pending")
      ~> (row[m] # "cancel_pending" \/ CancelsRunning(m) # {})

(* message-cancellation.md: the recovery "never resends content" of a       *)
(* message whose cancellation is pending or confirmed.                      *)
NeverResent ==
  [][\A t \in Thread, m \in Message :
       (/\ Idles(t) /\ calls'[t].op = "accept" /\ calls'[t].msg = m)
         => row[m] \notin {"cancel_pending", "cancelled"}]_vars

(* unified-messaging.md: "The sender stores the validated acceptance state  *)
(* in the same atomic outbox update as its delivered marker."               *)
OutcomeStored ==
  \A m \in Message : row[m] = "delivered" => acceptance[m] # "none"

(* peer_cancel: the tombstone is visible "before any adapter can claim this *)
(* message" when the cancellation brings the message first.                 *)
TombstoneFirst == \A m \in byCancel : phase[m] # "granted"
=============================================================================
