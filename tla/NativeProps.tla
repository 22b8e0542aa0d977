----------------------------- MODULE NativeProps -----------------------------
(***************************************************************************)
(* What the native route must guarantee.                                   *)
(***************************************************************************)
EXTENDS Native

TypeOK ==
  /\ JournalTypeOK /\ PublicationTypeOK /\ ConsumerTypeOK
  /\ limit \in Limits /\ faults \in 0 .. limit.faults /\ kills \in 0 .. faults
  /\ acked \subseteq Message

(* A body is returned to the conversation at most once, over references    *)
(* published twice, hooks that run at the same time, a hand-off and kills  *)
(* (resolve: "Never reconstruct/re-return a body on retry"), and none that *)
(* its sender withdrew or still could withdraw: the reservation is         *)
(* confirmed before the body is exposed.                                   *)
ReturnedOnce ==
  \A m \in Message :
    /\ returned[m] <= 1
    /\ returned[m] > 0 => state[m] \in {"dispatching", "presented"}

(* Refinement: what the sender is promised, of the conversation.  A message *)
(* is open until its body is returned, also while a hook holds the body it  *)
(* was granted; a hook that is killed or fails then closes it.  Bodies of   *)
(* one context are returned together, so each message has a promise of its  *)
(* own.                                                                     *)
Held(m) == \E h \in Hook : m \in hook[h].got
PhaseOf(m) ==
  IF returned[m] > 0 THEN "granted"
  ELSE IF state[m] = "none" THEN "none"
  ELSE IF state[m] = "open" \/ Held(m) THEN "open" ELSE "closed"
Promised(m) == <<PhaseOf(m), returned[m]>>

Promise(m) == INSTANCE DeliveryPromise
                WITH Message <- {m}, phase <- [n \in {m} |-> PhaseOf(n)],
                     grants <- [n \in {m} |-> returned[n]]

(* Journal, hooks and hub together keep, for the bodies a conversation is   *)
(* given, the promise the hub alone keeps for its adapters: returned at     *)
(* most once, never once the message was withdrawn or given up, through     *)
(* duplicate references, lost answers, late grants, a hand-off and kills.   *)
ReturnedAsPromised ==
  /\ \A m \in Message : Promise(m)!Init
  /\ [][\A m \in Message : UNCHANGED Promised(m) \/ Promise(m)!Next]_vars

(* Whatever the hub granted, the journal fences, however late the request  *)
(* is served and whatever was killed: no later hook finds a row to reserve *)
(* (resolve: "Local dispatching is committed before Hub reservation").     *)
GrantIsFenced ==
  \A m \in Message : state[m] \in {"dispatching", "presented"} => Begun(m) \/ row[m].state = "presented"

(* The sender is told "presented" only for a body that a context in the    *)
(* transcript holds (recover), or that its recipient acknowledged (ack).   *)
PresentedIsRecorded ==
  \A m \in Message :
    state[m] = "presented" => m \in acked \/ \E c \in recorded : m \in c[2]

(* Of its own accord the native route closes a delivery in the journal     *)
(* only when the hub has its receipt (_deliver_endpoint: "Do not close     *)
(* local reconciliation until Hub agrees").                                *)
JournalAgrees ==
  \A m \in Message : row[m].state = "presented" => state[m] = "presented" \/ m \in acked

(* While the host runs, a conversation has at most one reference to a      *)
(* message in its queue: what may have been added is looked up first       *)
(* (Publisher.tick).  A child that outlives its host may add a second.     *)
NoDuplicateAdds == kills = 0 => \A m \in Message : queue[m] <= 1

(* A transferred row that may never be bound, or that was acknowledged     *)
(* before it had a reference and whose receipt the hub refuses its new     *)
(* endpoint, ends every tick of the endpoint, and with it the visits of    *)
(* all its other messages.                                                 *)
Stuck ==
  \E m \in handed :
    /\ state[m] = "open" /\ row[m].state # "none"
    /\ (row[m].ep = 1 /\ ~MayBind(m)) \/ (row[m].state = "presented" /\ ~row[m].owned)

(* The receipt of an acknowledgement is not repeated for a row that has a  *)
(* reference: when it is lost the hub does not hear of it again.           *)
Unrepeated(m) == m \in acked /\ row[m].state = "presented" /\ row[m].owned

(* A message that waits is begun, withdrawn or presented, or its one       *)
(* attempt has an unknown outcome: no wake is lost, over lost references,  *)
(* blocked hooks, stale queue labels, a hand-off and kills, and none that  *)
(* was acknowledged before it had a reference goes untold.                 *)
WakeNotLost ==
  \A m \in Message :
    state[m] = "open"
      ~> (state[m] # "open" \/ row[m].state = "uncertain" \/ Unrepeated(m) \/ Stuck)

(* A context the transcript holds is reported to the hub, unless its       *)
(* endpoint is retired first or its recipient acknowledged it meanwhile.   *)
RecordedIsTold ==
  \A m \in Message :
    (Begun(m) /\ Recorded(m) /\ row[m].ep = live)
      ~> (state[m] = "presented" \/ row[m].ep # live \/ Unrepeated(m) \/ Stuck)
=============================================================================
