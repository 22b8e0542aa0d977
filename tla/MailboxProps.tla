---------------------------- MODULE MailboxProps ----------------------------
(***************************************************************************)
(* What the mailbox hub promises, over the state of Mailbox.               *)
(***************************************************************************)
EXTENDS Mailbox

Ops == [op : {"register", "attest", "retire"}, ep : Endpoint,
        msg : {None}, seen : {None}]
         \union [op : {"status"}, ep : Endpoint, msg : Message, seen : Pending]

Rows == {NoMessage}
          \union [state : State \ {"absent"}, from : Endpoint, to : Endpoint,
                  irt : Message \union {None}]

Owner == [actor : Endpoint \union {None}, gen : Nat]

(* One of the senders has answered m. *)
Answered(m, senders) ==
  \E r \in Message : msg[r].irt = m /\ msg[r].from \in senders

(* The columns of the tables hold values of their types. *)
TypeOK ==
  /\ epState \in [Endpoint -> {"absent", "live", "retired"}]
  /\ fresh \subseteq Endpoint
  /\ attested \subseteq Endpoint
  /\ handed \in [Endpoint -> Endpoint \union {None}]
  /\ pref \in [Party -> Endpoint \union {None}]
  /\ revision \in [Party -> 0..MaxRevision]
  /\ observed \subseteq Endpoint
  /\ msg \in [Message -> Rows]
  /\ elapsed \subseteq Message
  /\ owner \in [Message -> Owner]
  /\ reserved \in [Message -> Owner]
  /\ receipts \in [Message -> State \union {"none"}]
  /\ work \in [Message -> [claim : Token \union {None}, leased : BOOLEAN,
                           reply : Message \union {None}]]
  /\ finished \subseteq Message
  /\ mode \in {"open"} \union Modes
  /\ inflight \subseteq Ops
  /\ begun \in [Message -> Nat]
  /\ presenter \in [Message -> Endpoint \union {None}]

(* hub.py begin_present "serialize[s] irreversible adapter presentation":   *)
(* whatever claims, hand-offs, receipts, retirements and crashes happen,    *)
(* no message is handed to an adapter for injection twice.                  *)
PresentedAtMostOnce == \A m \in Message : begun[m] <= 1

(* hub.py cancel and docs/reference/message-cancellation.md: a sender told  *)
(* "cancelled" can rely on the message never having been, and never being,  *)
(* given to an adapter nor recorded as presented.                           *)
CancelledNeverShown ==
  \A m \in Message : msg[m].state = "cancelled" =>
    begun[m] = 0 /\ receipts[m] # "presented"

(* _handoff_native_delivery moves only what was never begun: the endpoint   *)
(* that was given a message stays its delivery actor, so its receipt is     *)
(* accepted and nobody else's is.                                           *)
PresenterIsActor ==
  \A m \in Message : begun[m] > 0 => presenter[m] = DeliveryActor(m)

(* The reservation begin_present writes for a transferred message names the *)
(* current actor and generation for ever: the receipt check against it can  *)
(* not strand a message that was really presented.                          *)
ReservationCurrent ==
  \A m \in Message : reserved[m].actor # None => reserved[m] = owner[m]

(* The n-th endpoint of the hand-off chain that starts at e. *)
Heirs(e) == LET h[n \in Nat] == IF n = 0 THEN e
                                ELSE IF h[n - 1] = None THEN None
                                ELSE handed[h[n - 1]]
            IN  h

(* A transferred message is owed by the end of the hand-off chain that      *)
(* starts at its immutable recipient, and its generation counts the links.  *)
OwnerFollowsHandoffs ==
  \A m \in Message : owner[m].actor # None =>
    owner[m].gen > 0 /\ Heirs(msg[m].to)[owner[m].gen] = owner[m].actor

(* receive_finish against submit: a message closed without reply has no     *)
(* reply of its recipient and no prepared reply that could still be sent.   *)
FinishedIsSilent ==
  \A m \in finished : /\ ~ Answered(m, {msg[m].to})
                      /\ work[m].reply = None

(* receive_work: the reply a claimant prepared survives lapsed leases and   *)
(* other claimants, and until it is committed no other reply is.            *)
PreparedReplyWins ==
  [][\A m \in Message :
       LET p == work[m].reply
       IN  p # None =>
             /\ work'[m].reply = p
             /\ ~ Exists(p) => \A r \in Message \ {p} :
                                  msg'[r].irt = m => msg[r].irt = m]_vars

(* begin_present refuses a message its recipient already answered; with the *)
(* hand-offs, the answer may be of any incarnation of that conversation on  *)
(* the surface that is given the message.                                   *)
NothingBegunAfterReply ==
  [][\A m \in Message : begun'[m] > begun[m] =>
       ~ Answered(m, {msg[m].to} \union
                     {e \in Endpoint : /\ SameNative(e, msg[m].to)
                                      /\ (e \in Tui) = (presenter'[m] \in Tui)})]_vars

(* endpoint_retire: unpresented work pinned to a retired endpoint becomes   *)
(* stale_session, so that its sender is told; it is never left pending.     *)
RetiredWorkIsStale ==
  \A m \in Message :
    (Waiting(m) /\ m \notin elapsed /\ epState[msg[m].to] = "retired"
       /\ owner[m].actor = None
       /\ ~ Answered(m, {e \in Endpoint : SameNative(e, msg[m].to)}))
    => Call("retire", msg[m].to, None, None) \in inflight

(* recipient.py: with a surface chosen, a message of that conversation is   *)
(* begun by no other surface, also when the chosen one was retired and      *)
(* another incarnation took over.                                           *)
OtherSurfacesFenced ==
  [][\A m \in Message : begun'[m] > begun[m] =>
       LET e == presenter'[m]
           c == pref[PartyOf[e]]
       IN  (c # None /\ e \in attested /\ SameNative(e, c)) =>
             ((e \in Tui) = (c \in Tui) /\ (Live(c) => e = c))]_vars

(* Refinement: what the sender of a message is promised. *)
PhaseOf(m) ==
  IF begun[m] > 0 THEN "granted"
  ELSE IF ~ Exists(m) THEN "none"
  ELSE IF Waiting(m) THEN "open"
  ELSE IF msg[m].state = "cancelled" THEN "withdrawn" ELSE "closed"

Promise == INSTANCE DeliveryPromise
             WITH phase <- [m \in Message |-> PhaseOf(m)], grants <- begun

(* The hub implements the promise: a sender's view of a message moves only  *)
(* as DeliveryPromise allows, through every hand-off, crash and retry.      *)
PromiseKept == Promise!Spec

(* The hub as a host meets it (HostHub): of one message, only the state.    *)
HostState(m) ==
  CASE ~ Exists(m) -> "none"
    [] Waiting(m)  -> "open"
    [] msg[m].state \in Terminal \ {"cancelled"} -> "closed"
    [] OTHER       -> msg[m].state

HostView(m) == INSTANCE HostHub
                 WITH Message <- {m}, MaxLate <- 0, late <- {},
                      state <- [n \in {m} |-> HostState(n)]

(* Whatever happens to a message at the hub, by whoever's request, is what  *)
(* HostHub lets an operation do to it, or a withdrawal while it waits.      *)
MeetsHosts ==
  /\ \A m \in Message : HostView(m)!HubInit
  /\ [][\A m \in Message :
          \/ HostView(m)!Withdraw(m)
          \/ \E op \in HostView(m)!Operation :
               HostView(m)!Accepted(op, m) /\ HostView(m)!Answered(op, m)
          \/ UNCHANGED HostState(m)]_vars

-----------------------------------------------------------------------------
(* What the documents say and the hub keeps only while it serves one        *)
(* request at a time, and what it does not keep at all.                     *)

(* docs/reference/unified-messaging.md: "Retired identities are never       *)
(* revived".  A register that checked the endpoint before revives it.       *)
RetiredForever ==
  [][\A e \in Endpoint : epState[e] = "retired" => epState'[e] = "retired"]_vars

(* receipt: "receipt state cannot move backwards": once the receipt row of  *)
(* a message says presented, no later request makes it say less.  A         *)
(* delivery_status that read the message before does.                       *)
ReceiptNeverRegresses ==
  [][\A m \in Message :
       receipts[m] = "presented" => receipts'[m] = "presented"]_vars

(* RetiredWorkIsStale for the endpoint a message was transferred to.        *)
TransferredWorkIsStale ==
  \A m \in Message :
    (Waiting(m) /\ m \notin elapsed /\ owner[m].actor # None
       /\ epState[owner[m].actor] = "retired"
       /\ ~ Answered(m, {e \in Endpoint : SameNative(e, msg[m].to)}))
    => Call("retire", owner[m].actor, None, None) \in inflight
=============================================================================
