------------------------------ MODULE Mailbox ------------------------------
(***************************************************************************)
(* The durable mailbox hub of tproj (hub.py, with the presentation fence   *)
(* of recipient.py): the SQLite tables of one owner host, and one action   *)
(* per request handler.                                                    *)
(*                                                                         *)
(* A handler that runs inside BEGIN IMMEDIATE is one action.  A handler    *)
(* that reads and writes in separate statements (register, attest_native,  *)
(* endpoint_retire, delivery_status) is a check that leaves a record in    *)
(* "inflight" and a later write.  Slots is the number of requests the      *)
(* broker serves at once: 1 for the plain Hub, up to 16 for the federated  *)
(* one (serve_socket in protocol.py).                                      *)
(*                                                                         *)
(* Abstractions: an endpoint stands for one incarnation (register only     *)
(* ever issues one per endpoint), its participant, native conversation,    *)
(* platform and surface are constants because register and attest_native   *)
(* refuse to change them; time is the lapse of a heartbeat (30 s), of an   *)
(* observation (120 s), of a claim lease (300 s) and of a message's TTL.   *)
(***************************************************************************)
EXTENDS Naturals, FiniteSets

CONSTANTS Endpoint,    \* endpoint ids, all owned by this host
          Message,     \* message ids
          Answer,      \* those of them used for replies
          Party,       \* participants of the directory
          Token,       \* claim ids of receive_work
          PartyOf,     \* endpoint -> participant
          NativeOf,    \* endpoint -> native conversation it can attest
          Agent,       \* endpoints whose platform is cc or cdx
          Codex,       \* endpoints whose platform is cdx
          Tui,         \* endpoints registered with a pane
          OpenClaw,    \* service participants of kind openclaw
          Modes,       \* maintenance modes the operator uses
          ProbeIds,    \* config probe_message_ids
          Slots,       \* concurrent requests of the broker
          MaxRevision, \* bound on recipient preference revisions
          Crashes,     \* TRUE if the hub process may be killed
          Steady,      \* endpoints registered throughout (a bound)
          Expiring,    \* messages whose TTL may elapse (a bound)
          Reports,     \* what adapters report: states of a receipt, and
                       \* "waiting" for a delivery_status (a bound)
          None         \* SQL NULL

Outcomes == {"presented", "uncertain", "stale_session", "rejected"}

ASSUME MailboxAssumption ==
  /\ IsFiniteSet(Endpoint)
  /\ PartyOf \in [Endpoint -> Party]
  /\ Agent \subseteq Endpoint
  /\ Codex \subseteq Agent
  /\ Tui \subseteq Endpoint
  /\ Slots \in Nat \ {0}
  /\ MaxRevision \in Nat
  /\ Crashes \in BOOLEAN
  /\ Answer \subseteq Message
  /\ Steady \subseteq Endpoint
  /\ Reports \subseteq Outcomes \union {"waiting"}
  /\ None \notin Endpoint /\ None \notin Message /\ None \notin Token

VARIABLES
  epState,   \* endpoints.retired, and whether the row exists
  fresh,     \* endpoints whose last heartbeat is at most 30 s old
  attested,  \* endpoints with an endpoint_native row
  handed,    \* metadata native_handoff: the endpoint an old one was handed to
  pref,      \* recipient_preferences.candidate of a participant
  revision,  \* recipient_preferences.revision
  observed,  \* endpoints with an observation at most 120 s old
  msg,       \* messages
  elapsed,   \* messages past expires_at
  owner,     \* native_delivery_owners: current actor and generation
  reserved,  \* metadata native_actor_reserved
  receipts,  \* receipts.state
  work,      \* metadata receive_work
  finished,  \* metadata receive_finished
  mode,      \* metadata maintenance
  inflight,  \* handlers between a check and its write
  begun,     \* history: how many times begin_present succeeded
  presenter  \* history: the endpoint of the last success

epVars     == <<epState, fresh, attested, handed>>
choiceVars == <<pref, revision, observed>>
workVars   == <<work, finished>>
grantVars  == <<begun, presenter>>
vars == <<epVars, choiceVars, msg, elapsed, owner, reserved, receipts,
          workVars, mode, inflight, grantVars>>

-----------------------------------------------------------------------------
Pending  == {"accepted", "adapter_received"}
Terminal == {"cancelled", "expired", "stale_session", "rejected"}
State    == Pending \union Terminal
              \union {"absent", "dispatching", "uncertain", "presented"}

NoMessage == [state |-> "absent", from |-> None, to |-> None, irt |-> None]
NoOwner   == [actor |-> None, gen |-> 0]
NoWork    == [claim |-> None, leased |-> FALSE, reply |-> None]

Call(op, e, m, s) == [op |-> op, ep |-> e, msg |-> m, seen |-> s]

(* A request needs one of the broker's slots for as long as it runs. *)
Free == Cardinality(inflight) < Slots

Live(e)  == epState[e] = "live"
LiveOf(p) == {e \in Endpoint : PartyOf[e] = p /\ Live(e)}

(* _endpoint_for_send: the only unretired endpoint, and only while fresh. *)
EndpointForSend(p) == {e \in LiveOf(p) : LiveOf(p) = {e} /\ e \in fresh}

SameNative(e, f) ==
  /\ PartyOf[e] = PartyOf[f]
  /\ NativeOf[e] = NativeOf[f]
  /\ (e \in Codex) = (f \in Codex)

(* _native_successor: at most one endpoint inherits a retired one. *)
NativeSuccessor(old) ==
  LET heirs == {e \in Endpoint : /\ Live(e) /\ e \in attested
                                 /\ SameNative(e, old)
                                 /\ (e \in Tui) = (old \in Tui)}
  IN  IF epState[old] = "retired" /\ old \in attested /\ Cardinality(heirs) = 1
      THEN heirs \intersect fresh
      ELSE {}

SameNativeParty(e, h) == e = h \/ e \in NativeSuccessor(h)

(* _selected_endpoint: the chosen surface, or its successor once retired. *)
SelectedEndpoint(c) ==
  IF Live(c) THEN {c} \intersect fresh ELSE NativeSuccessor(c)

NewMessageRecipient(p) ==
  IF pref[p] = None THEN EndpointForSend(p) ELSE SelectedEndpoint(pref[p])

ReplyEndpoint(h) ==
  CASE epState[h] # "retired"   -> {h}
    [] PartyOf[h] \in OpenClaw  -> EndpointForSend(PartyOf[h])
    [] OTHER                    -> NativeSuccessor(h)

PresentationAllowedWhileChosenLives(e) ==
  LET c == pref[PartyOf[e]]
  IN  (c # None /\ e \in attested /\ NativeOf[e] = NativeOf[c] /\ Live(c))
        => e \in SelectedEndpoint(c)

(* presentation_allowed: the other surfaces of a chosen native are fenced. *)
PresentationAllowed(e) ==
  LET c == pref[PartyOf[e]]
  IN  (c # None /\ e \in attested /\ NativeOf[e] = NativeOf[c])
        => e \in SelectedEndpoint(c)

(* COALESCE(actor_endpoint, recipient_endpoint) *)
DeliveryActor(m) ==
  IF owner[m].actor # None THEN owner[m].actor ELSE msg[m].to

Exists(m)  == msg[m].state # "absent"
WaitingOrUnsure(m) == msg[m].state \in Pending \union {"uncertain"}
Waiting(m) == msg[m].state \in Pending

RepliedByOpen(m, senders) ==
  \E r \in Message : Waiting(r) /\ msg[r].irt = m /\ msg[r].from \in senders
RepliedBy(m, senders) ==
  \E r \in Message : Exists(r) /\ msg[r].irt = m /\ msg[r].from \in senders

PreparedIds == {work[m].reply : m \in Message} \ {None}

ModeAllows(m) == \/ mode = "open"
                 \/ mode = "probe" /\ m \in ProbeIds

-----------------------------------------------------------------------------
Init ==
  /\ epState = [e \in Endpoint |-> IF e \in Steady THEN "live" ELSE "absent"]
  /\ fresh = Steady /\ attested = {} /\ observed = {}
  /\ handed = [e \in Endpoint |-> None]
  /\ pref = [p \in Party |-> None]
  /\ revision = [p \in Party |-> 0]
  /\ msg = [m \in Message |-> NoMessage]
  /\ elapsed = {}
  /\ owner = [m \in Message |-> NoOwner]
  /\ reserved = [m \in Message |-> NoOwner]
  /\ receipts = [m \in Message |-> "none"]
  /\ work = [m \in Message |-> NoWork]
  /\ finished = {}
  /\ mode = "open"
  /\ inflight = {}
  /\ begun = [m \in Message |-> 0]
  /\ presenter = [m \in Message |-> None]

-----------------------------------------------------------------------------
(* Endpoint lifecycle *)

RegisterCheck(e) ==
  /\ Free
  /\ epState[e] # "retired" /\ e \notin Steady
  /\ Call("register", e, None, None) \notin inflight
  /\ inflight' = inflight \union {Call("register", e, None, None)}
  /\ UNCHANGED <<epVars, choiceVars, msg, elapsed, owner, reserved, receipts,
                 workVars, mode, grantVars>>

RegisterWrite(e) ==
  /\ Call("register", e, None, None) \in inflight
  /\ inflight' = inflight \ {Call("register", e, None, None)}
  /\ epState' = [epState EXCEPT ![e] = "live"]
  /\ fresh' = fresh \union {e}
  /\ UNCHANGED <<attested, handed, choiceVars, msg, elapsed, owner, reserved,
                 receipts, workVars, mode, grantVars>>

HeartbeatLapse(e) ==
  /\ e \in fresh \ Steady
  /\ fresh' = fresh \ {e}
  /\ UNCHANGED <<epState, attested, handed, choiceVars, msg, elapsed, owner,
                 reserved, receipts, workVars, mode, inflight, grantVars>>

AttestCheck(e) ==
  /\ Free
  /\ Live(e) /\ e \in Agent \ attested
  /\ Call("attest", e, None, None) \notin inflight
  /\ inflight' = inflight \union {Call("attest", e, None, None)}
  /\ UNCHANGED <<epVars, choiceVars, msg, elapsed, owner, reserved, receipts,
                 workVars, mode, grantVars>>

AttestWrite(e) ==
  /\ Call("attest", e, None, None) \in inflight
  /\ inflight' = inflight \ {Call("attest", e, None, None)}
  /\ attested' = attested \union {e}
  /\ UNCHANGED <<epState, fresh, handed, choiceVars, msg, elapsed, owner,
                 reserved, receipts, workVars, mode, grantVars>>

(* endpoint_retire: two autocommitted UPDATE statements.  The heartbeat of  *)
(* a retired endpoint is never read, so it is dropped from "fresh".         *)
RetireMark(e) ==
  /\ Free
  /\ Live(e) /\ e \notin Steady
  /\ epState' = [epState EXCEPT ![e] = "retired"]
  /\ fresh' = fresh \ {e}
  /\ inflight' = inflight \union {Call("retire", e, None, None)}
  /\ UNCHANGED <<attested, handed, choiceVars, msg, elapsed, owner,
                 reserved, receipts, workVars, mode, grantVars>>

SweptUnclaimed(e) ==
  {m \in Message : msg[m].state = "accepted" /\ msg[m].to = e}
Swept(e) == {m \in Message : Waiting(m) /\ msg[m].to = e}
RetireSweep(e) ==
  /\ Call("retire", e, None, None) \in inflight
  /\ inflight' = inflight \ {Call("retire", e, None, None)}
  /\ msg' = [m \in Message |-> IF m \in Swept(e)
                               THEN [msg[m] EXCEPT !.state = "stale_session"]
                               ELSE msg[m]]
  /\ UNCHANGED <<epVars, choiceVars, elapsed, owner, reserved, receipts,
                 workVars, mode, grantVars>>

(* _handoff_native_delivery: the messages old still owes go to new.  The   *)
(* Host's proof that old's process is gone is an outside observation.      *)
InheritedBegun(old) == {m \in Message : DeliveryActor(m) = old}
Inherited(old) ==
  {m \in Message :
     /\ Waiting(m) /\ m \notin elapsed
     /\ DeliveryActor(m) = old
     /\ ~ RepliedBy(m, {e \in attested :
                          \/ e = msg[m].to
                          \/ e \in Codex /\ SameNative(e, old)})}

FirstOwner(m, new) == [actor |-> new, gen |-> 1]
NextOwner(m, new)  == [actor |-> new, gen |-> owner[m].gen + 1]

NativeHandoff(old, new) ==
  /\ Free
  /\ Live(old) /\ Live(new) /\ old # new /\ old \notin Steady
  /\ {old, new} \subseteq Codex \intersect attested
  /\ SameNative(old, new)
  /\ new \in fresh
  /\ handed[old] = None
  /\ LiveOf(PartyOf[old]) \subseteq {old, new}
  /\ owner' = [m \in Message |->
                 IF m \in Inherited(old) THEN NextOwner(m, new) ELSE owner[m]]
  /\ epState' = [epState EXCEPT ![old] = "retired"]
  /\ fresh' = fresh \ {old}
  /\ handed' = [handed EXCEPT ![old] = new]
  /\ UNCHANGED <<attested, choiceVars, msg, elapsed, reserved, receipts,
                 workVars, mode, inflight, grantVars>>

-----------------------------------------------------------------------------
(* Recipient preference *)

RecipientObserve(e) ==
  /\ Free
  /\ Live(e) /\ e \in Codex \intersect Tui \intersect attested
  /\ observed' = observed \union {e}
  /\ UNCHANGED <<epVars, pref, revision, msg, elapsed, owner, reserved,
                 receipts, workVars, mode, inflight, grantVars>>

ObservationLapse(e) ==
  /\ e \in observed
  /\ observed' = observed \ {e}
  /\ UNCHANGED <<epVars, pref, revision, msg, elapsed, owner, reserved,
                 receipts, workVars, mode, inflight, grantVars>>

(* recipient_select (c an endpoint) and recipient_clear (c = None) compare *)
(* the caller's expected revision with the stored one.                     *)
RecipientChoose(p, c, expected) ==
  /\ Free
  /\ expected = revision[p] /\ expected < MaxRevision
  /\ c # None => /\ c \in observed \intersect fresh
                 /\ Live(c) /\ PartyOf[c] = p
  /\ pref' = [pref EXCEPT ![p] = c]
  /\ revision' = [revision EXCEPT ![p] = expected + 1]
  /\ UNCHANGED <<epVars, observed, msg, elapsed, owner, reserved, receipts,
                 workVars, mode, inflight, grantVars>>

-----------------------------------------------------------------------------
(* Messages *)

Insert(m, s, e, original) ==
  /\ msg' = [msg EXCEPT ![m] = [state |-> "accepted", from |-> s, to |-> e,
                                irt |-> original]]
  /\ UNCHANGED <<epVars, choiceVars, elapsed, owner, reserved, receipts,
                 workVars, mode, inflight, grantVars>>

(* submit of a new message; a known id only returns its stored state. *)
Submit(m, s, p) ==
  /\ Free
  /\ Live(s) /\ ModeAllows(m)
  /\ ~ Exists(m) /\ m \notin PreparedIds
  /\ \E e \in NewMessageRecipient(p) : Insert(m, s, e, None)

(* A claimed original accepts only the reply its claimant prepared. *)
ReplyAdmittedLate(m, r) ==
  work[m].claim # None =>
    \/ r = work[m].reply
    \/ /\ work[m].reply # None
       /\ Exists(work[m].reply) /\ msg[work[m].reply].irt = m

ReplyAdmitted(m, r) ==
  /\ m \notin finished
  /\ work[m].claim # None =>
       \/ r = work[m].reply
       \/ /\ work[m].reply # None
          /\ Exists(work[m].reply) /\ msg[work[m].reply].irt = m

(* A prepared id is a fresh uuid, which only the reply it was prepared for *)
(* carries.                                                                *)
SubmitReply(r, s, m) ==
  /\ Free
  /\ Live(s) /\ ModeAllows(r)
  /\ ~ Exists(r)
  /\ r \in PreparedIds => r = work[m].reply
  /\ Exists(m) /\ SameNativeParty(s, msg[m].to)
  /\ ReplyAdmitted(m, r)
  /\ \E e \in ReplyEndpoint(msg[m].from) : Insert(r, s, e, m)

TtlElapses(m) ==
  /\ Exists(m) /\ m \in Expiring \ elapsed
  /\ elapsed' = elapsed \union {m}
  /\ UNCHANGED <<epVars, choiceVars, msg, owner, reserved, receipts, workVars,
                 mode, inflight, grantVars>>

Claimable(e) ==
  {m \in Message : /\ Waiting(m) /\ m \notin elapsed
                   /\ DeliveryActor(m) = e
                   /\ ~ RepliedBy(m, {e})
                   /\ mode = "probe" => m \in ProbeIds}

(* The check for stopped precedes the transaction, so that a concurrent     *)
(* broker may still claim what it began before it was stopped.              *)
Claim(e) ==
  /\ Free
  /\ mode = "stopped" => Slots > 1
  /\ Live(e) /\ PresentationAllowed(e)
  /\ msg' = [m \in Message |-> IF m \in Claimable(e)
                               THEN [msg[m] EXCEPT !.state = "adapter_received"]
                               ELSE msg[m]]
  /\ UNCHANGED <<epVars, choiceVars, elapsed, owner, reserved, receipts,
                 workVars, mode, inflight, grantVars>>

(* _delivery_actor: a transferred original is presented natively only. *)
MayPresent(m, e, native) ==
  IF owner[m].actor # None
  THEN owner[m].actor = e /\ native
  ELSE msg[m].to = e

BeginPresent(m, e, native) ==
  /\ Free
  /\ Live(e) /\ Exists(m)
  /\ MayPresent(m, e, native)
  /\ PresentationAllowed(e)
  /\ native => e \in attested \intersect Agent /\ ModeAllows(m)
  /\ Waiting(m) /\ m \notin elapsed
  /\ ~ RepliedBy(m, {msg[m].to, e})
  /\ msg' = [msg EXCEPT ![m].state = "dispatching"]
  /\ reserved' = IF native /\ owner[m].actor # None
                 THEN [reserved EXCEPT ![m] = owner[m]]
                 ELSE reserved
  /\ begun' = [begun EXCEPT ![m] = @ + 1]
  /\ presenter' = [presenter EXCEPT ![m] = e]
  /\ UNCHANGED <<epVars, choiceVars, elapsed, owner, receipts, workVars, mode,
                 inflight>>

(* receipt: what an adapter, or the reader's own ack, reports. *)
Forward(m, s) == /\ msg[m].state \notin Terminal
                 /\ msg[m].state = "presented" => s = "presented"

Receipt(m, e, s) ==
  /\ Free
  /\ Exists(m) /\ Live(e)
  /\ MayPresent(m, e, TRUE)
  /\ (owner[m].actor # None /\ s = "presented") => reserved[m] = owner[m]
  /\ Forward(m, s)
  /\ receipts' = [receipts EXCEPT ![m] = s]
  /\ msg' = [msg EXCEPT ![m].state = s]
  /\ UNCHANGED <<epVars, choiceVars, elapsed, owner, reserved, workVars, mode,
                 inflight, grantVars>>

Cancel(m, s) ==
  /\ Free
  /\ Live(s) /\ msg[m].from = s
  /\ Waiting(m)
  /\ msg' = [msg EXCEPT ![m].state = "cancelled"]
  /\ UNCHANGED <<epVars, choiceVars, elapsed, owner, reserved, receipts,
                 workVars, mode, inflight, grantVars>>

(* delivery_status: the row is read, then its state copied to receipts. *)
StatusCheck(m, e) ==
  /\ "waiting" \in Reports /\ Free
  /\ Live(e) /\ Exists(m)
  /\ MayPresent(m, e, TRUE)
  /\ Waiting(m)
  /\ inflight' = inflight \union {Call("status", e, m, msg[m].state)}
  /\ UNCHANGED <<epVars, choiceVars, msg, elapsed, owner, reserved, receipts,
                 workVars, mode, grantVars>>

StatusWrite(m, e) ==
  \E c \in inflight :
    /\ c.op = "status" /\ c.msg = m /\ c.ep = e
    /\ inflight' = inflight \ {c}
    /\ receipts' = [receipts EXCEPT ![m] = c.seen]
    /\ UNCHANGED <<epVars, choiceVars, msg, elapsed, owner, reserved,
                   workVars, mode, grantVars>>

-----------------------------------------------------------------------------
(* Claimed work on a received message *)

Workable(m, e) ==
  /\ Free
  /\ Live(e) /\ msg[m].to = e
  /\ m \notin elapsed
  /\ msg[m].state \in Pending \union {"dispatching", "presented", "uncertain"}
  /\ m \notin finished

SetWork(m, w) ==
  /\ work' = [work EXCEPT ![m] = w]
  /\ UNCHANGED <<epVars, choiceVars, msg, elapsed, owner, reserved, receipts,
                 finished, mode, inflight, grantVars>>

WorkClaimAfresh(m, e, t) ==
  /\ Workable(m, e)
  /\ work[m].leased => work[m].claim = t
  /\ SetWork(m, [NoWork EXCEPT !.claim = t, !.leased = TRUE])

WorkClaim(m, e, t) ==
  /\ Workable(m, e)
  /\ work[m].leased => work[m].claim = t
  /\ SetWork(m, [work[m] EXCEPT !.claim = t, !.leased = TRUE])

(* The reply gets a fresh uuid; preparing it again returns the stored one. *)
WorkPrepareReply(m, e, t, r) ==
  /\ Workable(m, e)
  /\ work[m].claim = t /\ work[m].leased
  /\ work[m].reply = None
  /\ ~ Exists(r) /\ r \notin PreparedIds
  /\ SetWork(m, [work[m] EXCEPT !.reply = r])

LeaseLapses(m) ==
  /\ work[m].leased
  /\ SetWork(m, [work[m] EXCEPT !.leased = FALSE])

ReceiveFinish(m, e, t) ==
  /\ Free
  /\ Live(e) /\ msg[m].to = e
  /\ msg[m].state = "presented"
  /\ ~ RepliedBy(m, {e})
  /\ m \notin finished
  /\ work[m].claim # None => /\ work[m].reply = None
                             /\ work[m].claim = t /\ work[m].leased
  /\ finished' = finished \union {m}
  /\ UNCHANGED <<epVars, choiceVars, msg, elapsed, owner, reserved, receipts,
                 work, mode, inflight, grantVars>>

-----------------------------------------------------------------------------
Maintenance(to) ==
  /\ Free
  /\ to # mode
  /\ mode' = to
  /\ UNCHANGED <<epVars, choiceVars, msg, elapsed, owner, reserved, receipts,
                 workVars, inflight, grantVars>>

(* The process is killed: what was committed stays, handlers are gone. *)
HubCrash ==
  /\ Crashes /\ inflight # {}
  /\ inflight' = {}
  /\ UNCHANGED <<epVars, choiceVars, msg, elapsed, owner, reserved, receipts,
                 workVars, mode, grantVars>>

EndpointStep ==
  \E e \in Endpoint :
    \/ RegisterCheck(e) \/ RegisterWrite(e) \/ HeartbeatLapse(e)
    \/ AttestCheck(e) \/ AttestWrite(e)
    \/ RetireMark(e) \/ RetireSweep(e)
    \/ RecipientObserve(e) \/ ObservationLapse(e)
    \/ \E new \in Endpoint : NativeHandoff(e, new)

ChoiceStep ==
  \E p \in Party, c \in Endpoint \union {None}, n \in 0..MaxRevision :
    RecipientChoose(p, c, n)

MessageStep ==
  \/ \E e \in Endpoint : Claim(e)
  \/ \E m \in Message : TtlElapses(m) \/ LeaseLapses(m)
  \/ \E m \in Message, e \in Endpoint :
       \/ m \notin Answer /\ \E p \in Party : Submit(m, e, p)
       \/ m \in Answer /\ \E o \in Message : SubmitReply(m, e, o)
       \/ \E native \in BOOLEAN : BeginPresent(m, e, native)
       \/ \E s \in Reports \intersect Outcomes : Receipt(m, e, s)
       \/ Cancel(m, e)
       \/ StatusCheck(m, e) \/ StatusWrite(m, e)

WorkStep ==
  \E m \in Message, e \in Endpoint, t \in Token :
    \/ WorkClaim(m, e, t)
    \/ \E r \in Answer : WorkPrepareReply(m, e, t, r)
    \/ ReceiveFinish(m, e, t)

Next == EndpointStep \/ ChoiceStep \/ MessageStep \/ WorkStep
          \/ (\E to \in Modes : Maintenance(to)) \/ HubCrash

Spec == Init /\ [][Next]_vars
=============================================================================
