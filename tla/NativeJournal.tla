--------------------------- MODULE NativeJournal ---------------------------
(***************************************************************************)
(* What the native route of a host shares: the mailbox hub as it meets it, *)
(* and its delivery journal (native_notice.py, hub.py, host.py).           *)
(*                                                                         *)
(* A native is one Codex conversation.  Its endpoint may be replaced once, *)
(* by the endpoint of a process that resumed the same conversation.        *)
(* Messages are numbered as they arrive.                                   *)
(*                                                                         *)
(* Not modelled: the identity and content checks, which fail for good or   *)
(* never here; the drained generation, which nothing reads; two            *)
(* conversations of a host, which share no journal row.                    *)
(***************************************************************************)
EXTENDS Naturals, FiniteSets

CONSTANTS MaxMessages, MaxHooks, \* bounds on messages and concurrent hooks
          Limits                 \* the bounds a behaviour may have, of which
                                 \* it takes one: messages, hooks, faults
                                 \* (requests, children and hooks that fail,
                                 \* further pages of the queue, and kills),
                                 \* the messages that may be withdrawn (up to
                                 \* that number), whether the endpoint dies,
                                 \* and whether the agent acknowledges

Limit == [messages : 0 .. MaxMessages, hooks : 0 .. MaxHooks, faults : Nat,
          withdrawn : 0 .. MaxMessages, dies : BOOLEAN, acks : BOOLEAN]

ASSUME NativeAssumption == /\ MaxMessages \in Nat /\ MaxHooks \in Nat
                           /\ \A limit \in Limits : limit \in Limit

Message == 1 .. MaxMessages
None == 0
Endpoint == {1, 2} \* the first one and its successor

VARIABLES
  state, \* messages.state, "none" before it exists
  to,    \* messages.recipient_endpoint
  handed,\* messages in native_delivery_owners
  live,  \* the endpoint that is not retired
  late,  \* requests whose caller gave up: operation, message, endpoint
  faults,\* what has failed so far
  limit, \* the bounds of this behaviour
  row    \* the deliveries row: state, endpoint_id, prompt_hash, whether it
         \* has a reference (native_notice_metadata), and of its envelope
         \* the context reference, attempt outcome and publication

hub == <<state, to, handed, live, late, faults>>

MessageState == {"none", "open", "dispatching", "presented", "closed"}
RowState == {"none", "received", "dispatching", "uncertain", "presented"}
(* "none" is a row that was never published; "ready" is one that may be    *)
(* again: known not sent, or looked up and absent (reference_absent).      *)
Publication == {"none", "ready", "publishing", "queued", "unknown", "not_eligible", "body_reserved"}
NoRow == [state |-> "none", ep |-> 1, hash |-> {}, ref |-> None,
          tried |-> "none", pub |-> "none", owned |-> FALSE]
Begun(m) == row[m].state \in {"dispatching", "uncertain"}

(* The endpoint that may present m. *)
Actor(m) == IF m \in handed THEN 2 ELSE to[m]
Current(m, ep) == ep = live /\ Actor(m) = ep

JournalInit ==
  /\ state = [m \in Message |-> "none"] /\ to = [m \in Message |-> 1]
  /\ handed = {} /\ live = 1 /\ late = {}
  /\ faults = 0 /\ limit \in Limits
  /\ row = [m \in Message |-> NoRow]

SetRow(m, r) == row' = [row EXCEPT ![m] = r]
SetState(m, s) == state' = [state EXCEPT ![m] = s] /\ UNCHANGED <<to, handed, live>>

-----------------------------------------------------------------------------
(* The hub. *)

Granted(m, ep) == state[m] = "open" /\ Current(m, ep)
(* A transferred message is presented only under a reservation. *)
Receipted(m, ep) ==
  /\ Current(m, ep)
  /\ state[m] \in {"dispatching", "presented"} \/ (state[m] = "open" /\ m \notin handed)

BeginPresent(m, ep) == /\ Granted(m, ep)
                       /\ SetState(m, "dispatching")
Receipt(m, ep) == /\ Receipted(m, ep)
                  /\ SetState(m, "presented")

Fault == faults < limit.faults /\ faults' = faults + 1

(* An answer is lost: the request was served, is served later, or never. *)
Lost(op, m, ep) ==
  /\ Fault
  /\ \/ op = "begin_present" /\ BeginPresent(m, ep) /\ UNCHANGED late
     \/ op = "presented" /\ Receipt(m, ep) /\ UNCHANGED late
     \/ late' \in {late, late \union {<<op, m, ep>>}} /\ UNCHANGED <<state, to, handed, live>>

ServeLate(op, m, ep) ==
  /\ <<op, m, ep>> \in late
  /\ late' = late \ {<<op, m, ep>>}
  /\ \/ op = "begin_present" /\ BeginPresent(m, ep)
     \/ op = "presented" /\ Receipt(m, ep)
     \/ /\ (op = "begin_present" /\ ~Granted(m, ep)) \/ (op = "presented" /\ ~Receipted(m, ep))
        /\ UNCHANGED <<state, to, handed, live>>

Send(m) == /\ state[m] = "none" /\ m <= limit.messages /\ \A k \in 1 .. m - 1 : state[k] # "none"
           /\ state' = [state EXCEPT ![m] = "open"]
           /\ to' = [to EXCEPT ![m] = live]
           /\ UNCHANGED <<handed, live, late>>

(* Cancelled, expired or answered. *)
Withdraw(m) == /\ state[m] = "open" /\ m <= limit.withdrawn
               /\ SetState(m, "closed")
               /\ UNCHANGED late

Handoff == /\ limit.dies /\ live = 1
           /\ live' = 2
           /\ handed' = {m \in Message : state[m] = "open"}
           /\ UNCHANGED <<state, to, late>>

HubStep == /\ \/ Handoff
              \/ \E m \in Message : Send(m) \/ Withdraw(m)
              \/ \E op \in {"begin_present", "presented"}, m \in Message, ep \in Endpoint :
                   ServeLate(op, m, ep)
           /\ UNCHANGED <<row, faults>>

-----------------------------------------------------------------------------
(* native_notice: the journal. *)

(* A row may change its endpoint while its body was never asked for, or    *)
(* when the one attempt is proved refused because its endpoint was retired.*)
Rejected(m) == row[m].state = "uncertain" /\ row[m].tried = "stale_session" /\ state[m] = "open"
MayBind(m) == /\ row[m].hash = {} /\ row[m].pub # "body_reserved"
              /\ \/ row[m].state = "received" /\ row[m].ref = None
                 \/ Rejected(m)
Bound(m, ep) == [row[m] EXCEPT !.state = "received", !.ep = ep, !.ref = None]

JournalTypeOK ==
  /\ state \in [Message -> MessageState] /\ to \in [Message -> Endpoint]
  /\ handed \subseteq Message /\ live \in Endpoint
  /\ late \subseteq {"begin_present", "presented", "add"} \X Message \X Endpoint
  /\ row \in [Message -> [state : RowState, ep : Endpoint, hash : SUBSET Message,
                          ref : Message \union {None},
                          tried : {"none", "stale_session", "unknown"}, pub : Publication,
                          owned : BOOLEAN]]
=============================================================================
