---------------------------- MODULE HostDelivery ----------------------------
(***************************************************************************)
(* The delivery thread of a host (Host.delivery_tick, _deliver_endpoint)   *)
(* for one agent behind a terminal: a claimed message is journaled, gated  *)
(* by the hub, pasted, and reconciled with what the agent's transcript     *)
(* shows; the agent's own acknowledgement and its prompt hook are handled  *)
(* by other threads (Host.dispatch), with their own connections to the     *)
(* journal.  Each call and each commit is a step.                          *)
(*                                                                         *)
(* Not modelled: the native route, which never pastes; the delivery_status *)
(* calls, which change no state; claim's scan order (any open message may  *)
(* be claimed, or none); an agent's transcript may be read only in part,   *)
(* so evidence may be missed.                                              *)
(***************************************************************************)
EXTENDS HostHub

VARIABLES
  row,     \* deliveries.state, "none" without a row
  tick,    \* the delivery thread: pc, the messages to visit, the one visited
  receipt, \* requests of the agent that have journaled and not yet told the hub
  pasted,  \* history: times a message was pasted into the terminal
  seen,    \* messages the agent's transcript shows
  acked    \* messages the agent acknowledged

delivery == <<row, tick, receipt, pasted, seen, acked>>

RowState == {"none", "received", "dispatching", "uncertain", "presented"}
Waiting == [pc |-> "idle", todo |-> {}]

DeliveryInit ==
  /\ row = [m \in Message |-> "none"]
  /\ tick = Waiting
  /\ receipt = {} /\ seen = {} /\ acked = {}
  /\ pasted = [m \in Message |-> 0]

SetRow(m, s) == row' = [row EXCEPT ![m] = s]
Continue == tick' = [pc |-> "next", todo |-> tick.todo]
At(pc, m) == tick' = [pc |-> pc, todo |-> tick.todo \ {m}, m |-> m]
Unfinished == {m \in Message : row[m] \in {"dispatching", "uncertain"}}

-----------------------------------------------------------------------------
(* The delivery thread. *)

(* At most one message is claimed; it is journaled unless it already is. *)
TickClaim ==
  /\ tick.pc = "idle"
  /\ \E C \in {{}} \union {{m} : m \in {n \in Message : state[n] = "open"}} :
       /\ row' = [m \in Message |-> IF m \in C /\ row[m] = "none" THEN "received" ELSE row[m]]
       /\ C \union Unfinished # {}
       /\ tick' = [pc |-> "next", todo |-> C \union Unfinished]
  /\ UNCHANGED <<state, late, receipt, pasted, seen, acked>>

TickEnd ==
  /\ tick.pc = "next" /\ tick.todo = {}
  /\ tick' = Waiting
  /\ UNCHANGED <<state, late, row, receipt, pasted, seen, acked>>

(* Mutant: the prompt's hash is not compared. *)
VisitEvidenceAny(m) ==
  /\ m \in Unfinished
  /\ SetRow(m, "presented")
  /\ At("presented", m)

(* The transcript shows the prompt of an unfinished row. *)
VisitEvidence(m) ==
  /\ m \in seen \cap Unfinished
  /\ SetRow(m, "presented")
  /\ At("presented", m)

(* Mutant: an uncertain row is never told. *)
VisitJournaledPresented(m) ==
  /\ row[m] \in {"uncertain", "presented"}
  /\ IF row[m] = "presented" THEN At(row[m], m) ELSE tick' = [tick EXCEPT !.todo = @ \ {m}]
  /\ UNCHANGED row

(* The journal already knows what to tell the hub. *)
VisitJournaled(m) ==
  /\ row[m] \in {"uncertain", "presented"}
  /\ At(row[m], m)
  /\ UNCHANGED row

(* Pasted, and not yet seen: wait, and after 30 seconds give up waiting. *)
VisitDispatching(m) ==
  /\ row[m] = "dispatching"
  /\ At("waiting", m)
  /\ UNCHANGED row

(* The pane, the process, the turn state and the draft are looked at before *)
(* the hub's gate; a failed look leaves the message to another tick.        *)
VisitReceived(m) ==
  /\ row[m] = "received"
  /\ At("begin_present", m) \/ tick' = [tick EXCEPT !.todo = @ \ {m}]
  /\ UNCHANGED row

TickVisit(m) ==
  /\ tick.pc = "next" /\ m \in tick.todo
  /\ VisitEvidence(m) \/ VisitJournaled(m) \/ VisitDispatching(m) \/ VisitReceived(m)
  /\ UNCHANGED <<state, late, receipt, pasted, seen, acked>>

(* mark_uncertain overwrites whatever the row says by now. *)
TickWait ==
  /\ tick.pc = "waiting"
  /\ SetRow(tick.m, "uncertain") \/ UNCHANGED row
  /\ Continue
  /\ UNCHANGED <<state, late, receipt, pasted, seen, acked>>

(* A receipt that fails ends the agent's part of this tick. *)
Told(op, m) == /\ tick.pc = op /\ op \in {"uncertain", "presented"} /\ tick.m = m
               /\ Accepted(op, m) /\ Answered(op, m)
               /\ Continue
               /\ UNCHANGED <<row, receipt, pasted, seen, acked>>

TickReceiptFails ==
  /\ tick.pc \in {"uncertain", "presented"}
  /\ \/ ~Accepted(tick.pc, tick.m) /\ UNCHANGED <<state, late>>
     \/ UNCHANGED <<state, late>>
     \/ GaveUp({<<tick.pc, tick.m>>})
  /\ tick' = Waiting
  /\ UNCHANGED <<row, receipt, pasted, seen, acked>>

TickGate ==
  /\ tick.pc = "begin_present"
  /\ \/ /\ Accepted("begin_present", tick.m) /\ Answered("begin_present", tick.m)
        /\ tick' = [tick EXCEPT !.pc = "journal"]
     \/ Continue /\ UNCHANGED <<state, late>>
     \/ /\ tick' = Waiting
        /\ UNCHANGED <<state, late>> \/ GaveUp({<<"begin_present", tick.m>>})
  /\ UNCHANGED <<row, receipt, pasted, seen, acked>>

TickJournal ==
  /\ tick.pc = "journal"
  /\ SetRow(tick.m, "dispatching")
  /\ tick' = [tick EXCEPT !.pc = "paste"]
  /\ UNCHANGED <<state, late, receipt, pasted, seen, acked>>

TickPaste ==
  /\ tick.pc = "paste"
  /\ pasted' = [pasted EXCEPT ![tick.m] = @ + 1]
  /\ tick' = [tick EXCEPT !.pc = "enter"]
  /\ UNCHANGED <<state, late, row, receipt, seen, acked>>

TickEnter ==
  /\ tick.pc = "enter"
  /\ Continue
  /\ UNCHANGED <<state, late, row, receipt, pasted, seen, acked>>

(* Mutant: a failed command is tried again. *)
TickPasteRetries ==
  /\ tick.pc \in {"paste", "enter"}
  /\ tick' = [tick EXCEPT !.pc = "paste"]
  /\ UNCHANGED <<state, late, row, receipt, pasted, seen, acked>>

(* A tmux command fails, before or after the text is in the terminal. *)
TickPasteFails ==
  /\ tick.pc \in {"paste", "enter"}
  /\ SetRow(tick.m, "uncertain")
  /\ Continue
  /\ UNCHANGED <<state, late, receipt, pasted, seen, acked>>

-----------------------------------------------------------------------------
(* The agent. *)

AgentReads(m) ==
  /\ pasted[m] > 0 /\ m \notin seen
  /\ seen' = seen \union {m}
  /\ UNCHANGED <<state, late, row, tick, receipt, pasted, acked>>

(* The hook matches the prompt with the hash the journal pinned. *)
PromptReceipt(m) ==
  /\ m \in seen /\ row[m] \in Begun
  /\ SetRow(m, "presented")
  /\ receipt' = receipt \union {m}
  /\ UNCHANGED <<state, late, tick, pasted, seen, acked>>

(* An acknowledgement of a message read in the inbox, whatever its state. *)
Ack(m) ==
  /\ state[m] # "none"
  /\ acked' = acked \union {m}
  /\ SetRow(m, "presented")
  /\ receipt' = receipt \union {m}
  /\ UNCHANGED <<state, late, tick, pasted, seen>>

ReceiptCall(m) ==
  /\ m \in receipt
  /\ receipt' = receipt \ {m}
  /\ Answered("presented", m) \/ GaveUp({<<"presented", m>>}) \/ UNCHANGED <<state, late>>
  /\ UNCHANGED <<row, tick, pasted, seen, acked>>

-----------------------------------------------------------------------------
(* The host is killed and starts again (Host.__init__). *)
DeliveryInFlight ==
  {<<"presented", m>> : m \in receipt}
    \union (IF tick.pc \in Operation THEN {<<tick.pc, tick.m>>} ELSE {})

DeliveryRestart ==
  /\ row' = [m \in Message |-> IF row[m] = "dispatching" THEN "uncertain" ELSE row[m]]
  /\ tick' = Waiting
  /\ receipt' = {}
  /\ UNCHANGED <<pasted, seen, acked>>

DeliveryStep ==
  \/ TickClaim \/ TickEnd \/ TickWait \/ TickReceiptFails
  \/ TickGate \/ TickJournal \/ TickPaste \/ TickEnter \/ TickPasteFails
  \/ \E m \in Message : \/ TickVisit(m) \/ Told("uncertain", m) \/ Told("presented", m)
                        \/ AgentReads(m) \/ PromptReceipt(m) \/ Ack(m) \/ ReceiptCall(m)

DeliveryTypeOK ==
  /\ row \in [Message -> RowState]
  /\ tick \in [pc : {"idle", "next"}, todo : SUBSET Message]
       \union [pc : {"waiting", "uncertain", "presented", "begin_present", "journal", "paste", "enter"},
               todo : SUBSET Message, m : Message]
  /\ receipt \subseteq Message /\ seen \subseteq Message /\ acked \subseteq Message
  /\ pasted \in [Message -> Nat]
=============================================================================
