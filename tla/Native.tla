------------------------------- MODULE Native -------------------------------
(***************************************************************************)
(* The native route of a host as a whole: the delivery thread journals the *)
(* messages it claims, has references to them published, and tells the hub *)
(* of every context it finds in the transcript (host._deliver_endpoint,    *)
(* native_consumer.recover); the conversation takes references from its    *)
(* queue and asks a hook for the bodies, or its agent reads a message in   *)
(* the inbox and acknowledges it.                                          *)
(***************************************************************************)
EXTENDS NativePublication, NativeConsumer

VARIABLES kills, \* kills of the host, which count as faults
          acked  \* history: messages the agent acknowledged

publication == <<tick, job, queue>>
history == <<kills, acked, limit>>
consumer == <<hook, returned, recorded>>
vars == <<hub, row, publication, consumer, history>>

Init == JournalInit /\ PublicationInit /\ ConsumerInit /\ kills = 0 /\ acked = {}

-----------------------------------------------------------------------------
(* The delivery thread, for the live endpoint. *)

Claimed == {m \in Message : state[m] = "open" /\ Actor(m) = live}
Pending == {m \in Message : Begun(m) /\ row[m].ep = live}
(* Transferred: the row must be bound to the endpoint that claims it. *)
ToBind(m) == m \in handed /\ (row[m].ep # live \/ row[m].state \in {"none", "received"})
Unbindable(P) == {m \in P : ToBind(m) /\ row[m].state # "none" /\ ~MayBind(m)}

(* A page is claimed, looked up at the hub and journaled in one            *)
(* transaction, before any of it is visited.  A row that cannot be bound   *)
(* ends the endpoint's tick.  A row that is "presented" is on the page     *)
(* while the hub still hands the message out: its receipt was lost.        *)
TickClaim ==
  /\ tick.pc = "idle" /\ job.result = "none"
  /\ LET page == Claimed \union Pending IN
       /\ page # {} /\ Unbindable(page) = {}
       /\ row' = [m \in Message |->
             CASE m \in page /\ ToBind(m) -> Bound(m, live)
               [] m \in page /\ ~ToBind(m) /\ row[m].state = "none" ->
                    [NoRow EXCEPT !.state = "received", !.ep = live]
               [] OTHER -> row[m]]
       /\ tick' = [pc |-> "next", ep |-> live, todo |-> page, m |-> None]
  /\ UNCHANGED <<hub, job, queue, consumer, history>>

(* The endpoint must still be live at every message. *)
Visits(m) == /\ tick.pc = "next" /\ tick.ep = live
             /\ m \in tick.todo /\ \A k \in tick.todo : m <= k

TickVisit(m) ==
  /\ Visits(m)
  /\ row[m].state = "received" /\ At("look", m)
  /\ UNCHANGED <<hub, row, job, queue, consumer, history>>

(* Mutant: a context that was prepared is taken for one that is recorded. *)
RecordedPrepared(m) == row[m].hash # {}
(* recover: the transcript holds the row's reference and its exact context. *)
Recorded(m) == row[m].hash # {} /\ <<row[m].ref, row[m].hash>> \in recorded

(* 30 seconds without a trace, or less. *)
VisitUnrecorded(m) ==
  /\ Visits(m)
  /\ Begun(m) /\ ~Recorded(m)
  /\ Done(m) \/ (row[m].state = "dispatching" /\ At("timeout", m))
  /\ UNCHANGED <<hub, row, job, queue, consumer, history>>

(* mark_uncertain writes over what the row has become since it was read. *)
MarkUncertain(m) ==
  /\ tick.pc = "timeout" /\ tick.m = m
  /\ SetRow(m, [row[m] EXCEPT !.state = "uncertain"])
  /\ Continue
  /\ UNCHANGED <<hub, job, queue, consumer, history>>

(* The receipt of an acknowledged row is sent again, unless the row has a  *)
(* reference: the native route then leaves it alone.                       *)
VisitPresented(m) ==
  /\ Visits(m)
  /\ row[m].state = "presented"
  /\ IF row[m].owned THEN Done(m) ELSE At("receipt", m)
  /\ UNCHANGED <<hub, row, job, queue, consumer, history>>

(* Mutant: only a row still "dispatching" is recovered. *)
VisitRecordedBegun(m) ==
  /\ Visits(m)
  /\ Begun(m) /\ Recorded(m)
  /\ \/ /\ state[m] = "dispatching" /\ row[m].state = "dispatching" /\ At("receipt", m)
     \/ /\ state[m] # "dispatching" \/ row[m].state = "uncertain"
        /\ Done(m)
  /\ UNCHANGED <<hub, row, job, queue, consumer, history>>

(* The hub is asked first, so a receipt is never sent twice. *)
VisitRecorded(m) ==
  /\ Visits(m)
  /\ Begun(m) /\ Recorded(m)
  /\ \/ /\ state[m] = "dispatching" /\ At("receipt", m) /\ UNCHANGED row
     \/ /\ state[m] = "presented" /\ SetRow(m, [row[m] EXCEPT !.state = "presented"])
        /\ Done(m)
     \/ /\ state[m] \notin {"dispatching", "presented"} /\ UNCHANGED row
        /\ Done(m)
  /\ UNCHANGED <<hub, job, queue, consumer, history>>

(* The query before the receipt fails, and ends the endpoint's tick. *)
VisitFails(m) ==
  /\ Visits(m)
  /\ Begun(m) /\ Recorded(m)
  /\ Fault
  /\ tick' = Waiting
  /\ UNCHANGED <<state, to, handed, live, late, row, job, queue, consumer, history>>

ReceiptSent(m) ==
  /\ tick.pc = "receipt" /\ tick.m = m
  /\ Receipt(m, row[m].ep) /\ UNCHANGED <<late, faults>>
  /\ SetRow(m, [row[m] EXCEPT !.state = "presented"])
  /\ Continue
  /\ UNCHANGED <<job, queue, consumer, history>>

(* Refused or lost: the exception ends the endpoint's tick. *)
ReceiptFails ==
  /\ tick.pc = "receipt"
  /\ \/ ~Receipted(tick.m, row[tick.m].ep) /\ UNCHANGED hub
     \/ Lost("presented", tick.m, row[tick.m].ep)
  /\ tick' = Waiting
  /\ UNCHANGED <<row, job, queue, consumer, history>>

(* The endpoint is retired. *)
TickEnd == /\ tick.pc = "next" /\ tick.ep # live
           /\ tick' = Waiting
           /\ UNCHANGED <<hub, row, job, queue, consumer, history>>

-----------------------------------------------------------------------------
(* The conversation takes a reference; its hook is blocked, or answered. *)

TakeReference(m) == queue[m] > 0 /\ queue' = [queue EXCEPT ![m] = @ - 1]

Blocked(m) == /\ TakeReference(m)
              /\ Fault \/ (row[m].ep # live /\ UNCHANGED faults)
              /\ UNCHANGED <<state, to, handed, live, late, row, tick, job, consumer, history>>
Resolve(h, m) == /\ TakeReference(m)
                 /\ Select(h, m)
                 /\ UNCHANGED <<tick, job, history>>

(* The agent acknowledges a message it read in the inbox: the journal is   *)
(* written first, whatever the row is, and the hub's receipt follows, or   *)
(* is lost or refused.  The caller was its recipient when the hub was      *)
(* asked, which may have been replaced since.                              *)
Ack(m) ==
  /\ limit.acks /\ state[m] # "none"
  /\ SetRow(m, [row[m] EXCEPT !.state = "presented",
                              !.ep = IF row[m].state = "none" THEN to[m] ELSE @])
  /\ acked' = acked \union {m}
  /\ late' = late \union {<<"presented", m, to[m]>>}
  /\ UNCHANGED <<state, to, handed, live, faults, publication, consumer, kills, limit>>

(* The host is killed and starts again (Host.__init__). *)
InFlight ==
  {<<"begin_present", hook[h].m, hook[h].ep>> : h \in {g \in Hook : hook[g].pc = "ask"}}
    \union (IF tick.pc = "receipt" THEN {<<"presented", tick.m, row[tick.m].ep>>} ELSE {})
    \union (IF job.op = "publish" /\ job.result = "none" THEN {<<"add", job.m, live>>} ELSE {})

Kill ==
  /\ Fault /\ kills' = kills + 1 /\ UNCHANGED <<acked, limit>>
  /\ \E S \in SUBSET InFlight : late' = late \union S
  /\ row' = [m \in Message |-> IF row[m].state = "dispatching"
                               THEN [row[m] EXCEPT !.state = "uncertain"] ELSE row[m]]
  /\ tick' = Waiting /\ job' = NoJob
  /\ hook' = [h \in Hook |-> NoHook]
  /\ UNCHANGED <<state, to, handed, live, queue, returned, recorded>>

TickStep == TickClaim \/ TickEnd \/ ReceiptFails
            \/ \E m \in Message : TickVisit(m) \/ VisitUnrecorded(m) \/ MarkUncertain(m)
                                  \/ VisitPresented(m) \/ VisitRecorded(m)
                                  \/ VisitFails(m) \/ ReceiptSent(m)
PublisherStep == (Collect \/ Look \/ LookPublishes \/ Publish \/ AskQueue) /\ UNCHANGED <<consumer, history>>

Next ==
  \/ HubStep /\ UNCHANGED <<publication, consumer, history>>
  \/ ChildStep /\ UNCHANGED <<consumer, history>>
  \/ PublisherStep \/ TickStep
  \/ \E h \in Hook : HookStep(h) /\ UNCHANGED <<publication, history>>
  \/ \E m \in Message : Blocked(m) \/ Ack(m) \/ \E h \in Hook : Resolve(h, m)
  \/ Kill

Spec == Init /\ [][Next]_vars

(* The loops of the host run for ever and the conversation goes on; 30     *)
(* seconds pass over a row that stays "dispatching" and over one that was  *)
(* looked at.                                                              *)
Fairness ==
  /\ WF_vars((TickStep \/ PublisherStep) /\ UNCHANGED faults)
  /\ WF_vars(ChildStep /\ UNCHANGED <<faults, consumer, history>>)
  /\ WF_vars(\E m \in Message, h \in Hook : Resolve(h, m))
  /\ WF_vars(\E h \in Hook : HookStep(h) /\ UNCHANGED <<faults, publication, history>>)
  /\ SF_vars(\E m \in Message : VisitUnrecorded(m) /\ tick'.pc = "timeout")
  /\ SF_vars(LookPublishes /\ UNCHANGED <<consumer, history>>)
FairSpec == Spec /\ Fairness
=============================================================================
