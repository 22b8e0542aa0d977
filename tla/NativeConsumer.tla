--------------------------- MODULE NativeConsumer ---------------------------
(***************************************************************************)
(* The preprompt hook (native_consumer.resolve): the conversation meets a  *)
(* reference in its queue, and the host answers with a context that holds  *)
(* the body of that message and of others that wait.  Hooks run at the     *)
(* same time, each in a thread of its own with its own journal connection. *)
(*                                                                         *)
(* Every body is reserved in the journal before it is asked for.  The      *)
(* limit on the size of a context leaves any of the others out.            *)
(***************************************************************************)
EXTENDS NativeJournal

Hook == 1 .. MaxHooks

VARIABLES
  hook,     \* pc, endpoint, leader, messages to reserve, the one asked for,
            \* its publication when it was reserved, messages granted
  returned, \* history: times a body was returned to the conversation
  recorded  \* contexts the transcript holds: reference, bodies

NoHook == [pc |-> "idle", ep |-> 1, ref |-> None, todo |-> {}, m |-> None,
           pub |-> "none", got |-> {}]
ConsumerInit == /\ hook = [h \in Hook |-> NoHook]
                /\ returned = [m \in Message |-> 0] /\ recorded = {}

SetHook(h, v) == hook' = [hook EXCEPT ![h] = v]
Ends(h) == SetHook(h, NoHook)
Free(h) == h <= limit.hooks /\ \A g \in 1 .. h : hook[g].pc = "idle" <=> g = h
Leader(h) == hook[h].m = hook[h].ref

(* prepare: every message that is selected has a reference of its own. *)
PrepareAll(S) == row' = [m \in Message |-> IF m \in S THEN [row[m] EXCEPT !.owned = TRUE] ELSE row[m]]

(* Mutant: a reference met again is given the context it was given before. *)
SelectRetained(h, m) ==
  /\ Free(h) /\ row[m].state # "none" /\ row[m].ep = live
  /\ SetHook(h, IF row[m].hash # {}
                THEN [NoHook EXCEPT !.pc = "return", !.ep = live, !.ref = row[m].ref, !.got = row[m].hash]
                ELSE [NoHook EXCEPT !.pc = "reserve", !.ep = live, !.ref = m, !.todo = {m}])
  /\ UNCHANGED <<hub, row, returned, recorded>>

(* The caller is the live endpoint; the row must be bound to it.  Later    *)
(* messages join the leader when they are received and still wanted.       *)
Select(h, m) ==
  /\ Free(h)
  /\ row[m].state # "none" /\ row[m].ep = live
  /\ \E S \in SUBSET {k \in Message \ {m} : row[k].state = "received" /\ Granted(k, live)} :
       /\ SetHook(h, [NoHook EXCEPT !.pc = "reserve", !.ep = live, !.ref = m, !.todo = {m} \union S])
       /\ PrepareAll({m} \union S)
  /\ UNCHANGED <<hub, returned, recorded>>

(* The next to reserve: the leader, then the others as they arrived. *)
NextOf(h, m) == LET T == hook[h].todo IN
  m \in T /\ (m = hook[h].ref \/ (hook[h].ref \notin T /\ \A k \in T : m <= k))

(* A message that is not reserved: the leader ends the hook. *)
Skip(h, m) == /\ IF m = hook[h].ref THEN Ends(h) ELSE SetHook(h, [hook[h] EXCEPT !.todo = @ \ {m}])
              /\ UNCHANGED row

Reserve(h) ==
  /\ hook[h].pc = "reserve"
  /\ \E m \in Message :
       /\ NextOf(h, m)
       /\ \/ /\ row[m].state = "received" /\ row[m].ep = hook[h].ep
             /\ SetRow(m, [row[m] EXCEPT !.state = "dispatching", !.ref = hook[h].ref])
             /\ SetHook(h, [hook[h] EXCEPT !.pc = "ask", !.m = m, !.pub = row[m].pub, !.todo = @ \ {m}])
          \/ /\ row[m].state # "received" \/ row[m].ep # hook[h].ep
             /\ Skip(h, m)
  /\ UNCHANGED <<hub, returned, recorded>>

(* The publisher wrote to the envelope after this hook read it; counted as *)
(* a fault, for it cannot go on for ever.                                  *)
ReserveRaced(h) ==
  /\ hook[h].pc = "reserve"
  /\ \E m \in Message : NextOf(h, m) /\ row[m].state = "received" /\ Skip(h, m)
  /\ Fault
  /\ UNCHANGED <<state, to, handed, live, late, returned, recorded>>

Grant(h) ==
  /\ hook[h].pc = "ask"
  /\ BeginPresent(hook[h].m, hook[h].ep)
  /\ SetHook(h, [hook[h] EXCEPT !.pc = "reserve", !.got = @ \union {hook[h].m}])
  /\ UNCHANGED <<late, faults, row, returned, recorded>>

Refuse(h) ==
  /\ hook[h].pc = "ask" /\ ~Granted(hook[h].m, hook[h].ep)
  /\ SetHook(h, [hook[h] EXCEPT !.pc = IF hook[h].ep = live THEN "unknown" ELSE "stale_session"])
  /\ UNCHANGED <<hub, row, returned, recorded>>

AskLost(h) ==
  /\ hook[h].pc = "ask"
  /\ SetHook(h, [hook[h] EXCEPT !.pc = "unknown"])
  /\ Lost("begin_present", hook[h].m, hook[h].ep)
  /\ UNCHANGED <<row, returned, recorded>>

(* The outcome is written unless the envelope has changed since: then the  *)
(* row stays "dispatching" and the evidence is lost.  A publication that   *)
(* is looked up and still unknown is a change too, of its time only.       *)
Undo(h) ==
  /\ hook[h].pc \in {"unknown", "stale_session"}
  /\ LET m == hook[h].m
         same == row[m].state = "dispatching" /\ row[m].hash = {} /\ row[m].pub = hook[h].pub IN
       \/ same /\ SetRow(m, [row[m] EXCEPT !.state = "uncertain", !.tried = hook[h].pc])
       \/ (same => row[m].pub = "unknown") /\ UNCHANGED row
  /\ IF Leader(h) THEN Ends(h) ELSE SetHook(h, [hook[h] EXCEPT !.pc = "reserve"])
  /\ UNCHANGED <<hub, returned, recorded>>

Commit(h) ==
  /\ hook[h].pc = "reserve" /\ hook[h].todo = {}
  /\ row' = [m \in Message |-> IF m \in hook[h].got /\ Begun(m)
                               THEN [row[m] EXCEPT !.hash = hook[h].got] ELSE row[m]]
  /\ SetHook(h, [hook[h] EXCEPT !.pc = "return"])
  /\ UNCHANGED <<hub, returned, recorded>>

(* The conversation records the context, unless the answer is lost. *)
Return(h) ==
  /\ hook[h].pc = "return"
  /\ returned' = [m \in Message |-> returned[m] + (IF m \in hook[h].got THEN 1 ELSE 0)]
  /\ \/ recorded' = recorded \union {<<hook[h].ref, hook[h].got>>}
     \/ UNCHANGED recorded
  /\ Ends(h)
  /\ UNCHANGED <<hub, row>>

HookStep(h) == Reserve(h) \/ ReserveRaced(h) \/ Grant(h) \/ Refuse(h) \/ AskLost(h) \/ Undo(h) \/ Commit(h) \/ Return(h)

ConsumerTypeOK ==
  /\ hook \in [Hook -> [pc : {"idle", "reserve", "ask", "unknown", "stale_session", "return"},
                        ep : Endpoint, ref : Message \union {None}, todo : SUBSET Message,
                        m : Message \union {None}, pub : Publication, got : SUBSET Message]]
  /\ returned \in [Message -> Nat] /\ recorded \subseteq Message \X SUBSET Message
=============================================================================
