----------------------------- MODULE HostProofs -----------------------------
(***************************************************************************)
(* Proofs about HostPath for every set of messages and every number of     *)
(* kills and requests served late.                                         *)
(*                                                                         *)
(* The argument: no step takes the hub's message back, and what a step     *)
(* brings about there was asked by it or by a late request (Moved).  So    *)
(* the gate opens once for a message (Window), what reports it presented   *)
(* holds evidence (Evident), and an id that was not tried is not at the    *)
(* hub (Untried).                                                          *)
(***************************************************************************)
EXTENDS HostProps, TLAPS

(* The injection window is entered through the gate, which opens once.      *)
Window ==
  /\ \A m \in Message : pasted[m] <= 1 /\ (pasted[m] > 0 => state[m] \in Begun)
  /\ tick.pc \in {"journal", "paste"} =>
       pasted[tick.m] = 0 /\ state[tick.m] \in Begun

(* Whatever says presented, the agent has seen or acknowledged it.          *)
Read(m) == m \in seen \union acked
Evident ==
  /\ \A m \in Message : /\ state[m] = "presented" => Read(m)
                        /\ <<"presented", m>> \in late => Read(m)
                        /\ row[m] = "presented" => Read(m)
                        /\ m \in receipt => Read(m)
  /\ tick.pc = "presented" => Read(tick.m)

(* What the worker has not tried, and no direct request has journaled, is   *)
(* not at the hub nor on its way.                                           *)
Out(m) == state[m] = "none" /\ <<"submit", m>> \notin late
Untried ==
  /\ \A m \in Message :
       /\ m \notin journal => Out(m) /\ work[m] = "none"
       /\ request[m] = "journaled" => m \in journal /\ work[m] = "none"
       /\ work[m] = "none" => m \notin tried
       /\ work[m] = "pending" /\ m \notin tried => Out(m)
       /\ work[m] = "cancelled" => m \notin tried /\ Out(m)
  /\ worker.pc # "idle" =>
       worker.m \in tried /\ work[worker.m] \in {"dispatching", "hub_committed"}

(* A row that may be tried was not submitted.                               *)
Unsent ==
  /\ \A m \in Message : /\ sent[m] <= 1
                        /\ work[m] \in {"none", "pending"} => sent[m] = 0
                        /\ work[m] = "hub_committed" => state[m] # "none"
  /\ worker.pc \in {"query", "submit"} => sent[worker.m] = 0

HostInv == TypeOK /\ Window /\ Evident /\ Untried /\ Unsent

-----------------------------------------------------------------------------
(* The hub                                                                  *)

(* A step that may ask the hub for Q, beside what was asked late.           *)
Moved(Q) ==
  /\ state' \in [Message -> MessageState]
  /\ late' \subseteq late \union Q /\ late' \subseteq Operation \X Message
  /\ \A m \in Message :
       /\ state[m] \in Begun => state'[m] \in Begun
       /\ state[m] # "none" => state'[m] # "none"
       /\ state'[m] # "none" => state[m] # "none" \/ <<"submit", m>> \in late \union Q
       /\ state'[m] = "presented" =>
            state[m] = "presented" \/ <<"presented", m>> \in late \union Q

LEMMA Served ==
  ASSUME HubTypeOK, NEW op \in Operation, NEW m \in Message, Serve(op, m)
  PROVE  /\ state' \in [Message -> MessageState]
         /\ \A n \in Message :
              /\ state[n] \in Begun => state'[n] \in Begun
              /\ state[n] # "none" => state'[n] # "none"
              /\ state'[n] # "none" => state[n] # "none" \/ (op = "submit" /\ n = m)
              /\ state'[n] = "presented" =>
                   state[n] = "presented" \/ (op = "presented" /\ n = m)
<1>1. CASE ~ Accepted(op, m)
  BY <1>1 DEF Serve, HubTypeOK
<1>2. CASE Accepted(op, m)
  <2>1. state' = [state EXCEPT ![m] = Result(op)]
    BY <1>2 DEF Serve
  <2>2. CASE op = "submit"
    BY <1>2, <2>1, <2>2 DEF Accepted, Accepts, Result, HubTypeOK, MessageState, Begun
  <2>3. CASE op = "begin_present"
    BY <1>2, <2>1, <2>3 DEF Accepted, Accepts, Result, HubTypeOK, MessageState, Begun
  <2>4. CASE op = "uncertain"
    BY <1>2, <2>1, <2>4 DEF Accepted, Accepts, Result, HubTypeOK, MessageState, Begun
  <2>5. CASE op = "presented"
    BY <1>2, <2>1, <2>5 DEF Accepted, Accepts, Result, HubTypeOK, MessageState, Begun
  <2> QED
    BY <2>2, <2>3, <2>4, <2>5 DEF Operation
<1> QED
  BY <1>1, <1>2

LEMMA AnsweredMoves ==
  ASSUME HubTypeOK, NEW op \in Operation, NEW m \in Message, Answered(op, m)
  PROVE  Moved({<<op, m>>})
<1>1. Serve(op, m) /\ late' = late
  BY DEF Answered
<1> QED
  BY <1>1, Served DEF Moved, HubTypeOK

LEMMA GaveUpMoves ==
  ASSUME HubTypeOK, NEW Q \in SUBSET (Operation \X Message), GaveUp(Q)
  PROVE  Moved(Q)
  BY DEF GaveUp, Moved, HubTypeOK

LEMMA UnchangedMoves ==
  ASSUME HubTypeOK, NEW Q, UNCHANGED <<state, late>>
  PROVE  Moved(Q)
  BY DEF Moved, HubTypeOK

LEMMA LeftBehindMoves ==
  ASSUME HubTypeOK, NEW Q \in SUBSET (Operation \X Message), LeftBehind(Q)
  PROVE  Moved(Q)
<1>1. CASE UNCHANGED <<state, late>>
  BY <1>1, UnchangedMoves
<1>2. ASSUME NEW S \in SUBSET Q, GaveUp(S) PROVE Moved(Q)
  <2>1. Moved(S)
    BY <1>2, GaveUpMoves
  <2> QED
    BY <2>1 DEF Moved
<1> QED
  BY <1>1, <1>2 DEF LeftBehind

LEMMA HubStepMoves ==
  ASSUME HubTypeOK, HubStep
  PROVE  Moved({})
<1>1. ASSUME NEW m \in Message, Withdraw(m) PROVE Moved({})
  BY <1>1 DEF Withdraw, Moved, HubTypeOK, MessageState, Begun
<1>2. ASSUME NEW m \in Message, NEW op \in Operation, ServeLate(op, m) PROVE Moved({})
  <2>1. Serve(op, m) /\ <<op, m>> \in late /\ late' \subseteq late
    BY <1>2 DEF ServeLate
  <2> QED
    BY <2>1, Served DEF Moved, HubTypeOK
<1> QED
  BY <1>1, <1>2 DEF HubStep

(* The delivery thread's part, when only the hub moves.                     *)
LEMMA DeliveryKeeps ==
  ASSUME TypeOK, Window, Evident, NEW Q, Moved(Q),
         \A m \in Message : <<"presented", m>> \notin Q, UNCHANGED delivery
  PROVE  DeliveryTypeOK' /\ Window' /\ Evident'
<1> USE DEF delivery
<1>1. tick.pc \in {"journal", "paste", "presented"} => tick.m \in Message
  BY DEF TypeOK, DeliveryTypeOK
<1>2. DeliveryTypeOK'
  BY DEF TypeOK, DeliveryTypeOK
<1>3. Window'
  BY <1>1 DEF Window, Moved
<1>4. Evident'
  BY DEF Evident, Moved, Read
<1> QED
  BY <1>2, <1>3, <1>4

(* The queue's part, when only the hub moves.                               *)
LEMMA QueueKeeps ==
  ASSUME TypeOK, Untried, Unsent, NEW Q, Moved(Q),
         \A m \in Message : <<"submit", m>> \notin Q, UNCHANGED queue
  PROVE  QueueTypeOK' /\ Untried' /\ Unsent'
<1> USE DEF queue, rows
<1>1. QueueTypeOK'
  BY DEF TypeOK, QueueTypeOK
<1>2. \A m \in Message : Out(m) => Out(m)'
  BY DEF Out, Moved
<1>3. Untried'
  BY <1>2 DEF Untried
<1>4. Unsent'
  BY DEF Unsent, Moved
<1> QED
  BY <1>1, <1>3, <1>4

LEMMA HubTyped == ASSUME NEW Q, Moved(Q) PROVE HubTypeOK'
  BY DEF Moved, HubTypeOK

-----------------------------------------------------------------------------
(* The delivery thread and the agent                                        *)

(* What a step of the delivery must show: its part, and what it asked for.  *)
DeliveryOK ==
  /\ DeliveryTypeOK' /\ Window' /\ Evident'
  /\ \E Q : Moved(Q) /\ \A m \in Message : <<"submit", m>> \notin Q

TickStates == {"waiting", "uncertain", "presented", "begin_present", "journal",
               "paste", "enter"}

(* The thread is at one of the messages whenever it is not between them.    *)
LEMMA AtMessage ==
  ASSUME TypeOK, tick.pc \in TickStates
  PROVE  /\ tick \in [pc : TickStates, todo : SUBSET Message, m : Message]
         /\ tick.m \in Message /\ tick.todo \in SUBSET Message
  BY DEF TypeOK, DeliveryTypeOK, TickStates

LEMMA Continues ==
  ASSUME TypeOK, Continue \/ tick' = Waiting
  PROVE  /\ tick' \in [pc : {"idle", "next"}, todo : SUBSET Message]
         /\ tick'.pc \in {"idle", "next"}
  BY DEF TypeOK, DeliveryTypeOK, Continue, Waiting

LEMMA Ats ==
  ASSUME TypeOK, NEW pc \in TickStates, NEW m \in Message, At(pc, m)
  PROVE  /\ tick' \in [pc : TickStates, todo : SUBSET Message, m : Message]
         /\ tick'.pc = pc /\ tick'.m = m
  BY DEF TypeOK, DeliveryTypeOK, At, TickStates

LEMMA TickClaimOK ==
  ASSUME TypeOK, Window, Evident, TickClaim
  PROVE  DeliveryOK
<1>1. PICK C \in SUBSET Message :
        /\ row' = [m \in Message |-> IF m \in C /\ row[m] = "none" THEN "received" ELSE row[m]]
        /\ tick' = [pc |-> "next", todo |-> C \union Unfinished]
  BY DEF TickClaim
<1>2. UNCHANGED <<state, late, receipt, pasted, seen, acked>>
  BY DEF TickClaim
<1>3. DeliveryTypeOK'
  BY <1>1, <1>2 DEF TypeOK, DeliveryTypeOK, RowState, Unfinished
<1>4. Window' /\ Evident'
  BY <1>1, <1>2 DEF Window, Evident, Read, TypeOK, DeliveryTypeOK, RowState
<1>5. Moved({})
  BY <1>2, UnchangedMoves DEF TypeOK
<1> QED
  BY <1>3, <1>4, <1>5 DEF DeliveryOK

LEMMA TickVisitOK ==
  ASSUME TypeOK, Window, Evident, NEW m \in Message, TickVisit(m)
  PROVE  DeliveryOK
<1>1. UNCHANGED <<state, late, receipt, pasted, seen, acked>> /\ tick.pc = "next"
  BY DEF TickVisit
<1>2. Moved({})
  BY <1>1, UnchangedMoves DEF TypeOK
<1>3. ASSUME NEW pc \in TickStates \ {"journal", "paste"}, At(pc, m),
             \/ row' = row
             \/ SetRow(m, "presented") /\ m \in seen,
             pc = "presented" => Read(m)
      PROVE  DeliveryOK
  <2>1. tick' \in [pc : TickStates, todo : SUBSET Message, m : Message]
        /\ tick'.pc = pc /\ tick'.m = m
    BY <1>3, Ats
  <2>2. row' \in [Message -> RowState]
        /\ \A n \in Message : row'[n] = "presented" => row[n] = "presented" \/ Read(n)
    BY <1>3 DEF TypeOK, DeliveryTypeOK, RowState, SetRow, Read
  <2>3. DeliveryTypeOK'
    BY <1>1, <2>1, <2>2 DEF TypeOK, DeliveryTypeOK, TickStates
  <2>4. Window'
    BY <1>1, <1>3, <2>1 DEF Window
  <2>5. Evident'
    BY <1>1, <1>3, <2>1, <2>2 DEF Evident, Read
  <2> QED
    BY <1>2, <2>3, <2>4, <2>5 DEF DeliveryOK
<1>4. CASE VisitEvidence(m)
  BY <1>3, <1>4 DEF VisitEvidence, TickStates, Read
<1>5. CASE VisitJournaled(m)
  BY <1>3, <1>5 DEF VisitJournaled, TickStates, Evident
<1>6. CASE VisitDispatching(m)
  BY <1>3, <1>6 DEF VisitDispatching, TickStates
<1>7. CASE VisitReceived(m)
  <2>1. CASE At("begin_present", m)
    BY <1>3, <1>7, <2>1 DEF VisitReceived, TickStates
  <2>2. CASE tick' = [tick EXCEPT !.todo = @ \ {m}]
    <3>1. tick' \in [pc : {"idle", "next"}, todo : SUBSET Message] /\ tick'.pc = "next"
      BY <1>1, <2>2 DEF TypeOK, DeliveryTypeOK
    <3>2. row' = row
      BY <1>7 DEF VisitReceived
    <3>3. DeliveryTypeOK' /\ Window' /\ Evident'
      BY <1>1, <3>1, <3>2 DEF TypeOK, DeliveryTypeOK, Window, Evident, Read
    <3> QED
      BY <1>2, <3>3 DEF DeliveryOK
  <2> QED
    BY <1>7, <2>1, <2>2 DEF VisitReceived
<1> QED
  BY <1>4, <1>5, <1>6, <1>7 DEF TickVisit

(* Steps that leave the hub and the message the thread was at.              *)
LEMMA LeavesOK ==
  ASSUME TypeOK, Window, Evident, Continue \/ tick' = Waiting,
         row' \in [Message -> RowState],
         \A m \in Message : row'[m] = "presented" => row[m] = "presented",
         UNCHANGED <<receipt, pasted, seen, acked>>,
         NEW Q, Moved(Q), \A m \in Message : <<"submit", m>> \notin Q,
         \A m \in Message : <<"presented", m>> \in Q => Read(m)
  PROVE  DeliveryOK
<1>1. DeliveryTypeOK'
  BY Continues DEF TypeOK, DeliveryTypeOK
<1>2. Window'
  BY Continues DEF Window, Moved
<1>3. Evident'
  BY Continues DEF Evident, Read, Moved
<1> QED
  BY <1>1, <1>2, <1>3 DEF DeliveryOK

LEMMA TickLeavesOK ==
  ASSUME TypeOK, Window, Evident,
         TickEnd \/ TickWait \/ TickPasteFails \/ TickEnter
  PROVE  DeliveryOK
<1>1. Moved({})
  BY UnchangedMoves DEF TypeOK, TickEnd, TickWait, TickPasteFails, TickEnter
<1>2. Continue \/ tick' = Waiting
  BY DEF TickEnd, TickWait, TickPasteFails, TickEnter
<1>3. row' \in [Message -> RowState]
      /\ \A m \in Message : row'[m] = "presented" => row[m] = "presented"
  BY DEF TickEnd, TickWait, TickPasteFails, TickEnter, SetRow, TypeOK, DeliveryTypeOK, RowState
<1> QED
  BY <1>1, <1>2, <1>3, LeavesOK DEF TickEnd, TickWait, TickPasteFails, TickEnter

LEMMA TickTellsOK ==
  ASSUME TypeOK, Window, Evident,
         TickReceiptFails \/ \E m \in Message : Told("uncertain", m) \/ Told("presented", m)
  PROVE  DeliveryOK
<1>1. /\ tick.pc \in {"uncertain", "presented"}
      /\ Continue \/ tick' = Waiting
      /\ UNCHANGED <<row, receipt, pasted, seen, acked>>
  BY DEF TickReceiptFails, Told
<1>0. tick.pc \in TickStates
  BY <1>1 DEF TickStates
<1>2. tick.m \in Message /\ tick.pc \in Operation /\ tick.pc # "submit"
  BY <1>0, <1>1, AtMessage DEF Operation
<1>3. Answered(tick.pc, tick.m) \/ GaveUp({<<tick.pc, tick.m>>}) \/ UNCHANGED <<state, late>>
  BY DEF TickReceiptFails, Told
<1>4. Moved({<<tick.pc, tick.m>>})
  BY <1>2, <1>3, AnsweredMoves, GaveUpMoves, UnchangedMoves DEF TypeOK
<1>5. \A m \in Message : <<"presented", m>> \in {<<tick.pc, tick.m>>} => Read(m)
  BY DEF Evident
<1>6. row' \in [Message -> RowState]
  BY <1>1 DEF TypeOK, DeliveryTypeOK
<1> QED
  BY <1>1, <1>2, <1>4, <1>5, <1>6, LeavesOK

LEMMA TickGateOK ==
  ASSUME TypeOK, Window, Evident, TickGate
  PROVE  DeliveryOK
<1>1. tick \in [pc : TickStates, todo : SUBSET Message, m : Message]
      /\ tick.m \in Message /\ tick.pc = "begin_present"
  BY AtMessage DEF TickGate, TickStates
<1>2. UNCHANGED <<row, receipt, pasted, seen, acked>>
  BY DEF TickGate
<1>3. row' \in [Message -> RowState]
  BY <1>2 DEF TypeOK, DeliveryTypeOK
<1>4. "begin_present" \in Operation
  BY DEF Operation
<1>5. CASE /\ Accepted("begin_present", tick.m) /\ Answered("begin_present", tick.m)
           /\ tick' = [tick EXCEPT !.pc = "journal"]
  <2>1. Moved({<<"begin_present", tick.m>>})
    BY <1>1, <1>4, <1>5, AnsweredMoves DEF TypeOK
  <2>2. state[tick.m] = "open" /\ state'[tick.m] = "dispatching"
    BY <1>1, <1>5 DEF Accepted, Accepts, Answered, Serve, Result, TypeOK, HubTypeOK
  <2>3. pasted[tick.m] = 0
    BY <1>1, <2>2 DEF Window, Begun, TypeOK, DeliveryTypeOK
  <2>4. tick' \in [pc : TickStates, todo : SUBSET Message, m : Message]
        /\ tick'.pc = "journal" /\ tick'.m = tick.m
    BY <1>1, <1>5 DEF TickStates
  <2>5. DeliveryTypeOK'
    BY <1>2, <2>4 DEF TypeOK, DeliveryTypeOK, TickStates
  <2>6. Window'
    BY <1>2, <2>1, <2>2, <2>3, <2>4 DEF Window, Moved, Begun
  <2>7. Evident'
    BY <1>2, <2>1, <2>4 DEF Evident, Read, Moved
  <2> QED
    BY <2>1, <2>5, <2>6, <2>7 DEF DeliveryOK
<1>6. CASE /\ Continue \/ tick' = Waiting
           /\ UNCHANGED <<state, late>> \/ GaveUp({<<"begin_present", tick.m>>})
  <2>1. Moved({<<"begin_present", tick.m>>})
    BY <1>1, <1>4, <1>6, GaveUpMoves, UnchangedMoves DEF TypeOK
  <2> QED
    BY <1>2, <1>3, <1>6, <2>1, LeavesOK
<1> QED
  BY <1>5, <1>6 DEF TickGate

LEMMA TickInjectsOK ==
  ASSUME TypeOK, Window, Evident, TickJournal \/ TickPaste
  PROVE  DeliveryOK
<1>1. tick \in [pc : TickStates, todo : SUBSET Message, m : Message]
      /\ tick.m \in Message /\ tick.pc \in {"journal", "paste"}
  BY AtMessage DEF TickJournal, TickPaste, TickStates
<1>2. UNCHANGED <<state, late, receipt, seen, acked>>
  BY DEF TickJournal, TickPaste
<1>3. pasted[tick.m] = 0 /\ state[tick.m] \in Begun
  BY <1>1 DEF Window
<1>4. /\ tick' \in [pc : TickStates, todo : SUBSET Message, m : Message]
      /\ tick'.m = tick.m /\ tick'.pc \in {"paste", "enter"}
      /\ tick'.pc = "paste" => pasted' = pasted
  BY <1>1 DEF TickJournal, TickPaste, TickStates
<1>5. row' \in [Message -> RowState]
      /\ \A m \in Message : row'[m] = "presented" => row[m] = "presented"
  BY <1>1 DEF TickJournal, TickPaste, SetRow, TypeOK, DeliveryTypeOK, RowState
<1>6. /\ pasted' \in [Message -> Nat]
      /\ \A m \in Message : pasted'[m] = pasted[m] \/ (m = tick.m /\ pasted'[m] = 1)
  BY <1>1, <1>3 DEF TickJournal, TickPaste, TypeOK, DeliveryTypeOK
<1>7. DeliveryTypeOK'
  BY <1>2, <1>4, <1>5, <1>6 DEF TypeOK, DeliveryTypeOK, TickStates
<1>8. Window'
  BY <1>2, <1>3, <1>4, <1>6 DEF Window
<1>9. Evident'
  BY <1>2, <1>4, <1>5 DEF Evident, Read
<1>10. Moved({})
  BY <1>2, UnchangedMoves DEF TypeOK
<1> QED
  BY <1>7, <1>8, <1>9, <1>10 DEF DeliveryOK

LEMMA AgentOK ==
  ASSUME TypeOK, Window, Evident, NEW m \in Message,
         AgentReads(m) \/ PromptReceipt(m) \/ Ack(m)
  PROVE  DeliveryOK
<1>1. UNCHANGED <<state, late, tick, pasted>>
  BY DEF AgentReads, PromptReceipt, Ack
<1>2. /\ row' \in [Message -> RowState] /\ receipt' \subseteq Message
      /\ seen \subseteq seen' /\ acked \subseteq acked' /\ seen' \subseteq Message
      /\ acked' \subseteq Message
      /\ \A n \in Message : /\ row'[n] = "presented" => row[n] = "presented" \/ n \in seen' \union acked'
                            /\ n \in receipt' => n \in receipt \/ n \in seen' \union acked'
  BY DEF AgentReads, PromptReceipt, Ack, SetRow, TypeOK, DeliveryTypeOK, RowState, Read
<1>3. DeliveryTypeOK'
  BY <1>1, <1>2 DEF TypeOK, DeliveryTypeOK
<1>4. Window'
  BY <1>1 DEF Window
<1>5. tick.pc = "presented" => tick.m \in Message
  BY AtMessage DEF TickStates
<1>6. Evident'
  <2>1. tick'.pc = "presented" => tick'.m \in seen' \union acked'
    BY <1>1, <1>2, <1>5 DEF Evident, Read
  <2>2. ASSUME NEW n \in Message
        PROVE  /\ state'[n] = "presented" => n \in seen' \union acked'
               /\ <<"presented", n>> \in late' => n \in seen' \union acked'
               /\ row'[n] = "presented" => n \in seen' \union acked'
               /\ n \in receipt' => n \in seen' \union acked'
    <3>1. Read(n) => n \in seen' \union acked'
      BY <1>2 DEF Read
    <3>2. /\ state[n] = "presented" => Read(n)
          /\ <<"presented", n>> \in late => Read(n)
          /\ row[n] = "presented" => Read(n)
          /\ n \in receipt => Read(n)
      BY DEF Evident
    <3> QED
      BY <1>1, <1>2, <3>1, <3>2
  <2> QED
    BY <2>1, <2>2 DEF Evident, Read
<1>7. Moved({})
  BY <1>1, UnchangedMoves DEF TypeOK
<1> QED
  BY <1>3, <1>4, <1>6, <1>7 DEF DeliveryOK

LEMMA ReceiptCallOK ==
  ASSUME TypeOK, Window, Evident, NEW m \in Message, ReceiptCall(m)
  PROVE  DeliveryOK
<1>1. m \in receipt /\ receipt' \subseteq receipt /\ UNCHANGED <<row, tick, pasted, seen, acked>>
  BY DEF ReceiptCall
<1>2. Moved({<<"presented", m>>})
  BY AnsweredMoves, GaveUpMoves, UnchangedMoves DEF ReceiptCall, TypeOK, Operation
<1>3. Read(m)
  BY <1>1 DEF Evident
<1>4. tick.pc \in {"journal", "paste", "presented"} => tick.m \in Message
  BY AtMessage DEF TickStates
<1>5. DeliveryTypeOK'
  BY <1>1 DEF TypeOK, DeliveryTypeOK
<1>6. Window'
  BY <1>1, <1>2, <1>4 DEF Window, Moved
<1>7. Evident'
  BY <1>1, <1>2, <1>3 DEF Evident, Moved, Read
<1> QED
  BY <1>2, <1>5, <1>6, <1>7 DEF DeliveryOK

LEMMA DeliveryStepOK ==
  ASSUME TypeOK, Window, Evident, DeliveryStep
  PROVE  DeliveryOK
  BY TickClaimOK, TickVisitOK, TickLeavesOK, TickTellsOK, TickGateOK, TickInjectsOK,
     AgentOK, ReceiptCallOK DEF DeliveryStep

-----------------------------------------------------------------------------
(* The submission queue                                                     *)

QueueOK ==
  /\ QueueTypeOK' /\ Untried' /\ Unsent'
  /\ \E Q : Moved(Q) /\ \A m \in Message : <<"presented", m>> \notin Q

(* The worker is at one of the messages whenever it is not idle.            *)
LEMMA Working ==
  ASSUME TypeOK, worker.pc \in {"query", "submit", "confirm"}
  PROVE  /\ worker \in [pc : {"query", "submit", "confirm"}, m : Message, overdue : BOOLEAN]
         /\ worker.m \in Message
  BY DEF TypeOK, QueueTypeOK, Idle

(* Steps of the requests that leave the hub and the worker alone.           *)
LEMMA RequestOK ==
  ASSUME TypeOK, Untried, Unsent, NEW m \in Message,
         \/ Enqueue(m) \/ SubmitCheck(m) \/ SubmitJournal(m)
         \/ Reconcile(m) \/ CancelAsk(m) \/ CancelFence(m)
  PROVE  QueueOK
<1>1. UNCHANGED <<state, late, worker, sent, tried>>
  BY DEF Enqueue, SubmitCheck, SubmitJournal, Reconcile, CancelAsk, CancelFence, rows
<1>2. Moved({})
  BY <1>1, UnchangedMoves DEF TypeOK
<1>3. \A n \in Message : Out(n)' <=> Out(n)
  BY <1>1 DEF Out
<1>4. worker.pc # "idle" => worker.m \in Message
  BY DEF TypeOK, QueueTypeOK, Idle
<1>5. QueueTypeOK'
  BY <1>1 DEF TypeOK, QueueTypeOK, WorkState, Enqueue, SubmitCheck, SubmitJournal,
     Reconcile, CancelAsk, CancelFence, SetWork, SetRequest, rows
<1>6. ASSUME Enqueue(m) PROVE Untried' /\ Unsent'
  BY <1>1, <1>3, <1>4, <1>6 DEF Enqueue, SetWork, Untried, Unsent, TypeOK, QueueTypeOK, WorkState
<1>7. ASSUME SubmitCheck(m) \/ SubmitJournal(m) PROVE Untried' /\ Unsent'
  BY <1>1, <1>3, <1>4, <1>7
  DEF SubmitCheck, SubmitJournal, SetRequest, rows, Untried, Unsent, TypeOK, QueueTypeOK, WorkState
<1>8. ASSUME Reconcile(m) PROVE Untried' /\ Unsent'
  BY <1>1, <1>3, <1>4, <1>8
  DEF Reconcile, SetWork, Found, Out, Untried, Unsent, TypeOK, QueueTypeOK, WorkState
<1>9. ASSUME CancelAsk(m) PROVE Untried' /\ Unsent'
  BY <1>1, <1>3, <1>4, <1>9 DEF CancelAsk, rows, Untried, Unsent
<1>10. ASSUME CancelFence(m) PROVE Untried' /\ Unsent'
  BY <1>1, <1>3, <1>4, <1>10
  DEF CancelFence, SetWork, Untried, Unsent, TypeOK, QueueTypeOK, WorkState
<1> QED
  BY <1>2, <1>5, <1>6, <1>7, <1>8, <1>9, <1>10 DEF QueueOK

LEMMA SubmitCallOK ==
  ASSUME TypeOK, Untried, Unsent, NEW m \in Message, SubmitCall(m)
  PROVE  QueueOK
<1>1. /\ request[m] = "journaled" /\ request' = [request EXCEPT ![m] = "none"]
      /\ UNCHANGED <<journal, work, tried, overdue, enrolled, asked, worker, sent>>
  BY DEF SubmitCall, SetRequest, rows
<1>2. Moved({<<"submit", m>>})
  BY AnsweredMoves, GaveUpMoves, UnchangedMoves DEF SubmitCall, TypeOK, Operation
<1>3. m \in journal /\ work[m] = "none"
  BY <1>1 DEF Untried
<1>4. \A n \in Message : n # m /\ Out(n) => Out(n)'
  BY <1>2 DEF Out, Moved
<1>5. QueueTypeOK'
  BY <1>1 DEF TypeOK, QueueTypeOK
<1>6. Untried'
  BY <1>1, <1>3, <1>4 DEF Untried, TypeOK, QueueTypeOK
<1>7. Unsent'
  BY <1>1, <1>2 DEF Unsent, Moved
<1> QED
  BY <1>2, <1>5, <1>6, <1>7 DEF QueueOK

LEMMA WorkClaimOK ==
  ASSUME TypeOK, Untried, Unsent, NEW m \in Message, WorkClaim(m)
  PROVE  QueueOK
<1>1. /\ work[m] = "pending" /\ work' = [work EXCEPT ![m] = "dispatching"]
      /\ tried' = tried \union {m}
      /\ worker' = [pc |-> "query", m |-> m, overdue |-> m \in overdue]
      /\ UNCHANGED <<state, late, journal, overdue, enrolled, request, asked, sent>>
  BY DEF WorkClaim, SetWork
<1>2. Moved({})
  BY <1>1, UnchangedMoves DEF TypeOK
<1>3. \A n \in Message : Out(n)' <=> Out(n)
  BY <1>1 DEF Out
<1>4. QueueTypeOK'
  BY <1>1 DEF TypeOK, QueueTypeOK, WorkState
<1>5. Untried'
  BY <1>1, <1>3 DEF Untried, TypeOK, QueueTypeOK
<1>6. Unsent'
  BY <1>1 DEF Unsent, TypeOK, QueueTypeOK
<1> QED
  BY <1>2, <1>4, <1>5, <1>6 DEF QueueOK

(* What the worker does with the message it is at: it leaves the row as it  *)
(* is or ends it, counts a submit call, and asks the hub for nothing else.  *)
WorkerStep ==
  /\ worker.pc \in {"query", "submit", "confirm"}
  /\ Moved({<<"submit", worker.m>>})
  /\ \/ Moved({})
     \/ worker.pc = "submit"
  /\ UNCHANGED <<journal, tried, overdue, enrolled, request, asked>>
  /\ \/ sent' = sent /\ worker.pc # "submit"
     \/ sent' = [sent EXCEPT ![worker.m] = @ + 1] /\ worker.pc = "submit"
  /\ \/ /\ work' = work
        /\ \/ worker.pc = "query" /\ worker' = [worker EXCEPT !.pc = "submit"]
           \/ worker.pc = "submit" /\ worker' = [worker EXCEPT !.pc = "confirm"]
     \/ Finish("hub_committed") /\ state[worker.m] # "none"
     \/ Finish("blocked") \/ Finish("held")
     \/ Finish("pending") /\ worker.pc = "query"

LEMMA WorkersAre ==
  ASSUME TypeOK, WorkQuery \/ WorkQueryFails \/ WorkSubmit \/ WorkConfirm
  PROVE  WorkerStep
<1>1. worker.pc \in {"query", "submit", "confirm"}
  BY DEF WorkQuery, WorkQueryFails, WorkSubmit, WorkConfirm
<1>2. worker.m \in Message
  BY <1>1, Working
<1>3. Moved({<<"submit", worker.m>>})
  BY <1>2, AnsweredMoves, GaveUpMoves, UnchangedMoves
  DEF WorkQuery, WorkQueryFails, WorkSubmit, WorkConfirm, TypeOK, Operation
<1>4. Moved({}) \/ worker.pc = "submit"
  BY UnchangedMoves DEF WorkQuery, WorkQueryFails, WorkSubmit, WorkConfirm, TypeOK
<1>5. UNCHANGED <<journal, tried, overdue, enrolled, request, asked>>
  BY DEF WorkQuery, WorkQueryFails, WorkSubmit, WorkConfirm
<1>6. CASE WorkQuery
  BY <1>1, <1>3, <1>4, <1>5, <1>6 DEF WorkerStep, WorkQuery, Found
<1>7. CASE WorkQueryFails
  BY <1>1, <1>3, <1>4, <1>5, <1>7 DEF WorkerStep, WorkQueryFails
<1>8. CASE WorkSubmit
  BY <1>1, <1>3, <1>4, <1>5, <1>8 DEF WorkerStep, WorkSubmit
<1>9. CASE WorkConfirm
  BY <1>1, <1>3, <1>4, <1>5, <1>9 DEF WorkerStep, WorkConfirm, Found
<1> QED
  BY <1>6, <1>7, <1>8, <1>9

LEMMA WorkerOK ==
  ASSUME TypeOK, Untried, Unsent, WorkerStep
  PROVE  QueueOK
<1> DEFINE w == worker.m
<1>1. /\ worker \in [pc : {"query", "submit", "confirm"}, m : Message, overdue : BOOLEAN]
      /\ w \in Message
  BY Working DEF WorkerStep
<1>2. w \in tried /\ work[w] \in {"dispatching", "hub_committed"}
  BY <1>1 DEF Untried
<1>3. w \in journal /\ request[w] # "journaled"
  BY <1>1, <1>2 DEF Untried
<1>4. /\ Moved({<<"submit", w>>})
      /\ UNCHANGED <<journal, tried, overdue, enrolled, request, asked>>
  BY DEF WorkerStep
<1>5. \A n \in Message : n # w /\ Out(n) => Out(n)'
  BY <1>4 DEF Out, Moved
<1>6. \A n \in Message : state[n] # "none" => state'[n] # "none"
  BY <1>4 DEF Moved
<1>7. \/ work' = work
      \/ \E s \in {"hub_committed", "blocked", "held", "pending"} :
           /\ work' = [work EXCEPT ![w] = IF work[w] = "dispatching" THEN s ELSE work[w]]
           /\ s = "hub_committed" => state[w] # "none"
           /\ s = "pending" => worker.pc = "query"
           /\ worker' = Idle
  BY DEF WorkerStep, Finish
<1>8. \/ worker' = Idle
      \/ /\ work' = work
         /\ worker' \in [pc : {"query", "submit", "confirm"}, m : Message, overdue : BOOLEAN]
         /\ worker'.m = w
         /\ \/ worker.pc = "query" /\ worker'.pc = "submit"
            \/ worker.pc = "submit" /\ worker'.pc = "confirm"
  BY <1>1 DEF WorkerStep, Finish
<1>9. /\ work' \in [Message -> WorkState]
      /\ \A n \in Message : n # w => work'[n] = work[n]
      /\ work'[w] \in {"dispatching", "hub_committed", "blocked", "held", "pending"}
      /\ work'[w] = "hub_committed" => work[w] = "hub_committed" \/ state[w] # "none"
      /\ work'[w] = "pending" => worker.pc = "query"
  BY <1>1, <1>2, <1>7 DEF TypeOK, QueueTypeOK, WorkState
<1>10. /\ sent' \in [Message -> Nat]
       /\ \A n \in Message : n # w => sent'[n] = sent[n]
       /\ worker.pc = "submit" => sent[w] = 0 /\ sent'[w] = 1
       /\ worker.pc # "submit" => sent' = sent
       /\ worker.pc = "query" => sent[w] = 0
  BY <1>1 DEF WorkerStep, Unsent, TypeOK, QueueTypeOK
<1>11. QueueTypeOK'
  <2>1. worker' \in {Idle} \union [pc : {"query", "submit", "confirm"}, m : Message, overdue : BOOLEAN]
    BY <1>8
  <2> QED
    BY <1>4, <1>9, <1>10, <2>1 DEF TypeOK, QueueTypeOK
<1>12. Untried'
  <2>1. ASSUME NEW n \in Message
        PROVE  /\ n \notin journal' => Out(n)' /\ work'[n] = "none"
               /\ request'[n] = "journaled" => n \in journal' /\ work'[n] = "none"
               /\ work'[n] = "none" => n \notin tried'
               /\ work'[n] = "pending" /\ n \notin tried' => Out(n)'
               /\ work'[n] = "cancelled" => n \notin tried' /\ Out(n)'
    <3>1. CASE n = w
      BY <1>2, <1>3, <1>4, <1>9, <3>1
    <3>2. CASE n # w
      BY <1>4, <1>5, <1>9, <3>2 DEF Untried
    <3> QED
      BY <3>1, <3>2
  <2>2. worker'.pc # "idle" =>
          worker'.m \in tried' /\ work'[worker'.m] \in {"dispatching", "hub_committed"}
    BY <1>2, <1>4, <1>8 DEF Idle
  <2> QED
    BY <2>1, <2>2 DEF Untried
<1>13. Unsent'
  <2>1. ASSUME NEW n \in Message
        PROVE  /\ sent'[n] <= 1
               /\ work'[n] \in {"none", "pending"} => sent'[n] = 0
               /\ work'[n] = "hub_committed" => state'[n] # "none"
    <3>1. CASE n = w
      BY <1>2, <1>6, <1>9, <1>10, <3>1 DEF Unsent, TypeOK, QueueTypeOK
    <3>2. CASE n # w
      BY <1>6, <1>9, <1>10, <3>2 DEF Unsent
    <3> QED
      BY <3>1, <3>2
  <2>2. worker'.pc \in {"query", "submit"} => sent'[worker'.m] = 0
    BY <1>8, <1>10 DEF Idle
  <2> QED
    BY <2>1, <2>2 DEF Unsent
<1> QED
  BY <1>4, <1>11, <1>12, <1>13 DEF QueueOK

LEMMA OutsideOK ==
  ASSUME TypeOK, Untried, Unsent, Revoke \/ \E m \in Message : DeadlinePasses(m)
  PROVE  QueueOK
<1>1. UNCHANGED <<state, journal, work, tried, request, asked, worker, sent>>
  BY DEF Revoke, DeadlinePasses, rows
<1>2. late' \subseteq late
  BY DEF Revoke, DeadlinePasses
<1>3. Moved({})
  BY <1>1, <1>2 DEF Moved, TypeOK, HubTypeOK
<1>4. QueueTypeOK'
  BY <1>1 DEF TypeOK, QueueTypeOK, Revoke, DeadlinePasses
<1>5. Untried' /\ Unsent'
  BY <1>1, <1>2 DEF Untried, Unsent, Out
<1> QED
  BY <1>3, <1>4, <1>5 DEF QueueOK

LEMMA QueueStepOK ==
  ASSUME TypeOK, Untried, Unsent, QueueStep
  PROVE  QueueOK
  BY RequestOK, SubmitCallOK, WorkClaimOK, WorkersAre, WorkerOK, OutsideOK DEF QueueStep

-----------------------------------------------------------------------------
(* The steps of the host                                                    *)

LEMMA KillOK ==
  ASSUME HostInv, Kill
  PROVE  HostInv'
<1> DEFINE Q == InFlight \union DeliveryInFlight
<1> USE DEF HostInv
<1>1. /\ LeftBehind(Q) /\ kills' \in 0 .. MaxKills
      /\ QueueRestart /\ DeliveryRestart
  BY HostPathAssumption DEF Kill, TypeOK
<1>2. tick.pc \in Operation => tick.m \in Message /\ tick.pc # "submit"
  BY DEF Operation, TypeOK, DeliveryTypeOK
<1>3. worker.pc \in {"query", "submit", "confirm"} => worker.m \in Message
  BY Working
<1>4. Q \in SUBSET (Operation \X Message)
  BY <1>2, <1>3 DEF InFlight, DeliveryInFlight, Operation, TypeOK, DeliveryTypeOK
<1>5. Moved(Q)
  BY <1>1, <1>4, LeftBehindMoves DEF TypeOK
<1>6. \A m \in Message : <<"presented", m>> \in Q => Read(m)
  BY <1>2 DEF InFlight, DeliveryInFlight, Evident
<1>7. \A m \in Message : <<"submit", m>> \in Q =>
        request[m] = "journaled" \/ (worker.pc = "submit" /\ worker.m = m)
  BY <1>2 DEF InFlight, DeliveryInFlight
<1>8. DeliveryTypeOK' /\ Window' /\ Evident'
  <2>1. /\ row' \in [Message -> RowState]
        /\ \A m \in Message : row'[m] = "presented" => row[m] = "presented"
        /\ tick' = Waiting /\ receipt' = {} /\ UNCHANGED <<pasted, seen, acked>>
    BY <1>1 DEF DeliveryRestart, TypeOK, DeliveryTypeOK, RowState
  <2>2. DeliveryTypeOK'
    BY <2>1 DEF Waiting, TypeOK, DeliveryTypeOK
  <2>3. Window'
    BY <1>5, <2>1 DEF Waiting, Window, Moved
  <2>4. Evident'
    BY <1>5, <1>6, <2>1 DEF Waiting, Evident, Moved, Read
  <2> QED
    BY <2>2, <2>3, <2>4
<1>9. QueueTypeOK' /\ Untried' /\ Unsent'
  <2>1. /\ work' \in [Message -> WorkState]
        /\ \A m \in Message : work'[m] = work[m] \/ (work[m] = "dispatching" /\ work'[m] = "held")
        /\ request' = [m \in Message |-> "none"] /\ asked' = {} /\ worker' = Idle
        /\ sent' = IF worker.pc = "submit" THEN [sent EXCEPT ![worker.m] = @ + 1] ELSE sent
        /\ UNCHANGED <<journal, tried, overdue, enrolled>>
    BY <1>1 DEF QueueRestart, TypeOK, QueueTypeOK, WorkState
  <2>2. /\ sent' \in [Message -> Nat]
        /\ \A m \in Message : \/ sent'[m] = sent[m]
                              \/ worker.pc = "submit" /\ worker.m = m /\ sent'[m] = 1
    <3>1. sent \in [Message -> Nat] /\ (worker.pc = "submit" => sent[worker.m] = 0)
      BY DEF Unsent, TypeOK, QueueTypeOK
    <3>2. CASE worker.pc = "submit"
      BY <1>3, <2>1, <3>1, <3>2
    <3>3. CASE worker.pc # "submit"
      BY <2>1, <3>1, <3>3
    <3> QED
      BY <3>2, <3>3
  <2>3. QueueTypeOK'
    BY <2>1, <2>2 DEF TypeOK, QueueTypeOK
  <2>4. Untried'
    <3>1. ASSUME NEW m \in Message
          PROVE  /\ m \notin journal => Out(m)' /\ work'[m] = "none"
                 /\ work'[m] = "none" => m \notin tried
                 /\ work'[m] = "pending" /\ m \notin tried => Out(m)'
                 /\ work'[m] = "cancelled" => m \notin tried /\ Out(m)'
      <4>1. <<"submit", m>> \in Q =>
              m \in journal /\ work[m] \in {"none", "dispatching", "hub_committed"}
        BY <1>3, <1>7 DEF Untried
      <4>2. Out(m) /\ <<"submit", m>> \notin Q => Out(m)'
        BY <1>5 DEF Out, Moved
      <4> QED
        BY <2>1, <4>1, <4>2 DEF Untried
    <3> QED
      BY <2>1, <3>1 DEF Untried, Idle
  <2>5. Unsent'
    <3>1. worker.pc = "submit" => work[worker.m] \in {"dispatching", "hub_committed"}
      BY DEF Untried
    <3>2. ASSUME NEW m \in Message
          PROVE  /\ sent'[m] <= 1
                 /\ work'[m] \in {"none", "pending"} => sent'[m] = 0
                 /\ work'[m] = "hub_committed" => state'[m] # "none"
      <4>1. /\ sent[m] <= 1 /\ (work[m] \in {"none", "pending"} => sent[m] = 0)
            /\ work[m] = "hub_committed" => state[m] # "none"
        BY DEF Unsent
      <4>2. state[m] # "none" => state'[m] # "none"
        BY <1>5 DEF Moved
      <4> QED
        BY <2>1, <2>2, <3>1, <4>1, <4>2
    <3> QED
      BY <2>1, <3>2 DEF Unsent, Idle
  <2> QED
    BY <2>3, <2>4, <2>5
<1>10. HubTypeOK'
  BY <1>5, HubTyped
<1> QED
  BY <1>1, <1>8, <1>9, <1>10 DEF TypeOK

LEMMA InitInv ==
  ASSUME Init
  PROVE  HostInv
<1>1. HubTypeOK
  BY DEF Init, HubInit, HubTypeOK, MessageState
<1>2. QueueTypeOK
  BY DEF Init, QueueInit, QueueTypeOK, WorkState
<1>3. DeliveryTypeOK
  BY DEF Init, DeliveryInit, DeliveryTypeOK, RowState, Waiting
<1>4. kills \in 0 .. MaxKills
  BY HostPathAssumption DEF Init
<1>5. Window /\ Evident
  BY DEF Init, HubInit, DeliveryInit, Waiting, Window, Evident
<1>6. Untried /\ Unsent
  BY DEF Init, HubInit, QueueInit, Idle, Untried, Unsent, Out
<1> QED
  BY <1>1, <1>2, <1>3, <1>4, <1>5, <1>6 DEF HostInv, TypeOK

LEMMA NextInv ==
  ASSUME HostInv, [Next]_vars
  PROVE  HostInv'
<1>1. TypeOK /\ Window /\ Evident /\ Untried /\ Unsent
  BY DEF HostInv
<1>2. ASSUME NEW Q, Moved(Q), UNCHANGED <<queue, delivery, kills>>,
             \A m \in Message : <<"presented", m>> \notin Q /\ <<"submit", m>> \notin Q
      PROVE  HostInv'
  <2>1. DeliveryTypeOK' /\ Window' /\ Evident'
    BY <1>1, <1>2, DeliveryKeeps
  <2>2. QueueTypeOK' /\ Untried' /\ Unsent'
    BY <1>1, <1>2, QueueKeeps
  <2> QED
    BY <1>1, <1>2, <2>1, <2>2, HubTyped DEF HostInv, TypeOK
<1>3. CASE HubStep /\ UNCHANGED <<queue, delivery, kills>>
  BY <1>1, <1>2, <1>3, HubStepMoves DEF TypeOK
<1>4. CASE QueueStep /\ UNCHANGED <<delivery, kills>>
  <2>1. QueueTypeOK' /\ Untried' /\ Unsent'
    BY <1>1, <1>4, QueueStepOK DEF QueueOK
  <2>2. PICK Q : Moved(Q) /\ \A m \in Message : <<"presented", m>> \notin Q
    BY <1>1, <1>4, QueueStepOK DEF QueueOK
  <2>3. DeliveryTypeOK' /\ Window' /\ Evident'
    BY <1>1, <1>4, <2>2, DeliveryKeeps
  <2> QED
    BY <1>1, <1>4, <2>1, <2>2, <2>3, HubTyped DEF HostInv, TypeOK
<1>5. CASE DeliveryStep /\ UNCHANGED <<queue, kills>>
  <2>1. DeliveryTypeOK' /\ Window' /\ Evident'
    BY <1>1, <1>5, DeliveryStepOK DEF DeliveryOK
  <2>2. PICK Q : Moved(Q) /\ \A m \in Message : <<"submit", m>> \notin Q
    BY <1>1, <1>5, DeliveryStepOK DEF DeliveryOK
  <2>3. QueueTypeOK' /\ Untried' /\ Unsent'
    BY <1>1, <1>5, <2>2, QueueKeeps
  <2> QED
    BY <1>1, <1>5, <2>1, <2>2, <2>3, HubTyped DEF HostInv, TypeOK
<1>6. CASE Kill
  BY <1>6, KillOK
<1>7. CASE UNCHANGED vars
  <2>1. Moved({}) /\ UNCHANGED <<queue, delivery, kills>>
    BY <1>1, <1>7, UnchangedMoves DEF vars, hub, TypeOK
  <2> QED
    BY <1>2, <2>1
<1> QED
  BY <1>3, <1>4, <1>5, <1>6, <1>7 DEF Next

(* The inductive invariant holds in every state the host reaches.           *)
THEOREM Invariant == Spec => []HostInv
<1>1. Init => HostInv
  BY InitInv
<1>2. HostInv /\ [Next]_vars => HostInv'
  BY NextInv
<1> QED
  BY <1>1, <1>2, PTL DEF Spec

-----------------------------------------------------------------------------
(* What the host guarantees                                                 *)

(* The state of the hub's message, the queue and the journal is typed.      *)
THEOREM TypeCorrect == Spec => []TypeOK
<1>1. HostInv => TypeOK
  BY DEF HostInv
<1> QED
  BY <1>1, Invariant, PTL

(* A message is pasted at most once, whatever fails and whenever the host   *)
(* is killed, and only when the hub let it begin.                           *)
THEOREM PastedAtMostOnce == Spec => []PastedOnce
<1>1. HostInv => PastedOnce
  BY DEF HostInv, Window, PastedOnce
<1> QED
  BY <1>1, Invariant, PTL

(* A confirmed cancellation of a submission is final, also against calls    *)
(* that were given up and are served later.                                 *)
THEOREM TombstonesHold == Spec => []CancelledStaysOut
<1>1. HostInv => CancelledStaysOut
  BY DEF HostInv, Untried, Out, CancelledStaysOut
<1> QED
  BY <1>1, Invariant, PTL

(* Deferred work is submitted by at most one call of the worker, and never  *)
(* by a direct request as well.                                             *)
THEOREM WorkIsSubmittedOnce == Spec => []SubmittedOnce
<1>1. HostInv => SubmittedOnce
  BY DEF HostInv, Untried, Unsent, SubmittedOnce
<1> QED
  BY <1>1, Invariant, PTL

(* A row that says the hub committed the message is right.                  *)
THEOREM CommitsAreTrue == Spec => []CommittedIsThere
<1>1. HostInv => CommittedIsThere
  BY DEF HostInv, Unsent, CommittedIsThere
<1> QED
  BY <1>1, Invariant, PTL

(* The hub reports a message presented only when its agent has read or      *)
(* acknowledged it.                                                         *)
THEOREM PresentedIsRead == Spec => []PresentedWasRead
<1>1. HostInv => PresentedWasRead
  BY DEF HostInv, Evident, Read, PresentedWasRead
<1> QED
  BY <1>1, Invariant, PTL

-----------------------------------------------------------------------------
(* The refinement of DeliveryPromise                                        *)

Kept(m) == PhaseOf(m)' = PhaseOf(m) /\ pasted'[m] = pasted[m]
PromiseStep == [Promise!Next]_<<[m \in Message |-> PhaseOf(m)], pasted>>

LEMMA KeptStutters ==
  ASSUME TypeOK, TypeOK', \A m \in Message : Kept(m)
  PROVE  PromiseStep
<1>1. [m \in Message |-> PhaseOf(m)]' = [m \in Message |-> PhaseOf(m)]
  BY DEF Kept
<1>2. pasted' = pasted
  BY DEF Kept, TypeOK, DeliveryTypeOK
<1> QED
  BY <1>1, <1>2 DEF PromiseStep

(* One message moves, as the promise lets it.                               *)
LEMMA OneMoves ==
  ASSUME TypeOK, TypeOK', NEW n \in Message, \A m \in Message \ {n} : Kept(m),
         \/ Kept(n)
         \/ /\ pasted'[n] = pasted[n]
            /\ \/ PhaseOf(n) = "none" /\ PhaseOf(n)' = "open"
               \/ PhaseOf(n) = "open" /\ PhaseOf(n)' \in {"withdrawn", "closed"}
         \/ PhaseOf(n) = "open" /\ PhaseOf(n)' = "granted" /\ pasted'[n] = 1
  PROVE  PromiseStep
<1> DEFINE phase == [m \in Message |-> PhaseOf(m)]
<1>1. phase' = [phase EXCEPT ![n] = PhaseOf(n)']
  BY DEF Kept
<1>2. /\ pasted \in [Message -> Nat] /\ pasted' \in [Message -> Nat]
      /\ \A m \in Message \ {n} : pasted'[m] = pasted[m]
  BY DEF Kept, TypeOK, DeliveryTypeOK
<1>3. pasted' = [pasted EXCEPT ![n] = pasted'[n]]
  BY <1>2
<1>4. CASE Kept(n)
  BY <1>4, KeptStutters
<1>5. CASE pasted'[n] = pasted[n] /\ PhaseOf(n) = "none" /\ PhaseOf(n)' = "open"
  <2>1. Promise!Offer(n)
    BY <1>1, <1>2, <1>3, <1>5 DEF Promise!Offer, Promise!Move
  <2> QED
    BY <2>1 DEF PromiseStep, Promise!Next
<1>6. CASE /\ pasted'[n] = pasted[n] /\ PhaseOf(n) = "open"
           /\ PhaseOf(n)' = "withdrawn"
  <2>1. Promise!Withdraw(n)
    BY <1>1, <1>2, <1>3, <1>6 DEF Promise!Withdraw, Promise!Move
  <2> QED
    BY <2>1 DEF PromiseStep, Promise!Next
<1>7. CASE /\ pasted'[n] = pasted[n] /\ PhaseOf(n) = "open"
           /\ PhaseOf(n)' = "closed"
  <2>1. phase' = [m \in Message |-> IF m \in {n} THEN "closed" ELSE phase[m]]
    BY <1>7 DEF Kept
  <2>2. Promise!Close({n})
    BY <1>2, <1>3, <1>7, <2>1 DEF Promise!Close
  <2> QED
    BY <2>2 DEF PromiseStep, Promise!Next
<1>8. CASE PhaseOf(n) = "open" /\ PhaseOf(n)' = "granted" /\ pasted'[n] = 1
  <2>1. Promise!Grant(n)
    BY <1>1, <1>3, <1>8 DEF Promise!Grant, Promise!Move
  <2> QED
    BY <2>1 DEF PromiseStep, Promise!Next
<1> QED
  BY <1>4, <1>5, <1>6, <1>7, <1>8

(* The thread neither enters nor leaves an injection window, nor pastes.    *)
WindowKept == pasted' = pasted /\ \A m \in Message : InWindow(m)' <=> InWindow(m)

LEMMA KeptFrame ==
  ASSUME WindowKept, NEW m \in Message, state'[m] = state[m]
  PROVE  Kept(m)
  BY DEF WindowKept, Kept, PhaseOf

(* A request the hub serves while no window moves.                          *)
LEMMA ServedPromise ==
  ASSUME TypeOK, TypeOK', Window, NEW op \in Operation, NEW n \in Message,
         Serve(op, n), WindowKept
  PROVE  PromiseStep
<1>1. CASE ~ Accepted(op, n)
  <2>1. state' = state
    BY <1>1 DEF Serve
  <2> QED
    BY <2>1, KeptFrame, KeptStutters
<1>2. CASE Accepted(op, n)
  <2>1. state' = [state EXCEPT ![n] = Result(op)] /\ state[n] \in Accepts(op)
    BY <1>2 DEF Serve, Accepted
  <2>2. \A m \in Message \ {n} : Kept(m)
    BY <2>1, KeptFrame DEF TypeOK, HubTypeOK
  <2>3. state'[n] = Result(op) /\ pasted' = pasted /\ (InWindow(n)' <=> InWindow(n))
    BY <2>1 DEF TypeOK, HubTypeOK, WindowKept
  <2>4. /\ pasted[n] > 0 => state[n] \in Begun
        /\ InWindow(n) => state[n] \in Begun
        /\ pasted[n] \in Nat
    BY DEF Window, InWindow, TypeOK, DeliveryTypeOK
  <2>5. CASE op = "submit"
    <3>1. PhaseOf(n) = "none" /\ PhaseOf(n)' = "open"
      BY <2>1, <2>3, <2>4, <2>5 DEF PhaseOf, Accepts, Result, Begun
    <3> QED
      BY <2>2, <2>3, <3>1, OneMoves
  <2>6. CASE op # "submit"
    <3>1. /\ state[n] \in {"open"} \union Begun
          /\ state'[n] \in Begun
      BY <2>1, <2>3, <2>6 DEF Accepts, Result, Begun, Operation
    <3>2. CASE state[n] = "open"
      <4>1. PhaseOf(n) = "open" /\ PhaseOf(n)' = "closed"
        BY <2>3, <2>4, <3>1, <3>2 DEF PhaseOf, Begun
      <4> QED
        BY <2>2, <2>3, <4>1, OneMoves
    <3>3. CASE state[n] # "open"
      <4>1. Kept(n)
        BY <2>3, <3>1, <3>3 DEF Kept, PhaseOf, Begun
      <4> QED
        BY <2>2, <4>1, OneMoves
    <3> QED
      BY <3>2, <3>3
  <2> QED
    BY <2>5, <2>6
<1> QED
  BY <1>1, <1>2

LEMMA HubPromise ==
  ASSUME TypeOK, TypeOK', Window, HubStep, UNCHANGED <<tick, pasted>>
  PROVE  PromiseStep
<1>1. WindowKept
  BY DEF WindowKept, InWindow
<1>2. ASSUME NEW m \in Message, NEW op \in Operation, ServeLate(op, m)
      PROVE  PromiseStep
  BY <1>1, <1>2, ServedPromise DEF ServeLate
<1>3. ASSUME NEW n \in Message, Withdraw(n) PROVE PromiseStep
  <2>1. PICK s \in {"cancelled", "closed"} : state' = [state EXCEPT ![n] = s]
    BY <1>3 DEF Withdraw
  <2>2. state[n] = "open" /\ state'[n] = s
    BY <1>3, <2>1 DEF Withdraw, TypeOK, HubTypeOK
  <2>3. \A m \in Message \ {n} : Kept(m)
    BY <1>1, <2>1, KeptFrame DEF TypeOK, HubTypeOK
  <2>4. /\ pasted[n] \in Nat /\ ~ (pasted[n] > 0) /\ ~ InWindow(n)
        /\ pasted' = pasted /\ ~ InWindow(n)'
    BY <1>1, <2>2 DEF Window, InWindow, Begun, WindowKept, TypeOK, DeliveryTypeOK
  <2>5. PhaseOf(n) = "open" /\ PhaseOf(n)' \in {"withdrawn", "closed"}
    BY <2>2, <2>4 DEF PhaseOf
  <2> QED
    BY <2>3, <2>4, <2>5, OneMoves
<1> QED
  BY <1>2, <1>3 DEF HubStep

(* Steps that ask the hub for at most one thing, outside of any window.     *)
LEMMA AskPromise ==
  ASSUME TypeOK, TypeOK', Window, WindowKept,
         \/ state' = state
         \/ \E op \in Operation, m \in Message : Answered(op, m)
  PROVE  PromiseStep
<1>1. CASE state' = state
  BY <1>1, KeptFrame, KeptStutters
<1>2. CASE \E op \in Operation, m \in Message : Answered(op, m)
  BY <1>2, ServedPromise DEF Answered
<1> QED
  BY <1>1, <1>2

LEMMA QueuePromise ==
  ASSUME TypeOK, TypeOK', Window, QueueStep, UNCHANGED <<tick, pasted>>
  PROVE  PromiseStep
<1>1. WindowKept
  BY DEF WindowKept, InWindow
<1>2. "submit" \in Operation
  BY DEF Operation
<1>3. ASSUME NEW m \in Message, SubmitCall(m) PROVE PromiseStep
  BY <1>1, <1>2, <1>3, AskPromise DEF SubmitCall, GaveUp
<1>4. CASE WorkSubmit
  <2>1. worker.m \in Message
    BY <1>4, Working DEF WorkSubmit
  <2> QED
    BY <1>1, <1>2, <1>4, <2>1, AskPromise DEF WorkSubmit, GaveUp
<1>5. ASSUME NEW m \in Message,
             \/ Enqueue(m) \/ SubmitCheck(m) \/ SubmitJournal(m) \/ Reconcile(m)
             \/ CancelAsk(m) \/ CancelFence(m) \/ WorkClaim(m) \/ DeadlinePasses(m)
      PROVE  state' = state
  BY <1>5 DEF Enqueue, SubmitCheck, SubmitJournal, Reconcile, CancelAsk, CancelFence,
     WorkClaim, DeadlinePasses
<1>6. ASSUME WorkQuery \/ WorkQueryFails \/ WorkConfirm \/ Revoke PROVE state' = state
  BY <1>6 DEF WorkQuery, WorkQueryFails, WorkConfirm, Revoke
<1> QED
  BY <1>1, <1>3, <1>4, <1>5, <1>6, AskPromise DEF QueueStep

(* A thread that is in no window before and after a step.                   *)
LEMMA Outside ==
  ASSUME TypeOK, pasted' = pasted, tick.pc \notin {"journal", "paste"},
         tick'.pc \notin {"journal", "paste"}
  PROVE  WindowKept
  BY DEF WindowKept, InWindow

LEMMA TickPromise ==
  ASSUME TypeOK, TypeOK', Window,
         \/ TickClaim \/ TickEnd \/ TickWait \/ TickReceiptFails
         \/ TickGate \/ TickJournal \/ TickPaste \/ TickEnter \/ TickPasteFails
  PROVE  PromiseStep
<1>1. CASE TickClaim \/ TickEnd \/ TickWait \/ TickEnter \/ TickReceiptFails
  <2>1. /\ pasted' = pasted /\ tick.pc \notin {"journal", "paste"}
        /\ tick'.pc \notin {"journal", "paste"}
    BY <1>1 DEF TickClaim, TickEnd, TickWait, TickEnter, TickReceiptFails, Continue, Waiting
  <2>2. WindowKept
    BY <2>1, Outside
  <2>3. state' = state
    BY <1>1 DEF TickClaim, TickEnd, TickWait, TickEnter, TickReceiptFails, GaveUp
  <2> QED
    BY <2>2, <2>3, AskPromise
<1>2. CASE TickGate
  <2>1. tick.m \in Message /\ tick.pc = "begin_present" /\ pasted' = pasted
    BY <1>2, AtMessage DEF TickGate, TickStates
  <2>2. CASE /\ Continue \/ tick' = Waiting
             /\ state' = state
    <3>1. tick'.pc \notin {"journal", "paste"}
      BY <2>2 DEF Continue, Waiting
    <3>2. WindowKept
      BY <2>1, <3>1, Outside
    <3> QED
      BY <2>2, <3>2, AskPromise
  <2>3. CASE /\ Accepted("begin_present", tick.m) /\ Answered("begin_present", tick.m)
             /\ tick' = [tick EXCEPT !.pc = "journal"]
    <3>1. tick \in [pc : TickStates, todo : SUBSET Message, m : Message]
      BY <2>1, AtMessage DEF TickStates
    <3>2. tick'.pc = "journal" /\ tick'.m = tick.m
      BY <2>3, <3>1
    <3>3. /\ state[tick.m] = "open" /\ state'[tick.m] = "dispatching"
          /\ \A m \in Message \ {tick.m} : state'[m] = state[m]
      BY <2>1, <2>3
      DEF Accepted, Accepts, Answered, Serve, Result, TypeOK, HubTypeOK
    <3>4. \A m \in Message : ~ InWindow(m) /\ (InWindow(m)' <=> m = tick.m)
      BY <2>1, <3>2 DEF InWindow
    <3>5. ASSUME NEW m \in Message PROVE Kept(m)
      BY <2>1, <3>3, <3>4 DEF Kept, PhaseOf
    <3> QED
      BY <3>5, KeptStutters
  <2> QED
    BY <1>2, <2>2, <2>3 DEF TickGate, GaveUp
<1>3. CASE TickJournal
  <2>1. tick \in [pc : TickStates, todo : SUBSET Message, m : Message]
    BY <1>3, AtMessage DEF TickJournal, TickStates
  <2>2. /\ tick.pc = "journal" /\ tick'.pc = "paste" /\ tick'.m = tick.m
        /\ pasted' = pasted /\ state' = state
    BY <1>3, <2>1 DEF TickJournal
  <2>3. WindowKept
    BY <2>2 DEF WindowKept, InWindow
  <2> QED
    BY <2>2, <2>3, AskPromise
<1>4. CASE TickPaste
  <2>1. tick \in [pc : TickStates, todo : SUBSET Message, m : Message] /\ tick.m \in Message
    BY <1>4, AtMessage DEF TickPaste, TickStates
  <2>0. PICK n \in Message : n = tick.m
    BY <2>1
  <2>2. tick.pc = "paste" /\ tick'.pc = "enter" /\ state' = state
    BY <1>4, <2>1 DEF TickPaste
  <2>3. pasted[n] = 0 /\ state[n] \in Begun
    BY <2>0, <2>2 DEF Window
  <2>4. /\ pasted'[n] = 1
        /\ \A m \in Message \ {n} : pasted'[m] = pasted[m]
    BY <1>4, <2>0, <2>1, <2>3 DEF TickPaste, TypeOK, DeliveryTypeOK
  <2>5. \A m \in Message : (InWindow(m) <=> m = n) /\ ~ InWindow(m)'
    BY <2>0, <2>2 DEF InWindow
  <2>6. \A m \in Message \ {n} : Kept(m)
    BY <2>2, <2>4, <2>5 DEF Kept, PhaseOf
  <2>7. PhaseOf(n) = "open" /\ PhaseOf(n)' = "granted"
    BY <2>0, <2>1, <2>3, <2>4, <2>5 DEF PhaseOf, Begun
  <2> QED
    BY <2>0, <2>1, <2>4, <2>6, <2>7, OneMoves
<1>5. CASE TickPasteFails
  <2>1. /\ tick.m \in Message /\ tick.pc \in {"paste", "enter"}
        /\ tick'.pc = "next" /\ pasted' = pasted /\ state' = state
    BY <1>5, AtMessage DEF TickPasteFails, Continue, TickStates
  <2>0. PICK n \in Message : n = tick.m
    BY <2>1
  <2>2. \A m \in Message : /\ InWindow(m) <=> (tick.pc = "paste" /\ m = n)
                           /\ ~ InWindow(m)'
    BY <2>0, <2>1 DEF InWindow
  <2>3. \A m \in Message \ {n} : Kept(m)
    BY <2>1, <2>2 DEF Kept, PhaseOf
  <2>4. CASE tick.pc = "enter"
    <3>1. Kept(n)
      BY <2>1, <2>2, <2>4 DEF Kept, PhaseOf
    <3> QED
      BY <2>0, <2>1, <2>3, <3>1, OneMoves
  <2>5. CASE tick.pc = "paste"
    <3>1. pasted[n] = 0 /\ state[n] \in Begun
      BY <2>0, <2>5 DEF Window
    <3>2. PhaseOf(n) = "open" /\ PhaseOf(n)' = "closed"
      BY <2>0, <2>1, <2>2, <2>5, <3>1 DEF PhaseOf, Begun
    <3> QED
      BY <2>0, <2>1, <2>3, <3>2, OneMoves
  <2> QED
    BY <2>1, <2>4, <2>5
<1> QED
  BY <1>1, <1>2, <1>3, <1>4, <1>5

LEMMA AgentPromise ==
  ASSUME TypeOK, TypeOK', Window, NEW m \in Message,
         \/ TickVisit(m) \/ Told("uncertain", m) \/ Told("presented", m)
         \/ AgentReads(m) \/ PromptReceipt(m) \/ Ack(m) \/ ReceiptCall(m)
  PROVE  PromiseStep
<1>1. "uncertain" \in Operation /\ "presented" \in Operation
  BY DEF Operation
<1>2. CASE TickVisit(m)
  <2>1. pasted' = pasted /\ state' = state /\ tick.pc = "next"
    BY <1>2 DEF TickVisit
  <2>2. tick'.pc \in {"next", "presented", "uncertain", "waiting", "begin_present"}
    <3>1. CASE \E pc \in {"presented", "uncertain", "waiting", "begin_present"} : At(pc, m)
      BY <3>1 DEF At
    <3>2. CASE tick' = [tick EXCEPT !.todo = @ \ {m}]
      BY <2>1, <3>2 DEF TypeOK, DeliveryTypeOK
    <3> QED
      BY <1>2, <3>1, <3>2
      DEF TickVisit, VisitEvidence, VisitJournaled, VisitDispatching, VisitReceived
  <2>3. WindowKept
    BY <2>1, <2>2, Outside
  <2> QED
    BY <2>1, <2>3, AskPromise
<1>3. CASE Told("uncertain", m) \/ Told("presented", m)
  <2>1. /\ pasted' = pasted /\ tick.pc \in {"uncertain", "presented"}
        /\ tick'.pc = "next"
    BY <1>3 DEF Told, Continue
  <2>2. WindowKept
    BY <2>1, Outside
  <2> QED
    BY <1>1, <1>3, <2>2, AskPromise DEF Told
<1>4. CASE AgentReads(m) \/ PromptReceipt(m) \/ Ack(m) \/ ReceiptCall(m)
  <2>1. WindowKept
    BY <1>4 DEF AgentReads, PromptReceipt, Ack, ReceiptCall, WindowKept, InWindow
  <2> QED
    BY <1>1, <1>4, <2>1, AskPromise DEF AgentReads, PromptReceipt, Ack, ReceiptCall, GaveUp
<1> QED
  BY <1>2, <1>3, <1>4

(* A kill in a window ends it, and with it the last chance to paste.        *)
LEMMA KillPromise ==
  ASSUME TypeOK, TypeOK', Window, Kill
  PROVE  PromiseStep
<1>1. tick' = Waiting /\ pasted' = pasted /\ state' = state
  BY DEF Kill, DeliveryRestart, LeftBehind, GaveUp
<1>2. \A m \in Message : ~ InWindow(m)'
  BY <1>1 DEF InWindow, Waiting
<1>3. CASE tick.pc \notin {"journal", "paste"}
  <2>1. WindowKept
    BY <1>1, <1>3, Outside DEF Waiting
  <2> QED
    BY <1>1, <2>1, AskPromise
<1>4. CASE tick.pc \in {"journal", "paste"}
  <2>1. tick.m \in Message
    BY <1>4, AtMessage DEF TickStates
  <2>0. PICK n \in Message : n = tick.m
    BY <2>1
  <2>2. pasted[n] = 0 /\ state[n] \in Begun
    BY <2>0, <1>4 DEF Window
  <2>3. \A m \in Message : InWindow(m) <=> m = n
    BY <2>0, <1>4 DEF InWindow
  <2>4. \A m \in Message \ {n} : Kept(m)
    BY <1>1, <1>2, <2>3 DEF Kept, PhaseOf
  <2>5. PhaseOf(n) = "open" /\ PhaseOf(n)' = "closed"
    BY <2>0, <1>1, <1>2, <2>1, <2>2, <2>3 DEF PhaseOf, Begun
  <2> QED
    BY <2>0, <1>1, <2>1, <2>4, <2>5, OneMoves
<1> QED
  BY <1>3, <1>4

LEMMA StepPromise ==
  ASSUME TypeOK, TypeOK', Window, [Next]_vars
  PROVE  PromiseStep
<1>1. CASE HubStep /\ UNCHANGED <<queue, delivery, kills>>
  BY <1>1, HubPromise DEF delivery
<1>2. CASE QueueStep /\ UNCHANGED <<delivery, kills>>
  BY <1>2, QueuePromise DEF delivery
<1>3. CASE DeliveryStep
  BY <1>3, TickPromise, AgentPromise DEF DeliveryStep
<1>4. CASE Kill
  BY <1>4, KillPromise
<1>5. CASE UNCHANGED vars
  <2>1. WindowKept /\ state' = state
    BY <1>5 DEF vars, hub, delivery, WindowKept, InWindow
  <2> QED
    BY <2>1, AskPromise
<1> QED
  BY <1>1, <1>2, <1>3, <1>4, <1>5 DEF Next

(* The host, its hub and the terminal implement DeliveryPromise: what the   *)
(* sender is promised of the mailbox holds of the agent's terminal, with a  *)
(* paste for a grant.                                                       *)
THEOREM TerminalKeepsPromise == Spec => PastedAsPromised
<1>1. Init => Promise!Init
  BY DEF Init, HubInit, DeliveryInit, Waiting, Promise!Init, PhaseOf
<1>2. TypeOK /\ TypeOK' /\ HostInv /\ [Next]_vars
        => [Promise!Next]_<<[m \in Message |-> PhaseOf(m)], pasted>>
  BY StepPromise DEF PromiseStep, HostInv
<1> QED
  BY <1>1, <1>2, TypeCorrect, Invariant, PTL
  DEF Spec, PastedAsPromised, Promise!Spec
=============================================================================
