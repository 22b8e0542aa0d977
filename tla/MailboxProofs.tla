---------------------------- MODULE MailboxProofs ----------------------------
(***************************************************************************)
(* Theorems about Mailbox for every set of endpoints and messages, any     *)
(* number of concurrent requests, crashes or not; where one needs a hub    *)
(* that is not killed or serves one request at a time, it says so.         *)
(***************************************************************************)
EXTENDS MailboxProps, FiniteSetTheorems, WellFoundedInduction, TLAPS

USE DEF epVars, choiceVars, workVars, grantVars

-----------------------------------------------------------------------------
(* Types *)

(* A handler that moves a stored message changes only its state. *)
LEMMA StateChange ==
  ASSUME TypeOK, NEW m \in Message, Exists(m), NEW s \in State \ {"absent"}
  PROVE  [msg[m] EXCEPT !.state = s] \in Rows
<1>1. msg[m] \in [state : State \ {"absent"}, from : Endpoint, to : Endpoint,
                  irt : Message \union {None}]
  BY DEF TypeOK, Rows, NoMessage, Exists
<1>2. QED
  BY <1>1 DEF Rows

LEMMA InitTypeOK == Init => TypeOK
<1> SUFFICES ASSUME Init PROVE TypeOK
  OBVIOUS
<1>1. /\ epState \in [Endpoint -> {"absent", "live", "retired"}]
      /\ fresh \subseteq Endpoint
      /\ msg \in [Message -> Rows]
  BY MailboxAssumption DEF Init, Rows
<1>2. owner \in [Message -> Owner] /\ reserved \in [Message -> Owner]
  BY DEF Init, NoOwner, Owner
<1>3. QED
  BY <1>1, <1>2, MailboxAssumption DEF Init, TypeOK, NoWork

(* Endpoint steps keep the types. *)
LEMMA EndpointTypeOK == TypeOK /\ EndpointStep => TypeOK'
<1> SUFFICES ASSUME TypeOK, NEW e \in Endpoint,
                    \/ RegisterCheck(e) \/ RegisterWrite(e)
                    \/ HeartbeatLapse(e) \/ AttestCheck(e) \/ AttestWrite(e)
                    \/ RetireMark(e) \/ RetireSweep(e)
                    \/ RecipientObserve(e) \/ ObservationLapse(e)
                    \/ \E new \in Endpoint : NativeHandoff(e, new)
             PROVE  TypeOK'
  BY DEF EndpointStep
<1>1. CASE RegisterCheck(e)
  BY <1>1 DEF RegisterCheck, TypeOK, Call, Ops
<1>2. CASE RegisterWrite(e)
  BY <1>2 DEF RegisterWrite, TypeOK, Call
<1>3. CASE HeartbeatLapse(e)
  BY <1>3 DEF HeartbeatLapse, TypeOK
<1>4. CASE AttestCheck(e)
  BY <1>4 DEF AttestCheck, TypeOK, Call, Ops
<1>5. CASE AttestWrite(e)
  BY <1>5 DEF AttestWrite, TypeOK, Call
<1>6. CASE RetireMark(e)
  BY <1>6 DEF RetireMark, TypeOK, Call, Ops
<1>7. CASE RetireSweep(e)
  <2>1. ASSUME NEW m \in Swept(e)
        PROVE  [msg[m] EXCEPT !.state = "stale_session"] \in Rows
    BY StateChange DEF Swept, Waiting, Exists, Pending, State, Terminal
  <2>2. msg' \in [Message -> Rows]
    BY <1>7, <2>1 DEF RetireSweep, TypeOK
  <2>3. QED
    BY <1>7, <2>2 DEF RetireSweep, TypeOK
<1>8. CASE RecipientObserve(e)
  BY <1>8 DEF RecipientObserve, TypeOK
<1>9. CASE ObservationLapse(e)
  BY <1>9 DEF ObservationLapse, TypeOK
<1>10. ASSUME NEW new \in Endpoint, NativeHandoff(e, new) PROVE TypeOK'
  <2>1. owner' \in [Message -> Owner]
    BY <1>10 DEF NativeHandoff, TypeOK, NextOwner, Owner
  <2>2. QED
    BY <1>10, <2>1 DEF NativeHandoff, TypeOK
<1>11. QED
  BY <1>1, <1>2, <1>3, <1>4, <1>5, <1>6, <1>7, <1>8, <1>9, <1>10

LEMMA ChoiceTypeOK == TypeOK /\ ChoiceStep => TypeOK'
  BY MailboxAssumption DEF ChoiceStep, RecipientChoose, TypeOK

(* A new row takes its endpoints and its original from the request. *)
LEMMA InsertTypeOK ==
  ASSUME TypeOK, NEW m \in Message, NEW s \in Endpoint, NEW e \in Endpoint,
         NEW o \in Message \union {None}, Insert(m, s, e, o)
  PROVE  TypeOK'
  BY DEF Insert, TypeOK, State, Pending, Rows

(* Whoever receives is an endpoint. *)
LEMMA RecipientTypes ==
  ASSUME TypeOK, NEW p \in Party
  PROVE  NewMessageRecipient(p) \subseteq Endpoint
  BY DEF TypeOK, NewMessageRecipient, EndpointForSend, SelectedEndpoint,
         NativeSuccessor, LiveOf

LEMMA ReplyEndpointTypes ==
  ASSUME TypeOK, NEW h \in Endpoint
  PROVE  ReplyEndpoint(h) \subseteq Endpoint
  BY DEF TypeOK, ReplyEndpoint, EndpointForSend, NativeSuccessor, LiveOf

LEMMA MessageTypeOK == TypeOK /\ MessageStep => TypeOK'
<1> SUFFICES ASSUME TypeOK, MessageStep PROVE TypeOK'
  OBVIOUS
<1>1. ASSUME NEW e \in Endpoint, Claim(e) PROVE TypeOK'
  <2>1. ASSUME NEW m \in Claimable(e)
        PROVE  [msg[m] EXCEPT !.state = "adapter_received"] \in Rows
    BY StateChange DEF Claimable, Waiting, Exists, Pending, State
  <2>2. msg' \in [Message -> Rows]
    BY <1>1, <2>1 DEF Claim, TypeOK
  <2>3. QED
    BY <1>1, <2>2 DEF Claim, TypeOK
<1>2. ASSUME NEW m \in Message, TtlElapses(m) PROVE TypeOK'
  BY <1>2 DEF TtlElapses, TypeOK
<1>3. ASSUME NEW m \in Message, LeaseLapses(m) PROVE TypeOK'
  <2> DEFINE W == [claim : Token \union {None}, leased : BOOLEAN,
                   reply : Message \union {None}]
  <2>1. work \in [Message -> W] /\ work[m] \in W
    BY DEF TypeOK
  <2>2. [work[m] EXCEPT !.leased = FALSE] \in W
    BY <2>1
  <2>3. work' \in [Message -> W]
    BY <1>3, <2>1, <2>2 DEF LeaseLapses, SetWork
  <2>4. QED
    BY <1>3, <2>3 DEF LeaseLapses, SetWork, TypeOK
<1>4. ASSUME NEW m \in Message, NEW s \in Endpoint, NEW p \in Party,
             Submit(m, s, p)
      PROVE  TypeOK'
  BY <1>4, RecipientTypes, InsertTypeOK DEF Submit
<1>5. ASSUME NEW m \in Message, NEW s \in Endpoint, NEW o \in Message,
             SubmitReply(m, s, o)
      PROVE  TypeOK'
  <2>1. PICK e \in ReplyEndpoint(msg[o].from) : Insert(m, s, e, o)
    BY <1>5 DEF SubmitReply
  <2>2. msg[o].from \in Endpoint
    BY <1>5 DEF SubmitReply, Exists, TypeOK, Rows, NoMessage
  <2>3. QED
    BY <2>1, <2>2, ReplyEndpointTypes, InsertTypeOK
<1>6. ASSUME NEW m \in Message, NEW e \in Endpoint, NEW native \in BOOLEAN,
             BeginPresent(m, e, native)
      PROVE  TypeOK'
  <2>1. msg' \in [Message -> Rows]
    BY <1>6, StateChange DEF BeginPresent, State, TypeOK
  <2>2. reserved' \in [Message -> Owner]
    BY <1>6 DEF BeginPresent, TypeOK
  <2>3. begun' \in [Message -> Nat]
    BY <1>6 DEF BeginPresent, TypeOK
  <2>4. QED
    BY <1>6, <2>1, <2>2, <2>3 DEF BeginPresent, TypeOK
<1>7. ASSUME NEW m \in Message, NEW e \in Endpoint,
             NEW s \in Reports \intersect Outcomes, Receipt(m, e, s)
      PROVE  TypeOK'
  <2>1. s \in State \ {"absent"}
    BY DEF Outcomes, State, Terminal
  <2>2. msg' \in [Message -> Rows]
    BY <1>7, <2>1, StateChange DEF Receipt, TypeOK
  <2>3. QED
    BY <1>7, <2>1, <2>2 DEF Receipt, TypeOK
<1>8. ASSUME NEW m \in Message, NEW e \in Endpoint, Cancel(m, e)
      PROVE  TypeOK'
  <2>1. msg' \in [Message -> Rows]
    BY <1>8, StateChange DEF Cancel, State, Terminal, Waiting, Exists, Pending,
       TypeOK
  <2>2. QED
    BY <1>8, <2>1 DEF Cancel, TypeOK
<1>9. ASSUME NEW m \in Message, NEW e \in Endpoint, StatusCheck(m, e)
      PROVE  TypeOK'
  BY <1>9 DEF StatusCheck, TypeOK, Call, Ops, Waiting
<1>10. ASSUME NEW m \in Message, NEW e \in Endpoint, StatusWrite(m, e)
       PROVE  TypeOK'
  <2>1. PICK c \in inflight : c.op = "status" /\ c.msg = m /\ c.ep = e
                             /\ inflight' = inflight \ {c}
                             /\ receipts' = [receipts EXCEPT ![m] = c.seen]
    BY <1>10 DEF StatusWrite
  <2>2. c.seen \in State \union {"none"}
    BY <1>10, <2>1 DEF StatusWrite, TypeOK, Ops, State
  <2>3. QED
    BY <1>10, <2>1, <2>2 DEF StatusWrite, TypeOK
<1>11. QED
  BY <1>1, <1>2, <1>3, <1>4, <1>5, <1>6, <1>7, <1>8, <1>9, <1>10
  DEF MessageStep

LEMMA WorkTypeOK == TypeOK /\ WorkStep => TypeOK'
<1> SUFFICES ASSUME TypeOK, WorkStep PROVE TypeOK'
  OBVIOUS
<1>0. PICK m \in Message, e \in Endpoint, t \in Token :
        \/ WorkClaim(m, e, t)
        \/ \E r \in Answer : WorkPrepareReply(m, e, t, r)
        \/ ReceiveFinish(m, e, t)
  BY DEF WorkStep
<1>1. CASE WorkClaim(m, e, t)
  <2> DEFINE W == [claim : Token \union {None}, leased : BOOLEAN,
                   reply : Message \union {None}]
  <2>1. work \in [Message -> W] /\ work[m] \in W
    BY DEF TypeOK
  <2>2. [work[m] EXCEPT !.claim = t, !.leased = TRUE] \in W
    BY <2>1
  <2>3. work' \in [Message -> W]
    BY <1>1, <2>1, <2>2 DEF WorkClaim, SetWork
  <2>4. QED
    BY <1>1, <2>3 DEF WorkClaim, SetWork, TypeOK
<1>2. ASSUME NEW r \in Answer, WorkPrepareReply(m, e, t, r) PROVE TypeOK'
  BY <1>2, MailboxAssumption DEF WorkPrepareReply, SetWork, TypeOK
<1>3. CASE ReceiveFinish(m, e, t)
  BY <1>3 DEF ReceiveFinish, TypeOK
<1>4. QED
  BY <1>0, <1>1, <1>2, <1>3

LEMMA StepTypeOK == TypeOK /\ [Next]_vars => TypeOK'
<1> SUFFICES ASSUME TypeOK, [Next]_vars PROVE TypeOK'
  OBVIOUS
<1>1. ASSUME NEW to \in Modes, Maintenance(to) PROVE TypeOK'
  BY <1>1 DEF Maintenance, TypeOK
<1>2. CASE HubCrash
  BY <1>2 DEF HubCrash, TypeOK
<1>3. CASE UNCHANGED vars
  BY <1>3 DEF vars, TypeOK
<1>4. QED
  BY <1>1, <1>2, <1>3, EndpointTypeOK, ChoiceTypeOK, MessageTypeOK,
     WorkTypeOK DEF Next

(* Every table keeps its types, whatever requests are served. *)
THEOREM TypeCorrect == Spec => []TypeOK
  BY InitTypeOK, StepTypeOK, PTL DEF Spec

-----------------------------------------------------------------------------
(* At most one presentation, and by whom *)

(* A message nobody was granted: not stored, still waiting, or cancelled. *)
Ungranted(m) == ~ Exists(m) \/ Waiting(m) \/ msg[m].state = "cancelled"

(* The inductive invariant: begin_present, the receipts and the hand-offs   *)
(* agree about every single message.                                        *)
GrantOf(m) ==
  /\ Ungranted(m) => /\ begun[m] = 0
                     /\ receipts[m] \in Pending \union {"none"}
  /\ receipts[m] = "presented" => msg[m].state = "presented"
  /\ begun[m] <= 1
  /\ begun[m] > 0 => presenter[m] = DeliveryActor(m)
  /\ reserved[m].actor # None => reserved[m] = owner[m] /\ begun[m] > 0

GrantInv == \A m \in Message : GrantOf(m)

(* What GrantOf reads about one message. *)
LEMMA GrantFrame ==
  ASSUME NEW m \in Message, GrantOf(m),
         msg'[m] = msg[m], owner'[m] = owner[m], reserved'[m] = reserved[m],
         receipts'[m] = receipts[m], begun'[m] = begun[m],
         presenter'[m] = presenter[m]
  PROVE  GrantOf(m)'
  BY DEF GrantOf, Ungranted, Exists, Waiting, DeliveryActor

LEMMA InitGrant == Init => GrantInv
  BY DEF Init, GrantInv, GrantOf, NoOwner

LEMMA EndpointGrant == TypeOK /\ GrantInv /\ EndpointStep => GrantInv'
<1> SUFFICES ASSUME TypeOK, GrantInv, NEW e \in Endpoint, NEW m \in Message,
                    \/ RegisterCheck(e) \/ RegisterWrite(e)
                    \/ HeartbeatLapse(e) \/ AttestCheck(e) \/ AttestWrite(e)
                    \/ RetireMark(e) \/ RetireSweep(e)
                    \/ RecipientObserve(e) \/ ObservationLapse(e)
                    \/ \E new \in Endpoint : NativeHandoff(e, new)
             PROVE  GrantOf(m)'
  BY DEF EndpointStep, GrantInv
<1> USE DEF GrantInv
<1>1. CASE \/ RegisterCheck(e) \/ RegisterWrite(e) \/ HeartbeatLapse(e)
           \/ AttestCheck(e) \/ AttestWrite(e) \/ RetireMark(e)
           \/ RecipientObserve(e) \/ ObservationLapse(e)
  BY <1>1, GrantFrame
  DEF RegisterCheck, RegisterWrite, HeartbeatLapse, AttestCheck, AttestWrite,
      RetireMark, RecipientObserve, ObservationLapse
<1>2. CASE RetireSweep(e)
  <2>1. CASE m \in Swept(e)
    <3>1. msg'[m] = [msg[m] EXCEPT !.state = "stale_session"]
      BY <1>2, <2>1 DEF RetireSweep
    <3>2. msg'[m].state = "stale_session" /\ msg'[m].to = msg[m].to
      BY <3>1, <2>1 DEF TypeOK, Rows, NoMessage
    <3>3. QED
      BY <1>2, <2>1, <3>2 DEF RetireSweep, Swept, GrantOf, Ungranted, Exists,
         Waiting, Pending, DeliveryActor
  <2>2. CASE m \notin Swept(e)
    BY <1>2, <2>2, GrantFrame DEF RetireSweep
  <2>3. QED
    BY <2>1, <2>2
<1>3. ASSUME NEW new \in Endpoint, NativeHandoff(e, new) PROVE GrantOf(m)'
  <2>1. CASE m \in Inherited(e)
    <3>1. Waiting(m)
      BY <2>1 DEF Inherited
    <3>2. begun[m] = 0 /\ reserved[m].actor = None
      BY <3>1 DEF GrantOf, Ungranted, TypeOK
    <3>3. QED
      BY <1>3, <3>1, <3>2 DEF NativeHandoff, GrantOf, Ungranted, Exists,
         Waiting
  <2>2. CASE m \notin Inherited(e)
    BY <1>3, <2>2, GrantFrame DEF NativeHandoff
  <2>3. QED
    BY <2>1, <2>2
<1>4. QED
  BY <1>1, <1>2, <1>3

LEMMA MessageGrant == TypeOK /\ GrantInv /\ MessageStep => GrantInv'
<1> SUFFICES ASSUME TypeOK, GrantInv, MessageStep, NEW m \in Message
             PROVE  GrantOf(m)'
  BY DEF GrantInv
<1> USE DEF GrantInv
<1>1. ASSUME NEW e \in Endpoint, Claim(e) PROVE GrantOf(m)'
  <2>1. CASE m \in Claimable(e)
    <3>1. msg'[m] = [msg[m] EXCEPT !.state = "adapter_received"]
      BY <1>1, <2>1 DEF Claim
    <3>2. /\ msg'[m].state = "adapter_received" /\ msg'[m].to = msg[m].to
          /\ Waiting(m)
      BY <3>1, <2>1 DEF TypeOK, Rows, NoMessage, Claimable
    <3>3. QED
      BY <1>1, <3>2 DEF Claim, GrantOf, Ungranted, Exists, Waiting, Pending,
         DeliveryActor
  <2>2. CASE m \notin Claimable(e)
    BY <1>1, <2>2, GrantFrame DEF Claim
  <2>3. QED
    BY <2>1, <2>2
<1>2. ASSUME NEW n \in Message, TtlElapses(n) \/ LeaseLapses(n)
      PROVE  GrantOf(m)'
  BY <1>2, GrantFrame DEF TtlElapses, LeaseLapses, SetWork
<1>3. ASSUME NEW n \in Message, NEW s \in Endpoint, NEW x \in Endpoint,
             NEW o \in Message \union {None}, ~ Exists(n), Insert(n, s, x, o)
      PROVE  GrantOf(m)'
  <2>1. CASE m = n
    <3>1. msg'[m].state = "accepted"
      BY <1>3, <2>1 DEF Insert, TypeOK
    <3>2. QED
      BY <1>3, <2>1, <3>1 DEF Insert, GrantOf, Ungranted, TypeOK, Pending
  <2>2. CASE m # n
    BY <1>3, <2>2, GrantFrame DEF Insert
  <2>3. QED
    BY <2>1, <2>2
<1>4. ASSUME NEW n \in Message, NEW s \in Endpoint, NEW p \in Party,
             Submit(n, s, p)
      PROVE  GrantOf(m)'
  BY <1>3, <1>4, RecipientTypes DEF Submit
<1>5. ASSUME NEW n \in Message, NEW s \in Endpoint, NEW o \in Message,
             SubmitReply(n, s, o)
      PROVE  GrantOf(m)'
  <2>1. msg[o].from \in Endpoint
    BY <1>5 DEF SubmitReply, Exists, TypeOK, Rows, NoMessage
  <2>2. QED
    BY <1>3, <1>5, <2>1, ReplyEndpointTypes DEF SubmitReply
<1>6. ASSUME NEW n \in Message, NEW e \in Endpoint, NEW native \in BOOLEAN,
             BeginPresent(n, e, native)
      PROVE  GrantOf(m)'
  <2>1. CASE m = n
    <3>0. receipts'[m] # "presented"
      BY <1>6, <2>1 DEF BeginPresent, GrantOf, Ungranted, Pending
    <3>1. begun[m] = 0 /\ reserved[m].actor = None
      BY <1>6, <2>1 DEF BeginPresent, GrantOf, Ungranted, TypeOK
    <3>2. msg'[m].state = "dispatching" /\ msg'[m].to = msg[m].to
      BY <1>6, <2>1 DEF BeginPresent, TypeOK, Rows, NoMessage
    <3>3. DeliveryActor(m)' = e
      BY <1>6, <2>1, <3>2 DEF BeginPresent, MayPresent, DeliveryActor
    <3>4. begun'[m] = 1 /\ presenter'[m] = e
      BY <1>6, <2>1, <3>1 DEF BeginPresent, TypeOK
    <3>5. reserved'[m].actor # None => reserved'[m] = owner'[m]
      BY <1>6, <2>1, <3>1 DEF BeginPresent, TypeOK
    <3>6. QED
      BY <3>0, <3>2, <3>3, <3>4, <3>5
      DEF GrantOf, Ungranted, Exists, Waiting, Pending
  <2>2. CASE m # n
    BY <1>6, <2>2, GrantFrame DEF BeginPresent, TypeOK
  <2>3. QED
    BY <2>1, <2>2
<1>7. ASSUME NEW n \in Message, NEW e \in Endpoint,
             NEW s \in Reports \intersect Outcomes, Receipt(n, e, s)
      PROVE  GrantOf(m)'
  <2>1. CASE m = n
    <3>1. msg'[m].state = s /\ msg'[m].to = msg[m].to
      BY <1>7, <2>1 DEF Receipt, TypeOK, Rows, NoMessage
    <3>2. ~ Ungranted(m)'
      BY <3>1 DEF Ungranted, Exists, Waiting, Pending, Outcomes
    <3>3. QED
      BY <1>7, <2>1, <3>1, <3>2 DEF Receipt, GrantOf, DeliveryActor, TypeOK
  <2>2. CASE m # n
    BY <1>7, <2>2, GrantFrame DEF Receipt, TypeOK
  <2>3. QED
    BY <2>1, <2>2
<1>8. ASSUME NEW n \in Message, NEW e \in Endpoint, Cancel(n, e)
      PROVE  GrantOf(m)'
  <2>1. CASE m = n
    <3>1. msg'[m].to = msg[m].to
      BY <1>8, <2>1 DEF Cancel, TypeOK, Rows, NoMessage
    <3>2. QED
      BY <1>8, <2>1, <3>1
      DEF Cancel, GrantOf, Ungranted, Waiting, Pending, DeliveryActor
  <2>2. CASE m # n
    BY <1>8, <2>2, GrantFrame DEF Cancel, TypeOK
  <2>3. QED
    BY <2>1, <2>2
<1>9. ASSUME NEW n \in Message, NEW e \in Endpoint, StatusCheck(n, e)
      PROVE  GrantOf(m)'
  BY <1>9, GrantFrame DEF StatusCheck
<1>10. ASSUME NEW n \in Message, NEW e \in Endpoint, StatusWrite(n, e)
       PROVE  GrantOf(m)'
  <2>1. PICK c \in inflight : c.op = "status" /\ c.msg = n /\ c.ep = e
                             /\ receipts' = [receipts EXCEPT ![n] = c.seen]
    BY <1>10 DEF StatusWrite
  <2>2. c.seen \in Pending
    BY <2>1 DEF TypeOK, Ops
  <2>3. receipts'[m] = receipts[m] \/ receipts'[m] \in Pending
    BY <2>1, <2>2 DEF TypeOK
  <2>4. QED
    BY <1>10, <2>3 DEF StatusWrite, GrantOf, Ungranted, Exists, Waiting,
       Pending, DeliveryActor
<1>11. QED
  BY <1>1, <1>2, <1>4, <1>5, <1>6, <1>7, <1>8, <1>9, <1>10 DEF MessageStep

(* Choices, claimed work, maintenance and crashes leave deliveries alone. *)
LEMMA OtherSteps ==
  ASSUME [Next]_vars, ~ EndpointStep, ~ MessageStep
  PROVE  UNCHANGED <<msg, owner, reserved, receipts, begun, presenter>>
<1>1. CASE ChoiceStep
  BY <1>1 DEF ChoiceStep, RecipientChoose
<1>2. CASE WorkStep
  BY <1>2 DEF WorkStep, WorkClaim, WorkPrepareReply, ReceiveFinish, SetWork
<1>3. CASE (\E to \in Modes : Maintenance(to)) \/ HubCrash
  BY <1>3 DEF Maintenance, HubCrash
<1>4. CASE UNCHANGED vars
  BY <1>4 DEF vars
<1>5. QED
  BY <1>1, <1>2, <1>3, <1>4 DEF Next

LEMMA StepGrant == TypeOK /\ GrantInv /\ [Next]_vars => GrantInv'
<1> SUFFICES ASSUME TypeOK, GrantInv, [Next]_vars,
                    ~ EndpointStep, ~ MessageStep, NEW m \in Message
             PROVE  GrantOf(m)'
  BY EndpointGrant, MessageGrant DEF GrantInv
<1>1. UNCHANGED <<msg, owner, reserved, receipts, begun, presenter>>
  BY OtherSteps
<1>2. QED
  BY <1>1, GrantFrame DEF GrantInv

THEOREM GrantsInvariant == Spec => []GrantInv
  BY InitTypeOK, StepTypeOK, InitGrant, StepGrant, PTL DEF Spec

(* begin_present: no message is handed to an adapter twice. *)
THEOREM AtMostOnce == Spec => []PresentedAtMostOnce
<1>1. GrantInv => PresentedAtMostOnce
  BY DEF GrantInv, GrantOf, PresentedAtMostOnce
<1>2. QED
  BY <1>1, GrantsInvariant, PTL

(* cancel: what the sender was told stays true. *)
THEOREM CancelHolds == Spec => []CancelledNeverShown
<1>1. GrantInv => CancelledNeverShown
  BY DEF GrantInv, GrantOf, Ungranted, CancelledNeverShown, Pending
<1>2. QED
  BY <1>1, GrantsInvariant, PTL

(* _handoff_native_delivery: hand-offs leave begun presentations alone. *)
THEOREM PresenterStaysActor == Spec => []PresenterIsActor
<1>1. GrantInv => PresenterIsActor
  BY DEF GrantInv, GrantOf, PresenterIsActor
<1>2. QED
  BY <1>1, GrantsInvariant, PTL

(* begin_present: a reservation never goes stale. *)
THEOREM ReservationStays == Spec => []ReservationCurrent
<1>1. GrantInv => ReservationCurrent
  BY DEF GrantInv, GrantOf, ReservationCurrent
<1>2. QED
  BY <1>1, GrantsInvariant, PTL

-----------------------------------------------------------------------------
(* The hub implements DeliveryPromise *)

(* A step that changes neither phase nor grants of any message. *)
Kept(m) == PhaseOf(m)' = PhaseOf(m) /\ begun'[m] = begun[m]

LEMMA KeptFrame ==
  ASSUME NEW m \in Message, msg'[m].state = msg[m].state,
         begun'[m] = begun[m]
  PROVE  Kept(m)
  BY DEF Kept, PhaseOf, Exists, Waiting

LEMMA KeptStutters ==
  ASSUME TypeOK, TypeOK', \A m \in Message : Kept(m)
  PROVE  UNCHANGED <<[m \in Message |-> PhaseOf(m)], begun>>
<1>1. [m \in Message |-> PhaseOf(m)]' = [m \in Message |-> PhaseOf(m)]
  BY DEF Kept
<1>2. begun' = begun
  BY DEF Kept, TypeOK
<1>3. QED
  BY <1>1, <1>2

(* Only n moves, and nothing is granted. *)
MovedOnly(n, before, after) ==
  /\ PhaseOf(n) = before /\ PhaseOf(n)' = after
  /\ begun'[n] = begun[n]
  /\ \A m \in Message \ {n} : Kept(m)

LEMMA MovedMoves ==
  ASSUME TypeOK, TypeOK', NEW n \in Message, NEW before, NEW after,
         MovedOnly(n, before, after)
  PROVE  Promise!Move(n, before, after) /\ UNCHANGED begun
<1>1. [m \in Message |-> PhaseOf(m)]'
        = [[m \in Message |-> PhaseOf(m)] EXCEPT ![n] = after]
  BY DEF MovedOnly, Kept
<1>2. begun' = begun
  BY DEF MovedOnly, Kept, TypeOK
<1>3. QED
  BY <1>1, <1>2 DEF MovedOnly, Promise!Move

PromiseStep == [Promise!Next]_<<[m \in Message |-> PhaseOf(m)], begun>>

LEMMA ClosedTogether ==
  ASSUME TypeOK, TypeOK', NEW S \in SUBSET Message, begun' = begun,
         \A m \in S : PhaseOf(m) = "open" /\ PhaseOf(m)' = "closed",
         \A m \in Message \ S : Kept(m)
  PROVE  PromiseStep
<1>1. [m \in Message |-> PhaseOf(m)]'
        = [m \in Message |-> IF m \in S THEN "closed"
                             ELSE [k \in Message |-> PhaseOf(k)][m]]
  BY DEF Kept
<1>2. Promise!Close(S)
  BY <1>1 DEF Promise!Close
<1>3. QED
  BY <1>2 DEF PromiseStep, Promise!Next

LEMMA EndpointPromise ==
  TypeOK /\ TypeOK' /\ GrantInv /\ EndpointStep => PromiseStep
<1> SUFFICES ASSUME TypeOK, TypeOK', GrantInv, NEW e \in Endpoint,
                    \/ RegisterCheck(e) \/ RegisterWrite(e)
                    \/ HeartbeatLapse(e) \/ AttestCheck(e) \/ AttestWrite(e)
                    \/ RetireMark(e) \/ RetireSweep(e)
                    \/ RecipientObserve(e) \/ ObservationLapse(e)
                    \/ \E new \in Endpoint : NativeHandoff(e, new)
             PROVE  PromiseStep
  BY DEF EndpointStep
<1>1. CASE RetireSweep(e)
  <2>1. begun' = begun
    BY <1>1 DEF RetireSweep
  <2>2. ASSUME NEW m \in Swept(e)
        PROVE  PhaseOf(m) = "open" /\ PhaseOf(m)' = "closed"
    <3>1. begun[m] = 0
      BY DEF GrantInv, GrantOf, Ungranted, Swept
    <3>2. msg'[m].state = "stale_session"
      BY <1>1 DEF RetireSweep, Swept, TypeOK, Rows, NoMessage
    <3>3. QED
      BY <2>1, <3>1, <3>2 DEF PhaseOf, Exists, Waiting, Swept, Pending
  <2>3. ASSUME NEW m \in Message \ Swept(e) PROVE Kept(m)
    BY <1>1, KeptFrame DEF RetireSweep
  <2>4. QED
    BY <2>1, <2>2, <2>3, ClosedTogether DEF Swept
<1>2. CASE ~ RetireSweep(e)
  <2>1. msg' = msg /\ begun' = begun
    BY <1>2 DEF RegisterCheck, RegisterWrite, HeartbeatLapse, AttestCheck,
       AttestWrite, RetireMark, RecipientObserve, ObservationLapse,
       NativeHandoff
  <2>2. QED
    BY <2>1, KeptFrame, KeptStutters DEF PromiseStep
<1>3. QED
  BY <1>1, <1>2

LEMMA MessagePromise ==
  TypeOK /\ TypeOK' /\ GrantInv /\ MessageStep => PromiseStep
<1> SUFFICES ASSUME TypeOK, TypeOK', GrantInv, MessageStep PROVE PromiseStep
  OBVIOUS
<1>1. ASSUME NEW e \in Endpoint, Claim(e) PROVE PromiseStep
  <2>1. ASSUME NEW m \in Message PROVE Kept(m)
    <3>1. CASE m \in Claimable(e)
      <4>1. msg'[m].state = "adapter_received" /\ Waiting(m)
        BY <1>1, <3>1 DEF Claim, Claimable, TypeOK, Rows, NoMessage
      <4>2. QED
        BY <1>1, <4>1 DEF Claim, Kept, PhaseOf, Exists, Waiting, Pending
    <3>2. CASE m \notin Claimable(e)
      BY <1>1, <3>2, KeptFrame DEF Claim
    <3>3. QED
      BY <3>1, <3>2
  <2>2. QED
    BY <2>1, KeptStutters DEF PromiseStep
<1>2. ASSUME NEW n \in Message, TtlElapses(n) \/ LeaseLapses(n)
      PROVE  PromiseStep
  BY <1>2, KeptFrame, KeptStutters
  DEF TtlElapses, LeaseLapses, SetWork, PromiseStep
<1>3. ASSUME NEW n \in Message, NEW s \in Endpoint, NEW x \in Endpoint,
             NEW o \in Message \union {None}, ~ Exists(n), Insert(n, s, x, o)
      PROVE  PromiseStep
  <2>1. begun[n] = 0 /\ begun' = begun
    BY <1>3 DEF GrantInv, GrantOf, Ungranted, Insert
  <2>2. msg'[n].state = "accepted"
    BY <1>3 DEF Insert, TypeOK
  <2>3. \A m \in Message \ {n} : Kept(m)
    BY <1>3, KeptFrame DEF Insert
  <2>4. MovedOnly(n, "none", "open")
    BY <1>3, <2>1, <2>2, <2>3
    DEF MovedOnly, PhaseOf, Exists, Waiting, Pending
  <2>5. Promise!Offer(n)
    BY <2>4, MovedMoves DEF Promise!Offer
  <2>6. QED
    BY <2>5 DEF PromiseStep, Promise!Next
<1>4. ASSUME NEW n \in Message, NEW s \in Endpoint, NEW p \in Party,
             Submit(n, s, p)
      PROVE  PromiseStep
  BY <1>3, <1>4, RecipientTypes DEF Submit
<1>5. ASSUME NEW n \in Message, NEW s \in Endpoint, NEW o \in Message,
             SubmitReply(n, s, o)
      PROVE  PromiseStep
  <2>1. msg[o].from \in Endpoint
    BY <1>5 DEF SubmitReply, Exists, TypeOK, Rows, NoMessage
  <2>2. QED
    BY <1>3, <1>5, <2>1, ReplyEndpointTypes DEF SubmitReply
<1>6. ASSUME NEW n \in Message, NEW e \in Endpoint, NEW native \in BOOLEAN,
             BeginPresent(n, e, native)
      PROVE  PromiseStep
  <2>1. Waiting(n) /\ begun[n] = 0
    BY <1>6 DEF BeginPresent, GrantInv, GrantOf, Ungranted
  <2>2. begun' = [begun EXCEPT ![n] = 1]
    BY <1>6, <2>1 DEF BeginPresent, TypeOK
  <2>3. PhaseOf(n) = "open" /\ PhaseOf(n)' = "granted"
    BY <2>1, <2>2 DEF PhaseOf, Exists, Waiting, Pending, TypeOK
  <2>4. \A m \in Message \ {n} : Kept(m)
    BY <1>6, <2>2, KeptFrame DEF BeginPresent, TypeOK
  <2>5. [m \in Message |-> PhaseOf(m)]'
          = [[m \in Message |-> PhaseOf(m)] EXCEPT ![n] = "granted"]
    BY <2>3, <2>4 DEF Kept
  <2>6. Promise!Grant(n)
    BY <2>2, <2>3, <2>5 DEF Promise!Grant, Promise!Move
  <2>7. QED
    BY <2>6 DEF PromiseStep, Promise!Next
<1>7. ASSUME NEW n \in Message, NEW e \in Endpoint,
             NEW s \in Reports \intersect Outcomes, Receipt(n, e, s)
      PROVE  PromiseStep
  <2>1. begun' = begun /\ Exists(n) /\ msg[n].state # "cancelled"
    BY <1>7 DEF Receipt, Forward, Terminal
  <2>2. msg'[n].state = s
    BY <1>7 DEF Receipt, TypeOK, Rows, NoMessage
  <2>3. s \notin Pending \union {"absent", "cancelled"}
    BY DEF Outcomes, Pending
  <2>4. \A m \in Message \ {n} : Kept(m)
    BY <1>7, KeptFrame DEF Receipt
  <2>5. CASE PhaseOf(n) = "open"
    <3>1. PhaseOf(n)' = "closed"
      BY <2>1, <2>2, <2>3, <2>5 DEF PhaseOf, Exists, Waiting
    <3>2. /\ {n} \in SUBSET Message
          /\ \A m \in {n} : PhaseOf(m) = "open" /\ PhaseOf(m)' = "closed"
      BY <2>5, <3>1
    <3>3. QED
      BY <2>1, <2>4, <3>2, ClosedTogether
  <2>6. CASE PhaseOf(n) # "open"
    <3>1. Kept(n)
      BY <2>1, <2>2, <2>3, <2>6 DEF Kept, PhaseOf, Exists, Waiting
    <3>2. QED
      BY <2>4, <3>1, KeptStutters DEF PromiseStep
  <2>7. QED
    BY <2>5, <2>6
<1>8. ASSUME NEW n \in Message, NEW e \in Endpoint, Cancel(n, e)
      PROVE  PromiseStep
  <2>1. begun[n] = 0 /\ begun' = begun /\ Waiting(n)
    BY <1>8 DEF Cancel, GrantInv, GrantOf, Ungranted
  <2>2. msg'[n].state = "cancelled"
    BY <1>8 DEF Cancel, TypeOK, Rows, NoMessage
  <2>3. \A m \in Message \ {n} : Kept(m)
    BY <1>8, KeptFrame DEF Cancel
  <2>4. MovedOnly(n, "open", "withdrawn")
    BY <2>1, <2>2, <2>3 DEF MovedOnly, PhaseOf, Exists, Waiting, Pending
  <2>5. Promise!Withdraw(n)
    BY <2>4, MovedMoves DEF Promise!Withdraw
  <2>6. QED
    BY <2>5 DEF PromiseStep, Promise!Next
<1>9. ASSUME NEW n \in Message, NEW e \in Endpoint,
             StatusCheck(n, e) \/ StatusWrite(n, e)
      PROVE  PromiseStep
  BY <1>9, KeptFrame, KeptStutters DEF StatusCheck, StatusWrite, PromiseStep
<1>10. QED
  BY <1>1, <1>2, <1>4, <1>5, <1>6, <1>7, <1>8, <1>9 DEF MessageStep

LEMMA StepPromise ==
  TypeOK /\ TypeOK' /\ GrantInv /\ [Next]_vars => PromiseStep
<1> SUFFICES ASSUME TypeOK, TypeOK', [Next]_vars, ~ EndpointStep,
                    ~ MessageStep
             PROVE  PromiseStep
  BY EndpointPromise, MessagePromise
<1>1. UNCHANGED <<msg, begun>>
  BY OtherSteps
<1>2. QED
  BY <1>1, KeptFrame, KeptStutters DEF PromiseStep

LEMMA InitPromise == Init => Promise!Init
  BY DEF Init, Promise!Init, PhaseOf, Exists, NoMessage

(* Refinement: every behaviour of the hub is one of the promise. *)
THEOREM HubKeepsPromise == Spec => PromiseKept
<1>1. Init => Promise!Init
  BY InitPromise
<1>2. TypeOK /\ TypeOK' /\ GrantInv /\ [Next]_vars
        => [Promise!Next]_<<[m \in Message |-> PhaseOf(m)], begun>>
  BY StepPromise DEF PromiseStep
<1>3. QED
  BY <1>1, <1>2, TypeCorrect, GrantsInvariant, PTL
  DEF Spec, PromiseKept, Promise!Spec

-----------------------------------------------------------------------------
(* Rows, claimed work and replies *)

(* No row appears, disappears or changes its endpoints or its original. *)
RowsKept ==
  \A m \in Message :
    /\ msg'[m].from = msg[m].from /\ msg'[m].to = msg[m].to
    /\ msg'[m].irt = msg[m].irt
    /\ Exists(m)' = Exists(m)

(* A submission: its recipient is not retired, and a reply was admitted. *)
Inserted(n, s, x, o) ==
  /\ ~ Exists(n) /\ Insert(n, s, x, o)
  /\ epState[x] # "retired"
  /\ o # None => /\ Exists(o) /\ SameNativeParty(s, msg[o].to)
                 /\ ReplyAdmitted(o, n)

LEMMA KeptRow ==
  ASSUME TypeOK, NEW m \in Message, Exists(m), NEW s \in State \ {"absent"},
         msg'[m] = [msg[m] EXCEPT !.state = s]
  PROVE  /\ msg'[m].from = msg[m].from /\ msg'[m].to = msg[m].to
         /\ msg'[m].irt = msg[m].irt /\ msg'[m].state = s
  BY DEF TypeOK, Rows, NoMessage, Exists

LEMMA SubmitInserts ==
  ASSUME TypeOK, NEW n \in Message, NEW s \in Endpoint, NEW p \in Party,
         Submit(n, s, p)
  PROVE  \E x \in Endpoint : Inserted(n, s, x, None)
<1>1. PICK x \in NewMessageRecipient(p) : Insert(n, s, x, None)
  BY DEF Submit
<1>2. x \in Endpoint /\ epState[x] # "retired"
  BY RecipientTypes
  DEF NewMessageRecipient, EndpointForSend, SelectedEndpoint,
      NativeSuccessor, LiveOf, Live
<1>3. QED
  BY <1>1, <1>2 DEF Submit, Inserted

LEMMA ReplyInserts ==
  ASSUME TypeOK, NEW n \in Message, NEW s \in Endpoint, NEW o \in Message,
         SubmitReply(n, s, o)
  PROVE  \E x \in Endpoint : Inserted(n, s, x, o)
<1>1. PICK x \in ReplyEndpoint(msg[o].from) : Insert(n, s, x, o)
  BY DEF SubmitReply
<1>2. msg[o].from \in Endpoint
  BY DEF SubmitReply, Exists, TypeOK, Rows, NoMessage
<1>3. x \in Endpoint /\ epState[x] # "retired"
  BY <1>2, ReplyEndpointTypes
  DEF ReplyEndpoint, EndpointForSend, NativeSuccessor, LiveOf, Live
<1>4. QED
  BY <1>1, <1>3 DEF SubmitReply, Inserted

(* Rows are immutable but for their state, and only submissions add one. *)
LEMMA RowStep ==
  ASSUME TypeOK, [Next]_vars
  PROVE  \/ RowsKept
         \/ \E n \in Message, s \in Endpoint, x \in Endpoint,
               o \in Message \union {None} : Inserted(n, s, x, o)
<1>1. CASE msg' = msg
  BY <1>1 DEF RowsKept, Exists
<1>2. ASSUME NEW e \in Endpoint, RetireSweep(e) PROVE RowsKept
  <2> SUFFICES ASSUME NEW m \in Swept(e)
               PROVE  /\ msg'[m].from = msg[m].from /\ msg'[m].to = msg[m].to
                      /\ msg'[m].irt = msg[m].irt
                      /\ Exists(m)' = Exists(m)
    BY <1>2 DEF RetireSweep, RowsKept, Exists
  <2>1. Exists(m) /\ msg'[m] = [msg[m] EXCEPT !.state = "stale_session"]
    BY <1>2 DEF RetireSweep, Swept, Waiting, Exists, Pending
  <2>2. QED
    BY <2>1, KeptRow DEF Swept, State, Terminal, Exists
<1>3. ASSUME NEW e \in Endpoint, Claim(e) PROVE RowsKept
  <2> SUFFICES ASSUME NEW m \in Claimable(e)
               PROVE  /\ msg'[m].from = msg[m].from /\ msg'[m].to = msg[m].to
                      /\ msg'[m].irt = msg[m].irt
                      /\ Exists(m)' = Exists(m)
    BY <1>3 DEF Claim, RowsKept, Exists
  <2>1. Exists(m) /\ msg'[m] = [msg[m] EXCEPT !.state = "adapter_received"]
    BY <1>3 DEF Claim, Claimable, Waiting, Exists, Pending
  <2>2. QED
    BY <2>1, KeptRow DEF Claimable, State, Pending, Exists
<1>4. ASSUME NEW n \in Message, Exists(n), NEW s \in State \ {"absent"},
             msg' = [msg EXCEPT ![n].state = s]
      PROVE  RowsKept
  <2>1. msg'[n] = [msg[n] EXCEPT !.state = s]
    BY <1>4 DEF TypeOK
  <2>2. QED
    BY <1>4, <2>1, KeptRow DEF RowsKept, Exists, TypeOK
<1>5. ASSUME NEW n \in Message, NEW e \in Endpoint, NEW native \in BOOLEAN,
             BeginPresent(n, e, native)
      PROVE  RowsKept
  BY <1>4, <1>5 DEF BeginPresent, State
<1>6. ASSUME NEW n \in Message, NEW e \in Endpoint,
             NEW s \in Reports \intersect Outcomes, Receipt(n, e, s)
      PROVE  RowsKept
  BY <1>4, <1>6 DEF Receipt, Outcomes, State, Terminal
<1>7. ASSUME NEW n \in Message, NEW e \in Endpoint, Cancel(n, e)
      PROVE  RowsKept
  BY <1>4, <1>7 DEF Cancel, State, Terminal, Waiting, Exists, Pending
<1>8. CASE EndpointStep
  <2>1. CASE \E e \in Endpoint : RetireSweep(e)
    BY <1>2, <2>1
  <2>2. CASE ~ \E e \in Endpoint : RetireSweep(e)
    BY <1>1, <1>8, <2>2
    DEF EndpointStep, RegisterCheck, RegisterWrite, HeartbeatLapse,
        AttestCheck, AttestWrite, RetireMark, RecipientObserve,
        ObservationLapse, NativeHandoff
  <2>3. QED
    BY <2>1, <2>2
<1>9. CASE MessageStep
  <2>1. ASSUME NEW n \in Message, TtlElapses(n) \/ LeaseLapses(n)
        PROVE  msg' = msg
    BY <2>1 DEF TtlElapses, LeaseLapses, SetWork
  <2>2. ASSUME NEW n \in Message, NEW e \in Endpoint,
               StatusCheck(n, e) \/ StatusWrite(n, e)
        PROVE  msg' = msg
    BY <2>2 DEF StatusCheck, StatusWrite
  <2>3. QED
    BY <1>1, <1>3, <1>5, <1>6, <1>7, <1>9, <2>1, <2>2, SubmitInserts,
       ReplyInserts DEF MessageStep
<1>10. CASE ~ EndpointStep /\ ~ MessageStep
  BY <1>1, <1>10, OtherSteps
<1>11. QED
  BY <1>8, <1>9, <1>10

(* What a submission does to another row, and to its own. *)
LEMMA InsertRows ==
  ASSUME TypeOK, NEW n \in Message, NEW s \in Endpoint, NEW x \in Endpoint,
         NEW o \in Message \union {None}, Inserted(n, s, x, o)
  PROVE  /\ msg'[n].state = "accepted" /\ msg'[n].from = s
         /\ msg'[n].to = x /\ msg'[n].irt = o
         /\ \A m \in Message : m # n => msg'[m] = msg[m]
<1>1. msg'[n] = [state |-> "accepted", from |-> s, to |-> x, irt |-> o]
  BY DEF TypeOK, Inserted, Insert
<1>2. \A m \in Message : m # n => msg'[m] = msg[m]
  BY DEF TypeOK, Inserted, Insert
<1>3. QED
  BY <1>1, <1>2

(* A reply is prepared under a claim, and finish closes what is unanswered  *)
(* and unprepared for good.                                                 *)
WorkOf(m) ==
  /\ work[m].claim = None => work[m].reply = None
  /\ m \in finished => /\ Exists(m)
                       /\ ~ Answered(m, {msg[m].to})
                       /\ work[m].reply = None

WorkInv == \A m \in Message : WorkOf(m)

(* Rows that reply to something are stored rows. *)
LEMMA RepliesExist ==
  ASSUME TypeOK, NEW m \in Message, NEW r \in Message, msg[r].irt = m
  PROVE  Exists(r)
  BY MailboxAssumption DEF TypeOK, Rows, NoMessage, Exists

LEMMA AnsweredKept ==
  ASSUME RowsKept, NEW m \in Message, NEW S
  PROVE  Answered(m, S)' <=> Answered(m, S')
  BY DEF RowsKept, Answered

(* A choice, claimed work and maintenance change no endpoint, no actor, no   *)
(* receipt and no request in flight.                                        *)
LEMMA ChoiceWorkKeep ==
  ASSUME ChoiceStep \/ WorkStep \/ \E to \in Modes : Maintenance(to)
  PROVE  UNCHANGED <<epState, attested, handed, owner, receipts, inflight>>
<1>1. CASE ChoiceStep
  BY <1>1 DEF ChoiceStep, RecipientChoose
<1>2. CASE WorkStep
  <2>1. PICK m \in Message, e \in Endpoint, t \in Token :
          \/ WorkClaim(m, e, t)
          \/ \E r \in Answer : WorkPrepareReply(m, e, t, r)
          \/ ReceiveFinish(m, e, t)
    BY <1>2 DEF WorkStep
  <2>2. CASE WorkClaim(m, e, t)
    BY <2>2 DEF WorkClaim, SetWork
  <2>3. CASE \E r \in Answer : WorkPrepareReply(m, e, t, r)
    BY <2>3 DEF WorkPrepareReply, SetWork
  <2>4. CASE ReceiveFinish(m, e, t)
    BY <2>4 DEF ReceiveFinish
  <2>5. QED
    BY <2>1, <2>2, <2>3, <2>4
<1>3. CASE \E to \in Modes : Maintenance(to)
  BY <1>3 DEF Maintenance
<1>4. QED
  BY <1>1, <1>2, <1>3

(* Deliveries leave endpoints alone, and receipts but for two handlers. *)
LEMMA MessageKeepsEndpoints ==
  ASSUME MessageStep
  PROVE  /\ epState' = epState /\ attested' = attested /\ owner' = owner
         /\ handed' = handed
         /\ \/ receipts' = receipts
            \/ \E m \in Message, e \in Endpoint :
                 \/ \E s \in Reports \intersect Outcomes : Receipt(m, e, s)
                 \/ StatusWrite(m, e)
<1> DEFINE Same == /\ epState' = epState /\ attested' = attested
                   /\ owner' = owner /\ handed' = handed
<1>1. ASSUME NEW e \in Endpoint, Claim(e) PROVE Same /\ receipts' = receipts
  BY <1>1 DEF Claim
<1>2. ASSUME NEW m \in Message, TtlElapses(m) \/ LeaseLapses(m)
      PROVE  Same /\ receipts' = receipts
  BY <1>2 DEF TtlElapses, LeaseLapses, SetWork
<1>3. ASSUME NEW m \in Message, NEW e \in Endpoint, NEW p \in Party,
             Submit(m, e, p)
      PROVE  Same /\ receipts' = receipts
  BY <1>3 DEF Submit, Insert
<1>4. ASSUME NEW m \in Message, NEW e \in Endpoint, NEW o \in Message,
             SubmitReply(m, e, o)
      PROVE  Same /\ receipts' = receipts
  BY <1>4 DEF SubmitReply, Insert
<1>5. ASSUME NEW m \in Message, NEW e \in Endpoint, NEW native \in BOOLEAN,
             BeginPresent(m, e, native)
      PROVE  Same /\ receipts' = receipts
  BY <1>5 DEF BeginPresent
<1>6. ASSUME NEW m \in Message, NEW e \in Endpoint,
             NEW s \in Reports \intersect Outcomes, Receipt(m, e, s)
      PROVE  Same
  BY <1>6 DEF Receipt
<1>7. ASSUME NEW m \in Message, NEW e \in Endpoint,
             Cancel(m, e) \/ StatusCheck(m, e)
      PROVE  Same /\ receipts' = receipts
  BY <1>7 DEF Cancel, StatusCheck
<1>8. ASSUME NEW m \in Message, NEW e \in Endpoint, StatusWrite(m, e)
      PROVE  Same
  BY <1>8 DEF StatusWrite
<1>9. QED
  BY <1>1, <1>2, <1>3, <1>4, <1>5, <1>6, <1>7, <1>8 DEF MessageStep

(* Deliveries leave claimed work alone, and all but begin_present "begun". *)
LEMMA MessageKeepsWork ==
  ASSUME MessageStep
  PROVE  /\ \/ work' = work /\ finished' = finished
            \/ \E m \in Message : LeaseLapses(m)
         /\ \/ begun' = begun
            \/ \E m \in Message, e \in Endpoint, native \in BOOLEAN :
                 BeginPresent(m, e, native)
<1> DEFINE Same == work' = work /\ finished' = finished /\ begun' = begun
<1>1. ASSUME NEW e \in Endpoint, Claim(e) PROVE Same
  BY <1>1 DEF Claim
<1>2. ASSUME NEW m \in Message, TtlElapses(m) PROVE Same
  BY <1>2 DEF TtlElapses
<1>3. ASSUME NEW m \in Message, LeaseLapses(m) PROVE begun' = begun
  BY <1>3 DEF LeaseLapses, SetWork
<1>4. ASSUME NEW m \in Message, NEW e \in Endpoint, NEW p \in Party,
             Submit(m, e, p)
      PROVE  Same
  BY <1>4 DEF Submit, Insert
<1>5. ASSUME NEW m \in Message, NEW e \in Endpoint, NEW o \in Message,
             SubmitReply(m, e, o)
      PROVE  Same
  BY <1>5 DEF SubmitReply, Insert
<1>6. ASSUME NEW m \in Message, NEW e \in Endpoint, NEW native \in BOOLEAN,
             BeginPresent(m, e, native)
      PROVE  work' = work /\ finished' = finished
  BY <1>6 DEF BeginPresent
<1>7. ASSUME NEW m \in Message, NEW e \in Endpoint,
             NEW s \in Reports \intersect Outcomes, Receipt(m, e, s)
      PROVE  Same
  BY <1>7 DEF Receipt
<1>8. ASSUME NEW m \in Message, NEW e \in Endpoint,
             Cancel(m, e) \/ StatusCheck(m, e) \/ StatusWrite(m, e)
      PROVE  Same
  BY <1>8 DEF Cancel, StatusCheck, StatusWrite
<1>9. QED
  BY <1>1, <1>2, <1>3, <1>4, <1>5, <1>6, <1>7, <1>8 DEF MessageStep

(* Claims of receive_work touch a message that is not finished. *)
LEMMA WorkSteps ==
  ASSUME TypeOK, WorkInv, [Next]_vars, NEW m \in Message
  PROVE  \/ /\ work'[m] = work[m]
            /\ m \in finished' => m \in finished
         \/ /\ msg' = msg
            /\ work'[m].reply = work[m].reply
            /\ \/ work'[m].claim = work[m].claim
               \/ work'[m].claim # None
            /\ m \in finished' => m \in finished
         \/ /\ msg' = msg
            /\ work[m].reply = None /\ work'[m].claim # None
            /\ m \notin finished'
         \/ /\ msg' = msg /\ work' = work
            /\ Exists(m) /\ ~ RepliedBy(m, {msg[m].to})
            /\ work[m].reply = None
<1>1. CASE work' = work /\ finished' = finished
  BY <1>1
<1>2. ASSUME NEW n \in Message, LeaseLapses(n)
      PROVE  /\ msg' = msg /\ finished' = finished
             /\ work'[m].reply = work[m].reply
             /\ work'[m].claim = work[m].claim
  BY <1>2 DEF LeaseLapses, SetWork, TypeOK
<1>3. ASSUME NEW n \in Message, NEW e \in Endpoint, NEW t \in Token,
             WorkClaim(n, e, t)
      PROVE  /\ msg' = msg /\ finished' = finished
             /\ work'[m].reply = work[m].reply
             /\ work'[m].claim = work[m].claim \/ work'[m].claim # None
  BY <1>3, MailboxAssumption DEF WorkClaim, SetWork, TypeOK
<1>4. ASSUME NEW n \in Message, NEW e \in Endpoint, NEW t \in Token,
             NEW r \in Answer, WorkPrepareReply(n, e, t, r)
      PROVE  \/ /\ work'[m] = work[m] /\ finished' = finished
             \/ /\ msg' = msg
                /\ work[m].reply = None /\ work'[m].claim # None
                /\ m \notin finished'
  BY <1>4, MailboxAssumption DEF WorkPrepareReply, Workable, SetWork, TypeOK
<1>5. ASSUME NEW n \in Message, NEW e \in Endpoint, NEW t \in Token,
             ReceiveFinish(n, e, t)
      PROVE  \/ /\ work'[m] = work[m]
                /\ m \in finished' => m \in finished
             \/ /\ msg' = msg /\ work' = work
                /\ Exists(m) /\ ~ RepliedBy(m, {msg[m].to})
                /\ work[m].reply = None
  BY <1>5 DEF ReceiveFinish, Exists, WorkInv, WorkOf
<1>6. CASE EndpointStep
  BY <1>1, <1>6
  DEF EndpointStep, RegisterCheck, RegisterWrite, HeartbeatLapse,
      AttestCheck, AttestWrite, RetireMark, RetireSweep, RecipientObserve,
      ObservationLapse, NativeHandoff
<1>7. CASE MessageStep
  <2>1. CASE \E n \in Message : LeaseLapses(n)
    BY <1>2, <2>1
  <2>2. CASE ~ \E n \in Message : LeaseLapses(n)
    BY <1>1, <1>7, <2>2, MessageKeepsWork
  <2>3. QED
    BY <2>1, <2>2
<1>8. CASE WorkStep
  BY <1>3, <1>4, <1>5, <1>8 DEF WorkStep
<1>9. CASE ChoiceStep \/ (\E to \in Modes : Maintenance(to)) \/ HubCrash
             \/ UNCHANGED vars
  BY <1>1, <1>9 DEF ChoiceStep, RecipientChoose, Maintenance, HubCrash, vars
<1>10. QED
  BY <1>6, <1>7, <1>8, <1>9 DEF Next

(* No step answers a finished message. *)
LEMMA FinishedUnanswered ==
  ASSUME TypeOK, WorkInv, [Next]_vars, NEW m \in Message, m \in finished
  PROVE  /\ Exists(m)' /\ msg'[m].to = msg[m].to
         /\ ~ Answered(m, {msg[m].to})'
<1>1. Exists(m) /\ ~ Answered(m, {msg[m].to})
  BY DEF WorkInv, WorkOf
<1>2. CASE RowsKept
  BY <1>1, <1>2 DEF RowsKept, Answered
<1>3. ASSUME NEW n \in Message, NEW s \in Endpoint, NEW x \in Endpoint,
             NEW o \in Message \union {None}, Inserted(n, s, x, o)
      PROVE  /\ Exists(m)' /\ msg'[m].to = msg[m].to
             /\ ~ Answered(m, {msg[m].to})'
  <2>1. m # n /\ o # m
    BY <1>1, <1>3, MailboxAssumption DEF Inserted, ReplyAdmitted
  <2>2. msg'[m] = msg[m] /\ msg'[n].irt = o
    BY <1>3, <2>1, InsertRows
  <2>3. ASSUME NEW r \in Message, msg'[r].irt = m, msg'[r].from = msg'[m].to
        PROVE  FALSE
    <3>1. r # n
      BY <2>1, <2>2, <2>3
    <3>2. msg'[r] = msg[r]
      BY <1>3, <3>1, InsertRows
    <3>3. QED
      BY <1>1, <2>2, <2>3, <3>2 DEF Answered
  <2>4. QED
    BY <1>1, <2>2, <2>3 DEF Exists, Answered
<1>4. QED
  BY <1>2, <1>3, RowStep

LEMMA StepWork == TypeOK /\ WorkInv /\ [Next]_vars => WorkInv'
<1> SUFFICES ASSUME TypeOK, WorkInv, [Next]_vars, NEW m \in Message
             PROVE  WorkOf(m)'
  BY DEF WorkInv
<1>0. WorkOf(m)
  BY DEF WorkInv
<1>1. CASE /\ work'[m].reply = work[m].reply
           /\ \/ work'[m].claim = work[m].claim
              \/ work'[m].claim # None
           /\ m \in finished' => m \in finished
  BY <1>0, <1>1, FinishedUnanswered DEF WorkOf
<1>2. CASE work'[m].claim # None /\ m \notin finished'
  BY <1>2 DEF WorkOf
<1>3. CASE /\ msg' = msg /\ work' = work
           /\ Exists(m) /\ ~ RepliedBy(m, {msg[m].to})
           /\ work[m].reply = None
  BY <1>0, <1>3, RepliesExist DEF WorkOf, Exists, Answered, RepliedBy
<1>4. QED
  BY <1>1, <1>2, <1>3, WorkSteps

LEMMA InitWork == Init => WorkInv
  BY DEF Init, WorkInv, WorkOf, NoWork

THEOREM WorkInvariant == Spec => []WorkInv
  BY InitTypeOK, StepTypeOK, InitWork, StepWork, PTL DEF Spec

(* receive_finish: a finished message is never answered, nor is a reply to  *)
(* it prepared.                                                             *)
THEOREM FinishedStaysSilent == Spec => []FinishedIsSilent
<1>1. TypeOK /\ WorkInv => FinishedIsSilent
  BY DEF TypeOK, WorkInv, WorkOf, FinishedIsSilent
<1>2. QED
  BY <1>1, TypeCorrect, WorkInvariant, PTL

(* receive_work: a prepared reply stays prepared, and no other is accepted  *)
(* before it.                                                               *)
LEMMA StepPrepared ==
  ASSUME TypeOK, WorkInv, [Next]_vars, NEW m \in Message,
         work[m].reply # None
  PROVE  /\ work'[m].reply = work[m].reply
         /\ ~ Exists(work[m].reply) =>
               \A r \in Message \ {work[m].reply} :
                 msg'[r].irt = m => msg[r].irt = m
<1>1. work'[m].reply = work[m].reply
  BY WorkSteps
<1>2. work[m].claim # None
  BY DEF WorkInv, WorkOf
<1>3. ASSUME ~ Exists(work[m].reply),
             NEW r \in Message \ {work[m].reply}, msg'[r].irt = m
      PROVE  msg[r].irt = m
  <2>1. CASE RowsKept
    BY <1>3, <2>1 DEF RowsKept
  <2>2. ASSUME NEW n \in Message, NEW s \in Endpoint, NEW x \in Endpoint,
               NEW o \in Message \union {None}, Inserted(n, s, x, o)
        PROVE  msg[r].irt = m
    <3>1. CASE r = n
      <4>1. o = m
        BY <1>3, <2>2, <3>1, InsertRows
      <4>2. QED
        BY <1>2, <1>3, <2>2, <3>1, <4>1, MailboxAssumption
        DEF Inserted, ReplyAdmitted
    <3>2. CASE r # n
      BY <1>3, <2>2, <3>2, InsertRows
    <3>3. QED
      BY <3>1, <3>2
  <2>3. QED
    BY <2>1, <2>2, RowStep
<1>4. QED
  BY <1>1, <1>3

THEOREM PreparedReplyStays == Spec => PreparedReplyWins
<1>1. TypeOK /\ WorkInv /\ [Next]_vars
        => [\A m \in Message :
              LET p == work[m].reply
              IN  p # None =>
                    /\ work'[m].reply = p
                    /\ ~ Exists(p) => \A r \in Message \ {p} :
                                         msg'[r].irt = m => msg[r].irt = m]_vars
  BY StepPrepared
<1>2. QED
  BY <1>1, TypeCorrect, WorkInvariant, PTL DEF Spec, PreparedReplyWins

-----------------------------------------------------------------------------
(* The chosen surface *)

(* Only begin_present begins, and it asks presentation_allowed first. *)
LEMMA BegunByBegin ==
  ASSUME TypeOK, [Next]_vars, NEW m \in Message, begun'[m] > begun[m]
  PROVE  \E e \in Endpoint, native \in BOOLEAN :
            BeginPresent(m, e, native) /\ presenter'[m] = e
<1>1. begun[m] \in Nat
  BY DEF TypeOK
<1>2. MessageStep
  <2>1. CASE EndpointStep
    BY <1>1, <2>1
    DEF EndpointStep, RegisterCheck, RegisterWrite, HeartbeatLapse,
        AttestCheck, AttestWrite, RetireMark, RetireSweep, RecipientObserve,
        ObservationLapse, NativeHandoff
  <2>2. QED
    BY <1>1, <2>1, OtherSteps
<1>3. PICK n \in Message, e \in Endpoint, native \in BOOLEAN :
        BeginPresent(n, e, native)
  <2>1. begun' # begun
    BY <1>1
  <2>2. QED
    BY <1>2, <2>1, MessageKeepsWork
<1>4. n = m /\ presenter'[m] = e
  BY <1>1, <1>3 DEF BeginPresent, TypeOK
<1>5. QED
  BY <1>3, <1>4

LEMMA StepFenced ==
  ASSUME TypeOK, [Next]_vars, NEW m \in Message, begun'[m] > begun[m],
         pref[PartyOf[presenter'[m]]] # None, presenter'[m] \in attested,
         SameNative(presenter'[m], pref[PartyOf[presenter'[m]]])
  PROVE  LET c == pref[PartyOf[presenter'[m]]]
         IN  /\ (presenter'[m] \in Tui) = (c \in Tui)
             /\ Live(c) => presenter'[m] = c
<1>1. PICK e \in Endpoint : PresentationAllowed(e) /\ presenter'[m] = e
  BY BegunByBegin DEF BeginPresent
<1> DEFINE c == pref[PartyOf[e]]
<1>2. e \in SelectedEndpoint(c)
  BY <1>1 DEF PresentationAllowed, SameNative
<1>3. CASE Live(c)
  BY <1>1, <1>2, <1>3 DEF SelectedEndpoint
<1>4. CASE ~ Live(c)
  BY <1>1, <1>2, <1>4 DEF SelectedEndpoint, NativeSuccessor
<1>5. QED
  BY <1>3, <1>4

(* recipient.py: no surface but the chosen one, or the heir of its surface, *)
(* begins a message of that conversation.                                   *)
THEOREM ChosenSurfaceOnly == Spec => OtherSurfacesFenced
<1>1. TypeOK /\ [Next]_vars
        => [\A m \in Message : begun'[m] > begun[m] =>
              LET e == presenter'[m]
                  c == pref[PartyOf[e]]
              IN  (c # None /\ e \in attested /\ SameNative(e, c)) =>
                    ((e \in Tui) = (c \in Tui) /\ (Live(c) => e = c))]_vars
  BY StepFenced
<1>2. QED
  BY <1>1, TypeCorrect, PTL DEF Spec, OtherSurfacesFenced

-----------------------------------------------------------------------------
(* The hub that is not killed *)

(* What a retired endpoint still owes is transferred, answered, out of time *)
(* or about to be swept.                                                    *)
SweepOf(m) ==
  (Waiting(m) /\ m \notin elapsed /\ epState[msg[m].to] = "retired"
     /\ owner[m].actor = None
     /\ ~ Answered(m, {e \in Endpoint : SameNative(e, msg[m].to)}))
  => Call("retire", msg[m].to, None, None) \in inflight

(* Stored rows keep their recipient and the replies they have. *)
LEMMA RowsGrow ==
  ASSUME TypeOK, [Next]_vars, NEW m \in Message, Exists(m)
  PROVE  /\ msg'[m].to = msg[m].to
         /\ \A r \in Message : msg[r].irt = m =>
              msg'[r].irt = m /\ msg'[r].from = msg[r].from
<1>1. CASE RowsKept
  BY <1>1 DEF RowsKept
<1>2. ASSUME NEW n \in Message, NEW s \in Endpoint, NEW x \in Endpoint,
             NEW o \in Message \union {None}, Inserted(n, s, x, o)
      PROVE  /\ msg'[m].to = msg[m].to
             /\ \A r \in Message : msg[r].irt = m =>
                  msg'[r].irt = m /\ msg'[r].from = msg[r].from
  <2>1. m # n
    BY <1>2 DEF Inserted
  <2>2. ASSUME NEW r \in Message, msg[r].irt = m PROVE r # n
    BY <1>2, <2>2, RepliesExist DEF Inserted
  <2>3. QED
    BY <1>2, <2>1, <2>2, InsertRows
<1>3. QED
  BY <1>1, <1>2, RowStep

(* What SweepOf reads about one stored message. *)
LEMMA SweepFrame ==
  ASSUME TypeOK, [Next]_vars, NEW m \in Message, SweepOf(m), Exists(m),
         Waiting(m)' => Waiting(m), elapsed \subseteq elapsed',
         owner'[m] = owner[m],
         epState'[msg[m].to] = "retired" => epState[msg[m].to] = "retired",
         Call("retire", msg[m].to, None, None) \in inflight =>
           Call("retire", msg[m].to, None, None) \in inflight'
  PROVE  SweepOf(m)'
<1>1. msg'[m].to = msg[m].to
  BY RowsGrow
<1>2. Answered(m, {e \in Endpoint : SameNative(e, msg[m].to)})
        => Answered(m, {e \in Endpoint : SameNative(e, msg[m].to)})'
  <2>1. ASSUME NEW r \in Message, msg[r].irt = m
        PROVE  msg'[r].irt = m /\ msg'[r].from = msg[r].from
    BY <2>1, RowsGrow
  <2>2. QED
    BY <1>1, <2>1 DEF Answered, SameNative
<1>3. QED
  BY <1>1, <1>2 DEF SweepOf

LEMMA EndpointSweep ==
  ASSUME TypeOK, EndpointStep, NEW m \in Message, SweepOf(m), Exists(m)
  PROVE  SweepOf(m)'
<1>0. PICK e \in Endpoint :
        \/ RegisterCheck(e) \/ RegisterWrite(e)
        \/ HeartbeatLapse(e) \/ AttestCheck(e) \/ AttestWrite(e)
        \/ RetireMark(e) \/ RetireSweep(e)
        \/ RecipientObserve(e) \/ ObservationLapse(e)
        \/ \E new \in Endpoint : NativeHandoff(e, new)
  BY DEF EndpointStep
<1>1. [Next]_vars
  BY DEF Next
<1>2. msg[m].to \in Endpoint
  BY DEF TypeOK, Rows, NoMessage, Exists
<1>3. CASE \/ RegisterCheck(e) \/ HeartbeatLapse(e) \/ AttestCheck(e)
           \/ RecipientObserve(e) \/ ObservationLapse(e)
  BY <1>1, <1>3, SweepFrame
  DEF RegisterCheck, HeartbeatLapse, AttestCheck, RecipientObserve,
      ObservationLapse, Waiting
<1>4. CASE RegisterWrite(e) \/ AttestWrite(e)
  BY <1>1, <1>2, <1>4, SweepFrame
  DEF RegisterWrite, AttestWrite, Waiting, Call, TypeOK
<1>5. CASE RetireMark(e)
  <2>1. CASE msg[m].to = e
    BY <1>5, <2>1 DEF RetireMark, SweepOf
  <2>2. CASE msg[m].to # e
    BY <1>1, <1>2, <1>5, <2>2, SweepFrame DEF RetireMark, Waiting, TypeOK
  <2>3. QED
    BY <2>1, <2>2
<1>6. CASE RetireSweep(e)
  <2>1. CASE m \in Swept(e)
    <3>1. msg'[m].state = "stale_session"
      BY <1>6, <2>1 DEF RetireSweep, TypeOK, Rows, NoMessage
    <3>2. QED
      BY <3>1 DEF SweepOf, Waiting, Pending
  <2>2. CASE m \notin Swept(e)
    <3>1. msg'[m] = msg[m]
      BY <1>6, <2>2 DEF RetireSweep
    <3>2. ~ Waiting(m) \/ msg[m].to # e
      BY <2>2 DEF Swept
    <3>3. CASE ~ Waiting(m)
      BY <3>1, <3>3 DEF SweepOf, Waiting
    <3>4. CASE msg[m].to # e
      BY <1>1, <1>6, <3>1, <3>4, SweepFrame DEF RetireSweep, Waiting, Call
    <3>5. QED
      BY <3>2, <3>3, <3>4
  <2>3. QED
    BY <2>1, <2>2
<1>7. ASSUME NEW new \in Endpoint, NativeHandoff(e, new)
      PROVE  SweepOf(m)'
  <2>1. CASE m \in Inherited(e)
    <3>1. owner'[m].actor = new
      BY <1>7, <2>1 DEF NativeHandoff, NextOwner
    <3>2. QED
      BY <3>1, MailboxAssumption DEF SweepOf
  <2>2. CASE m \notin Inherited(e) /\ msg[m].to # e
    BY <1>1, <1>2, <1>7, <2>2, SweepFrame DEF NativeHandoff, Waiting, TypeOK
  <2>3. CASE m \notin Inherited(e) /\ msg[m].to = e
    <3>1. msg' = msg /\ elapsed' = elapsed /\ owner'[m] = owner[m]
      BY <1>7, <2>3 DEF NativeHandoff
    <3>2. CASE ~ Waiting(m) \/ m \in elapsed \/ owner[m].actor # None
      BY <3>1, <3>2 DEF SweepOf, Waiting
    <3>3. CASE Waiting(m) /\ m \notin elapsed /\ owner[m].actor = None
      <4>1. RepliedBy(m, {x \in attested : \/ x = msg[m].to
                                           \/ x \in Codex /\ SameNative(x, e)})
        BY <2>3, <3>3 DEF Inherited, DeliveryActor
      <4>2. Answered(m, {x \in Endpoint : SameNative(x, msg[m].to)})
        BY <2>3, <4>1 DEF RepliedBy, Answered, SameNative, TypeOK
      <4>3. QED
        BY <3>1, <4>2 DEF SweepOf, Answered, SameNative
    <3>4. QED
      BY <3>2, <3>3
  <2>4. QED
    BY <2>1, <2>2, <2>3
<1>8. QED
  BY <1>0, <1>3, <1>4, <1>5, <1>6, <1>7

(* Everything but endpoint steps leaves endpoints and calls of retire alone, *)
(* and makes no stored message wait again.                                   *)
LEMMA QuietSteps ==
  ASSUME TypeOK, [Next]_vars, ~ EndpointStep, ~ Crashes
  PROVE  /\ epState' = epState /\ owner' = owner /\ elapsed \subseteq elapsed'
         /\ \A e \in Endpoint : Call("retire", e, None, None) \in inflight
              => Call("retire", e, None, None) \in inflight'
         /\ \A m \in Message : Exists(m) /\ Waiting(m)' => Waiting(m)
<1> DEFINE Quiet ==
      /\ epState' = epState /\ owner' = owner /\ elapsed \subseteq elapsed'
      /\ \A e \in Endpoint : Call("retire", e, None, None) \in inflight
            => Call("retire", e, None, None) \in inflight'
      /\ \A m \in Message : Exists(m) /\ Waiting(m)' => Waiting(m)
<1>1. CASE MessageStep
  <2>1. ASSUME NEW e \in Endpoint, Claim(e) PROVE Quiet
    BY <2>1 DEF Claim, Claimable, Waiting
  <2>2. ASSUME NEW m \in Message, TtlElapses(m) \/ LeaseLapses(m)
        PROVE  Quiet
    BY <2>2 DEF TtlElapses, LeaseLapses, SetWork, Waiting
  <2>3. ASSUME NEW m \in Message, NEW s \in Endpoint, NEW x \in Endpoint,
               NEW o \in Message \union {None}, Inserted(m, s, x, o)
        PROVE  Quiet
    BY <2>3, InsertRows DEF Inserted, Insert, Waiting
  <2>4. ASSUME NEW m \in Message, NEW e \in Endpoint,
               NEW native \in BOOLEAN, BeginPresent(m, e, native)
        PROVE  Quiet
    BY <2>4 DEF BeginPresent, Waiting, TypeOK
  <2>5. ASSUME NEW m \in Message, NEW e \in Endpoint,
               NEW s \in Reports \intersect Outcomes, Receipt(m, e, s)
        PROVE  Quiet
    <3>1. msg'[m].state = s /\ s \notin Pending
      BY <2>5, KeptRow DEF Receipt, Outcomes, Pending, State, Terminal, TypeOK
    <3>2. QED
      BY <2>5, <3>1 DEF Receipt, Waiting, TypeOK
  <2>6. ASSUME NEW m \in Message, NEW e \in Endpoint, Cancel(m, e)
        PROVE  Quiet
    BY <2>6 DEF Cancel, Waiting, TypeOK
  <2>7. ASSUME NEW m \in Message, NEW e \in Endpoint, StatusCheck(m, e)
        PROVE  Quiet
    BY <2>7 DEF StatusCheck, Waiting
  <2>8. ASSUME NEW m \in Message, NEW e \in Endpoint, StatusWrite(m, e)
        PROVE  Quiet
    <3>1. PICK c \in inflight : c.op = "status" /\ inflight' = inflight \ {c}
      BY <2>8 DEF StatusWrite
    <3>2. \A x \in Endpoint : Call("retire", x, None, None) # c
      BY <3>1 DEF Call
    <3>3. QED
      BY <2>8, <3>1, <3>2 DEF StatusWrite, Waiting
  <2>9. QED
    BY <1>1, <2>1, <2>2, <2>3, <2>4, <2>5, <2>6, <2>7, <2>8, SubmitInserts,
       ReplyInserts DEF MessageStep
<1>2. CASE WorkStep
  BY <1>2 DEF WorkStep, WorkClaim, WorkPrepareReply, ReceiveFinish, SetWork,
     Waiting
<1>3. CASE ChoiceStep \/ (\E to \in Modes : Maintenance(to)) \/ HubCrash
             \/ UNCHANGED vars
  BY <1>3 DEF ChoiceStep, RecipientChoose, Maintenance, HubCrash, vars,
     Waiting
<1>4. QED
  BY <1>1, <1>2, <1>3 DEF Next

LEMMA StepSweep ==
  ASSUME ~ Crashes, TypeOK, \A m \in Message : SweepOf(m), [Next]_vars,
         NEW m \in Message
  PROVE  SweepOf(m)'
<1>1. CASE ~ Exists(m)
  <2>1. CASE RowsKept
    BY <1>1, <2>1 DEF RowsKept, SweepOf, Waiting, Exists, Pending
  <2>2. ASSUME NEW n \in Message, NEW s \in Endpoint, NEW x \in Endpoint,
               NEW o \in Message \union {None}, Inserted(n, s, x, o)
        PROVE  SweepOf(m)'
    <3>1. CASE m = n
      <4>1. epState' = epState /\ epState[x] # "retired"
        BY <2>2 DEF Inserted, Insert
      <4>2. msg'[m].to = x
        BY <2>2, <3>1, InsertRows
      <4>3. QED
        BY <4>1, <4>2 DEF SweepOf
    <3>2. CASE m # n
      <4>1. msg'[m] = msg[m]
        BY <2>2, <3>2, InsertRows
      <4>2. QED
        BY <1>1, <4>1 DEF SweepOf, Waiting, Exists, Pending
    <3>3. QED
      BY <3>1, <3>2
  <2>3. QED
    BY <2>1, <2>2, RowStep
<1>2. CASE Exists(m) /\ EndpointStep
  BY <1>2, EndpointSweep
<1>3. CASE Exists(m) /\ ~ EndpointStep
  <2>1. msg[m].to \in Endpoint
    BY <1>3 DEF TypeOK, Rows, NoMessage, Exists
  <2>2. QED
    BY <1>3, <2>1, QuietSteps, SweepFrame
<1>4. QED
  BY <1>1, <1>2, <1>3

(* endpoint_retire: unless the process is killed between its two updates,   *)
(* what is pinned to the retired endpoint becomes stale_session.            *)
THEOREM RetiredWorkTold == ~ Crashes => (Spec => []RetiredWorkIsStale)
<1> SUFFICES ASSUME ~ Crashes PROVE Spec => []RetiredWorkIsStale
  OBVIOUS
<1>1. Init => RetiredWorkIsStale
  BY DEF Init, RetiredWorkIsStale, NoMessage, Waiting, Pending
<1>2. TypeOK /\ RetiredWorkIsStale /\ [Next]_vars => RetiredWorkIsStale'
  BY StepSweep DEF SweepOf, RetiredWorkIsStale
<1>3. QED
  BY <1>1, <1>2, TypeCorrect, PTL DEF Spec

-----------------------------------------------------------------------------
(* The hub that serves one request at a time *)

(* At most one handler is between its check and its write, and what it      *)
(* checked still holds.                                                     *)
SerialInv ==
  /\ inflight = {} \/ \E c \in Ops : inflight = {c}
  /\ \A e \in Endpoint : Call("register", e, None, None) \in inflight
                           => epState[e] # "retired"
  /\ \A c \in inflight : c.op = "status" => receipts[c.msg] # "presented"

LEMMA FreeIsIdle ==
  ASSUME Slots = 1, SerialInv, Free
  PROVE  inflight = {}
<1>1. ASSUME NEW c \in Ops, inflight = {c} PROVE FALSE
  <2>1. Cardinality({c}) = 1
    BY FS_Singleton
  <2>2. QED
    BY <1>1, <2>1 DEF Free
<1>2. QED
  BY <1>1 DEF SerialInv

(* A handler that ends leaves nobody in flight. *)
LEMMA LastCall ==
  ASSUME SerialInv, NEW c \in inflight, inflight' = inflight \ {c}
  PROVE  inflight' = {}
  BY DEF SerialInv

LEMMA IdleSerial ==
  ASSUME inflight' = {}
  PROVE  SerialInv'
  BY DEF SerialInv

LEMMA SerialFrame ==
  ASSUME SerialInv, inflight' = inflight, epState' = epState,
         receipts' = receipts
  PROVE  SerialInv'
  BY DEF SerialInv

LEMMA EndpointSerial ==
  ASSUME Slots = 1, TypeOK, SerialInv, EndpointStep
  PROVE  SerialInv'
<1>0. PICK e \in Endpoint :
        \/ RegisterCheck(e) \/ RegisterWrite(e)
        \/ HeartbeatLapse(e) \/ AttestCheck(e) \/ AttestWrite(e)
        \/ RetireMark(e) \/ RetireSweep(e)
        \/ RecipientObserve(e) \/ ObservationLapse(e)
        \/ \E new \in Endpoint : NativeHandoff(e, new)
  BY DEF EndpointStep
<1>1. CASE RegisterCheck(e)
  <2>1. inflight' = {Call("register", e, None, None)}
    BY <1>1, FreeIsIdle DEF RegisterCheck
  <2>2. Call("register", e, None, None) \in Ops
    BY DEF Call, Ops
  <2>3. \A x \in Endpoint : Call("register", x, None, None) \in inflight'
                              => epState'[x] # "retired"
    BY <1>1, <2>1 DEF RegisterCheck, Call
  <2>4. QED
    BY <2>1, <2>2, <2>3 DEF SerialInv, Call
<1>2. CASE RegisterWrite(e) \/ AttestWrite(e) \/ RetireSweep(e)
  BY <1>2, LastCall, IdleSerial DEF RegisterWrite, AttestWrite, RetireSweep
<1>3. CASE HeartbeatLapse(e) \/ ObservationLapse(e)
  BY <1>3, SerialFrame DEF HeartbeatLapse, ObservationLapse
<1>4. CASE AttestCheck(e)
  <2>1. inflight' = {Call("attest", e, None, None)}
    BY <1>4, FreeIsIdle DEF AttestCheck
  <2>2. Call("attest", e, None, None) \in Ops
    BY DEF Call, Ops
  <2>3. QED
    BY <2>1, <2>2 DEF SerialInv, Call
<1>5. CASE RetireMark(e)
  <2>1. inflight' = {Call("retire", e, None, None)}
    BY <1>5, FreeIsIdle DEF RetireMark
  <2>2. Call("retire", e, None, None) \in Ops
    BY DEF Call, Ops
  <2>3. QED
    BY <2>1, <2>2 DEF SerialInv, Call
<1>6. CASE RecipientObserve(e) \/ \E new \in Endpoint : NativeHandoff(e, new)
  BY <1>6, FreeIsIdle, IdleSerial DEF RecipientObserve, NativeHandoff
<1>7. QED
  BY <1>0, <1>1, <1>2, <1>3, <1>4, <1>5, <1>6

LEMMA MessageSerial ==
  ASSUME Slots = 1, TypeOK, GrantInv, SerialInv, MessageStep
  PROVE  SerialInv'
<1>1. ASSUME NEW e \in Endpoint, Claim(e) PROVE SerialInv'
  BY <1>1, FreeIsIdle, IdleSerial DEF Claim
<1>2. ASSUME NEW m \in Message, TtlElapses(m) \/ LeaseLapses(m)
      PROVE  SerialInv'
  BY <1>2, SerialFrame DEF TtlElapses, LeaseLapses, SetWork
<1>3. ASSUME NEW m \in Message, NEW e \in Endpoint, NEW p \in Party,
             Submit(m, e, p)
      PROVE  SerialInv'
  BY <1>3, FreeIsIdle, IdleSerial DEF Submit, Insert
<1>4. ASSUME NEW m \in Message, NEW e \in Endpoint, NEW o \in Message,
             SubmitReply(m, e, o)
      PROVE  SerialInv'
  BY <1>4, FreeIsIdle, IdleSerial DEF SubmitReply, Insert
<1>5. ASSUME NEW m \in Message, NEW e \in Endpoint, NEW native \in BOOLEAN,
             BeginPresent(m, e, native)
      PROVE  SerialInv'
  BY <1>5, FreeIsIdle, IdleSerial DEF BeginPresent
<1>6. ASSUME NEW m \in Message, NEW e \in Endpoint,
             NEW s \in Reports \intersect Outcomes, Receipt(m, e, s)
      PROVE  SerialInv'
  BY <1>6, FreeIsIdle, IdleSerial DEF Receipt
<1>7. ASSUME NEW m \in Message, NEW e \in Endpoint, Cancel(m, e)
      PROVE  SerialInv'
  BY <1>7, FreeIsIdle, IdleSerial DEF Cancel
<1>8. ASSUME NEW m \in Message, NEW e \in Endpoint, StatusCheck(m, e)
      PROVE  SerialInv'
  <2>1. inflight' = {Call("status", e, m, msg[m].state)}
    BY <1>8, FreeIsIdle DEF StatusCheck
  <2>2. Call("status", e, m, msg[m].state) \in Ops
    BY <1>8 DEF StatusCheck, Waiting, Call, Ops
  <2>3. receipts'[m] # "presented"
    BY <1>8 DEF StatusCheck, GrantInv, GrantOf, Ungranted, Pending
  <2>4. QED
    BY <2>1, <2>2, <2>3 DEF SerialInv, Call
<1>9. ASSUME NEW m \in Message, NEW e \in Endpoint, StatusWrite(m, e)
      PROVE  SerialInv'
  BY <1>9, LastCall, IdleSerial DEF StatusWrite
<1>10. QED
  BY <1>1, <1>2, <1>3, <1>4, <1>5, <1>6, <1>7, <1>8, <1>9 DEF MessageStep

LEMMA StepSerial ==
  ASSUME Slots = 1, TypeOK, GrantInv, SerialInv, [Next]_vars
  PROVE  SerialInv'
<1>1. CASE ChoiceStep \/ WorkStep \/ \E to \in Modes : Maintenance(to)
  <2>1. UNCHANGED <<inflight, epState, receipts>>
    BY <1>1, ChoiceWorkKeep
  <2>2. QED
    BY <2>1, SerialFrame
<1>2. CASE HubCrash
  BY <1>2, IdleSerial DEF HubCrash
<1>3. CASE UNCHANGED vars
  BY <1>3, SerialFrame DEF vars
<1>4. QED
  BY <1>1, <1>2, <1>3, EndpointSerial, MessageSerial DEF Next

LEMMA SerialInvariant ==
  ASSUME Slots = 1
  PROVE  Spec => []SerialInv
<1>1. Init => SerialInv
  BY DEF Init, SerialInv
<1>2. TypeOK /\ GrantInv /\ SerialInv /\ [Next]_vars => SerialInv'
  BY StepSerial
<1>3. QED
  BY <1>1, <1>2, TypeCorrect, GrantsInvariant, PTL DEF Spec

(* Only register makes an endpoint live. *)
LEMMA StepRetired ==
  ASSUME Slots = 1, TypeOK, SerialInv, [Next]_vars, NEW e \in Endpoint,
         epState[e] = "retired"
  PROVE  epState'[e] = "retired"
<1>1. CASE EndpointStep
  <2>1. ASSUME NEW x \in Endpoint, RegisterWrite(x)
        PROVE  epState'[e] = "retired"
    BY <2>1 DEF RegisterWrite, SerialInv, TypeOK
  <2>2. ASSUME NEW x \in Endpoint,
               RetireMark(x) \/ \E new \in Endpoint : NativeHandoff(x, new)
        PROVE  epState'[e] = "retired"
    BY <2>2 DEF RetireMark, NativeHandoff, TypeOK
  <2>3. QED
    BY <1>1, <2>1, <2>2
    DEF EndpointStep, RegisterCheck, HeartbeatLapse, AttestCheck, AttestWrite,
        RetireSweep, RecipientObserve, ObservationLapse
<1>2. CASE MessageStep
  <2>1. epState' = epState
    BY <1>2, MessageKeepsEndpoints
  <2>2. QED
    BY <2>1
<1>3. CASE ~ EndpointStep /\ ~ MessageStep
  BY <1>3, ChoiceWorkKeep DEF Next, vars, HubCrash
<1>4. QED
  BY <1>1, <1>2, <1>3

(* unified-messaging.md, "Retired identities are never revived": what the   *)
(* document says is what the hub does while it serves one request at a time.*)
THEOREM SerialRetiredForever == Slots = 1 => (Spec => RetiredForever)
<1> SUFFICES ASSUME Slots = 1 PROVE Spec => RetiredForever
  OBVIOUS
<1>1. TypeOK /\ SerialInv /\ [Next]_vars
        => [\A e \in Endpoint :
              epState[e] = "retired" => epState'[e] = "retired"]_vars
  BY StepRetired
<1>2. QED
  BY <1>1, TypeCorrect, SerialInvariant, PTL DEF Spec, RetiredForever

(* Receipts are written by receipt and by delivery_status. *)
LEMMA StepReceipts ==
  ASSUME Slots = 1, TypeOK, GrantInv, SerialInv, [Next]_vars,
         NEW m \in Message, receipts[m] = "presented"
  PROVE  receipts'[m] = "presented"
<1>1. ASSUME NEW n \in Message, NEW e \in Endpoint,
             NEW s \in Reports \intersect Outcomes, Receipt(n, e, s)
      PROVE  receipts'[m] = "presented"
  BY <1>1 DEF Receipt, Forward, GrantInv, GrantOf, TypeOK
<1>2. ASSUME NEW n \in Message, NEW e \in Endpoint, StatusWrite(n, e)
      PROVE  receipts'[m] = "presented"
  BY <1>2 DEF StatusWrite, SerialInv, TypeOK
<1>3. CASE EndpointStep
  BY <1>3
  DEF EndpointStep, RegisterCheck, RegisterWrite, HeartbeatLapse,
      AttestCheck, AttestWrite, RetireMark, RetireSweep, RecipientObserve,
      ObservationLapse, NativeHandoff
<1>4. CASE MessageStep
  <2>1. receipts' = receipts
          \/ (\E n \in Message, e \in Endpoint :
                \/ \E s \in Reports \intersect Outcomes : Receipt(n, e, s)
                \/ StatusWrite(n, e))
    BY <1>4, MessageKeepsEndpoints
  <2>2. QED
    BY <1>1, <1>2, <2>1
<1>5. QED
  BY <1>3, <1>4, OtherSteps

(* receipt, "receipt state cannot move backwards": kept while the hub       *)
(* serves one request at a time.                                            *)
THEOREM SerialReceiptsStay == Slots = 1 => (Spec => ReceiptNeverRegresses)
<1> SUFFICES ASSUME Slots = 1 PROVE Spec => ReceiptNeverRegresses
  OBVIOUS
<1>1. TypeOK /\ GrantInv /\ SerialInv /\ [Next]_vars
        => [\A m \in Message :
              receipts[m] = "presented" => receipts'[m] = "presented"]_vars
  BY StepReceipts
<1>2. QED
  BY <1>1, TypeCorrect, GrantsInvariant, SerialInvariant, PTL
  DEF Spec, ReceiptNeverRegresses

(* What a reply and a hand-off leave behind: the successor that answers is  *)
(* the only endpoint of its surface to which the message could have gone.   *)
HeirOf(m) ==
  LET a == owner[m].actor
      to == msg[m].to
  IN  /\ a # None =>
           /\ Exists(m) /\ a \in attested \intersect Codex
           /\ epState[a] # "absent"
           /\ SameNative(a, to) /\ epState[to] = "retired"
      /\ \A r \in Message : (msg[r].irt = m /\ msg[r].from # to) =>
           /\ Exists(m) /\ msg[r].from \in attested
           /\ SameNative(msg[r].from, to) /\ epState[to] = "retired"
           /\ (a # None /\ epState[a] # "retired"
                 /\ (a \in Tui) = (msg[r].from \in Tui)) => msg[r].from = a

HeirInv == \A m \in Message : HeirOf(m)

(* Of a native conversation and a surface, a successor is the only one.     *)
LEMMA SoleHeir ==
  ASSUME NEW h \in Endpoint, NEW s \in NativeSuccessor(h), NEW a \in Endpoint,
         Live(a), a \in attested, SameNative(a, h),
         (a \in Tui) = (s \in Tui)
  PROVE  a = s
<1> DEFINE heirs == {e \in Endpoint : /\ Live(e) /\ e \in attested
                                      /\ SameNative(e, h)
                                      /\ (e \in Tui) = (h \in Tui)}
<1>1. s \in heirs /\ Cardinality(heirs) = 1
  BY DEF NativeSuccessor
<1>2. IsFiniteSet(heirs)
  BY FS_Subset, MailboxAssumption
<1>3. PICK x : heirs = {x}
  <2> HIDE DEF heirs
  <2>1. QED
    BY <1>1, <1>2, FS_Singleton
<1>4. a \in heirs
  BY <1>1
<1>5. QED
  BY <1>1, <1>3, <1>4

(* Rows are kept, nobody is handed anything, and retired stays retired. *)
LEMMA HeirFrame ==
  ASSUME TypeOK, RowsKept, NEW m \in Message, HeirOf(m),
         owner'[m] = owner[m], attested \subseteq attested',
         \A e \in Endpoint :
           /\ epState[e] = "retired" => epState'[e] = "retired"
           /\ epState[e] # "absent" => epState'[e] # "absent"
  PROVE  HeirOf(m)'
<1>1. CASE ~ Exists(m)
  BY <1>1 DEF HeirOf, RowsKept
<1>2. CASE Exists(m)
  <2>1. msg[m].to \in Endpoint
    BY <1>2 DEF TypeOK, Rows, NoMessage, Exists
  <2>2. owner[m].actor \in Endpoint \union {None}
    BY DEF TypeOK, Owner
  <2>3. QED
    BY <1>2, <2>1, <2>2 DEF HeirOf, RowsKept, SameNative
<1>3. QED
  BY <1>1, <1>2

(* A hand-off gives nobody a message that was answered elsewhere. *)
LEMMA HandoffHeir ==
  ASSUME TypeOK, NEW old \in Endpoint, NEW new \in Endpoint,
         NativeHandoff(old, new), NEW m \in Message, HeirOf(m)
  PROVE  HeirOf(m)'
<1>1. RowsKept /\ attested' = attested /\ msg' = msg
  BY DEF NativeHandoff, RowsKept, Exists
<1>2. \A e \in Endpoint : epState'[e] = IF e = old THEN "retired" ELSE epState[e]
  BY DEF NativeHandoff, TypeOK
<1>3. CASE m \notin Inherited(old)
  BY <1>1, <1>2, <1>3, HeirFrame DEF NativeHandoff
<1>4. CASE m \in Inherited(old)
  <2>1. Exists(m) /\ owner'[m].actor = new /\ DeliveryActor(m) = old
    BY <1>4 DEF Inherited, NativeHandoff, NextOwner, Waiting, Exists, Pending
  <2>2. /\ new \in attested \intersect Codex /\ epState[new] = "live"
        /\ SameNative(old, new) /\ old # new /\ old \in Codex
    BY DEF NativeHandoff, Live
  <2>3. msg[m].to \in Endpoint
    BY <2>1 DEF TypeOK, Rows, NoMessage, Exists
  <2>4. SameNative(old, msg[m].to) /\ epState'[msg[m].to] = "retired"
    <3>1. CASE owner[m].actor = None
      BY <1>2, <2>1, <2>3, <3>1 DEF DeliveryActor, SameNative
    <3>2. CASE owner[m].actor # None
      BY <1>2, <2>1, <2>3, <3>2 DEF DeliveryActor, HeirOf
    <3>3. QED
      BY <3>1, <3>2
  <2>5. ASSUME NEW r \in Message, msg[r].irt = m, msg[r].from # msg[m].to
        PROVE  FALSE
    <3>1. msg[r].from \in attested /\ SameNative(msg[r].from, msg[m].to)
      BY <2>5 DEF HeirOf
    <3>2. SameNative(msg[r].from, old) /\ msg[r].from \in Codex
      BY <2>2, <2>4, <3>1 DEF SameNative
    <3>3. Exists(r)
      BY <2>5, RepliesExist
    <3>4. QED
      BY <1>4, <2>5, <3>1, <3>2, <3>3 DEF Inherited, RepliedBy
  <2>6. SameNative(new, msg[m].to)
    BY <2>2, <2>4 DEF SameNative
  <2>7. epState'[new] # "absent"
    BY <1>2, <2>2
  <2>8. QED
    BY <1>1, <2>1, <2>2, <2>4, <2>5, <2>6, <2>7
    DEF HeirOf, SameNative, Exists
<1>5. QED
  BY <1>3, <1>4

(* A reply comes from the recipient, or from its only successor. *)
LEMMA InsertHeir ==
  ASSUME TypeOK, NEW n \in Message, NEW s \in Endpoint, NEW x \in Endpoint,
         NEW o \in Message \union {None}, Inserted(n, s, x, o),
         NEW m \in Message, HeirOf(m)
  PROVE  HeirOf(m)'
<1>1. epState' = epState /\ attested' = attested /\ owner' = owner
  BY DEF Inserted, Insert
<1>2. CASE m = n
  <2>1. ~ Exists(m) /\ o # m
    BY <1>2, MailboxAssumption DEF Inserted
  <2>2. owner[m].actor = None
    BY <2>1 DEF HeirOf
  <2>3. ASSUME NEW r \in Message, msg'[r].irt = m
        PROVE  msg'[r].from = msg'[m].to
    <3>1. r # n
      BY <2>1, <2>3, InsertRows
    <3>2. msg[r].irt = m
      BY <2>3, <3>1, InsertRows
    <3>3. Exists(r) /\ msg[r].from = msg[m].to
      BY <2>1, <3>2, RepliesExist DEF HeirOf
    <3>4. msg[m].to = None /\ msg[r].from \in Endpoint
      BY <2>1, <3>3 DEF TypeOK, Rows, NoMessage, Exists
    <3>5. QED
      BY <3>3, <3>4, MailboxAssumption
  <2>4. QED
    BY <1>1, <2>2, <2>3 DEF HeirOf
<1>3. CASE m # n
  <2>1. msg'[m] = msg[m]
    BY <1>3, InsertRows
  <2>2. ASSUME NEW r \in Message, msg'[r].irt = m, msg'[r].from # msg[m].to
        PROVE  /\ Exists(m) /\ msg'[r].from \in attested
               /\ SameNative(msg'[r].from, msg[m].to)
               /\ epState[msg[m].to] = "retired"
               /\ (owner[m].actor # None /\ epState[owner[m].actor] # "retired"
                     /\ (owner[m].actor \in Tui) = (msg'[r].from \in Tui))
                    => msg'[r].from = owner[m].actor
    <3>1. CASE r # n
      <4>1. msg'[r] = msg[r]
        BY <3>1, InsertRows
      <4>2. QED
        BY <2>2, <4>1 DEF HeirOf
    <3>2. CASE r = n
      <4>1. o = m /\ msg'[r].from = s
        BY <2>2, <3>2, InsertRows
      <4>2. Exists(m) /\ s \in NativeSuccessor(msg[m].to)
        BY <2>2, <4>1, MailboxAssumption DEF Inserted, SameNativeParty
      <4>3. msg[m].to \in Endpoint
        BY <4>2 DEF TypeOK, Rows, NoMessage, Exists
      <4>4. /\ s \in attested /\ SameNative(s, msg[m].to)
            /\ epState[msg[m].to] = "retired"
        BY <4>2 DEF NativeSuccessor
      <4>5. ASSUME owner[m].actor # None,
                   epState[owner[m].actor] # "retired",
                   (owner[m].actor \in Tui) = (s \in Tui)
            PROVE  s = owner[m].actor
        <5>1. owner[m].actor \in Endpoint
          BY <4>5 DEF TypeOK, Owner
        <5>2. Live(owner[m].actor)
          BY <4>5, <5>1 DEF HeirOf, Live, TypeOK
        <5>3. QED
          BY <4>2, <4>3, <4>5, <5>1, <5>2, SoleHeir DEF HeirOf
      <4>6. QED
        BY <4>1, <4>2, <4>4, <4>5
    <3>3. QED
      BY <3>1, <3>2
  <2>3. QED
    BY <1>1, <2>1, <2>2 DEF HeirOf, SameNative, Exists
<1>4. QED
  BY <1>2, <1>3

(* Endpoints are never unregistered, nor their attestations withdrawn, and  *)
(* only a hand-off changes who owes a message.                              *)
LEMMA EndpointsGrow ==
  ASSUME TypeOK, [Next]_vars,
         ~ \E old \in Endpoint, new \in Endpoint : NativeHandoff(old, new)
  PROVE  /\ owner' = owner /\ handed' = handed /\ attested \subseteq attested'
         /\ \A e \in Endpoint : epState[e] # "absent" => epState'[e] # "absent"
<1>1. CASE EndpointStep
  <2>1. ASSUME NEW x \in Endpoint, RegisterWrite(x) \/ RetireMark(x)
        PROVE  /\ owner' = owner /\ handed' = handed /\ attested \subseteq attested'
               /\ \A e \in Endpoint :
                    epState[e] # "absent" => epState'[e] # "absent"
    BY <2>1 DEF RegisterWrite, RetireMark, TypeOK
  <2>2. QED
    BY <1>1, <2>1
    DEF EndpointStep, RegisterCheck, HeartbeatLapse, AttestCheck, AttestWrite,
        RetireSweep, RecipientObserve, ObservationLapse
<1>2. CASE MessageStep
  BY <1>2, MessageKeepsEndpoints
<1>3. CASE ~ EndpointStep /\ ~ MessageStep
  BY <1>3, ChoiceWorkKeep DEF Next, vars, HubCrash
<1>4. QED
  BY <1>1, <1>2, <1>3

LEMMA StepHeir ==
  ASSUME Slots = 1, TypeOK, SerialInv, HeirInv, [Next]_vars
  PROVE  HeirInv'
<1> SUFFICES ASSUME NEW m \in Message PROVE HeirOf(m)'
  BY DEF HeirInv
<1>0. HeirOf(m)
  BY DEF HeirInv
<1>1. ASSUME NEW old \in Endpoint, NEW new \in Endpoint,
             NativeHandoff(old, new)
      PROVE  HeirOf(m)'
  BY <1>0, <1>1, HandoffHeir
<1>2. ASSUME NEW n \in Message, NEW s \in Endpoint, NEW x \in Endpoint,
             NEW o \in Message \union {None}, Inserted(n, s, x, o)
      PROVE  HeirOf(m)'
  BY <1>0, <1>2, InsertHeir
<1>3. CASE /\ RowsKept
           /\ ~ \E old \in Endpoint, new \in Endpoint : NativeHandoff(old, new)
  <2>1. \A e \in Endpoint : epState[e] = "retired" => epState'[e] = "retired"
    BY StepRetired
  <2>2. QED
    BY <1>0, <1>3, <2>1, EndpointsGrow, HeirFrame
<1>4. QED
  BY <1>1, <1>2, <1>3, RowStep

(* Whoever may begin a message is the recipient, or the only endpoint of    *)
(* its surface that could have answered in the recipient's place.           *)
LEMMA StepUnanswered ==
  ASSUME TypeOK, HeirInv, [Next]_vars, NEW m \in Message, begun'[m] > begun[m],
         NEW r \in Message, msg[r].irt = m,
         msg[r].from = msg[m].to
           \/ (msg[r].from \in Tui) = (presenter'[m] \in Tui)
  PROVE  FALSE
<1>1. PICK e \in Endpoint, native \in BOOLEAN :
        BeginPresent(m, e, native) /\ presenter'[m] = e
  BY BegunByBegin
<1>2. msg[r].from # msg[m].to /\ msg[r].from # e
  BY <1>1, RepliesExist DEF BeginPresent, RepliedBy
<1>3. /\ epState[msg[m].to] = "retired"
      /\ owner[m].actor # None /\ epState[owner[m].actor] # "retired"
           /\ (owner[m].actor \in Tui) = (msg[r].from \in Tui)
          => msg[r].from = owner[m].actor
  BY <1>2 DEF HeirInv, HeirOf
<1>4. owner[m].actor = e
  BY <1>1, <1>3 DEF BeginPresent, MayPresent, Live
<1>5. epState[e] = "live"
  BY <1>1 DEF BeginPresent, Live
<1>6. QED
  BY <1>1, <1>2, <1>3, <1>4, <1>5, MailboxAssumption

(* begin_present: on a hub that serves one request at a time, no surface is *)
(* given a message that its conversation answered on that surface, however  *)
(* the message was handed on and whoever answered in its place.             *)
THEOREM SerialAnsweredNotBegun == Slots = 1 => (Spec => NothingBegunAfterReply)
<1> SUFFICES ASSUME Slots = 1 PROVE Spec => NothingBegunAfterReply
  OBVIOUS
<1>1. Init => HeirInv
  BY MailboxAssumption DEF Init, HeirInv, HeirOf, NoOwner, NoMessage
<1>2. TypeOK /\ SerialInv /\ HeirInv /\ [Next]_vars => HeirInv'
  BY StepHeir
<1>3. TypeOK /\ HeirInv /\ [Next]_vars
        => [\A m \in Message : begun'[m] > begun[m] =>
             ~ Answered(m, {msg[m].to} \union
                 {e \in Endpoint : /\ SameNative(e, msg[m].to)
                                  /\ (e \in Tui) = (presenter'[m] \in Tui)})]_vars
  BY StepUnanswered DEF Answered
<1>4. QED
  BY <1>1, <1>2, <1>3, TypeCorrect, SerialInvariant, PTL
  DEF Spec, NothingBegunAfterReply

-----------------------------------------------------------------------------
(* Chains of hand-offs *)

(* A nonempty set of numbers has a least element. *)
LEMMA Least ==
  ASSUME NEW T \in SUBSET Nat, T # {}
  PROVE  \E x \in T : \A y \in T : x <= y
<1> DEFINE I == {0 .. x : x \in T}
<1>1. I \subseteq FiniteSubsetsOf(Nat)
  <2>1. ASSUME NEW x \in T PROVE 0 .. x \subseteq Nat /\ IsFiniteSet(0 .. x)
    BY FS_Interval
  <2>2. QED
    BY <2>1 DEF FiniteSubsetsOf
<1>2. PICK J \in I : \A K \in I : ~ (<<K, J>> \in StrictSubsetOrdering(Nat))
  <2> HIDE DEF I
  <2>1. I # {}
    BY DEF I
  <2>2. QED
    BY <1>1, <2>1, FS_StrictSubsetOrderingWellFounded, WFMin
<1>3. PICK x \in T : J = 0 .. x
  OBVIOUS
<1>4. ASSUME NEW y \in T, y < x PROVE FALSE
  <2>1. 0 .. y \in I /\ 0 .. y \subseteq 0 .. x /\ x \notin 0 .. y /\ x \in 0 .. x
    BY <1>4
  <2>2. <<0 .. y, J>> \in StrictSubsetOrdering(Nat)
    BY <1>3, <2>1 DEF StrictSubsetOrdering
  <2>3. QED
    BY <1>2, <2>1, <2>2
<1>5. QED
  BY <1>4

(* Induction over numbers, with the predicate as a set of numbers. *)
LEMMA Induction ==
  ASSUME NEW P, 0 \in P, \A n \in Nat : n \in P => n + 1 \in P
  PROVE  Nat \subseteq P
<1> SUFFICES ASSUME Nat \ P # {} PROVE FALSE
  OBVIOUS
<1>1. PICK x \in Nat \ P : \A y \in Nat \ P : x <= y
  BY Least
<1>2. x # 0
  OBVIOUS
<1>3. x - 1 \in Nat /\ x - 1 \in P
  BY <1>1, <1>2
<1>4. QED
  BY <1>1, <1>3

(* Chains of hand-offs.  Link follows one of them. *)
Link(f, x) == IF x = None THEN None ELSE f[x]

Chain(f, e) ==
  CHOOSE h : h = [n \in Nat |-> IF n = 0 THEN e
                                ELSE IF h[n - 1] = None THEN None
                                ELSE f[h[n - 1]]]

IsChain(g, f, e, n) ==
  /\ g = [i \in 0..n |-> g[i]]
  /\ g[0] = e
  /\ \A i \in 1..n : g[i] = Link(f, g[i - 1])

LEMMA ChainOf ==
  ASSUME NEW f, NEW e, NEW n \in Nat
  PROVE  \E g : IsChain(g, f, e, n)
<1> DEFINE P == {i \in Nat : \E g : IsChain(g, f, e, i)}
<1>1. 0 \in P
  <2>1. IsChain([i \in 0..0 |-> e], f, e, 0)
    BY DEF IsChain
  <2>2. QED
    BY <2>1
<1>2. ASSUME NEW i \in Nat, i \in P PROVE i + 1 \in P
  <2>1. PICK g : IsChain(g, f, e, i)
    BY <1>2
  <2> DEFINE k == [j \in 0..(i + 1) |-> IF j = i + 1 THEN Link(f, g[i]) ELSE g[j]]
  <2>2. /\ k = [j \in 0..(i + 1) |-> k[j]]
        /\ k[0] = g[0]
        /\ k[i + 1] = Link(f, g[i]) 
        /\ \A j \in 0..i : k[j] = g[j]
    OBVIOUS
  <2> HIDE DEF k
  <2>3. IsChain(k, f, e, i + 1)
    <3>1. \A j \in 1..i : j \in 0..i /\ j - 1 \in 0..i
      OBVIOUS
    <3>2. \A j \in 1..(i + 1) : j = i + 1 \/ j \in 1..i
      OBVIOUS
    <3>3. i \in 0..i /\ (i + 1) - 1 = i
      OBVIOUS
    <3>4. ASSUME NEW j \in 1..(i + 1) PROVE k[j] = Link(f, k[j - 1])
      <4>1. CASE j = i + 1
        BY <2>2, <3>3, <4>1
      <4>2. CASE j \in 1..i
        BY <2>1, <2>2, <3>1, <4>2 DEF IsChain
      <4>3. QED
        BY <3>2, <4>1, <4>2
    <3>5. QED
      BY <2>1, <2>2, <3>4 DEF IsChain
  <2>4. QED
    BY <2>3
<1> HIDE DEF P
<1>3. Nat \subseteq P
  BY <1>1, <1>2, Induction
<1>4. QED
  BY <1>3 DEF P

LEMMA ChainsAgree ==
  ASSUME NEW f, NEW e, NEW n \in Nat, NEW m \in Nat, NEW g, NEW k,
         IsChain(g, f, e, n), IsChain(k, f, e, m)
  PROVE  \A i \in Nat : i <= n /\ i <= m => g[i] = k[i]
<1> DEFINE P == {i \in Nat : i <= n /\ i <= m => g[i] = k[i]}
<1>1. 0 \in P
  BY DEF IsChain
<1>2. ASSUME NEW i \in Nat, i \in P PROVE i + 1 \in P
  <2> SUFFICES ASSUME i + 1 <= n, i + 1 <= m PROVE g[i + 1] = k[i + 1]
    OBVIOUS
  <2>1. i + 1 \in 1..n /\ i + 1 \in 1..m /\ (i + 1) - 1 = i
    OBVIOUS
  <2>2. g[i] = k[i]
    BY <1>2
  <2>3. g[i + 1] = Link(f, g[i]) /\ k[i + 1] = Link(f, k[i])
    BY <2>1 DEF IsChain
  <2>4. QED
    BY <2>2, <2>3
<1> HIDE DEF P
<1>3. Nat \subseteq P
  BY <1>1, <1>2, Induction
<1>4. QED
  BY <1>3 DEF P

(* The recursive function exists, so that it is what its equation says. *)
LEMMA ChainSteps ==
  ASSUME NEW f, NEW e
  PROVE  /\ Chain(f, e)[0] = e
         /\ \A n \in Nat : Chain(f, e)[n + 1] = Link(f, Chain(f, e)[n])
<1> DEFINE Part(n) == CHOOSE g : IsChain(g, f, e, n)
           Body(h) == [n \in Nat |-> IF n = 0 THEN e
                                     ELSE IF h[n - 1] = None THEN None
                                     ELSE f[h[n - 1]]]
           h0 == [n \in Nat |-> Part(n)[n]]
<1>1. ASSUME NEW n \in Nat PROVE IsChain(Part(n), f, e, n)
  BY ChainOf
<1> HIDE DEF Part
<1>2. h0[0] = e
  BY <1>1 DEF IsChain
<1>3. ASSUME NEW n \in Nat \ {0} PROVE h0[n] = Link(f, h0[n - 1])
  <2>1. n - 1 \in Nat /\ n - 1 <= n /\ n \in 1..n
    OBVIOUS
  <2>2. IsChain(Part(n), f, e, n) /\ IsChain(Part(n - 1), f, e, n - 1)
    BY <1>1, <2>1
  <2>3. Part(n)[n - 1] = Part(n - 1)[n - 1]
    BY <2>1, <2>2, ChainsAgree
  <2>4. Part(n)[n] = Link(f, Part(n)[n - 1])
    BY <2>1, <2>2 DEF IsChain
  <2>5. QED
    BY <2>1, <2>3, <2>4
<1>4. h0 = Body(h0)
  <2> HIDE DEF h0
  <2>1. h0 = [n \in Nat |-> h0[n]]
    BY DEF h0
  <2>2. ASSUME NEW n \in Nat PROVE h0[n] = Body(h0)[n]
    BY <1>2, <1>3 DEF Link
  <2>3. QED
    BY <2>1, <2>2
<1>5. Chain(f, e) = Body(Chain(f, e))
  <2>1. Chain(f, e) = CHOOSE h : h = Body(h)
    BY DEF Chain
  <2> HIDE DEF Body, h0
  <2>2. QED
    BY <1>4, <2>1
<1>6. ASSUME NEW n \in Nat
      PROVE  Chain(f, e)[n] = IF n = 0 THEN e
                              ELSE Link(f, Chain(f, e)[n - 1])
  <2> DEFINE C == Chain(f, e)
  <2> HIDE DEF C
  <2>1. C = Body(C)
    BY <1>5 DEF C
  <2>2. Body(C)[n] = IF n = 0 THEN e ELSE Link(f, C[n - 1])
    BY DEF Link
  <2>3. QED
    BY <2>1, <2>2 DEF C
<1>7. QED
  BY <1>6

LEMMA HeirsIsChain ==
  ASSUME NEW e PROVE Heirs(e) = Chain(handed, e) /\ Heirs(e)' = Chain(handed', e)
  BY DEF Heirs, Chain

LEMMA ChainStays ==
  ASSUME NEW f, NEW g, NEW e, NEW n \in Nat,
         \A i \in 0..n : i < n => Link(g, Chain(f, e)[i]) = Link(f, Chain(f, e)[i])
  PROVE  \A i \in 0..n : Chain(g, e)[i] = Chain(f, e)[i]
<1> DEFINE P == {i \in Nat : i <= n => Chain(g, e)[i] = Chain(f, e)[i]}
<1>1. 0 \in P
  BY ChainSteps
<1>2. ASSUME NEW i \in Nat, i \in P PROVE i + 1 \in P
  <2> SUFFICES ASSUME i + 1 <= n PROVE Chain(g, e)[i + 1] = Chain(f, e)[i + 1]
    OBVIOUS
  <2>1. i \in 0..n /\ i < n
    OBVIOUS
  <2>2. Chain(g, e)[i] = Chain(f, e)[i]
    BY <1>2, <2>1
  <2>3. QED
    BY <2>1, <2>2, ChainSteps
<1> HIDE DEF P
<1>3. Nat \subseteq P
  BY <1>1, <1>2, Induction
<1>4. QED
  BY <1>3 DEF P

(* No chain continues after its end, and its members are endpoints. *)
LEMMA ChainMembers ==
  ASSUME TypeOK, NEW e \in Endpoint, NEW n \in Nat
  PROVE  Chain(handed, e)[n] \in Endpoint \union {None}
<1> DEFINE P == {i \in Nat : Chain(handed, e)[i] \in Endpoint \union {None}}
<1>1. 0 \in P
  BY ChainSteps
<1>2. ASSUME NEW i \in Nat, i \in P PROVE i + 1 \in P
  <2>1. Chain(handed, e)[i + 1] = Link(handed, Chain(handed, e)[i])
    BY ChainSteps
  <2>2. QED
    BY <1>2, <2>1 DEF Link, TypeOK
<1> HIDE DEF P
<1>3. Nat \subseteq P
  BY <1>1, <1>2, Induction
<1>4. QED
  BY <1>3 DEF P

LEMMA ChainEnds ==
  ASSUME NEW f, NEW e, NEW n \in Nat, NEW i \in 0..n, Chain(f, e)[i] = None
  PROVE  Chain(f, e)[n] = None
<1> DEFINE P == {k \in Nat : Chain(f, e)[i + k] = None}
<1>1. 0 \in P
  OBVIOUS
<1>2. ASSUME NEW k \in Nat, k \in P PROVE k + 1 \in P
  <2>1. i + k \in Nat /\ i + (k + 1) = (i + k) + 1
    OBVIOUS
  <2>2. Chain(f, e)[(i + k) + 1] = Link(f, Chain(f, e)[i + k])
    BY <2>1, ChainSteps
  <2>3. QED
    BY <1>2, <2>1, <2>2 DEF Link
<1> HIDE DEF P
<1>3. n - i \in P
  BY <1>1, <1>2, Induction
<1>4. QED
  BY <1>3 DEF P

(* Whoever owes a message is the end of the chain, counted from its         *)
(* recipient, that the generation of its delivery owner says.               *)
OwedOf(m) ==
  /\ (owner[m].actor = None) <=> (owner[m].gen = 0)
  /\ owner[m].actor # None => Exists(m)
  /\ Exists(m) => Heirs(msg[m].to)[owner[m].gen] = DeliveryActor(m)

OwedInv == \A m \in Message : OwedOf(m)

(* A hand-off adds a link to the end of a chain and changes none before it. *)
LEMMA HandoffExtends ==
  ASSUME TypeOK, NEW old \in Endpoint, NEW new \in Endpoint,
         NativeHandoff(old, new), NEW e \in Endpoint, NEW n \in Nat,
         Chain(handed, e)[n] # None
  PROVE  /\ Chain(handed', e)[n] = Chain(handed, e)[n]
         /\ Chain(handed, e)[n] = old => Chain(handed', e)[n + 1] = new
<1>1. /\ handed' = [handed EXCEPT ![old] = new] /\ handed[old] = None
      /\ handed \in [Endpoint -> Endpoint \union {None}]
  BY DEF NativeHandoff, TypeOK
<1>2. ASSUME NEW i \in 0..n, i < n
      PROVE  Link(handed', Chain(handed, e)[i]) = Link(handed, Chain(handed, e)[i])
  <2> DEFINE x == Chain(handed, e)[i]
  <2>1. i \in Nat /\ i + 1 \in 0..n
    BY <1>2
  <2>2. Chain(handed, e)[i + 1] = Link(handed, x)
    BY <2>1, ChainSteps
  <2>3. x \in Endpoint \union {None}
    BY <2>1, ChainMembers
  <2>4. Link(handed, x) # None
    BY <2>1, <2>2, ChainEnds
  <2> HIDE DEF x
  <2>5. x # None /\ x # old
    BY <1>1, <2>4 DEF Link
  <2>6. handed'[x] = handed[x]
    BY <1>1, <2>3, <2>5
  <2>7. QED
    BY <2>5, <2>6 DEF Link, x
<1>3. \A i \in 0..n : Chain(handed', e)[i] = Chain(handed, e)[i]
  BY <1>2, ChainStays
<1>4. Chain(handed', e)[n] = Chain(handed, e)[n]
  BY <1>3
<1>5. Chain(handed', e)[n + 1] = Link(handed', Chain(handed', e)[n])
  BY ChainSteps
<1>6. Link(handed', old) = new
  BY <1>1, MailboxAssumption DEF Link
<1>7. QED
  BY <1>4, <1>5, <1>6

LEMMA HandoffOwed ==
  ASSUME TypeOK, NEW old \in Endpoint, NEW new \in Endpoint,
         NativeHandoff(old, new), NEW m \in Message, OwedOf(m)
  PROVE  OwedOf(m)'
<1>1. msg' = msg
  BY DEF NativeHandoff
<1>2. CASE ~ Exists(m)
  <2>1. m \notin Inherited(old)
    BY <1>2 DEF Inherited, Waiting, Exists, Pending
  <2>2. owner'[m] = owner[m]
    BY <2>1 DEF NativeHandoff
  <2>3. QED
    BY <1>1, <1>2, <2>2 DEF OwedOf, Exists
<1>3. CASE Exists(m)
  <2> DEFINE e == msg[m].to
             n == owner[m].gen
  <2>1. e \in Endpoint /\ n \in Nat /\ owner[m].actor \in Endpoint \union {None}
    BY <1>3 DEF TypeOK, Rows, NoMessage, Exists, Owner
  <2>2. Chain(handed, e)[n] = DeliveryActor(m)
    BY <1>3, <2>1, HeirsIsChain DEF OwedOf
  <2>3. DeliveryActor(m) # None
    BY <2>1, MailboxAssumption DEF DeliveryActor
  <2>4. /\ Chain(handed', e)[n] = DeliveryActor(m)
        /\ DeliveryActor(m) = old => Chain(handed', e)[n + 1] = new
    BY <2>1, <2>2, <2>3, HandoffExtends
  <2>5. Heirs(e)' = Chain(handed', e)
    BY <1>1, HeirsIsChain DEF Heirs, Chain
  <2>6. CASE m \in Inherited(old)
    <3>1. owner'[m].actor = new /\ owner'[m].gen = n + 1 /\ DeliveryActor(m) = old
      BY <2>6 DEF NativeHandoff, NextOwner, Inherited
    <3>2. new # None /\ n + 1 # 0
      BY <2>1, MailboxAssumption
    <3>3. QED
      BY <1>1, <1>3, <2>4, <2>5, <3>1, <3>2 DEF OwedOf, Exists, DeliveryActor
  <2>7. CASE m \notin Inherited(old)
    <3>1. owner'[m] = owner[m]
      BY <2>7 DEF NativeHandoff
    <3>2. QED
      BY <1>1, <1>3, <2>4, <2>5, <3>1 DEF OwedOf, Exists, DeliveryActor
  <2>8. QED
    BY <2>6, <2>7
<1>4. QED
  BY <1>2, <1>3

LEMMA StepOwed == TypeOK /\ OwedInv /\ [Next]_vars => OwedInv'
<1> SUFFICES ASSUME TypeOK, OwedInv, [Next]_vars, NEW m \in Message
             PROVE  OwedOf(m)'
  BY DEF OwedInv
<1>0. OwedOf(m)
  BY DEF OwedInv
<1>1. ASSUME NEW old \in Endpoint, NEW new \in Endpoint,
             NativeHandoff(old, new)
      PROVE  OwedOf(m)'
  BY <1>0, <1>1, HandoffOwed
<1>2. CASE ~ \E old \in Endpoint, new \in Endpoint : NativeHandoff(old, new)
  <2>1. owner' = owner /\ handed' = handed
    BY <1>2, EndpointsGrow
  <2>2. Heirs(msg[m].to)' = Chain(handed, msg'[m].to)
    BY <2>1 DEF Heirs, Chain
  <2>3. CASE Exists(m)
    <3>1. msg'[m].to = msg[m].to
      BY <2>3, RowsGrow
    <3>2. Heirs(msg[m].to)' = Heirs(msg[m].to)
      BY <2>2, <3>1, HeirsIsChain
    <3>3. DeliveryActor(m)' = DeliveryActor(m)
      BY <2>1, <3>1 DEF DeliveryActor
    <3>4. Exists(m)'
      BY <2>3, RowStep, InsertRows DEF RowsKept, Exists
    <3>5. QED
      BY <1>0, <2>1, <2>3, <3>2, <3>3, <3>4 DEF OwedOf
  <2>4. CASE ~ Exists(m)
    <3>1. owner[m].actor = None /\ owner[m].gen = 0
      BY <1>0, <2>4 DEF OwedOf
    <3>2. Heirs(msg[m].to)'[0] = msg'[m].to
      BY <2>2, ChainSteps
    <3>3. QED
      BY <2>1, <3>1, <3>2 DEF OwedOf, DeliveryActor
  <2>5. QED
    BY <2>3, <2>4
<1>3. QED
  BY <1>1, <1>2

(* _handoff_native_delivery: over any number of replacements of an agent's  *)
(* process, whoever owes a message is the last of the chain of successors   *)
(* that starts at its immutable recipient, and the generation the receipts  *)
(* are compared with counts the hand-offs it took part in.                  *)
THEOREM OwnersFollow == Spec => []OwnerFollowsHandoffs
<1>1. Init => OwedInv
  BY DEF Init, OwedInv, OwedOf, NoOwner, NoMessage, Exists
<1>2. TypeOK /\ OwedInv /\ [Next]_vars => OwedInv'
  BY StepOwed
<1>3. TypeOK /\ OwedInv => OwnerFollowsHandoffs
  BY DEF TypeOK, Owner, OwedInv, OwedOf, OwnerFollowsHandoffs, DeliveryActor
<1>4. QED
  BY <1>1, <1>2, <1>3, TypeCorrect, PTL DEF Spec

-----------------------------------------------------------------------------
(* The hub as a host meets it *)

(* What HostHub lets happen to m: nothing, a withdrawal, an operation. *)
Meets(m) ==
  LET before == HostState(m)
      after  == HostState(m)'
  IN  \/ after = before
      \/ before = "open" /\ after \in {"cancelled", "closed"}
      \/ before = "none" /\ after = "open"
      \/ before = "open" /\ after = "dispatching"
      \/ before \in {"open", "dispatching", "uncertain"} /\ after = "uncertain"
      \/ before \in {"open", "dispatching", "uncertain", "presented"}
           /\ after = "presented"

LEMMA MeetsFrame ==
  ASSUME NEW m \in Message, msg'[m].state = msg[m].state PROVE Meets(m)
  BY DEF Meets, HostState, Exists, Waiting

(* m had one state and has another. *)
LEMMA MeetsMove ==
  ASSUME TypeOK, NEW m \in Message,
         \/ Waiting(m) /\ msg'[m].state \in Pending \union
                            {"stale_session", "cancelled", "dispatching"}
         \/ ~ Exists(m) /\ msg'[m].state = "accepted"
         \/ msg[m].state \notin Terminal /\ Exists(m)
              /\ msg[m].state # "presented" /\ msg'[m].state = "uncertain"
         \/ msg[m].state \notin Terminal /\ Exists(m)
              /\ msg'[m].state = "presented"
  PROVE  Meets(m)
<1>1. msg[m].state \in State
  BY DEF TypeOK, Rows, NoMessage, State
<1>2. CASE Waiting(m) /\ msg'[m].state \in Pending \union
             {"stale_session", "cancelled", "dispatching"}
  BY <1>2 DEF Meets, HostState, Exists, Waiting, Pending, Terminal
<1>3. CASE ~ Exists(m) /\ msg'[m].state = "accepted"
  BY <1>3 DEF Meets, HostState, Exists, Waiting, Pending, Terminal
<1>4. CASE /\ msg[m].state \notin Terminal /\ Exists(m)
           /\ \/ msg[m].state # "presented" /\ msg'[m].state = "uncertain"
              \/ msg'[m].state = "presented"
  BY <1>1, <1>4 DEF Meets, HostState, Exists, Waiting, Pending, Terminal, State
<1>5. QED
  BY <1>2, <1>3, <1>4

LEMMA MeetsOne ==
  ASSUME TypeOK, NEW n \in Message, NEW s \in State,
         msg' = [msg EXCEPT ![n].state = s],
         msg'[n].state = s => Meets(n)
  PROVE  \A m \in Message : Meets(m)
<1>1. msg'[n].state = s
  BY DEF TypeOK, Rows, NoMessage
<1>2. \A m \in Message \ {n} : msg'[m] = msg[m]
  BY DEF TypeOK
<1>3. QED
  BY <1>1, <1>2, MeetsFrame

LEMMA MessageMeets ==
  ASSUME TypeOK, Reports \subseteq {"presented", "uncertain", "waiting"},
         MessageStep
  PROVE  \A m \in Message : Meets(m)
<1>1. ASSUME NEW e \in Endpoint, Claim(e) PROVE \A m \in Message : Meets(m)
  <2>1. ASSUME NEW m \in Claimable(e) PROVE Meets(m)
    <3>1. Waiting(m) /\ msg'[m].state = "adapter_received"
      BY <1>1 DEF Claim, Claimable, TypeOK, Rows, NoMessage
    <3>2. QED
      BY <3>1, MeetsMove DEF Pending, Claimable
  <2>2. ASSUME NEW m \in Message \ Claimable(e) PROVE Meets(m)
    BY <1>1, MeetsFrame DEF Claim
  <2>3. QED
    BY <2>1, <2>2
<1>2. ASSUME msg' = msg PROVE \A m \in Message : Meets(m)
  BY <1>2, MeetsFrame
<1>3. ASSUME NEW n \in Message, TtlElapses(n) \/ LeaseLapses(n)
      PROVE  msg' = msg
  BY <1>3 DEF TtlElapses, LeaseLapses, SetWork
<1>4. ASSUME NEW n \in Message, NEW s \in Endpoint, NEW x \in Endpoint,
             NEW o \in Message \union {None}, Inserted(n, s, x, o)
      PROVE  \A m \in Message : Meets(m)
  <2>1. ~ Exists(n) /\ msg'[n].state = "accepted"
    BY <1>4, InsertRows DEF Inserted
  <2>2. Meets(n)
    BY <2>1, MeetsMove
  <2>3. QED
    BY <1>4, <2>2, InsertRows, MeetsFrame
<1>5. ASSUME NEW n \in Message, NEW e \in Endpoint, NEW native \in BOOLEAN,
             BeginPresent(n, e, native)
      PROVE  \A m \in Message : Meets(m)
  BY <1>5, MeetsMove, MeetsOne DEF BeginPresent, State
<1>6. ASSUME NEW n \in Message, NEW e \in Endpoint,
             NEW s \in Reports \intersect Outcomes, Receipt(n, e, s)
      PROVE  \A m \in Message : Meets(m)
  <2>1. s \in {"presented", "uncertain"} /\ s \in State
    BY DEF Outcomes, State
  <2>2. /\ msg[n].state \notin Terminal /\ Exists(n)
        /\ msg[n].state = "presented" => s = "presented"
        /\ msg' = [msg EXCEPT ![n].state = s]
    BY <1>6 DEF Receipt, Forward
  <2>3. msg'[n].state = s => Meets(n)
    BY <2>1, <2>2, MeetsMove
  <2>4. QED
    BY <2>1, <2>2, <2>3, MeetsOne
<1>7. ASSUME NEW n \in Message, NEW e \in Endpoint, Cancel(n, e)
      PROVE  \A m \in Message : Meets(m)
  BY <1>7, MeetsMove, MeetsOne DEF Cancel, State, Terminal
<1>8. ASSUME NEW n \in Message, NEW e \in Endpoint,
             StatusCheck(n, e) \/ StatusWrite(n, e)
      PROVE  msg' = msg
  BY <1>8 DEF StatusCheck, StatusWrite
<1>9. QED
  BY <1>1, <1>2, <1>3, <1>4, <1>5, <1>6, <1>7, <1>8, SubmitInserts,
     ReplyInserts DEF MessageStep

LEMMA StepMeets ==
  ASSUME TypeOK, Reports \subseteq {"presented", "uncertain", "waiting"},
         [Next]_vars
  PROVE  \A m \in Message : Meets(m)
<1>1. ASSUME NEW e \in Endpoint, RetireSweep(e)
      PROVE  \A m \in Message : Meets(m)
  <2>1. ASSUME NEW m \in Swept(e) PROVE Meets(m)
    <3>1. Waiting(m) /\ msg'[m].state = "stale_session"
      BY <1>1 DEF RetireSweep, Swept, TypeOK, Rows, NoMessage
    <3>2. QED
      BY <3>1, MeetsMove DEF Swept
  <2>2. ASSUME NEW m \in Message \ Swept(e) PROVE Meets(m)
    BY <1>1, MeetsFrame DEF RetireSweep
  <2>3. QED
    BY <2>1, <2>2
<1>2. CASE EndpointStep /\ ~ \E e \in Endpoint : RetireSweep(e)
  <2>1. msg' = msg
    BY <1>2
    DEF EndpointStep, RegisterCheck, RegisterWrite, HeartbeatLapse,
        AttestCheck, AttestWrite, RetireMark, RecipientObserve,
        ObservationLapse, NativeHandoff
  <2>2. QED
    BY <2>1, MeetsFrame
<1>3. CASE ~ EndpointStep /\ ~ MessageStep
  BY <1>3, OtherSteps, MeetsFrame
<1>4. QED
  BY <1>1, <1>2, <1>3, MessageMeets

(* Every change HostHub lets happen is one of its steps. *)
LEMMA MeetsIsStep ==
  ASSUME NEW m \in Message, Meets(m)
  PROVE  \/ HostView(m)!Withdraw(m)
         \/ \E op \in HostView(m)!Operation :
              HostView(m)!Accepted(op, m) /\ HostView(m)!Answered(op, m)
         \/ UNCHANGED HostState(m)
<1> USE DEF HostView!Withdraw, HostView!Operation, HostView!Accepted,
            HostView!Answered, HostView!Serve, HostView!Accepts,
            HostView!Result, HostView!Begun
<1> DEFINE Op(op) == HostView(m)!Accepted(op, m) /\ HostView(m)!Answered(op, m)
<1>1. CASE HostState(m) = "open" /\ HostState(m)' \in {"cancelled", "closed"}
  BY <1>1
<1>2. CASE HostState(m) = "none" /\ HostState(m)' = "open"
  <2>1. Op("submit")
    BY <1>2
  <2>2. QED
    BY <2>1
<1>3. CASE HostState(m) = "open" /\ HostState(m)' = "dispatching"
  <2>1. Op("begin_present")
    BY <1>3
  <2>2. QED
    BY <2>1
<1>4. CASE /\ HostState(m) \in {"open", "dispatching", "uncertain"}
           /\ HostState(m)' = "uncertain"
  <2>1. Op("uncertain")
    BY <1>4
  <2>2. QED
    BY <2>1
<1>5. CASE /\ HostState(m) \in {"open", "dispatching", "uncertain", "presented"}
           /\ HostState(m)' = "presented"
  <2>1. Op("presented")
    BY <1>5
  <2>2. QED
    BY <2>1
<1>6. QED
  BY <1>1, <1>2, <1>3, <1>4, <1>5 DEF Meets

(* The hub the host's modules assume is this one: what any request, crash   *)
(* or sweep of hub.py does to a message, when adapters report what host.py  *)
(* reports, is a step HostHub gives its hub.                                *)
THEOREM HubMeetsHosts ==
  Reports \subseteq {"presented", "uncertain", "waiting"} => (Spec => MeetsHosts)
<1> SUFFICES ASSUME Reports \subseteq {"presented", "uncertain", "waiting"}
             PROVE  Spec => MeetsHosts
  OBVIOUS
<1>1. Init => \A m \in Message : HostView(m)!HubInit
  <2> SUFFICES ASSUME Init, NEW m \in Message PROVE HostView(m)!HubInit
    OBVIOUS
  <2>1. HostState(m) = "none"
    BY DEF Init, HostState, Exists, NoMessage, Waiting, Pending, Terminal
  <2>2. QED
    BY <2>1 DEF HostView!HubInit
<1>2. TypeOK /\ [Next]_vars
        => [\A m \in Message :
              \/ HostView(m)!Withdraw(m)
              \/ \E op \in HostView(m)!Operation :
                   HostView(m)!Accepted(op, m) /\ HostView(m)!Answered(op, m)
              \/ UNCHANGED HostState(m)]_vars
  BY StepMeets, MeetsIsStep
<1>3. QED
  BY <1>1, <1>2, TypeCorrect, PTL DEF Spec, MeetsHosts
=============================================================================
