-------------------------- MODULE FederationProofs --------------------------
(***************************************************************************)
(* Proofs about Federation for every set of messages and threads, every    *)
(* batch limit and every number of kills and late requests.                *)
(*                                                                         *)
(* The argument: no step takes the destination's mailbox back (Stable), so *)
(* an answer that was true when it was given stays true while it is on its *)
(* way, however late its caller uses it (Sound).                           *)
(***************************************************************************)
EXTENDS FederationProps, FiniteSetTheorems, TLAPS

Final == {"granted", "withdrawn", "closed"}

(* Neither the destination's mailbox nor the sender's takes a message back. *)
Stable ==
  \A m \in Message :
    /\ phase[m] # "none" => phase'[m] # "none"
    /\ phase[m] \in Final => phase'[m] = phase[m]
    /\ copy[m] # "absent" => copy'[m] # "absent"

(* Call c is about a submitted message and its answer is true, for a         *)
(* destination in phases ph and a sender that shows cp.                     *)
Truth(c, ph, cp) ==
  /\ c.msg \in Message /\ cp[c.msg] # "absent"
  /\ c.op = "accept" /\ c.answer \in Outcomes =>
       /\ ph[c.msg] # "none"
       /\ c.answer # "open" => ph[c.msg] = c.answer
  /\ c.op = "cancel" /\ c.answer \in Outcomes =>
       ph[c.msg] = "withdrawn" /\ c.answer = "withdrawn"
  /\ c.op = "cancel" /\ c.stage = "copy" => c.answer = "withdrawn"
  /\ c.answer = "too_late" => ph[c.msg] \in {"granted", "closed"}

Waits(c) == c.stage \in {"sent", "half"} => c.answer = "none"

CallSound(c) == (c = Idle \/ Truth(c, phase, copy)) /\ Waits(c)

CallsSound ==
  /\ \A t \in Thread : CallSound(calls[t])
  /\ \A c \in late : /\ Truth(c, phase, copy) /\ Waits(c)
                     /\ c.stage \in {"sent", "half"}
  /\ \A b \in batch : copy[b.msg] # "absent"

RowsSound ==
  \A m \in Message :
    /\ row[m] # "absent" => copy[m] # "absent"
    /\ phase[m] # "none" => copy[m] # "absent"
    /\ phase[m] # "granted" => grants[m] = 0
    /\ copy[m] = "cancelled" => phase[m] = "withdrawn"

FedInv == /\ TypeOK /\ CallsSound /\ RowsSound
          /\ AcceptanceTrue /\ DeliveredIsThere

-----------------------------------------------------------------------------
(* Typing *)

THEOREM InitTyped == Init => TypeOK
  BY FederationAssumption
  DEF Init, TypeOK, Destination!Init, Call, Idle, Outcomes, Thread

LEMMA CallTyped ==
  ASSUME NEW c, c.msg \in Message, c.op \in {"accept", "cancel"},
         NEW s \in {"sent", "half", "answered", "copy"},
         NEW a \in Outcomes \union Refusals \union {"none", "too_late"}
  PROVE  [op |-> c.op, msg |-> c.msg, stage |-> s, answer |-> a] \in Call
  BY DEF Call

LEMMA NotIdle ==
  ASSUME NEW c \in Call, c.stage # "idle" \/ c.op # "none"
  PROVE  c.msg \in Message /\ c.op \in {"accept", "cancel"}
  BY DEF Call, Idle

(* A request served moves the destination's mailbox as it may move.        *)
LEMMA ServedTyped ==
  ASSUME TypeOK, NEW c \in Call, NEW d, Served(c, d)
  PROVE  /\ c.msg \in Message
         /\ phase' \in [Message -> Outcomes \union {"none"}]
         /\ grants' \in [Message -> Nat]
         /\ byCancel' \subseteq Message
<1>1. c.msg \in Message
  BY NotIdle DEF Served
<1> QED
  BY <1>1 DEF TypeOK, Served, Accept, Withdraw, Destination!Offer,
     Destination!Withdraw, Destination!Move, Outcomes

(* What one flush of a row does to the thread that runs it. *)
LEMMA FlushTyped ==
  ASSUME TypeOK, NEW t \in Thread, NEW m \in Message, NEW s, Flush(t, m, s)
  PROVE  /\ row' \in [Message -> {"absent", "pending", "cancel_pending",
                        "delivered", "cancelled", "expired", "rejected"}]
         /\ calls' \in [Thread -> Call]
<1>1. Sent("accept", m) \in Call /\ Sent("cancel", m) \in Call
  BY CallTyped DEF Sent, Call
<1> QED
  BY <1>1 DEF TypeOK, Flush

LEMMA ClientTyped ==
  ASSUME TypeOK, NEW t \in Client, NEW m \in Message,
         Submit(t, m) \/ Resubmit(t, m) \/ Cancel(t, m)
  PROVE  TypeOK'
<1> t \in Thread
  BY DEF Thread
<1>1. CASE Submit(t, m)
  <2>1. IsFiniteSet({n \in Message : row[n] # "absent"})
    BY FS_Subset, FederationAssumption
  <2>2. 1 + Cardinality({n \in Message : row[n] # "absent"}) \in Nat
    BY <2>1, FS_CardinalityType
  <2>3. place' \in [Message -> Nat]
    BY <1>1, <2>2 DEF Submit, TypeOK
  <2> QED
    BY <1>1, <2>3 DEF Submit, TypeOK, clocks, there
<1>2. CASE Resubmit(t, m)
  BY <1>2, FlushTyped DEF Resubmit, TypeOK, clocks, there
<1>3. CASE Cancel(t, m)
  <2>1. Sent("cancel", m) \in Call
    BY DEF Sent, Call
  <2> QED
    BY <1>3, <2>1 DEF Cancel, TypeOK, clocks, there
<1> QED
  BY <1>1, <1>2, <1>3

LEMMA ThreadTyped ==
  ASSUME TypeOK, NEW t \in Thread,
         GiveUp(t) \/ FinishAccept(t) \/ FinishCancel(t) \/ WriteCopy(t)
  PROVE  TypeOK'
<1>1. calls[t] \in Call /\ Idle \in Call
  BY DEF TypeOK, Call
<1>2. CASE GiveUp(t)
  <2>1. calls[t].msg \in Message /\ calls[t].op \in {"accept", "cancel"}
    BY <1>1, <1>2, NotIdle DEF GiveUp
  <2>2. Answered(calls[t], "unavailable") \in Call
    BY <2>1, CallTyped DEF Answered, Refusals
  <2>3. late' \subseteq Call
    BY <1>1, <1>2 DEF GiveUp, Orphaned, TypeOK
  <2> QED
    BY <1>2, <2>2, <2>3 DEF GiveUp, TypeOK, outbox, clocks, there
<1>3. CASE FinishAccept(t)
  <2>1. calls[t].msg \in Message /\ calls[t].op \in {"accept", "cancel"}
    BY <1>1, <1>3, NotIdle DEF FinishAccept
  <2>2. At(calls[t], "copy") \in Call
    BY <1>1, <2>1 DEF At, Call, Idle
  <2> QED
    BY <1>1, <1>3, <2>1, <2>2 DEF FinishAccept, TypeOK, clocks, there
<1>4. CASE FinishCancel(t)
  <2>1. calls[t].msg \in Message /\ calls[t].op \in {"accept", "cancel"}
    BY <1>1, <1>4, NotIdle DEF FinishCancel
  <2>2. At(calls[t], "copy") \in Call
    BY <1>1, <2>1 DEF At, Call, Idle
  <2> QED
    BY <1>1, <1>4, <2>1, <2>2
    DEF FinishCancel, EndOfTick, TypeOK, clocks, there
<1>5. CASE WriteCopy(t)
  <2>1. calls[t].msg \in Message
    BY <1>1, <1>5, NotIdle DEF WriteCopy
  <2> QED
    BY <1>1, <1>5, <2>1 DEF WriteCopy, TypeOK, clocks, there
<1> QED
  BY <1>2, <1>3, <1>4, <1>5

LEMMA TickTyped ==
  ASSUME TypeOK, TickSelect \/ TickFlush \/ Crash
  PROVE  TypeOK'
<1>1. CASE TickSelect
  <2>1. \A m \in Oldest : m \in Message /\ row[m] \in {"pending", "cancel_pending"}
    BY DEF Oldest, Active
  <2>2. batch' \subseteq [msg : Message, state : {"pending", "cancel_pending"}]
    BY <1>1, <2>1 DEF TickSelect
  <2> QED
    BY <1>1, <2>2 DEF TickSelect, TypeOK, outbox, clocks, there
<1>2. CASE TickFlush
  <2>1. PICK b \in batch : /\ batch' = batch \ {b}
                           /\ Flush(Ticker, b.msg, b.state)
    BY <1>2 DEF TickFlush
  <2>2. b.msg \in Message /\ Ticker \in Thread
    BY DEF TypeOK, Thread
  <2> QED
    BY <1>2, <2>1, <2>2, FlushTyped DEF TickFlush, TypeOK, clocks, there
<1>3. CASE Crash
  <2>1. late' \subseteq Call
    BY <1>3 DEF Crash, Orphaned, TypeOK
  <2>2. crashes' \in 0..MaxCrashes
    BY <1>3, FederationAssumption DEF Crash, TypeOK
  <2> QED
    BY <1>3, <2>1, <2>2 DEF Crash, TypeOK, Call, outbox, clocks, there
<1> QED
  BY <1>1, <1>2, <1>3

LEMMA ServeTyped ==
  ASSUME TypeOK,
         (\E t \in Thread : Serve(t)) \/ (\E c \in late : ServeLate(c))
  PROVE  TypeOK'
<1>1. ASSUME NEW t \in Thread, Serve(t) PROVE TypeOK'
  <2>1. PICK d \in [op : {"accept", "cancel"}, msg : Message,
                    stage : {"half", "answered"},
                    answer : Outcomes \union Refusals
                               \union {"none", "too_late"}] :
               Served(calls[t], d) /\ calls' = [calls EXCEPT ![t] = d]
    BY <1>1 DEF Serve
  <2>2. d \in Call /\ calls[t] \in Call
    BY DEF Call, TypeOK
  <2> QED
    BY <1>1, <2>1, <2>2, ServedTyped DEF Serve, TypeOK, outbox, clocks
<1>2. ASSUME NEW c \in late, ServeLate(c) PROVE TypeOK'
  <2>1. PICK d : Served(c, d) /\ late' \subseteq late \union {At(c, "half")}
    BY <1>2 DEF ServeLate
  <2>2. c \in Call
    BY DEF TypeOK
  <2>3. c.msg \in Message /\ c.op \in {"accept", "cancel"}
    BY <2>1, <2>2, NotIdle DEF Served
  <2>4. At(c, "half") \in Call
    BY <2>2, <2>3 DEF At, Call, Idle
  <2> QED
    BY <1>2, <2>1, <2>2, <2>4, ServedTyped DEF ServeLate, TypeOK, outbox, clocks
<1> QED
  BY <1>1, <1>2

LEMMA MailboxTyped ==
  ASSUME TypeOK, NEW m \in Message,
         Present(m) \/ Settle(m) \/ LapseHere(m) \/ LapseThere(m)
  PROVE  TypeOK'
<1>1. CASE Present(m)
  BY <1>1 DEF Present, Destination!Grant, Destination!Move, TypeOK, Outcomes,
     outbox, clocks
<1>2. CASE Settle(m)
  BY <1>2 DEF Settle, Destination!Close, TypeOK, Outcomes, outbox, clocks
<1>3. CASE LapseHere(m)
  BY <1>3 DEF LapseHere, TypeOK, outbox, there
<1>4. CASE LapseThere(m)
  BY <1>4 DEF LapseThere, TypeOK, outbox, there
<1> QED
  BY <1>1, <1>2, <1>3, <1>4

LEMMA NextTyped == TypeOK /\ [Next]_vars => TypeOK'
<1> SUFFICES ASSUME TypeOK, [Next]_vars PROVE TypeOK'
  OBVIOUS
<1>1. CASE ClientStep
  BY <1>1, ClientTyped DEF ClientStep
<1>2. CASE ThreadStep
  BY <1>2, ThreadTyped, ServeTyped DEF ThreadStep
<1>3. CASE MailboxStep
  BY <1>3, MailboxTyped DEF MailboxStep
<1>4. CASE TickSelect \/ TickFlush \/ Crash
  BY <1>4, TickTyped
<1>5. CASE \E c \in late : ServeLate(c)
  BY <1>5, ServeTyped
<1>6. CASE UNCHANGED vars
  BY <1>6 DEF TypeOK, vars, outbox, clocks, there
<1> QED
  BY <1>1, <1>2, <1>3, <1>4, <1>5, <1>6 DEF Next

(* Both hubs' columns keep their types. *)
THEOREM TypeCorrect == Spec => []TypeOK
<1> QED
  BY InitTyped, NextTyped, PTL DEF Spec

-----------------------------------------------------------------------------
(* The mailbox only moves forward *)

(* The steps of the destination's mailbox, and its stutters. *)
Forward ==
  \/ UNCHANGED <<phase, grants>>
  \/ \E m \in Message : Destination!Offer(m) \/ Destination!Withdraw(m)
                          \/ Destination!Grant(m) \/ Destination!Close({m})

LEMMA ForwardStable ==
  ASSUME TypeOK, Forward,
         \A m \in Message : copy[m] # "absent" => copy'[m] # "absent"
  PROVE  Stable
  BY DEF TypeOK, Forward, Stable, Final, Destination!Offer,
     Destination!Withdraw, Destination!Grant, Destination!Close,
     Destination!Move

(* A true answer stays true on its way. *)
LEMMA TruthLasts ==
  ASSUME Stable, NEW c, Truth(c, phase, copy)
  PROVE  Truth(c, phase', copy')
  BY DEF Stable, Truth, Final, Outcomes

LEMMA CallsStep ==
  ASSUME TypeOK, CallsSound, Stable, NEW t \in Thread, NEW d,
         calls' = [calls EXCEPT ![t] = d],
         d = Idle \/ Truth(d, phase', copy'), Waits(d)
  PROVE  \A u \in Thread : /\ calls'[u] = Idle \/ Truth(calls'[u], phase', copy')
                           /\ Waits(calls'[u])
<1> SUFFICES ASSUME NEW u \in Thread
             PROVE  /\ calls'[u] = Idle \/ Truth(calls'[u], phase', copy')
                    /\ Waits(calls'[u])
  OBVIOUS
<1>1. CASE u = t
  BY <1>1 DEF TypeOK
<1>2. CASE u # t
  <2>1. calls'[u] = calls[u]
    BY <1>2 DEF TypeOK
  <2> QED
    BY <2>1, TruthLasts DEF CallsSound, CallSound
<1> QED
  BY <1>1, <1>2

LEMMA CallsSame ==
  ASSUME CallsSound, Stable, UNCHANGED calls
  PROVE  \A u \in Thread : /\ calls'[u] = Idle \/ Truth(calls'[u], phase', copy')
                           /\ Waits(calls'[u])
  BY TruthLasts DEF CallsSound, CallSound

(* Requests whose caller gives up are among those that wait. *)
LEMMA LateStep ==
  ASSUME CallsSound, Stable,
         \A c \in late' : c \in late
           \/ \E t \in Thread : c = calls[t] /\ c.stage \in {"sent", "half"}
  PROVE  \A c \in late' : /\ Truth(c, phase', copy') /\ Waits(c)
                          /\ c.stage \in {"sent", "half"}
  BY TruthLasts DEF CallsSound, CallSound, Idle

LEMMA CallsTogether ==
  ASSUME \A u \in Thread : /\ calls'[u] = Idle
                                \/ Truth(calls'[u], phase', copy')
                           /\ Waits(calls'[u]),
         \A c \in late' : /\ Truth(c, phase', copy') /\ Waits(c)
                          /\ c.stage \in {"sent", "half"},
         \A b \in batch' : copy'[b.msg] # "absent"
  PROVE  CallsSound'
  BY DEF CallsSound, CallSound

(* The rows when only the destination moves. *)
LEMMA RowsForward ==
  ASSUME TypeOK, RowsSound, AcceptanceTrue, DeliveredIsThere, Forward,
         UNCHANGED <<row, acceptance, copy>>,
         \A m \in Message : phase'[m] # phase[m] => copy[m] # "absent"
  PROVE  RowsSound' /\ AcceptanceTrue' /\ DeliveredIsThere'
<1>1. Stable
  BY ForwardStable
<1>2. ASSUME NEW m \in Message, phase'[m] # "granted" PROVE grants'[m] = 0
  BY <1>2 DEF TypeOK, RowsSound, Forward, Destination!Offer,
     Destination!Withdraw, Destination!Grant, Destination!Close,
     Destination!Move
<1>3. RowsSound'
  BY <1>1, <1>2 DEF RowsSound, Stable, Final
<1>4. AcceptanceTrue' /\ DeliveredIsThere'
  BY <1>1 DEF AcceptanceTrue, DeliveredIsThere, Stable, TypeOK, Final, Outcomes
<1> QED
  BY <1>3, <1>4

-----------------------------------------------------------------------------
(* The inductive invariant *)

LEMMA InitSound == Init => FedInv
<1> SUFFICES ASSUME Init PROVE FedInv
  OBVIOUS
<1>1. TypeOK
  BY InitTyped
<1>2. CallsSound
  BY DEF Init, CallsSound, CallSound, Waits, Idle
<1>3. RowsSound
  BY DEF Init, Destination!Init, RowsSound
<1>4. AcceptanceTrue /\ DeliveredIsThere
  BY DEF Init, AcceptanceTrue, DeliveredIsThere
<1> QED
  BY <1>1, <1>2, <1>3, <1>4 DEF FedInv

(* Requests of the sender's host: only submitted messages are called about. *)
LEMMA ClientSound ==
  ASSUME FedInv, NEW t \in Client, NEW m \in Message,
         Submit(t, m) \/ Resubmit(t, m) \/ Cancel(t, m)
  PROVE  CallsSound' /\ RowsSound' /\ AcceptanceTrue' /\ DeliveredIsThere'
<1> USE DEF FedInv
<1>1. t \in Thread
  BY DEF Thread
<1>2. /\ UNCHANGED <<acceptance, batch, late, phase, grants>>
      /\ copy'[m] # "absent"
      /\ \A n \in Message : /\ n # m => copy'[n] = copy[n] /\ row'[n] = row[n]
                            /\ copy[n] # "absent" => copy'[n] = copy[n]
                            /\ copy'[n] = "cancelled" => copy[n] = "cancelled"
      /\ row'[m] # "delivered"
  <2>1. CASE Submit(t, m)
    BY <2>1 DEF Submit, TypeOK, there
  <2>2. CASE Resubmit(t, m)
    BY <2>2 DEF Resubmit, Flush, TypeOK, RowsSound, there
  <2>3. CASE Cancel(t, m)
    BY <2>3 DEF Cancel, TypeOK, RowsSound, there
  <2> QED
    BY <2>1, <2>2, <2>3
<1>3. Stable
  BY <1>2 DEF Stable
<1>4. \/ UNCHANGED calls
      \/ calls' = [calls EXCEPT ![t] = Sent("accept", m)]
      \/ calls' = [calls EXCEPT ![t] = Sent("cancel", m)]
  BY DEF Submit, Resubmit, Flush, Cancel
<1>5. \A op \in {"accept", "cancel"} :
        /\ Truth(Sent(op, m), phase', copy') /\ Waits(Sent(op, m))
  BY <1>2 DEF Truth, Waits, Sent, Outcomes
<1>6. \A u \in Thread : /\ calls'[u] = Idle \/ Truth(calls'[u], phase', copy')
                        /\ Waits(calls'[u])
  BY <1>1, <1>3, <1>4, <1>5, CallsStep, CallsSame
<1>7. CallsSound'
  <2>1. \A b \in batch' : copy'[b.msg] # "absent"
    BY <1>2, <1>3 DEF CallsSound, Stable, TypeOK
  <2>2. \A c \in late' : /\ Truth(c, phase', copy') /\ Waits(c)
                         /\ c.stage \in {"sent", "half"}
    BY <1>2, <1>3, LateStep
  <2> QED
    BY <1>6, <2>1, <2>2, CallsTogether
<1>8. RowsSound' /\ AcceptanceTrue' /\ DeliveredIsThere'
  BY <1>2 DEF RowsSound, AcceptanceTrue, DeliveredIsThere
<1> QED
  BY <1>7, <1>8

(* The end of a call: what it writes follows from its answer. *)
LEMMA FinishSound ==
  ASSUME FedInv, NEW t \in Thread,
         FinishAccept(t) \/ FinishCancel(t) \/ WriteCopy(t)
  PROVE  CallsSound' /\ RowsSound' /\ AcceptanceTrue' /\ DeliveredIsThere'
<1> USE DEF FedInv
<1> DEFINE c == calls[t]
           m == calls[t].msg
<1>1. c # Idle /\ Truth(c, phase, copy) /\ m \in Message /\ c.op # "none"
  <2>1. c.stage \in {"answered", "copy"}
    BY DEF FinishAccept, FinishCancel, WriteCopy
  <2>2. c # Idle /\ c \in Call
    BY <2>1 DEF Idle, TypeOK
  <2>3. Truth(c, phase, copy)
    BY <2>2 DEF CallsSound, CallSound
  <2> QED
    BY <2>1, <2>2, <2>3, NotIdle DEF Idle
<1>2. /\ UNCHANGED <<late, phase, grants>> /\ batch' \subseteq batch
      /\ \A n \in Message : n # m => /\ copy'[n] = copy[n] /\ row'[n] = row[n]
                                     /\ acceptance'[n] = acceptance[n]
  <2>1. CASE FinishAccept(t)
    BY <1>1, <2>1 DEF FinishAccept, TypeOK, there
  <2>2. CASE FinishCancel(t)
    BY <1>1, <2>2 DEF FinishCancel, EndOfTick, TypeOK, there
  <2>3. CASE WriteCopy(t)
    BY <1>1, <2>3 DEF WriteCopy, TypeOK, there
  <2> QED
    BY <2>1, <2>2, <2>3
<1>3. /\ copy'[m] # "absent"
      /\ copy'[m] = "cancelled" => phase[m] = "withdrawn"
  <2>1. CASE WriteCopy(t)
    <3>1. copy'[m] = "cancelled" => c.op = "cancel" /\ c.stage = "copy"
      BY <1>1, <2>1 DEF WriteCopy, TypeOK
    <3>2. copy'[m] # "absent"
      BY <1>1, <2>1 DEF WriteCopy, TypeOK
    <3> QED
      BY <1>1, <3>1, <3>2 DEF Truth, Outcomes
  <2>2. CASE UNCHANGED copy
    BY <1>1, <2>2 DEF Truth, RowsSound
  <2> QED
    BY <2>1, <2>2 DEF FinishAccept, FinishCancel
<1>4. Stable
  BY <1>2, <1>3 DEF Stable
<1>5. \/ calls' = [calls EXCEPT ![t] = Idle]
      \/ /\ calls' = [calls EXCEPT ![t] = At(c, "copy")]
         /\ c.op = "cancel" => c.answer = "withdrawn"
  BY <1>1 DEF FinishAccept, FinishCancel, WriteCopy, TypeOK
<1>6. CallsSound'
  <2>1. Truth(c, phase', copy')
    BY <1>1, <1>4, TruthLasts
  <2>2. (c.op = "cancel" => c.answer = "withdrawn")
          => Truth(At(c, "copy"), phase', copy')
    BY <2>1 DEF Truth, At
  <2>3. Waits(Idle) /\ Waits(At(c, "copy"))
    BY DEF Waits, Idle, At
  <2>4. \A u \in Thread : /\ calls'[u] = Idle
                               \/ Truth(calls'[u], phase', copy')
                          /\ Waits(calls'[u])
    BY <1>4, <1>5, <2>2, <2>3, CallsStep
  <2>5. \A b \in batch' : copy'[b.msg] # "absent"
    BY <1>2, <1>4 DEF CallsSound, Stable, TypeOK
  <2>6. \A d \in late' : /\ Truth(d, phase', copy') /\ Waits(d)
                         /\ d.stage \in {"sent", "half"}
    BY <1>2, <1>4, LateStep
  <2> QED
    BY <2>4, <2>5, <2>6, CallsTogether
<1>7. RowsSound'
  BY <1>1, <1>2, <1>3 DEF RowsSound
<1>8. /\ acceptance'[m] \in {acceptance[m], c.answer}
      /\ acceptance'[m] # acceptance[m] => c.op = "accept" /\ c.answer \in Outcomes
  BY <1>1 DEF FinishAccept, FinishCancel, WriteCopy, TypeOK
<1>9. AcceptanceTrue'
  <2>1. ASSUME NEW n \in Message, acceptance'[n] # "none"
        PROVE  /\ phase[n] # "none"
               /\ acceptance'[n] # "open" => phase[n] = acceptance'[n]
    BY <1>1, <1>2, <1>8, <2>1 DEF AcceptanceTrue, Truth
  <2> QED
    BY <1>2, <2>1 DEF AcceptanceTrue
<1>10. DeliveredIsThere'
  <2>1. row'[m] = "delivered" =>
          \/ row[m] = "delivered"
          \/ c.op = "accept" /\ c.answer \in Outcomes
          \/ c.answer = "too_late"
    BY <1>1 DEF FinishAccept, FinishCancel, WriteCopy, TypeOK
  <2>2. row'[m] = "delivered" => phase[m] # "none"
    BY <1>1, <2>1 DEF Truth, DeliveredIsThere
  <2> QED
    BY <1>2, <2>2 DEF DeliveredIsThere
<1> QED
  BY <1>6, <1>7, <1>9, <1>10

(* The retry loop, timeouts and kills move no message. *)
LEMMA LoopSound ==
  ASSUME FedInv,
         \/ TickSelect \/ TickFlush \/ Crash
         \/ \E t \in Thread : GiveUp(t)
  PROVE  CallsSound' /\ RowsSound' /\ AcceptanceTrue' /\ DeliveredIsThere'
<1> USE DEF FedInv
<1>1. /\ UNCHANGED <<copy, acceptance, phase, grants>>
      /\ \A m \in Message : /\ row'[m] = "delivered" => row[m] = "delivered"
                            /\ row'[m] # "absent" => copy[m] # "absent"
  <2>1. CASE TickFlush
    <3>1. PICK b \in batch : Flush(Ticker, b.msg, b.state)
      BY <2>1 DEF TickFlush
    <3>2. b.msg \in Message /\ copy[b.msg] # "absent"
      BY DEF TypeOK, CallsSound
    <3>3. \/ UNCHANGED row
          \/ row' = [row EXCEPT ![b.msg] = "expired"] /\ b.state = "pending"
      BY <3>1 DEF Flush
    <3> QED
      BY <2>1, <3>2, <3>3 DEF TickFlush, TypeOK, RowsSound, there
  <2> QED
    BY <2>1 DEF TickSelect, Crash, GiveUp, RowsSound, outbox, there
<1>2. Stable
  BY <1>1 DEF Stable
<1>3. \A u \in Thread : /\ calls'[u] = Idle \/ Truth(calls'[u], phase', copy')
                        /\ Waits(calls'[u])
  <2>1. CASE TickSelect
    BY <1>2, <2>1, CallsSame DEF TickSelect
  <2>2. CASE TickFlush
    <3>1. PICK b \in batch : Flush(Ticker, b.msg, b.state)
      BY <2>2 DEF TickFlush
    <3>2. b.msg \in Message /\ copy[b.msg] # "absent" /\ Ticker \in Thread
      BY DEF TypeOK, CallsSound, Thread
    <3>3. \A op \in {"accept", "cancel"} :
            /\ Truth(Sent(op, b.msg), phase', copy') /\ Waits(Sent(op, b.msg))
      BY <1>1, <3>2 DEF Truth, Waits, Sent, Outcomes
    <3> QED
      BY <1>2, <3>1, <3>2, <3>3, CallsStep, CallsSame DEF Flush
  <2>3. CASE Crash
    BY <2>3 DEF Crash, Waits, Idle
  <2>4. ASSUME NEW t \in Thread, GiveUp(t)
        PROVE  \A u \in Thread :
                 /\ calls'[u] = Idle \/ Truth(calls'[u], phase', copy')
                 /\ Waits(calls'[u])
    <3>1. Truth(calls[t], phase, copy)
      BY <2>4 DEF GiveUp, CallsSound, CallSound, Idle
    <3>2. Truth(Answered(calls[t], "unavailable"), phase', copy')
      BY <1>1, <3>1 DEF Truth, Answered, Outcomes
    <3>3. Waits(Answered(calls[t], "unavailable"))
      BY DEF Waits, Answered
    <3> QED
      BY <1>2, <2>4, <3>2, <3>3, CallsStep DEF GiveUp
  <2> QED
    BY <2>1, <2>2, <2>3, <2>4
<1>4. \A c \in late' : /\ Truth(c, phase', copy') /\ Waits(c)
                       /\ c.stage \in {"sent", "half"}
  <2>1. \A c \in late' : c \in late
          \/ \E t \in Thread : c = calls[t] /\ c.stage \in {"sent", "half"}
    BY DEF TickSelect, TickFlush, Crash, GiveUp, Orphaned
  <2> QED
    BY <1>2, <2>1, LateStep
<1>5. \A b \in batch' : copy'[b.msg] # "absent"
  <2>1. CASE TickSelect
    <3>1. \A m \in Oldest : copy[m] # "absent"
      BY DEF Oldest, Active, RowsSound
    <3> QED
      BY <1>1, <2>1, <3>1 DEF TickSelect
  <2> QED
    BY <1>1, <2>1 DEF TickFlush, Crash, GiveUp, CallsSound
<1>6. RowsSound' /\ AcceptanceTrue' /\ DeliveredIsThere'
  BY <1>1 DEF RowsSound, AcceptanceTrue, DeliveredIsThere
<1> QED
  BY <1>3, <1>4, <1>5, <1>6, CallsTogether

(* One request served: the mailbox moves forward, the answer is true.       *)
LEMMA ServedSound ==
  ASSUME TypeOK, CallsSound, RowsSound, NEW c \in Call, NEW d, Served(c, d),
         Truth(c, phase, copy), UNCHANGED copy
  PROVE  /\ Forward
         /\ \A m \in Message : phase'[m] # phase[m] => copy[m] # "absent"
         /\ Truth(d, phase', copy')
<1>1. c.msg \in Message /\ copy[c.msg] # "absent"
  BY DEF Truth
<1>2. ASSUME NEW a, Accept(c.msg, a)
      PROVE  /\ Forward /\ a # "too_late"
             /\ \A m \in Message : phase'[m] # phase[m] => copy[m] # "absent"
             /\ a \in Outcomes => /\ phase'[c.msg] # "none"
                                  /\ a # "open" => phase'[c.msg] = a
  BY <1>1, <1>2 DEF Accept, Forward, Destination!Offer, Destination!Move,
     TypeOK, Outcomes, Refusals
<1>3. ASSUME NEW a, Withdraw(c.msg, a)
      PROVE  /\ Forward
             /\ \A m \in Message : phase'[m] # phase[m] => copy[m] # "absent"
             /\ a \in Outcomes => a = "withdrawn" /\ phase'[c.msg] = "withdrawn"
             /\ a = "too_late" => phase'[c.msg] \in {"granted", "closed"}
  BY <1>1, <1>3 DEF Withdraw, Forward, Destination!Withdraw, Destination!Move,
     TypeOK, Outcomes
<1>4. CASE c.op = "accept"
  <2>1. PICK a \in Outcomes \union Refusals :
          Accept(c.msg, a) /\ d = Answered(c, a)
    BY <1>4 DEF Served
  <2> QED
    BY <1>1, <1>2, <1>4, <2>1 DEF Truth, Answered
<1>5. CASE c.op = "cancel" /\ c.stage = "sent"
  <2>1. PICK a \in Outcomes \union Refusals :
          /\ Accept(c.msg, a)
          /\ d = IF a \in Refusals THEN Answered(c, a) ELSE At(c, "half")
    BY <1>5 DEF Served
  <2>2. CASE a \in Refusals
    BY <1>1, <1>2, <1>5, <2>1, <2>2 DEF Truth, Answered, Refusals, Outcomes
  <2>3. CASE a \notin Refusals
    <3>1. Forward
      BY <1>2, <2>1
    <3>2. Stable
      BY <3>1, ForwardStable
    <3>3. Truth(c, phase', copy')
      BY <3>2, TruthLasts
    <3> QED
      BY <1>2, <1>5, <2>1, <2>3, <3>3 DEF Truth, At
  <2> QED
    BY <2>2, <2>3
<1>6. CASE c.op = "cancel" /\ c.stage = "half"
  <2>1. PICK a \in Outcomes \union Refusals \union {"too_late"} :
          Withdraw(c.msg, a) /\ d = Answered(c, a)
    BY <1>6 DEF Served
  <2> QED
    BY <1>1, <1>3, <1>6, <2>1 DEF Truth, Answered
<1> QED
  BY <1>4, <1>5, <1>6 DEF Served

LEMMA ServeSound ==
  ASSUME FedInv,
         (\E t \in Thread : Serve(t)) \/ (\E c \in late : ServeLate(c))
  PROVE  /\ CallsSound' /\ RowsSound' /\ AcceptanceTrue' /\ DeliveredIsThere'
         /\ Forward /\ UNCHANGED copy
         /\ \A m \in Message : phase'[m] # phase[m] => copy[m] # "absent"
<1> USE DEF FedInv
<1>1. ASSUME NEW t \in Thread, Serve(t)
      PROVE  /\ CallsSound' /\ Forward
             /\ \A m \in Message : phase'[m] # phase[m] => copy[m] # "absent"
  <2>1. PICK d \in [op : {"accept", "cancel"}, msg : Message,
                    stage : {"half", "answered"},
                    answer : Outcomes \union Refusals
                               \union {"none", "too_late"}] :
               Served(calls[t], d) /\ calls' = [calls EXCEPT ![t] = d]
    BY <1>1 DEF Serve
  <2>2. UNCHANGED <<copy, batch, late>>
    BY <1>1 DEF Serve, outbox
  <2>3. calls[t] \in Call /\ Truth(calls[t], phase, copy) /\ Waits(calls[t])
    BY <2>1 DEF Served, TypeOK, CallsSound, CallSound, Idle
  <2>4. /\ Forward /\ Truth(d, phase', copy')
        /\ \A m \in Message : phase'[m] # phase[m] => copy[m] # "absent"
    BY <2>1, <2>2, <2>3, ServedSound
  <2>5. Stable
    BY <2>2, <2>4, ForwardStable
  <2>6. Waits(d)
    BY <2>1, <2>3 DEF Served, Answered, At, Waits
  <2>7. \A u \in Thread : /\ calls'[u] = Idle
                               \/ Truth(calls'[u], phase', copy')
                          /\ Waits(calls'[u])
    BY <2>1, <2>4, <2>5, <2>6, CallsStep
  <2>8. \A c \in late' : /\ Truth(c, phase', copy') /\ Waits(c)
                         /\ c.stage \in {"sent", "half"}
    BY <2>2, <2>5, LateStep
  <2> QED
    BY <2>2, <2>4, <2>7, <2>8, CallsTogether DEF CallsSound
<1>2. ASSUME NEW c \in late, ServeLate(c)
      PROVE  /\ CallsSound' /\ Forward
             /\ \A m \in Message : phase'[m] # phase[m] => copy[m] # "absent"
  <2>1. PICK d : /\ Served(c, d)
                 /\ \/ late' = late \ {c}
                    \/ late' = (late \ {c}) \union {d} /\ d = At(c, "half")
    BY <1>2 DEF ServeLate
  <2>2. UNCHANGED <<copy, batch, calls>>
    BY <1>2 DEF ServeLate, outbox
  <2>3. c \in Call /\ Truth(c, phase, copy) /\ Waits(c)
        /\ c.stage \in {"sent", "half"}
    BY DEF TypeOK, CallsSound
  <2>4. /\ Forward /\ Truth(d, phase', copy')
        /\ \A m \in Message : phase'[m] # phase[m] => copy[m] # "absent"
    BY <2>1, <2>2, <2>3, ServedSound
  <2>5. Stable
    BY <2>2, <2>4, ForwardStable
  <2>6. \A u \in Thread : /\ calls'[u] = Idle
                               \/ Truth(calls'[u], phase', copy')
                          /\ Waits(calls'[u])
    BY <2>2, <2>5, CallsSame
  <2>7. \A x \in late : /\ Truth(x, phase', copy') /\ Waits(x)
                        /\ x.stage \in {"sent", "half"}
    BY <2>5, TruthLasts DEF CallsSound
  <2>8. d = At(c, "half") => Waits(d) /\ d.stage \in {"sent", "half"}
    BY <2>3 DEF Waits, At
  <2>9. \A x \in late' : /\ Truth(x, phase', copy') /\ Waits(x)
                         /\ x.stage \in {"sent", "half"}
    BY <2>1, <2>4, <2>7, <2>8
  <2> QED
    BY <2>2, <2>4, <2>6, <2>9, CallsTogether DEF CallsSound
<1>3. UNCHANGED <<row, acceptance, copy>>
  BY DEF Serve, ServeLate, outbox
<1> QED
  BY <1>1, <1>2, <1>3, RowsForward

(* The destination's adapters and retirements, and the clocks.              *)
LEMMA MailboxSound ==
  ASSUME FedInv, NEW m \in Message,
         Present(m) \/ Settle(m) \/ LapseHere(m) \/ LapseThere(m)
  PROVE  /\ CallsSound' /\ RowsSound' /\ AcceptanceTrue' /\ DeliveredIsThere'
         /\ Forward /\ UNCHANGED copy
         /\ \A n \in Message : phase'[n] # phase[n] => copy[n] # "absent"
<1> USE DEF FedInv
<1>1. UNCHANGED <<row, acceptance, copy, calls, batch, late>>
  BY DEF Present, Settle, LapseHere, LapseThere, outbox
<1>2. Forward
  BY DEF Present, Settle, LapseHere, LapseThere, Forward, there
<1>3. \A n \in Message : phase'[n] # phase[n] => copy[n] # "absent"
  BY DEF Present, Settle, LapseHere, LapseThere, there, Destination!Grant,
     Destination!Close, Destination!Move, TypeOK, RowsSound
<1>4. Stable
  BY <1>1, <1>2, ForwardStable
<1>5. CallsSound'
  BY <1>1, <1>4, CallsSame, LateStep, CallsTogether DEF CallsSound
<1> QED
  BY <1>1, <1>2, <1>3, <1>5, RowsForward

LEMMA NextSound == FedInv /\ [Next]_vars => FedInv'
<1> SUFFICES ASSUME FedInv, [Next]_vars PROVE FedInv'
  OBVIOUS
<1>1. TypeOK'
  BY NextTyped DEF FedInv
<1>2. CallsSound' /\ RowsSound' /\ AcceptanceTrue' /\ DeliveredIsThere'
  <2>1. CASE ClientStep
    BY <2>1, ClientSound DEF ClientStep
  <2>2. CASE ThreadStep
    BY <2>2, LoopSound, ServeSound, FinishSound DEF ThreadStep
  <2>3. CASE MailboxStep
    BY <2>3, MailboxSound DEF MailboxStep
  <2>4. CASE TickSelect \/ TickFlush \/ Crash
    BY <2>4, LoopSound
  <2>5. CASE \E c \in late : ServeLate(c)
    BY <2>5, ServeSound
  <2>6. CASE UNCHANGED vars
    BY <2>6 DEF FedInv, CallsSound, CallSound, RowsSound, AcceptanceTrue,
       DeliveredIsThere, vars, outbox, there
  <2> QED
    BY <2>1, <2>2, <2>3, <2>4, <2>5, <2>6 DEF Next
<1> QED
  BY <1>1, <1>2 DEF FedInv

THEOREM Inductive == Spec => []FedInv
  BY InitSound, NextSound, PTL DEF Spec

(* What a sender is told of a cancellation is true, however late or often   *)
(* its requests are served.                                                 *)
THEOREM CancelAnswersHold == Spec => []CancelAnswersTrue
<1>1. FedInv => CancelAnswersTrue
  BY DEF FedInv, RowsSound, CallsSound, CallSound, Truth, Idle,
     CancelAnswersTrue
<1> QED
  BY <1>1, Inductive, PTL

(* The outcome the sender's outbox keeps is one the message had.            *)
THEOREM AcceptanceHolds == Spec => []AcceptanceTrue
<1>1. FedInv => AcceptanceTrue
  BY DEF FedInv
<1> QED
  BY <1>1, Inductive, PTL

(* A message whose row says delivered was accepted at its destination.      *)
THEOREM DeliveredHolds == Spec => []DeliveredIsThere
<1>1. FedInv => DeliveredIsThere
  BY DEF FedInv
<1> QED
  BY <1>1, Inductive, PTL

-----------------------------------------------------------------------------
(* Refinement *)

LEMMA EndInit == Init => EndToEnd!Init
  BY DEF Init, Destination!Init, EndToEnd!Init, EndPhase

(* A move of the destination is one of the promise: the message was submitted. *)
LEMMA EndForward ==
  ASSUME FedInv, Forward, UNCHANGED copy,
         \A m \in Message : phase'[m] # phase[m] => copy[m] # "absent"
  PROVE  [EndToEnd!Next]_<<[m \in Message |-> EndPhase(m)], grants>>
<1> USE DEF FedInv
<1>1. CASE UNCHANGED <<phase, grants>>
  BY <1>1 DEF EndPhase
<1>2. ASSUME NEW m \in Message, Destination!Offer(m)
      PROVE  UNCHANGED <<[n \in Message |-> EndPhase(n)], grants>>
  BY <1>2 DEF Destination!Offer, Destination!Move, EndPhase, TypeOK
<1>3. ASSUME NEW m \in Message, Destination!Withdraw(m)
      PROVE  EndToEnd!Withdraw(m)
  BY <1>3 DEF Destination!Withdraw, Destination!Move, EndPhase, TypeOK,
     EndToEnd!Withdraw, EndToEnd!Move
<1>4. ASSUME NEW m \in Message, Destination!Grant(m)
      PROVE  EndToEnd!Grant(m)
  BY <1>4 DEF Destination!Grant, Destination!Move, EndPhase, TypeOK,
     EndToEnd!Grant, EndToEnd!Move
<1>5. ASSUME NEW m \in Message, Destination!Close({m})
      PROVE  EndToEnd!Close({m})
  BY <1>5 DEF Destination!Close, EndPhase, TypeOK, RowsSound, EndToEnd!Close
<1> QED
  BY <1>1, <1>2, <1>3, <1>4, <1>5 DEF Forward, EndToEnd!Next

LEMMA EndStep ==
  FedInv /\ [Next]_vars
    => [EndToEnd!Next]_<<[m \in Message |-> EndPhase(m)], grants>>
<1> SUFFICES ASSUME FedInv, [Next]_vars
             PROVE  [EndToEnd!Next]_<<[m \in Message |-> EndPhase(m)], grants>>
  OBVIOUS
<1>1. ASSUME NEW t \in Client, NEW m \in Message, Submit(t, m)
      PROVE  EndToEnd!Offer(m)
  BY <1>1 DEF Submit, FedInv, RowsSound, TypeOK, EndPhase, there,
     EndToEnd!Offer, EndToEnd!Move
<1>2. ASSUME UNCHANGED <<copy, phase, grants>>
      PROVE  UNCHANGED <<[m \in Message |-> EndPhase(m)], grants>>
  BY <1>2 DEF EndPhase
<1>3. ASSUME NEW t \in Thread, WriteCopy(t)
      PROVE  UNCHANGED <<[m \in Message |-> EndPhase(m)], grants>>
  <2>1. Truth(calls[t], phase, copy)
    BY <1>3 DEF WriteCopy, FedInv, CallsSound, CallSound, Idle
  <2>2. \A m \in Message : copy'[m] = "absent" <=> copy[m] = "absent"
    BY <1>3, <2>1 DEF WriteCopy, FedInv, TypeOK, Truth
  <2> QED
    BY <1>3, <2>2 DEF WriteCopy, EndPhase, there
<1>4. CASE ClientStep
  <2>1. ASSUME NEW t \in Client, NEW m \in Message,
               Resubmit(t, m) \/ Cancel(t, m)
        PROVE  UNCHANGED <<copy, phase, grants>>
    BY <2>1 DEF Resubmit, Cancel, there
  <2> QED
    BY <1>1, <1>2, <1>4, <2>1 DEF ClientStep, EndToEnd!Next
<1>5. CASE ThreadStep
  <2>1. ASSUME NEW t \in Thread, GiveUp(t) \/ FinishAccept(t) \/ FinishCancel(t)
        PROVE  UNCHANGED <<copy, phase, grants>>
    BY <2>1 DEF GiveUp, FinishAccept, FinishCancel, outbox, there
  <2> QED
    BY <1>2, <1>3, <1>5, <2>1, ServeSound, EndForward DEF ThreadStep
<1>6. CASE MailboxStep
  BY <1>6, MailboxSound, EndForward DEF MailboxStep
<1>7. CASE TickSelect \/ TickFlush \/ Crash
  BY <1>2, <1>7 DEF TickSelect, TickFlush, Crash, outbox, there
<1>8. CASE \E c \in late : ServeLate(c)
  BY <1>8, ServeSound, EndForward
<1>9. CASE UNCHANGED vars
  BY <1>2, <1>9 DEF vars, outbox, there
<1> QED
  BY <1>4, <1>5, <1>6, <1>7, <1>8, <1>9 DEF Next

(* The two hubs together refine DeliveryPromise.                            *)
THEOREM HubsKeepPromise == Spec => EndToEndKept
<1> QED
  BY EndInit, EndStep, Inductive, PTL DEF Spec, EndToEndKept, EndToEnd!Spec
=============================================================================
