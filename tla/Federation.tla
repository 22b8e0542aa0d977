----------------------------- MODULE Federation -----------------------------
(***************************************************************************)
(* Messages between the hubs of two hosts (federation.py): the outbox of   *)
(* the sender's hub, the threads that flush and cancel its rows over SSH,  *)
(* and the peer handlers of the destination's hub.                         *)
(*                                                                         *)
(* The mailbox behind the peer handlers is DeliveryPromise, which Mailbox  *)
(* implements.  Every statement of the sender's threads commits by itself, *)
(* so a thread is modelled between its database statements; an SSH call    *)
(* may be served after its caller gave up.  The clocks of the hosts        *)
(* differ: a message passes its TTL on each of them separately.            *)
(*                                                                         *)
(* Not modelled: resolving the destination, which precedes the first       *)
(* commit; alias redirects; a peer that is no longer enrolled; the checks  *)
(* of a reply's parties, whose verdict is one of the refusals.             *)
(***************************************************************************)
EXTENDS Naturals, FiniteSets

CONSTANTS Message,    \* ids of federated messages
          Client,     \* threads serving requests of the sender's host
          Ticker,     \* the retry loop
          Limit,      \* rows tick reads at once, 8 in the code
          Cancelled,  \* messages their sender may cancel (a bound)
          Reachable,  \* messages whose destination answers
          MaxCrashes, \* bound on kills of the sender's hub
          MaxLate,    \* bound on requests served after their caller gave up
          None

Thread == Client \union {Ticker}

ASSUME FederationAssumption ==
  /\ IsFiniteSet(Message) /\ Ticker \notin Client
  /\ Limit \in Nat \ {0}
  /\ Cancelled \subseteq Message /\ Reachable \subseteq Message
  /\ MaxCrashes \in Nat /\ MaxLate \in Nat
  /\ None \notin Message

VARIABLES
  row,        \* federated_outbox.state
  acceptance, \* federated_outbox.acceptance_state
  place,      \* rowid of the outbox row
  copy,       \* messages.state at the sender's hub
  lapsedHere, \* messages past expires_at on the sender's clock
  lapsedThere,\* the same on the destination's clock
  calls,      \* what each thread is doing
  batch,      \* rows tick has read and not yet flushed
  late,       \* requests whose caller gave up
  phase,      \* the destination's mailbox
  grants,
  byCancel,   \* history: messages the destination first saw in a cancel
  crashes

outbox == <<row, acceptance, place, copy>>
clocks == <<lapsedHere, lapsedThere>>
there  == <<phase, grants, byCancel>>
vars == <<outbox, clocks, calls, batch, late, there, crashes>>

Destination == INSTANCE DeliveryPromise

-----------------------------------------------------------------------------
Outcomes == {"open", "granted", "withdrawn", "closed"}

(* Error codes, by what accept and cancel make of them: "invalid" stands    *)
(* for identity_rejected, id_conflict and invalid_message; "no_recipient"   *)
(* for that and policy_blocked; "unavailable" for all transient ones.       *)
Refusals == {"invalid", "no_recipient", "stale_session", "unavailable"}

Idle == [op |-> "none", msg |-> None, stage |-> "idle", answer |-> "none"]
Sent(op, m) == [op |-> op, msg |-> m, stage |-> "sent", answer |-> "none"]
At(c, s) == [op |-> c.op, msg |-> c.msg, stage |-> s, answer |-> c.answer]
Answered(c, a) ==
  [op |-> c.op, msg |-> c.msg, stage |-> "answered", answer |-> a]

Idles(t) == calls[t] = Idle
Active   == {m \in Message : row[m] \in {"pending", "cancel_pending"}}
Oldest   == {m \in Active :
               Cardinality({n \in Active : place[n] < place[m]}) < Limit}

Init ==
  /\ row = [m \in Message |-> "absent"]
  /\ acceptance = [m \in Message |-> "none"]
  /\ place = [m \in Message |-> 0]
  /\ copy = [m \in Message |-> "absent"]
  /\ lapsedHere = {} /\ lapsedThere = {}
  /\ calls = [t \in Thread |-> Idle]
  /\ batch = {} /\ late = {}
  /\ Destination!Init /\ byCancel = {}
  /\ crashes = 0

-----------------------------------------------------------------------------
(* The sender's hub *)

(* flush_one without the expiry. *)
FlushForever(t, m, s) ==
  /\ s \in {"pending", "cancel_pending"}
  /\ calls' = [calls EXCEPT ![t] = Sent(IF s = "pending" THEN "accept"
                                        ELSE "cancel", m)]
  /\ UNCHANGED row

(* flush_one of a row read in state s: m may have moved on since.           *)
Flush(t, m, s) ==
  \/ /\ s = "pending" /\ m \in lapsedHere
     /\ row' = [row EXCEPT ![m] = "expired"]
     /\ UNCHANGED calls
  \/ /\ s = "pending" /\ m \notin lapsedHere
     /\ calls' = [calls EXCEPT ![t] = Sent("accept", m)]
     /\ UNCHANGED row
  \/ /\ s = "cancel_pending"
     /\ calls' = [calls EXCEPT ![t] = Sent("cancel", m)]
     /\ UNCHANGED row

(* The message and its outbox row commit together.  The flush that follows  *)
(* reads the row again: it is Resubmit, or left to the retry loop.          *)
Submit(t, m) ==
  /\ Idles(t) /\ copy[m] = "absent"
  /\ copy' = [copy EXCEPT ![m] = "accepted"]
  /\ row' = [row EXCEPT ![m] = "pending"]
  /\ place' = [place EXCEPT ![m] =
                 1 + Cardinality({n \in Message : row[n] # "absent"})]
  /\ UNCHANGED <<acceptance, clocks, calls, batch, late, there, crashes>>

(* The flush of submit, also of an id it knows. *)
Resubmit(t, m) ==
  /\ Idles(t)
  /\ Flush(t, m, row[m])
  /\ UNCHANGED <<acceptance, place, copy, clocks, batch, late, there, crashes>>

Cancel(t, m) ==
  /\ Idles(t) /\ m \in Cancelled
  /\ copy[m] \notin {"absent", "cancelled"}
  /\ row' = [row EXCEPT ![m] = "cancel_pending"]
  /\ calls' = [calls EXCEPT ![t] = Sent("cancel", m)]
  /\ UNCHANGED <<acceptance, place, copy, clocks, batch, late, there, crashes>>

TickSelect ==
  /\ Idles(Ticker) /\ batch = {} /\ Active # {}
  /\ batch' = {[msg |-> m, state |-> row[m]] : m \in Oldest}
  /\ UNCHANGED <<outbox, clocks, calls, late, there, crashes>>

TickFlush ==
  /\ Idles(Ticker)
  /\ \E b \in batch :
       /\ \A c \in batch : place[b.msg] <= place[c.msg]
       /\ batch' = batch \ {b}
       /\ Flush(Ticker, b.msg, b.state)
  /\ UNCHANGED <<acceptance, place, copy, clocks, late, there, crashes>>

(* Of requests without a caller, MaxLate at most are ever served.           *)
Orphaned(requests) ==
  {s \in SUBSET (late \union requests) : Cardinality(s) <= MaxLate}

(* The call times out; the destination may still serve it.                  *)
GiveUp(t) ==
  /\ calls[t].stage \in {"sent", "half"}
  /\ late' \in Orphaned({calls[t]})
  /\ calls' = [calls EXCEPT ![t] = Answered(calls[t], "unavailable")]
  /\ UNCHANGED <<outbox, clocks, batch, there, crashes>>

(* The end of flush_one. *)
FinishAccept(t) ==
  /\ calls[t].op = "accept" /\ calls[t].stage = "answered"
  /\ LET m == calls[t].msg
         a == calls[t].answer
     IN  \/ /\ a \in Outcomes
            /\ row' = [row EXCEPT ![m] = "delivered"]
            /\ acceptance' = [acceptance EXCEPT ![m] = a]
            /\ calls' = [calls EXCEPT ![t] = Idle]
         \/ /\ a \in Refusals \ {"unavailable"}
            /\ row' = [row EXCEPT ![m] = "rejected"]
            /\ calls' = [calls EXCEPT ![t] = At(@, "copy")]
            /\ UNCHANGED acceptance
         \/ /\ a = "unavailable"
            /\ calls' = [calls EXCEPT ![t] = Idle]
            /\ UNCHANGED <<row, acceptance>>
  /\ UNCHANGED <<place, copy, clocks, batch, late, there, crashes>>

(* An error that _cancel_remote raises ends the whole tick.                 *)
EndOfTick(t) == batch' = IF t = Ticker THEN {} ELSE batch

(* _cancel_remote that takes any answer for a confirmation. *)
CancelToldAnyway(t) ==
  /\ calls[t].op = "cancel" /\ calls[t].stage = "answered"
  /\ LET m == calls[t].msg
     IN  /\ row' = [row EXCEPT ![m] = "cancelled"]
         /\ calls' = [calls EXCEPT ![t] = At(@, "copy")]
  /\ UNCHANGED <<acceptance, place, copy, clocks, batch, late, there, crashes>>

(* The end of _cancel_remote. *)
FinishCancel(t) ==
  /\ calls[t].op = "cancel" /\ calls[t].stage = "answered"
  /\ LET m == calls[t].msg
         a == calls[t].answer
     IN  \/ /\ a = "withdrawn"
            /\ row' = [row EXCEPT ![m] = "cancelled"]
            /\ calls' = [calls EXCEPT ![t] = At(@, "copy")]
            /\ UNCHANGED batch
         \/ /\ a = "too_late"
            /\ row' = [row EXCEPT ![m] = "delivered"]
            /\ calls' = [calls EXCEPT ![t] = Idle]
            /\ EndOfTick(t)
         \/ /\ a = "invalid"
            /\ row' = [row EXCEPT ![m] = "rejected"]
            /\ calls' = [calls EXCEPT ![t] = Idle]
            /\ EndOfTick(t)
         \/ /\ a \in Refusals \ {"invalid"}
            /\ calls' = [calls EXCEPT ![t] = Idle]
            /\ UNCHANGED <<row, batch>>
  /\ UNCHANGED <<acceptance, place, copy, clocks, late, there, crashes>>

(* The second UPDATE: the message follows its outbox row.                   *)
WriteCopy(t) ==
  /\ calls[t].stage = "copy"
  /\ LET m == calls[t].msg
         s == CASE calls[t].op = "cancel"               -> "cancelled"
                [] calls[t].answer = "stale_session"    -> "stale_session"
                [] OTHER                                -> "rejected"
     IN  copy' = [copy EXCEPT ![m] = s]
  /\ calls' = [calls EXCEPT ![t] = Idle]
  /\ UNCHANGED <<row, acceptance, place, clocks, batch, late, there, crashes>>

Crash ==
  /\ crashes < MaxCrashes
  /\ crashes' = crashes + 1
  /\ late' \in Orphaned({calls[t] : t \in {u \in Thread :
                             calls[u].stage \in {"sent", "half"}}})
  /\ calls' = [t \in Thread |-> Idle]
  /\ batch' = {}
  /\ UNCHANGED <<outbox, clocks, there>>

-----------------------------------------------------------------------------
(* The destination's hub *)

(* accept without the lookup of known ids. *)
AcceptAnew(m, a) ==
  \/ /\ m \notin lapsedThere /\ a = "open"
     /\ phase' = [phase EXCEPT ![m] = "open"]
     /\ UNCHANGED grants
  \/ a \in Refusals /\ UNCHANGED <<phase, grants>>

(* accept: an id it knows is answered with its state.                       *)
Accept(m, a) ==
  \/ /\ phase[m] # "none" /\ a = phase[m]
     /\ UNCHANGED <<phase, grants>>
  \/ /\ m \notin lapsedThere /\ a = "open"
     /\ Destination!Offer(m)
  \/ /\ phase[m] = "none" /\ a \in Refusals
     /\ UNCHANGED <<phase, grants>>

(* Hub.cancel without the check of the state. *)
WithdrawAnyway(m, a) ==
  /\ a = "withdrawn"
  /\ phase' = [phase EXCEPT ![m] = "withdrawn"]
  /\ UNCHANGED grants

(* Hub.cancel, in a transaction of its own; it may refuse a sender whose    *)
(* recorded endpoint was retired.                                           *)
Withdraw(m, a) ==
  \/ a = "withdrawn" /\ Destination!Withdraw(m)
  \/ /\ \/ a = "withdrawn" /\ phase[m] = "withdrawn"
        \/ a = "too_late" /\ phase[m] \in {"granted", "closed"}
        \/ a \in {"stale_session", "unavailable"}
     /\ UNCHANGED <<phase, grants>>

(* The next step of serving request c leaves it as d: peer_accept is one    *)
(* transaction, peer_cancel is an accept and then a cancel.                 *)
Served(c, d) ==
  \/ /\ c.op = "accept" /\ c.stage = "sent"
     /\ \E a \in Outcomes \union Refusals :
          Accept(c.msg, a) /\ d = Answered(c, a)
     /\ UNCHANGED byCancel
  \/ /\ c.op = "cancel" /\ c.stage = "sent"
     /\ \E a \in Outcomes \union Refusals :
          /\ Accept(c.msg, a)
          /\ d = IF a \in Refusals THEN Answered(c, a)
                 ELSE At(c, "half")
     /\ byCancel' = IF phase[c.msg] = "none" /\ phase'[c.msg] = "open"
                    THEN byCancel \union {c.msg} ELSE byCancel
  \/ /\ c.op = "cancel" /\ c.stage = "half"
     /\ \E a \in Outcomes \union Refusals \union {"too_late"} :
          Withdraw(c.msg, a) /\ d = Answered(c, a)
     /\ UNCHANGED byCancel

Serve(t) ==
  /\ calls[t].msg \in Reachable
  /\ \E d \in [op : {"accept", "cancel"}, msg : Message,
               stage : {"half", "answered"},
               answer : Outcomes \union Refusals \union {"none", "too_late"}] :
       Served(calls[t], d) /\ calls' = [calls EXCEPT ![t] = d]
  /\ UNCHANGED <<outbox, clocks, batch, late, crashes>>

ServeLate(c) ==
  /\ c.msg \in Reachable
  /\ \/ \E a \in Outcomes \union Refusals \union {"too_late"} :
          Served(c, Answered(c, a)) /\ late' = late \ {c}
     \/ LET d == At(c, "half")
        IN  Served(c, d) /\ late' = (late \ {c}) \union {d}
  /\ UNCHANGED <<outbox, clocks, calls, batch, crashes>>

(* begin_present of the destination's adapters.                             *)
Present(m) ==
  /\ m \notin lapsedThere
  /\ Destination!Grant(m)
  /\ UNCHANGED <<outbox, clocks, calls, batch, late, byCancel, crashes>>

(* endpoint_retire, or a receipt without presentation.                      *)
Settle(m) ==
  /\ phase[m] = "open"
  /\ Destination!Close({m})
  /\ UNCHANGED <<outbox, clocks, calls, batch, late, byCancel, crashes>>

LapseHere(m) ==
  /\ copy[m] # "absent" /\ m \notin lapsedHere
  /\ lapsedHere' = lapsedHere \union {m}
  /\ UNCHANGED <<outbox, lapsedThere, calls, batch, late, there, crashes>>

LapseThere(m) ==
  /\ copy[m] # "absent" /\ m \notin lapsedThere
  /\ lapsedThere' = lapsedThere \union {m}
  /\ UNCHANGED <<outbox, lapsedHere, calls, batch, late, there, crashes>>

ClientStep == \E t \in Client, m \in Message :
                Submit(t, m) \/ Resubmit(t, m) \/ Cancel(t, m)
ThreadStep == \E t \in Thread :
                \/ GiveUp(t) \/ Serve(t)
                \/ FinishAccept(t) \/ FinishCancel(t) \/ WriteCopy(t)
MailboxStep == \E m \in Message :
                 Present(m) \/ Settle(m) \/ LapseHere(m) \/ LapseThere(m)

Next == \/ ClientStep \/ ThreadStep \/ MailboxStep
        \/ TickSelect \/ TickFlush \/ Crash
        \/ \E c \in late : ServeLate(c)

Spec == Init /\ [][Next]_vars

(* The retry loop runs every two seconds, a call returns or times out, and  *)
(* time passes.  No destination has to answer.                              *)
Fairness ==
  /\ WF_vars(TickSelect) /\ WF_vars(TickFlush)
  /\ \A t \in Thread :
       /\ WF_vars(GiveUp(t) \/ Serve(t))
       /\ WF_vars(FinishAccept(t) \/ FinishCancel(t) \/ WriteCopy(t))
  /\ \A m \in Message : WF_vars(LapseHere(m))

FairSpec == Spec /\ Fairness
=============================================================================
