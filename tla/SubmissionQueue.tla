-------------------------- MODULE SubmissionQueue --------------------------
(***************************************************************************)
(* How a host hands messages to its hub (Host.submit, submission_queue.py):*)
(* a request either calls the hub itself or journals deferred work that a  *)
(* worker thread submits.  A submission id takes one of the two routes for *)
(* ever.  Statements on the journal commit one by one; the requests and    *)
(* the worker are modelled between them.                                   *)
(*                                                                         *)
(* Every failure the worker meets after its submit call leaves the row     *)
(* held: the hub may have the message.                                     *)
(***************************************************************************)
EXTENDS HostHub

VARIABLES
  journal,  \* ids with a row in submissions
  work,     \* submission_work.state, "none" without a row
  tried,    \* ids with submission_work.attempts > 0
  overdue,  \* ids past submission_work.expires_at
  enrolled, \* the binding the rows were queued under is current and allowed
  request,  \* a direct submit: "none", "checked" or "journaled"
  asked,    \* ids a cancellation found unknown to the hub
  worker,   \* the worker thread: pc, m, and whether its clock is past m's deadline
  sent      \* history: submit calls the worker made for an id

rows == <<journal, work, tried>>
queue == <<rows, overdue, enrolled, request, asked, worker, sent>>

WorkState == {"none", "pending", "dispatching", "held", "hub_committed", "blocked", "cancelled"}
Idle == [pc |-> "idle"]
Found(m) == state[m] # "none"

QueueInit ==
  /\ journal = {} /\ tried = {} /\ overdue = {} /\ asked = {}
  /\ work = [m \in Message |-> "none"]
  /\ enrolled = TRUE
  /\ request = [m \in Message |-> "none"]
  /\ worker = Idle
  /\ sent = [m \in Message |-> 0]

SetWork(m, s) == work' = [work EXCEPT ![m] = s]

-----------------------------------------------------------------------------
(* Requests. *)

Enqueue(m) ==
  /\ enrolled
  /\ m \notin journal
  /\ journal' = journal \union {m}
  /\ SetWork(m, "pending")
  /\ UNCHANGED <<state, late, tried, overdue, enrolled, request, asked, worker, sent>>

SetRequest(m, pc) == request' = [request EXCEPT ![m] = pc]

(* duplicate_work_receipt answers an id that is deferred work. *)
SubmitCheck(m) ==
  /\ request[m] = "none" /\ work[m] = "none"
  /\ SetRequest(m, "checked")
  /\ UNCHANGED <<state, late, rows, overdue, enrolled, asked, worker, sent>>

(* The check again, in the transaction that journals the id. *)
SubmitJournal(m) ==
  /\ request[m] = "checked"
  /\ IF work[m] # "none"
     THEN SetRequest(m, "none") /\ UNCHANGED journal
     ELSE SetRequest(m, "journaled") /\ journal' = journal \union {m}
  /\ UNCHANGED <<state, late, work, tried, overdue, enrolled, asked, worker, sent>>

SubmitCall(m) ==
  /\ request[m] = "journaled"
  /\ SetRequest(m, "none")
  /\ Answered("submit", m) \/ GaveUp({<<"submit", m>>}) \/ UNCHANGED <<state, late>>
  /\ UNCHANGED <<rows, overdue, enrolled, asked, worker, sent>>

(* control, of either action, and reconcile_only, which needs no binding:  *)
(* the row of a message the hub has is closed. *)
Reconcile(m) ==
  /\ work[m] # "none" /\ Found(m)
  /\ SetWork(m, "hub_committed")
  /\ UNCHANGED <<state, late, journal, tried, overdue, enrolled, request, asked, worker, sent>>

(* control, of a cancellation: the hub does not have the message. *)
CancelAsk(m) ==
  /\ work[m] # "none" /\ enrolled /\ ~Found(m)
  /\ asked' = asked \union {m}
  /\ UNCHANGED <<state, late, rows, overdue, enrolled, request, worker, sent>>

(* Mutant: what a worker has claimed may be cancelled too. *)
CancelFenceClaimed(m) ==
  /\ m \in asked
  /\ asked' = asked \ {m}
  /\ IF work[m] \in {"pending", "dispatching"}
     THEN SetWork(m, "cancelled")
     ELSE UNCHANGED work
  /\ UNCHANGED <<state, late, journal, tried, overdue, enrolled, request, worker, sent>>

CancelFence(m) ==
  /\ m \in asked
  /\ asked' = asked \ {m}
  /\ IF work[m] = "pending" /\ m \notin tried
     THEN SetWork(m, "cancelled")
     ELSE UNCHANGED work
  /\ UNCHANGED <<state, late, journal, tried, overdue, enrolled, request, worker, sent>>

-----------------------------------------------------------------------------
(* The worker (work_once). *)

WorkClaim(m) ==
  /\ worker.pc = "idle" /\ work[m] = "pending"
  /\ SetWork(m, "dispatching")
  /\ tried' = tried \union {m}
  /\ worker' = [pc |-> "query", m |-> m, overdue |-> m \in overdue]
  /\ UNCHANGED <<state, late, journal, overdue, enrolled, request, asked, sent>>

(* Every outcome is written only to a row that is still dispatching. *)
Finish(s) ==
  /\ work' = [work EXCEPT ![worker.m] = IF @ = "dispatching" THEN s ELSE @]
  /\ worker' = Idle

(* Mutant: a revoked binding is taken for a transient failure. *)
WorkQueryRetried ==
  /\ worker.pc = "query"
  /\ \/ Found(worker.m) /\ Finish("hub_committed")
     \/ ~Found(worker.m) /\ ~enrolled /\ Finish("pending")
     \/ ~Found(worker.m) /\ worker.overdue /\ enrolled /\ Finish("blocked")
     \/ /\ ~Found(worker.m) /\ ~worker.overdue /\ enrolled
        /\ worker' = [worker EXCEPT !.pc = "submit"]
        /\ UNCHANGED work
  /\ UNCHANGED <<state, late, journal, tried, overdue, enrolled, request, asked, sent>>

WorkQuery ==
  /\ worker.pc = "query"
  /\ \/ Found(worker.m) /\ Finish("hub_committed")
     \/ ~Found(worker.m) /\ (worker.overdue \/ ~enrolled) /\ Finish("blocked")
     \/ /\ ~Found(worker.m) /\ ~worker.overdue /\ enrolled
        /\ worker' = [worker EXCEPT !.pc = "submit"]
        /\ UNCHANGED work
  /\ UNCHANGED <<state, late, journal, tried, overdue, enrolled, request, asked, sent>>

(* The status call fails before anything was submitted, for now or because *)
(* the hub refuses it. *)
WorkQueryFails ==
  /\ worker.pc = "query"
  /\ Finish("pending") \/ Finish("blocked")
  /\ UNCHANGED <<state, late, journal, tried, overdue, enrolled, request, asked, sent>>

(* The hub refuses a message past its deadline, or for a reason of its own. *)
WorkSubmit ==
  /\ worker.pc = "submit"
  /\ sent' = [sent EXCEPT ![worker.m] = @ + 1]
  /\ \/ /\ worker.m \notin overdue
        /\ Answered("submit", worker.m)
        /\ worker' = [worker EXCEPT !.pc = "confirm"]
        /\ UNCHANGED work
     \/ Finish("held") /\ UNCHANGED <<state, late>>
     \/ Finish("held") /\ GaveUp({<<"submit", worker.m>>})
  /\ UNCHANGED <<journal, tried, overdue, enrolled, request, asked>>

(* The answer of the call is not taken for the message. *)
WorkConfirm ==
  /\ worker.pc = "confirm"
  /\ (Found(worker.m) /\ Finish("hub_committed")) \/ Finish("held")
  /\ UNCHANGED <<state, late, journal, tried, overdue, enrolled, request, asked, sent>>

-----------------------------------------------------------------------------
(* The environment: deadlines and the enrollment of the service. *)

(* A submit call served after the deadline is refused. *)
DeadlinePasses(m) ==
  /\ work[m] # "none" /\ m \notin overdue
  /\ overdue' = overdue \union {m}
  /\ late' = late \ {<<"submit", m>>}
  /\ UNCHANGED <<state, rows, enrolled, request, asked, worker, sent>>

Revoke ==
  /\ enrolled
  /\ enrolled' = FALSE
  /\ UNCHANGED <<state, late, rows, overdue, request, asked, worker, sent>>

(* The host is killed and starts again (hold_interrupted). *)
InFlight == {<<"submit", m>> : m \in {n \in Message : request[n] = "journaled"}}
              \union (IF worker.pc = "submit" THEN {<<"submit", worker.m>>} ELSE {})

(* Mutant: an interrupted row is tried again. *)
QueueRestartRetries ==
  /\ work' = [m \in Message |-> IF work[m] = "dispatching" THEN "pending" ELSE work[m]]
  /\ request' = [m \in Message |-> "none"]
  /\ asked' = {}
  /\ worker' = Idle
  /\ sent' = IF worker.pc = "submit" THEN [sent EXCEPT ![worker.m] = @ + 1] ELSE sent
  /\ UNCHANGED <<journal, tried, overdue, enrolled>>

QueueRestart ==
  /\ work' = [m \in Message |-> IF work[m] = "dispatching" THEN "held" ELSE work[m]]
  /\ request' = [m \in Message |-> "none"]
  /\ asked' = {}
  /\ worker' = Idle
  /\ sent' = IF worker.pc = "submit" THEN [sent EXCEPT ![worker.m] = @ + 1] ELSE sent
  /\ UNCHANGED <<journal, tried, overdue, enrolled>>

QueueStep ==
  \/ \E m \in Message : \/ Enqueue(m) \/ SubmitCheck(m) \/ SubmitJournal(m) \/ SubmitCall(m)
                        \/ Reconcile(m) \/ CancelAsk(m) \/ CancelFence(m)
                        \/ WorkClaim(m) \/ DeadlinePasses(m)
  \/ WorkQuery \/ WorkQueryFails \/ WorkSubmit \/ WorkConfirm
  \/ Revoke

QueueTypeOK ==
  /\ journal \subseteq Message /\ tried \subseteq Message
  /\ overdue \subseteq Message /\ asked \subseteq Message
  /\ work \in [Message -> WorkState]
  /\ enrolled \in BOOLEAN
  /\ request \in [Message -> {"none", "checked", "journaled"}]
  /\ worker \in {Idle} \union [pc : {"query", "submit", "confirm"}, m : Message, overdue : BOOLEAN]
  /\ sent \in [Message -> Nat]
=============================================================================
