----------------------------- MODULE TaskMaster -----------------------------
(***************************************************************************)
(* The task ledger (tasks.py) as the host of its executors meets it:       *)
(* TaskAuthority reduced to what the requests of task_host.py read, for    *)
(* several tasks.  A task that is neither frozen nor over is "accepted"    *)
(* here, and a hand-off may go on with it; owners are left out but for     *)
(* what they change.  Every step is one request and one transaction.       *)
(***************************************************************************)
EXTENDS Naturals

CONSTANTS Endpoint,   \* the endpoints of this host
          Elsewhere,  \* endpoints of other hosts
          NativeOf,   \* endpoint -> its native conversation
          Task,
          MaxEpoch,   \* bound on task epochs
          None

VARIABLES
  status, executor, epoch,  \* tasks
  handoff,    \* task_handoffs: state and target
  assigned,   \* task_assignments
  operations, \* task_operations: "none", "open" or "closed"
  retired     \* endpoints.retired

master == <<status, executor, epoch, handoff, assigned, retired>>

Actor == Endpoint \union Elsewhere
Epoch == 0 .. MaxEpoch + 1
Operation == Endpoint \X Task    \* one tool_use_id of the endpoint per task

(* A task as submit leaves it, whoever executes it. *)
MasterInit ==
  /\ status = [t \in Task |-> "accepted"]
  /\ epoch = [t \in Task |-> 0]
  /\ handoff = [t \in Task |-> [state |-> "none", target |-> None]]
  /\ assigned = {}

-----------------------------------------------------------------------------
HandoffAllowed(t) == status[t] = "accepted"
Terminal(t) == status[t] \in {"reported", "cancelled"}
Pending(t) == handoff[t].state \in {"prepared", "released", "accepted"}
OpenOf(t) == {o \in Operation : o[2] = t /\ operations[o] = "open"}
Quiescent(t) == OpenOf(t) = {}

Visible(t, a) == \/ executor[t] = a
                 \/ \E n \in Epoch : <<t, a, n>> \in assigned
                 \/ handoff[t].target = a

SetHandoff(t, state, target) ==
  handoff' = [handoff EXCEPT ![t] = [state |-> state, target |-> target]]
SetStatus(t, s) ==
  /\ status' = [status EXCEPT ![t] = s]
  /\ UNCHANGED <<executor, epoch, handoff, assigned, operations, retired>>

Prepares(t, x) ==
  /\ HandoffAllowed(t) /\ Quiescent(t)
  /\ x # executor[t]
  /\ handoff[t].state \notin {"released", "accepted"}
  /\ SetHandoff(t, "prepared", x)
  /\ UNCHANGED <<status, executor, epoch, assigned, operations, retired>>

Releases(t) ==
  /\ HandoffAllowed(t) /\ Quiescent(t)
  /\ handoff[t].state = "prepared"
  /\ SetHandoff(t, "released", handoff[t].target)
  /\ UNCHANGED <<status, executor, epoch, assigned, operations, retired>>

Accepts(t, a) ==
  /\ HandoffAllowed(t)
  /\ handoff[t].state \in {"released", "accepted"} /\ handoff[t].target = a
  /\ SetHandoff(t, "accepted", a)
  /\ UNCHANGED <<status, executor, epoch, assigned, operations, retired>>

Commits(t) ==
  /\ HandoffAllowed(t) /\ Quiescent(t) /\ epoch[t] < MaxEpoch
  /\ handoff[t].state = "accepted"
  /\ executor' = [executor EXCEPT ![t] = handoff[t].target]
  /\ epoch' = [epoch EXCEPT ![t] = @ + 1]
  /\ assigned' = assigned \union {<<t, executor[t], epoch[t]>>}
  /\ SetHandoff(t, "committed", handoff[t].target)
  /\ UNCHANGED <<status, operations, retired>>

Freezes(t) == status[t] = "accepted" /\ SetStatus(t, "frozen")
Cancels(t) == ~ Terminal(t) /\ SetStatus(t, "cancelled")
Reports(t) == status[t] = "accepted" /\ Quiescent(t) /\ SetStatus(t, "reported")

Unfreezes(t) ==
  /\ status[t] = "frozen" /\ Quiescent(t) /\ epoch[t] < MaxEpoch
  /\ status' = [status EXCEPT ![t] = "accepted"]
  /\ epoch' = [epoch EXCEPT ![t] = @ + 1]
  /\ IF Pending(t)
     THEN /\ SetHandoff(t, "aborted", handoff[t].target)
          /\ assigned' = assigned \union {<<t, handoff[t].target, epoch[t] + 1>>}
     ELSE UNCHANGED <<handoff, assigned>>
  /\ UNCHANGED <<executor, operations, retired>>

(* The conversation goes on in another process. *)
Retires(e) ==
  /\ retired' = retired \union {e}
  /\ UNCHANGED <<status, executor, epoch, handoff, assigned, operations>>

(* Resume: a role moves to the endpoint that goes on with its conversation *)
(* and the epoch ends; x is the executor then.  The evidence may be of     *)
(* long ago.  The executor stays when it is the owner's role that moves.   *)
Prior(a) == {e \in retired \ {a} : NativeOf[e] = NativeOf[a]}
ResumeAllowed(t) == status[t] = "accepted" /\ Quiescent(t) /\ ~ Pending(t)

Resumed(t, x) ==
  /\ ResumeAllowed(t) /\ epoch[t] < MaxEpoch
  /\ executor' = [executor EXCEPT ![t] = x]
  /\ epoch' = [epoch EXCEPT ![t] = @ + 1]
  /\ assigned' = assigned \union {<<t, x, epoch[t] + 1>>}
  /\ UNCHANGED <<status, handoff, operations, retired>>

Resumes(t, a) == executor[t] \in Prior(a) /\ Resumed(t, a)
ResumesElsewhere(t, x) ==
  /\ x = executor[t] \/ {x, executor[t]} \subseteq Elsewhere
  /\ Resumed(t, x)

(* The end of a tool call. *)
Ends(o) ==
  /\ operations[o] # "none"
  /\ operations' = [operations EXCEPT ![o] = "closed"]
  /\ UNCHANGED master

MasterStep ==
  \/ \E t \in Task :
       \/ Releases(t) \/ Commits(t) \/ Freezes(t) \/ Unfreezes(t)
       \/ Cancels(t) \/ Reports(t)
       \/ \E x \in Actor : Prepares(t, x) \/ Accepts(t, x) \/ ResumesElsewhere(t, x)
       \/ \E a \in Endpoint : Resumes(t, a)
  \/ \E e \in Endpoint : Retires(e)
  \/ \E o \in Operation : Ends(o)
=============================================================================
