---------------------------- MODULE TaskHostProps ----------------------------
(* What the bindings of a host's conversations to formal tasks keep.         *)
EXTENDS TaskHost

TypeOK ==
  /\ status \in [Task -> {"accepted", "frozen", "reported", "cancelled"}]
  /\ executor \in [Task -> Actor] /\ epoch \in [Task -> 0 .. MaxEpoch]
  /\ \A t \in Task : handoff[t].target \in Actor \union {None}
  /\ operations \in [Operation -> {"none", "open", "closed"}]
  /\ \A e \in Endpoint :
       binding[e] # None => binding[e].task \in Task /\ binding[e].epoch \in Epoch
  /\ marker \subseteq Native
  /\ writer \in Thread \union {None}
  /\ \A th \in Thread : request[th] # Idle => request[th].task \in Task

(* task_detach and task_release_cancelled: the binding they remove is not   *)
(* one of a running assignment, nor can it become one again, although the   *)
(* ledger moves between the master's answer and the delete.                 *)
DetachedWasOver ==
  \A r \in over : ~ /\ executor[r[2]] = r[1] /\ epoch[r[2]] = r[3]
                    /\ ~ Terminal(r[2])

(* task_accept_handoff: while the ledger holds an accepted hand-off, its    *)
(* target is bound at the epoch the commit will have, whatever failed and   *)
(* whoever detached.  A late request may have overwritten the row.          *)
AcceptedIsBound ==
  \A t \in Task, a \in Endpoint :
    handoff[t] = [state |-> "accepted", target |-> a] /\ ~ Terminal(t) =>
      binding[a] = Row(t, epoch[t] + 1) \/ a \in mixed

(* binding_marker: a conversation with a binding has its marker, after      *)
(* every failure.  The exception is a removal that was decided before the   *)
(* binding was made, or by a release, which does not look.                  *)
MarkerCovers ==
  \A n \in Native : RowsOf(n) # {} => n \in marker \/ n \in raced

(* task_release_cancelled: once the binding is gone every tool id of the    *)
(* assignment is refused for this conversation, also by a later binding.    *)
ReleasedIsFenced ==
  \A r \in released, e \in Endpoint :
    operations[<<e, r[2]>>] # "none" => <<NativeOf[r[1]], <<e, r[2]>>>> \in fenced

(* task_reconcile_operation: an operation is closed only when the           *)
(* conversation's own transcript says that the tool ended.                  *)
ClosedWasFinished ==
  \A o \in Operation : operations[o] = "closed" => log[o] # <<>>

(* "another current task binding must not be replaced": a binding passes    *)
(* to another task only by way of none, however requests for two tasks      *)
(* overlap.                                                                 *)
BindingNotReplaced ==
  [][\A e \in Endpoint : binding[e] # None /\ binding'[e] # None =>
       binding'[e].task = binding[e].task]_binding

(* The requests change the ledger only by what task_resume,                 *)
(* task_accept_handoff and task_end_operation do to it at the master.       *)
LedgerServed == [][MasterStep]_<<master, operations>>
=============================================================================
