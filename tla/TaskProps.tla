------------------------------ MODULE TaskProps ------------------------------
(***************************************************************************)
(* What the formal task ledger promises, over the state of TaskAuthority.  *)
(***************************************************************************)
EXTENDS TaskAuthority

Freezable == Status \ (Terminal \union {"absent", "frozen"})
Maybe == Endpoint \union {None}

(* The columns of the tables hold values of their types. *)
TypeOK ==
  /\ approval \in Maybe /\ owner \in Maybe /\ executor \in Maybe
  /\ status \in Status
  /\ Exists <=> executor # None
  /\ Exists <=> owner # None
  /\ epoch \in Nat
  /\ frozenFrom \in [epoch : Nat, status : Freezable \union {"none"}]
  /\ handoff \in {NoHandoff}
       \union [state : {"prepared", "released", "accepted", "committed",
                        "aborted"},
               epoch : Nat, target : Endpoint]
  /\ opState \in [Operation -> {"none", "open", "closed"}]
  /\ opEpoch \in [Operation -> Nat]
  /\ assigned \subseteq Endpoint \X Nat
  /\ retired \subseteq Endpoint
  /\ proofs \subseteq [ep : Endpoint, prior : SUBSET Endpoint]
  /\ consents \subseteq Endpoint \X {"released", "accepted"} \X Nat
  /\ served \subseteq Endpoint \X Nat
  /\ doneBy \in Maybe

(* accept_handoff and commit_handoff do not compare the hand-off's epoch,   *)
(* and unfreeze, resume and commit are the only ways to leave an epoch: a   *)
(* pending hand-off belongs to the current epoch and nothing runs under it. *)
PendingIsCurrent ==
  PendingHandoff => /\ handoff.epoch = epoch
                    /\ Quiescent
                    /\ handoff.target # executor

(* begin_operation: every open operation is the current executor's, of the  *)
(* current epoch, whatever freezes, resumes and hand-offs happened since.   *)
SingleWriter ==
  \A o \in OpenOperations : o[1] = executor /\ opEpoch[o] = epoch

(* done, block, verify and report wait for the operations: a task that is   *)
(* finished or blocked has nothing running.                                 *)
FinishedIsQuiet == status \in Finished \union {"blocked"} => Quiescent

(* A result is its executor's own: after a hand-off the new executor has to *)
(* finish the task itself, also when it was frozen or blocked in between.   *)
Result(s) == s \in Finished
DoneByExecutor ==
  (\/ Result(status)
   \/ status = "frozen" /\ Result(frozenFrom.status))
    => doneBy # None /\ NativeOf[doneBy] = NativeOf[executor]

(* docs/reference/unified-tasks.md: the executor changes only when the old  *)
(* one released and the new one accepted in this very epoch, or when the    *)
(* new one is a later incarnation of a conversation that was retired.       *)
HandoffConsented ==
  [][executor # None /\ executor' # executor =>
       \/ /\ <<executor, "released", epoch>> \in consents
          /\ <<executor', "accepted", epoch>> \in consents
       \/ executor \in retired /\ NativeOf[executor'] = NativeOf[executor]]_vars

(* begin_operation: "completed operation cannot be executed again", also    *)
(* when the task went to another executor and came back.                    *)
NoToolRunsTwice ==
  [][\A o \in Operation : opState[o] = "closed" => opState'[o] = "closed"]_vars

(* docs/reference/unified-tasks.md: cancellation and reported states cannot *)
(* be replaced by a later freeze or delayed lifecycle message.              *)
TerminalForever ==
  [][(status \in Terminal) => UNCHANGED <<status, owner, executor, epoch>>]_vars

(* binding_release_check: conversation a asks to drop the binding an        *)
(* earlier incarnation e of it has had since epoch n.                       *)
BindingReleaseAllowed(a, e, n) ==
  /\ NativeOf[a] = NativeOf[e] /\ a # e
  /\ status \in Active /\ epoch > n
  /\ executor \notin {a, e}
  /\ <<e, n>> \in assigned
  /\ ~ (PendingHandoff /\ handoff.target \in {a, e})
  /\ \A t \in Tool : opState[<<e, t>>] # "open"

(* The binding of an executor that handed the task over can be dropped at   *)
(* the epoch it served by every other incarnation of its conversation, as   *)
(* long as neither of the two has the active task or is to have it: the     *)
(* commit recorded the assignment, and no tool call or resume since stands  *)
(* in the way.                                                              *)
FormerExecutorDetaches ==
  \A s \in served, a \in Endpoint :
    (/\ NativeOf[a] = NativeOf[s[1]] /\ a # s[1]
     /\ status \in Active /\ executor \notin {a, s[1]}
     /\ ~ (PendingHandoff /\ handoff.target \in {a, s[1]}))
      => BindingReleaseAllowed(a, s[1], s[2])

(* Refinement: the ledger is a fencing token. *)
Running == {<<o[1], o[2], opEpoch[o]>> : o \in OpenOperations}

Fence == INSTANCE TaskFence
           WITH holder <- executor, running <- Running,
                stopped <- status \in Terminal

(* The ledger implements the fence: no operation is admitted for anybody    *)
(* but the holder, and the task never moves while one is running.           *)
FenceKept == Fence!Spec

(* The ledger as the host of the endpoints in Local meets it.  It sees only *)
(* whether an endpoint has a tool call open, and no other host's calls.     *)
StatusSeen == IF status \in Terminal \union {"frozen"} THEN status ELSE "accepted"

OperationSeen(e) ==
  IF \E t \in Tool : opState[<<e, t>>] = "open" THEN "open"
  ELSE IF \E t \in Tool : opState[<<e, t>>] # "none" THEN "closed" ELSE "none"

TaskView(Local) ==
  INSTANCE TaskMaster
    WITH Endpoint <- Local, Elsewhere <- Endpoint \ Local, Task <- {"task"},
         status <- [t \in {"task"} |-> StatusSeen],
         executor <- [t \in {"task"} |-> executor],
         epoch <- [t \in {"task"} |-> epoch],
         handoff <- [t \in {"task"} |->
                       [state |-> handoff.state, target |-> handoff.target]],
         assigned <- {<<"task", s[1], s[2]>> : s \in assigned},
         operations <- [o \in Local \X {"task"} |-> OperationSeen(o[1])],
         retired <- retired \intersect Local

(* A conversation stays on its host. *)
Hosts == {H \in SUBSET Endpoint :
            \A e \in H, f \in Endpoint : NativeOf[e] = NativeOf[f] => f \in H}

Seen(Local) == <<TaskView(Local)!master, [e \in Local |-> OperationSeen(e)]>>

(* Every request the ledger serves, from whichever host, is a step that     *)
(* task_host.py is built to meet, for every host at once.  The exception is *)
(* begin_operation, which the hosts no longer send.                         *)
MeetsTaskHosts ==
  [][\A Local \in Hosts :
       /\ ~ Exists /\ Exists' => TaskView(Local)!MasterInit'
       /\ Exists => \/ TaskView(Local)!MasterStep
                    \/ UNCHANGED Seen(Local)
                    \/ \E a \in Endpoint, t \in Tool : BeginOperation(a, t)]_vars
=============================================================================
