---------------------------- MODULE TaskAuthority ----------------------------
(***************************************************************************)
(* The formal task ledger (tasks.py): one task, and every operation        *)
(* dispatch routes to.  A handler runs in one BEGIN IMMEDIATE transaction, *)
(* so it is one action.                                                    *)
(*                                                                         *)
(* Abstractions: the rows of different tasks never meet, so one task is    *)
(* modelled.  Requests carry expected_epoch; one that names another epoch  *)
(* is refused or, for the retry of a committed hand-off or resume, answers *)
(* from the ledger without changing it, so the actions are the requests    *)
(* that name the current epoch.  An endpoint stands for the endpoint,      *)
(* incarnation and host that _owner and _executor compare.  Requests may   *)
(* arrive long after their sender was authenticated: any endpoint may act, *)
(* retired or not, and resume uses any evidence collected so far.          *)
(***************************************************************************)
EXTENDS Naturals

CONSTANTS Endpoint,  \* endpoint incarnations of AI projects
          NativeOf,  \* endpoint -> participant and native conversation
          Tool,      \* tool_use_ids
          Owners,    \* endpoints that submit (a bound)
          Retiring,  \* endpoints that may retire (a bound)
          MaxEpoch,  \* bound on task epochs
          None       \* SQL NULL

ASSUME TaskAssumption ==
  /\ None \notin Endpoint
  /\ Owners \subseteq Endpoint /\ Retiring \subseteq Endpoint
  /\ MaxEpoch \in Nat

VARIABLES
  approval,   \* task_approvals: the endpoint that registered it
  status,     \* tasks.status, "absent" before submit
  owner, executor, epoch,
  frozenFrom, \* the last freeze event: its epoch and previous_status
  handoff,    \* task_handoffs: state, expected_epoch and target
  opState,    \* task_operations.state by <<endpoint, tool_use_id>>
  opEpoch,    \* task_operations.epoch
  assigned,   \* task_assignments
  retired,    \* endpoints.retired of the owner hosts
  proofs,     \* evidence of native continuation on its way to the ledger
  consents,   \* history: who released or accepted a hand-off, at which epoch
  served,     \* history: executors replaced by a commit, and their epoch
  doneBy      \* history: who reported the current result

ledger == <<approval, status, owner, executor, epoch, frozenFrom>>
vars == <<ledger, handoff, opState, opEpoch, assigned, retired, proofs,
          consents, served, doneBy>>

-----------------------------------------------------------------------------
Active   == {"accepted", "in_progress"}
Finished == {"done", "verified", "reported"}
Terminal == {"cancelled", "reported"}
Status   == Active \union Finished \union Terminal
              \union {"absent", "submitted", "blocked", "frozen"}
Exists   == status # "absent"

Operation == Endpoint \X Tool
OpenOperations == {o \in Operation : opState[o] = "open"}
Quiescent == OpenOperations = {}

PendingHandoff == handoff.state \in {"prepared", "released", "accepted"}
HandoffAllowed == status \in Active \union {"blocked"}

NoFreeze  == [epoch |-> 0, status |-> "none"]
NoHandoff == [state |-> "none", epoch |-> 0, target |-> None]

Init ==
  /\ approval = None /\ status = "absent"
  /\ owner = None /\ executor = None /\ epoch = 0
  /\ frozenFrom = NoFreeze
  /\ handoff = NoHandoff
  /\ opState = [o \in Operation |-> "none"]
  /\ opEpoch = [o \in Operation |-> 0]
  /\ assigned = {}
  /\ retired = {} /\ proofs = {}
  /\ consents = {} /\ served = {} /\ doneBy = None

-----------------------------------------------------------------------------
Approve(a) ==
  /\ approval = None /\ a \in Owners
  /\ approval' = a
  /\ UNCHANGED <<status, owner, executor, epoch, frozenFrom, handoff, opState,
                 opEpoch, assigned, retired, proofs, consents, served, doneBy>>

Submit(a, x) ==
  /\ ~ Exists /\ approval = a
  /\ status' = "submitted"
  /\ owner' = a /\ executor' = x /\ epoch' = 0
  /\ UNCHANGED <<approval, frozenFrom, handoff, opState, opEpoch, assigned,
                 retired, proofs, consents, served, doneBy>>

SetStatus(s) ==
  /\ status' = s
  /\ UNCHANGED <<approval, owner, executor, epoch, frozenFrom, handoff,
                 opState, opEpoch, assigned, retired, proofs, consents, served>>

(* _transition: what the executor may report. *)
Allowed(s) ==
  CASE s = "submitted"   -> {"accepted", "blocked"}
    [] s = "accepted"    -> {"in_progress", "blocked"}
    [] s = "in_progress" -> {"done", "blocked"}
    [] s = "done"        -> {"verified", "blocked"}
    [] s = "blocked"     -> {"in_progress", "done", "verified"}
    [] s = "verified"    -> {"reported"}
    [] OTHER             -> {}

Transition(a, target) ==
  /\ executor = a
  /\ target \in {"done", "blocked"} => Quiescent
  /\ target \in Allowed(status)
  /\ SetStatus(target)

Ack(a)      == Transition(a, "accepted") /\ UNCHANGED doneBy
Progress(a) == Transition(a, "in_progress") /\ UNCHANGED doneBy
Done(a)     == Transition(a, "done") /\ doneBy' = a
Block(a)    == Transition(a, "blocked") /\ UNCHANGED doneBy

OwnerTransitionFromAny(a, from, target) ==
  /\ owner = a
  /\ Quiescent
  /\ Exists /\ status # target
  /\ SetStatus(target) /\ UNCHANGED doneBy

OwnerTransition(a, from, target) ==
  /\ owner = a
  /\ Quiescent
  /\ status = from
  /\ SetStatus(target) /\ UNCHANGED doneBy

Verify(a) == OwnerTransition(a, "done", "verified")
Report(a) == OwnerTransition(a, "verified", "reported")

Cancel(a) ==
  /\ owner = a
  /\ Exists /\ status \notin Terminal
  /\ SetStatus("cancelled") /\ UNCHANGED doneBy

Freeze(a) ==
  /\ owner = a
  /\ Exists /\ status \notin Terminal \union {"frozen"}
  /\ status' = "frozen"
  /\ frozenFrom' = [epoch |-> epoch, status |-> status]
  /\ UNCHANGED <<approval, owner, executor, epoch, handoff, opState, opEpoch,
                 assigned, retired, proofs, consents, served, doneBy>>

(* The pending hand-off, if any, is aborted and its target may detach. *)
Unfreeze(a) ==
  /\ owner = a
  /\ status = "frozen" /\ epoch < MaxEpoch
  /\ Quiescent
  /\ frozenFrom.epoch = epoch /\ frozenFrom.status # "none"
  /\ status' = IF frozenFrom.status = "in_progress" THEN "accepted"
               ELSE frozenFrom.status
  /\ epoch' = epoch + 1
  /\ \/ /\ PendingHandoff
        /\ handoff' = [handoff EXCEPT !.state = "aborted"]
        /\ assigned' = assigned \union {<<handoff.target, epoch + 1>>}
     \/ /\ ~ PendingHandoff
        /\ UNCHANGED <<handoff, assigned>>
  /\ UNCHANGED <<approval, owner, executor, frozenFrom, opState, opEpoch,
                 retired, proofs, consents, served, doneBy>>

-----------------------------------------------------------------------------
(* Operation tokens of the executor's tool calls *)

SetOperation(o, state, at) ==
  /\ opState' = [opState EXCEPT ![o] = state]
  /\ opEpoch' = [opEpoch EXCEPT ![o] = at]
  /\ UNCHANGED <<ledger, handoff, assigned, retired, proofs, consents, served,
                 doneBy>>

BeginOperation(a, t) ==
  /\ executor = a /\ status \in Active
  /\ ~ PendingHandoff
  /\ opState[<<a, t>>] = "none"
  /\ SetOperation(<<a, t>>, "open", epoch)

EndOperation(a, t) ==
  /\ opState[<<a, t>>] = "open"
  /\ SetOperation(<<a, t>>, "closed", opEpoch[<<a, t>>])

-----------------------------------------------------------------------------
(* Hand-off of the executor *)

SetHandoff(h) ==
  /\ handoff' = h
  /\ UNCHANGED <<ledger, opState, opEpoch, assigned, retired, proofs, served,
                 doneBy>>

PrepareHandoff(a, target) ==
  /\ owner = a
  /\ HandoffAllowed /\ Quiescent
  /\ target # executor
  /\ handoff.state \notin {"released", "accepted"}
  /\ SetHandoff([state |-> "prepared", epoch |-> epoch, target |-> target])
  /\ UNCHANGED consents

ReleaseHandoff(a) ==
  /\ executor = a
  /\ HandoffAllowed /\ Quiescent
  /\ handoff.epoch = epoch /\ handoff.state \in {"prepared", "released"}
  /\ SetHandoff([handoff EXCEPT !.state = "released"])
  /\ consents' = consents \union {<<a, "released", epoch>>}

AcceptHandoffEarly(a) ==
  /\ HandoffAllowed
  /\ PendingHandoff
  /\ handoff.target = a
  /\ SetHandoff([handoff EXCEPT !.state = "accepted"])
  /\ consents' = consents \union {<<a, "accepted", epoch>>}

(* Neither accept nor commit compares the hand-off's expected_epoch. *)
AcceptHandoff(a) ==
  /\ HandoffAllowed
  /\ handoff.state \in {"released", "accepted"}
  /\ handoff.target = a
  /\ SetHandoff([handoff EXCEPT !.state = "accepted"])
  /\ consents' = consents \union {<<a, "accepted", epoch>>}

Reassigned(x, s) ==
  /\ executor' = x /\ status' = s
  /\ epoch' = epoch + 1
  /\ UNCHANGED <<approval, frozenFrom, opState, opEpoch, retired, proofs,
                 consents>>

CommitHandoffRecordingTarget(a) ==
  /\ owner = a /\ epoch < MaxEpoch
  /\ HandoffAllowed /\ Quiescent
  /\ handoff.state = "accepted"
  /\ Reassigned(handoff.target, "accepted")
  /\ assigned' = assigned \union {<<handoff.target, epoch + 1>>}
  /\ handoff' = [handoff EXCEPT !.state = "committed"]
  /\ served' = served \union {<<executor, epoch>>}
  /\ UNCHANGED <<owner, doneBy>>

CommitHandoff(a) ==
  /\ owner = a /\ epoch < MaxEpoch
  /\ HandoffAllowed /\ Quiescent
  /\ handoff.state = "accepted"
  /\ Reassigned(handoff.target, "accepted")
  /\ assigned' = assigned \union {<<executor, epoch>>}
  /\ handoff' = [handoff EXCEPT !.state = "committed"]
  /\ served' = served \union {<<executor, epoch>>}
  /\ UNCHANGED <<owner, doneBy>>

-----------------------------------------------------------------------------
(* Resume: a conversation that came back takes its former roles over *)

Retire(e) ==
  /\ e \in Retiring \ retired
  /\ retired' = retired \union {e}
  /\ UNCHANGED <<ledger, handoff, opState, opEpoch, assigned, proofs, consents,
                 served, doneBy>>

(* _resume_continuity: derived at the owner host, applied at the master. *)
Prior(e) == {r \in retired : NativeOf[r] = NativeOf[e]}
Attest(e) ==
  /\ e \notin retired /\ Prior(e) # {}
  /\ proofs' = proofs \union {[ep |-> e, prior |-> Prior(e)]}
  /\ UNCHANGED <<ledger, handoff, opState, opEpoch, assigned, retired,
                 consents, served, doneBy>>

ResumeBlockedUnquiesced  == status \in Terminal \union {"frozen"} \/ PendingHandoff
ResumeBlocked == \/ status \in Terminal \union {"frozen"}
                 \/ ~ Quiescent
                 \/ PendingHandoff

Resume(p) ==
  /\ Exists /\ ~ ResumeBlocked /\ epoch < MaxEpoch
  /\ {owner, executor} \intersect p.prior # {}
  /\ owner' = IF owner \in p.prior THEN p.ep ELSE owner
  /\ Reassigned(IF executor \in p.prior THEN p.ep ELSE executor, status)
  /\ assigned' = assigned \union {<<executor', epoch'>>}
  /\ UNCHANGED <<handoff, served, doneBy>>

Next ==
  \/ \E a \in Endpoint :
       \/ Approve(a) \/ Ack(a) \/ Progress(a) \/ Done(a) \/ Block(a)
       \/ Verify(a) \/ Report(a) \/ Cancel(a) \/ Freeze(a) \/ Unfreeze(a)
       \/ ReleaseHandoff(a) \/ AcceptHandoff(a) \/ CommitHandoff(a)
       \/ Retire(a) \/ Attest(a)
       \/ \E x \in Endpoint : Submit(a, x) \/ PrepareHandoff(a, x)
       \/ \E t \in Tool : BeginOperation(a, t) \/ EndOperation(a, t)
  \/ \E p \in proofs : Resume(p)

Spec == Init /\ [][Next]_vars
=============================================================================
