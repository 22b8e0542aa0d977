------------------------------ MODULE TaskProofs ------------------------------
(***************************************************************************)
(* Theorems about TaskAuthority for every set of endpoints and tools and   *)
(* every bound on epochs.                                                  *)
(***************************************************************************)
EXTENDS TaskProps, TLAPS

USE DEF ledger

-----------------------------------------------------------------------------
(* Types *)

LEMMA InitTypeOK == Init => TypeOK
  BY TaskAssumption DEF Init, TypeOK, Maybe, Status, Exists, NoFreeze,
     Freezable

LEMMA OpenTyped == OpenOperations \subseteq Operation
  BY DEF OpenOperations

(* The executor's and the requester's status changes keep the types. *)
LEMMA SetStatusTypeOK ==
  ASSUME TypeOK, Exists, NEW s \in Status \ {"absent"}, SetStatus(s),
         doneBy' \in Maybe
  PROVE  TypeOK'
  BY DEF SetStatus, TypeOK, Exists

LEMMA StepTypeOK == TypeOK /\ [Next]_vars => TypeOK'
<1> SUFFICES ASSUME TypeOK, [Next]_vars PROVE TypeOK'
  OBVIOUS
<1>1. ASSUME NEW a \in Endpoint, Approve(a) PROVE TypeOK'
  BY <1>1 DEF Approve, TypeOK, Maybe, Exists
<1>2. ASSUME NEW a \in Endpoint, NEW x \in Endpoint, Submit(a, x)
      PROVE  TypeOK'
  BY <1>2, TaskAssumption DEF Submit, TypeOK, Maybe, Exists, Status
<1>3. ASSUME NEW a \in Endpoint, Ack(a) \/ Progress(a) \/ Done(a) \/ Block(a)
      PROVE  TypeOK'
  BY <1>3, SetStatusTypeOK
  DEF Ack, Progress, Done, Block, Transition, Allowed, Status, Active,
      Finished, Exists, TypeOK, Maybe
<1>4. ASSUME NEW a \in Endpoint, Verify(a) \/ Report(a) \/ Cancel(a)
      PROVE  TypeOK'
  BY <1>4, SetStatusTypeOK
  DEF Verify, Report, Cancel, OwnerTransition, Status, Finished, Terminal,
      Exists, TypeOK
<1>5. ASSUME NEW a \in Endpoint, Freeze(a) PROVE TypeOK'
  BY <1>5 DEF Freeze, TypeOK, Exists, Status, Freezable
<1>6. ASSUME NEW a \in Endpoint, Unfreeze(a) PROVE TypeOK'
  <2>1. handoff' \in {NoHandoff}
          \union [state : {"prepared", "released", "accepted", "committed",
                           "aborted"},
                  epoch : Nat, target : Endpoint]
    BY <1>6 DEF Unfreeze, TypeOK, PendingHandoff, NoHandoff
  <2>2. assigned' \subseteq Endpoint \X Nat
    BY <1>6 DEF Unfreeze, TypeOK, PendingHandoff, NoHandoff
  <2>3. frozenFrom.status \in Status \ {"absent"}
    BY <1>6 DEF Unfreeze, TypeOK, Freezable
  <2>4. status' \in Status \ {"absent"}
    BY <1>6, <2>3 DEF Unfreeze, Status, Active
  <2>5. executor # None /\ owner # None
    BY <1>6 DEF Unfreeze, TypeOK, Exists
  <2>6. UNCHANGED <<approval, owner, executor, frozenFrom, opState, opEpoch,
                    retired, proofs, consents, served, doneBy>>
        /\ epoch' = epoch + 1
    BY <1>6 DEF Unfreeze
  <2>7. QED
    BY <2>1, <2>2, <2>4, <2>5, <2>6 DEF TypeOK, Exists
<1>7. ASSUME NEW a \in Endpoint, NEW t \in Tool,
             BeginOperation(a, t) \/ EndOperation(a, t)
      PROVE  TypeOK'
  BY <1>7 DEF BeginOperation, EndOperation, SetOperation, TypeOK, Exists,
     Operation
<1>8. ASSUME NEW a \in Endpoint, NEW x \in Endpoint, PrepareHandoff(a, x)
      PROVE  TypeOK'
  BY <1>8 DEF PrepareHandoff, SetHandoff, TypeOK, Exists
<1>9. ASSUME NEW a \in Endpoint, ReleaseHandoff(a) \/ AcceptHandoff(a)
      PROVE  TypeOK'
  BY <1>9 DEF ReleaseHandoff, AcceptHandoff, SetHandoff, TypeOK, Exists,
     NoHandoff
<1>10. ASSUME NEW a \in Endpoint, CommitHandoff(a) PROVE TypeOK'
  <2>1. handoff.target \in Endpoint
    BY <1>10 DEF CommitHandoff, TypeOK, NoHandoff
  <2>2. Exists /\ executor \in Endpoint
    BY <1>10 DEF CommitHandoff, HandoffAllowed, Active, Exists, TypeOK, Maybe
  <2>3. handoff' \in {NoHandoff}
          \union [state : {"prepared", "released", "accepted", "committed",
                           "aborted"},
                  epoch : Nat, target : Endpoint]
    BY <1>10 DEF CommitHandoff, TypeOK, NoHandoff
  <2>4. QED
    BY <1>10, <2>1, <2>2, <2>3, TaskAssumption
    DEF CommitHandoff, Reassigned, TypeOK, Exists, Status, Active, Maybe
<1>11. ASSUME NEW e \in Endpoint, Retire(e) \/ Attest(e) PROVE TypeOK'
  BY <1>11 DEF Retire, Attest, Prior, TypeOK, Exists
<1>12. ASSUME NEW p \in proofs, Resume(p) PROVE TypeOK'
  <2>1. p.ep \in Endpoint /\ p.ep # None /\ p.prior \subseteq Endpoint
    BY TaskAssumption DEF TypeOK
  <2>2. /\ executor \in Endpoint /\ owner \in Endpoint
        /\ executor' \in Endpoint /\ owner' \in Endpoint
        /\ epoch' \in Nat
    BY <1>12, <2>1 DEF Resume, Reassigned, TypeOK, Exists, Maybe
  <2>3. QED
    BY <1>12, <2>2, TaskAssumption DEF Resume, Reassigned, TypeOK, Exists,
       Maybe
<1>13. CASE UNCHANGED vars
  BY <1>13 DEF vars, TypeOK, Exists
<1>14. QED
  BY <1>1, <1>2, <1>3, <1>4, <1>5, <1>6, <1>7, <1>8, <1>9, <1>10, <1>11,
     <1>12, <1>13 DEF Next

(* The ledger's rows keep their types, whatever requests arrive. *)
THEOREM TypeCorrect == Spec => []TypeOK
  BY InitTypeOK, StepTypeOK, PTL DEF Spec

-----------------------------------------------------------------------------
(* The fence *)

(* The inductive invariant.  Every way to leave an epoch waits for the      *)
(* operations and settles the hand-off, and the checks that tasks.py leaves *)
(* out (accept and commit do not compare the hand-off's epoch, begin does   *)
(* not compare the epoch of an open operation) hold because of it.          *)
FenceInv ==
  /\ PendingIsCurrent
  /\ SingleWriter
  /\ FinishedIsQuiet
  /\ ~ Exists => Quiescent /\ ~ PendingHandoff /\ epoch = 0

LEMMA InitFence == Init => FenceInv
  BY DEF Init, FenceInv, PendingIsCurrent, SingleWriter, FinishedIsQuiet,
     Quiescent, OpenOperations, PendingHandoff, NoHandoff, Finished, Exists

(* Handlers that leave operations, epoch, executor and hand-off alone only  *)
(* owe the status.                                                          *)
LEMMA StatusFence ==
  ASSUME FenceInv, Exists, SetStatus(status'), status' # "absent",
         status' \in Finished \union {"blocked"} => Quiescent
  PROVE  FenceInv'
  BY DEF SetStatus, FenceInv, PendingIsCurrent, SingleWriter, FinishedIsQuiet,
     Quiescent, OpenOperations, PendingHandoff, Exists

LEMMA BeginFence ==
  ASSUME TypeOK, FenceInv, NEW a \in Endpoint, NEW t \in Tool,
         BeginOperation(a, t)
  PROVE  FenceInv'
<1>1. OpenOperations' = OpenOperations \union {<<a, t>>}
  BY DEF BeginOperation, SetOperation, OpenOperations, TypeOK, Operation
<1>2. \A o \in OpenOperations : o \in Operation
  BY DEF OpenOperations
<1>3. SingleWriter'
  BY <1>1, <1>2 DEF SingleWriter, FenceInv, BeginOperation, SetOperation,
     TypeOK, Operation
<1>4. ~ PendingHandoff' /\ status' \in Active
  BY DEF BeginOperation, SetOperation, PendingHandoff
<1>5. QED
  BY <1>3, <1>4 DEF FenceInv, PendingIsCurrent, FinishedIsQuiet, Finished,
     Active, Exists

LEMMA EndFence ==
  ASSUME TypeOK, FenceInv, NEW a \in Endpoint, NEW t \in Tool,
         EndOperation(a, t)
  PROVE  FenceInv'
<1>1. OpenOperations' \subseteq OpenOperations
  BY DEF EndOperation, SetOperation, OpenOperations, TypeOK, Operation
<1>2. opEpoch' = opEpoch
  BY DEF EndOperation, SetOperation, TypeOK, Operation
<1>3. UNCHANGED <<status, owner, executor, epoch, handoff>>
  BY DEF EndOperation, SetOperation
<1>4. QED
  BY <1>1, <1>2, <1>3 DEF FenceInv, PendingIsCurrent, SingleWriter,
     FinishedIsQuiet, Quiescent, PendingHandoff, Exists

(* Leaving an epoch: nothing runs and nothing is pending afterwards. *)
LEMMA PassFence ==
  ASSUME TypeOK, FenceInv, Quiescent, opState' = opState, ~ PendingHandoff',
         status' # "absent"
  PROVE  FenceInv'
  BY DEF FenceInv, PendingIsCurrent, SingleWriter, FinishedIsQuiet, Quiescent,
     OpenOperations, Exists

LEMMA StepFence == TypeOK /\ FenceInv /\ [Next]_vars => FenceInv'
<1> SUFFICES ASSUME TypeOK, FenceInv, [Next]_vars PROVE FenceInv'
  OBVIOUS
<1>1. ASSUME NEW a \in Endpoint, Approve(a) \/ Retire(a) \/ Attest(a)
      PROVE  FenceInv'
  BY <1>1 DEF Approve, Retire, Attest, FenceInv, PendingIsCurrent,
     SingleWriter, FinishedIsQuiet, Quiescent, OpenOperations, PendingHandoff,
     Exists
<1>2. ASSUME NEW a \in Endpoint, NEW x \in Endpoint, Submit(a, x)
      PROVE  FenceInv'
  BY <1>2, PassFence DEF Submit, FenceInv, PendingHandoff
<1>3. ASSUME NEW a \in Endpoint, Ack(a) \/ Progress(a) \/ Done(a) \/ Block(a)
      PROVE  FenceInv'
  BY <1>3, StatusFence DEF Ack, Progress, Done, Block, Transition, SetStatus,
     Allowed, Finished, Exists
<1>4. ASSUME NEW a \in Endpoint, Verify(a) \/ Report(a) \/ Cancel(a)
      PROVE  FenceInv'
  BY <1>4, StatusFence DEF Verify, Report, Cancel, OwnerTransition, SetStatus,
     Finished, Exists
<1>5. ASSUME NEW a \in Endpoint, Freeze(a) PROVE FenceInv'
  BY <1>5 DEF Freeze, FenceInv, PendingIsCurrent, SingleWriter,
     FinishedIsQuiet, Quiescent, OpenOperations, PendingHandoff, Exists,
     Finished
<1>6. ASSUME NEW a \in Endpoint, Unfreeze(a) PROVE FenceInv'
  <2>1. ~ PendingHandoff'
    BY <1>6 DEF Unfreeze, PendingHandoff, TypeOK, NoHandoff
  <2>2. status' # "absent"
    BY <1>6 DEF Unfreeze, TypeOK, Freezable
  <2>3. QED
    BY <1>6, <2>1, <2>2, PassFence DEF Unfreeze
<1>7. ASSUME NEW a \in Endpoint, NEW t \in Tool,
             BeginOperation(a, t) \/ EndOperation(a, t)
      PROVE  FenceInv'
  BY <1>7, BeginFence, EndFence
<1>8. ASSUME NEW a \in Endpoint, NEW x \in Endpoint, PrepareHandoff(a, x)
      PROVE  FenceInv'
  BY <1>8 DEF PrepareHandoff, SetHandoff, HandoffAllowed, Active, FenceInv,
     PendingIsCurrent, SingleWriter, FinishedIsQuiet, Quiescent,
     OpenOperations, PendingHandoff, Exists
<1>9. ASSUME NEW a \in Endpoint, ReleaseHandoff(a) \/ AcceptHandoff(a)
      PROVE  FenceInv'
  <2>1. PendingHandoff /\ Exists
    BY <1>9 DEF ReleaseHandoff, AcceptHandoff, PendingHandoff, HandoffAllowed,
       Active, Exists
  <2>2. handoff'.epoch = handoff.epoch /\ handoff'.target = handoff.target
    BY <1>9 DEF ReleaseHandoff, AcceptHandoff, SetHandoff, TypeOK, NoHandoff
  <2>3. UNCHANGED <<ledger, opState, opEpoch>>
    BY <1>9 DEF ReleaseHandoff, AcceptHandoff, SetHandoff
  <2>4. QED
    BY <2>1, <2>2, <2>3 DEF FenceInv, PendingIsCurrent, SingleWriter,
       FinishedIsQuiet, Quiescent, OpenOperations, Exists
<1>10. ASSUME NEW a \in Endpoint, CommitHandoff(a) PROVE FenceInv'
  <2>1. ~ PendingHandoff'
    BY <1>10 DEF CommitHandoff, PendingHandoff, TypeOK, NoHandoff
  <2>2. QED
    BY <1>10, <2>1, PassFence DEF CommitHandoff, Reassigned
<1>11. ASSUME NEW p \in proofs, Resume(p) PROVE FenceInv'
  BY <1>11, PassFence DEF Resume, ResumeBlocked, Reassigned, PendingHandoff,
     Exists
<1>12. CASE UNCHANGED vars
  BY <1>12 DEF vars, FenceInv, PendingIsCurrent, SingleWriter,
     FinishedIsQuiet, Quiescent, OpenOperations, PendingHandoff, Exists
<1>13. QED
  BY <1>1, <1>2, <1>3, <1>4, <1>5, <1>6, <1>7, <1>8, <1>9, <1>10, <1>11,
     <1>12 DEF Next

THEOREM FenceInvariant == Spec => []FenceInv
  BY InitTypeOK, StepTypeOK, InitFence, StepFence, PTL DEF Spec

(* begin_operation and every change of epoch: one writer at a time. *)
THEOREM OneWriter == Spec => []SingleWriter
<1>1. FenceInv => SingleWriter
  BY DEF FenceInv
<1>2. QED
  BY <1>1, FenceInvariant, PTL

(* accept_handoff and commit_handoff act on a hand-off of this epoch. *)
THEOREM HandoffsAreCurrent == Spec => []PendingIsCurrent
<1>1. FenceInv => PendingIsCurrent
  BY DEF FenceInv
<1>2. QED
  BY <1>1, FenceInvariant, PTL

(* done, block, verify, report: nothing runs in a finished task. *)
THEOREM ResultsAreQuiet == Spec => []FinishedIsQuiet
<1>1. FenceInv => FinishedIsQuiet
  BY DEF FenceInv
<1>2. QED
  BY <1>1, FenceInvariant, PTL

-----------------------------------------------------------------------------
(* Consent to hand-offs, and whose result a finished task carries *)

(* Evidence of continuation names retired endpoints of one conversation. *)
ProofsHold ==
  \A p \in proofs : \A r \in p.prior :
    r \in retired /\ NativeOf[r] = NativeOf[p.ep]

(* A hand-off's phase is the consent its two sides gave in this epoch. *)
PhaseIsConsent ==
  /\ handoff.state \in {"released", "accepted"} =>
       <<executor, "released", epoch>> \in consents
  /\ handoff.state = "accepted" =>
       <<handoff.target, "accepted", epoch>> \in consents

ServedRecorded == \A s \in served : s \in assigned /\ s[2] < epoch

HistoryInv ==
  ProofsHold /\ PhaseIsConsent /\ DoneByExecutor /\ ServedRecorded

LEMMA InitHistory == Init => HistoryInv
  BY DEF Init, HistoryInv, ProofsHold, PhaseIsConsent, DoneByExecutor,
     ServedRecorded, NoHandoff, Result, Finished

(* A step that keeps every part of the state HistoryInv reads. *)
LEMMA HistoryFrame ==
  ASSUME HistoryInv,
         UNCHANGED <<status, executor, epoch, frozenFrom, handoff, assigned,
                     retired, proofs, consents, served, doneBy>>
  PROVE  HistoryInv'
  BY DEF HistoryInv, ProofsHold, PhaseIsConsent, DoneByExecutor,
     ServedRecorded

(* A status change that makes no result, or a result of the executor. *)
LEMMA StatusHistory ==
  ASSUME TypeOK, HistoryInv, NEW s, SetStatus(s), s # "frozen",
         s \in Finished => doneBy' # None /\ NativeOf[doneBy'] = NativeOf[executor]
  PROVE  HistoryInv'
  BY DEF SetStatus, HistoryInv, ProofsHold, PhaseIsConsent, DoneByExecutor,
     ServedRecorded, Result

LEMMA UnfreezeHistory ==
  ASSUME TypeOK, HistoryInv, NEW a \in Endpoint, Unfreeze(a)
  PROVE  HistoryInv'
<1>1. handoff'.state \notin {"released", "accepted"}
  BY DEF Unfreeze, PendingHandoff, TypeOK, NoHandoff
<1>2. status' \in Finished => Result(frozenFrom.status)
  BY DEF Unfreeze, Result, Finished
<1>3. status' # "frozen"
  BY DEF Unfreeze, TypeOK, Freezable
<1>4. DoneByExecutor'
  BY <1>2, <1>3 DEF Unfreeze, HistoryInv, DoneByExecutor, Result
<1>5. ServedRecorded'
  BY DEF Unfreeze, HistoryInv, ServedRecorded, TypeOK
<1>6. QED
  BY <1>1, <1>4, <1>5 DEF Unfreeze, HistoryInv, ProofsHold, PhaseIsConsent

LEMMA CommitHistory ==
  ASSUME TypeOK, HistoryInv, NEW a \in Endpoint, CommitHandoff(a)
  PROVE  HistoryInv'
<1>1. handoff'.state = "committed"
  BY DEF CommitHandoff, TypeOK, NoHandoff
<1>2. DoneByExecutor'
  BY DEF CommitHandoff, Reassigned, DoneByExecutor, Result, Finished
<1>3. ServedRecorded'
  <2>1. epoch' = epoch + 1 /\ epoch \in Nat
    BY DEF CommitHandoff, Reassigned, TypeOK
  <2>2. ASSUME NEW s \in served' PROVE s \in assigned' /\ s[2] < epoch'
    <3>1. CASE s \in served
      BY <2>1, <3>1 DEF CommitHandoff, HistoryInv, ServedRecorded, TypeOK
    <3>2. CASE s = <<executor, epoch>>
      BY <2>1, <3>2 DEF CommitHandoff
    <3>3. QED
      BY <2>2, <3>1, <3>2 DEF CommitHandoff
  <2>3. QED
    BY <2>2 DEF ServedRecorded
<1>4. QED
  BY <1>1, <1>2, <1>3 DEF CommitHandoff, Reassigned, HistoryInv, ProofsHold,
     PhaseIsConsent

LEMMA ResumeHistory ==
  ASSUME TypeOK, HistoryInv, NEW p \in proofs, Resume(p)
  PROVE  HistoryInv'
<1>1. NativeOf[executor'] = NativeOf[executor]
  BY DEF Resume, Reassigned, HistoryInv, ProofsHold
<1>2. DoneByExecutor'
  BY <1>1 DEF Resume, Reassigned, HistoryInv, DoneByExecutor
<1>3. ServedRecorded'
  BY DEF Resume, Reassigned, HistoryInv, ServedRecorded, TypeOK
<1>4. PhaseIsConsent'
  BY DEF Resume, ResumeBlocked, PendingHandoff, PhaseIsConsent
<1>5. QED
  BY <1>2, <1>3, <1>4 DEF Resume, Reassigned, HistoryInv, ProofsHold

LEMMA StepHistory ==
  TypeOK /\ FenceInv /\ HistoryInv /\ [Next]_vars => HistoryInv'
<1> SUFFICES ASSUME TypeOK, FenceInv, HistoryInv, [Next]_vars
             PROVE  HistoryInv'
  OBVIOUS
<1>1. ASSUME NEW a \in Endpoint, NEW x \in Endpoint,
             Approve(a) \/ Submit(a, x)
      PROVE  HistoryInv'
  <2>1. CASE Approve(a)
    BY <2>1, HistoryFrame DEF Approve
  <2>2. CASE Submit(a, x)
    BY <2>2 DEF Submit, FenceInv, PendingHandoff, HistoryInv, ProofsHold,
       PhaseIsConsent, DoneByExecutor, ServedRecorded, Result, Finished
  <2>3. QED
    BY <1>1, <2>1, <2>2
<1>2. ASSUME NEW a \in Endpoint, Ack(a) \/ Progress(a) \/ Block(a)
      PROVE  HistoryInv'
  BY <1>2, StatusHistory DEF Ack, Progress, Block, Transition, Finished
<1>3. ASSUME NEW a \in Endpoint, Done(a) PROVE HistoryInv'
  BY <1>3, StatusHistory, TaskAssumption DEF Done, Transition
<1>4. ASSUME NEW a \in Endpoint, Verify(a) \/ Report(a) PROVE HistoryInv'
  BY <1>4, StatusHistory DEF Verify, Report, OwnerTransition, HistoryInv,
     DoneByExecutor, Result, Finished
<1>5. ASSUME NEW a \in Endpoint, Cancel(a) PROVE HistoryInv'
  BY <1>5, StatusHistory DEF Cancel, Finished
<1>6. ASSUME NEW a \in Endpoint, Freeze(a) PROVE HistoryInv'
  BY <1>6 DEF Freeze, HistoryInv, ProofsHold, PhaseIsConsent, DoneByExecutor,
     ServedRecorded, Result, Finished
<1>7. ASSUME NEW a \in Endpoint, NEW t \in Tool,
             BeginOperation(a, t) \/ EndOperation(a, t)
      PROVE  HistoryInv'
  BY <1>7, HistoryFrame DEF BeginOperation, EndOperation, SetOperation
<1>8. ASSUME NEW a \in Endpoint, NEW x \in Endpoint, PrepareHandoff(a, x)
      PROVE  HistoryInv'
  BY <1>8 DEF PrepareHandoff, SetHandoff, HistoryInv, ProofsHold,
     PhaseIsConsent, DoneByExecutor, ServedRecorded
<1>9. ASSUME NEW a \in Endpoint, ReleaseHandoff(a) \/ AcceptHandoff(a)
      PROVE  HistoryInv'
  <2>1. handoff'.target = handoff.target
    BY <1>9 DEF ReleaseHandoff, AcceptHandoff, SetHandoff, TypeOK, NoHandoff
  <2>2. handoff'.state = "accepted" => AcceptHandoff(a)
    BY <1>9 DEF ReleaseHandoff, SetHandoff, TypeOK, NoHandoff
  <2>3. PhaseIsConsent'
    BY <1>9, <2>1, <2>2 DEF ReleaseHandoff, AcceptHandoff, SetHandoff,
       HistoryInv, PhaseIsConsent
  <2>4. QED
    BY <1>9, <2>3 DEF ReleaseHandoff, AcceptHandoff, SetHandoff, HistoryInv,
       ProofsHold, DoneByExecutor, ServedRecorded
<1>10. ASSUME NEW a \in Endpoint, Unfreeze(a) \/ CommitHandoff(a)
       PROVE  HistoryInv'
  BY <1>10, UnfreezeHistory, CommitHistory
<1>11. ASSUME NEW e \in Endpoint, Retire(e) \/ Attest(e) PROVE HistoryInv'
  <2>1. ProofsHold'
    BY <1>11 DEF Retire, Attest, Prior, HistoryInv, ProofsHold
  <2>2. QED
    BY <1>11, <2>1 DEF Retire, Attest, HistoryInv, PhaseIsConsent,
       DoneByExecutor, ServedRecorded
<1>12. ASSUME NEW p \in proofs, Resume(p) PROVE HistoryInv'
  BY <1>12, ResumeHistory
<1>13. CASE UNCHANGED vars
  BY <1>13, HistoryFrame DEF vars
<1>14. QED
  BY <1>1, <1>2, <1>3, <1>4, <1>5, <1>6, <1>7, <1>8, <1>9, <1>10, <1>11,
     <1>12, <1>13 DEF Next

THEOREM HistoryInvariant == Spec => []HistoryInv
  BY InitTypeOK, StepTypeOK, InitFence, StepFence, InitHistory, StepHistory,
     PTL DEF Spec

(* commit_handoff restarts at accepted: no result outlives its executor. *)
THEOREM ResultsAreOwn == Spec => []DoneByExecutor
<1>1. HistoryInv => DoneByExecutor
  BY DEF HistoryInv
<1>2. QED
  BY <1>1, HistoryInvariant, PTL

(* The executor changes by consent of both, or to its own later self. *)
THEOREM ExecutorsConsent == Spec => HandoffConsented
<1>1. TypeOK /\ FenceInv /\ HistoryInv /\ [Next]_vars =>
        [executor # None /\ executor' # executor =>
           \/ /\ <<executor, "released", epoch>> \in consents
              /\ <<executor', "accepted", epoch>> \in consents
           \/ executor \in retired /\ NativeOf[executor'] = NativeOf[executor]]_vars
  <2> SUFFICES ASSUME TypeOK, HistoryInv, Next, executor # None,
                      executor' # executor
               PROVE  \/ /\ <<executor, "released", epoch>> \in consents
                         /\ <<executor', "accepted", epoch>> \in consents
                      \/ /\ executor \in retired
                         /\ NativeOf[executor'] = NativeOf[executor]
    OBVIOUS
  <2>1. CASE \E a \in Endpoint : CommitHandoff(a)
    BY <2>1 DEF CommitHandoff, Reassigned, HistoryInv, PhaseIsConsent
  <2>2. CASE \E p \in proofs : Resume(p)
    BY <2>2 DEF Resume, Reassigned, HistoryInv, ProofsHold
  <2>3. CASE \E a \in Endpoint, x \in Endpoint : Submit(a, x)
    BY <2>3 DEF Submit, TypeOK, Exists
  <2>4. QED
    BY <2>1, <2>2, <2>3
    DEF Next, Approve, Ack, Progress, Done, Block, Verify, Report, Cancel,
        Transition, OwnerTransition, SetStatus, Freeze, Unfreeze,
        ReleaseHandoff, AcceptHandoff, PrepareHandoff, SetHandoff, Retire,
        Attest, BeginOperation, EndOperation, SetOperation
<1>2. QED
  BY <1>1, TypeCorrect, FenceInvariant, HistoryInvariant, PTL
  DEF Spec, HandoffConsented

(* binding_release_check refuses a conversation the binding of an earlier   *)
(* incarnation that handed over only while one of the two has the task.     *)
THEOREM FormerExecutorsDetach == Spec => []FormerExecutorDetaches
<1>1. TypeOK /\ FenceInv /\ HistoryInv => FormerExecutorDetaches
  <2> SUFFICES ASSUME TypeOK, FenceInv, HistoryInv, NEW s \in served, NEW a \in Endpoint,
                      NativeOf[a] = NativeOf[s[1]], a # s[1],
                      status \in Active, executor \notin {a, s[1]},
                      ~ (PendingHandoff /\ handoff.target \in {a, s[1]})
               PROVE  BindingReleaseAllowed(a, s[1], s[2])
    BY DEF FormerExecutorDetaches
  <2>1. <<s[1], s[2]>> \in assigned /\ epoch > s[2] /\ s[1] \in Endpoint
    BY DEF HistoryInv, ServedRecorded, TypeOK
  <2>2. ASSUME NEW t \in Tool PROVE opState[<<s[1], t>>] # "open"
    BY <2>1 DEF FenceInv, SingleWriter, OpenOperations, Operation
  <2>3. QED
    BY <2>1, <2>2 DEF BindingReleaseAllowed
<1>2. QED
  BY <1>1, TypeCorrect, FenceInvariant, HistoryInvariant, PTL

(* begin_operation finds the closed row of every earlier epoch. *)
THEOREM ToolsRunOnce == Spec => NoToolRunsTwice
<1>1. TypeOK /\ [Next]_vars => [\A o \in Operation :
        opState[o] = "closed" => opState'[o] = "closed"]_vars
  <2> SUFFICES ASSUME TypeOK, Next, NEW o \in Operation, opState[o] = "closed"
               PROVE  opState'[o] = "closed"
    OBVIOUS
  <2>1. ASSUME NEW a \in Endpoint, NEW t \in Tool,
               BeginOperation(a, t) \/ EndOperation(a, t)
        PROVE  opState'[o] = "closed"
    BY <2>1 DEF BeginOperation, EndOperation, SetOperation, TypeOK
  <2>2. CASE UNCHANGED opState
    BY <2>2
  <2>3. QED
    BY <2>1, <2>2
    DEF Next, Approve, Submit, Ack, Progress, Done, Block, Verify, Report,
        Cancel, Transition, OwnerTransition, SetStatus, Freeze, Unfreeze,
        ReleaseHandoff, AcceptHandoff, PrepareHandoff, SetHandoff,
        CommitHandoff, Reassigned, Retire, Attest, Resume
<1>2. QED
  BY <1>1, TypeCorrect, PTL DEF Spec, NoToolRunsTwice

(* Every handler refuses a cancelled or reported task, or leaves it alone. *)
THEOREM TerminalStays == Spec => TerminalForever
<1>1. [Next]_vars => [(status \in Terminal) =>
                        UNCHANGED <<status, owner, executor, epoch>>]_vars
  <2> SUFFICES ASSUME Next, status \in Terminal
               PROVE  UNCHANGED <<status, owner, executor, epoch>>
    OBVIOUS
  <2>1. CASE \E a \in Endpoint :
               \/ Ack(a) \/ Progress(a) \/ Done(a) \/ Block(a)
               \/ Verify(a) \/ Report(a) \/ Cancel(a) \/ Freeze(a)
               \/ Unfreeze(a) \/ CommitHandoff(a)
               \/ \E x \in Endpoint : Submit(a, x)
    BY <2>1 DEF Ack, Progress, Done, Block, Transition, Allowed, Verify,
       Report, OwnerTransition, Cancel, Freeze, Unfreeze, CommitHandoff,
       HandoffAllowed, Active, Submit, Exists, Terminal
  <2>2. CASE \E p \in proofs : Resume(p)
    BY <2>2 DEF Resume, ResumeBlocked
  <2>3. QED
    BY <2>1, <2>2 DEF Next, Approve, ReleaseHandoff, AcceptHandoff,
       PrepareHandoff, SetHandoff, Retire, Attest, BeginOperation,
       EndOperation, SetOperation
<1>2. QED
  BY <1>1, PTL DEF Spec, TerminalForever

-----------------------------------------------------------------------------
(* The ledger implements TaskFence *)

fenceVars == <<executor, epoch, Running, status \in Terminal>>
FenceStep == [Fence!Next]_fenceVars

LEMMA QuiescentRuns == Quiescent => Running = {}
  BY DEF Quiescent, Running

LEMMA RunningFrame ==
  ASSUME opState' = opState, opEpoch' = opEpoch
  PROVE  Running' = Running
  BY DEF Running, OpenOperations

(* A step that keeps executor, epoch and operations stutters or stops. *)
LEMMA StatusFenceStep ==
  ASSUME executor' = executor, epoch' = epoch, opState' = opState,
         opEpoch' = opEpoch, status \in Terminal => status' \in Terminal
  PROVE  FenceStep
<1>1. Running' = Running
  BY RunningFrame
<1>2. CASE status' \in Terminal
  <2>1. (status \in Terminal)' = TRUE
    BY <1>2
  <2>2. Fence!Stop
    BY <1>1, <2>1 DEF Fence!Stop
  <2>3. QED
    BY <2>2 DEF FenceStep, Fence!Next
<1>3. CASE status' \notin Terminal
  <2>1. (status \in Terminal)' = (status \in Terminal)
    BY <1>3
  <2>2. QED
    BY <1>1, <2>1 DEF FenceStep, fenceVars
<1>4. QED
  BY <1>2, <1>3

(* Unfreeze, commit and resume pass the fence on. *)
LEMMA PassFenceStep ==
  ASSUME TypeOK, Exists, Quiescent, executor' \in Endpoint,
         epoch' = epoch + 1, opState' = opState, opEpoch' = opEpoch,
         status \notin Terminal, status' \notin Terminal
  PROVE  FenceStep
<1>1. Running = {} /\ Running' = Running
  BY QuiescentRuns, RunningFrame
<1>2. (status \in Terminal)' = (status \in Terminal)
  OBVIOUS
<1>3. executor # None
  BY DEF TypeOK
<1>4. Fence!Pass(executor')
  BY <1>1, <1>2, <1>3 DEF Fence!Pass
<1>5. QED
  BY <1>4 DEF FenceStep, Fence!Next

LEMMA BeginFenceStep ==
  ASSUME TypeOK, NEW a \in Endpoint, NEW t \in Tool, BeginOperation(a, t)
  PROVE  FenceStep
<1>1. <<a, t>> \in Operation
  BY DEF Operation
<1>2. OpenOperations' = OpenOperations \union {<<a, t>>}
  BY <1>1 DEF BeginOperation, SetOperation, OpenOperations, TypeOK
<1>3. /\ \A o \in OpenOperations : opEpoch'[o] = opEpoch[o]
      /\ opEpoch'[<<a, t>>] = epoch
  BY <1>1 DEF BeginOperation, SetOperation, OpenOperations, TypeOK
<1>4. Running' = Running \union {<<executor, t, epoch>>}
  BY <1>2, <1>3 DEF Running, BeginOperation
<1>5. /\ executor' = executor /\ epoch' = epoch /\ status' = status
      /\ executor # None /\ status \notin Terminal
  BY DEF BeginOperation, SetOperation, Active, Terminal, TypeOK, Exists
<1>6. Fence!Admit(t)
  BY <1>4, <1>5 DEF Fence!Admit
<1>7. QED
  BY <1>6 DEF FenceStep, Fence!Next

LEMMA EndFenceStep ==
  ASSUME TypeOK, NEW a \in Endpoint, NEW t \in Tool, EndOperation(a, t)
  PROVE  FenceStep
<1> DEFINE r == <<a, t, opEpoch[<<a, t>>]>>
<1>1. <<a, t>> \in OpenOperations
  BY DEF EndOperation, OpenOperations, Operation
<1>2. OpenOperations' = OpenOperations \ {<<a, t>>}
  BY DEF EndOperation, SetOperation, OpenOperations, TypeOK, Operation
<1>3. opEpoch' = opEpoch
  BY DEF EndOperation, SetOperation, TypeOK, Operation
<1>4. ASSUME NEW o \in OpenOperations, o # <<a, t>>
      PROVE  <<o[1], o[2], opEpoch[o]>> # r
  BY <1>4 DEF OpenOperations, Operation
<1>5. r \in Running
  BY <1>1 DEF Running
<1>6. Running' = Running \ {r}
  BY <1>1, <1>2, <1>3, <1>4 DEF Running
<1>7. executor' = executor /\ epoch' = epoch /\ status' = status
  BY DEF EndOperation, SetOperation
<1>8. Fence!Complete(r)
  BY <1>5, <1>6, <1>7 DEF Fence!Complete
<1>9. QED
  BY <1>5, <1>8 DEF FenceStep, Fence!Next

LEMMA StepFenceStep == TypeOK /\ FenceInv /\ [Next]_vars => FenceStep
<1> SUFFICES ASSUME TypeOK, FenceInv, [Next]_vars PROVE FenceStep
  OBVIOUS
<1>1. ASSUME NEW a \in Endpoint, NEW x \in Endpoint, Submit(a, x)
      PROVE  FenceStep
  <2>1. Running' = Running /\ executor = None /\ epoch' = epoch
    BY <1>1, RunningFrame DEF Submit, FenceInv, TypeOK
  <2>2. (status \in Terminal)' = (status \in Terminal)
    BY <1>1 DEF Submit, Terminal, Exists
  <2>3. Fence!Assign(x)
    BY <1>1, <2>1, <2>2 DEF Submit, Fence!Assign
  <2>4. QED
    BY <2>3 DEF FenceStep, Fence!Next
<1>2. ASSUME NEW a \in Endpoint,
             Ack(a) \/ Progress(a) \/ Done(a) \/ Block(a) \/ Verify(a)
             \/ Report(a) \/ Cancel(a) \/ Freeze(a)
      PROVE  FenceStep
  BY <1>2, StatusFenceStep
  DEF Ack, Progress, Done, Block, Verify, Report, Cancel, Freeze, Transition,
      OwnerTransition, SetStatus, Allowed, Terminal
<1>3. ASSUME NEW a \in Endpoint, Unfreeze(a) PROVE FenceStep
  <2>1. status' \notin Terminal /\ executor' \in Endpoint
    BY <1>3 DEF Unfreeze, TypeOK, Freezable, Terminal, Exists, Maybe
  <2>2. QED
    BY <1>3, <2>1, PassFenceStep DEF Unfreeze, Exists, Terminal
<1>4. ASSUME NEW a \in Endpoint, NEW t \in Tool,
             BeginOperation(a, t) \/ EndOperation(a, t)
      PROVE  FenceStep
  BY <1>4, BeginFenceStep, EndFenceStep
<1>5. ASSUME NEW a \in Endpoint, NEW x \in Endpoint,
             \/ PrepareHandoff(a, x) \/ ReleaseHandoff(a) \/ AcceptHandoff(a)
             \/ Approve(a) \/ Retire(a) \/ Attest(a)
      PROVE  FenceStep
  BY <1>5, StatusFenceStep
  DEF PrepareHandoff, ReleaseHandoff, AcceptHandoff, SetHandoff, Approve,
      Retire, Attest
<1>6. ASSUME NEW a \in Endpoint, CommitHandoff(a) PROVE FenceStep
  <2>1. handoff.target \in Endpoint
    BY <1>6 DEF CommitHandoff, TypeOK, NoHandoff
  <2>2. QED
    BY <1>6, <2>1, PassFenceStep DEF CommitHandoff, Reassigned,
       HandoffAllowed, Active, Terminal, Exists
<1>7. ASSUME NEW p \in proofs, Resume(p) PROVE FenceStep
  <2>1. executor' \in Endpoint
    BY <1>7 DEF Resume, Reassigned, TypeOK, Maybe
  <2>2. QED
    BY <1>7, <2>1, PassFenceStep DEF Resume, Reassigned, ResumeBlocked
<1>8. CASE UNCHANGED vars
  BY <1>8, StatusFenceStep DEF vars
<1>9. QED
  BY <1>1, <1>2, <1>3, <1>4, <1>5, <1>6, <1>7, <1>8 DEF Next

LEMMA InitFenceInit == Init => Fence!Init
  BY DEF Init, Fence!Init, Running, OpenOperations, Terminal

(* Refinement: every behaviour of the ledger is one of the fence. *)
THEOREM LedgerIsFence == Spec => FenceKept
<1>1. Init => Fence!Init
  BY InitFenceInit
<1>2. TypeOK /\ FenceInv /\ [Next]_vars
        => [Fence!Next]_<<executor, epoch, Running, status \in Terminal>>
  BY StepFenceStep DEF FenceStep, fenceVars
<1>3. QED
  BY <1>1, <1>2, TypeCorrect, FenceInvariant, PTL
  DEF Spec, FenceKept, Fence!Spec

-----------------------------------------------------------------------------
(* The ledger is the one the hosts of its executors meet *)

Met(Local) == TaskView(Local)!MasterStep \/ UNCHANGED Seen(Local)

(* Evidence is of earlier endpoints, never of the one that shows it.        *)
ShownByOther == \A p \in proofs : p.ep \notin p.prior

LEMMA StepShown == ShownByOther /\ [Next]_vars => ShownByOther'
<1> SUFFICES ASSUME ShownByOther, [Next]_vars PROVE ShownByOther'
  OBVIOUS
<1>1. ASSUME NEW a \in Endpoint, Attest(a) PROVE ShownByOther'
  BY <1>1 DEF Attest, Prior, ShownByOther
<1>2. CASE UNCHANGED proofs
  BY <1>2 DEF ShownByOther
<1> QED
  BY <1>1, <1>2 DEF Next, vars, Approve, Submit, Ack, Progress, Done, Block, Verify,
     Report, Cancel, Transition, OwnerTransition, SetStatus, Freeze, Unfreeze,
     BeginOperation, EndOperation, SetOperation, PrepareHandoff, ReleaseHandoff,
     AcceptHandoff, CommitHandoff, Reassigned, SetHandoff, Retire, Resume

LEMMA EvidenceIsOfOthers == Spec => []ShownByOther
<1>1. Init => ShownByOther
  BY DEF Init, ShownByOther
<1> QED
  BY <1>1, StepShown, PTL DEF Spec

(* What a host does not see.                                                *)
LEMMA SeenFrame ==
  ASSUME NEW Local \in Hosts, StatusSeen' = StatusSeen,
         UNCHANGED <<executor, epoch, handoff, assigned, opState, retired>>
  PROVE  Met(Local)
BY DEF Met, Seen, TaskView!master, OperationSeen

LEMMA CallsFrame ==
  ASSUME NEW Local \in Hosts, opState' = opState
  PROVE  UNCHANGED <<[o \in Local \X {"task"} |-> OperationSeen(o[1])],
                     [e \in Local |-> OperationSeen(e)]>>
BY DEF OperationSeen

LEMMA QuietSeen ==
  ASSUME NEW Local \in Hosts, Quiescent
  PROVE  TaskView(Local)!Quiescent("task")
<1>1. \A e \in Local : OperationSeen(e) # "open"
  BY DEF Hosts, OperationSeen, Quiescent, OpenOperations, Operation
<1> QED
  BY <1>1 DEF TaskView!Quiescent, TaskView!OpenOf, TaskView!Operation

(* A change of the status alone: freeze, cancel, report or nothing.         *)
LEMMA StatusMet ==
  ASSUME NEW Local \in Hosts,
         UNCHANGED <<executor, epoch, handoff, assigned, opState, retired>>,
         \/ StatusSeen' = StatusSeen
         \/ StatusSeen = "accepted" /\ StatusSeen' = "frozen"
         \/ StatusSeen \in {"accepted", "frozen"} /\ StatusSeen' = "cancelled"
         \/ StatusSeen = "accepted" /\ StatusSeen' = "reported" /\ Quiescent
  PROVE  Met(Local)
<1>1. CASE StatusSeen' = StatusSeen
  BY <1>1, SeenFrame
<1> USE CallsFrame DEF TaskView!SetStatus, TaskView!MasterStep
<1>2. CASE StatusSeen = "accepted" /\ StatusSeen' = "frozen"
  <2>1. TaskView(Local)!Freezes("task")
    BY <1>2 DEF TaskView!Freezes
  <2> QED
    BY <2>1 DEF Met
<1>3. CASE StatusSeen \in {"accepted", "frozen"} /\ StatusSeen' = "cancelled"
  <2>1. TaskView(Local)!Cancels("task")
    BY <1>3 DEF TaskView!Cancels, TaskView!Terminal
  <2> QED
    BY <2>1 DEF Met
<1>4. CASE StatusSeen = "accepted" /\ StatusSeen' = "reported" /\ Quiescent
  <2>1. TaskView(Local)!Reports("task")
    BY <1>4, QuietSeen DEF TaskView!Reports
  <2> QED
    BY <2>1 DEF Met
<1> QED
  BY <1>1, <1>2, <1>3, <1>4

LEMMA StatusesMet ==
  ASSUME TypeOK, NEW Local \in Hosts, NEW a \in Endpoint,
         \/ Approve(a) \/ Ack(a) \/ Progress(a) \/ Done(a) \/ Block(a)
         \/ Verify(a) \/ Report(a) \/ Cancel(a) \/ Freeze(a) \/ Attest(a)
  PROVE  Met(Local)
<1>1. CASE Approve(a) \/ Attest(a)
  BY <1>1, SeenFrame DEF Approve, Attest, StatusSeen
<1>2. CASE Ack(a) \/ Progress(a) \/ Done(a) \/ Block(a) \/ Verify(a)
  <2>1. StatusSeen = "accepted" /\ StatusSeen' = "accepted"
    BY <1>2 DEF Ack, Progress, Done, Block, Verify, Transition, Allowed,
       OwnerTransition, SetStatus, StatusSeen, Terminal
  <2> QED
    BY <1>2, <2>1, SeenFrame DEF Ack, Progress, Done, Block, Verify, Transition,
       OwnerTransition, SetStatus
<1>3. CASE Report(a)
  BY <1>3, StatusMet DEF Report, OwnerTransition, SetStatus, StatusSeen, Terminal
<1>4. CASE Cancel(a)
  BY <1>4, StatusMet DEF Cancel, SetStatus, StatusSeen, Terminal
<1>5. CASE Freeze(a)
  BY <1>5, StatusMet DEF Freeze, StatusSeen, Terminal
<1> QED
  BY <1>1, <1>2, <1>3, <1>4, <1>5

LEMMA AllowedSeen == HandoffAllowed => StatusSeen = "accepted"
BY DEF HandoffAllowed, Active, StatusSeen, Terminal

LEMMA HandoffsMet ==
  ASSUME TypeOK, NEW Local \in Hosts, NEW a \in Endpoint, NEW x \in Endpoint,
         PrepareHandoff(a, x) \/ ReleaseHandoff(a) \/ AcceptHandoff(a)
  PROVE  Met(Local)
<1>1. /\ StatusSeen = "accepted" /\ StatusSeen' = StatusSeen
      /\ UNCHANGED <<executor, epoch, assigned, opState, retired>>
  BY AllowedSeen DEF PrepareHandoff, ReleaseHandoff, AcceptHandoff, SetHandoff, StatusSeen
<1>2. a \in TaskView(Local)!Actor /\ x \in TaskView(Local)!Actor
  BY DEF TaskView!Actor
<1> USE CallsFrame DEF TaskView!SetHandoff, TaskView!HandoffAllowed, TaskView!MasterStep
<1>3. CASE PrepareHandoff(a, x)
  <2>1. TaskView(Local)!Prepares("task", x)
    BY <1>1, <1>3, QuietSeen DEF PrepareHandoff, SetHandoff, TaskView!Prepares
  <2> QED
    BY <1>2, <2>1 DEF Met
<1>4. CASE ReleaseHandoff(a)
  <2>1. CASE handoff.state = "prepared"
    <3>1. handoff'.state = "released" /\ handoff'.target = handoff.target
      BY <1>4 DEF ReleaseHandoff, SetHandoff, TypeOK, NoHandoff
    <3>2. TaskView(Local)!Releases("task")
      BY <1>1, <1>4, <2>1, <3>1, QuietSeen DEF ReleaseHandoff, TaskView!Releases
    <3> QED
      BY <3>2 DEF Met
  <2>2. CASE handoff.state = "released"
    <3>1. handoff' = handoff
      BY <1>4, <2>2 DEF ReleaseHandoff, SetHandoff, TypeOK, NoHandoff
    <3> QED
      BY <1>1, <3>1, SeenFrame
  <2> QED
    BY <1>4, <2>1, <2>2 DEF ReleaseHandoff
<1>5. CASE AcceptHandoff(a)
  <2>1. handoff'.state = "accepted" /\ handoff'.target = a
    BY <1>5 DEF AcceptHandoff, SetHandoff, TypeOK, NoHandoff
  <2>2. TaskView(Local)!Accepts("task", a)
    BY <1>1, <1>5, <2>1 DEF AcceptHandoff, TaskView!Accepts
  <2> QED
    BY <1>2, <2>2 DEF Met
<1> QED
  BY <1>3, <1>4, <1>5

LEMMA AssignedSeen ==
  ASSUME NEW x, NEW n, assigned' = assigned \union {<<x, n>>}
  PROVE  {<<"task", s[1], s[2]>> : s \in assigned'} =
           {<<"task", s[1], s[2]>> : s \in assigned} \union {<<"task", x, n>>}
<1> DEFINE f(s) == <<"task", s[1], s[2]>>
<1>1. f(<<x, n>>) = <<"task", x, n>>
  OBVIOUS
<1> HIDE DEF f
<1>2. {f(s) : s \in assigned'} = {f(s) : s \in assigned} \union {f(<<x, n>>)}
  OBVIOUS
<1> QED
  BY <1>1, <1>2 DEF f

LEMMA CommitMet ==
  ASSUME TypeOK, NEW Local \in Hosts, NEW a \in Endpoint, CommitHandoff(a)
  PROVE  Met(Local)
<1>1. /\ StatusSeen = "accepted" /\ StatusSeen' = "accepted"
      /\ UNCHANGED <<opState, retired>>
  BY AllowedSeen DEF CommitHandoff, Reassigned, StatusSeen, Terminal
<1>2. handoff'.state = "committed" /\ handoff'.target = handoff.target
  BY DEF CommitHandoff, TypeOK, NoHandoff
<1>3. {<<"task", s[1], s[2]>> : s \in assigned'} =
        {<<"task", s[1], s[2]>> : s \in assigned} \union {<<"task", executor, epoch>>}
  <2> PICK x, n : x = executor /\ n = epoch
    OBVIOUS
  <2>1. assigned' = assigned \union {<<x, n>>}
    BY DEF CommitHandoff
  <2> QED
    BY <2>1, AssignedSeen
<1>4. TaskView(Local)!Commits("task")
  BY <1>1, <1>2, <1>3, CallsFrame, QuietSeen
  DEF CommitHandoff, Reassigned, TaskView!Commits, TaskView!SetHandoff,
      TaskView!HandoffAllowed
<1> QED
  BY <1>4 DEF Met, TaskView!MasterStep

LEMMA UnfreezeMet ==
  ASSUME TypeOK, NEW Local \in Hosts, NEW a \in Endpoint, Unfreeze(a)
  PROVE  Met(Local)
<1>1. /\ StatusSeen = "frozen" /\ StatusSeen' = "accepted"
      /\ UNCHANGED <<executor, opState, retired>>
  BY DEF Unfreeze, StatusSeen, Terminal, TypeOK, Freezable
<1>2. TaskView(Local)!Pending("task") <=> PendingHandoff
  BY DEF TaskView!Pending, PendingHandoff
<1> USE CallsFrame, QuietSeen DEF TaskView!Unfreezes, TaskView!SetHandoff
<1>3. CASE PendingHandoff
  <2>1. handoff'.state = "aborted" /\ handoff'.target = handoff.target
    BY <1>3 DEF Unfreeze, TypeOK, NoHandoff
  <2>2. {<<"task", s[1], s[2]>> : s \in assigned'} =
          {<<"task", s[1], s[2]>> : s \in assigned}
            \union {<<"task", handoff.target, epoch + 1>>}
    <3> PICK x, n : x = handoff.target /\ n = epoch + 1
      OBVIOUS
    <3>1. assigned' = assigned \union {<<x, n>>}
      BY <1>3 DEF Unfreeze
    <3> QED
      BY <3>1, AssignedSeen
  <2>3. TaskView(Local)!Unfreezes("task")
    BY <1>1, <1>2, <1>3, <2>1, <2>2 DEF Unfreeze
  <2> QED
    BY <2>3 DEF Met, TaskView!MasterStep
<1>4. CASE ~ PendingHandoff
  <2>1. TaskView(Local)!Unfreezes("task")
    BY <1>1, <1>2, <1>4 DEF Unfreeze
  <2> QED
    BY <2>1 DEF Met, TaskView!MasterStep
<1> QED
  BY <1>3, <1>4

LEMMA RetireMet ==
  ASSUME NEW Local \in Hosts, NEW e \in Endpoint, Retire(e)
  PROVE  Met(Local)
<1>1. /\ StatusSeen' = StatusSeen
      /\ UNCHANGED <<executor, epoch, handoff, assigned, opState>>
  BY DEF Retire, StatusSeen
<1>2. CASE e \in Local
  <2>1. retired' \intersect Local = (retired \intersect Local) \union {e}
    BY <1>2 DEF Retire
  <2>2. TaskView(Local)!Retires(e)
    BY <1>1, <2>1, CallsFrame DEF TaskView!Retires
  <2> QED
    BY <1>2, <2>2 DEF Met, TaskView!MasterStep
<1>3. CASE e \notin Local
  <2>1. retired' \intersect Local = retired \intersect Local
    BY <1>3 DEF Retire
  <2> QED
    BY <1>1, <2>1, CallsFrame DEF Met, Seen, TaskView!master
<1> QED
  BY <1>2, <1>3

(* The host's call is closed when the last of the endpoint's tools ended.   *)
LEMMA EndMet ==
  ASSUME TypeOK, NEW Local \in Hosts, NEW a \in Endpoint, NEW t \in Tool,
         EndOperation(a, t)
  PROVE  Met(Local)
<1>1. /\ StatusSeen' = StatusSeen
      /\ UNCHANGED <<executor, epoch, handoff, assigned, retired>>
  BY DEF EndOperation, SetOperation, StatusSeen
<1>2. /\ opState[<<a, t>>] = "open" /\ opState'[<<a, t>>] = "closed"
      /\ \A o \in Operation : o # <<a, t>> => opState'[o] = opState[o]
  BY DEF EndOperation, SetOperation, TypeOK, Operation
<1>3. ASSUME NEW e \in Endpoint, e # a
      PROVE  OperationSeen(e)' = OperationSeen(e)
  <2>1. \A u \in Tool : opState'[<<e, u>>] = opState[<<e, u>>]
    BY <1>2, <1>3 DEF Operation
  <2> QED
    BY <2>1 DEF OperationSeen
<1>4. OperationSeen(a) = "open" /\ OperationSeen(a)' \in {"open", "closed"}
  BY <1>2 DEF OperationSeen
<1>5. \A e \in Local : e \in Endpoint
  BY DEF Hosts
<1>6. CASE a \notin Local \/ OperationSeen(a)' = "open"
  BY <1>1, <1>3, <1>4, <1>5, <1>6 DEF Met, Seen, TaskView!master
<1>7. CASE a \in Local /\ OperationSeen(a)' = "closed"
  <2>1. [o \in Local \X {"task"} |-> OperationSeen(o[1])]' =
          [[o \in Local \X {"task"} |-> OperationSeen(o[1])]
             EXCEPT ![<<a, "task">>] = "closed"]
    <3>1. \A o \in Local \X {"task"} :
            /\ o[1] \in Local /\ o = <<o[1], "task">>
            /\ o[1] # a => OperationSeen(o[1])' = OperationSeen(o[1])
      BY <1>3, <1>5
    <3>2. \A o \in Local \X {"task"} :
            OperationSeen(o[1])' = IF o = <<a, "task">> THEN "closed"
                                   ELSE OperationSeen(o[1])
      BY <1>7, <3>1
    <3> QED
      BY <3>2
  <2>2. TaskView(Local)!Ends(<<a, "task">>)
    BY <1>1, <1>4, <1>7, <2>1 DEF TaskView!Ends, TaskView!master
  <2>3. <<a, "task">> \in TaskView(Local)!Operation
    BY <1>7 DEF TaskView!Operation
  <2> QED
    BY <2>2, <2>3 DEF Met, TaskView!MasterStep
<1> QED
  BY <1>4, <1>6, <1>7

(* The conversation that goes on stays on its host, so its former endpoint  *)
(* is known there; another host's, or the owner, only moves the epoch.      *)
LEMMA ResumeMet ==
  ASSUME TypeOK, HistoryInv, ShownByOther, NEW Local \in Hosts,
         NEW p \in proofs, Resume(p)
  PROVE  Met(Local)
<1>1. /\ executor \in Endpoint /\ executor' \in Endpoint
      /\ p.ep \in Endpoint /\ p.prior \subseteq Endpoint
      /\ executor' = IF executor \in p.prior THEN p.ep ELSE executor
  BY DEF Resume, Reassigned, TypeOK, Maybe
<1>2. /\ StatusSeen = "accepted" /\ StatusSeen' = "accepted"
      /\ Quiescent /\ ~ PendingHandoff
      /\ UNCHANGED <<handoff, opState, retired>>
      /\ epoch' = epoch + 1 /\ epoch < MaxEpoch
  BY DEF Resume, ResumeBlocked, Reassigned, StatusSeen
<1>3. {<<"task", s[1], s[2]>> : s \in assigned'} =
        {<<"task", s[1], s[2]>> : s \in assigned}
          \union {<<"task", executor', epoch + 1>>}
  <2> PICK x, n : x = executor' /\ n = epoch + 1
    OBVIOUS
  <2>1. assigned' = assigned \union {<<x, n>>}
    BY <1>2 DEF Resume
  <2> QED
    BY <2>1, AssignedSeen
<1> PICK x : x = executor'
  OBVIOUS
<1>4. TaskView(Local)!ResumeAllowed("task")
  BY <1>2, QuietSeen DEF TaskView!ResumeAllowed, TaskView!Pending, PendingHandoff
<1>5. TaskView(Local)!Resumed("task", x)
  BY <1>2, <1>3, <1>4, CallsFrame DEF TaskView!Resumed
<1>6. CASE x # executor /\ x \in Local
  <2>1. executor \in p.prior /\ x = p.ep /\ x # executor
    BY <1>1, <1>6
  <2>2. executor \in retired /\ NativeOf[executor] = NativeOf[x]
    BY <2>1 DEF HistoryInv, ProofsHold
  <2>3. executor \in Local
    BY <1>1, <1>6, <2>2 DEF Hosts
  <2>4. TaskView(Local)!Resumes("task", x)
    BY <1>5, <2>1, <2>2, <2>3 DEF TaskView!Resumes, TaskView!Prior
  <2> QED
    BY <1>6, <2>4 DEF Met, TaskView!MasterStep
<1>7. CASE x = executor \/ x \notin Local
  <2>1. x \in TaskView(Local)!Actor
    BY <1>1 DEF TaskView!Actor
  <2>2. x = executor \/ {x, executor} \subseteq Endpoint \ Local
    <3> SUFFICES ASSUME x # executor PROVE executor \notin Local
      BY <1>1, <1>7
    <3>1. executor \in p.prior /\ x = p.ep
      BY <1>1
    <3>2. NativeOf[executor] = NativeOf[x]
      BY <3>1 DEF HistoryInv, ProofsHold
    <3> QED
      BY <1>1, <1>7, <3>2 DEF Hosts
  <2>3. TaskView(Local)!ResumesElsewhere("task", x)
    BY <1>5, <2>2 DEF TaskView!ResumesElsewhere
  <2> QED
    BY <2>1, <2>3 DEF Met, TaskView!MasterStep
<1> QED
  BY <1>6, <1>7

(* A task is only submitted while there is none, and is never dropped.      *)
LEMMA FromNothing ==
  ASSUME TypeOK, Next
  PROVE  /\ Exists => Exists'
         /\ ~ Exists => \/ UNCHANGED <<status, handoff, assigned>>
                       \/ \E a \in Endpoint, x \in Endpoint : Submit(a, x)
<1> USE DEF Exists, Terminal, Active, HandoffAllowed
<1> DEFINE Goal == /\ Exists => Exists'
                   /\ ~ Exists => UNCHANGED <<status, handoff, assigned>>
<1>1. ASSUME NEW a \in Endpoint, Approve(a) \/ Retire(a) \/ Attest(a) PROVE Goal
  BY <1>1 DEF Approve, Retire, Attest
<1>2. ASSUME NEW a \in Endpoint, Ack(a) \/ Progress(a) \/ Done(a) \/ Block(a) PROVE Goal
  BY <1>2 DEF Ack, Progress, Done, Block, Transition, Allowed, SetStatus
<1>3. ASSUME NEW a \in Endpoint, Verify(a) \/ Report(a) \/ Cancel(a) PROVE Goal
  BY <1>3 DEF Verify, Report, Cancel, OwnerTransition, SetStatus
<1>4. ASSUME NEW a \in Endpoint, Freeze(a) \/ Unfreeze(a) PROVE Goal
  <2>1. status = "frozen" => frozenFrom.status # "absent"
    BY DEF TypeOK, Freezable
  <2> QED
    BY <1>4, <2>1 DEF Freeze, Unfreeze
<1>5. ASSUME NEW a \in Endpoint, ReleaseHandoff(a) \/ AcceptHandoff(a) PROVE Goal
  BY <1>5 DEF ReleaseHandoff, AcceptHandoff, SetHandoff
<1>6. ASSUME NEW a \in Endpoint, CommitHandoff(a) PROVE Goal
  BY <1>6 DEF CommitHandoff, Reassigned
<1>7. ASSUME NEW a \in Endpoint, NEW x \in Endpoint, PrepareHandoff(a, x) PROVE Goal
  BY <1>7 DEF PrepareHandoff, SetHandoff
<1>8. ASSUME NEW a \in Endpoint, NEW t \in Tool, BeginOperation(a, t) \/ EndOperation(a, t)
      PROVE  Goal
  BY <1>8 DEF BeginOperation, EndOperation, SetOperation
<1>9. ASSUME NEW p \in proofs, Resume(p) PROVE Goal
  BY <1>9 DEF Resume, Reassigned
<1>10. ASSUME NEW a \in Endpoint, NEW x \in Endpoint, Submit(a, x) PROVE Exists'
  BY <1>10 DEF Submit
<1> QED
  BY <1>1, <1>2, <1>3, <1>4, <1>5, <1>6, <1>7, <1>8, <1>9, <1>10 DEF Next

(* Before it is submitted a task has no rows.                               *)
NothingYet == ~ Exists => handoff = NoHandoff /\ assigned = {}

(* A task that is submitted is as every host starts with it.                *)
LEMMA SubmitMet ==
  ASSUME TypeOK, NEW Local \in Hosts, ~ Exists, Exists', Next, NothingYet
  PROVE  TaskView(Local)!MasterInit'
<1>1. PICK a \in Endpoint, x \in Endpoint : Submit(a, x)
  BY FromNothing DEF Exists
<1>2. /\ StatusSeen' = "accepted" /\ epoch' = 0
      /\ handoff' = NoHandoff /\ assigned' = {}
  BY <1>1 DEF Submit, StatusSeen, Terminal, NothingYet
<1>3. {<<"task", s[1], s[2]>> : s \in assigned'} = {}
  BY <1>2
<1> QED
  BY <1>2, <1>3 DEF TaskView!MasterInit, NoHandoff

LEMMA StepNothing == TypeOK /\ NothingYet /\ [Next]_vars => NothingYet'
<1>1. ASSUME TypeOK, NothingYet, Next PROVE NothingYet'
  <2>1. CASE Exists
    BY <1>1, <2>1, FromNothing DEF NothingYet
  <2>2. CASE \E a \in Endpoint, x \in Endpoint : Submit(a, x)
    BY <2>2 DEF Submit, Exists, NothingYet
  <2>3. CASE ~ Exists /\ UNCHANGED <<status, handoff, assigned>>
    BY <1>1, <2>3 DEF NothingYet, Exists
  <2> QED
    BY <1>1, <2>1, <2>2, <2>3, FromNothing
<1>2. NothingYet /\ UNCHANGED vars => NothingYet'
  BY DEF NothingYet, vars, Exists
<1> QED
  BY <1>1, <1>2

(* tasks.py and task_host.py: whatever is proved of a host against the      *)
(* ledger of TaskMaster holds against this one.                             *)
THEOREM LedgerMeetsHosts == Spec => MeetsTaskHosts
<1>1. Init => ShownByOther /\ NothingYet
  BY DEF Init, ShownByOther, NothingYet
<1>2. TypeOK /\ HistoryInv /\ ShownByOther /\ NothingYet /\ [Next]_vars =>
        [\A Local \in Hosts :
           /\ ~ Exists /\ Exists' => TaskView(Local)!MasterInit'
           /\ Exists => \/ TaskView(Local)!MasterStep
                        \/ UNCHANGED Seen(Local)
                        \/ \E a \in Endpoint, t \in Tool : BeginOperation(a, t)]_vars
  <2> SUFFICES ASSUME TypeOK, HistoryInv, ShownByOther, NothingYet, Next,
                      NEW Local \in Hosts
               PROVE  /\ ~ Exists /\ Exists' => TaskView(Local)!MasterInit'
                      /\ Exists => \/ Met(Local)
                                   \/ \E a \in Endpoint, t \in Tool : BeginOperation(a, t)
    BY DEF Met
  <2>1. ~ Exists /\ Exists' => TaskView(Local)!MasterInit'
    BY SubmitMet DEF NothingYet
  <2>2. ASSUME NEW a \in Endpoint, Exists,
               \/ Approve(a) \/ Ack(a) \/ Progress(a) \/ Done(a) \/ Block(a)
               \/ Verify(a) \/ Report(a) \/ Cancel(a) \/ Freeze(a) \/ Unfreeze(a)
               \/ ReleaseHandoff(a) \/ AcceptHandoff(a) \/ CommitHandoff(a)
               \/ Retire(a) \/ Attest(a)
        PROVE  Met(Local)
    BY <2>2, StatusesMet, HandoffsMet, CommitMet, UnfreezeMet, RetireMet
  <2>3. ASSUME NEW a \in Endpoint, NEW x \in Endpoint, Exists,
               Submit(a, x) \/ PrepareHandoff(a, x)
        PROVE  Met(Local)
    BY <2>3, HandoffsMet DEF Submit
  <2>4. ASSUME NEW a \in Endpoint, NEW t \in Tool, EndOperation(a, t)
        PROVE  Met(Local)
    BY <2>4, EndMet
  <2>5. ASSUME NEW p \in proofs, Resume(p)
        PROVE  Met(Local)
    BY <2>5, ResumeMet
  <2> QED
    BY <2>1, <2>2, <2>3, <2>4, <2>5 DEF Next
<1> QED
  BY <1>1, <1>2, StepShown, StepNothing, TypeCorrect, HistoryInvariant, PTL
  DEF Spec, MeetsTaskHosts
=============================================================================
