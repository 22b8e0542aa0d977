------------------------------ MODULE TaskHost ------------------------------
(***************************************************************************)
(* What a host keeps about the formal tasks of its conversations           *)
(* (task_host.py): a binding row per endpoint, a marker file per native    *)
(* conversation, receipts of detaches and releases, and the tool ids of    *)
(* released assignments.  The requests run in threads of their own; every  *)
(* transaction, file operation and call of the task master is a step, and  *)
(* a request may die at each of them.                                      *)
(*                                                                         *)
(* The task master is the ledger of TaskMaster.  An endpoint's incarnation *)
(* never changes (hub.register), so an endpoint stands for both, and the   *)
(* branches for another incarnation of the same endpoint are dead.         *)
(* Operations were begun at epoch 0 by an earlier build: the host admits   *)
(* none any more.  A request names the epoch that lets it pass.            *)
(***************************************************************************)
EXTENDS TaskMaster, Sequences, FiniteSets

CONSTANTS Thread,       \* requests served at a time
          Cases         \* what may happen: see limit

Native == {NativeOf[e] : e \in Endpoint}

ASSUME TaskHostAssumption ==
  /\ Elsewhere \intersect Endpoint = {}
  /\ None \notin Actor \union Thread \union [task : Task, epoch : Epoch]
  /\ MaxEpoch \in Nat

(* In every case the conversations that are bound execute a task.          *)
ASSUME CasesAssumption ==
  \A c \in Cases :
    /\ c.starts \in [Task -> Actor]
    /\ \A e \in c.bound : e \in Endpoint /\ \E t \in Task : c.starts[t] = e

VARIABLES
  log,        \* the native transcript: an operation's completion records
  binding,    \* formal_task_binding
  marker,     \* conversations whose marker file exists
  detached,   \* formal_detach_receipt
  released,   \* formal_cancelled_release
  fenced,     \* formal_task_retired: native conversation and tool_use_id
  request,    \* per thread: the request it serves
  writer,     \* the thread in a transaction across a call, or None
  over,       \* history: bindings that detach or release removed
  raced,      \* history: conversations whose marker a late unlink removed
  mixed,      \* history: endpoints whose binding a late request overwrote
  limit       \* the case, and what is left of its requests and moves

host   == <<binding, marker, detached, released, fenced, writer>>
past   == <<over, raced, mixed>>
vars   == <<master, operations, log, host, request, past, limit>>

Idle == [op |-> "idle"]
Row(t, n) == [task |-> t, epoch |-> n]

Init ==
  /\ MasterInit
  /\ retired = {} /\ log = [o \in Operation |-> <<>>]
  /\ detached = {} /\ released = {} /\ fenced = {}
  /\ request = [th \in Thread |-> Idle] /\ writer = None
  /\ over = {} /\ raced = {} /\ mixed = {}
  /\ limit \in Cases
  \* An acknowledgement of an earlier build bound its executor.
  /\ executor = limit.starts
  /\ binding = [e \in Endpoint |->
                  IF e \in limit.bound
                  THEN Row(CHOOSE t \in Task : executor[t] = e, 0) ELSE None]
  /\ marker = {NativeOf[e] : e \in limit.bound}
  /\ operations = [o \in Operation |->
                     IF o \in limit.open THEN "open" ELSE "none"]

-----------------------------------------------------------------------------
(* The master *)

HostUnchanged == UNCHANGED <<log, host, request, past>>
Uses(part) == limit[part] > 0 /\ limit' = [limit EXCEPT ![part] = @ - 1]

Prepare(t, x) == t \in limit.moving /\ Uses("moves") /\ Prepares(t, x) /\ HostUnchanged
Continue(t, x) == t \in limit.moving /\ Uses("moves") /\ ResumesElsewhere(t, x) /\ HostUnchanged

Release(t) == Releases(t) /\ UNCHANGED limit /\ HostUnchanged
AcceptElsewhere(t) ==
  \E x \in Elsewhere : /\ Accepts(t, x) /\ handoff[t].state = "released"
                       /\ UNCHANGED limit /\ HostUnchanged
Commit(t) == Commits(t) /\ UNCHANGED limit /\ HostUnchanged

(* What is frozen is admitted to nothing here. *)
Freeze(t) == Uses("freezes") /\ Freezes(t) /\ HostUnchanged
Unfreeze(t) == Unfreezes(t) /\ UNCHANGED limit /\ HostUnchanged

Cancel(t) == Uses("stops") /\ Cancels(t) /\ HostUnchanged
Report(t) == Uses("stops") /\ Reports(t) /\ HostUnchanged

Retire(e) == e \in limit.restarts \ retired /\ Retires(e) /\ UNCHANGED limit /\ HostUnchanged

(* A tool's end is recorded; records may be doubled. *)
Complete(o, kind) ==
  /\ operations[o] = "open" /\ Len(log[o]) < 2
  /\ kind = "wrote" => limit.codex
  /\ log' = [log EXCEPT ![o] = Append(@, kind)]
  /\ UNCHANGED <<master, operations, host, request, past, limit>>

-----------------------------------------------------------------------------
(* Requests *)

Do(th, r) == request' = [request EXCEPT ![th] = r]
Done(th) == Do(th, Idle)
Step(th, op, step) == request[th].op = op /\ request[th].step = step
To(th, step) == Do(th, [request[th] EXCEPT !.step = step])
MasterUnchanged == UNCHANGED <<master, operations, log, limit>>

RowsOf(n) == {e \in Endpoint : NativeOf[e] = n /\ binding[e] # None}

Begin(th, op, a, t, n, from, step) ==
  /\ request[th] = Idle /\ limit.requests > 0
  /\ a \notin retired
  /\ Do(th, [op |-> op, by |-> a, task |-> t, epoch |-> n, of |-> from,
             step |-> step, rows |-> {}])
  /\ limit' = [limit EXCEPT !.requests = @ - 1]

(* A lost answer, a failing statement or a kill of the host. *)
Fail(th) ==
  /\ request[th] # Idle
  /\ Done(th)
  /\ writer' = IF writer = th THEN None ELSE writer
  /\ UNCHANGED <<binding, marker, detached, released, fenced, past>>
  /\ MasterUnchanged

(* _resume: the binding follows the ledger, checked before and after. *)
OtherTask(a, t) == \E e \in Endpoint :
  /\ e = a \/ NativeOf[e] = NativeOf[a]
  /\ binding[e] # None /\ binding[e].task # t

ResumeBegin(th, a, t) ==
  /\ ~ OtherTask(a, t)
  /\ Begin(th, "resume", a, t, 0, a, "call")
  /\ UNCHANGED <<master, operations, log, host, past>>

(* The evidence was collected when the request came; the answer is the     *)
(* epoch of the ledger after it.                                           *)
ResumeCall(th) ==
  LET r == request[th]
  IN /\ Step(th, "resume", "call")
     /\ \/ Resumes(r.task, r.by)
        \/ /\ ResumeAllowed(r.task) /\ executor[r.task] = r.by
           /\ UNCHANGED <<master, operations>>
     /\ Do(th, [r EXCEPT !.step = "bind", !.epoch = epoch'[r.task]])
     /\ UNCHANGED <<log, host, past, limit>>

(* Rows of the same task that are newer than the answer are replaced too.  *)
ResumeBind(th) ==
  LET r == request[th]
      same(e) == /\ NativeOf[e] = NativeOf[r.by]
                 /\ binding[e] # None /\ binding[e].task = r.task
  IN /\ Step(th, "resume", "bind") /\ writer = None
     /\ ~ OtherTask(r.by, r.task)
     /\ marker' = marker \union {NativeOf[r.by]}
     /\ \/ /\ binding' = [e \in Endpoint |->
                            IF e = r.by THEN Row(r.task, r.epoch)
                            ELSE IF same(e) THEN None ELSE binding[e]]
           /\ mixed' = mixed \union
                {e \in Endpoint : same(e) /\ binding[e].epoch > r.epoch}
        \/ UNCHANGED <<binding, mixed>>  \* the file is there, the transaction failed
     /\ Done(th)
     /\ UNCHANGED <<detached, released, fenced, writer, over, raced>>
     /\ MasterUnchanged

-----------------------------------------------------------------------------
(* task_accept_handoff: marker and row are durable before the master is    *)
(* asked, whatever it answers.  The row is read before the transaction.    *)

AcceptBegin(th, a, t) ==
  /\ binding[a] # None => binding[a].task = t
  /\ handoff[t].target = a
  /\ Begin(th, "accept", a, t, epoch[t] + 1, a, "mark")
  /\ UNCHANGED <<master, operations, log, host, past>>

AcceptMark(th) ==
  LET r == request[th]
  IN /\ Step(th, "accept", "mark") /\ writer = None
     /\ marker' = marker \union {NativeOf[r.by]}
     /\ \/ /\ binding' = [binding EXCEPT ![r.by] =
                            IF @ = None THEN Row(r.task, r.epoch)
                            ELSE [@ EXCEPT !.epoch = r.epoch]]
           /\ mixed' = IF \/ binding[r.by] = None
                          \/ /\ binding[r.by].task = r.task
                             /\ binding[r.by].epoch <= r.epoch
                       THEN mixed ELSE mixed \union {r.by}
           /\ To(th, "call")
        \/ /\ Done(th)    \* the file is there, the transaction failed
           /\ UNCHANGED <<binding, mixed>>
     /\ UNCHANGED <<detached, released, fenced, writer, over, raced>>
     /\ MasterUnchanged

AcceptCall(th) ==
  LET r == request[th]
  IN /\ Step(th, "accept", "call")
     /\ epoch[r.task] = r.epoch - 1
     /\ Accepts(r.task, r.by)
     /\ Done(th)
     /\ UNCHANGED <<log, host, past, limit>>

-----------------------------------------------------------------------------
(* The marker is removed when no row of the conversation was left, in a    *)
(* step of its own that does not look again: a row may have come since.    *)

Unlink(th) ==
  LET n == NativeOf[request[th].by]
      new == RowsOf(n) \ request[th].rows
  IN /\ request[th] # Idle /\ request[th].step = "unlink"
     /\ marker' = marker \ {n}
     /\ raced' = IF new = {} THEN raced ELSE raced \union {n}
     /\ Done(th)
     /\ UNCHANGED <<binding, detached, released, fenced, writer, over, mixed>>
     /\ MasterUnchanged

(* A receipt: the removal is done, the marker may be left over. *)
DetachReplay(th, a, t, n) ==
  /\ <<a, t, n>> \in detached
  /\ RowsOf(NativeOf[a]) = {}
  /\ Begin(th, "detach", a, t, n, a, "unlink")
  /\ UNCHANGED <<master, operations, log, host, past>>

TransferredByExecutor(t, a, n) == executor[t] # a

Transferred(t, a, n) ==
  /\ ~ (Pending(t) /\ handoff[t].target = a)
  /\ epoch[t] >= n
  /\ executor[t] # a

DetachBegin(th, a, t, n) ==
  /\ <<a, t, n>> \notin detached
  /\ binding[a] = Row(t, n)
  /\ Visible(t, a)
  /\ operations[<<a, t>>] # "open"
  /\ Transferred(t, a, n) \/ Terminal(t)
  /\ Begin(th, "detach", a, t, n, a, "delete")
  /\ UNCHANGED <<master, operations, log, host, past>>

Remove(e) ==
  /\ binding' = [binding EXCEPT ![e] = None]
  /\ over' = over \union {<<e, binding[e].task, binding[e].epoch>>}

DetachDeleteAnyEpoch(th) ==
  LET r == request[th]
  IN /\ Step(th, "detach", "delete") /\ writer = None
     /\ binding[r.by] # None /\ binding[r.by].task = r.task
     /\ Remove(r.by)
     /\ detached' = detached \union {<<r.by, r.task, r.epoch>>}
     /\ To(th, "check")
     /\ UNCHANGED <<marker, released, fenced, writer, raced, mixed>>
     /\ MasterUnchanged

DetachDelete(th) ==
  LET r == request[th] key == <<r.by, r.task, r.epoch>>
  IN /\ Step(th, "detach", "delete") /\ writer = None
     /\ binding[r.by] = Row(r.task, r.epoch)
     /\ key \notin detached
     /\ Remove(r.by)
     /\ detached' = detached \union {key}
     /\ To(th, "check")
     /\ UNCHANGED <<marker, released, fenced, writer, raced, mixed>>
     /\ MasterUnchanged

(* rows is what it saw, for the history. *)
Unlinking(th) ==
  Do(th, [request[th] EXCEPT !.step = "unlink",
                             !.rows = RowsOf(NativeOf[request[th].by])])

DetachCheckUnchecked(th) ==
  /\ Step(th, "detach", "check")
  /\ Unlinking(th)
  /\ UNCHANGED <<host, past>> /\ MasterUnchanged

DetachCheck(th) ==
  /\ Step(th, "detach", "check")
  /\ RowsOf(NativeOf[request[th].by]) = {}
  /\ Unlinking(th)
  /\ UNCHANGED <<host, past>> /\ MasterUnchanged

(* _historical_binding_proof: the one row of the conversation, another    *)
(* endpoint's.                                                             *)
Historical(a, e, t, n) ==
  /\ NativeOf[a] \in marker
  /\ RowsOf(NativeOf[a]) = {e} /\ e # a
  /\ binding[e] = Row(t, n)

ReleaseCheck(t, a, e, n) ==
  /\ status[t] = "accepted"
  /\ epoch[t] > n
  /\ executor[t] \notin {a, e}
  /\ <<t, e, n>> \in assigned
  /\ ~ (Pending(t) /\ handoff[t].target \in {a, e})
  /\ operations[<<e, t>>] # "open"

(* The master is asked inside the transaction. *)
DetachHistorical(th, a, e, t, n) ==
  /\ writer = None
  /\ <<a, t, n>> \notin detached /\ binding[a] = None
  /\ Historical(a, e, t, n)
  /\ ReleaseCheck(t, a, e, n)
  /\ Begin(th, "history", a, t, n, e, "delete")
  /\ writer' = th
  /\ UNCHANGED <<binding, marker, detached, released, fenced, past, master,
                 operations, log>>

HistoricalDelete(th) ==
  LET r == request[th]
  IN /\ Step(th, "history", "delete")
     /\ Remove(r.of)
     /\ detached' = detached \union {<<r.by, r.task, r.epoch>>}
     /\ writer' = None
     /\ To(th, "cleanup")
     /\ UNCHANGED <<marker, released, fenced, raced, mixed>>
     /\ MasterUnchanged

HistoricalCleanup(th) ==
  LET n == NativeOf[request[th].by]
  IN /\ Step(th, "history", "cleanup") /\ writer = None
     /\ marker' = IF RowsOf(n) = {} THEN marker \ {n} ELSE marker
     /\ Done(th)
     /\ UNCHANGED <<binding, detached, released, fenced, writer, past>>
     /\ MasterUnchanged

-----------------------------------------------------------------------------
(* task_release_cancelled *)

ReleaseReplay(th, a, t, n) ==
  /\ <<a, t, n>> \in released
  /\ RowsOf(NativeOf[a]) = {}
  /\ Begin(th, "release", a, t, n, a, "unlink")
  /\ UNCHANGED <<master, operations, log, host, past>>

(* Any row of the conversation, when the caller itself is the executor.    *)
ReleaseBegin(th, a, e, t, n) ==
  /\ <<a, t, n>> \notin released
  /\ \/ e = a /\ binding[a] = Row(t, n)
     \/ binding[a] = None /\ Historical(a, e, t, n)
  /\ status[t] = "cancelled" /\ epoch[t] = n /\ executor[t] \in {a, e}
  /\ Begin(th, "release", a, t, n, e, "delete")
  /\ UNCHANGED <<master, operations, log, host, past>>

UnresolvedOf(t) == OpenOf(t)
ToolsOf(t) == {o \in Operation : o[2] = t /\ operations[o] # "none"}

(* The marker goes whether or not another row of the conversation is left. *)
ReleaseDelete(th) ==
  LET r == request[th] key == <<r.by, r.task, r.epoch>>
  IN /\ Step(th, "release", "delete") /\ writer = None
     /\ binding[r.of] = Row(r.task, r.epoch)
     /\ key \notin released
     /\ Remove(r.of)
     /\ fenced' = fenced \union ({NativeOf[r.of]} \X ToolsOf(r.task))
     /\ released' = released \union {key}
     /\ To(th, "unlink")
     /\ UNCHANGED <<marker, detached, writer, raced, mixed>>
     /\ MasterUnchanged

-----------------------------------------------------------------------------
(* task_reconcile_operation *)

Commands(s) == {i \in DOMAIN s : s[i] \in {"ran", "failed"}}
Files(s) == {i \in DOMAIN s : s[i] = "wrote"}

(* _completion_outcome: one record of one kind in a Codex rollout, one call *)
(* and one result in a Claude transcript.                                   *)
CodexOutcome(s) ==
  CASE Commands(s) = {} /\ Cardinality(Files(s)) = 1 -> "success"
    [] s = <<"ran">>    -> "success"
    [] s = <<"failed">> -> "error"
    [] OTHER            -> "none"

ClaudeOutcome(s) ==
  IF Len(s) # 1 THEN "none" ELSE IF s = <<"ran">> THEN "success" ELSE "error"

Outcome(s) == IF limit.codex THEN CodexOutcome(s) ELSE ClaudeOutcome(s)

ReconcileBegin(th, a, t) ==
  /\ binding[a] = Row(t, 0)    \* the epoch of the operations
  /\ epoch[t] = 0 /\ executor[t] = a
  /\ status[t] = "accepted" /\ ~ Pending(t)
  /\ operations[<<a, t>>] = "open"
  /\ Outcome(log[<<a, t>>]) # "none"
  /\ Begin(th, "reconcile", a, t, 0, a, "call")
  /\ UNCHANGED <<master, operations, log, host, past>>

ReconcileCall(th) ==
  LET r == request[th]
  IN /\ Step(th, "reconcile", "call")
     /\ Ends(<<r.by, r.task>>)
     /\ Done(th)
     /\ UNCHANGED <<log, host, past, limit>>

-----------------------------------------------------------------------------
Requests(th) ==
  \/ \E a \in Endpoint, t \in Task :
       \/ ResumeBegin(th, a, t) \/ AcceptBegin(th, a, t)
       \/ ReconcileBegin(th, a, t)
       \/ \E n \in Epoch :
            \/ DetachReplay(th, a, t, n) \/ DetachBegin(th, a, t, n)
            \/ ReleaseReplay(th, a, t, n)
            \/ \E e \in Endpoint : \/ DetachHistorical(th, a, e, t, n)
                                   \/ ReleaseBegin(th, a, e, t, n)
  \/ ResumeCall(th) \/ ResumeBind(th)
  \/ AcceptMark(th) \/ AcceptCall(th)
  \/ DetachDelete(th) \/ DetachCheck(th)
  \/ HistoricalDelete(th) \/ HistoricalCleanup(th)
  \/ ReleaseDelete(th) \/ Unlink(th)
  \/ ReconcileCall(th)
  \/ Fail(th)

Next ==
  \/ \E th \in Thread : Requests(th)
  \/ \E t \in Task : \/ Release(t) \/ AcceptElsewhere(t) \/ Commit(t)
                     \/ Freeze(t) \/ Unfreeze(t) \/ Cancel(t) \/ Report(t)
                     \/ \E x \in Actor : Prepare(t, x) \/ Continue(t, x)
  \/ \E e \in Endpoint : Retire(e)
  \/ \E o \in Operation, kind \in {"ran", "failed", "wrote"} : Complete(o, kind)

Spec == Init /\ [][Next]_vars
=============================================================================
