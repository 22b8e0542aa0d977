--------------------------- MODULE TaskHostProofs ---------------------------
(***************************************************************************)
(* Proofs about TaskHost for every set of endpoints, conversations, tasks  *)
(* and threads and every number of epochs, requests, hand-offs and         *)
(* failures.                                                               *)
(*                                                                         *)
(* The argument: the ledger only goes forward (Forward), so what a request *)
(* read of it is still true, or more so, when the request writes (Sound).  *)
(* Rows are written before the ledger can need them, and removed when it   *)
(* has passed them.                                                        *)
(***************************************************************************)
EXTENDS TaskHostProps, FiniteSetTheorems, SequenceTheorems, TLAPS

State == {"accepted", "frozen", "reported", "cancelled"}
Stage == {"none", "prepared", "released", "accepted", "committed", "aborted"}
Ops == {"resume", "accept", "detach", "history", "release", "reconcile"}
Steps == {"call", "bind", "mark", "unlink", "delete", "check", "cleanup"}
Binding == [task : Task, epoch : Epoch]
Call == [op : Ops, by : Endpoint, task : Task, epoch : Epoch, of : Endpoint,
         step : Steps, rows : SUBSET Endpoint]
Served == Endpoint \X Task \X Epoch

(* The ledger: a pending hand-off has a target.                              *)
Ledger ==
  /\ status \in [Task -> State]
  /\ executor \in [Task -> Actor]
  /\ epoch \in [Task -> 0 .. MaxEpoch]
  /\ handoff \in [Task -> [state : Stage, target : Actor \union {None}]]
  /\ retired \subseteq Endpoint
  /\ \A t \in Task : Pending(t) => handoff[t].target \in Actor

Typed ==
  /\ operations \in [Operation -> {"none", "open", "closed"}]
  /\ log \in [Operation -> Seq({"ran", "failed", "wrote"})]
  /\ binding \in [Endpoint -> Binding \union {None}]
  /\ marker \subseteq Native
  /\ detached \subseteq Served /\ released \subseteq Served
  /\ request \in [Thread -> Call \union {Idle}]
  /\ writer \in Thread \union {None}
  /\ over \subseteq Served

(* The ledger has left the epoch n of the task, or is about to end it.      *)
Passed(t, n) == Terminal(t) \/ epoch[t] >= n

(* An assignment that is over and cannot come back.                         *)
Over(a, t, n) ==
  Passed(t, n) /\ (Terminal(t) \/ epoch[t] # n \/ executor[t] # a)

(* The row an accept wrote is there as long as the ledger may need it.      *)
Ready(a, t, n) == binding[a] = Row(t, n) \/ a \in mixed \/ Passed(t, n)

(* What a request has read is still so.                                     *)
Sound(th) ==
  LET r == request[th]
  IN r # Idle =>
       /\ r.rows = {}
       /\ NativeOf[r.of] = NativeOf[r.by]
       /\ r.op = "resume" /\ r.step = "bind" => r.epoch <= epoch[r.task]
       /\ r.op = "accept" => r.epoch <= epoch[r.task] + 1
       /\ r.op = "accept" /\ r.step = "call" => Ready(r.by, r.task, r.epoch)
       /\ r.op = "detach" /\ r.step = "delete" => Over(r.by, r.task, r.epoch)
       /\ r.op = "history" /\ r.step = "delete" =>
            /\ writer = th
            /\ epoch[r.task] > r.epoch
            /\ binding[r.of] = Row(r.task, r.epoch)
       /\ r.op = "release" /\ r.step = "delete" => Terminal(r.task)
       /\ r.op = "reconcile" => /\ operations[<<r.by, r.task>>] # "none"
                                /\ log[<<r.by, r.task>>] # <<>>

Asked == \A th \in Thread : Sound(th)

Removed == \A r \in over : Over(r[1], r[2], r[3])

(* The inductive invariant.                                                 *)
HostInv ==
  /\ Ledger /\ Typed
  /\ Asked
  /\ Removed
  /\ AcceptedIsBound
  /\ MarkerCovers
  /\ ReleasedIsFenced
  /\ ClosedWasFinished

-----------------------------------------------------------------------------
(* The ledger goes forward.                                                 *)

Forward ==
  \A t \in Task :
    /\ status[t] \in {"reported", "cancelled"}
         => status'[t] \in {"reported", "cancelled"}
    /\ epoch[t] <= epoch'[t]
    /\ epoch'[t] = epoch[t] => executor'[t] = executor[t]

(* No endpoint of this host accepts.                                        *)
NoneAccepts ==
  \A t \in Task, a \in Endpoint :
    handoff'[t] = [state |-> "accepted", target |-> a]
      => handoff[t] = handoff'[t] /\ epoch'[t] = epoch[t]

LedgerStep ==
  \/ \E t \in Task : \/ Release(t) \/ AcceptElsewhere(t) \/ Commit(t)
                     \/ Freeze(t) \/ Unfreeze(t) \/ Cancel(t) \/ Report(t)
                     \/ \E x \in Actor : Prepare(t, x) \/ Continue(t, x)
  \/ \E e \in Endpoint : Retire(e)

(* A step of the ledger keeps its types, goes forward and accepts for       *)
(* nobody on this host (tasks.py).                                          *)
LEMMA MasterMoves ==
  ASSUME Ledger, LedgerStep
  PROVE  Ledger' /\ Forward /\ NoneAccepts
<1> USE TaskHostAssumption DEF Epoch, Ledger, Forward, NoneAccepts, Pending, State, Stage
<1>1. ASSUME NEW t \in Task, Releases(t)
      PROVE  Ledger' /\ Forward /\ NoneAccepts
  BY <1>1 DEF Releases, SetHandoff, HandoffAllowed, Actor
<1>2. ASSUME NEW t \in Task, NEW x \in Elsewhere, Accepts(t, x)
      PROVE  Ledger' /\ Forward /\ NoneAccepts
  BY <1>2 DEF Accepts, SetHandoff, HandoffAllowed, Actor
<1>3. ASSUME NEW t \in Task, Commits(t)
      PROVE  Ledger' /\ Forward /\ NoneAccepts
  BY <1>3 DEF Commits, SetHandoff, HandoffAllowed, Actor
<1>4. ASSUME NEW t \in Task, Freezes(t) \/ Cancels(t) \/ Reports(t)
      PROVE  Ledger' /\ Forward /\ NoneAccepts
  BY <1>4 DEF Freezes, Cancels, Reports, SetStatus, Terminal
<1>5. ASSUME NEW t \in Task, Unfreezes(t)
      PROVE  Ledger' /\ Forward /\ NoneAccepts
  <2>1. CASE Pending(t)
    <3>1. Ledger'
      <4>1. handoff' \in [Task -> [state : Stage, target : Actor \union {None}]]
        BY <1>5, <2>1 DEF Unfreezes, SetHandoff
      <4>2. /\ status' \in [Task -> State] /\ epoch' \in [Task -> 0 .. MaxEpoch]
            /\ UNCHANGED <<executor, retired>>
        BY <1>5 DEF Unfreezes
      <4>3. \A u \in Task : Pending(u)' => handoff'[u].target \in Actor
        BY <1>5, <2>1 DEF Unfreezes, SetHandoff
      <4> QED
        BY <4>1, <4>2, <4>3
    <3>2. Forward
      BY <1>5, <2>1 DEF Unfreezes, SetHandoff
    <3>3. NoneAccepts
      BY <1>5, <2>1 DEF Unfreezes, SetHandoff
    <3> QED
      BY <3>1, <3>2, <3>3
  <2>2. CASE ~ Pending(t)
    BY <1>5, <2>2 DEF Unfreezes
  <2> QED
    BY <2>1, <2>2
<1>6. ASSUME NEW t \in Task, NEW x \in Actor, Prepares(t, x)
      PROVE  Ledger' /\ Forward /\ NoneAccepts
  BY <1>6 DEF Prepares, SetHandoff, HandoffAllowed
<1>7. ASSUME NEW t \in Task, NEW x \in Actor, Resumed(t, x)
      PROVE  Ledger' /\ Forward /\ NoneAccepts
  BY <1>7 DEF Resumed, ResumeAllowed
<1>8. ASSUME NEW e \in Endpoint, Retires(e)
      PROVE  Ledger' /\ Forward /\ NoneAccepts
  BY <1>8 DEF Retires
<1> QED
  BY <1>1, <1>2, <1>3, <1>4, <1>5, <1>6, <1>7, <1>8
  DEF LedgerStep, Release, AcceptElsewhere, Commit, Freeze, Unfreeze, Cancel, Report,
      Prepare, Continue, ResumesElsewhere, Retire

(* What is over stays over, and what is ready stays ready while its row     *)
(* stays.                                                                   *)
LEMMA OverStays ==
  ASSUME Ledger, Ledger', Forward, NEW a \in Endpoint, NEW t \in Task,
         NEW n \in Epoch
  PROVE  /\ Passed(t, n) => Passed(t, n)'
         /\ Over(a, t, n) => Over(a, t, n)'
<1>1. /\ n \in Int /\ epoch[t] \in Int /\ epoch'[t] \in Int
      /\ epoch[t] <= epoch'[t]
      /\ epoch'[t] = epoch[t] => executor'[t] = executor[t]
      /\ status[t] \in {"reported", "cancelled"} =>
           status'[t] \in {"reported", "cancelled"}
  BY TaskHostAssumption DEF Forward, Ledger, Epoch
<1> QED
  BY <1>1 DEF Passed, Over, Terminal

LEMMA RemovedStays ==
  ASSUME Ledger, Ledger', Forward, Typed, Removed, over' = over
  PROVE  Removed'
<1> SUFFICES ASSUME NEW r \in over
             PROVE  Over(r[1], r[2], r[3])'
  BY DEF Removed
<1>1. r[1] \in Endpoint /\ r[2] \in Task /\ r[3] \in Epoch
  BY DEF Typed, Served
<1>2. Over(r[1], r[2], r[3])
  BY DEF Removed
<1> QED
  BY <1>1, <1>2, OverStays

ReadyStays ==
  \A a \in Endpoint, t \in Task, n \in Epoch : Ready(a, t, n) => Ready(a, t, n)'

(* A request another one does not touch stays sound.                        *)
LEMMA SoundStays ==
  ASSUME Ledger, Ledger', Forward, Typed, ReadyStays,
         NEW u \in Thread, Sound(u), request'[u] = request[u],
         writer = u => writer' = u /\ binding' = binding,
         \A o \in Operation : /\ operations[o] # "none" => operations'[o] # "none"
                              /\ log[o] # <<>> => log'[o] # <<>>
  PROVE  Sound(u)'
<1> SUFFICES ASSUME request[u] # Idle
             PROVE  Sound(u)'
  BY DEF Sound
<1> PICK r : r = request[u]
  OBVIOUS
<1>1. r \in Call
  BY DEF Typed
<1>2. /\ r.by \in Endpoint /\ r.of \in Endpoint /\ r.task \in Task
      /\ r.epoch \in Epoch /\ <<r.by, r.task>> \in Operation
  BY <1>1 DEF Call, Operation
<1>3. /\ r.rows = {}
      /\ NativeOf[r.of] = NativeOf[r.by]
  BY DEF Sound
<1>4. /\ r.op = "resume" /\ r.step = "bind" => r.epoch <= epoch'[r.task]
      /\ r.op = "accept" => r.epoch <= epoch'[r.task] + 1
      /\ r.op = "history" /\ r.step = "delete" => epoch'[r.task] > r.epoch
  <2>1. /\ r.epoch \in Int /\ epoch[r.task] \in Int /\ epoch'[r.task] \in Int
        /\ epoch[r.task] <= epoch'[r.task]
    BY <1>2, TaskHostAssumption DEF Forward, Ledger, Epoch
  <2>2. /\ r.op = "resume" /\ r.step = "bind" => r.epoch <= epoch[r.task]
        /\ r.op = "accept" => r.epoch <= epoch[r.task] + 1
        /\ r.op = "history" /\ r.step = "delete" => epoch[r.task] > r.epoch
    BY DEF Sound
  <2> QED
    BY <2>1, <2>2
<1>5. r.op = "accept" /\ r.step = "call" => Ready(r.by, r.task, r.epoch)'
  BY <1>2 DEF Sound, ReadyStays
<1>6. r.op = "detach" /\ r.step = "delete" => Over(r.by, r.task, r.epoch)'
  BY <1>2, OverStays DEF Sound
<1>7. r.op = "history" /\ r.step = "delete" =>
        writer' = u /\ binding'[r.of] = Row(r.task, r.epoch)
  BY DEF Sound
<1>8. r.op = "release" /\ r.step = "delete" => Terminal(r.task)'
  BY <1>2 DEF Sound, Terminal, Forward
<1>9. r.op = "reconcile" => /\ operations'[<<r.by, r.task>>] # "none"
                            /\ log'[<<r.by, r.task>>] # <<>>
  BY <1>2 DEF Sound
<1> QED
  BY <1>3, <1>4, <1>5, <1>6, <1>7, <1>8, <1>9 DEF Sound, Row, Ready, Over, Passed, Terminal

-----------------------------------------------------------------------------
(* Steps that leave the rows alone.                                         *)

RowsUnchanged ==
  UNCHANGED <<binding, marker, detached, released, fenced, past>>

LEMMA ReadyKept ==
  ASSUME Ledger, Ledger', Forward, binding' = binding, mixed' = mixed
  PROVE  ReadyStays
BY OverStays DEF ReadyStays, Ready, Row

(* Without an accept the rows of accepted hand-offs stay.                   *)
LEMMA AcceptedKept ==
  ASSUME HostInv, Ledger', Forward, NoneAccepts,
         binding' = binding, mixed' = mixed
  PROVE  AcceptedIsBound'
BY DEF HostInv, AcceptedIsBound, NoneAccepts, Forward, Terminal, Row

(* A step of the ledger.                                                    *)
LEMMA MasterInv ==
  ASSUME HostInv, LedgerStep
  PROVE  HostInv'
<1>1. Ledger' /\ Forward /\ NoneAccepts
  BY MasterMoves DEF HostInv
<1>2. UNCHANGED <<operations, log, host, request, past>>
  BY DEF LedgerStep, HostUnchanged, Release, Releases, AcceptElsewhere, Accepts, Commit,
         Commits, Freeze, Freezes, Unfreeze, Unfreezes, Cancel, Cancels, Report, Reports,
         SetStatus, Prepare, Prepares, Continue, ResumesElsewhere, Resumed, Retire, Retires
<1>3. Typed'
  BY <1>2 DEF HostInv, Typed, host, past
<1>4. ReadyStays
  BY <1>1, <1>2, ReadyKept DEF HostInv, host, past
<1>5. Asked'
  <2> SUFFICES ASSUME NEW u \in Thread PROVE Sound(u)'
    BY DEF Asked
  <2> QED
    BY <1>1, <1>2, <1>4, SoundStays DEF HostInv, Asked, host
<1>6. Removed'
  BY <1>1, <1>2, RemovedStays DEF HostInv, past
<1>7. AcceptedIsBound'
  BY <1>1, <1>2, AcceptedKept DEF host, past
<1>8. MarkerCovers' /\ ReleasedIsFenced' /\ ClosedWasFinished'
  BY <1>2 DEF HostInv, MarkerCovers, RowsOf, ReleasedIsFenced,
     ClosedWasFinished, host, past
<1> QED
  BY <1>1, <1>3, <1>5, <1>6, <1>7, <1>8 DEF HostInv

LEMMA LedgerKept ==
  ASSUME Ledger, UNCHANGED master
  PROVE  Ledger' /\ Forward /\ NoneAccepts
BY TaskHostAssumption DEF master, Ledger, Forward, NoneAccepts, Pending

(* A tool ends.                                                             *)
LEMMA CompleteInv ==
  ASSUME HostInv, NEW o \in Operation, NEW kind \in {"ran", "failed", "wrote"},
         Complete(o, kind)
  PROVE  HostInv'
<1>1. UNCHANGED <<master, operations, host, request, past>>
  BY DEF Complete
<1>2. Ledger' /\ Forward /\ NoneAccepts
  BY <1>1, LedgerKept DEF HostInv
<1>3. Append(log[o], kind) # <<>> /\ Append(log[o], kind) \in Seq({"ran", "failed", "wrote"})
  <2>1. log[o] \in Seq({"ran", "failed", "wrote"})
    BY DEF HostInv, Typed
  <2> QED
    BY <2>1, AppendProperties
<1>4. /\ log' \in [Operation -> Seq({"ran", "failed", "wrote"})]
      /\ \A p \in Operation : log[p] # <<>> => log'[p] # <<>>
  BY <1>3 DEF Complete, HostInv, Typed
<1>5. Typed'
  BY <1>1, <1>4 DEF HostInv, Typed, host, past
<1>6. ReadyStays
  BY <1>1, <1>2, ReadyKept DEF HostInv, host, past
<1>7. Asked'
  <2> SUFFICES ASSUME NEW u \in Thread PROVE Sound(u)'
    BY DEF Asked
  <2> QED
    BY <1>1, <1>2, <1>4, <1>6, SoundStays DEF HostInv, Asked, host
<1>8. Removed'
  BY <1>1, <1>2, RemovedStays DEF HostInv, past
<1>9. AcceptedIsBound'
  BY <1>1, <1>2, AcceptedKept DEF host, past
<1>10. ClosedWasFinished'
  BY <1>1, <1>4 DEF HostInv, ClosedWasFinished
<1>11. MarkerCovers' /\ ReleasedIsFenced'
  BY <1>1 DEF HostInv, MarkerCovers, RowsOf, ReleasedIsFenced, host, past
<1> QED
  BY <1>2, <1>5, <1>7, <1>8, <1>9, <1>10, <1>11 DEF HostInv

-----------------------------------------------------------------------------
(* Steps of requests.                                                       *)

(* What a step leaves alone when it changes rows at most.                   *)
LEMMA OthersSound ==
  ASSUME HostInv, NEW th \in Thread, UNCHANGED <<master, operations, log>>,
         ReadyStays, Sound(th)',
         \A u \in Thread \ {th} :
           request'[u] = request[u] /\ (writer = u => writer' = u /\ binding' = binding)
  PROVE  Asked'
<1>1. Ledger' /\ Forward
  BY LedgerKept DEF HostInv
<1> SUFFICES ASSUME NEW u \in Thread, u # th PROVE Sound(u)'
  BY DEF Asked
<1> QED
  BY <1>1, SoundStays DEF HostInv, Asked

(* A step that changes nothing but its request and the lock.                *)
LEMMA QuietInv ==
  ASSUME HostInv, NEW th \in Thread, NEW r \in Call \union {Idle}, Do(th, r),
         UNCHANGED <<master, operations, log>>, RowsUnchanged,
         writer' = writer \/ writer = th \/ writer = None,
         writer' \in Thread \union {None},
         Sound(th)'
  PROVE  HostInv'
<1>1. Ledger' /\ Forward /\ NoneAccepts
  BY LedgerKept DEF HostInv
<1>2. ReadyStays
  BY <1>1, ReadyKept DEF HostInv, RowsUnchanged, past
<1>3. request' = [request EXCEPT ![th] = r]
  BY DEF Do
<1>4. Asked'
  BY <1>2, <1>3, OthersSound, TaskHostAssumption DEF HostInv, Typed, RowsUnchanged
<1>5. Typed'
  BY <1>3 DEF HostInv, Typed, RowsUnchanged, past
<1>6. Removed'
  BY <1>1, RemovedStays DEF HostInv, RowsUnchanged, past
<1>7. AcceptedIsBound'
  BY <1>1, AcceptedKept DEF RowsUnchanged, past
<1>8. MarkerCovers' /\ ReleasedIsFenced' /\ ClosedWasFinished'
  BY DEF HostInv, MarkerCovers, RowsOf, ReleasedIsFenced, ClosedWasFinished,
     RowsUnchanged, past
<1> QED
  BY <1>1, <1>4, <1>5, <1>6, <1>7, <1>8 DEF HostInv

LEMMA DoneSound ==
  ASSUME Typed, NEW th \in Thread, Done(th)
  PROVE  Sound(th)'
BY DEF Typed, Done, Do, Sound

(* A request begins.                                                        *)
LEMMA BeginInv ==
  ASSUME HostInv, NEW th \in Thread, NEW op \in Ops, NEW a \in Endpoint,
         NEW t \in Task, NEW n \in Epoch, NEW e \in Endpoint,
         NEW step \in Steps, Begin(th, op, a, t, n, e, step),
         UNCHANGED <<master, operations, log>>, RowsUnchanged,
         writer' = writer \/ (writer = None /\ writer' = th),
         Sound(th)'
  PROVE  HostInv'
<1> DEFINE r == [op |-> op, by |-> a, task |-> t, epoch |-> n, of |-> e,
                 step |-> step, rows |-> {}]
<1>1. r \in Call /\ Do(th, r)
  BY DEF Begin, Call
<1>2. writer' \in Thread \union {None}
  BY DEF HostInv, Typed
<1> HIDE DEF r
<1> QED
  BY <1>1, <1>2, QuietInv

(* It is sound from its first step.                                         *)
LEMMA BeginSound ==
  ASSUME Typed, NEW th \in Thread, NEW op \in Ops, NEW a \in Endpoint,
         NEW t \in Task, NEW n \in Epoch, NEW e \in Endpoint,
         NEW step \in Steps, Begin(th, op, a, t, n, e, step),
         UNCHANGED <<master, operations, log, binding>>,
         NativeOf[e] = NativeOf[a],
         op = "resume" => step = "call",
         op = "accept" => step = "mark" /\ n <= epoch[t] + 1,
         op = "detach" /\ step = "delete" => Over(a, t, n),
         op = "history" =>
           writer' = th /\ epoch[t] > n /\ binding[e] = Row(t, n),
         op = "release" /\ step = "delete" => Terminal(t),
         op = "reconcile" => operations[<<a, t>>] # "none" /\ log[<<a, t>>] # <<>>
  PROVE  Sound(th)'
<1>1. PICK r : r = [op |-> op, by |-> a, task |-> t, epoch |-> n, of |-> e,
                    step |-> step, rows |-> {}]
  OBVIOUS
<1>2. request'[th] = r
  BY <1>1 DEF Begin, Do, Typed
<1>3. /\ r.op = op /\ r.by = a /\ r.task = t /\ r.epoch = n /\ r.of = e
      /\ r.step = step /\ r.rows = {}
  BY <1>1
<1> QED
  BY <1>2, <1>3 DEF Sound, Ready, Over, Passed, Terminal, Row, master

LEMMA ResumeBeginInv ==
  ASSUME HostInv, NEW th \in Thread, NEW a \in Endpoint, NEW t \in Task,
         ResumeBegin(th, a, t)
  PROVE  HostInv'
<1> 0 \in Epoch /\ "resume" \in Ops /\ "call" \in Steps
  BY TaskHostAssumption DEF Epoch, Ops, Steps
<1>1. /\ Begin(th, "resume", a, t, 0, a, "call")
      /\ UNCHANGED <<master, operations, log>> /\ RowsUnchanged
      /\ writer' = writer /\ binding' = binding
  BY DEF ResumeBegin, RowsUnchanged, host
<1>2. Sound(th)'
  BY <1>1, BeginSound DEF HostInv
<1> QED
  BY <1>1, <1>2, BeginInv

LEMMA AcceptBeginInv ==
  ASSUME HostInv, NEW th \in Thread, NEW a \in Endpoint, NEW t \in Task,
         AcceptBegin(th, a, t)
  PROVE  HostInv'
<1> "accept" \in Ops /\ "mark" \in Steps
  BY DEF Ops, Steps
<1>1. /\ epoch[t] + 1 \in Epoch
      /\ Begin(th, "accept", a, t, epoch[t] + 1, a, "mark")
      /\ UNCHANGED <<master, operations, log>> /\ RowsUnchanged
      /\ writer' = writer /\ binding' = binding
  BY TaskHostAssumption DEF AcceptBegin, RowsUnchanged, host, HostInv, Ledger, Epoch
<1>2. Sound(th)'
  <2>1. epoch[t] + 1 <= epoch[t] + 1
    BY <1>1, TaskHostAssumption DEF Epoch, HostInv, Ledger
  <2> QED
    BY <1>1, <2>1, BeginSound DEF HostInv
<1> QED
  BY <1>1, <1>2, BeginInv

LEMMA ReconcileBeginInv ==
  ASSUME HostInv, NEW th \in Thread, NEW a \in Endpoint, NEW t \in Task,
         ReconcileBegin(th, a, t)
  PROVE  HostInv'
<1> 0 \in Epoch /\ "reconcile" \in Ops /\ "call" \in Steps
  BY TaskHostAssumption DEF Epoch, Ops, Steps
<1>1. /\ Begin(th, "reconcile", a, t, 0, a, "call")
      /\ UNCHANGED <<master, operations, log>> /\ RowsUnchanged
      /\ writer' = writer /\ binding' = binding
      /\ operations[<<a, t>>] # "none"
      /\ Outcome(log[<<a, t>>]) # "none"
  BY DEF ReconcileBegin, RowsUnchanged, host
<1>2. log[<<a, t>>] # <<>>
  <2>1. ASSUME log[<<a, t>>] = <<>> PROVE Outcome(log[<<a, t>>]) = "none"
    <3>1. Len(<<>>) # 1 /\ <<>> # <<"ran">> /\ <<>> # <<"failed">>
      OBVIOUS
    <3>2. Cardinality(Files(<<>>)) = 0
      BY FS_EmptySet DEF Files
    <3>3. CodexOutcome(<<>>) = "none"
      BY <3>1, <3>2 DEF CodexOutcome
    <3> QED
      BY <2>1, <3>1, <3>3 DEF Outcome, ClaudeOutcome
  <2> QED
    BY <1>1, <2>1
<1>3. Sound(th)'
  BY <1>1, <1>2, BeginSound DEF HostInv
<1> QED
  BY <1>1, <1>3, BeginInv

LEMMA DetachReplayInv ==
  ASSUME HostInv, NEW th \in Thread, NEW a \in Endpoint, NEW t \in Task,
         NEW n \in Epoch, DetachReplay(th, a, t, n)
  PROVE  HostInv'
<1> "detach" \in Ops /\ "unlink" \in Steps
  BY DEF Ops, Steps
<1>1. /\ Begin(th, "detach", a, t, n, a, "unlink")
      /\ UNCHANGED <<master, operations, log>> /\ RowsUnchanged
      /\ writer' = writer /\ binding' = binding
  BY DEF DetachReplay, RowsUnchanged, host
<1>2. Sound(th)'
  BY <1>1, BeginSound DEF HostInv
<1> QED
  BY <1>1, <1>2, BeginInv

LEMMA DetachBeginInv ==
  ASSUME HostInv, NEW th \in Thread, NEW a \in Endpoint, NEW t \in Task,
         NEW n \in Epoch, DetachBegin(th, a, t, n)
  PROVE  HostInv'
<1> "detach" \in Ops /\ "delete" \in Steps
  BY DEF Ops, Steps
<1>1. /\ Begin(th, "detach", a, t, n, a, "delete")
      /\ UNCHANGED <<master, operations, log>> /\ RowsUnchanged
      /\ writer' = writer /\ binding' = binding
  BY DEF DetachBegin, RowsUnchanged, host
<1>2. Over(a, t, n)
  BY DEF DetachBegin, Transferred, Over, Passed
<1>3. Sound(th)'
  BY <1>1, <1>2, BeginSound DEF HostInv
<1> QED
  BY <1>1, <1>3, BeginInv

LEMMA DetachHistoricalInv ==
  ASSUME HostInv, NEW th \in Thread, NEW a \in Endpoint, NEW t \in Task,
         NEW n \in Epoch, NEW e \in Endpoint, DetachHistorical(th, a, e, t, n)
  PROVE  HostInv'
<1> "history" \in Ops /\ "delete" \in Steps
  BY DEF Ops, Steps
<1>1. /\ Begin(th, "history", a, t, n, e, "delete")
      /\ UNCHANGED <<master, operations, log>> /\ RowsUnchanged
      /\ writer = None /\ writer' = th /\ binding' = binding
  BY DEF DetachHistorical, RowsUnchanged
<1>2. /\ epoch[t] > n /\ binding[e] = Row(t, n)
      /\ NativeOf[e] = NativeOf[a]
  BY DEF DetachHistorical, Historical, ReleaseCheck, RowsOf
<1>3. Sound(th)'
  BY <1>1, <1>2, BeginSound DEF HostInv
<1> QED
  BY <1>1, <1>3, BeginInv

LEMMA ReleaseReplayInv ==
  ASSUME HostInv, NEW th \in Thread, NEW a \in Endpoint, NEW t \in Task,
         NEW n \in Epoch, ReleaseReplay(th, a, t, n)
  PROVE  HostInv'
<1> "release" \in Ops /\ "unlink" \in Steps
  BY DEF Ops, Steps
<1>1. /\ Begin(th, "release", a, t, n, a, "unlink")
      /\ UNCHANGED <<master, operations, log>> /\ RowsUnchanged
      /\ writer' = writer /\ binding' = binding
  BY DEF ReleaseReplay, RowsUnchanged, host
<1>2. Sound(th)'
  BY <1>1, BeginSound DEF HostInv
<1> QED
  BY <1>1, <1>2, BeginInv

LEMMA ReleaseBeginInv ==
  ASSUME HostInv, NEW th \in Thread, NEW a \in Endpoint, NEW t \in Task,
         NEW n \in Epoch, NEW e \in Endpoint, ReleaseBegin(th, a, e, t, n)
  PROVE  HostInv'
<1> "release" \in Ops /\ "delete" \in Steps
  BY DEF Ops, Steps
<1>1. /\ Begin(th, "release", a, t, n, e, "delete")
      /\ UNCHANGED <<master, operations, log>> /\ RowsUnchanged
      /\ writer' = writer /\ binding' = binding
  BY DEF ReleaseBegin, RowsUnchanged, host
<1>2. NativeOf[e] = NativeOf[a] /\ Terminal(t)
  BY DEF ReleaseBegin, Historical, RowsOf, Terminal
<1>3. Sound(th)'
  BY <1>1, <1>2, BeginSound DEF HostInv
<1> QED
  BY <1>1, <1>3, BeginInv

LEMMA DetachCheckInv ==
  ASSUME HostInv, NEW th \in Thread, DetachCheck(th)
  PROVE  HostInv'
<1> PICK r : r = [request[th] EXCEPT !.step = "unlink",
                                     !.rows = RowsOf(NativeOf[request[th].by])]
  OBVIOUS
<1>1. request[th].op = "detach" /\ request[th] # Idle /\ request[th] \in Call
  BY DEF DetachCheck, Step, HostInv, Typed, Idle
<1>2. r \in Call /\ r.step = "unlink" /\ r.rows = {} /\ r.op = "detach"
      /\ r.of = request[th].of /\ r.by = request[th].by
  BY <1>1 DEF Call, DetachCheck, Steps
<1>3. /\ Do(th, r) /\ writer' = writer
      /\ UNCHANGED <<master, operations, log>> /\ RowsUnchanged
  BY DEF DetachCheck, Unlinking, MasterUnchanged, RowsUnchanged, host
<1>4. request'[th] = r
  BY <1>3 DEF Do, HostInv, Typed
<1>5. Sound(th)'
  BY <1>1, <1>2, <1>4 DEF Sound, HostInv, Asked
<1>6. writer' \in Thread \union {None}
  BY <1>3 DEF HostInv, Typed
<1> QED
  BY <1>2, <1>3, <1>5, <1>6, QuietInv

(* A lost answer or a kill. *)
LEMMA FailInv ==
  ASSUME HostInv, NEW th \in Thread, Fail(th)
  PROVE  HostInv'
<1>1. /\ Done(th) /\ Do(th, Idle)
      /\ UNCHANGED <<master, operations, log>> /\ RowsUnchanged
      /\ writer' = writer \/ writer = th
      /\ writer' \in Thread \union {None}
  BY DEF Fail, Done, MasterUnchanged, RowsUnchanged, HostInv, Typed
<1>2. Sound(th)'
  BY <1>1, DoneSound DEF HostInv
<1> QED
  BY <1>1, <1>2, QuietInv

(* The tool is marked closed at the master. *)
LEMMA ReconcileCallInv ==
  ASSUME HostInv, NEW th \in Thread, ReconcileCall(th)
  PROVE  HostInv'
<1> PICK r : r = request[th]
  OBVIOUS
<1>1. /\ r \in Call /\ r.op = "reconcile" /\ r # Idle
      /\ <<r.by, r.task>> \in Operation
  BY DEF ReconcileCall, Step, HostInv, Typed, Idle, Call, Operation
<1>2. operations[<<r.by, r.task>>] # "none" /\ log[<<r.by, r.task>>] # <<>>
  BY <1>1 DEF HostInv, Asked, Sound
<1>3. /\ operations' = [operations EXCEPT ![<<r.by, r.task>>] = "closed"]
      /\ UNCHANGED <<master, log, host, past>> /\ Done(th)
  BY DEF ReconcileCall, Ends
<1>4. /\ operations' \in [Operation -> {"none", "open", "closed"}]
      /\ \A o \in Operation : operations'[o] # "none" <=> operations[o] # "none"
      /\ \A o \in Operation : operations'[o] = "closed" =>
            operations[o] = "closed" \/ log[o] # <<>>
  BY <1>1, <1>2, <1>3 DEF HostInv, Typed
<1>5. Ledger' /\ Forward /\ NoneAccepts
  BY <1>3, LedgerKept DEF HostInv
<1>6. ReadyStays
  BY <1>3, <1>5, ReadyKept DEF HostInv, host, past
<1>7. Typed'
  BY <1>3, <1>4 DEF HostInv, Typed, host, past, Done, Do
<1>8. Asked'
  <2> SUFFICES ASSUME NEW u \in Thread, u # th PROVE Sound(u)'
    BY <1>3, DoneSound DEF Asked, HostInv
  <2>1. request'[u] = request[u]
    BY <1>3 DEF Done, Do, HostInv, Typed
  <2> QED
    BY <2>1, <1>3, <1>4, <1>5, <1>6, SoundStays DEF HostInv, Asked, host
<1>9. Removed'
  BY <1>3, <1>5, RemovedStays DEF HostInv, past
<1>10. AcceptedIsBound'
  BY <1>3, <1>5, AcceptedKept DEF host, past
<1>11. ClosedWasFinished'
  BY <1>3, <1>4 DEF HostInv, ClosedWasFinished
<1>12. ReleasedIsFenced'
  <2>1. \A e \in Endpoint, q \in released : <<e, q[2]>> \in Operation
    BY DEF HostInv, Typed, Served, Operation
  <2> QED
    BY <2>1, <1>3, <1>4 DEF HostInv, ReleasedIsFenced, host
<1>13. MarkerCovers'
  BY <1>3 DEF HostInv, MarkerCovers, RowsOf, host, past
<1> QED
  BY <1>5, <1>7, <1>8, <1>9, <1>10, <1>11, <1>12, <1>13 DEF HostInv

-----------------------------------------------------------------------------
(* Rows are removed.                                                        *)

(* A row that is over may go. *)
LEMMA Removal ==
  ASSUME HostInv, NEW e \in Endpoint, NEW t \in Task, NEW n \in Epoch,
         binding[e] = Row(t, n), Over(e, t, n), Remove(e),
         mixed' = mixed, UNCHANGED master
  PROVE  /\ binding' \in [Endpoint -> Binding \union {None}]
         /\ over' \subseteq Served
         /\ ReadyStays /\ AcceptedIsBound' /\ Removed'
         /\ \A k \in Native : RowsOf(k)' \subseteq RowsOf(k)
<1>1. /\ binding' = [binding EXCEPT ![e] = None]
      /\ over' = over \union {<<e, t, n>>}
  BY DEF Remove, Row
<1>2. binding' \in [Endpoint -> Binding \union {None}] /\ over' \subseteq Served
  BY <1>1 DEF HostInv, Typed, Served
<1>3. ReadyStays
  <2> SUFFICES ASSUME NEW a \in Endpoint, NEW s \in Task, NEW m \in Epoch,
                      Ready(a, s, m)
               PROVE  Ready(a, s, m)'
    BY DEF ReadyStays
  <2>1. CASE a = e /\ binding[a] = Row(s, m)
    <3>1. s = t /\ m = n
      BY <2>1 DEF Row
    <3>2. Passed(s, m)'
      BY <3>1 DEF Over, Passed, Terminal, master
    <3> QED
      BY <3>2 DEF Ready
  <2>2. CASE ~ (a = e /\ binding[a] = Row(s, m))
    BY <1>1, <2>2 DEF Ready, Passed, Terminal, master, HostInv, Typed, Row
  <2> QED
    BY <2>1, <2>2
<1>4. AcceptedIsBound'
  <2> SUFFICES ASSUME NEW s \in Task, NEW a \in Endpoint,
                      handoff[s] = [state |-> "accepted", target |-> a],
                      ~ Terminal(s), a \notin mixed
               PROVE  binding'[a] = Row(s, epoch[s] + 1)
    BY DEF AcceptedIsBound, master, Terminal, Row
  <2>1. binding[a] = Row(s, epoch[s] + 1)
    BY DEF HostInv, AcceptedIsBound
  <2>2. a # e
    <3> SUFFICES ASSUME a = e PROVE FALSE
      OBVIOUS
    <3>1. s = t /\ n = epoch[t] + 1 /\ epoch[t] \in Nat
      BY <2>1, TaskHostAssumption DEF Row, HostInv, Ledger
    <3> QED
      BY <3>1 DEF Over, Passed
  <2> QED
    BY <1>1, <2>1, <2>2 DEF HostInv, Typed
<1>5. Removed'
  BY <1>1 DEF HostInv, Removed, Over, Passed, Terminal, master
<1>6. \A k \in Native : RowsOf(k)' \subseteq RowsOf(k)
  BY <1>1 DEF RowsOf, HostInv, Typed
<1> QED
  BY <1>2, <1>3, <1>4, <1>5, <1>6

LEMMA DetachDeleteInv ==
  ASSUME HostInv, NEW th \in Thread, DetachDelete(th)
  PROVE  HostInv'
<1> PICK r : r = request[th]
  OBVIOUS
<1>1. /\ r \in Call /\ r # Idle /\ r.op = "detach" /\ r.step = "delete"
      /\ writer = None
      /\ r.by \in Endpoint /\ r.task \in Task /\ r.epoch \in Epoch
  BY DEF DetachDelete, Step, HostInv, Typed, Idle, Call
<1>2. /\ binding[r.by] = Row(r.task, r.epoch) /\ Remove(r.by)
      /\ detached' = detached \union {<<r.by, r.task, r.epoch>>}
      /\ Do(th, [r EXCEPT !.step = "check"])
      /\ UNCHANGED <<marker, released, fenced, writer, raced, mixed>>
      /\ UNCHANGED <<master, operations, log>>
  BY DEF DetachDelete, MasterUnchanged, To
<1>3. Over(r.by, r.task, r.epoch)
  BY <1>1 DEF HostInv, Asked, Sound
<1>4. /\ binding' \in [Endpoint -> Binding \union {None}]
      /\ over' \subseteq Served
      /\ ReadyStays /\ AcceptedIsBound' /\ Removed'
      /\ \A k \in Native : RowsOf(k)' \subseteq RowsOf(k)
  BY <1>1, <1>2, <1>3, Removal
<1>5. PICK q : q = [r EXCEPT !.step = "check"]
  OBVIOUS
<1>6. /\ q \in Call /\ q.op = "detach" /\ q.step = "check" /\ q.rows = r.rows
      /\ q.by = r.by /\ q.of = r.of
  BY <1>1, <1>5 DEF Call, Steps
<1>7. request' = [request EXCEPT ![th] = q]
  BY <1>2, <1>5 DEF Do
<1>8. Typed'
  BY <1>1, <1>2, <1>4, <1>6, <1>7 DEF HostInv, Typed, Served
<1>9. Sound(th)'
  <2>1. request'[th] = q
    BY <1>7 DEF HostInv, Typed
  <2> QED
    BY <2>1, <1>1, <1>6 DEF Sound, HostInv, Asked
<1>10. Asked'
  BY <1>1, <1>2, <1>4, <1>7, <1>9, OthersSound, TaskHostAssumption DEF HostInv, Typed
<1>11. MarkerCovers'
  BY <1>2, <1>4 DEF HostInv, MarkerCovers
<1>12. ReleasedIsFenced' /\ ClosedWasFinished'
  BY <1>2 DEF HostInv, ReleasedIsFenced, ClosedWasFinished
<1>13. Ledger'
  BY <1>2, LedgerKept DEF HostInv
<1> QED
  BY <1>4, <1>8, <1>10, <1>11, <1>12, <1>13 DEF HostInv

LEMMA HistoricalDeleteInv ==
  ASSUME HostInv, NEW th \in Thread, HistoricalDelete(th)
  PROVE  HostInv'
<1> PICK r : r = request[th]
  OBVIOUS
<1>1. /\ r \in Call /\ r # Idle /\ r.op = "history" /\ r.step = "delete"
      /\ r.by \in Endpoint /\ r.of \in Endpoint /\ r.task \in Task
      /\ r.epoch \in Epoch
  BY DEF HistoricalDelete, Step, HostInv, Typed, Idle, Call
<1>2. /\ Remove(r.of)
      /\ detached' = detached \union {<<r.by, r.task, r.epoch>>}
      /\ writer' = None
      /\ Do(th, [r EXCEPT !.step = "cleanup"])
      /\ UNCHANGED <<marker, released, fenced, raced, mixed>>
      /\ UNCHANGED <<master, operations, log>>
  BY DEF HistoricalDelete, MasterUnchanged, To
<1>3. /\ writer = th /\ binding[r.of] = Row(r.task, r.epoch)
      /\ epoch[r.task] > r.epoch
  BY <1>1 DEF HostInv, Asked, Sound
<1>4. Over(r.of, r.task, r.epoch)
  BY <1>1, <1>3, TaskHostAssumption DEF Over, Passed, HostInv, Ledger, Epoch
<1>5. /\ binding' \in [Endpoint -> Binding \union {None}]
      /\ over' \subseteq Served
      /\ ReadyStays /\ AcceptedIsBound' /\ Removed'
      /\ \A k \in Native : RowsOf(k)' \subseteq RowsOf(k)
  BY <1>1, <1>2, <1>3, <1>4, Removal
<1>6. PICK q : q = [r EXCEPT !.step = "cleanup"]
  OBVIOUS
<1>7. /\ q \in Call /\ q.op = "history" /\ q.step = "cleanup"
      /\ q.rows = r.rows /\ q.by = r.by /\ q.of = r.of
  BY <1>1, <1>6 DEF Call, Steps
<1>8. request' = [request EXCEPT ![th] = q]
  BY <1>2, <1>6 DEF Do
<1>9. Typed'
  BY <1>1, <1>2, <1>5, <1>7, <1>8 DEF HostInv, Typed, Served
<1>10. Sound(th)'
  <2>1. request'[th] = q
    BY <1>8 DEF HostInv, Typed
  <2> QED
    BY <2>1, <1>1, <1>7 DEF Sound, HostInv, Asked
<1>11. Asked'
  BY <1>2, <1>3, <1>5, <1>8, <1>10, OthersSound DEF HostInv, Typed
<1>12. MarkerCovers'
  BY <1>2, <1>5 DEF HostInv, MarkerCovers
<1>13. ReleasedIsFenced' /\ ClosedWasFinished'
  BY <1>2 DEF HostInv, ReleasedIsFenced, ClosedWasFinished
<1>14. Ledger'
  BY <1>2, LedgerKept DEF HostInv
<1> QED
  BY <1>5, <1>9, <1>11, <1>12, <1>13, <1>14 DEF HostInv

LEMMA ReleaseDeleteInv ==
  ASSUME HostInv, NEW th \in Thread, ReleaseDelete(th)
  PROVE  HostInv'
<1> PICK r : r = request[th]
  OBVIOUS
<1>1. /\ r \in Call /\ r # Idle /\ r.op = "release" /\ r.step = "delete"
      /\ writer = None
      /\ r.by \in Endpoint /\ r.of \in Endpoint /\ r.task \in Task
      /\ r.epoch \in Epoch
  BY DEF ReleaseDelete, Step, HostInv, Typed, Idle, Call
<1>2. /\ binding[r.of] = Row(r.task, r.epoch) /\ Remove(r.of)
      /\ fenced' = fenced \union ({NativeOf[r.of]} \X ToolsOf(r.task))
      /\ released' = released \union {<<r.by, r.task, r.epoch>>}
      /\ Do(th, [r EXCEPT !.step = "unlink"])
      /\ UNCHANGED <<marker, detached, writer, raced, mixed>>
      /\ UNCHANGED <<master, operations, log>>
  BY DEF ReleaseDelete, MasterUnchanged, To
<1>3. Terminal(r.task) /\ NativeOf[r.of] = NativeOf[r.by]
  BY <1>1 DEF HostInv, Asked, Sound
<1>4. Over(r.of, r.task, r.epoch)
  BY <1>3 DEF Over, Passed
<1>5. /\ binding' \in [Endpoint -> Binding \union {None}]
      /\ over' \subseteq Served
      /\ ReadyStays /\ AcceptedIsBound' /\ Removed'
      /\ \A k \in Native : RowsOf(k)' \subseteq RowsOf(k)
  BY <1>1, <1>2, <1>4, Removal
<1>6. PICK q : q = [r EXCEPT !.step = "unlink"]
  OBVIOUS
<1>7. /\ q \in Call /\ q.op = "release" /\ q.step = "unlink"
      /\ q.rows = r.rows /\ q.by = r.by /\ q.of = r.of
  BY <1>1, <1>6 DEF Call, Steps
<1>8. request' = [request EXCEPT ![th] = q]
  BY <1>2, <1>6 DEF Do
<1>9. Typed'
  BY <1>1, <1>2, <1>5, <1>7, <1>8 DEF HostInv, Typed, Served
<1>10. Sound(th)'
  <2>1. request'[th] = q
    BY <1>8 DEF HostInv, Typed
  <2> QED
    BY <2>1, <1>1, <1>7 DEF Sound, HostInv, Asked
<1>11. Asked'
  BY <1>1, <1>2, <1>5, <1>8, <1>10, OthersSound, TaskHostAssumption DEF HostInv, Typed
<1>12. MarkerCovers'
  BY <1>2, <1>5 DEF HostInv, MarkerCovers
<1>13. ReleasedIsFenced'
  <2> SUFFICES ASSUME NEW k \in released', NEW e \in Endpoint,
                      operations[<<e, k[2]>>] # "none"
               PROVE  <<NativeOf[k[1]], <<e, k[2]>>>> \in fenced'
    BY <1>2 DEF ReleasedIsFenced
  <2>1. CASE k \in released
    BY <2>1, <1>2 DEF HostInv, ReleasedIsFenced
  <2>2. CASE k = <<r.by, r.task, r.epoch>>
    <3>1. <<e, r.task>> \in ToolsOf(r.task)
      BY <2>2, <1>1 DEF ToolsOf, Operation
    <3> QED
      BY <2>2, <3>1, <1>2, <1>3
  <2> QED
    BY <1>2, <2>1, <2>2
<1>14. Ledger' /\ ClosedWasFinished'
  BY <1>2, LedgerKept DEF HostInv, ClosedWasFinished
<1> QED
  BY <1>5, <1>9, <1>11, <1>12, <1>13, <1>14 DEF HostInv

(* The marker is removed; a row that came since is in raced. *)
LEMMA MarkerInv ==
  ASSUME HostInv, NEW th \in Thread, Done(th),
         UNCHANGED <<master, operations, log, binding, detached, released,
                     fenced, writer, over, mixed>>,
         marker' \subseteq marker, MarkerCovers'
  PROVE  HostInv'
<1>1. Ledger' /\ Forward /\ NoneAccepts
  BY LedgerKept DEF HostInv
<1>2. ReadyStays
  BY <1>1, ReadyKept DEF HostInv
<1>3. Asked'
  BY <1>2, DoneSound, OthersSound DEF HostInv, Done, Do, Typed
<1>4. Typed'
  BY DEF HostInv, Typed, Done, Do
<1>5. Removed'
  BY <1>1, RemovedStays DEF HostInv
<1>6. AcceptedIsBound'
  BY <1>1, AcceptedKept
<1>7. ReleasedIsFenced' /\ ClosedWasFinished'
  BY DEF HostInv, ReleasedIsFenced, ClosedWasFinished
<1> QED
  BY <1>1, <1>3, <1>4, <1>5, <1>6, <1>7 DEF HostInv

LEMMA UnlinkInv ==
  ASSUME HostInv, NEW th \in Thread, Unlink(th)
  PROVE  HostInv'
<1>1. /\ Done(th) /\ marker' = marker \ {NativeOf[request[th].by]}
      /\ UNCHANGED <<master, operations, log, binding, detached, released,
                     fenced, writer, over, mixed>>
  BY DEF Unlink, MasterUnchanged
<1>2. request[th].rows = {}
  BY DEF Unlink, HostInv, Asked, Sound
<1>3. raced' = IF RowsOf(NativeOf[request[th].by]) = {} THEN raced
               ELSE raced \union {NativeOf[request[th].by]}
  BY <1>2 DEF Unlink
<1>4. MarkerCovers'
  BY <1>1, <1>3 DEF HostInv, MarkerCovers, RowsOf
<1> QED
  BY <1>1, <1>4, MarkerInv

LEMMA HistoricalCleanupInv ==
  ASSUME HostInv, NEW th \in Thread, HistoricalCleanup(th)
  PROVE  HostInv'
<1>1. /\ Done(th)
      /\ UNCHANGED <<master, operations, log, binding, detached, released,
                     fenced, writer, over, mixed, raced>>
      /\ marker' = IF RowsOf(NativeOf[request[th].by]) = {}
                   THEN marker \ {NativeOf[request[th].by]} ELSE marker
  BY DEF HistoricalCleanup, MasterUnchanged, past
<1>2. MarkerCovers'
  BY <1>1 DEF HostInv, MarkerCovers, RowsOf
<1> QED
  BY <1>1, <1>2, MarkerInv

-----------------------------------------------------------------------------
(* Resume and accept.                                                       *)

(* The ledger's answer moves the task to the conversation that goes on. *)
LEMMA ResumeCallInv ==
  ASSUME HostInv, NEW th \in Thread, ResumeCall(th)
  PROVE  HostInv'
<1> PICK r : r = request[th]
  OBVIOUS
<1> PICK n : n = epoch'[r.task]
  OBVIOUS
<1>1. /\ r \in Call /\ r # Idle /\ r.op = "resume" /\ r.step = "call"
      /\ r.by \in Endpoint /\ r.task \in Task
  BY DEF ResumeCall, Step, HostInv, Typed, Idle, Call
<1>2. /\ ~ Pending(r.task)
      /\ \/ Resumed(r.task, r.by)
         \/ executor[r.task] = r.by /\ UNCHANGED <<executor, epoch>>
      /\ Do(th, [r EXCEPT !.step = "bind", !.epoch = n])
      /\ UNCHANGED <<status, handoff, retired, operations, log, host, past>>
  BY DEF ResumeCall, Resumes, Resumed, ResumeAllowed, master
<1>3. /\ n \in 0 .. MaxEpoch /\ epoch[r.task] <= n
      /\ n = epoch[r.task] => executor[r.task] = r.by
      /\ executor' = [executor EXCEPT ![r.task] = r.by]
      /\ epoch' = [epoch EXCEPT ![r.task] = n]
  BY <1>1, <1>2, TaskHostAssumption DEF HostInv, Ledger, Resumed
<1>4. Ledger'
  BY <1>1, <1>2, <1>3, TaskHostAssumption DEF HostInv, Ledger, Pending, Actor
<1>5. Forward
  BY <1>1, <1>2, <1>3, TaskHostAssumption DEF HostInv, Ledger, Forward
<1>6. NoneAccepts
  BY <1>1, <1>2, <1>3 DEF HostInv, Ledger, NoneAccepts, Pending
<1>7. PICK q : q = [r EXCEPT !.step = "bind", !.epoch = n]
  OBVIOUS
<1>8. /\ q \in Call /\ q.op = "resume" /\ q.step = "bind" /\ q.rows = r.rows
      /\ q.by = r.by /\ q.of = r.of /\ q.task = r.task /\ q.epoch = n
  <2>1. r \in Call /\ n \in Epoch /\ "bind" \in Steps
    BY <1>1, <1>3, TaskHostAssumption DEF Epoch, Steps
  <2>2. q = [op |-> r.op, by |-> r.by, task |-> r.task, epoch |-> n,
             of |-> r.of, step |-> "bind", rows |-> r.rows]
    BY <2>1, <1>7 DEF Call
  <2> QED
    BY <2>1, <2>2, <1>1 DEF Call
<1>9. request' = [request EXCEPT ![th] = q]
  BY <1>2, <1>7 DEF Do
<1>10. Typed'
  BY <1>2, <1>8, <1>9 DEF HostInv, Typed, host, past
<1>11. ReadyStays
  BY <1>2, <1>4, <1>5, ReadyKept DEF HostInv, host, past
<1>12. Asked'
  <2> SUFFICES ASSUME NEW u \in Thread PROVE Sound(u)'
    BY DEF Asked
  <2>1. CASE u = th
    <3>1. request'[th] = q /\ epoch'[r.task] = n
      BY <1>1, <1>2, <1>9 DEF HostInv, Typed, Ledger
    <3>2. n <= n
      BY <1>3
    <3>3. r.rows = {} /\ NativeOf[r.of] = NativeOf[r.by]
      BY <1>1 DEF Sound, HostInv, Asked
    <3> QED
      BY <2>1, <3>1, <3>2, <3>3, <1>8 DEF Sound
  <2>2. CASE u # th
    <3>1. request'[u] = request[u]
      BY <2>2, <1>9 DEF HostInv, Typed
    <3> QED
      BY <3>1, <1>2, <1>4, <1>5, <1>11, SoundStays DEF HostInv, Asked, host
  <2> QED
    BY <2>1, <2>2
<1>13. Removed'
  BY <1>2, <1>4, <1>5, RemovedStays DEF HostInv, past
<1>14. AcceptedIsBound'
  BY <1>2, <1>4, <1>5, <1>6, AcceptedKept DEF host, past
<1>15. MarkerCovers' /\ ReleasedIsFenced' /\ ClosedWasFinished'
  BY <1>2 DEF HostInv, MarkerCovers, RowsOf, ReleasedIsFenced,
     ClosedWasFinished, host, past
<1> QED
  BY <1>4, <1>10, <1>12, <1>13, <1>14, <1>15 DEF HostInv

(* Rows that change keep what the ledger needs when they keep their task    *)
(* and their epoch, have passed, or are mixed. *)
Renewed(a) ==
  binding[a] # None =>
    \/ binding'[a] = binding[a]
    \/ a \in mixed'
    \/ binding[a].epoch <= epoch[binding[a].task]
    \/ /\ binding'[a] # None
       /\ binding'[a].task = binding[a].task
       /\ binding[a].epoch < binding'[a].epoch
       /\ binding'[a].epoch <= epoch[binding[a].task] + 1

LEMMA RowsRenewed ==
  ASSUME HostInv, UNCHANGED master, mixed \subseteq mixed',
         binding' \in [Endpoint -> Binding \union {None}],
         \A a \in Endpoint : Renewed(a)
  PROVE  ReadyStays /\ AcceptedIsBound'
<1>1. \A t \in Task, n \in Epoch :
        /\ Row(t, n) \in Binding /\ Row(t, n) # None
        /\ Row(t, n).task = t /\ Row(t, n).epoch = n
  BY TaskHostAssumption DEF Row, Binding
<1>2. ReadyStays
  <2> SUFFICES ASSUME NEW a \in Endpoint, NEW t \in Task, NEW n \in Epoch,
                      Ready(a, t, n)
               PROVE  Ready(a, t, n)'
    BY DEF ReadyStays
  <2>1. CASE binding[a] = Row(t, n)
    <3>1. Renewed(a)
      OBVIOUS
    <3>2. CASE binding'[a] = binding[a] \/ a \in mixed'
      BY <2>1, <3>2 DEF Ready, Row
    <3>3. CASE n <= epoch[t]
      BY <3>3, TaskHostAssumption DEF Ready, Passed, master, HostInv, Ledger, Epoch
    <3>4. CASE \E m \in Epoch : n < m /\ m <= epoch[t] + 1
      <4>1. n <= epoch[t]
        BY <3>4, TaskHostAssumption DEF HostInv, Ledger, Epoch
      <4> QED
        BY <4>1, <3>3
    <3>5. binding'[a] # None => binding'[a].epoch \in Epoch
      BY DEF Binding
    <3> QED
      BY <1>1, <2>1, <3>1, <3>2, <3>3, <3>4, <3>5 DEF Renewed
  <2>2. CASE a \in mixed \/ Passed(t, n)
    BY <2>2 DEF Ready, Passed, Terminal, master
  <2> QED
    BY <2>1, <2>2 DEF Ready
<1>3. AcceptedIsBound'
  <2> SUFFICES ASSUME NEW t \in Task, NEW a \in Endpoint,
                      handoff[t] = [state |-> "accepted", target |-> a],
                      ~ Terminal(t), a \notin mixed'
               PROVE  binding'[a] = Row(t, epoch[t] + 1)
    BY DEF AcceptedIsBound, master, Terminal, Row
  <2>1. binding[a] = Row(t, epoch[t] + 1) /\ epoch[t] + 1 \in Epoch
    BY TaskHostAssumption DEF HostInv, AcceptedIsBound, Ledger, Epoch
  <2>2. epoch[t] \in Nat
    BY DEF HostInv, Ledger
  <2>3. ~ (binding[a].epoch <= epoch[binding[a].task])
    BY <1>1, <2>1, <2>2
  <2>4. binding'[a] # None => binding'[a].epoch \in Nat
    BY TaskHostAssumption DEF Binding, Epoch
  <2> QED
    BY <1>1, <2>1, <2>2, <2>3, <2>4 DEF Renewed
<1> QED
  BY <1>2, <1>3

LEMMA ResumeBindInv ==
  ASSUME HostInv, NEW th \in Thread, ResumeBind(th)
  PROVE  HostInv'
<1> PICK r : r = request[th]
  OBVIOUS
<1> DEFINE same(e) == /\ NativeOf[e] = NativeOf[r.by]
                      /\ binding[e] # None /\ binding[e].task = r.task
<1>1. /\ r \in Call /\ r # Idle /\ r.op = "resume" /\ r.step = "bind"
      /\ r.by \in Endpoint /\ r.task \in Task /\ r.epoch \in Epoch
      /\ writer = None
  BY DEF ResumeBind, Step, HostInv, Typed, Idle, Call
<1>2. /\ ~ OtherTask(r.by, r.task)
      /\ marker' = marker \union {NativeOf[r.by]}
      /\ Done(th)
      /\ UNCHANGED <<detached, released, fenced, writer, over, raced>>
      /\ UNCHANGED <<master, operations, log>>
  BY DEF ResumeBind, MasterUnchanged
<1>3. r.epoch <= epoch[r.task]
  BY <1>1 DEF HostInv, Asked, Sound
<1>4. /\ binding' \in [Endpoint -> Binding \union {None}]
      /\ mixed \subseteq mixed'
      /\ \A a \in Endpoint : Renewed(a)
      /\ \A a \in Endpoint \ {r.by} : binding'[a] # None => binding[a] # None
  <2>1. CASE /\ binding' = [e \in Endpoint |->
                              IF e = r.by THEN Row(r.task, r.epoch)
                              ELSE IF same(e) THEN None ELSE binding[e]]
             /\ mixed' = mixed \union
                  {e \in Endpoint : same(e) /\ binding[e].epoch > r.epoch}
    <3>1. Row(r.task, r.epoch) \in Binding
      BY <1>1 DEF Row, Binding
    <3>2. binding' \in [Endpoint -> Binding \union {None}]
      BY <2>1, <3>1 DEF HostInv, Typed
    <3>3. ASSUME NEW a \in Endpoint PROVE Renewed(a)
      <4> SUFFICES ASSUME binding[a] # None, a = r.by \/ same(a)
                   PROVE  Renewed(a)
        BY <2>1 DEF Renewed
      <4>1. same(a)
        BY <1>1, <1>2 DEF OtherTask
      <4>2. binding[a].epoch \in Epoch
        BY DEF HostInv, Typed, Binding
      <4>3. CASE binding[a].epoch > r.epoch
        BY <2>1, <4>1, <4>3 DEF Renewed
      <4>4. CASE ~ (binding[a].epoch > r.epoch)
        <5>1. binding[a].epoch <= epoch[binding[a].task]
          BY <1>1, <1>3, <4>1, <4>2, <4>4, TaskHostAssumption DEF HostInv, Ledger, Epoch
        <5> QED
          BY <5>1 DEF Renewed
      <4> QED
        BY <4>3, <4>4
    <3>4. mixed \subseteq mixed'
      BY <2>1
    <3> QED
      BY <2>1, <3>2, <3>3, <3>4
  <2>2. CASE UNCHANGED <<binding, mixed>>
    BY <2>2 DEF HostInv, Typed, Renewed
  <2> QED
    BY <2>1, <2>2 DEF ResumeBind
<1>6. ReadyStays /\ AcceptedIsBound'
  BY <1>2, <1>4, RowsRenewed
<1>7. Asked'
  BY <1>1, <1>2, <1>6, DoneSound, OthersSound, TaskHostAssumption DEF HostInv, Done, Do, Typed
<1>8. Typed'
  <2>1. NativeOf[r.by] \in Native
    BY <1>1 DEF Native
  <2> QED
    BY <1>2, <1>4, <2>1 DEF HostInv, Typed, Done, Do
<1>9. Ledger' /\ Forward
  BY <1>2, LedgerKept DEF HostInv
<1>10. Removed'
  BY <1>2, <1>9, RemovedStays DEF HostInv
<1>11. MarkerCovers'
  BY <1>2, <1>4 DEF HostInv, MarkerCovers, RowsOf
<1>12. ReleasedIsFenced' /\ ClosedWasFinished'
  BY <1>2 DEF HostInv, ReleasedIsFenced, ClosedWasFinished
<1> QED
  BY <1>6, <1>7, <1>8, <1>9, <1>10, <1>11, <1>12 DEF HostInv

LEMMA AcceptMarkInv ==
  ASSUME HostInv, NEW th \in Thread, AcceptMark(th)
  PROVE  HostInv'
<1> PICK r : r = request[th]
  OBVIOUS
<1>1. /\ r \in Call /\ r # Idle /\ r.op = "accept" /\ r.step = "mark"
      /\ r.by \in Endpoint /\ r.task \in Task /\ r.epoch \in Epoch
      /\ writer = None
  BY DEF AcceptMark, Step, HostInv, Typed, Idle, Call
<1>2. /\ marker' = marker \union {NativeOf[r.by]}
      /\ UNCHANGED <<detached, released, fenced, writer, over, raced>>
      /\ UNCHANGED <<master, operations, log>>
  BY DEF AcceptMark, MasterUnchanged
<1>3. /\ r.epoch <= epoch[r.task] + 1 /\ r.rows = {}
      /\ NativeOf[r.of] = NativeOf[r.by]
  BY <1>1 DEF HostInv, Asked, Sound
<1>4. NativeOf[r.by] \in Native
  BY <1>1 DEF Native
<1>5. Ledger' /\ Forward /\ NoneAccepts
  BY <1>2, LedgerKept DEF HostInv
<1>6. Removed' /\ ReleasedIsFenced' /\ ClosedWasFinished'
  BY <1>2, <1>5, RemovedStays DEF HostInv, ReleasedIsFenced, ClosedWasFinished
<1>7. CASE /\ binding' = [binding EXCEPT ![r.by] =
                            IF @ = None THEN Row(r.task, r.epoch)
                            ELSE [@ EXCEPT !.epoch = r.epoch]]
           /\ mixed' = IF \/ binding[r.by] = None
                          \/ /\ binding[r.by].task = r.task
                             /\ binding[r.by].epoch <= r.epoch
                       THEN mixed ELSE mixed \union {r.by}
           /\ Do(th, [r EXCEPT !.step = "call"])
  <2>1. /\ \A a \in Endpoint \ {r.by} : binding'[a] = binding[a]
        /\ binding[r.by] = None => binding'[r.by] = Row(r.task, r.epoch)
        /\ binding[r.by] # None =>
             binding'[r.by] = [binding[r.by] EXCEPT !.epoch = r.epoch]
    BY <1>1, <1>7 DEF HostInv, Typed
  <2>2. /\ binding[r.by] # None =>
             /\ binding'[r.by] \in Binding /\ binding[r.by] \in Binding
             /\ binding'[r.by].task = binding[r.by].task
             /\ binding'[r.by].epoch = r.epoch
             /\ binding'[r.by] = Row(binding[r.by].task, r.epoch)
        /\ binding[r.by] = None => binding'[r.by] \in Binding
    BY <1>1, <2>1 DEF HostInv, Typed, Binding, Row
  <2>3. binding' \in [Endpoint -> Binding \union {None}]
    <3>1. binding' = [a \in Endpoint |-> binding'[a]]
      BY <1>7 DEF HostInv, Typed
    <3>2. \A a \in Endpoint : binding'[a] \in Binding \union {None}
      BY <2>1, <2>2 DEF HostInv, Typed
    <3> QED
      BY <3>1, <3>2
  <2>4. ASSUME NEW a \in Endpoint PROVE Renewed(a)
    <3> SUFFICES ASSUME a = r.by, binding[a] # None, a \notin mixed'
                 PROVE  Renewed(a)
      BY <2>1 DEF Renewed
    <3>1. binding[a].task = r.task /\ binding[a].epoch <= r.epoch
      BY <1>7
    <3>2. binding[a] = Row(r.task, binding[a].epoch) /\ binding[a].epoch \in Epoch
      BY <2>2, <3>1 DEF Binding, Row
    <3>3. CASE binding[a].epoch = r.epoch
      BY <2>2, <3>1, <3>2, <3>3 DEF Renewed
    <3>4. CASE binding[a].epoch < r.epoch
      <4>1. binding'[a] # None
        BY <2>2, TaskHostAssumption DEF Binding
      <4> QED
        BY <1>3, <2>2, <3>1, <3>4, <4>1 DEF Renewed
    <3> QED
      BY <1>1, <3>1, <3>2, <3>3, <3>4, TaskHostAssumption DEF Epoch
  <2>5. mixed \subseteq mixed'
    BY <1>7
  <2>6. ReadyStays /\ AcceptedIsBound'
    BY <1>2, <2>3, <2>4, <2>5, RowsRenewed
  <2>7. PICK q : q = [r EXCEPT !.step = "call"]
    OBVIOUS
  <2>8. /\ q \in Call /\ q.op = "accept" /\ q.step = "call" /\ q.rows = r.rows
        /\ q.by = r.by /\ q.of = r.of /\ q.task = r.task /\ q.epoch = r.epoch
    BY <1>1, <2>7 DEF Call, Steps
  <2>9. request' = [request EXCEPT ![th] = q]
    BY <1>7, <2>7 DEF Do
  <2>10. Ready(r.by, r.task, r.epoch)'
    <3>1. r.by \in mixed' \/ binding'[r.by] = Row(r.task, r.epoch)
      BY <1>7, <2>1, <2>2
    <3> QED
      BY <3>1 DEF Ready, Row
  <2>11. Sound(th)'
    <3>1. request'[th] = q /\ epoch' = epoch
      BY <1>2, <2>9 DEF HostInv, Typed, master
    <3> QED
      BY <1>3, <2>8, <2>10, <3>1 DEF Sound, Ready, Passed, Terminal, Row
  <2>12. Asked'
    BY <1>1, <1>2, <2>6, <2>9, <2>11, OthersSound, TaskHostAssumption DEF HostInv, Typed
  <2>13. Typed'
    BY <1>2, <1>4, <2>3, <2>8, <2>9 DEF HostInv, Typed
  <2>14. MarkerCovers'
    BY <1>2, <2>1 DEF HostInv, MarkerCovers, RowsOf
  <2> QED
    BY <1>5, <1>6, <2>6, <2>12, <2>13, <2>14 DEF HostInv
<1>8. CASE Done(th) /\ UNCHANGED <<binding, mixed>>
  <2>1. ReadyStays
    BY <1>5, <1>8, ReadyKept DEF HostInv
  <2>2. Asked'
    BY <1>1, <1>2, <1>8, <2>1, DoneSound, OthersSound, TaskHostAssumption DEF HostInv, Done, Do, Typed
  <2>3. Typed'
    BY <1>2, <1>4, <1>8 DEF HostInv, Typed, Done, Do
  <2>4. AcceptedIsBound'
    BY <1>5, <1>8, AcceptedKept
  <2>5. MarkerCovers'
    BY <1>2, <1>8 DEF HostInv, MarkerCovers, RowsOf
  <2> QED
    BY <1>5, <1>6, <2>2, <2>3, <2>4, <2>5 DEF HostInv
<1> QED
  BY <1>7, <1>8 DEF AcceptMark, To

(* The master is asked when the row is there. *)
LEMMA AcceptCallInv ==
  ASSUME HostInv, NEW th \in Thread, AcceptCall(th)
  PROVE  HostInv'
<1> PICK r : r = request[th]
  OBVIOUS
<1>1. /\ r \in Call /\ r # Idle /\ r.op = "accept" /\ r.step = "call"
      /\ r.by \in Endpoint /\ r.task \in Task /\ r.epoch \in Epoch
  BY DEF AcceptCall, Step, HostInv, Typed, Idle, Call
<1>2. /\ epoch[r.task] = r.epoch - 1
      /\ status[r.task] = "accepted"
      /\ Pending(r.task)
      /\ handoff' = [handoff EXCEPT ![r.task] = [state |-> "accepted", target |-> r.by]]
      /\ UNCHANGED <<status, executor, epoch, assigned, retired>>
      /\ Done(th)
      /\ UNCHANGED <<operations, log, host, past>>
  BY DEF AcceptCall, Accepts, HandoffAllowed, SetHandoff, Pending
<1>3. Ready(r.by, r.task, r.epoch)
  BY <1>1 DEF HostInv, Asked, Sound
<1>4. Ledger' /\ Forward
  BY <1>1, <1>2, TaskHostAssumption DEF HostInv, Ledger, Forward, Pending, Actor, Stage
<1>5. ReadyStays
  BY <1>2, <1>4, ReadyKept DEF HostInv, host, past
<1>6. binding[r.by] = Row(r.task, epoch[r.task] + 1) \/ r.by \in mixed
  <2>1. r.epoch = epoch[r.task] + 1
    BY <1>1, <1>2, TaskHostAssumption DEF HostInv, Ledger, Epoch
  <2>2. ~ Passed(r.task, r.epoch)
    BY <1>1, <1>2, TaskHostAssumption DEF Passed, Terminal, HostInv, Ledger, Epoch
  <2> QED
    BY <1>3, <2>1, <2>2 DEF Ready
<1>7. AcceptedIsBound'
  <2> SUFFICES ASSUME NEW t \in Task, NEW a \in Endpoint,
                      handoff'[t] = [state |-> "accepted", target |-> a],
                      ~ Terminal(t)
               PROVE  binding[a] = Row(t, epoch[t] + 1) \/ a \in mixed
    BY <1>2 DEF AcceptedIsBound, Terminal, Row, host, past
  <2>1. CASE t = r.task
    BY <1>1, <1>2, <1>6, <2>1 DEF HostInv, Ledger
  <2>2. CASE t # r.task
    BY <1>2, <2>2 DEF HostInv, AcceptedIsBound, Ledger
  <2> QED
    BY <2>1, <2>2
<1>8. Asked'
  <2> SUFFICES ASSUME NEW u \in Thread, u # th PROVE Sound(u)'
    BY <1>2, DoneSound DEF Asked, HostInv
  <2>1. request'[u] = request[u]
    BY <1>2 DEF Done, Do, HostInv, Typed
  <2> QED
    BY <2>1, <1>2, <1>4, <1>5, SoundStays DEF HostInv, Asked, host
<1>9. Typed'
  BY <1>2 DEF HostInv, Typed, host, past, Done, Do
<1>10. Removed'
  BY <1>2, <1>4, RemovedStays DEF HostInv, past
<1>11. MarkerCovers' /\ ReleasedIsFenced' /\ ClosedWasFinished'
  BY <1>2 DEF HostInv, MarkerCovers, RowsOf, ReleasedIsFenced,
     ClosedWasFinished, host, past
<1> QED
  BY <1>4, <1>7, <1>8, <1>9, <1>10, <1>11 DEF HostInv

-----------------------------------------------------------------------------
(* The invariant.                                                           *)

LEMMA InitInv == Init => HostInv
<1> SUFFICES ASSUME Init PROVE HostInv
  OBVIOUS
<1>1. /\ executor \in [Task -> Actor]
      /\ \A e \in limit.bound : e \in Endpoint /\ \E t \in Task : executor[t] = e
  BY CasesAssumption DEF Init
<1>2. binding \in [Endpoint -> Binding \union {None}]
  <2>1. ASSUME NEW e \in Endpoint, e \in limit.bound
        PROVE  Row(CHOOSE t \in Task : executor[t] = e, 0) \in Binding
    <3>1. (CHOOSE t \in Task : executor[t] = e) \in Task
      BY <1>1, <2>1
    <3>2. 0 \in Epoch
      BY TaskHostAssumption DEF Epoch
    <3> QED
      BY <3>1, <3>2 DEF Row, Binding
  <2>2. binding = [e \in Endpoint |->
                     IF e \in limit.bound
                     THEN Row(CHOOSE t \in Task : executor[t] = e, 0) ELSE None]
    BY DEF Init
  <2> QED
    BY <2>1, <2>2
<1>3. Ledger
  BY <1>1, TaskHostAssumption DEF Init, MasterInit, Ledger, State, Stage, Pending
<1>4. Typed
  <2>1. marker \subseteq Native
    BY <1>1 DEF Init, Native
  <2>2. <<>> \in Seq({"ran", "failed", "wrote"})
    OBVIOUS
  <2> QED
    BY <1>2, <2>1, <2>2 DEF Init, Typed
<1>5. Asked
  BY DEF Init, Asked, Sound
<1>6. Removed /\ AcceptedIsBound /\ ReleasedIsFenced
  BY DEF Init, MasterInit, Removed, AcceptedIsBound, ReleasedIsFenced
<1>7. MarkerCovers
  BY DEF Init, MarkerCovers, RowsOf
<1>8. ClosedWasFinished
  BY DEF Init, ClosedWasFinished
<1> QED
  BY <1>3, <1>4, <1>5, <1>6, <1>7, <1>8 DEF HostInv

LEMMA RequestInv ==
  ASSUME HostInv, NEW th \in Thread, Requests(th)
  PROVE  HostInv'
BY ResumeBeginInv, AcceptBeginInv, ReconcileBeginInv, DetachReplayInv,
   DetachBeginInv, DetachHistoricalInv, ReleaseReplayInv, ReleaseBeginInv,
   ResumeCallInv, ResumeBindInv, AcceptMarkInv, AcceptCallInv,
   DetachDeleteInv, DetachCheckInv, HistoricalDeleteInv,
   HistoricalCleanupInv, ReleaseDeleteInv, UnlinkInv, ReconcileCallInv,
   FailInv DEF Requests

LEMMA NextInv == HostInv /\ [Next]_vars => HostInv'
<1> SUFFICES ASSUME HostInv, [Next]_vars PROVE HostInv'
  OBVIOUS
<1>1. CASE \E th \in Thread : Requests(th)
  BY <1>1, RequestInv
<1>2. CASE LedgerStep
  BY <1>2, MasterInv
<1>3. CASE \E o \in Operation, kind \in {"ran", "failed", "wrote"} : Complete(o, kind)
  BY <1>3, CompleteInv
<1>4. CASE UNCHANGED vars
  <2>1. UNCHANGED <<master, operations, log, host, request, past>>
    BY <1>4 DEF vars
  <2>2. Ledger' /\ Forward /\ NoneAccepts
    BY <2>1, LedgerKept DEF HostInv
  <2>3. ReadyStays
    BY <2>1, <2>2, ReadyKept DEF HostInv, host, past
  <2>4. Asked'
    <3> SUFFICES ASSUME NEW u \in Thread PROVE Sound(u)'
      BY DEF Asked
    <3> QED
      BY <2>1, <2>2, <2>3, SoundStays DEF HostInv, Asked, host
  <2>5. Typed'
    BY <2>1 DEF HostInv, Typed, host, past
  <2>6. Removed'
    BY <2>1, <2>2, RemovedStays DEF HostInv, past
  <2>7. AcceptedIsBound'
    BY <2>1, <2>2, AcceptedKept DEF host, past
  <2>8. MarkerCovers' /\ ReleasedIsFenced' /\ ClosedWasFinished'
    BY <2>1 DEF HostInv, MarkerCovers, RowsOf, ReleasedIsFenced,
       ClosedWasFinished, host, past
  <2> QED
    BY <2>2, <2>4, <2>5, <2>6, <2>7, <2>8 DEF HostInv
<1> QED
  BY <1>1, <1>2, <1>3, <1>4 DEF Next, LedgerStep

(* The inductive invariant holds of every behaviour.                        *)
THEOREM Invariant == Spec => []HostInv
<1>1. Init => HostInv
  BY InitInv
<1>2. HostInv /\ [Next]_vars => HostInv'
  BY NextInv
<1> QED
  BY <1>1, <1>2, PTL DEF Spec

(* The ledger, the rows and the requests keep their types (task_host.py).   *)
THEOREM TypeCorrect == Spec => []TypeOK
<1>1. HostInv => TypeOK
  <2> SUFFICES ASSUME HostInv PROVE TypeOK
    OBVIOUS
  <2>1. \A th \in Thread : request[th] # Idle => request[th].task \in Task
    BY DEF HostInv, Typed, Call
  <2>2. \A e \in Endpoint : binding[e] # None =>
          binding[e].task \in Task /\ binding[e].epoch \in Epoch
    BY DEF HostInv, Typed, Binding
  <2> QED
    BY <2>1, <2>2 DEF HostInv, Ledger, Typed, TypeOK, State
<1> QED
  BY <1>1, Invariant, PTL

(* What a detach or a release removes was over and never comes back         *)
(* (task_detach, task_release_cancelled).                                   *)
THEOREM DetachedStaysOver == Spec => []DetachedWasOver
<1>1. HostInv => DetachedWasOver
  BY TaskHostAssumption DEF HostInv, Removed, Over, Passed, DetachedWasOver
<1> QED
  BY <1>1, Invariant, PTL

(* The target of an accepted hand-off is bound at the epoch the commit will *)
(* have (task_accept_handoff).                                              *)
THEOREM AcceptedStaysBound == Spec => []AcceptedIsBound
<1>1. HostInv => AcceptedIsBound
  BY DEF HostInv
<1> QED
  BY <1>1, Invariant, PTL

(* A conversation with a row has its marker, but for the late removals      *)
(* (binding_marker).                                                        *)
THEOREM MarkersCover == Spec => []MarkerCovers
<1>1. HostInv => MarkerCovers
  BY DEF HostInv
<1> QED
  BY <1>1, Invariant, PTL

(* Every tool id of a released assignment is refused                        *)
(* (task_release_cancelled).                                                *)
THEOREM ReleasedStaysFenced == Spec => []ReleasedIsFenced
<1>1. HostInv => ReleasedIsFenced
  BY DEF HostInv
<1> QED
  BY <1>1, Invariant, PTL

(* Only what the transcript shows to have ended is closed                   *)
(* (task_reconcile_operation).                                              *)
THEOREM ClosedIsFinished == Spec => []ClosedWasFinished
<1>1. HostInv => ClosedWasFinished
  BY DEF HostInv
<1> QED
  BY <1>1, Invariant, PTL

(* A row passes to another task only by way of none ("another current task  *)
(* binding must not be replaced").                                          *)
LEMMA RowsKeepTask ==
  ASSUME HostInv, [Next]_vars, NEW e \in Endpoint,
         binding[e] # None, binding'[e] # None
  PROVE  binding'[e].task = binding[e].task
<1>1. CASE binding' = binding
  BY <1>1
<1>2. ASSUME NEW th \in Thread, ResumeBind(th)
      PROVE  binding'[e].task = binding[e].task
  <2> SUFFICES ASSUME binding' # binding
               PROVE  binding'[e].task = binding[e].task
    BY <1>1
  <2>1. /\ ~ OtherTask(request[th].by, request[th].task)
        /\ e = request[th].by => binding'[e] = Row(request[th].task, request[th].epoch)
        /\ e # request[th].by => binding'[e] = binding[e]
    BY <1>2 DEF ResumeBind
  <2> QED
    BY <2>1 DEF OtherTask, Row
<1>3. ASSUME NEW th \in Thread, AcceptMark(th)
      PROVE  binding'[e].task = binding[e].task
  <2>1. \/ binding'[e] = binding[e]
        \/ binding'[e] = [binding[e] EXCEPT !.epoch = request[th].epoch]
    BY <1>3 DEF AcceptMark, HostInv, Typed
  <2>2. binding[e] \in Binding
    BY DEF HostInv, Typed
  <2> QED
    BY <2>1, <2>2 DEF Binding
<1>4. ASSUME NEW f \in Endpoint, Remove(f)
      PROVE  binding'[e].task = binding[e].task
  BY <1>4 DEF Remove, HostInv, Typed
<1>5. ASSUME NEW th \in Thread, Requests(th)
      PROVE  \/ binding' = binding
             \/ ResumeBind(th) \/ AcceptMark(th)
             \/ Remove(request[th].by) /\ request[th].by \in Endpoint
             \/ Remove(request[th].of) /\ request[th].of \in Endpoint
  <2>1. request[th] # Idle =>
          request[th].by \in Endpoint /\ request[th].of \in Endpoint
    BY DEF HostInv, Typed, Call
  <2>2. ASSUME NEW op \in Ops, NEW step, Step(th, op, step)
        PROVE  request[th] # Idle
    <3>1. request[th].op # "idle"
      BY <2>2 DEF Step, Ops
    <3>2. Idle.op = "idle"
      BY DEF Idle
    <3> QED
      BY <3>1, <3>2
  <2>3. CASE DetachDelete(th) \/ HistoricalDelete(th) \/ ReleaseDelete(th)
    BY <2>1, <2>2, <2>3 DEF DetachDelete, HistoricalDelete, ReleaseDelete, Ops, Steps
  <2>4. CASE \/ ResumeCall(th) \/ AcceptCall(th) \/ DetachCheck(th)
             \/ HistoricalCleanup(th) \/ Unlink(th) \/ ReconcileCall(th) \/ Fail(th)
    BY <2>4 DEF ResumeCall, AcceptCall, DetachCheck, HistoricalCleanup,
       Unlink, ReconcileCall, Fail, host
  <2>5. CASE \E a \in Endpoint, t \in Task :
               \/ ResumeBegin(th, a, t) \/ AcceptBegin(th, a, t)
               \/ ReconcileBegin(th, a, t)
               \/ \E n \in Epoch :
                    \/ DetachReplay(th, a, t, n) \/ DetachBegin(th, a, t, n)
                    \/ ReleaseReplay(th, a, t, n)
                    \/ \E f \in Endpoint : \/ DetachHistorical(th, a, f, t, n)
                                           \/ ReleaseBegin(th, a, f, t, n)
    <3>1. ASSUME NEW a \in Endpoint, NEW t \in Task,
                 \/ ResumeBegin(th, a, t) \/ AcceptBegin(th, a, t)
                 \/ ReconcileBegin(th, a, t)
          PROVE  binding' = binding
      BY <3>1 DEF ResumeBegin, AcceptBegin, ReconcileBegin, host
    <3>2. ASSUME NEW a \in Endpoint, NEW t \in Task, NEW n \in Epoch,
                 \/ DetachReplay(th, a, t, n) \/ DetachBegin(th, a, t, n)
                 \/ ReleaseReplay(th, a, t, n)
          PROVE  binding' = binding
      BY <3>2 DEF DetachReplay, DetachBegin, ReleaseReplay, host
    <3>3. ASSUME NEW a \in Endpoint, NEW t \in Task, NEW n \in Epoch,
                 NEW f \in Endpoint,
                 \/ DetachHistorical(th, a, f, t, n) \/ ReleaseBegin(th, a, f, t, n)
          PROVE  binding' = binding
      BY <3>3 DEF DetachHistorical, ReleaseBegin, host
    <3> QED
      BY <2>5, <3>1, <3>2, <3>3
  <2>6. CASE ResumeBind(th) \/ AcceptMark(th)
    BY <2>6
  <2> QED
    BY <1>5, <2>3, <2>4, <2>5, <2>6 DEF Requests
<1>6. CASE \E th \in Thread : Requests(th)
  BY <1>1, <1>2, <1>3, <1>4, <1>5, <1>6
<1>7. CASE ~ \E th \in Thread : Requests(th)
  <2>1. binding' = binding
    BY <1>7 DEF Next, HostUnchanged, Release, AcceptElsewhere, Commit,
       Freeze, Unfreeze, Cancel, Report, Prepare, Continue, Retire, Complete, host, vars
  <2> QED
    BY <2>1
<1> QED
  BY <1>6, <1>7

THEOREM BindingsStay == Spec => BindingNotReplaced
<1>1. HostInv /\ [Next]_vars =>
        [\A e \in Endpoint : binding[e] # None /\ binding'[e] # None =>
           binding'[e].task = binding[e].task]_binding
  BY RowsKeepTask
<1> QED
  BY <1>1, Invariant, PTL DEF Spec, BindingNotReplaced

(* With TaskProofs!LedgerMeetsHosts: the ledger these requests meet and     *)
(* change is the one of TaskAuthority.                                      *)
THEOREM LedgerIsServed == Spec => LedgerServed
<1>1. HostInv /\ [Next]_vars => [MasterStep]_<<master, operations>>
  <2> SUFFICES ASSUME HostInv, Next, ~ UNCHANGED <<master, operations>>
               PROVE  MasterStep
    BY DEF vars
  <2>1. CASE LedgerStep
    BY <2>1, TaskHostAssumption DEF LedgerStep, Release, AcceptElsewhere, Commit, Freeze,
       Unfreeze, Cancel, Report, Prepare, Continue, Retire, MasterStep, Actor
  <2>2. ASSUME NEW th \in Thread, ResumeCall(th) \/ AcceptCall(th) \/ ReconcileCall(th)
        PROVE  MasterStep
    <3> PICK r : r = request[th]
      OBVIOUS
    <3>1. r.by \in Endpoint /\ r.task \in Task
      BY <2>2 DEF ResumeCall, AcceptCall, ReconcileCall, Step, HostInv, Typed, Idle, Call
    <3>2. \/ Resumes(r.task, r.by) \/ Accepts(r.task, r.by)
          \/ Ends(<<r.by, r.task>>)
      BY <2>2 DEF ResumeCall, AcceptCall, ReconcileCall
    <3> QED
      BY <3>1, <3>2 DEF MasterStep, Actor, Operation
  <2>3. CASE \E th \in Thread : Requests(th)
    <3> PICK th \in Thread : Requests(th)
      BY <2>3
    <3>1. ASSUME NEW a \in Endpoint, NEW t \in Task,
                 ResumeBegin(th, a, t) \/ AcceptBegin(th, a, t) \/ ReconcileBegin(th, a, t)
          PROVE  FALSE
      BY <3>1 DEF ResumeBegin, AcceptBegin, ReconcileBegin
    <3>2. ASSUME NEW a \in Endpoint, NEW t \in Task, NEW n \in Epoch,
                 \/ DetachReplay(th, a, t, n) \/ DetachBegin(th, a, t, n)
                 \/ ReleaseReplay(th, a, t, n)
          PROVE  FALSE
      BY <3>2 DEF DetachReplay, DetachBegin, ReleaseReplay
    <3>3. ASSUME NEW a \in Endpoint, NEW t \in Task, NEW n \in Epoch, NEW e \in Endpoint,
                 DetachHistorical(th, a, e, t, n) \/ ReleaseBegin(th, a, e, t, n)
          PROVE  FALSE
      BY <3>3 DEF DetachHistorical, ReleaseBegin
    <3>4. ~ \/ ResumeBind(th) \/ AcceptMark(th) \/ DetachDelete(th) \/ DetachCheck(th)
            \/ HistoricalDelete(th) \/ HistoricalCleanup(th) \/ ReleaseDelete(th)
            \/ Unlink(th) \/ Fail(th)
      BY DEF MasterUnchanged, ResumeBind, AcceptMark, DetachDelete, DetachCheck,
         HistoricalDelete, HistoricalCleanup, ReleaseDelete, Unlink, Fail
    <3> QED
      BY <2>2, <3>1, <3>2, <3>3, <3>4 DEF Requests
  <2>4. CASE \E o \in Operation, kind \in {"ran", "failed", "wrote"} : Complete(o, kind)
    BY <2>4 DEF Complete
  <2> QED
    BY <2>1, <2>3, <2>4 DEF Next, LedgerStep
<1> QED
  BY <1>1, Invariant, PTL DEF Spec, LedgerServed
=============================================================================
