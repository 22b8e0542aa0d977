---------------------------- MODULE NativeProofs ----------------------------
(***************************************************************************)
(* Proofs about Native for every number of messages, hooks, faults and     *)
(* references.                                                             *)
(*                                                                         *)
(* The argument: the hub grants a message once, and only to an ask that    *)
(* was reserved in the journal before it was made (Fenced); so one hook at *)
(* most holds its body (Bodies).  A receipt is sent for what the           *)
(* transcript holds or the agent acknowledged, and never for a row that    *)
(* may still be reserved (Context), and a reference is added when none is  *)
(* in the queue (Added).                                                   *)
(***************************************************************************)
EXTENDS NativeProps, TLAPS

(* Who is at a message names one.                                           *)
Shape ==
  /\ tick.pc \in AtMessage => tick.m \in Message
  /\ IF job.op = "none" THEN job.result = "none" ELSE job.m \in Message
  /\ \A h \in Hook : /\ hook[h].pc # "idle" => hook[h].ref \in Message
                     /\ hook[h].pc \in {"ask", "unknown", "stale_session"} => hook[h].m \in Message

(* One hook at most holds a body, which the hub granted and which was not   *)
(* returned yet.                                                            *)
Granting(m) == state[m] \in {"dispatching", "presented"}
Bodies ==
  /\ \A m \in Message : returned[m] <= 1 /\ (returned[m] > 0 => Granting(m))
  /\ \A h \in Hook : \A m \in hook[h].got :
       Granting(m) /\ returned[m] = 0 /\ \A g \in Hook \ {h} : m \notin hook[g].got

(* A row that is not reserved was not granted, and no ask is on its way     *)
(* that the hub would grant.                                                *)
Kept(m) == Begun(m) \/ row[m].state = "presented"
Fenced ==
  /\ \A m \in Message : Granting(m) => Kept(m)
  /\ \A h \in Hook : /\ hook[h].ep <= live
                     /\ hook[h].pc = "ask" /\ hook[h].ep = live =>
                          Kept(hook[h].m) /\ row[hook[h].m].ep = live
  /\ \A m \in Message, ep \in Endpoint : <<"begin_present", m, ep>> \in late =>
       ep <= live /\ (ep = live => Kept(m) /\ row[m].ep = live)

(* Receipts follow the transcript or an acknowledgement, and so does the    *)
(* journal.  A receipt on its way is for a row that is reserved, or is one  *)
(* that the hub refuses, for its message was transferred.                   *)
InContext(m) == m \in acked \/ \E c \in recorded : m \in c[2]
Sound(m) == InContext(m) /\ (Kept(m) \/ m \in handed)
Context ==
  /\ live = 1 => handed = {}
  /\ \A m \in Message : /\ state[m] = "presented" => InContext(m)
                        /\ row[m].state = "presented" => state[m] = "presented" \/ m \in acked
                        /\ row[m].hash # {} => m \in row[m].hash
                        /\ \A ep \in Endpoint : <<"presented", m, ep>> \in late => Sound(m)
  /\ tick.pc = "receipt" => Sound(tick.m)

(* While no child outlives its host, a reference is added when the queue    *)
(* holds none.                                                              *)
Nothing == \/ job.op = "publish" /\ job.result \in {"none", "not_sent"}
           \/ job.result = "absent"
Added ==
  /\ tick.pc \in {"look", "publish", "pending", "timeout"} => row[tick.m].state # "none"
  /\ job.op # "none" => row[job.m].state # "none" /\ row[job.m].pub \notin {"none", "ready"}
  /\ kills = 0 =>
       /\ \A m \in Message, ep \in Endpoint : <<"add", m, ep>> \notin late
       /\ \A m \in Message : queue[m] <= 1
       /\ \A m \in Message : row[m].pub \in {"none", "ready"} \/ row[m].state = "none" => queue[m] = 0
       /\ tick.pc \in {"publish", "pending"} => job = NoJob
       /\ tick.pc = "publish" => queue[tick.m] = 0
       /\ Nothing => queue[job.m] = 0

NativeInv == TypeOK /\ Shape /\ Bodies /\ Fenced /\ Context /\ Added

-----------------------------------------------------------------------------
(* What leaves a part of the invariant as it was                            *)

RowType == [state : RowState, ep : Endpoint, hash : SUBSET Message,
            ref : Message \union {None},
            tried : {"none", "stale_session", "unknown"}, pub : Publication,
            owned : BOOLEAN]

LEMMA Rows ==
  ASSUME TypeOK
  PROVE  row \in [Message -> RowType]
  BY DEF TypeOK, JournalTypeOK, RowType

(* Grants stay, and no hook gets a body.                                    *)
LEMMA BodiesStay ==
  ASSUME Bodies, UNCHANGED returned,
         \A m \in Message : Granting(m) => state'[m] \in {"dispatching", "presented"},
         TypeOK, \A h \in Hook : hook'[h].got \subseteq hook[h].got
  PROVE  Bodies'
<1>1. \A h \in Hook : hook[h].got \subseteq Message
  BY DEF TypeOK, ConsumerTypeOK
<1> QED
  BY <1>1 DEF Bodies, Granting

(* Reserved rows stay reserved, and no new ask is made.                     *)
LEMMA FencedStay ==
  ASSUME TypeOK, Shape, Fenced, UNCHANGED live,
         \A m \in Message : state'[m] \in {"dispatching", "presented"} => Granting(m) \/ Kept(m),
         \A m \in Message : Kept(m) =>
           row'[m].state \in {"dispatching", "uncertain", "presented"} /\ row'[m].ep = row[m].ep,
         \A h \in Hook : hook'[h].ep <= live /\ (hook'[h].pc = "ask" => hook'[h] = hook[h]),
         \A m \in Message, ep \in Endpoint :
           <<"begin_present", m, ep>> \in late' =>
             \/ <<"begin_present", m, ep>> \in late
             \/ \E h \in Hook : hook[h].pc = "ask" /\ hook[h].m = m /\ hook[h].ep = ep
  PROVE  Fenced'
  BY DEF Fenced, Kept, Begun, Granting, Shape

(* What is recorded stays, and is what new receipts are for.                *)
LEMMA ContextStays ==
  ASSUME Context, Shape, recorded \subseteq recorded', acked \subseteq acked',
         handed \subseteq handed', live' = 1 => handed' = {},
         \A m \in Message : /\ state[m] = "presented" => state'[m] = "presented"
                            /\ state'[m] = "presented" => state[m] = "presented" \/ InContext(m)
                            /\ row'[m].state = "presented" =>
                                 row[m].state = "presented" \/ state'[m] = "presented" \/ m \in acked'
                            /\ Kept(m) =>
                                 row'[m].state \in {"dispatching", "uncertain", "presented"} \/ m \in handed'
                            /\ row'[m].hash \in {{}, row[m].hash} \/ m \in row'[m].hash,
         \A m \in Message, ep \in Endpoint :
           <<"presented", m, ep>> \in late' =>
             \/ <<"presented", m, ep>> \in late
             \/ Sound(m)
             \/ m \in acked' /\ row'[m].state = "presented",
         tick'.pc = "receipt" =>
           \/ tick.pc = "receipt" /\ tick'.m = tick.m
           \/ \E m \in Message : tick'.m = m /\ Sound(m)
  PROVE  Context'
<1>1. \A m : InContext(m) => InContext(m)'
  BY DEF InContext
<1>2. \A m \in Message : Kept(m) \/ m \in handed => (Kept(m) \/ m \in handed)'
  BY DEF Kept, Begun
<1>3. \A m \in Message : Sound(m) => Sound(m)'
  BY <1>1, <1>2 DEF Sound
<1>4. ASSUME NEW m \in Message
      PROVE  /\ state'[m] = "presented" => InContext(m)'
             /\ row'[m].state = "presented" => state'[m] = "presented" \/ m \in acked'
             /\ row'[m].hash # {} => m \in row'[m].hash
  BY <1>1, <1>4 DEF Context
<1>5. ASSUME NEW m \in Message, NEW ep \in Endpoint, <<"presented", m, ep>> \in late'
      PROVE  Sound(m)'
  <2>1. CASE <<"presented", m, ep>> \in late \/ Sound(m)
    BY <1>3, <2>1 DEF Context
  <2>2. CASE m \in acked' /\ row'[m].state = "presented"
    BY <2>2 DEF Sound, InContext, Kept
  <2> QED
    BY <1>5, <2>1, <2>2
<1>6. tick'.pc = "receipt" => Sound(tick.m)'
  <2>1. tick'.pc = "receipt" => \E m \in Message : tick'.m = m /\ Sound(m)
    BY DEF Context, Shape, AtMessage
  <2>2. \A m \in Message : tick'.m = m /\ Sound(m)' => Sound(tick.m)'
    BY DEF Sound, InContext, Kept, Begun
  <2> QED
    BY <1>3, <2>1, <2>2
<1> QED
  BY <1>4, <1>5, <1>6 DEF Context

(* Nothing is published.                                                    *)
LEMMA AddedStays ==
  ASSUME TypeOK, Shape, Added, job' = job, \A m \in Message : queue'[m] <= queue[m],
         kills' = 0 => kills = 0, queue' \in [Message -> 0 .. MaxQueue],
         \A m \in Message :
           /\ row[m].state # "none" => row'[m].state # "none"
           /\ row[m].state # "none" /\ row[m].pub \notin {"none", "ready"} => row'[m].pub \notin {"none", "ready"}
           /\ row'[m].pub \in {"none", "ready"} => row[m].pub \in {"none", "ready"} \/ row[m].state = "none"
           /\ row'[m].state = "none" => row[m].state = "none",
         \A m \in Message, ep \in Endpoint :
           <<"add", m, ep>> \in late' => <<"add", m, ep>> \in late,
         \/ tick' = tick
         \/ tick'.pc \notin {"look", "publish", "pending", "timeout"}
         \/ tick'.pc \in {"look", "timeout"} /\ tick'.m \in Message /\ row[tick'.m].state # "none"
  PROVE  Added'
<1>1. queue \in [Message -> 0 .. MaxQueue] /\ MaxQueue \in Nat
  BY NativePublicationAssumption DEF TypeOK, PublicationTypeOK
<1>2. \A m \in Message : queue'[m] <= queue[m] /\ (queue[m] = 0 => queue'[m] = 0)
  BY <1>1
<1>3. tick.pc \in {"look", "publish", "pending", "timeout"} => tick.m \in Message
  BY DEF Shape, AtMessage
<1>4. job.op # "none" => job.m \in Message
  BY DEF Shape
<1>5. Nothing => job.m \in Message
  BY DEF Nothing, Shape
<1>6. tick'.pc \in {"look", "publish", "pending", "timeout"} => row'[tick'.m].state # "none"
  BY <1>3 DEF Added
<1>7. job'.op # "none" => row'[job'.m].state # "none" /\ row'[job'.m].pub \notin {"none", "ready"}
  BY <1>4 DEF Added
<1>8. ASSUME kills' = 0
      PROVE  /\ \A m \in Message, ep \in Endpoint : <<"add", m, ep>> \notin late'
             /\ \A m \in Message : queue'[m] <= 1
             /\ \A m \in Message : row'[m].pub \in {"none", "ready"} \/ row'[m].state = "none" => queue'[m] = 0
             /\ tick'.pc \in {"publish", "pending"} => job' = NoJob
             /\ tick'.pc = "publish" => queue'[tick'.m] = 0
             /\ Nothing => queue'[job'.m] = 0
  <2>1. /\ \A m \in Message, ep \in Endpoint : <<"add", m, ep>> \notin late
        /\ \A m \in Message : queue[m] <= 1
        /\ \A m \in Message : row[m].pub \in {"none", "ready"} \/ row[m].state = "none" => queue[m] = 0
        /\ tick.pc \in {"publish", "pending"} => job = NoJob
        /\ tick.pc = "publish" => queue[tick.m] = 0
        /\ Nothing => queue[job.m] = 0
    BY <1>8 DEF Added
  <2>2. \A m \in Message : queue'[m] <= 1
    BY <1>1, <1>2, <2>1
  <2>3. \A m \in Message : row'[m].pub \in {"none", "ready"} \/ row'[m].state = "none" => queue'[m] = 0
    BY <1>2, <2>1
  <2>4. /\ tick'.pc \in {"publish", "pending"} => job' = NoJob
        /\ tick'.pc = "publish" => queue'[tick'.m] = 0
    BY <1>2, <1>3, <2>1
  <2>5. Nothing => queue'[job'.m] = 0
    BY <1>2, <1>5, <2>1
  <2> QED
    BY <2>1, <2>2, <2>3, <2>4, <2>5
<1> QED
  BY <1>6, <1>7, <1>8 DEF Added, Nothing, NoJob

-----------------------------------------------------------------------------
(* The hub                                                                  *)

LEMMA HubOK ==
  ASSUME NativeInv, HubStep, UNCHANGED <<publication, consumer, history>>
  PROVE  NativeInv'
<1> USE DEF NativeInv
<1>1. UNCHANGED <<row, faults, tick, job, queue, hook, returned, recorded, kills, acked, limit>>
  BY DEF HubStep, publication, consumer, history
<1>2. /\ late' \subseteq late
      /\ state' \in [Message -> MessageState] /\ to' \in [Message -> Endpoint]
      /\ handed' \subseteq Message /\ live' \in Endpoint /\ live <= live'
      /\ handed \subseteq handed' /\ (live' = 1 => handed' = {})
      /\ live' # live => live' = 2 /\ live = 1 /\ state' = state
      /\ \A m \in Message : Granting(m) => state'[m] \in {"dispatching", "presented"}
      /\ \A m \in Message : state[m] = "presented" => state'[m] = "presented"
      /\ \A m \in Message : state'[m] \in {"dispatching", "presented"} =>
           Granting(m) \/ Kept(m) \/ (state'[m] = "dispatching" /\ <<"begin_present", m, live>> \in late)
      /\ \A m \in Message : state'[m] = "presented" =>
           state[m] = "presented" \/ \E ep \in Endpoint : <<"presented", m, ep>> \in late
  <2>1. /\ state \in [Message -> MessageState] /\ to \in [Message -> Endpoint]
        /\ handed \subseteq Message /\ live \in Endpoint
        /\ live = 1 => handed = {}
    BY DEF TypeOK, JournalTypeOK, Context
  <2>2. CASE Handoff
    BY <2>1, <2>2 DEF Handoff, Endpoint, Granting
  <2>3. ASSUME NEW m \in Message, Send(m) \/ Withdraw(m)
        PROVE  /\ late' = late /\ handed' = handed /\ live' = live
               /\ to' \in [Message -> Endpoint]
               /\ \/ state[m] = "none" /\ state' = [state EXCEPT ![m] = "open"]
                  \/ state[m] = "open" /\ state' = [state EXCEPT ![m] = "closed"]
    BY <2>1, <2>3 DEF Send, Withdraw, SetState
  <2>4. CASE \E m \in Message : Send(m) \/ Withdraw(m)
    BY <2>1, <2>3, <2>4 DEF MessageState, Endpoint, Granting
  <2>5. ASSUME NEW op \in {"begin_present", "presented"}, NEW m \in Message, NEW ep \in Endpoint,
               ServeLate(op, m, ep)
        PROVE  /\ late' \subseteq late /\ UNCHANGED <<to, handed, live>>
               /\ <<op, m, ep>> \in late
               /\ \/ /\ op = "begin_present" /\ state[m] = "open" /\ ep = live
                     /\ state' = [state EXCEPT ![m] = "dispatching"]
                  \/ /\ op = "presented" /\ (Granting(m) \/ Kept(m))
                     /\ state' = [state EXCEPT ![m] = "presented"]
                  \/ state' = state
    <3>1. op = "presented" => Sound(m)
      BY <2>5 DEF ServeLate, Context
    <3> QED
      BY <2>5, <3>1 DEF ServeLate, BeginPresent, Receipt, Granted, Receipted, Current, SetState, Granting, Sound
  <2>6. CASE \E op \in {"begin_present", "presented"}, m \in Message, ep \in Endpoint : ServeLate(op, m, ep)
    <3>1. PICK op \in {"begin_present", "presented"}, m \in Message, ep \in Endpoint : ServeLate(op, m, ep)
      BY <2>6
    <3>2. /\ late' \subseteq late /\ UNCHANGED <<to, handed, live>>
          /\ <<op, m, ep>> \in late
          /\ \/ /\ op = "begin_present" /\ state[m] = "open" /\ ep = live
                /\ state' = [state EXCEPT ![m] = "dispatching"]
             \/ /\ op = "presented" /\ (Granting(m) \/ Kept(m))
                /\ state' = [state EXCEPT ![m] = "presented"]
             \/ state' = state
      BY <2>5, <3>1
    <3>3. CASE state' = state
      BY <2>1, <3>2, <3>3 DEF Endpoint, Granting
    <3>4. CASE op = "begin_present" /\ state[m] = "open" /\ ep = live
               /\ state' = [state EXCEPT ![m] = "dispatching"]
      BY <2>1, <3>2, <3>4 DEF MessageState, Endpoint, Granting
    <3>5. CASE op = "presented" /\ (Granting(m) \/ Kept(m)) /\ state' = [state EXCEPT ![m] = "presented"]
      BY <2>1, <3>2, <3>5 DEF MessageState, Endpoint, Granting
    <3> QED
      BY <3>2, <3>3, <3>4, <3>5
  <2> QED
    BY <2>2, <2>4, <2>6 DEF HubStep
<1>3. TypeOK'
  BY <1>1, <1>2 DEF TypeOK, JournalTypeOK, PublicationTypeOK, ConsumerTypeOK
<1>4. Shape'
  BY <1>1 DEF Shape
<1>5. Bodies'
  BY <1>1, <1>2, BodiesStay
<1>6. Fenced'
  <2>1. live \in {1, 2}
    BY DEF TypeOK, JournalTypeOK, Endpoint
  <2>2. \A m \in Message : state'[m] \in {"dispatching", "presented"} => Kept(m)
    BY <1>2, <2>1 DEF Fenced, Endpoint
  <2>3. ASSUME live' # live
        PROVE  /\ \A h \in Hook : hook[h].ep <= live' /\ hook[h].ep # live'
               /\ \A m \in Message, ep \in Endpoint :
                    <<"begin_present", m, ep>> \in late => ep <= live' /\ ep # live'
    <3>1. \A h \in Hook : hook[h].ep \in {1, 2}
      BY DEF TypeOK, ConsumerTypeOK, Endpoint
    <3>2. live = 1 /\ live' = 2
      BY <1>2, <2>3
    <3>3. \A h \in Hook : hook[h].ep <= live' /\ hook[h].ep # live'
      BY <3>1, <3>2 DEF Fenced
    <3>4. \A m \in Message, ep \in Endpoint :
            <<"begin_present", m, ep>> \in late => ep <= live' /\ ep # live'
      <4>1. \A m \in Message, ep \in Endpoint : <<"begin_present", m, ep>> \in late => ep <= live
        BY DEF Fenced
      <4>2. \A ep \in Endpoint : ep <= live => ep = 1
        BY <3>2 DEF Endpoint
      <4> QED
        BY <3>2, <4>1, <4>2
    <3> QED
      BY <3>3, <3>4
  <2>4. CASE live' = live
    BY <1>1, <1>2, <2>2, <2>4 DEF Fenced, Kept, Begun, Granting
  <2>5. CASE live' # live
    BY <1>1, <1>2, <2>2, <2>3, <2>5 DEF Fenced, Kept, Begun, Granting
  <2> QED
    BY <2>4, <2>5
<1>7. Context'
  <2>1. \A m \in Message : state'[m] = "presented" => state[m] = "presented" \/ InContext(m)
    BY <1>2 DEF Context, Sound
  <2> QED
    BY <1>1, <1>2, <2>1, ContextStays DEF Kept, Begun
<1>8. Added'
  BY <1>1, <1>2, AddedStays DEF TypeOK, PublicationTypeOK
<1> QED
  BY <1>3, <1>4, <1>5, <1>6, <1>7, <1>8

-----------------------------------------------------------------------------
(* The child and the publisher                                              *)

(* Only publications change, or nothing of the journal.                     *)
RowsKept ==
  /\ row' \in [Message -> RowType]
  /\ \A m \in Message : /\ row'[m].state = row[m].state /\ row'[m].ep = row[m].ep
                        /\ row'[m].hash = row[m].hash

LEMMA PublisherKeeps ==
  ASSUME NativeInv, RowsKept, UNCHANGED <<state, to, handed, live, hook, returned, recorded, acked, limit>>,
         late' \subseteq late, faults' \in 0 .. limit.faults, kills' \in 0 .. faults',
         tick'.pc = "receipt" => tick.pc = "receipt" /\ tick'.m = tick.m
  PROVE  Bodies' /\ Fenced' /\ Context' /\ JournalTypeOK'
<1> USE DEF NativeInv
<1>1. JournalTypeOK'
  BY DEF TypeOK, JournalTypeOK, RowsKept, RowType
<1>2. Bodies'
  BY BodiesStay DEF Granting
<1>3. Fenced'
  BY FencedStay DEF RowsKept, Granting, Kept, Begun, Fenced
<1>4. Context'
  <2>1. live = 1 => handed = {}
    BY DEF Context
  <2> QED
    BY <2>1, ContextStays DEF RowsKept, Kept, Begun
<1> QED
  BY <1>1, <1>2, <1>3, <1>4

LEMMA ChildOK ==
  ASSUME NativeInv, ChildStep, UNCHANGED <<consumer, history>>
  PROVE  NativeInv'
<1> USE DEF NativeInv
<1>1. UNCHANGED <<state, to, handed, live, row, tick, hook, returned, recorded, kills, acked, limit>>
  BY DEF ChildStep, ChildAdds, ChildFails, ChildLists, OrphanAdds, hub, consumer, history
<1>2. late' \subseteq late /\ faults' \in 0 .. limit.faults /\ kills' \in 0 .. faults'
  <2>1. faults \in 0 .. limit.faults /\ kills \in 0 .. faults /\ limit.faults \in Nat
    BY NativeAssumption DEF TypeOK, Limit
  <2>2. faults' = faults \/ (faults < limit.faults /\ faults' = faults + 1)
    BY DEF ChildStep, ChildAdds, ChildFails, ChildLists, OrphanAdds, hub, Fault
  <2>3. late' \subseteq late
    BY DEF ChildStep, ChildAdds, ChildFails, ChildLists, OrphanAdds, hub
  <2> QED
    BY <1>1, <2>1, <2>2, <2>3
<1>3. Bodies' /\ Fenced' /\ Context' /\ JournalTypeOK'
  <2>1. RowsKept
    BY <1>1, Rows DEF RowsKept
  <2> QED
    BY <1>1, <1>2, <2>1, PublisherKeeps
<1>4. /\ queue \in [Message -> 0 .. MaxQueue] /\ MaxQueue \in Nat
      /\ job \in [op : {"none", "publish", "pending"}, m : Message \union {None},
                  result : {"none", "ok", "absent", "not_sent", "unknown"}]
      /\ job.op # "none" => job.m \in Message
  BY NativePublicationAssumption DEF TypeOK, PublicationTypeOK, Shape
<1>5. ASSUME kills = 0 PROVE ~ \E m \in Message, ep \in Endpoint : OrphanAdds(m, ep)
  BY <1>5 DEF Added, OrphanAdds
<1>6. CASE \E m \in Message, ep \in Endpoint : OrphanAdds(m, ep)
  <2>1. job' = job /\ queue' \in [Message -> 0 .. MaxQueue]
    BY <1>4, <1>6 DEF OrphanAdds, Adds
  <2>2. TypeOK'
    BY <1>1, <1>2, <1>3, <2>1 DEF TypeOK, PublicationTypeOK, ConsumerTypeOK
  <2>3. Shape'
    BY <1>1, <2>1 DEF Shape
  <2>4. Added'
    BY <1>1, <1>5, <1>6, <2>1 DEF Added
  <2> QED
    BY <1>3, <2>2, <2>3, <2>4
<1>7. CASE job.op # "none" /\ job.result = "none" /\ late' = late
           /\ \E r \in {"ok", "absent", "not_sent", "unknown"} :
                /\ job' = [job EXCEPT !.result = r]
                /\ \/ queue' = queue
                   \/ Adds(job.m) /\ job.op = "publish" /\ r \in {"ok", "unknown"}
                /\ r = "not_sent" => queue' = queue
                /\ r = "absent" => queue' = queue /\ queue[job.m] = 0
  <2>1. PICK r \in {"ok", "absent", "not_sent", "unknown"} :
                /\ job' = [job EXCEPT !.result = r]
                /\ \/ queue' = queue
                   \/ Adds(job.m) /\ job.op = "publish" /\ r \in {"ok", "unknown"}
                /\ r = "not_sent" => queue' = queue
                /\ r = "absent" => queue' = queue /\ queue[job.m] = 0
    BY <1>7
  <2>2. /\ job' \in [op : {"none", "publish", "pending"}, m : Message \union {None},
                     result : {"none", "ok", "absent", "not_sent", "unknown"}]
        /\ job'.op = job.op /\ job'.m = job.m /\ job'.result = r
    BY <1>4, <2>1
  <2>3. /\ queue' \in [Message -> 0 .. MaxQueue]
        /\ \A m \in Message : m # job.m => queue'[m] = queue[m]
        /\ queue'[job.m] # queue[job.m] => queue'[job.m] = queue[job.m] + 1 /\ Nothing /\ r \in {"ok", "unknown"}
    BY <1>4, <1>7, <2>1 DEF Adds, Nothing
  <2>4. TypeOK'
    BY <1>1, <1>2, <1>3, <2>2, <2>3 DEF TypeOK, PublicationTypeOK, ConsumerTypeOK
  <2>5. Shape'
    BY <1>1, <1>4, <1>7, <2>2 DEF Shape
  <2>6. Added'
    <3>1. job.m \in Message /\ row[job.m].state # "none" /\ row[job.m].pub \notin {"none", "ready"}
      BY <1>4, <1>7 DEF Added
    <3>2. CASE kills = 0
      <4>1. /\ \A m \in Message, ep \in Endpoint : <<"add", m, ep>> \notin late
            /\ \A m \in Message : queue[m] <= 1
            /\ \A m \in Message : row[m].pub \in {"none", "ready"} \/ row[m].state = "none" => queue[m] = 0
            /\ tick.pc \in {"publish", "pending"} => job = NoJob
            /\ Nothing => queue[job.m] = 0
        BY <3>2 DEF Added
      <4>2. tick.pc \notin {"publish", "pending"}
        BY <1>7, <4>1 DEF NoJob
      <4>3. \A m \in Message : queue'[m] <= 1
        BY <1>4, <2>3, <4>1
      <4>4. \A m \in Message : row[m].pub \in {"none", "ready"} \/ row[m].state = "none" => queue'[m] = 0
        BY <2>3, <3>1, <4>1
      <4>5. Nothing' => queue'[job.m] = 0
        BY <1>4, <1>7, <2>1, <2>2, <2>3, <4>1 DEF Nothing
      <4> QED
        BY <1>1, <1>7, <2>2, <3>1, <4>1, <4>2, <4>3, <4>4, <4>5 DEF Added
    <3>3. CASE kills # 0
      BY <1>1, <2>2, <3>1, <3>3 DEF Added
    <3> QED
      BY <3>2, <3>3
  <2> QED
    BY <1>3, <2>4, <2>5, <2>6
<1>8. CASE ChildAdds
  BY <1>7, <1>8 DEF ChildAdds, hub
<1>9. CASE ChildFails
  BY <1>7, <1>9 DEF ChildFails
<1>10. CASE ChildLists
  <2>1. queue[job.m] \in Nat
    BY <1>4, <1>10 DEF ChildLists
  <2> QED
    BY <1>7, <1>10, <2>1 DEF ChildLists, hub
<1> QED
  BY <1>6, <1>8, <1>9, <1>10 DEF ChildStep

LEMMA PublisherOK ==
  ASSUME NativeInv, PublisherStep
  PROVE  NativeInv'
<1> USE DEF NativeInv
<1>1. UNCHANGED <<state, to, handed, live, late, faults, queue, hook, returned, recorded, kills, acked, limit>>
  BY DEF PublisherStep, Collect, Look, LookPublishes, Publish, AskQueue, hub, consumer, history
<1>2. /\ tick \in [pc : {"idle", "next"} \union AtMessage, ep : Endpoint,
                   todo : SUBSET Message, m : Message \union {None}]
      /\ job \in [op : {"none", "publish", "pending"}, m : Message \union {None},
                  result : {"none", "ok", "absent", "not_sent", "unknown"}]
      /\ row \in [Message -> RowType]
  BY Rows DEF TypeOK, PublicationTypeOK
<1>3. /\ tick.pc \in AtMessage => tick.m \in Message
      /\ job.op # "none" => job.m \in Message
      /\ job.result # "none" => job.op # "none"
  BY DEF Shape
<1>4. /\ NoJob \in [op : {"none", "publish", "pending"}, m : Message \union {None},
                    result : {"none", "ok", "absent", "not_sent", "unknown"}]
      /\ NoJob.op = "none" /\ NoJob.result = "none"
  BY DEF NoJob
<1>5. ASSUME NEW m \in Message, NEW pub \in Publication, SetPub(m, pub)
      PROVE  /\ RowsKept
             /\ row'[m].pub = pub
             /\ \A k \in Message \ {m} : row'[k].pub = row[k].pub
  <2>1. /\ row' = [row EXCEPT ![m] = [row[m] EXCEPT !.pub = pub]]
        /\ row[m] \in RowType
    BY <1>2, <1>5 DEF SetPub, SetRow
  <2>2. [row[m] EXCEPT !.pub = pub] \in RowType
    BY <2>1 DEF RowType
  <2> QED
    BY <1>2, <2>1, <2>2 DEF RowsKept, RowType
<1>6. row' = row => RowsKept
  BY <1>2 DEF RowsKept
<1>7. ASSUME Continue
      PROVE  /\ tick' \in [pc : {"idle", "next"} \union AtMessage, ep : Endpoint,
                           todo : SUBSET Message, m : Message \union {None}]
             /\ tick'.pc \in {"idle", "next"}
  BY <1>2, <1>7 DEF Continue, Left, Waiting, Endpoint
<1>8. ASSUME RowsKept, Shape', Added',
             job' \in [op : {"none", "publish", "pending"}, m : Message \union {None},
                       result : {"none", "ok", "absent", "not_sent", "unknown"}],
             tick' \in [pc : {"idle", "next"} \union AtMessage, ep : Endpoint,
                        todo : SUBSET Message, m : Message \union {None}],
             tick'.pc = "receipt" => tick.pc = "receipt" /\ tick'.m = tick.m
      PROVE  NativeInv'
  <2>1. Bodies' /\ Fenced' /\ Context' /\ JournalTypeOK'
    <3>1. faults' \in 0 .. limit.faults /\ kills' \in 0 .. faults' /\ late' \subseteq late
      BY <1>1 DEF TypeOK
    <3> QED
      BY <1>1, <1>8, <3>1, PublisherKeeps
  <2>2. TypeOK'
    BY <1>1, <1>8, <2>1 DEF TypeOK, PublicationTypeOK, ConsumerTypeOK
  <2> QED
    BY <1>8, <2>1, <2>2
<1>9. queue \in [Message -> 0 .. MaxQueue] /\ MaxQueue \in Nat
  BY NativePublicationAssumption DEF TypeOK, PublicationTypeOK
<1>17. ASSUME NEW m \in Message, Prepare(m)
       PROVE  RowsKept /\ \A k \in Message : row'[k].pub = row[k].pub
  <2>1. /\ row' = [row EXCEPT ![m] = [row[m] EXCEPT !.owned = TRUE]]
        /\ row[m] \in RowType
    BY <1>2, <1>17 DEF Prepare, SetRow
  <2>2. [row[m] EXCEPT !.owned = TRUE] \in RowType
    BY <2>1 DEF RowType
  <2> QED
    BY <1>2, <2>1, <2>2 DEF RowsKept, RowType
<1>10. CASE Collect
  <2>1. job.m \in Message /\ Outcome \in Publication /\ job' = NoJob /\ tick' = tick
    BY <1>3, <1>10 DEF Collect, Outcome, Publication
  <2>2. /\ RowsKept
        /\ \A k \in Message \ {job.m} : row'[k].pub = row[k].pub
        /\ row'[job.m].pub \in {"none", "ready"} => row[job.m].pub \in {"none", "ready"} \/ Nothing
    <3>1. Outcome \in {"none", "ready"} => Nothing
      BY <1>10 DEF Outcome, Nothing, Collect
    <3>2. CASE row' = row
      BY <1>6, <3>2
    <3>3. CASE SetPub(job.m, Outcome)
      BY <1>5, <2>1, <3>1, <3>3
    <3> QED
      BY <1>10, <3>2, <3>3 DEF Collect
  <2>3. Shape'
    BY <1>1, <1>4, <2>1 DEF Shape
  <2>4. Added'
    <3>1. tick'.pc \in {"look", "publish", "pending", "timeout"} => row'[tick'.m].state # "none"
      BY <1>3, <2>1, <2>2 DEF Added, RowsKept, AtMessage
    <3>2. ~ Nothing'
      BY <1>4, <2>1 DEF Nothing, NoJob
    <3>3. ASSUME kills = 0
          PROVE  \A m \in Message : row'[m].pub \in {"none", "ready"} \/ row'[m].state = "none" => queue[m] = 0
      BY <2>1, <2>2, <3>3 DEF Added, RowsKept
    <3> QED
      BY <1>1, <1>4, <2>1, <3>1, <3>2, <3>3 DEF Added
  <2> QED
    BY <1>2, <1>4, <1>8, <2>1, <2>2, <2>3, <2>4
<1>11. CASE Look
  <2>1. tick.m \in Message /\ Continue /\ job' = job
    BY <1>3, <1>11 DEF Look, AtMessage
  <2>2. \/ row' = row \/ Prepare(tick.m)
        \/ SetPub(tick.m, "body_reserved") \/ SetPub(tick.m, "unknown")
    BY <1>11 DEF Look
  <2>3. /\ RowsKept
        /\ \A k \in Message : row'[k].pub = row[k].pub \/ row'[k].pub \in {"body_reserved", "unknown"}
    BY <1>5, <1>6, <1>17, <2>1, <2>2 DEF Publication
  <2>4. Shape'
    BY <1>1, <1>7, <2>1 DEF Shape, AtMessage
  <2>5. Added'
    BY <1>1, <1>7, <1>9, <2>1, <2>3, AddedStays DEF RowsKept
  <2> QED
    BY <1>2, <1>7, <1>8, <2>1, <2>3, <2>4, <2>5
<1>12. CASE LookPublishes
  <2>1. tick.m \in Message /\ job = NoJob /\ Prepare(tick.m) /\ job' = job
    BY <1>3, <1>12 DEF LookPublishes, AtMessage
  <2>5. RowsKept /\ \A k \in Message : row'[k].pub = row[k].pub
    BY <1>17, <2>1
  <2>2. /\ tick' \in [pc : {"idle", "next"} \union AtMessage, ep : Endpoint,
                      todo : SUBSET Message, m : Message \union {None}]
        /\ tick'.m = tick.m /\ tick'.pc \in {"pending", "publish"}
        /\ tick'.pc = "publish" => row[tick.m].pub \in {"none", "ready"}
    <3>1. CASE tick' = [tick EXCEPT !.pc = "pending"]
      BY <1>2, <3>1 DEF AtMessage
    <3>2. CASE row[tick.m].pub \in {"none", "ready"} /\ tick' = [tick EXCEPT !.pc = "publish"]
      BY <1>2, <3>2 DEF AtMessage
    <3> QED
      BY <1>12, <3>1, <3>2, Zenon DEF LookPublishes
  <2>3. Shape'
    BY <1>1, <1>4, <2>1, <2>2 DEF Shape
  <2>4. Added'
    <3>1. row[tick.m].state # "none"
      BY <1>12 DEF LookPublishes
    <3>2. ~ Nothing'
      BY <1>4, <2>1 DEF Nothing, NoJob
    <3>3. ASSUME kills = 0
          PROVE  \A k \in Message : row'[k].pub \in {"none", "ready"} \/ row'[k].state = "none" => queue[k] = 0
      BY <2>5, <3>3 DEF Added, RowsKept
    <3>4. tick'.pc = "publish" /\ kills = 0 => queue[tick.m] = 0
      BY <2>1, <2>2 DEF Added
    <3>5. row'[tick.m].state # "none"
      BY <2>1, <2>5, <3>1 DEF RowsKept
    <3> QED
      BY <1>1, <1>4, <2>1, <2>2, <3>2, <3>3, <3>4, <3>5 DEF Added
  <2> QED
    BY <1>2, <1>8, <2>1, <2>2, <2>3, <2>4, <2>5
<1>13. ASSUME NEW m \in Message, NEW op \in {"publish", "pending"}, NEW pub \in {"publishing", "unknown"},
              tick.pc = op, m = tick.m, Continue, StartJob(m, op, pub)
       PROVE  NativeInv'
  <2>1. /\ job' = [op |-> op, m |-> m, result |-> "none"]
        /\ job' \in [op : {"none", "publish", "pending"}, m : Message \union {None},
                     result : {"none", "ok", "absent", "not_sent", "unknown"}]
    BY <1>13 DEF StartJob
  <2>2. /\ RowsKept /\ row'[m].pub \notin {"none", "ready"}
        /\ \A k \in Message \ {m} : row'[k].pub = row[k].pub
    BY <1>5, <1>13 DEF StartJob, Publication
  <2>3. Shape'
    BY <1>1, <1>7, <1>13, <2>1 DEF Shape, AtMessage
  <2>4. row[m].state # "none"
    BY <1>13 DEF Added
  <2>5. Added'
    <3>1. job'.op # "none" => row'[job'.m].state # "none" /\ row'[job'.m].pub \notin {"none", "ready"}
      BY <2>1, <2>2, <2>4 DEF RowsKept
    <3>2. ASSUME kills = 0
          PROVE  /\ \A k \in Message : row'[k].pub \in {"none", "ready"} \/ row'[k].state = "none" => queue[k] = 0
                 /\ Nothing' => queue[m] = 0
      BY <1>13, <2>1, <2>2, <3>2 DEF Added, RowsKept, Nothing
    <3> QED
      BY <1>1, <1>7, <1>13, <2>1, <3>1, <3>2 DEF Added
  <2> QED
    BY <1>7, <1>8, <1>13, <2>1, <2>2, <2>3, <2>5
<1>14. ASSUME Continue, job' = job, NEW m \in Message,
              row' = row \/ SetPub(m, "not_eligible")
       PROVE  NativeInv'
  <2>1. /\ RowsKept
        /\ \A k \in Message : row'[k].pub = row[k].pub \/ row'[k].pub = "not_eligible"
    BY <1>5, <1>6, <1>14 DEF Publication
  <2>2. Shape'
    BY <1>1, <1>7, <1>14 DEF Shape, AtMessage
  <2>3. Added'
    BY <1>1, <1>7, <1>9, <1>14, <2>1, AddedStays DEF RowsKept
  <2> QED
    BY <1>2, <1>7, <1>8, <1>14, <2>1, <2>2, <2>3
<1>15. CASE Publish
  <2>1. tick.m \in Message
    BY <1>3, <1>15 DEF Publish, AtMessage
  <2> QED
    BY <1>13, <1>14, <1>15, <2>1 DEF Publish
<1>16. CASE AskQueue
  <2>1. tick.m \in Message
    BY <1>3, <1>16 DEF AskQueue, AtMessage
  <2> QED
    BY <1>13, <1>14, <1>16, <2>1 DEF AskQueue
<1> QED
  BY <1>10, <1>11, <1>12, <1>15, <1>16 DEF PublisherStep

-----------------------------------------------------------------------------
(* The delivery thread                                                      *)

TickType == [pc : {"idle", "next"} \union AtMessage, ep : Endpoint,
             todo : SUBSET Message, m : Message \union {None}]

(* A step of the delivery thread that leaves reserved rows reserved, and    *)
(* the publications and the queue as they are.                              *)
LEMMA TickKeeps ==
  ASSUME NativeInv,
         UNCHANGED <<to, handed, live, job, queue, consumer, history>>,
         state' \in [Message -> MessageState], faults' \in 0 .. limit.faults, faults <= faults',
         row' \in [Message -> RowType], tick' \in TickType,
         late' \subseteq {"begin_present", "presented", "add"} \X Message \X Endpoint,
         \A m \in Message :
           /\ Granting(m) => state'[m] \in {"dispatching", "presented"}
           /\ state'[m] \in {"dispatching", "presented"} => Granting(m) \/ Kept(m),
         \A m \in Message : Kept(m) =>
           row'[m].state \in {"dispatching", "uncertain", "presented"} /\ row'[m].ep = row[m].ep,
         \A m \in Message :
           /\ state[m] = "presented" => state'[m] = "presented"
           /\ state'[m] = "presented" => state[m] = "presented" \/ InContext(m)
           /\ row'[m].state = "presented" => row[m].state = "presented" \/ state'[m] = "presented"
           /\ row'[m].hash = row[m].hash /\ row'[m].pub = row[m].pub
           /\ row[m].state = "none" <=> row'[m].state = "none",
         \A m \in Message, ep \in Endpoint :
           /\ <<"begin_present", m, ep>> \in late' => <<"begin_present", m, ep>> \in late
           /\ <<"add", m, ep>> \in late' => <<"add", m, ep>> \in late
           /\ <<"presented", m, ep>> \in late' => <<"presented", m, ep>> \in late \/ Sound(m),
         tick'.pc \in AtMessage => tick'.m \in Message,
         tick'.pc \notin {"publish", "pending"},
         tick'.pc \in {"look", "timeout"} => row[tick'.m].state # "none",
         tick'.pc = "receipt" => Sound(tick'.m)
  PROVE  NativeInv'
<1> USE DEF NativeInv, consumer, history
<1>1. TypeOK'
  <2>1. kills \in 0 .. faults'
    BY NativeAssumption DEF TypeOK, Limit
  <2> QED
    BY <2>1 DEF TypeOK, JournalTypeOK, PublicationTypeOK, ConsumerTypeOK, RowType, TickType
<1>2. Shape'
  BY DEF Shape
<1>3. Bodies'
  BY BodiesStay
<1>4. Fenced'
  <2>1. \A h \in Hook : hook'[h].ep <= live /\ (hook'[h].pc = "ask" => hook'[h] = hook[h])
    BY DEF Fenced
  <2> QED
    BY <2>1, FencedStay
<1>5. Context'
  <2>1. live = 1 => handed = {}
    BY DEF Context
  <2>2. tick'.pc = "receipt" => tick'.m \in Message
    BY DEF AtMessage
  <2> QED
    BY <2>1, <2>2, ContextStays
<1>6. Added'
  <2>1. \A m \in Message : queue'[m] <= queue[m]
    BY NativePublicationAssumption DEF TypeOK, PublicationTypeOK
  <2>2. queue' \in [Message -> 0 .. MaxQueue]
    BY DEF TypeOK, PublicationTypeOK
  <2>3. \/ tick'.pc \notin {"look", "publish", "pending", "timeout"}
        \/ tick'.pc \in {"look", "timeout"} /\ tick'.m \in Message /\ row[tick'.m].state # "none"
    BY DEF AtMessage
  <2> QED
    BY <2>1, <2>2, <2>3, AddedStays
<1> QED
  BY <1>1, <1>2, <1>3, <1>4, <1>5, <1>6

(* The transcript holds the body of a recorded row.                         *)
LEMMA RecordedIsInContext ==
  ASSUME NativeInv, NEW m \in Message, Recorded(m)
  PROVE  InContext(m)
<1>1. m \in row[m].hash /\ <<row[m].ref, row[m].hash>> \in recorded
  BY DEF NativeInv, Context, Recorded
<1>2. <<row[m].ref, row[m].hash>>[2] = row[m].hash
  OBVIOUS
<1> QED
  BY <1>1, <1>2 DEF InContext

LEMMA TickClaimOK ==
  ASSUME NativeInv, TickClaim
  PROVE  NativeInv'
<1> USE DEF NativeInv
<1>1. UNCHANGED <<hub, job, queue, consumer, history>>
  BY DEF TickClaim
<1>2. /\ state \in [Message -> MessageState] /\ live \in Endpoint /\ handed \subseteq Message
      /\ faults \in 0 .. limit.faults /\ limit.faults \in Nat
      /\ late \subseteq {"begin_present", "presented", "add"} \X Message \X Endpoint
      /\ row \in [Message -> RowType]
  BY Rows, NativeAssumption DEF TypeOK, JournalTypeOK, Limit
<1>3. \A m \in Message :
        \/ row'[m] = row[m]
        \/ row'[m] = Bound(m, live) /\ ToBind(m) /\ (row[m].state = "none" \/ MayBind(m))
        \/ row'[m] = [NoRow EXCEPT !.state = "received", !.ep = live] /\ row[m].state = "none"
  BY DEF TickClaim, Unbindable
<1>4. row' \in [Message -> RowType]
  <2>1. NoRow \in RowType /\ [NoRow EXCEPT !.state = "received", !.ep = live] \in RowType
    BY <1>2 DEF NoRow, RowType, RowState, Publication, Endpoint
  <2>2. \A m \in Message : Bound(m, live) \in RowType
    <3>1. ASSUME NEW m \in Message PROVE Bound(m, live) \in RowType
      <4>1. row[m] \in RowType /\ live \in Endpoint
        BY <1>2
      <4> QED
        BY <4>1 DEF Bound, RowType, RowState
    <3> QED
      BY <3>1
  <2>3. \A m \in Message : row'[m] \in RowType
    BY <1>2, <1>3, <2>1, <2>2
  <2>4. row' = [m \in Message |-> row'[m]]
    BY DEF TickClaim
  <2> QED
    BY <2>3, <2>4
<1>5. tick' \in TickType /\ tick'.pc = "next"
  BY <1>2 DEF TickClaim, TickType, Claimed, Pending, None
<1>6. ASSUME NEW m \in Message
      PROVE  /\ row'[m].hash = row[m].hash \/ row'[m].hash = {}
             /\ row[m].state # "none" => row'[m].state # "none" /\ row'[m].pub = row[m].pub
             /\ row'[m].state = "none" => row[m].state = "none"
             /\ row'[m].pub \in {"none", "ready"} => row[m].pub \in {"none", "ready"} \/ row[m].state = "none"
             /\ row'[m].state = "presented" => row[m].state = "presented"
             /\ Kept(m) => \/ row'[m] = row[m]
                           \/ row[m].ep # live /\ ~Granting(m) /\ row'[m].state = "received"
                              /\ m \in handed
  <2>1. row[m] \in RowType
    BY <1>2
  <2>2. CASE row'[m] = row[m]
    BY <2>2
  <2>3. CASE row'[m] = Bound(m, live) /\ ToBind(m) /\ (row[m].state = "none" \/ MayBind(m))
    BY <2>1, <2>3 DEF Bound, ToBind, MayBind, Rejected, Kept, Begun, Granting, RowType
  <2>4. CASE row'[m] = [NoRow EXCEPT !.state = "received", !.ep = live] /\ row[m].state = "none"
    BY <2>1, <2>4 DEF NoRow, Kept, Begun, RowType
  <2> QED
    BY <1>3, <2>2, <2>3, <2>4
<1>7. TypeOK'
  BY <1>1, <1>2, <1>4, <1>5
     DEF TypeOK, JournalTypeOK, PublicationTypeOK, ConsumerTypeOK, RowType, TickType, hub, consumer, history
<1>8. Shape'
  BY <1>1, <1>5 DEF Shape, AtMessage, consumer
<1>9. Bodies'
  BY <1>1, BodiesStay DEF hub, consumer, Granting
<1>10. Fenced'
  <2>1. \A m \in Message : Kept(m) /\ row[m].ep = live =>
          row'[m].state \in {"dispatching", "uncertain", "presented"} /\ row'[m].ep = live
    BY <1>6 DEF Kept, Begun
  <2>2. \A m \in Message : Granting(m) => row'[m].state \in {"dispatching", "uncertain", "presented"}
    BY <1>6 DEF Kept, Begun, Fenced
  <2>3. \A h \in Hook : hook[h].pc = "ask" => hook[h].m \in Message
    BY DEF Shape
  <2> QED
    BY <1>1, <2>1, <2>2, <2>3 DEF Fenced, Kept, Begun, Granting, hub, consumer
<1>11. Context'
  <2>1. live = 1 => handed = {}
    BY DEF Context
  <2>2. \A m \in Message : Kept(m) =>
          row'[m].state \in {"dispatching", "uncertain", "presented"} \/ m \in handed
    BY <1>6 DEF Kept, Begun
  <2> QED
    BY <1>1, <1>5, <1>6, <2>1, <2>2, ContextStays DEF hub, consumer, history
<1>12. Added'
  <2>1. queue' \in [Message -> 0 .. MaxQueue] /\ \A m \in Message : queue'[m] <= queue[m]
    BY <1>1, NativePublicationAssumption DEF TypeOK, PublicationTypeOK
  <2> QED
    BY <1>1, <1>5, <1>6, <2>1, AddedStays DEF hub, history
<1> QED
  BY <1>7, <1>8, <1>9, <1>10, <1>11, <1>12

LEMMA VisitOK ==
  ASSUME NativeInv, TickStep, ~TickClaim
  PROVE  NativeInv'
<1> USE DEF NativeInv
<1>1. /\ state \in [Message -> MessageState] /\ to \in [Message -> Endpoint]
      /\ handed \subseteq Message /\ live \in Endpoint
      /\ faults \in 0 .. limit.faults /\ limit.faults \in Nat
      /\ late \subseteq {"begin_present", "presented", "add"} \X Message \X Endpoint
      /\ row \in [Message -> RowType] /\ tick \in TickType
  BY Rows, NativeAssumption DEF TypeOK, JournalTypeOK, PublicationTypeOK, Limit, TickType
<1>2. Waiting \in TickType /\ Waiting.pc = "idle"
  BY DEF Waiting, TickType, Endpoint
<1>3. ASSUME NEW S \in SUBSET Message
      PROVE  Left(S) \in TickType /\ Left(S).pc \in {"idle", "next"}
  BY <1>1, <1>2 DEF Left, TickType
<1>4. tick.todo \in SUBSET Message
  BY <1>1 DEF TickType
<1>5. ASSUME NEW m, Done(m)
      PROVE  tick' \in TickType /\ tick'.pc \in {"idle", "next"}
  BY <1>3, <1>4, <1>5 DEF Done
<1>6. Continue => tick' \in TickType /\ tick'.pc \in {"idle", "next"}
  BY <1>3, <1>4 DEF Continue
<1>7. ASSUME NEW pc \in {"look", "receipt", "timeout"}, NEW m \in Message, At(pc, m)
      PROVE  tick' \in TickType /\ tick'.pc = pc /\ tick'.m = m
  BY <1>1, <1>7 DEF At, TickType, AtMessage
<1>8. ASSUME NEW m \in Message, NEW s \in {"uncertain", "presented"},
             SetRow(m, [row[m] EXCEPT !.state = s])
      PROVE  /\ row' \in [Message -> RowType]
             /\ row'[m].state = s /\ \A k \in Message \ {m} : row'[k] = row[k]
             /\ \A k \in Message : /\ row'[k].hash = row[k].hash /\ row'[k].pub = row[k].pub
                                   /\ row'[k].ep = row[k].ep
  <2>1. row[m] \in RowType /\ row' = [row EXCEPT ![m] = [row[m] EXCEPT !.state = s]]
    BY <1>1, <1>8 DEF SetRow
  <2>2. [row[m] EXCEPT !.state = s] \in RowType
    BY <2>1 DEF RowType, RowState
  <2> QED
    BY <1>1, <2>1, <2>2 DEF RowType
<1>9. ASSUME UNCHANGED <<state, to, handed, live, job, queue, consumer, history>>,
             faults' \in 0 .. limit.faults, faults <= faults', tick' \in TickType,
             row' = row \/ \E m \in Message, s \in {"uncertain", "presented"} :
                             /\ row[m].state # "none" /\ SetRow(m, [row[m] EXCEPT !.state = s])
                             /\ s = "presented" => state[m] = "presented",
             \/ late' = late
             \/ \E m \in Message, ep \in Endpoint :
                  Sound(m) /\ late' = late \union {<<"presented", m, ep>>},
             \/ tick'.pc \in {"idle", "next"}
             \/ tick'.pc = "look" /\ tick'.m \in Message /\ row[tick'.m].state # "none"
             \/ tick'.pc = "timeout" /\ tick'.m \in Message /\ row[tick'.m].state # "none"
             \/ tick'.pc = "receipt" /\ tick'.m \in Message /\ Sound(tick'.m)
      PROVE  NativeInv'
  <2>1. /\ row' \in [Message -> RowType]
        /\ \A m \in Message :
             /\ Kept(m) => row'[m].state \in {"dispatching", "uncertain", "presented"} /\ row'[m].ep = row[m].ep
             /\ row'[m].state = "presented" => row[m].state = "presented" \/ state[m] = "presented"
             /\ row'[m].hash = row[m].hash /\ row'[m].pub = row[m].pub
             /\ row[m].state = "none" <=> row'[m].state = "none"
    <3>1. CASE row' = row
      BY <1>1, <3>1 DEF Kept, Begun
    <3>2. ASSUME NEW m \in Message, NEW s \in {"uncertain", "presented"}, row[m].state # "none",
                 SetRow(m, [row[m] EXCEPT !.state = s]), s = "presented" => state[m] = "presented"
          PROVE  /\ row' \in [Message -> RowType]
                 /\ \A k \in Message :
                      /\ Kept(k) => row'[k].state \in {"dispatching", "uncertain", "presented"} /\ row'[k].ep = row[k].ep
                      /\ row'[k].state = "presented" => row[k].state = "presented" \/ state[k] = "presented"
                      /\ row'[k].hash = row[k].hash /\ row'[k].pub = row[k].pub
                      /\ row[k].state = "none" <=> row'[k].state = "none"
      BY <1>8, <3>2 DEF Kept, Begun
    <3> QED
      BY <1>9, <3>1, <3>2
  <2>2. late' \subseteq {"begin_present", "presented", "add"} \X Message \X Endpoint
    BY <1>1, <1>9
  <2>3. \A m \in Message, ep \in Endpoint :
           /\ <<"begin_present", m, ep>> \in late' => <<"begin_present", m, ep>> \in late
           /\ <<"add", m, ep>> \in late' => <<"add", m, ep>> \in late
           /\ <<"presented", m, ep>> \in late' => <<"presented", m, ep>> \in late \/ Sound(m)
    BY <1>9
  <2>4. /\ tick'.pc \in AtMessage => tick'.m \in Message
        /\ tick'.pc \notin {"publish", "pending"}
        /\ tick'.pc \in {"look", "timeout"} => row[tick'.m].state # "none"
        /\ tick'.pc = "receipt" => Sound(tick'.m)
    BY <1>9 DEF AtMessage
  <2> QED
    BY <1>1, <1>9, <2>1, <2>2, <2>3, <2>4, TickKeeps DEF Granting
<1>10. faults \in 0 .. limit.faults /\ faults <= faults /\ (Fault => faults' \in 0 .. limit.faults /\ faults <= faults')
  BY <1>1 DEF Fault
<1>12. ASSUME NEW m \in Message, TickVisit(m)
       PROVE  NativeInv'
  <2>1. /\ UNCHANGED <<state, to, handed, live, late, faults, row, job, queue, consumer, history>>
        /\ At("look", m) /\ row[m].state = "received"
    BY <1>12 DEF TickVisit, hub
  <2> QED
    BY <1>7, <1>9, <1>10, <2>1
<1>13. ASSUME NEW m \in Message, VisitUnrecorded(m)
       PROVE  NativeInv'
  <2>1. /\ UNCHANGED <<state, to, handed, live, late, faults, job, queue, consumer, history>>
        /\ row' = row /\ row[m].state # "none" /\ (Done(m) \/ At("timeout", m))
    BY <1>13 DEF VisitUnrecorded, hub, Begun
  <2> QED
    BY <1>5, <1>7, <1>9, <1>10, <2>1
<1>16. ASSUME NEW m \in Message, MarkUncertain(m)
       PROVE  NativeInv'
  <2>1. /\ UNCHANGED <<state, to, handed, live, late, faults, job, queue, consumer, history>>
        /\ Continue /\ SetRow(m, [row[m] EXCEPT !.state = "uncertain"])
        /\ tick.pc = "timeout" /\ tick.m = m
    BY <1>16 DEF MarkUncertain, hub
  <2>2. row[m].state # "none"
    BY <2>1 DEF Added
  <2> QED
    BY <1>6, <1>9, <1>10, <2>1, <2>2
<1>21. ASSUME NEW m \in Message, VisitPresented(m)
       PROVE  NativeInv'
  <2>1. /\ UNCHANGED <<state, to, handed, live, late, faults, row, job, queue, consumer, history>>
        /\ row[m].state = "presented" /\ (Done(m) \/ At("receipt", m))
    BY <1>21 DEF VisitPresented, hub
  <2>2. Sound(m)
    BY <2>1 DEF Context, Sound, InContext, Kept
  <2> QED
    BY <1>5, <1>7, <1>9, <1>10, <2>1, <2>2
<1>14. ASSUME NEW m \in Message, VisitRecorded(m)
       PROVE  NativeInv'
  <2>1. /\ UNCHANGED <<state, to, handed, live, late, faults, job, queue, consumer, history>>
        /\ row[m].state # "none" /\ Sound(m)
    BY <1>14, RecordedIsInContext DEF VisitRecorded, hub, Kept, Begun, Sound
  <2>2. CASE At("receipt", m) /\ row' = row
    BY <1>7, <1>9, <1>10, <2>1, <2>2
  <2>3. CASE Done(m) /\ (row' = row \/ (state[m] = "presented" /\ SetRow(m, [row[m] EXCEPT !.state = "presented"])))
    BY <1>5, <1>9, <1>10, <2>1, <2>3
  <2> QED
    BY <1>14, <2>2, <2>3 DEF VisitRecorded
<1>15. ASSUME NEW m \in Message, VisitFails(m)
       PROVE  NativeInv'
  BY <1>2, <1>9, <1>10, <1>15 DEF VisitFails
<1>17. CASE TickEnd
  BY <1>2, <1>9, <1>10, <1>17 DEF TickEnd, hub
<1>18. ASSUME tick.pc = "receipt"
       PROVE  /\ tick.m \in Message /\ Sound(tick.m) /\ row[tick.m].ep \in Endpoint
              /\ Receipted(tick.m, row[tick.m].ep) => Kept(tick.m)
  <2>1. tick.m \in Message /\ Sound(tick.m)
    BY <1>18 DEF Shape, Context, AtMessage
  <2>2. row[tick.m].ep \in Endpoint
    BY <1>1, <2>1 DEF RowType
  <2> QED
    BY <2>1, <2>2 DEF Receipted, Sound, Fenced, Granting
<1>19. CASE ReceiptFails
  <2>1. tick' = Waiting /\ UNCHANGED <<row, job, queue, consumer, history>>
    BY <1>19 DEF ReceiptFails
  <2>2. CASE UNCHANGED hub
    BY <1>2, <1>9, <1>10, <2>1, <2>2 DEF hub
  <2>3. CASE Lost("presented", tick.m, row[tick.m].ep)
    <3>1. /\ tick.m \in Message /\ Sound(tick.m) /\ row[tick.m].ep \in Endpoint
          /\ Receipted(tick.m, row[tick.m].ep) => Kept(tick.m)
      BY <1>18, <1>19 DEF ReceiptFails
    <3>2. CASE UNCHANGED <<state, to, handed, live>>
                /\ late' \in {late, late \union {<<"presented", tick.m, row[tick.m].ep>>}}
      BY <1>2, <1>9, <1>10, <2>1, <2>3, <3>1, <3>2 DEF Lost
    <3>3. CASE Receipt(tick.m, row[tick.m].ep) /\ UNCHANGED late
      <4>1. /\ state' = [state EXCEPT ![tick.m] = "presented"] /\ UNCHANGED <<to, handed, live>>
            /\ Kept(tick.m) /\ Fault
        BY <2>3, <3>1, <3>3 DEF Receipt, SetState, Lost
      <4>2. /\ state' \in [Message -> MessageState]
            /\ \A m \in Message :
                 /\ Granting(m) => state'[m] \in {"dispatching", "presented"}
                 /\ state'[m] \in {"dispatching", "presented"} => Granting(m) \/ Kept(m)
            /\ \A m \in Message : state[m] = "presented" => state'[m] = "presented"
            /\ \A m \in Message : state'[m] = "presented" => state[m] = "presented" \/ InContext(m)
        BY <1>1, <3>1, <4>1 DEF MessageState, Granting, Sound
      <4>3. \A m \in Message : /\ Kept(m) => row'[m].state \in {"dispatching", "uncertain", "presented"}
                                            /\ row'[m].ep = row[m].ep
                               /\ row'[m] = row[m]
        BY <2>1 DEF Kept, Begun
      <4>4. row' \in [Message -> RowType] /\ tick' \in TickType /\ tick'.pc \notin AtMessage
        BY <1>1, <1>2, <2>1 DEF AtMessage
      <4>5. faults' \in 0 .. limit.faults /\ faults <= faults'
        BY <1>10, <4>1
      <4>6. /\ late' = late
            /\ tick'.pc \notin {"publish", "pending"} /\ tick'.pc \notin {"look", "timeout"} /\ tick'.pc # "receipt"
        BY <3>3, <4>4 DEF AtMessage
      <4> QED
        BY <1>1, <2>1, <4>1, <4>2, <4>3, <4>4, <4>5, <4>6, TickKeeps
    <3> QED
      BY <2>3, <3>2, <3>3 DEF Lost
  <2> QED
    BY <1>19, <2>2, <2>3 DEF ReceiptFails
<1>20. ASSUME NEW m \in Message, ReceiptSent(m)
       PROVE  NativeInv'
  <2>1. m = tick.m /\ InContext(m) /\ Kept(m)
    BY <1>18, <1>20 DEF ReceiptSent, Receipt, Sound
  <2>2. /\ state' = [state EXCEPT ![m] = "presented"]
        /\ UNCHANGED <<to, handed, live, late, faults, job, queue, consumer, history>>
        /\ SetRow(m, [row[m] EXCEPT !.state = "presented"]) /\ Continue
    BY <1>20 DEF ReceiptSent, Receipt, SetState
  <2>3. /\ state' \in [Message -> MessageState]
        /\ \A k \in Message :
             /\ Granting(k) => state'[k] \in {"dispatching", "presented"}
             /\ state'[k] \in {"dispatching", "presented"} => Granting(k) \/ Kept(k)
        /\ \A k \in Message : state[k] = "presented" => state'[k] = "presented"
        /\ \A k \in Message : state'[k] = "presented" => state[k] = "presented" \/ InContext(k)
        /\ state'[m] = "presented"
    BY <1>1, <2>1, <2>2 DEF MessageState, Granting
  <2>4. /\ row' \in [Message -> RowType]
        /\ row'[m].state = "presented" /\ \A k \in Message \ {m} : row'[k] = row[k]
        /\ \A k \in Message : /\ row'[k].hash = row[k].hash /\ row'[k].pub = row[k].pub
                              /\ row'[k].ep = row[k].ep
    BY <1>8, <2>2
  <2>6. \A k \in Message :
          /\ Kept(k) => row'[k].state \in {"dispatching", "uncertain", "presented"} /\ row'[k].ep = row[k].ep
          /\ row'[k].state = "presented" => row[k].state = "presented" \/ state'[k] = "presented"
          /\ row[k].state = "none" <=> row'[k].state = "none"
    BY <2>1, <2>3, <2>4 DEF Kept, Begun
  <2>7. tick' \in TickType /\ tick'.pc \notin AtMessage
    BY <1>6, <2>2 DEF AtMessage
  <2>8. tick'.pc \notin {"publish", "pending"} /\ tick'.pc \notin {"look", "timeout"} /\ tick'.pc # "receipt"
    BY <2>7 DEF AtMessage
  <2> QED
    BY <1>1, <1>10, <2>2, <2>3, <2>4, <2>6, <2>7, <2>8, TickKeeps
<1> QED
  BY <1>12, <1>13, <1>14, <1>15, <1>16, <1>17, <1>19, <1>20, <1>21 DEF TickStep

-----------------------------------------------------------------------------
(* The hooks                                                                *)

HookType == [pc : {"idle", "reserve", "ask", "unknown", "stale_session", "return"},
             ep : Endpoint, ref : Message \union {None}, todo : SUBSET Message,
             m : Message \union {None}, pub : Publication, got : SUBSET Message]

(* A hook reserves rows and records contexts, and publishes nothing.        *)
LEMMA HookKeeps ==
  ASSUME NativeInv, UNCHANGED <<to, handed, live, publication, history>>,
         state' \in [Message -> MessageState], faults' \in 0 .. limit.faults, faults <= faults',
         row' \in [Message -> RowType], hook' \in [Hook -> HookType],
         late' \subseteq {"begin_present", "presented", "add"} \X Message \X Endpoint,
         returned' \in [Message -> Nat],
         recorded' \subseteq Message \X SUBSET Message, recorded \subseteq recorded',
         Shape', Bodies', Fenced',
         \A m \in Message :
           /\ state[m] = "presented" <=> state'[m] = "presented"
           /\ row'[m].state = "presented" => row[m].state = "presented"
           /\ Kept(m) => row'[m].state \in {"dispatching", "uncertain", "presented"}
           /\ row'[m].hash = row[m].hash \/ m \in row'[m].hash
           /\ row'[m].pub = row[m].pub
           /\ row[m].state = "none" <=> row'[m].state = "none",
         \A m \in Message, ep \in Endpoint :
           /\ <<"add", m, ep>> \in late' => <<"add", m, ep>> \in late
           /\ <<"presented", m, ep>> \in late' => <<"presented", m, ep>> \in late
  PROVE  NativeInv'
<1> USE DEF NativeInv, publication, history
<1>1. TypeOK'
  <2>1. kills \in 0 .. faults'
    BY NativeAssumption DEF TypeOK, Limit
  <2> QED
    BY <2>1 DEF TypeOK, JournalTypeOK, PublicationTypeOK, ConsumerTypeOK, RowType, HookType
<1>2. Context'
  <2>1. \A m \in Message : state'[m] = "presented" => InContext(m)
    BY DEF Context
  <2>2. live = 1 => handed = {}
    BY DEF Context
  <2> QED
    BY <2>1, <2>2, ContextStays
<1>3. Added'
  <2>1. queue' \in [Message -> 0 .. MaxQueue] /\ \A m \in Message : queue'[m] <= queue[m]
    BY NativePublicationAssumption DEF TypeOK, PublicationTypeOK
  <2> QED
    BY <2>1, AddedStays
<1> QED
  BY <1>1, <1>2, <1>3

LEMMA HookOK ==
  ASSUME NativeInv, NEW h \in Hook, HookStep(h), UNCHANGED <<publication, history>>
  PROVE  NativeInv'
<1> USE DEF NativeInv
<1>1. /\ state \in [Message -> MessageState] /\ to \in [Message -> Endpoint]
      /\ handed \subseteq Message /\ live \in Endpoint
      /\ faults \in 0 .. limit.faults /\ limit.faults \in Nat
      /\ late \subseteq {"begin_present", "presented", "add"} \X Message \X Endpoint
      /\ row \in [Message -> RowType] /\ hook \in [Hook -> HookType]
      /\ returned \in [Message -> Nat] /\ recorded \subseteq Message \X SUBSET Message
  BY Rows, NativeAssumption DEF TypeOK, JournalTypeOK, ConsumerTypeOK, Limit, HookType
<1>2. UNCHANGED <<tick, job, queue, kills, acked, limit>>
  BY DEF publication, history
<1>3. NoHook \in HookType /\ NoHook.pc = "idle" /\ NoHook.got = {} /\ NoHook.ep = 1
  BY DEF NoHook, HookType, Endpoint, Publication
<1>4. ASSUME NEW v \in HookType, SetHook(h, v)
      PROVE  /\ hook' \in [Hook -> HookType]
             /\ hook'[h] = v /\ \A g \in Hook \ {h} : hook'[g] = hook[g]
  BY <1>1, <1>4 DEF SetHook
<1>5. live \in {1, 2} /\ hook[h] \in HookType /\ hook[h].ep <= live
  BY <1>1 DEF Endpoint, Fenced
<1>6. hook[h].pc # "idle" => hook[h].ref \in Message
  BY DEF Shape
<1>7. hook[h].pc \in {"ask", "unknown", "stale_session"} => hook[h].m \in Message
  BY DEF Shape
(* A hook that goes on, without a new body and a new ask.                   *)
<1>8. ASSUME NEW v \in HookType, SetHook(h, v), v.got \subseteq hook[h].got, v.ep <= live,
             v.pc # "ask", v.pc # "idle" => v.ref \in Message,
             v.pc \in {"unknown", "stale_session"} => v.m \in Message,
             UNCHANGED <<state, to, handed, live, returned, recorded>>,
             faults' \in 0 .. limit.faults, faults <= faults',
             row' \in [Message -> RowType],
             late' \subseteq {"begin_present", "presented", "add"} \X Message \X Endpoint,
             \A m \in Message :
               /\ Kept(m) => row'[m].state \in {"dispatching", "uncertain", "presented"} /\ row'[m].ep = row[m].ep
               /\ row'[m].state = "presented" => row[m].state = "presented"
               /\ row'[m].hash = row[m].hash \/ m \in row'[m].hash
               /\ row'[m].pub = row[m].pub
               /\ row[m].state = "none" <=> row'[m].state = "none",
             \A m \in Message, ep \in Endpoint :
               /\ <<"add", m, ep>> \in late' => <<"add", m, ep>> \in late
               /\ <<"presented", m, ep>> \in late' => <<"presented", m, ep>> \in late
               /\ <<"begin_present", m, ep>> \in late' =>
                    \/ <<"begin_present", m, ep>> \in late
                    \/ hook[h].pc = "ask" /\ hook[h].m = m /\ hook[h].ep = ep
      PROVE  NativeInv'
  <2>1. /\ hook' \in [Hook -> HookType]
        /\ hook'[h] = v /\ \A g \in Hook \ {h} : hook'[g] = hook[g]
    BY <1>4, <1>8
  <2>2. Shape'
    BY <1>2, <1>8, <2>1 DEF Shape
  <2>3. Bodies'
    <3>1. \A g \in Hook : hook'[g].got \subseteq hook[g].got
      BY <1>8, <2>1
    <3> QED
      BY <1>8, <3>1, BodiesStay DEF Granting
  <2>4. Fenced'
    <3>1. \A g \in Hook : hook'[g].ep <= live /\ (hook'[g].pc = "ask" => hook'[g] = hook[g])
      BY <1>8, <2>1 DEF Fenced
    <3> QED
      BY <1>8, <3>1, FencedStay DEF Granting
  <2> QED
    BY <1>1, <1>8, <2>1, <2>2, <2>3, <2>4, HookKeeps
<1>9. faults \in 0 .. limit.faults /\ faults <= faults /\ (Fault => faults' \in 0 .. limit.faults /\ faults <= faults')
  BY <1>1 DEF Fault
<1>10. /\ row \in [Message -> RowType]
       /\ \A m \in Message :
             Kept(m) => row[m].state \in {"dispatching", "uncertain", "presented"} /\ row[m].ep = row[m].ep
  BY <1>1 DEF Kept, Begun
<1>11. ASSUME UNCHANGED <<state, to, handed, live, late, faults, row, returned, recorded>>,
              NEW v \in HookType, SetHook(h, v), v.got \subseteq hook[h].got, v.ep <= live,
              v.pc # "ask", v.pc # "idle" => v.ref \in Message,
              v.pc \in {"unknown", "stale_session"} => v.m \in Message
       PROVE  NativeInv'
  BY <1>1, <1>8, <1>9, <1>10, <1>11
(* A message that is left out.                                              *)
<1>21. ASSUME NEW m \in Message, Skip(h, m), hook[h].pc = "reserve", hook[h].ref \in Message,
              UNCHANGED <<state, to, handed, live, late, returned, recorded>>,
              faults' \in 0 .. limit.faults, faults <= faults'
       PROVE  NativeInv'
  <2>1. CASE row' = row /\ Ends(h)
    BY <1>1, <1>3, <1>5, <1>8, <1>10, <1>21, <2>1 DEF Ends
  <2>2. CASE row' = row /\ SetHook(h, [hook[h] EXCEPT !.todo = @ \ {m}])
    <3>1. /\ [hook[h] EXCEPT !.todo = @ \ {m}] \in HookType
          /\ [hook[h] EXCEPT !.todo = @ \ {m}].pc = "reserve"
          /\ [hook[h] EXCEPT !.todo = @ \ {m}].ref = hook[h].ref
          /\ [hook[h] EXCEPT !.todo = @ \ {m}].ep = hook[h].ep
          /\ [hook[h] EXCEPT !.todo = @ \ {m}].got = hook[h].got
      BY <1>5, <1>21 DEF HookType
    <3> QED
      BY <1>1, <1>5, <1>8, <1>10, <1>21, <2>2, <3>1
  <2> QED
    BY <1>21, <2>1, <2>2 DEF Skip
<1>12. CASE Reserve(h)
  <2>1. PICK m \in Message :
          /\ NextOf(h, m)
          /\ \/ /\ row[m].state = "received" /\ row[m].ep = hook[h].ep
                /\ SetRow(m, [row[m] EXCEPT !.state = "dispatching", !.ref = hook[h].ref])
                /\ SetHook(h, [hook[h] EXCEPT !.pc = "ask", !.m = m, !.pub = row[m].pub, !.todo = @ \ {m}])
             \/ Skip(h, m)
    BY <1>12 DEF Reserve
  <2>2. /\ UNCHANGED <<state, to, handed, live, late, faults, returned, recorded>>
        /\ hook[h].pc = "reserve" /\ hook[h].ref \in Message
    BY <1>6, <1>12 DEF Reserve, hub
  <2>3. CASE /\ row[m].state = "received" /\ row[m].ep = hook[h].ep
             /\ SetRow(m, [row[m] EXCEPT !.state = "dispatching", !.ref = hook[h].ref])
             /\ SetHook(h, [hook[h] EXCEPT !.pc = "ask", !.m = m, !.pub = row[m].pub, !.todo = @ \ {m}])
    <3> DEFINE v == [hook[h] EXCEPT !.pc = "ask", !.m = m, !.pub = row[m].pub, !.todo = @ \ {m}]
    <3>1. row[m] \in RowType
      BY <1>1
    <3>2. /\ v \in HookType /\ v.pc = "ask" /\ v.m = m /\ v.ep = hook[h].ep /\ v.got = hook[h].got
          /\ v.ref = hook[h].ref
      BY <1>5, <3>1 DEF HookType, RowType
    <3>3. /\ hook' \in [Hook -> HookType]
          /\ hook'[h] = v /\ \A g \in Hook \ {h} : hook'[g] = hook[g]
      BY <1>4, <2>3, <3>2
    <3> HIDE DEF v
    <3>4. [row[m] EXCEPT !.state = "dispatching", !.ref = hook[h].ref] \in RowType
      BY <2>2, <3>1 DEF RowType, RowState
    <3>5. /\ row' \in [Message -> RowType]
          /\ row'[m] = [row[m] EXCEPT !.state = "dispatching", !.ref = hook[h].ref]
          /\ \A k \in Message \ {m} : row'[k] = row[k]
      BY <1>1, <2>3, <3>4 DEF SetRow
    <3>6. /\ row'[m].state = "dispatching" /\ row'[m].ep = hook[h].ep
          /\ row'[m].hash = row[m].hash /\ row'[m].pub = row[m].pub
      BY <2>3, <3>1, <3>5 DEF RowType
    <3>7. Shape'
      BY <1>2, <2>2, <3>2, <3>3 DEF Shape
    <3>8. Bodies'
      <4>1. \A g \in Hook : hook'[g].got \subseteq hook[g].got
        BY <3>2, <3>3
      <4> QED
        BY <2>2, <4>1, BodiesStay DEF Granting
    <3>9. Fenced'
      <4>1. ~Kept(m)
        BY <2>3 DEF Kept, Begun
      <4>2. \A k \in Message : Kept(k) =>
              row'[k].state \in {"dispatching", "uncertain", "presented"} /\ row'[k].ep = row[k].ep
        BY <3>5, <4>1 DEF Kept, Begun
      <4>3. \A g \in Hook : hook[g].pc = "ask" => hook[g].m \in Message
        BY DEF Shape
      <4>4. \A g \in Hook \ {h} :
              /\ hook'[g].ep <= live
              /\ hook'[g].pc = "ask" /\ hook'[g].ep = live =>
                   /\ row'[hook'[g].m].state \in {"dispatching", "uncertain", "presented"}
                   /\ row'[hook'[g].m].ep = live
        BY <3>3, <4>2, <4>3 DEF Fenced
      <4>5. hook'[h].ep <= live /\ row'[hook'[h].m].state = "dispatching" /\ row'[hook'[h].m].ep = hook'[h].ep
        BY <1>5, <3>2, <3>3, <3>6
      <4>6. \A k \in Message, ep \in Endpoint : <<"begin_present", k, ep>> \in late =>
              ep <= live /\ (ep = live => row'[k].state \in {"dispatching", "uncertain", "presented"} /\ row'[k].ep = live)
        BY <4>2 DEF Fenced
      <4>7. \A k \in Message : Granting(k) => row'[k].state \in {"dispatching", "uncertain", "presented"}
        BY <4>2 DEF Fenced
      <4> QED
        BY <2>2, <4>4, <4>5, <4>6, <4>7 DEF Fenced, Kept, Begun, Granting
    <3>10. \A k \in Message :
             /\ row'[k].state = "presented" => row[k].state = "presented"
             /\ Kept(k) => row'[k].state \in {"dispatching", "uncertain", "presented"}
             /\ row'[k].hash = row[k].hash \/ k \in row'[k].hash
             /\ row'[k].pub = row[k].pub
             /\ row[k].state = "none" <=> row'[k].state = "none"
      BY <2>3, <3>5, <3>6 DEF Kept, Begun
    <3> QED
      BY <1>1, <1>9, <2>2, <3>3, <3>5, <3>7, <3>8, <3>9, <3>10, HookKeeps
  <2>4. CASE Skip(h, m)
    BY <1>9, <1>21, <2>2, <2>4
  <2> QED
    BY <2>1, <2>3, <2>4
<1>22. CASE ReserveRaced(h)
  <2>1. PICK m \in Message : Skip(h, m)
    BY <1>22 DEF ReserveRaced
  <2>2. /\ UNCHANGED <<state, to, handed, live, late, returned, recorded>>
        /\ hook[h].pc = "reserve" /\ hook[h].ref \in Message
        /\ faults' \in 0 .. limit.faults /\ faults <= faults'
    BY <1>6, <1>9, <1>22 DEF ReserveRaced
  <2> QED
    BY <1>21, <2>1, <2>2
<1>13. CASE Grant(h)
  <2> DEFINE m == hook[h].m
             v == [hook[h] EXCEPT !.pc = "reserve", !.got = @ \union {hook[h].m}]
  <2>1. /\ hook[h].pc = "ask" /\ m \in Message /\ hook[h].ref \in Message
        /\ state[m] = "open" /\ hook[h].ep = live
        /\ state' = [state EXCEPT ![m] = "dispatching"]
        /\ UNCHANGED <<to, handed, live, late, faults, row, returned, recorded>>
        /\ SetHook(h, v)
    BY <1>6, <1>7, <1>13 DEF Grant, BeginPresent, Granted, Current, SetState
  <2>2. /\ v \in HookType /\ v.pc = "reserve" /\ v.ref = hook[h].ref /\ v.ep = live
        /\ v.got = hook[h].got \union {m}
    BY <1>5, <2>1 DEF HookType
  <2>3. /\ hook' \in [Hook -> HookType]
        /\ hook'[h] = v /\ \A g \in Hook \ {h} : hook'[g] = hook[g]
    BY <1>4, <2>1, <2>2
  <2> HIDE DEF v, m
  <2>4. /\ state' \in [Message -> MessageState] /\ state'[m] = "dispatching"
        /\ \A k \in Message \ {m} : state'[k] = state[k]
    BY <1>1, <2>1 DEF MessageState
  <2>5. Shape'
    BY <1>2, <2>1, <2>2, <2>3 DEF Shape
  <2>6. Bodies'
    <3>1. returned[m] = 0 /\ \A g \in Hook : m \notin hook[g].got
      BY <1>1, <2>1 DEF Bodies, Granting
    <3>2. \A g \in Hook : hook[g].got \subseteq Message
      BY <1>1 DEF HookType
    <3>3. \A k \in Message : Granting(k) => state'[k] \in {"dispatching", "presented"}
      BY <2>1, <2>4 DEF Granting
    <3>4. \A k \in Message : returned'[k] <= 1 /\ (returned'[k] > 0 => state'[k] \in {"dispatching", "presented"})
      BY <2>1, <3>3 DEF Bodies
    <3>5. \A g \in Hook : \A k \in hook'[g].got :
            /\ state'[k] \in {"dispatching", "presented"} /\ returned'[k] = 0
            /\ \A f \in Hook \ {g} : k \notin hook'[f].got
      <4>1. ASSUME NEW g \in Hook, NEW k \in hook'[g].got
            PROVE  /\ state'[k] \in {"dispatching", "presented"} /\ returned'[k] = 0
                   /\ \A f \in Hook \ {g} : k \notin hook'[f].got
        <5>1. CASE k = m
          <6>1. g = h
            BY <2>3, <3>1, <4>1, <5>1
          <6> QED
            BY <2>1, <2>3, <2>4, <3>1, <5>1, <6>1
        <5>2. CASE k # m
          <6>1. k \in hook[g].got /\ k \in Message
            BY <2>2, <2>3, <3>2, <4>1, <5>2
          <6>2. Granting(k) /\ returned[k] = 0 /\ \A f \in Hook \ {g} : k \notin hook[f].got
            BY <6>1 DEF Bodies
          <6> QED
            BY <2>1, <2>2, <2>3, <3>3, <5>2, <6>1, <6>2
        <5> QED
          BY <5>1, <5>2
      <4> QED
        BY <4>1
    <3> QED
      BY <3>4, <3>5 DEF Bodies, Granting
  <2>7. Fenced'
    <3>1. Kept(m)
      BY <2>1 DEF Fenced, m
    <3>2. \A k \in Message : state'[k] \in {"dispatching", "presented"} => Granting(k) \/ Kept(k)
      BY <2>1, <2>4, <3>1 DEF Granting
    <3>3. \A g \in Hook : hook'[g].ep <= live /\ (hook'[g].pc = "ask" => hook'[g] = hook[g])
      BY <1>5, <2>1, <2>2, <2>3 DEF Fenced
    <3> QED
      BY <1>10, <2>1, <3>2, <3>3, FencedStay
  <2> QED
    BY <1>1, <1>9, <1>10, <2>1, <2>3, <2>4, <2>5, <2>6, <2>7, HookKeeps
<1>14. CASE Refuse(h)
  <2>1. /\ UNCHANGED <<state, to, handed, live, late, faults, row, returned, recorded>>
        /\ hook[h].pc = "ask" /\ hook[h].m \in Message /\ hook[h].ref \in Message
    BY <1>6, <1>7, <1>14 DEF Refuse, hub
  <2>2. PICK pc \in {"unknown", "stale_session"} : SetHook(h, [hook[h] EXCEPT !.pc = pc])
    BY <1>14 DEF Refuse
  <2>3. /\ [hook[h] EXCEPT !.pc = pc] \in HookType /\ [hook[h] EXCEPT !.pc = pc].pc = pc
        /\ [hook[h] EXCEPT !.pc = pc].got = hook[h].got /\ [hook[h] EXCEPT !.pc = pc].ep = hook[h].ep
        /\ [hook[h] EXCEPT !.pc = pc].ref = hook[h].ref /\ [hook[h] EXCEPT !.pc = pc].m = hook[h].m
    BY <1>5 DEF HookType
  <2> QED
    BY <1>5, <1>11, <2>1, <2>2, <2>3
<1>15. CASE AskLost(h)
  <2> DEFINE v == [hook[h] EXCEPT !.pc = "unknown"]
  <2>1. /\ hook[h].pc = "ask" /\ hook[h].m \in Message /\ hook[h].ref \in Message
        /\ Lost("begin_present", hook[h].m, hook[h].ep) /\ Fault
        /\ UNCHANGED <<row, returned, recorded>> /\ SetHook(h, v)
    BY <1>6, <1>7, <1>15 DEF AskLost, Lost
  <2>2. /\ v \in HookType /\ v.pc = "unknown" /\ v.ref = hook[h].ref /\ v.ep = hook[h].ep
        /\ v.got = hook[h].got /\ v.m = hook[h].m /\ hook[h].ep \in Endpoint
    BY <1>5 DEF HookType
  <2>3. /\ hook' \in [Hook -> HookType]
        /\ hook'[h] = v /\ \A g \in Hook \ {h} : hook'[g] = hook[g]
    BY <1>4, <2>1, <2>2
  <2> HIDE DEF v
  <2>4. CASE /\ late' \in {late, late \union {<<"begin_present", hook[h].m, hook[h].ep>>}}
             /\ UNCHANGED <<state, to, handed, live>>
    <3>1. late' \subseteq {"begin_present", "presented", "add"} \X Message \X Endpoint
      BY <1>1, <2>1, <2>2, <2>4
    <3>2. \A m \in Message, ep \in Endpoint :
               /\ <<"add", m, ep>> \in late' => <<"add", m, ep>> \in late
               /\ <<"presented", m, ep>> \in late' => <<"presented", m, ep>> \in late
               /\ <<"begin_present", m, ep>> \in late' =>
                    \/ <<"begin_present", m, ep>> \in late
                    \/ hook[h].pc = "ask" /\ hook[h].m = m /\ hook[h].ep = ep
      BY <2>1, <2>4
    <3> QED
      BY <1>5, <1>8, <1>9, <1>10, <2>1, <2>2, <2>4, <3>1, <3>2
  <2>5. CASE BeginPresent(hook[h].m, hook[h].ep) /\ UNCHANGED late
    <3>1. /\ state[hook[h].m] = "open" /\ hook[h].ep = live
          /\ state' = [state EXCEPT ![hook[h].m] = "dispatching"]
          /\ UNCHANGED <<to, handed, live, late>>
      BY <2>5 DEF BeginPresent, Granted, Current, SetState
    <3>2. /\ state' \in [Message -> MessageState] /\ state'[hook[h].m] = "dispatching"
          /\ \A k \in Message \ {hook[h].m} : state'[k] = state[k]
      BY <1>1, <2>1, <3>1 DEF MessageState
    <3>3. Shape'
      BY <1>2, <2>1, <2>2, <2>3 DEF Shape
    <3>4. Bodies'
      <4>1. \A g \in Hook : hook'[g].got \subseteq hook[g].got
        BY <2>2, <2>3
      <4>2. \A k \in Message : Granting(k) => state'[k] \in {"dispatching", "presented"}
        BY <3>1, <3>2 DEF Granting
      <4> QED
        BY <2>1, <4>1, <4>2, BodiesStay
    <3>5. Fenced'
      <4>1. Kept(hook[h].m)
        BY <2>1, <3>1 DEF Fenced
      <4>2. \A k \in Message : state'[k] \in {"dispatching", "presented"} => Granting(k) \/ Kept(k)
        BY <2>1, <3>2, <4>1 DEF Granting
      <4>3. \A g \in Hook : hook'[g].ep <= live /\ (hook'[g].pc = "ask" => hook'[g] = hook[g])
        BY <1>5, <2>2, <2>3 DEF Fenced
      <4> QED
        BY <1>10, <2>1, <3>1, <4>2, <4>3, FencedStay
    <3> QED
      BY <1>1, <1>9, <1>10, <2>1, <2>3, <3>1, <3>2, <3>3, <3>4, <3>5, HookKeeps
  <2> QED
    BY <2>1, <2>4, <2>5 DEF Lost
<1>16. ASSUME hook[h].pc \in {"unknown", "stale_session"}
       PROVE  /\ [hook[h] EXCEPT !.pc = "reserve"] \in HookType
              /\ [hook[h] EXCEPT !.pc = "reserve"].pc = "reserve"
              /\ [hook[h] EXCEPT !.pc = "reserve"].got = hook[h].got
              /\ [hook[h] EXCEPT !.pc = "reserve"].ep = hook[h].ep
              /\ [hook[h] EXCEPT !.pc = "reserve"].ref = hook[h].ref
  BY <1>5 DEF HookType
<1>17. CASE Undo(h)
  <2>1. /\ UNCHANGED <<state, to, handed, live, late, faults, returned, recorded>>
        /\ hook[h].pc \in {"unknown", "stale_session"}
        /\ hook[h].m \in Message /\ hook[h].ref \in Message
        /\ Ends(h) \/ SetHook(h, [hook[h] EXCEPT !.pc = "reserve"])
    BY <1>6, <1>7, <1>17 DEF Undo, hub
  <2>2. PICK v \in {NoHook, [hook[h] EXCEPT !.pc = "reserve"]} : SetHook(h, v)
    BY <2>1 DEF Ends
  <2>3. /\ v \in HookType /\ v.got \subseteq hook[h].got /\ v.ep <= live /\ v.pc \in {"idle", "reserve"}
        /\ v.pc # "idle" => v.ref \in Message
    <3>1. CASE v = NoHook
      BY <1>3, <1>5, <3>1
    <3>2. CASE v = [hook[h] EXCEPT !.pc = "reserve"]
      <4> DEFINE w == [hook[h] EXCEPT !.pc = "reserve"]
      <4>1. /\ w \in HookType /\ w.pc = "reserve" /\ w.got = hook[h].got
            /\ w.ep = hook[h].ep /\ w.ref = hook[h].ref
        BY <1>16, <2>1
      <4>2. v = w
        BY <3>2
      <4> HIDE DEF w
      <4> QED
        BY <1>5, <2>1, <4>1, <4>2
    <3> QED
      BY <3>1, <3>2
  <2>4. /\ row' \in [Message -> RowType]
        /\ \A k \in Message :
             /\ row'[k] = row[k] \/ (row[k].state = "dispatching" /\ row'[k].state = "uncertain")
             /\ row'[k].ep = row[k].ep /\ row'[k].hash = row[k].hash /\ row'[k].pub = row[k].pub
    <3>1. CASE row' = row
      BY <1>1, <3>1
    <3>2. CASE row' # row
      <4> DEFINE w == [row[hook[h].m] EXCEPT !.state = "uncertain", !.tried = hook[h].pc]
      <4>1. row[hook[h].m].state = "dispatching" /\ row' = [row EXCEPT ![hook[h].m] = w]
        BY <1>17, <3>2 DEF Undo, SetRow
      <4>2. row[hook[h].m] \in RowType
        BY <1>1, <2>1
      <4>3. /\ w \in RowType /\ w.state = "uncertain" /\ w.ep = row[hook[h].m].ep
            /\ w.hash = row[hook[h].m].hash /\ w.pub = row[hook[h].m].pub
        BY <2>1, <4>2 DEF RowType, RowState
      <4> HIDE DEF w
      <4> QED
        BY <1>1, <2>1, <4>1, <4>3
    <3> QED
      BY <3>1, <3>2
  <2>5. \A m \in Message :
           /\ Kept(m) => row'[m].state \in {"dispatching", "uncertain", "presented"} /\ row'[m].ep = row[m].ep
           /\ row'[m].state = "presented" => row[m].state = "presented"
           /\ row'[m].hash = row[m].hash \/ m \in row'[m].hash
           /\ row'[m].pub = row[m].pub
           /\ row[m].state = "none" <=> row'[m].state = "none"
    BY <2>4 DEF Kept, Begun
  <2> QED
    BY <1>1, <1>8, <1>9, <2>1, <2>2, <2>3, <2>4, <2>5
<1>18. CASE Commit(h)
  <2> DEFINE v == [hook[h] EXCEPT !.pc = "return"]
  <2>1. /\ UNCHANGED <<state, to, handed, live, late, faults, returned, recorded>>
        /\ hook[h].pc = "reserve" /\ hook[h].ref \in Message /\ SetHook(h, v)
        /\ row' = [m \in Message |-> IF m \in hook[h].got /\ Begun(m)
                                      THEN [row[m] EXCEPT !.hash = hook[h].got] ELSE row[m]]
    BY <1>6, <1>18 DEF Commit, hub
  <2>2. /\ v \in HookType /\ v.pc = "return" /\ v.ref = hook[h].ref /\ v.ep = hook[h].ep
        /\ v.got = hook[h].got /\ hook[h].got \subseteq Message
    BY <1>5 DEF HookType
  <2> HIDE DEF v
  <2>3. ASSUME NEW m \in Message
        PROVE  /\ row'[m] \in RowType /\ row'[m].state = row[m].state /\ row'[m].ep = row[m].ep
               /\ row'[m].pub = row[m].pub
               /\ row'[m].hash = row[m].hash \/ m \in row'[m].hash
    <3>1. row[m] \in RowType
      BY <1>1
    <3> QED
      BY <2>1, <2>2, <3>1 DEF RowType
  <2>4. row' \in [Message -> RowType]
    <3>1. row' = [m \in Message |-> row'[m]]
      BY <2>1
    <3> QED
      BY <2>3, <3>1
  <2> QED
    BY <1>1, <1>5, <1>8, <1>9, <2>1, <2>2, <2>3, <2>4 DEF Kept, Begun
<1>19. CASE Return(h)
  <2>1. /\ UNCHANGED <<state, to, handed, live, late, faults, row>>
        /\ hook[h].pc = "return" /\ hook[h].ref \in Message /\ SetHook(h, NoHook)
        /\ returned' = [m \in Message |-> returned[m] + (IF m \in hook[h].got THEN 1 ELSE 0)]
        /\ recorded' \in {recorded, recorded \union {<<hook[h].ref, hook[h].got>>}}
    BY <1>6, <1>19 DEF Return, Ends, hub
  <2>2. /\ hook' \in [Hook -> HookType]
        /\ hook'[h] = NoHook /\ \A g \in Hook \ {h} : hook'[g] = hook[g]
    BY <1>3, <1>4, <2>1
  <2>3. hook[h].got \subseteq Message
    BY <1>5 DEF HookType
  <2>4. /\ recorded' \subseteq Message \X SUBSET Message /\ recorded \subseteq recorded'
        /\ returned' \in [Message -> Nat]
    BY <1>1, <2>1, <2>3
  <2>5. Shape'
    BY <1>2, <1>3, <2>1, <2>2 DEF Shape
  <2>6. Bodies'
    <3>1. ASSUME NEW m \in Message
          PROVE  returned'[m] <= 1 /\ (returned'[m] > 0 => Granting(m))
      <4>1. returned[m] \in Nat /\ returned[m] <= 1 /\ (returned[m] > 0 => Granting(m))
        BY <1>1 DEF Bodies
      <4>2. CASE m \in hook[h].got
        <5>1. returned[m] = 0 /\ Granting(m) /\ returned'[m] = 1
          BY <2>1, <4>1, <4>2 DEF Bodies
        <5> QED
          BY <5>1
      <4>3. CASE m \notin hook[h].got
        <5>1. returned'[m] = returned[m]
          BY <2>1, <4>1, <4>3
        <5> QED
          BY <4>1, <5>1
      <4> QED
        BY <4>2, <4>3
    <3>2. ASSUME NEW g \in Hook, NEW m \in hook'[g].got
          PROVE  Granting(m) /\ returned'[m] = 0 /\ \A f \in Hook \ {g} : m \notin hook'[f].got
      <4>1. g # h /\ m \in hook[g].got
        BY <1>3, <2>2, <3>2
      <4>2. m \in Message /\ returned[m] = 0 /\ Granting(m) /\ \A f \in Hook \ {g} : m \notin hook[f].got
        BY <1>1, <4>1 DEF Bodies, HookType
      <4>3. returned'[m] = 0
        BY <2>1, <4>1, <4>2
      <4> QED
        BY <1>3, <2>2, <4>2, <4>3
    <3>3. state' = state
      BY <2>1
    <3> QED
      BY <3>1, <3>2, <3>3 DEF Bodies, Granting
  <2>7. Fenced'
    <3>1. \A g \in Hook : hook'[g].ep <= live /\ (hook'[g].pc = "ask" => hook'[g] = hook[g])
      BY <1>3, <1>5, <2>2 DEF Fenced
    <3> QED
      BY <1>10, <2>1, <3>1, FencedStay DEF Granting
  <2> QED
    BY <1>1, <1>9, <1>10, <2>1, <2>2, <2>4, <2>5, <2>6, <2>7, HookKeeps
<1> QED
  BY <1>12, <1>13, <1>14, <1>15, <1>17, <1>18, <1>19, <1>22 DEF HookStep

-----------------------------------------------------------------------------
(* The conversation and the host's end                                      *)

LEMMA BlockedOK ==
  ASSUME NativeInv, NEW m \in Message, Blocked(m)
  PROVE  NativeInv'
<1> USE DEF NativeInv
<1>1. /\ UNCHANGED <<state, to, handed, live, late, row, tick, job, hook, returned, recorded, kills, acked, limit>>
      /\ queue' = [queue EXCEPT ![m] = @ - 1] /\ queue[m] > 0
  BY DEF Blocked, TakeReference, consumer, history
<1>2. faults' \in 0 .. limit.faults /\ kills \in 0 .. faults'
  <2>1. faults \in 0 .. limit.faults /\ kills \in 0 .. faults /\ limit.faults \in Nat
    BY NativeAssumption DEF TypeOK, Limit
  <2>2. faults' = faults \/ (faults < limit.faults /\ faults' = faults + 1)
    BY DEF Blocked, Fault
  <2> QED
    BY <2>1, <2>2
<1>3. queue' \in [Message -> 0 .. MaxQueue] /\ \A k \in Message : queue'[k] <= queue[k]
  <2>1. queue \in [Message -> 0 .. MaxQueue] /\ MaxQueue \in Nat
    BY NativePublicationAssumption DEF TypeOK, PublicationTypeOK
  <2> QED
    BY <1>1, <2>1
<1>4. Bodies' /\ Fenced' /\ Context' /\ JournalTypeOK'
  <2>1. RowsKept
    BY <1>1, Rows DEF RowsKept
  <2> QED
    BY <1>1, <1>2, <2>1, PublisherKeeps
<1>5. TypeOK'
  BY <1>1, <1>2, <1>3, <1>4 DEF TypeOK, PublicationTypeOK, ConsumerTypeOK
<1>6. Shape'
  BY <1>1 DEF Shape
<1>7. Added'
  BY <1>1, <1>3, AddedStays
<1> QED
  BY <1>4, <1>5, <1>6, <1>7

(* An acknowledgement closes the row, reserved or not, and sends a receipt. *)
LEMMA AckOK ==
  ASSUME NativeInv, NEW m \in Message, Ack(m)
  PROVE  NativeInv'
<1> USE DEF NativeInv
<1>1. /\ UNCHANGED <<state, to, handed, live, faults, tick, job, queue, hook, returned, recorded, kills, limit>>
      /\ acked' = acked \union {m} /\ late' = late \union {<<"presented", m, to[m]>>}
  BY DEF Ack, publication, consumer
<1>2. /\ row \in [Message -> RowType] /\ to[m] \in Endpoint
      /\ late \subseteq {"begin_present", "presented", "add"} \X Message \X Endpoint
  BY Rows DEF TypeOK, JournalTypeOK
<1> DEFINE r == [row[m] EXCEPT !.state = "presented",
                               !.ep = IF row[m].state = "none" THEN to[m] ELSE @]
<1>3. row' = [row EXCEPT ![m] = r] /\ row[m] \in RowType
  BY <1>2 DEF Ack, SetRow
<1>4. /\ r \in RowType /\ r.state = "presented" /\ r.hash = row[m].hash /\ r.pub = row[m].pub
      /\ row[m].state # "none" => r.ep = row[m].ep
  BY <1>2, <1>3 DEF RowType, RowState
<1> HIDE DEF r
<1>5. /\ row' \in [Message -> RowType]
      /\ row'[m] = r /\ \A k \in Message \ {m} : row'[k] = row[k]
  BY <1>2, <1>3, <1>4
<1>6. \A k \in Message :
        /\ row'[k].hash = row[k].hash /\ row'[k].pub = row[k].pub
        /\ row[k].state # "none" => row'[k].state # "none"
        /\ row'[k].state = "none" => row[k].state = "none"
        /\ Kept(k) => row'[k].state \in {"dispatching", "uncertain", "presented"} /\ row'[k].ep = row[k].ep
        /\ row'[k].state = "presented" => row[k].state = "presented" \/ k \in acked'
  BY <1>1, <1>4, <1>5 DEF Kept, Begun
<1>7. /\ late' \subseteq {"begin_present", "presented", "add"} \X Message \X Endpoint
      /\ \A k \in Message, ep \in Endpoint :
           /\ <<"begin_present", k, ep>> \in late' => <<"begin_present", k, ep>> \in late
           /\ <<"add", k, ep>> \in late' => <<"add", k, ep>> \in late
           /\ <<"presented", k, ep>> \in late' => <<"presented", k, ep>> \in late \/ k = m
  BY <1>1, <1>2
<1>8. TypeOK'
  BY <1>1, <1>5, <1>7 DEF TypeOK, JournalTypeOK, PublicationTypeOK, ConsumerTypeOK, RowType
<1>9. Shape'
  BY <1>1 DEF Shape
<1>10. Bodies'
  BY <1>1, BodiesStay DEF Granting
<1>11. Fenced'
  <2>1. \A h \in Hook : hook'[h].ep <= live /\ (hook'[h].pc = "ask" => hook'[h] = hook[h])
    BY <1>1 DEF Fenced
  <2> QED
    BY <1>1, <1>6, <1>7, <2>1, FencedStay DEF Granting
<1>12. Context'
  <2>1. live = 1 => handed = {}
    BY DEF Context
  <2>2. m \in acked' /\ row'[m].state = "presented"
    BY <1>1, <1>4, <1>5
  <2> QED
    BY <1>1, <1>6, <1>7, <2>1, <2>2, ContextStays
<1>13. Added'
  <2>1. queue' \in [Message -> 0 .. MaxQueue] /\ \A k \in Message : queue'[k] <= queue[k]
    BY <1>1, NativePublicationAssumption DEF TypeOK, PublicationTypeOK
  <2> QED
    BY <1>1, <1>6, <1>7, <2>1, AddedStays
<1> QED
  BY <1>8, <1>9, <1>10, <1>11, <1>12, <1>13

LEMMA ResolveOK ==
  ASSUME NativeInv, NEW h \in Hook, NEW m \in Message, Resolve(h, m)
  PROVE  NativeInv'
<1> USE DEF NativeInv
<1>1. /\ UNCHANGED <<state, to, handed, live, late, faults, tick, job, returned, recorded, kills, acked, limit>>
      /\ queue' = [queue EXCEPT ![m] = @ - 1] /\ queue[m] > 0
  BY DEF Resolve, Select, TakeReference, hub, history
<1>2. PICK S \in SUBSET Message :
        /\ SetHook(h, [NoHook EXCEPT !.pc = "reserve", !.ep = live, !.ref = m, !.todo = {m} \union S])
        /\ PrepareAll({m} \union S)
  BY DEF Resolve, Select
<1>13. RowsKept /\ \A k \in Message : row'[k].pub = row[k].pub
  <2>1. row \in [Message -> RowType]
    BY Rows
  <2>2. row' = [k \in Message |-> IF k \in {m} \union S THEN [row[k] EXCEPT !.owned = TRUE] ELSE row[k]]
    BY <1>2 DEF PrepareAll
  <2>3. ASSUME NEW k \in Message
        PROVE  /\ row'[k] \in RowType /\ row'[k].state = row[k].state /\ row'[k].ep = row[k].ep
               /\ row'[k].hash = row[k].hash /\ row'[k].pub = row[k].pub
    <3>1. row[k] \in RowType
      BY <2>1
    <3>2. row'[k] = row[k] \/ row'[k] = [row[k] EXCEPT !.owned = TRUE]
      BY <2>2
    <3> QED
      BY <3>1, <3>2 DEF RowType
  <2>4. row' = [k \in Message |-> row'[k]]
    BY <2>2
  <2>5. row' \in [Message -> RowType]
    BY <2>3, <2>4
  <2> QED
    BY <2>3, <2>5 DEF RowsKept
<1> DEFINE v == [NoHook EXCEPT !.pc = "reserve", !.ep = live, !.ref = m, !.todo = {m} \union S]
<1>3. hook \in [Hook -> HookType] /\ live \in {1, 2}
  BY DEF TypeOK, ConsumerTypeOK, JournalTypeOK, HookType, Endpoint
<1>4. v \in HookType /\ v.pc = "reserve" /\ v.ref = m /\ v.got = {} /\ v.ep = live
  BY <1>3 DEF NoHook, HookType, Endpoint, Publication
<1>5. /\ hook' \in [Hook -> HookType]
      /\ hook'[h] = v /\ \A g \in Hook \ {h} : hook'[g] = hook[g]
  BY <1>2, <1>3, <1>4 DEF SetHook
<1> HIDE DEF v
<1>6. queue' \in [Message -> 0 .. MaxQueue] /\ \A k \in Message : queue'[k] <= queue[k]
  <2>1. queue \in [Message -> 0 .. MaxQueue] /\ MaxQueue \in Nat
    BY NativePublicationAssumption DEF TypeOK, PublicationTypeOK
  <2> QED
    BY <1>1, <2>1
<1>7. TypeOK'
  BY <1>1, <1>5, <1>6, <1>13
     DEF TypeOK, JournalTypeOK, PublicationTypeOK, ConsumerTypeOK, HookType, RowsKept, RowType
<1>8. Shape'
  BY <1>1, <1>4, <1>5 DEF Shape
<1>9. Bodies'
  <2>1. \A g \in Hook : hook'[g].got \subseteq hook[g].got
    BY <1>4, <1>5
  <2> QED
    BY <1>1, <2>1, BodiesStay DEF Granting
<1>10. Fenced'
  <2>1. \A g \in Hook : hook'[g].ep <= live /\ (hook'[g].pc = "ask" => hook'[g] = hook[g])
    BY <1>3, <1>4, <1>5 DEF Fenced
  <2>2. \A k \in Message : Kept(k) =>
          row'[k].state \in {"dispatching", "uncertain", "presented"} /\ row'[k].ep = row[k].ep
    BY <1>13 DEF RowsKept, Kept, Begun
  <2> QED
    BY <1>1, <2>1, <2>2, FencedStay DEF Granting
<1>11. Context'
  <2>1. live = 1 => handed = {}
    BY DEF Context
  <2> QED
    BY <1>1, <1>13, <2>1, ContextStays DEF RowsKept, Kept, Begun
<1>12. Added'
  BY <1>1, <1>6, <1>13, AddedStays DEF RowsKept
<1> QED
  BY <1>7, <1>8, <1>9, <1>10, <1>11, <1>12

LEMMA KillOK ==
  ASSUME NativeInv, Kill
  PROVE  NativeInv'
<1> USE DEF NativeInv
<1>1. UNCHANGED <<state, to, handed, live, queue, returned, recorded, acked, limit>>
  BY DEF Kill
<1>2. /\ row \in [Message -> RowType] /\ hook \in [Hook -> HookType]
      /\ faults \in 0 .. limit.faults /\ limit.faults \in Nat /\ kills \in 0 .. faults
      /\ late \subseteq {"begin_present", "presented", "add"} \X Message \X Endpoint
      /\ live \in {1, 2}
  BY Rows, NativeAssumption DEF TypeOK, JournalTypeOK, ConsumerTypeOK, Limit, HookType, Endpoint
<1>3. faults' \in 0 .. limit.faults /\ kills' \in 0 .. faults' /\ kills' # 0
  BY <1>2 DEF Kill, Fault
<1>4. /\ row' = [m \in Message |-> IF row[m].state = "dispatching"
                                   THEN [row[m] EXCEPT !.state = "uncertain"] ELSE row[m]]
      /\ tick' = Waiting /\ job' = NoJob /\ hook' = [h \in Hook |-> NoHook]
  BY DEF Kill
<1>5. ASSUME NEW m \in Message
      PROVE  /\ row'[m] \in RowType
             /\ row'[m].ep = row[m].ep /\ row'[m].hash = row[m].hash
             /\ \/ row'[m].state = row[m].state
                \/ row[m].state = "dispatching" /\ row'[m].state = "uncertain"
  <2>1. row[m] \in RowType
    BY <1>2
  <2> QED
    BY <1>4, <2>1 DEF RowType, RowState
<1>6. /\ row' \in [Message -> RowType]
      /\ \A m \in Message : Kept(m) =>
           row'[m].state \in {"dispatching", "uncertain", "presented"} /\ row'[m].ep = row[m].ep
  <2>1. row' = [m \in Message |-> row'[m]]
    BY <1>4
  <2> QED
    BY <1>5, <2>1 DEF Kept, Begun
<1>7. /\ \A h \in Hook : hook'[h].pc = "idle" /\ hook'[h].got = {} /\ hook'[h].ep = 1
      /\ hook' \in [Hook -> HookType]
  BY <1>4 DEF NoHook, HookType, Endpoint, Publication
<1>8. ASSUME NEW x \in InFlight
      PROVE  /\ x \in {"begin_present", "presented", "add"} \X Message \X Endpoint
             /\ \A m \in Message, ep \in Endpoint :
                  /\ x = <<"begin_present", m, ep>> => \E h \in Hook : hook[h].pc = "ask" /\ hook[h].m = m /\ hook[h].ep = ep
                  /\ x = <<"presented", m, ep>> => Sound(m)
  <2>1. CASE \E h \in Hook : hook[h].pc = "ask" /\ x = <<"begin_present", hook[h].m, hook[h].ep>>
    <3>1. PICK h \in Hook : hook[h].pc = "ask" /\ x = <<"begin_present", hook[h].m, hook[h].ep>>
      BY <2>1
    <3>2. hook[h].m \in Message /\ hook[h].ep \in Endpoint
      BY <1>2, <3>1 DEF Shape, HookType
    <3> QED
      BY <3>1, <3>2
  <2>2. CASE tick.pc = "receipt" /\ x = <<"presented", tick.m, row[tick.m].ep>>
    <3>1. tick.m \in Message /\ Sound(tick.m)
      BY <2>2 DEF Shape, AtMessage, Context
    <3>2. row[tick.m].ep \in Endpoint
      BY <1>2, <3>1 DEF RowType
    <3> QED
      BY <2>2, <3>1, <3>2
  <2>3. CASE job.op = "publish" /\ x = <<"add", job.m, live>>
    <3>1. job.m \in Message /\ live \in Endpoint
      BY <1>2, <2>3 DEF Shape, Endpoint
    <3> QED
      BY <2>3, <3>1
  <2> QED
    BY <2>1, <2>2, <2>3 DEF InFlight
<1>9. \A x \in late' : x \in late \/ x \in InFlight
  <2>1. PICK S \in SUBSET InFlight : late' = late \union S
    BY DEF Kill
  <2> QED
    BY <2>1
<1>10. late' \subseteq {"begin_present", "presented", "add"} \X Message \X Endpoint
  BY <1>2, <1>8, <1>9
<1>11. ASSUME NEW m \in Message, NEW ep \in Endpoint, <<"begin_present", m, ep>> \in late'
       PROVE  \/ <<"begin_present", m, ep>> \in late
              \/ \E h \in Hook : hook[h].pc = "ask" /\ hook[h].m = m /\ hook[h].ep = ep
  BY <1>8, <1>9, <1>11
<1>12. ASSUME NEW m \in Message, NEW ep \in Endpoint, <<"presented", m, ep>> \in late'
       PROVE  <<"presented", m, ep>> \in late \/ Sound(m)
  BY <1>8, <1>9, <1>12
<1>13. /\ tick' \in TickType /\ tick'.pc = "idle"
       /\ NoJob \in [op : {"none", "publish", "pending"}, m : Message \union {None},
                     result : {"none", "ok", "absent", "not_sent", "unknown"}]
       /\ NoJob.op = "none" /\ NoJob.result = "none"
  BY <1>4 DEF Waiting, TickType, Endpoint, NoJob
<1>14. TypeOK'
  BY <1>1, <1>3, <1>4, <1>6, <1>7, <1>10, <1>13
     DEF TypeOK, JournalTypeOK, PublicationTypeOK, ConsumerTypeOK, RowType, TickType, HookType
<1>15. Shape'
  BY <1>4, <1>7, <1>13 DEF Shape, AtMessage
<1>16. Bodies'
  BY <1>1, <1>7, BodiesStay DEF Granting
<1>17. Fenced'
  <2>1. \A h \in Hook : hook'[h].ep <= live /\ (hook'[h].pc = "ask" => hook'[h] = hook[h])
    BY <1>2, <1>7
  <2>2. \A m \in Message : state'[m] \in {"dispatching", "presented"} => Granting(m) \/ Kept(m)
    BY <1>1 DEF Granting
  <2> QED
    BY <1>1, <1>6, <1>11, <2>1, <2>2, FencedStay
<1>18. Context'
  <2>1. \A m \in Message : row'[m].state = "presented" => row[m].state = "presented"
    BY <1>5
  <2>2. live = 1 => handed = {}
    BY DEF Context
  <2> QED
    BY <1>1, <1>5, <1>6, <1>12, <1>13, <2>1, <2>2, ContextStays
<1>19. Added'
  BY <1>3, <1>4, <1>13 DEF Added
<1> QED
  BY <1>14, <1>15, <1>16, <1>17, <1>18, <1>19

-----------------------------------------------------------------------------
(* The theorems                                                             *)

LEMMA InitOK ==
  ASSUME Init
  PROVE  NativeInv
<1> USE DEF Init, JournalInit, PublicationInit, ConsumerInit
<1>1. NoRow \in RowType /\ NoRow.state = "none" /\ NoRow.hash = {}
  BY DEF NoRow, RowType, RowState, Endpoint, Publication
<1>2. NoHook \in HookType /\ NoHook.pc = "idle" /\ NoHook.got = {} /\ NoHook.ep = 1
  BY DEF NoHook, HookType, Endpoint, Publication
<1>3. Waiting \in TickType /\ Waiting.pc = "idle"
  BY DEF Waiting, TickType, Endpoint
<1>4. /\ NoJob \in [op : {"none", "publish", "pending"}, m : Message \union {None},
                    result : {"none", "ok", "absent", "not_sent", "unknown"}]
      /\ NoJob.op = "none" /\ NoJob.result = "none"
  BY DEF NoJob
<1>5. TypeOK
  <2>1. JournalTypeOK
    BY <1>1 DEF JournalTypeOK, RowType, MessageState, Endpoint
  <2>2. PublicationTypeOK
    BY <1>3, <1>4, NativePublicationAssumption DEF PublicationTypeOK, TickType
  <2>3. ConsumerTypeOK
    BY <1>2 DEF ConsumerTypeOK, HookType
  <2>4. limit \in Limits /\ faults \in 0 .. limit.faults /\ kills \in 0 .. faults /\ acked \subseteq Message
    BY NativeAssumption DEF Limit
  <2> QED
    BY <2>1, <2>2, <2>3, <2>4 DEF TypeOK
<1>6. Shape
  BY <1>2, <1>3, <1>4 DEF Shape, AtMessage
<1>7. Bodies
  BY <1>2 DEF Bodies, Granting
<1>8. Fenced
  BY <1>2 DEF Fenced, Granting
<1>9. Context
  BY <1>1, <1>3 DEF Context
<1>10. Added
  BY <1>3, <1>4 DEF Added, Nothing
<1> QED
  BY <1>5, <1>6, <1>7, <1>8, <1>9, <1>10 DEF NativeInv

LEMMA NextInv ==
  ASSUME NativeInv, [Next]_vars
  PROVE  NativeInv'
<1>1. CASE HubStep /\ UNCHANGED <<publication, consumer, history>>
  BY <1>1, HubOK
<1>2. CASE ChildStep /\ UNCHANGED <<consumer, history>>
  BY <1>2, ChildOK
<1>3. CASE PublisherStep
  BY <1>3, PublisherOK
<1>4. CASE TickStep
  <2>1. CASE TickClaim
    BY <2>1, TickClaimOK
  <2>2. CASE ~TickClaim
    BY <1>4, <2>2, VisitOK
  <2> QED
    BY <2>1, <2>2
<1>5. CASE \E h \in Hook : HookStep(h) /\ UNCHANGED <<publication, history>>
  BY <1>5, HookOK
<1>6. CASE \E m \in Message : Blocked(m) \/ Ack(m) \/ \E h \in Hook : Resolve(h, m)
  BY <1>6, BlockedOK, AckOK, ResolveOK
<1>7. CASE Kill
  BY <1>7, KillOK
<1>8. CASE UNCHANGED vars
  <2>1. /\ UNCHANGED <<state, to, handed, live, late, faults, row, tick, job, queue>>
        /\ UNCHANGED <<hook, returned, recorded, kills, acked, limit>>
    BY <1>8 DEF vars, hub, publication, consumer, history
  <2>2. TypeOK'
    BY <2>1 DEF NativeInv, TypeOK, JournalTypeOK, PublicationTypeOK, ConsumerTypeOK
  <2>3. Shape' /\ Bodies' /\ Fenced' /\ Context' /\ Added'
    BY <2>1 DEF NativeInv, Shape, Bodies, Fenced, Context, Added, Granting, Kept, Begun, InContext, Sound, Nothing
  <2> QED
    BY <2>2, <2>3 DEF NativeInv
<1> QED
  BY <1>1, <1>2, <1>3, <1>4, <1>5, <1>6, <1>7, <1>8 DEF Next

(* The inductive invariant holds in every reachable state.                  *)
THEOREM Invariant == Spec => []NativeInv
<1>1. Init => NativeInv
  BY InitOK
<1>2. NativeInv /\ [Next]_vars => NativeInv'
  BY NextInv
<1> QED
  BY <1>1, <1>2, PTL DEF Spec

(* Every variable has its type, for every bound.                            *)
THEOREM TypeCorrect == Spec => []TypeOK
<1>1. NativeInv => TypeOK
  BY DEF NativeInv
<1> QED
  BY <1>1, Invariant, PTL

(* A body is returned to the conversation at most once, and only when the   *)
(* hub has granted it (resolve).                                            *)
THEOREM BodiesReturnOnce == Spec => []ReturnedOnce
<1>1. NativeInv => ReturnedOnce
  BY DEF NativeInv, Bodies, ReturnedOnce, Granting
<1> QED
  BY <1>1, Invariant, PTL

(* What the hub granted, the journal fences, however late the request was   *)
(* served (resolve, Host.__init__).                                         *)
THEOREM GrantsAreFenced == Spec => []GrantIsFenced
<1>1. NativeInv => GrantIsFenced
  BY DEF NativeInv, Fenced, GrantIsFenced, Granting, Kept
<1> QED
  BY <1>1, Invariant, PTL

(* The sender is told "presented" only for what the transcript holds or     *)
(* the recipient acknowledged (recover, ack).                               *)
THEOREM ReceiptsAreTrue == Spec => []PresentedIsRecorded
<1>1. NativeInv => PresentedIsRecorded
  BY DEF NativeInv, Context, InContext, PresentedIsRecorded
<1> QED
  BY <1>1, Invariant, PTL

(* The journal closes a delivery only when the hub has its receipt, or      *)
(* when the recipient acknowledged it (_deliver_endpoint, ack).             *)
THEOREM JournalFollows == Spec => []JournalAgrees
<1>1. NativeInv => JournalAgrees
  BY DEF NativeInv, Context, JournalAgrees
<1> QED
  BY <1>1, Invariant, PTL

(* While no child outlives its host, the queue holds at most one reference  *)
(* to a message (Publisher.tick).                                           *)
THEOREM AddedOnce == Spec => []NoDuplicateAdds
<1>1. NativeInv => NoDuplicateAdds
  BY DEF NativeInv, Added, NoDuplicateAdds
<1> QED
  BY <1>1, Invariant, PTL
-----------------------------------------------------------------------------
(* The route refines the promise of DeliveryPromise, message by message     *)

Moves(m) ==
  \/ state'[m] = state[m]
  \/ state[m] = "none" /\ state'[m] = "open"
  \/ state[m] = "open" /\ state'[m] \in {"closed", "dispatching", "presented"}
  \/ Granting(m) /\ state'[m] = "presented"

PromiseStep(m) == Promise(m)!Next \/ UNCHANGED Promised(m)

LEMMA MovePromise ==
  ASSUME NEW m \in Message,
         \/ PhaseOf(m) = "none" /\ PhaseOf(m)' = "open"
         \/ PhaseOf(m) = "open" /\ PhaseOf(m)' = "closed",
         returned'[m] = returned[m]
  PROVE  PromiseStep(m)
<1>1. CASE PhaseOf(m) = "none" /\ PhaseOf(m)' = "open"
  <2>1. Promise(m)!Offer(m)
    BY <1>1 DEF Promise!Offer, Promise!Move
  <2> QED
    BY <2>1 DEF PromiseStep, Promise!Next
<1>2. CASE PhaseOf(m) = "open" /\ PhaseOf(m)' = "closed"
  <2>1. Promise(m)!Close({m})
    BY <1>2 DEF Promise!Close
  <2> QED
    BY <2>1 DEF PromiseStep, Promise!Next
<1> QED
  BY <1>1, <1>2

(* A step that returns no body keeps the promise of every message, if a     *)
(* hook only gets a body that the hub still had open.                       *)
LEMMA KeepsPromise ==
  ASSUME NativeInv, NEW m \in Message, Moves(m), returned'[m] = returned[m],
         Held(m)' => Held(m) \/ state[m] = "open"
  PROVE  PromiseStep(m)
<1>1. Held(m) => Granting(m)
  BY DEF NativeInv, Bodies, Held
<1>2. CASE PhaseOf(m)' = PhaseOf(m)
  BY <1>2 DEF PromiseStep, Promised
<1>3. CASE PhaseOf(m)' # PhaseOf(m)
  <2>1. \/ PhaseOf(m) = "none" /\ PhaseOf(m)' = "open"
        \/ PhaseOf(m) = "open" /\ PhaseOf(m)' = "closed"
    <3>1. PhaseOf(m)' = IF returned[m] > 0 THEN "granted"
                        ELSE IF state'[m] = "none" THEN "none"
                        ELSE IF state'[m] = "open" \/ Held(m)' THEN "open" ELSE "closed"
      BY DEF PhaseOf
    <3>2. ~ (returned[m] > 0)
      BY <1>3, <3>1 DEF PhaseOf
    <3>3. CASE state'[m] = state[m]
      BY <1>1, <1>3, <3>1, <3>2, <3>3 DEF PhaseOf, Granting
    <3>4. CASE state[m] = "none" /\ state'[m] = "open"
      BY <1>3, <3>1, <3>2, <3>4 DEF PhaseOf
    <3>5. CASE state[m] = "open" /\ state'[m] \in {"closed", "dispatching", "presented"}
      BY <1>3, <3>1, <3>2, <3>5 DEF PhaseOf
    <3>6. CASE Granting(m) /\ state'[m] = "presented"
      BY <1>3, <3>1, <3>2, <3>6 DEF PhaseOf, Granting
    <3> QED
      BY <3>3, <3>4, <3>5, <3>6 DEF Moves
  <2> QED
    BY <2>1, MovePromise
<1> QED
  BY <1>2, <1>3

LEMMA HubMoves ==
  ASSUME NativeInv, NEW m \in Message, NEW n \in Message, NEW ep, NEW op,
         \/ BeginPresent(n, ep) \/ Receipt(n, ep) \/ Lost(op, n, ep)
         \/ ServeLate(op, n, ep) \/ Send(n) \/ Withdraw(n) \/ Handoff \/ state' = state
  PROVE  Moves(m)
<1>1. state \in [Message -> MessageState]
  BY DEF NativeInv, TypeOK, JournalTypeOK
<1>2. ASSUME BeginPresent(n, ep) \/ Receipt(n, ep) PROVE Moves(m)
  BY <1>1, <1>2
  DEF BeginPresent, Receipt, Granted, Receipted, SetState, Moves, Granting
<1>3. ASSUME Send(n) \/ Withdraw(n) PROVE Moves(m)
  BY <1>1, <1>3 DEF Send, Withdraw, SetState, Moves
<1>4. ASSUME state' = state PROVE Moves(m)
  BY <1>4 DEF Moves
<1>5. CASE Lost(op, n, ep)
  BY <1>2, <1>4, <1>5 DEF Lost
<1>6. CASE ServeLate(op, n, ep)
  BY <1>2, <1>4, <1>6 DEF ServeLate
<1>7. CASE Handoff
  BY <1>4, <1>7 DEF Handoff
<1> QED
  BY <1>2, <1>3, <1>4, <1>5, <1>6, <1>7

LEMMA HookPromise ==
  ASSUME NativeInv, NEW h \in Hook, HookStep(h), NEW m \in Message
  PROVE  PromiseStep(m)
<1>1. hook \in [Hook -> HookType] /\ state \in [Message -> MessageState]
      /\ returned \in [Message -> Nat]
  BY DEF NativeInv, TypeOK, JournalTypeOK, ConsumerTypeOK, HookType
<1>2. ASSUME hook'[h].got \subseteq hook[h].got,
             \A g \in Hook \ {h} : hook'[g] = hook[g]
      PROVE  Held(m)' => Held(m)
  BY <1>2 DEF Held
<1>3. NoHook.got = {}
  BY DEF NoHook
<1>4. hook[h].pc \in {"ask", "unknown", "stale_session"} => hook[h].m \in Message
  BY DEF NativeInv, Shape
<1>5. CASE Reserve(h) \/ ReserveRaced(h)
  <2>1. UNCHANGED <<state, returned>>
    BY <1>5 DEF Reserve, ReserveRaced, hub
  <2>2. PICK n \in Message :
          \/ hook' = [hook EXCEPT ![h] = [hook[h] EXCEPT !.pc = "ask", !.m = n, !.pub = row[n].pub,
                                                        !.todo = @ \ {n}]]
          \/ hook' = [hook EXCEPT ![h] = NoHook]
          \/ hook' = [hook EXCEPT ![h] = [hook[h] EXCEPT !.todo = @ \ {n}]]
    BY <1>5 DEF Reserve, ReserveRaced, Skip, SetHook, Ends
  <2>3. hook[h] \in HookType
    BY <1>1
  <2>4. hook'[h].got \subseteq hook[h].got
    <3>1. CASE hook' = [hook EXCEPT ![h] = NoHook]
      BY <1>1, <1>3, <3>1
    <3>2. CASE hook' = [hook EXCEPT ![h] = [hook[h] EXCEPT !.todo = @ \ {n}]]
      BY <1>1, <2>3, <3>2 DEF HookType
    <3>3. CASE hook' = [hook EXCEPT ![h] = [hook[h] EXCEPT !.pc = "ask", !.m = n, !.pub = row[n].pub,
                                                          !.todo = @ \ {n}]]
      BY <1>1, <2>3, <3>3 DEF HookType
    <3> QED
      BY <2>2, <3>1, <3>2, <3>3
  <2>5. \A g \in Hook \ {h} : hook'[g] = hook[g]
    BY <1>1, <2>2
  <2> QED
    BY <1>2, <2>1, <2>4, <2>5, KeepsPromise DEF Moves
<1>6. CASE Grant(h)
  <2>1. PICK n \in Message : n = hook[h].m
    BY <1>4, <1>6 DEF Grant
  <2>2. BeginPresent(n, hook[h].ep) /\ returned' = returned /\ state[n] = "open"
    BY <1>6, <2>1 DEF Grant, BeginPresent, Granted
  <2>3. Moves(m)
    BY <2>2, HubMoves
  <2>4. hook'[h].got = hook[h].got \union {n} /\ \A g \in Hook \ {h} : hook'[g] = hook[g]
    BY <1>1, <1>6, <2>1 DEF Grant, SetHook, HookType
  <2>5. Held(m)' => Held(m) \/ state[m] = "open"
    BY <2>2, <2>4 DEF Held
  <2> QED
    BY <2>2, <2>3, <2>5, KeepsPromise
<1>7. CASE Refuse(h) \/ Commit(h)
  <2>1. UNCHANGED <<state, returned>>
    BY <1>7 DEF Refuse, Commit, hub
  <2>2. hook'[h].got \subseteq hook[h].got /\ \A g \in Hook \ {h} : hook'[g] = hook[g]
    BY <1>1, <1>7 DEF Refuse, Commit, SetHook, HookType
  <2> QED
    BY <1>2, <2>1, <2>2, KeepsPromise DEF Moves
<1>8. CASE AskLost(h)
  <2>1. Moves(m)
    BY <1>4, <1>8, HubMoves DEF AskLost
  <2>2. returned' = returned /\ hook'[h].got \subseteq hook[h].got
        /\ \A g \in Hook \ {h} : hook'[g] = hook[g]
    BY <1>1, <1>8 DEF AskLost, SetHook, HookType
  <2> QED
    BY <1>2, <2>1, <2>2, KeepsPromise
<1>9. CASE Undo(h)
  <2>1. UNCHANGED <<state, returned>>
    BY <1>9 DEF Undo, hub
  <2>2. hook'[h].got \subseteq hook[h].got /\ \A g \in Hook \ {h} : hook'[g] = hook[g]
    BY <1>1, <1>3, <1>9 DEF Undo, Ends, SetHook, HookType
  <2> QED
    BY <1>2, <2>1, <2>2, KeepsPromise DEF Moves
<1>10. CASE Return(h)
  <2>1. state' = state /\ hook'[h].got = {} /\ \A g \in Hook \ {h} : hook'[g] = hook[g]
    BY <1>1, <1>3, <1>10 DEF Return, Ends, SetHook, hub
  <2>2. Held(m)' => Held(m)
    BY <1>2, <2>1
  <2>3. returned'[m] = returned[m] + (IF m \in hook[h].got THEN 1 ELSE 0)
    BY <1>10 DEF Return
  <2>4. CASE m \notin hook[h].got
    <3>1. returned'[m] = returned[m]
      BY <1>1, <2>3, <2>4
    <3> QED
      BY <2>1, <2>2, <3>1, KeepsPromise DEF Moves
  <2>5. CASE m \in hook[h].got
    <3>1. Granting(m) /\ returned[m] = 0 /\ Held(m)
      BY <2>5 DEF NativeInv, Bodies, Held
    <3>2. PhaseOf(m) = "open"
      BY <3>1 DEF PhaseOf, Granting
    <3>3. returned'[m] = 1 /\ PhaseOf(m)' = "granted"
      BY <2>3, <2>5, <3>1 DEF PhaseOf
    <3>4. Promise(m)!Grant(m)
      BY <3>2, <3>3 DEF Promise!Grant, Promise!Move
    <3> QED
      BY <3>4 DEF PromiseStep, Promise!Next
  <2> QED
    BY <2>4, <2>5
<1> QED
  BY <1>5, <1>6, <1>7, <1>8, <1>9, <1>10 DEF HookStep

LEMMA NextPromise ==
  ASSUME NativeInv, [Next]_vars, NEW m \in Message
  PROVE  PromiseStep(m)
<1>1. CASE HubStep /\ UNCHANGED <<publication, consumer, history>>
  <2>1. Moves(m)
    BY <1>1, HubMoves DEF HubStep
  <2> QED
    BY <1>1, <2>1, KeepsPromise DEF consumer, Held
<1>2. CASE ChildStep /\ UNCHANGED <<consumer, history>>
  <2>1. state' = state
    BY <1>2 DEF ChildStep, ChildAdds, ChildFails, ChildLists, OrphanAdds, hub
  <2> QED
    BY <1>2, <2>1, KeepsPromise DEF consumer, Held, Moves
<1>3. CASE PublisherStep
  <2>1. state' = state /\ UNCHANGED consumer
    BY <1>3 DEF PublisherStep, Collect, Look, LookPublishes, Publish, AskQueue, hub
  <2> QED
    BY <2>1, KeepsPromise DEF consumer, Held, Moves
<1>4. CASE TickStep
  <2>1. UNCHANGED consumer
    BY <1>4 DEF TickStep, TickClaim, TickEnd, ReceiptFails, TickVisit, VisitUnrecorded,
         MarkUncertain, VisitPresented, VisitRecorded, VisitFails, ReceiptSent
  <2>2. Moves(m)
    <3>1. CASE ReceiptFails
      <4>1. tick.m \in Message
        BY <3>1 DEF ReceiptFails, NativeInv, Shape, AtMessage
      <4> QED
        BY <3>1, <4>1, HubMoves DEF ReceiptFails, hub
    <3>2. CASE \E n \in Message : ReceiptSent(n)
      BY <3>2, HubMoves DEF ReceiptSent
    <3>3. CASE ~ ReceiptFails /\ ~ \E n \in Message : ReceiptSent(n)
      <4>1. state' = state
        BY <1>4, <3>3 DEF TickStep, TickClaim, TickEnd, TickVisit, VisitUnrecorded,
             MarkUncertain, VisitPresented, VisitRecorded, VisitFails, hub
      <4> QED
        BY <4>1 DEF Moves
    <3> QED
      BY <3>1, <3>2, <3>3
  <2> QED
    BY <2>1, <2>2, KeepsPromise DEF consumer, Held
<1>5. CASE \E h \in Hook : HookStep(h) /\ UNCHANGED <<publication, history>>
  BY <1>5, HookPromise
<1>6. CASE \E n \in Message : Blocked(n) \/ Ack(n)
  <2>1. state' = state /\ UNCHANGED consumer
    BY <1>6 DEF Blocked, Ack
  <2> QED
    BY <2>1, KeepsPromise DEF consumer, Held, Moves
<1>7. CASE \E n \in Message, h \in Hook : Resolve(h, n)
  <2>1. PICK n \in Message, h \in Hook : Resolve(h, n)
    BY <1>7
  <2>2. UNCHANGED <<state, returned>>
    BY <2>1 DEF Resolve, Select, hub
  <2>3. hook \in [Hook -> HookType]
    BY DEF NativeInv, TypeOK, ConsumerTypeOK, HookType
  <2>4. PICK S \in SUBSET Message :
          hook' = [hook EXCEPT ![h] = [NoHook EXCEPT !.pc = "reserve", !.ep = live, !.ref = n,
                                                     !.todo = {n} \union S]]
    BY <2>1 DEF Resolve, Select, SetHook
  <2>5. hook'[h].got = {} /\ \A g \in Hook \ {h} : hook'[g] = hook[g]
    BY <2>3, <2>4 DEF NoHook
  <2>6. Held(m)' => Held(m)
    BY <2>5 DEF Held
  <2> QED
    BY <2>2, <2>6, KeepsPromise DEF Moves
<1>8. CASE Kill
  <2>1. UNCHANGED <<state, returned>> /\ \A h \in Hook : hook'[h].got = {}
    BY <1>8 DEF Kill, NoHook
  <2> QED
    BY <2>1, KeepsPromise DEF Held, Moves
<1>9. CASE UNCHANGED vars
  BY <1>9, KeepsPromise DEF vars, hub, consumer, Held, Moves
<1> QED
  BY <1>1, <1>2, <1>3, <1>4, <1>5, <1>6, <1>7, <1>8, <1>9 DEF Next

(* The bodies a conversation is given keep the promise the hub makes for    *)
(* one adapter (resolve, Host.__init__): a refinement of DeliveryPromise.   *)
THEOREM BodiesKeepPromise == Spec => ReturnedAsPromised
<1>1. ASSUME Init PROVE \A m \in Message : Promise(m)!Init
  BY <1>1 DEF Init, JournalInit, ConsumerInit, Promise!Init, PhaseOf
<1>2. ASSUME NativeInv, [Next]_vars
      PROVE  \A m \in Message : UNCHANGED Promised(m) \/ Promise(m)!Next
  BY <1>2, NextPromise DEF PromiseStep
<1> QED
  BY <1>1, <1>2, Invariant, PTL DEF Spec, ReturnedAsPromised
=============================================================================
