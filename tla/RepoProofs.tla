----------------------------- MODULE RepoProofs -----------------------------
(***************************************************************************)
(* Proofs about RepoWrite for every set of patches, files and threads and  *)
(* every number of requests, edits and kills.                              *)
(*                                                                         *)
(* The argument: the lock lets one request run at a time, so what it found *)
(* stays as it was but for the paths the owner touched since; what it has  *)
(* put is known by the step it is at (Progress), and what the records and  *)
(* the index hold was put once (Stored).                                   *)
(***************************************************************************)
EXTENDS RepoProps, Integers, TLAPS

WritePc  == {"look", "plan", "apply", "undo", "index", "record"}
RevertPc == {"verify", "restore", "reindex", "rerecord"}
WriteCall  == [pc : WritePc, patch : Patch, plan : [Path -> Text],
               dirty : SUBSET Path, tracked : SUBSET Path, done : 0 .. Files,
               stuck : SUBSET Path]
RevertCall == [pc : RevertPc, patch : Patch, plan : [Path -> Text],
               done : 0 .. Files]
Record == [patch : Patch, prev : [Path -> Text], reverted : BOOLEAN]

Typed ==
  /\ tree \in [Path -> Text] /\ head \in [Path -> Text]
  /\ index \in [Path -> Content \union {None}]
  /\ records \in [PatchId -> Record \union {None}]
  /\ old \subseteq PatchId
  /\ lock \in Thread \union {None}
  /\ request \in [Thread -> WriteCall \union RevertCall \union {Idle}]
  /\ \A th \in Thread : lock # th => request[th] = Idle
  /\ committed \in [Path -> SUBSET Text] /\ ours \in [Path -> SUBSET Text]
  /\ origin \in [PatchId -> [Path -> Text \union {None}]]
  /\ touched \subseteq Path
  /\ budget \in [requests : Int, edits : Int, kills : Int]

(* What the index and the records hold was put by the service, and a record *)
(* keeps what its patch took.                                               *)
Stored ==
  /\ \A p \in Path : head[p] \in committed[p]
  /\ \A p \in Path : index[p] # None => index[p] \in ours[p]
  /\ \A i \in PatchId : records[i] # None =>
       /\ records[i].patch.id = i
       /\ \A p \in Changed(records[i].patch) :
            /\ records[i].patch.files[p].data \in ours[p]
            /\ origin[i][p] \in {None, records[i].prev[p]}

Safe(p) == tree[p] = Absent \/ tree[p] \in committed[p] \union ours[p]
Data(r, p) == r.patch.files[p].data
Took(r, p) == origin[r.patch.id][p] \in {None, r.plan[p]}

(* What a write at its step has found and put, but for what was touched.    *)
WriteProgress(r) ==
  /\ r.pc \in WritePc => records[r.patch.id] = None
  /\ r.pc \in {"look", "plan"} => r.done = 0
  /\ r.pc = "plan" => \A p \in Path \ touched :
       p \in r.tracked \ r.dirty => tree[p] \in committed[p]
  /\ r.pc \in {"apply", "undo"} => \A p \in Changed(r.patch) : p <= r.done =>
       /\ Data(r, p) \in ours[p]
       /\ p \notin touched => tree[p] = Data(r, p)
  /\ r.pc = "apply" => \A p \in Changed(r.patch) :
       IF p > r.done THEN p \notin touched => tree[p] = r.plan[p] /\ Safe(p)
       ELSE Took(r, p)
  /\ r.pc = "undo" => \A p \in Changed(r.patch) \ (touched \union r.stuck) :
       p > r.done => tree[p] = r.plan[p]
  /\ r.pc \in {"index", "record"} => \A p \in Changed(r.patch) :
       /\ Data(r, p) \in ours[p] /\ Took(r, p)
       /\ p \notin touched => tree[p] = Data(r, p)

(* A revert has the record of its patch.                                    *)
RevertProgress(r) ==
  /\ r.pc \in RevertPc =>
       /\ records[r.patch.id] # None
       /\ records[r.patch.id].patch = r.patch
       /\ records[r.patch.id].prev = r.plan
  /\ r.pc = "restore" => \A p \in Changed(r.patch) \ touched :
       IF p <= r.done THEN tree[p] = Data(r, p) ELSE tree[p] = r.plan[p]
  /\ r.pc = "restore" => \A p \in Changed(r.patch) :
       p > r.done => r.plan[p] \in ours[p]
  /\ r.pc = "verify" => r.done = Files
  /\ r.pc \in {"reindex", "rerecord"} => \A p \in Changed(r.patch) :
       /\ r.plan[p] \in ours[p]
       /\ p \notin touched => tree[p] = r.plan[p]

Progress == \A th \in Thread : WriteProgress(request[th]) /\ RevertProgress(request[th])

RepoInv == Typed /\ Stored /\ Progress

-----------------------------------------------------------------------------
(* Types                                                                    *)

THEOREM InitInv == Init => RepoInv
<1> SUFFICES ASSUME Init PROVE RepoInv
  OBVIOUS
<1> USE RepoAssumption DEF Init
<1>1. Typed
  BY DEF Typed, Text, Idle
<1>2. Stored
  BY DEF Stored
<1>3. Progress
  BY DEF Progress, WriteProgress, RevertProgress, Idle, WritePc, RevertPc
<1> QED
  BY <1>1, <1>2, <1>3 DEF RepoInv

(* A request that is served has the shape of one of the two calls.          *)
LEMMA Shape ==
  ASSUME Typed, NEW th \in Thread
  PROVE  /\ request[th].pc \in WritePc => request[th] \in WriteCall
         /\ request[th].pc \in RevertPc => request[th] \in RevertCall
         /\ request[th].pc \in WritePc \union RevertPc =>
              /\ request[th] # Idle /\ lock = th
              /\ \A o \in Thread : o # th => request[o] = Idle
  BY DEF Typed, WriteCall, RevertCall, WritePc, RevertPc, Idle

LEMMA Paths ==
  ASSUME NEW c \in Patch
  PROVE  /\ Changed(c) \subseteq Path
         /\ \A p \in Changed(c) : c.files[p].data \in Content /\ c.files[p].data \in Text
         /\ c.id \in PatchId
  BY RepoAssumption DEF Text, PatchId

(* One request moves: the others are idle, and idle requests owe nothing.   *)
LEMMA OneMoves ==
  ASSUME Typed, NEW th \in Thread, lock \in {None, th},
         \A o \in Thread : o # th => request'[o] = request[o],
         (WriteProgress(request[th]) /\ RevertProgress(request[th]))'
  PROVE  Progress'
<1>1. \A o \in Thread : o # th => request'[o] = Idle
  BY RepoAssumption DEF Typed
<1>2. \A o \in Thread : request'[o] = Idle =>
        (WriteProgress(request[o]) /\ RevertProgress(request[o]))'
  BY DEF WriteProgress, RevertProgress, Idle, WritePc, RevertPc
<1> QED
  BY <1>1, <1>2 DEF Progress

(* A request that ends owes nothing.                                        *)
LEMMA Ends ==
  ASSUME Typed, NEW th \in Thread, lock = th, End(th)
  PROVE  Progress' /\ lock' = None
         /\ request' \in [Thread -> WriteCall \union RevertCall \union {Idle}]
         /\ \A o \in Thread : request'[o] = Idle
<1>1. \A o \in Thread : request'[o] = Idle
  BY DEF End, Typed
<1>2. Progress'
  BY <1>1 DEF Progress, WriteProgress, RevertProgress, Idle, WritePc, RevertPc
<1> QED
  BY <1>1, <1>2 DEF End, Typed

-----------------------------------------------------------------------------
(* The owner                                                                *)

LEMMA EditInv ==
  ASSUME RepoInv, NEW p \in Path, NEW c \in Text, Edit(p, c)
  PROVE  RepoInv'
<1> USE DEF RepoInv, Edit, store, history
<1>1. Typed'
  BY DEF Typed
<1>2. Stored'
  BY DEF Stored, Typed
<1>3. Progress'
  <2> SUFFICES ASSUME NEW th \in Thread
               PROVE  (WriteProgress(request[th]) /\ RevertProgress(request[th]))'
    BY DEF Progress
  <2>1. WriteProgress(request[th]) /\ RevertProgress(request[th])
    BY DEF Progress
  <2>2. request' = request /\ records' = records /\ ours' = ours
          /\ committed' = committed /\ origin' = origin
    OBVIOUS
  <2>3. touched' = touched \union {p} /\ \A q \in Path : q # p => tree'[q] = tree[q]
    BY DEF Typed
  <2>4. \A q : Changed(request[th].patch) = Changed(request'[th].patch)
    BY <2>2
  <2>5. request[th].pc \in WritePc \union RevertPc => Changed(request[th].patch) \subseteq Path
    BY Shape, Paths DEF WriteCall, RevertCall
  <2>6. WriteProgress(request[th])'
    BY <2>1, <2>2, <2>3, <2>5 DEF WriteProgress, Safe, Took, Data, WritePc
  <2>7. RevertProgress(request[th])'
    BY <2>1, <2>2, <2>3, <2>5 DEF RevertProgress, Data, RevertPc
  <2> QED
    BY <2>6, <2>7
<1> QED
  BY <1>1, <1>2, <1>3

LEMMA GitCommitInv ==
  ASSUME RepoInv, GitCommit
  PROVE  RepoInv'
<1> USE DEF RepoInv, GitCommit, store
<1>1. Typed'
  BY DEF Typed
<1>2. Stored'
  BY DEF Stored, Typed
<1>3. \A p \in Path : committed[p] \subseteq committed'[p]
  BY DEF Typed
<1>4. Progress'
  <2> SUFFICES ASSUME NEW th \in Thread
               PROVE  (WriteProgress(request[th]) /\ RevertProgress(request[th]))'
    BY DEF Progress
  <2>1. WriteProgress(request[th]) /\ RevertProgress(request[th])
    BY DEF Progress
  <2>2. request' = request /\ records' = records /\ ours' = ours /\ tree' = tree
          /\ touched' = touched /\ origin' = origin
    OBVIOUS
  <2>3. request[th].pc \in WritePc \union RevertPc => Changed(request[th].patch) \subseteq Path
    BY Shape, Paths DEF WriteCall, RevertCall
  <2>4. WriteProgress(request[th])'
    BY <1>3, <2>1, <2>2, <2>3 DEF WriteProgress, Safe, Took, Data, WritePc
  <2>5. RevertProgress(request[th])'
    BY <2>1, <2>2 DEF RevertProgress, Data
  <2> QED
    BY <2>4, <2>5
<1> QED
  BY <1>1, <1>2, <1>4

(* Progress speaks of the tree, the requests, the records and what was put. *)
LEMMA SameProgress ==
  ASSUME Progress, UNCHANGED <<tree, records, request, committed, ours, origin, touched>>
  PROVE  Progress'
<1> SUFFICES ASSUME NEW th \in Thread
             PROVE  (WriteProgress(request[th]) /\ RevertProgress(request[th]))'
  BY DEF Progress
<1>1. PICK r : r = request[th]
  OBVIOUS
<1>2. request'[th] = r /\ WriteProgress(r) /\ RevertProgress(r)
  BY <1>1 DEF Progress
<1>3. WriteProgress(request[th])'
  BY <1>2 DEF WriteProgress, Safe, Took, Data
<1>4. RevertProgress(request[th])'
  BY <1>2 DEF RevertProgress, Data
<1> QED
  BY <1>3, <1>4

LEMMA AgeInv ==
  ASSUME RepoInv, NEW i \in PatchId, Age(i)
  PROVE  RepoInv'
<1> USE DEF RepoInv, Age, history
<1>1. Typed'
  BY DEF Typed
<1>2. Stored'
  BY DEF Stored
<1>3. Progress'
  BY SameProgress
<1> QED
  BY <1>1, <1>2, <1>3

LEMMA KillInv ==
  ASSUME RepoInv, Kill
  PROVE  RepoInv'
<1> USE DEF RepoInv, Kill, history, store
<1>1. Typed'
  BY DEF Typed
<1>2. Stored'
  BY DEF Stored
<1>3. Progress'
  BY DEF Progress, WriteProgress, RevertProgress, Idle, WritePc, RevertPc
<1> QED
  BY <1>1, <1>2, <1>3

-----------------------------------------------------------------------------
(* A write                                                                  *)

(* A call that is refused or broken off leaves everything as it is.         *)
LEMMA RefuseInv ==
  ASSUME RepoInv, NEW th \in Thread, request[th] # Idle, Refuse(th)
  PROVE  RepoInv'
<1> USE DEF RepoInv, Refuse, history, store
<1>1. lock = th
  BY DEF Typed
<1>2. Progress' /\ Typed'
  BY <1>1, Ends DEF Typed
<1>3. Stored'
  BY DEF Stored
<1> QED
  BY <1>2, <1>3

LEMMA BeginInv ==
  ASSUME RepoInv, NEW th \in Thread, NEW c \in Patch, Begin(th, c)
  PROVE  RepoInv'
<1> USE DEF RepoInv, Begin, Take, history, store
<1> DEFINE r == [pc |-> "look", patch |-> c, plan |-> tree, dirty |-> {},
                 tracked |-> {}, done |-> 0, stuck |-> {}]
<1>1. r \in WriteCall
  BY RepoAssumption DEF WriteCall, WritePc, Typed
<1>2. request'[th] = r /\ \A o \in Thread : o # th => request'[o] = request[o]
  BY DEF Typed
<1>3. Typed'
  BY <1>1, <1>2, RepoAssumption DEF Typed
<1>4. Stored'
  BY DEF Stored
<1>5. (WriteProgress(request[th]) /\ RevertProgress(request[th]))'
  BY <1>2 DEF WriteProgress, RevertProgress, RevertPc
<1>6. Progress'
  BY <1>2, <1>5, OneMoves DEF Typed
<1> QED
  BY <1>3, <1>4, <1>6

(* What a step that only moves a call on leaves to show.                    *)
LEMMA MovesOn ==
  ASSUME RepoInv, NEW th \in Thread,
         request[th].pc \in WritePc \union RevertPc, NEW r,
         r \in WriteCall \union RevertCall,
         request' = [request EXCEPT ![th] = r], lock' = lock
  PROVE  /\ request'[th] = r
         /\ request' \in [Thread -> WriteCall \union RevertCall \union {Idle}]
         /\ \A o \in Thread : lock' # o => request'[o] = Idle
         /\ (WriteProgress(request[th]) /\ RevertProgress(request[th]))' => Progress'
<1>1. request[th] # Idle /\ lock = th
  BY Shape DEF RepoInv
<1>2. /\ request'[th] = r
      /\ request' \in [Thread -> WriteCall \union RevertCall \union {Idle}]
      /\ \A o \in Thread : o # th => request'[o] = request[o]
  BY DEF RepoInv, Typed
<1>3. \A o \in Thread : lock' # o => request'[o] = Idle
  BY <1>1, <1>2 DEF RepoInv, Typed
<1> QED
  BY <1>1, <1>2, <1>3, OneMoves DEF RepoInv

LEMMA LookInv ==
  ASSUME RepoInv, NEW th \in Thread, Look(th)
  PROVE  RepoInv'
<1> USE DEF RepoInv, Look, At, store
<1> DEFINE r == request[th]
           x == [r EXCEPT !.pc = "plan",
                          !.tracked = {p \in Path : head[p] # Absent},
                          !.dirty = {p \in Path : head[p] # Absent /\ tree[p] # head[p]}]
<1>1. r \in WriteCall
  BY Shape DEF WritePc
<1>2. x \in WriteCall /\ x.pc = "plan" /\ x.patch = r.patch /\ x.done = r.done
      /\ x.tracked = {p \in Path : head[p] # Absent}
      /\ x.dirty = {p \in Path : head[p] # Absent /\ tree[p] # head[p]}
  BY <1>1 DEF WriteCall, WritePc
<1>3. request' = [request EXCEPT ![th] = x]
  BY <1>1 DEF WriteCall, Typed
<1> HIDE DEF x
<1>4. Typed'
  BY <1>2, <1>3, MovesOn DEF Typed, WritePc
<1>5. Stored'
  BY DEF Stored
<1>6. request'[th] = x
  BY <1>2, <1>3, MovesOn DEF WritePc
<1>7. (WriteProgress(request[th]) /\ RevertProgress(request[th]))'
  <2>1. records[r.patch.id] = None /\ r.done = 0
    BY DEF Progress, WriteProgress, WritePc
  <2>2. \A p \in Path : p \in x.tracked \ x.dirty => tree[p] \in committed[p]
    BY <1>2 DEF Stored
  <2>3. (WriteProgress(request[th]))'
    BY <1>2, <1>6, <2>1, <2>2 DEF WriteProgress, WritePc
  <2>4. (RevertProgress(request[th]))'
    BY <1>2, <1>6 DEF RevertProgress, RevertPc
  <2> QED
    BY <2>3, <2>4
<1>8. Progress'
  BY <1>2, <1>3, <1>7, MovesOn DEF WritePc
<1> QED
  BY <1>4, <1>5, <1>8

LEMMA PlanMadeInv ==
  ASSUME RepoInv, NEW th \in Thread, PlanMade(th)
  PROVE  RepoInv'
<1> USE DEF RepoInv, PlanMade, At, store, history
<1> DEFINE r == request[th]
           x == [r EXCEPT !.pc = "apply", !.plan = tree]
<1>1. r \in WriteCall
  BY Shape DEF WritePc
<1>2. x \in WriteCall /\ x.pc = "apply" /\ x.patch = r.patch /\ x.done = 0
      /\ x.plan = tree
  BY <1>1 DEF WriteCall, WritePc, Typed, Progress, WriteProgress
<1>3. request' = [request EXCEPT ![th] = x]
  BY <1>1 DEF WriteCall, Typed
<1> HIDE DEF x
<1>4. Typed'
  BY <1>2, <1>3, MovesOn DEF Typed, WritePc
<1>5. Stored'
  BY DEF Stored
<1>6. request'[th] = x
  BY <1>2, <1>3, MovesOn DEF WritePc
<1>7. \A p \in Changed(r.patch) \ touched : Safe(p)
  <2> TAKE p \in Changed(r.patch) \ touched
  <2>1. p \in Path
    BY <1>1, Paths DEF WriteCall
  <2>2. MayWrite(r, p)
    OBVIOUS
  <2>3. p \in r.tracked \ r.dirty => tree[p] \in committed[p]
    BY <2>1 DEF Progress, WriteProgress
  <2>4. index[p] = tree[p] => tree[p] \in ours[p]
    BY <2>1, RepoAssumption DEF Stored, Typed
  <2> QED
    BY <2>2, <2>3, <2>4 DEF MayWrite, Safe
<1>8. \A p \in Changed(r.patch) : p > 0
  BY <1>1, Paths DEF WriteCall, Path
<1>9. (WriteProgress(request[th]) /\ RevertProgress(request[th]))'
  <2>1. records[r.patch.id] = None
    BY DEF Progress, WriteProgress, WritePc
  <2>2. \A p \in Changed(x.patch) : p > 0 /\ ~ (p <= 0)
    BY <1>1, <1>2, <1>8, Paths DEF Path, WriteCall
  <2>3. \A p \in Changed(x.patch) \ touched : Safe(p)'
    BY <1>2, <1>7 DEF Safe
  <2>4. (WriteProgress(request[th]))'
    BY <1>2, <1>6, <2>1, <2>2, <2>3 DEF WriteProgress, WritePc
  <2>5. (RevertProgress(request[th]))'
    BY <1>2, <1>6 DEF RevertProgress, RevertPc
  <2> QED
    BY <2>4, <2>5
<1>10. Progress'
  BY <1>2, <1>3, <1>9, MovesOn DEF WritePc
<1> QED
  BY <1>4, <1>5, <1>10

(* A file is put: the others keep, and the history only grows.              *)
LEMMA PutEffect ==
  ASSUME Typed, NEW p \in Path, NEW c \in Text, Put(p, c)
  PROVE  /\ tree' \in [Path -> Text] /\ ours' \in [Path -> SUBSET Text]
         /\ tree'[p] = c /\ c \in ours'[p]
         /\ \A q \in Path : q # p => tree'[q] = tree[q] /\ ours'[q] = ours[q]
         /\ \A q \in Path : ours[q] \subseteq ours'[q]
  BY DEF Put, Typed

LEMMA ApplyInv ==
  ASSUME RepoInv, NEW th \in Thread, Apply(th)
  PROVE  RepoInv'
<1> USE DEF RepoInv, At, store
<1> DEFINE r == request[th]
<1>1. r \in WriteCall /\ r.pc = "apply"
  BY Shape DEF WritePc, Apply
<1>2. PICK p \in Firsts(Left(r)) :
        /\ Put(p, Data(r, p))
        /\ request' = [request EXCEPT ![th].done = p]
        /\ origin' = [origin EXCEPT ![r.patch.id][p] =
                        IF p \in touched THEN None ELSE tree[p]]
  BY DEF Apply, Data
<1>3. UNCHANGED <<head, store, lock, committed, touched, budget>>
  BY DEF Apply
<1>4. /\ Changed(r.patch) \subseteq Path /\ r.patch \in Patch /\ r.patch.id \in PatchId
      /\ p \in Changed(r.patch) /\ p \in Path /\ p > r.done
      /\ Data(r, p) \in Text
      /\ \A q \in Changed(r.patch) : q <= p => q <= r.done \/ q = p
  <2>1. r.patch \in Patch /\ r.done \in 0 .. Files
    BY <1>1 DEF WriteCall
  <2>2. p \in Changed(r.patch) /\ p > r.done
        /\ \A q \in Changed(r.patch) : q > r.done => p <= q
    BY <1>2 DEF Firsts, Left
  <2>3. Changed(r.patch) \subseteq Path /\ r.patch.id \in PatchId /\ Data(r, p) \in Text
    BY <2>1, <2>2, Paths DEF Data
  <2>4. \A q \in Changed(r.patch) : q <= p => q <= r.done \/ q = p
    BY <2>1, <2>2, <2>3, RepoAssumption DEF Path
  <2> QED
    BY <2>1, <2>2, <2>3, <2>4
<1> DEFINE x == [r EXCEPT !.done = p]
<1>5. x \in WriteCall /\ x.pc = "apply" /\ x.patch = r.patch /\ x.done = p
      /\ x.plan = r.plan
  <2>1. p \in 0 .. Files
    BY <1>4, RepoAssumption DEF Path
  <2> QED
    BY <1>1, <2>1 DEF WriteCall
<1>6. request' = [request EXCEPT ![th] = x]
  BY <1>1, <1>2 DEF WriteCall, Typed
<1> HIDE DEF x
<1>7. /\ tree' \in [Path -> Text] /\ ours' \in [Path -> SUBSET Text]
      /\ origin' \in [PatchId -> [Path -> Text \union {None}]]
      /\ tree'[p] = Data(r, p) /\ Data(r, p) \in ours'[p]
      /\ \A q \in Path : q # p => tree'[q] = tree[q] /\ ours'[q] = ours[q]
      /\ \A q \in Path : ours[q] \subseteq ours'[q]
  BY <1>2, <1>4, PutEffect DEF Typed
<1>8. /\ origin'[r.patch.id][p] = (IF p \in touched THEN None ELSE tree[p])
      /\ \A q \in Path : q # p => origin'[r.patch.id][q] = origin[r.patch.id][q]
      /\ \A i \in PatchId : i # r.patch.id => origin'[i] = origin[i]
  BY <1>2, <1>4 DEF Typed
<1>9. Typed'
  BY <1>1, <1>3, <1>5, <1>6, <1>7, MovesOn DEF Typed, WritePc
<1>10. WriteProgress(r)
  BY DEF Progress
<1>11. Stored'
  <2>1. records[r.patch.id] = None
    BY <1>1, <1>10 DEF WriteProgress, WritePc
  <2>2. \A i \in PatchId : records[i] # None => Changed(records[i].patch) \subseteq Path
    BY Paths DEF Typed, Record
  <2> QED
    BY <1>3, <1>7, <1>8, <2>1, <2>2 DEF Stored
<1>12. request'[th] = x
  BY <1>1, <1>3, <1>5, <1>6, MovesOn DEF WritePc
<1>13. (WriteProgress(request[th]))'
  <2> DEFINE y == request'[th]
  <2>0. y.pc = "apply" /\ y.patch = r.patch /\ y.done = p /\ y.plan = r.plan
    BY <1>5, <1>12
  <2> HIDE DEF y
  <2>1. records'[r.patch.id] = None
    BY <1>1, <1>3, <1>10 DEF WriteProgress, WritePc
  <2>2. ASSUME NEW q \in Changed(r.patch), q <= p
        PROVE  /\ Data(r, q) \in ours'[q]
               /\ q \notin touched' => tree'[q] = Data(r, q)
    BY <1>1, <1>3, <1>4, <1>7, <1>10, <2>2 DEF WriteProgress
  <2>3. ASSUME NEW q \in Changed(r.patch), q > p
        PROVE  q \notin touched' => tree'[q] = r.plan[q] /\ Safe(q)'
    <3>1. q > r.done /\ q # p /\ q \in Path
      BY <1>1, <1>4, <2>3, RepoAssumption DEF Path, WriteCall
    <3>2. q \notin touched => tree[q] = r.plan[q] /\ Safe(q)
      BY <1>1, <1>10, <3>1 DEF WriteProgress
    <3> QED
      BY <1>3, <1>7, <3>1, <3>2 DEF Safe
  <2>4. ASSUME NEW q \in Changed(r.patch), ~ (q > p)
        PROVE  origin'[r.patch.id][q] \in {None, r.plan[q]}
    <3>1. q \in Path /\ q <= p
      BY <1>4, <2>4, RepoAssumption DEF Path
    <3>2. CASE q = p
      BY <1>1, <1>4, <1>8, <1>10, <3>2 DEF WriteProgress
    <3>3. CASE q # p
      <4>1. ~ (q > r.done)
        BY <1>1, <1>4, <3>1, <3>3, RepoAssumption DEF Path, WriteCall
      <4>2. Took(r, q)
        BY <1>1, <1>10, <4>1 DEF WriteProgress
      <4> QED
        BY <1>8, <3>1, <3>3, <4>2 DEF Took
    <3> QED
      BY <3>2, <3>3
  <2> QED
    BY <2>0, <2>1, <2>2, <2>3, <2>4 DEF WriteProgress, Data, Took, WritePc, y
<1>14. (RevertProgress(request[th]))'
  BY <1>5, <1>12 DEF RevertProgress, RevertPc
<1>15. Progress'
  BY <1>1, <1>3, <1>5, <1>6, <1>13, <1>14, MovesOn DEF WritePc
<1> QED
  BY <1>9, <1>11, <1>15

LEMMA ApplyFailsInv ==
  ASSUME RepoInv, NEW th \in Thread, ApplyFails(th)
  PROVE  RepoInv'
<1> USE DEF RepoInv, ApplyFails, At, To, store, history
<1> DEFINE r == request[th]
           x == [r EXCEPT !.pc = "undo"]
<1>1. r \in WriteCall /\ r.pc = "apply"
  BY Shape DEF WritePc
<1>2. x \in WriteCall /\ x.pc = "undo" /\ x.patch = r.patch /\ x.done = r.done
      /\ x.plan = r.plan /\ x.stuck = r.stuck
  BY <1>1 DEF WriteCall, WritePc
<1>3. request' = [request EXCEPT ![th] = x]
  BY <1>1 DEF WriteCall, Typed
<1> HIDE DEF x
<1>4. request'[th] = x
  BY <1>1, <1>2, <1>3, MovesOn DEF WritePc
<1>5. Typed'
  BY <1>1, <1>2, <1>3, MovesOn DEF Typed, WritePc
<1>6. Stored'
  BY DEF Stored
<1>7. (WriteProgress(request[th]) /\ RevertProgress(request[th]))'
  <2>1. WriteProgress(r)
    BY DEF Progress
  <2>2. (WriteProgress(request[th]))'
    BY <1>1, <1>2, <1>4, <2>1 DEF WriteProgress, WritePc, Data
  <2>3. (RevertProgress(request[th]))'
    BY <1>2, <1>4 DEF RevertProgress, RevertPc
  <2> QED
    BY <2>2, <2>3
<1>8. Progress'
  BY <1>1, <1>2, <1>3, <1>7, MovesOn DEF WritePc
<1> QED
  BY <1>5, <1>6, <1>8

(* An undo step of path p, whether the file was restored or left.           *)
LEMMA UndoneInv ==
  ASSUME RepoInv, NEW th \in Thread, request[th].pc = "undo",
         NEW p \in Lasts(Applied(request[th])), NEW left \in {{}, {p}},
         request' = [request EXCEPT ![th].done = p - 1,
                                    ![th].stuck = @ \union left],
         IF left = {} THEN Put(p, request[th].plan[p]) ELSE UNCHANGED <<tree, ours>>,
         UNCHANGED <<head, store, lock, committed, origin, touched, budget>>
  PROVE  RepoInv'
<1> USE DEF RepoInv, store
<1> DEFINE r == request[th]
           x == [r EXCEPT !.done = p - 1, !.stuck = r.stuck \union left]
<1>1. r \in WriteCall /\ r.pc = "undo"
  BY Shape DEF WritePc
<1>2. /\ Changed(r.patch) \subseteq Path /\ p \in Changed(r.patch) /\ p \in Path
      /\ p <= r.done /\ p - 1 \in 0 .. Files /\ r.plan[p] \in Text
      /\ \A q \in Changed(r.patch) : q <= p - 1 => q <= r.done /\ q # p
      /\ \A q \in Changed(r.patch) : q > p - 1 => q > r.done \/ q = p
  <2>1. Changed(r.patch) \subseteq Path /\ p \in Changed(r.patch) /\ p <= r.done
    BY <1>1, Paths DEF WriteCall, Lasts, Applied
  <2>2. \A q \in Changed(r.patch) : q <= r.done => q <= p
    BY DEF Lasts, Applied
  <2>3. p \in 1 .. Files /\ r.done \in 0 .. Files /\ Files \in Nat /\ Changed(r.patch) \subseteq 1 .. Files
    BY <1>1, <2>1, RepoAssumption DEF WriteCall, Path
  <2>4. r.plan[p] \in Text
    BY <1>1, <2>1 DEF WriteCall
  <2>5. p - 1 \in 0 .. Files
    BY <2>3
  <2>6. \A q \in Changed(r.patch) : q <= p - 1 => q <= r.done /\ q # p
    BY <2>1, <2>3
  <2>7. \A q \in Changed(r.patch) : q > p - 1 => q > r.done \/ q = p
    BY <2>2, <2>3
  <2> QED
    BY <2>1, <2>4, <2>5, <2>6, <2>7
<1>3. x \in WriteCall /\ x.pc = "undo" /\ x.patch = r.patch /\ x.done = p - 1
      /\ x.plan = r.plan /\ x.stuck = r.stuck \union left
  BY <1>1, <1>2 DEF WriteCall
<1>4. request' = [request EXCEPT ![th] = x]
  BY <1>1 DEF WriteCall, Typed
<1> HIDE DEF x
<1>5. /\ tree' \in [Path -> Text] /\ ours' \in [Path -> SUBSET Text]
      /\ left = {} => tree'[p] = r.plan[p]
      /\ \A q \in Path : q # p => tree'[q] = tree[q]
      /\ \A q \in Path : ours[q] \subseteq ours'[q]
  BY <1>2, PutEffect DEF Typed
<1>6. request'[th] = x
  BY <1>1, <1>3, <1>4, MovesOn DEF WritePc
<1>7. Typed'
  BY <1>1, <1>3, <1>4, <1>5, MovesOn DEF Typed, WritePc
<1>8. Stored'
  <2>1. \A i \in PatchId : records[i] # None => Changed(records[i].patch) \subseteq Path
    BY Paths DEF Typed, Record
  <2> QED
    BY <1>5, <2>1 DEF Stored
<1>9. (WriteProgress(request[th]))'
  <2>0. WriteProgress(r)
    BY DEF Progress
  <2>1. records'[r.patch.id] = None
    BY <1>1, <2>0 DEF WriteProgress, WritePc
  <2>2. ASSUME NEW q \in Changed(r.patch), q <= p - 1
        PROVE  /\ Data(r, q) \in ours'[q]
               /\ q \notin touched' => tree'[q] = Data(r, q)
    BY <1>1, <1>2, <1>5, <2>0, <2>2 DEF WriteProgress
  <2>3. ASSUME NEW q \in Changed(r.patch) \ (touched \union x.stuck), q > p - 1
        PROVE  tree'[q] = r.plan[q]
    <3>1. CASE q = p
      BY <1>3, <1>5, <2>3, <3>1
    <3>2. CASE q # p
      BY <1>1, <1>2, <1>3, <1>5, <2>0, <2>3, <3>2 DEF WriteProgress
    <3> QED
      BY <3>1, <3>2
  <2> QED
    BY <1>3, <1>6, <2>1, <2>2, <2>3 DEF WriteProgress, Data, WritePc
<1>10. (RevertProgress(request[th]))'
  BY <1>3, <1>6 DEF RevertProgress, RevertPc
<1>11. Progress'
  BY <1>1, <1>3, <1>4, <1>9, <1>10, MovesOn DEF WritePc
<1> QED
  BY <1>7, <1>8, <1>11

LEMMA UndoInv ==
  ASSUME RepoInv, NEW th \in Thread, Undo(th) \/ UndoFails(th)
  PROVE  RepoInv'
<1> USE DEF At, history, store
<1>1. request[th] \in WriteCall /\ request[th].pc = "undo"
  BY Shape DEF WritePc, Undo, UndoFails, RepoInv
<1>2. CASE Undo(th)
  <2>1. PICK p \in Lasts(Applied(request[th])) :
          /\ Put(p, request[th].plan[p])
          /\ request' = [request EXCEPT ![th].done = p - 1]
          /\ UNCHANGED <<head, store, lock, committed, origin, touched, budget>>
    BY <1>2 DEF Undo
  <2>2. request' = [request EXCEPT ![th].done = p - 1, ![th].stuck = @ \union {}]
    <3>1. request[th].stuck \union {} = request[th].stuck
      OBVIOUS
    <3>2. [request[th] EXCEPT !.done = p - 1, !.stuck = @ \union {}]
            = [request[th] EXCEPT !.done = p - 1]
      BY <1>1, <3>1 DEF WriteCall
    <3>3. request = [o \in Thread |-> request[o]]
      BY DEF RepoInv, Typed
    <3> QED
      BY <2>1, <3>2, <3>3
  <2> QED
    BY <1>1, <2>1, <2>2, UndoneInv
<1>3. CASE UndoFails(th)
  <2>1. PICK p \in Lasts(Applied(request[th])) :
          /\ request' = [request EXCEPT ![th].done = p - 1, ![th].stuck = @ \union {p}]
          /\ UNCHANGED <<tree, head, store, lock, history, budget>>
    BY <1>3 DEF UndoFails
  <2> QED
    BY <1>1, <2>1, UndoneInv
<1> QED
  BY <1>2, <1>3

LEMMA AllAppliedInv ==
  ASSUME RepoInv, NEW th \in Thread, AllApplied(th)
  PROVE  RepoInv'
<1> USE DEF RepoInv, AllApplied, At, To, store, history
<1> DEFINE r == request[th]
           x == [r EXCEPT !.pc = "index"]
<1>1. r \in WriteCall /\ r.pc = "apply"
  BY Shape DEF WritePc
<1>2. x \in WriteCall /\ x.pc = "index" /\ x.patch = r.patch /\ x.plan = r.plan
  BY <1>1 DEF WriteCall, WritePc
<1>3. request' = [request EXCEPT ![th] = x]
  BY <1>1 DEF WriteCall, Typed
<1> HIDE DEF x
<1>4. request'[th] = x
  BY <1>1, <1>2, <1>3, MovesOn DEF WritePc
<1>5. Typed'
  BY <1>1, <1>2, <1>3, MovesOn DEF Typed, WritePc
<1>6. Stored'
  BY DEF Stored
<1>7. (WriteProgress(request[th]) /\ RevertProgress(request[th]))'
  <2>1. WriteProgress(r)
    BY DEF Progress
  <2>2. \A q \in Changed(r.patch) : q <= r.done /\ ~ (q > r.done)
    BY <1>1, Paths, RepoAssumption DEF Left, WriteCall, Path
  <2>3. \A q \in Changed(r.patch) : Data(r, q) \in ours[q] /\ Took(r, q)
                                  /\ (q \notin touched => tree[q] = Data(r, q))
    BY <1>1, <2>1, <2>2 DEF WriteProgress
  <2>4. records[r.patch.id] = None
    BY <1>1, <2>1 DEF WriteProgress, WritePc
  <2>5. (WriteProgress(request[th]))'
    BY <1>2, <1>4, <2>3, <2>4 DEF WriteProgress, WritePc, Data, Took
  <2>6. (RevertProgress(request[th]))'
    BY <1>2, <1>4 DEF RevertProgress, RevertPc
  <2> QED
    BY <2>5, <2>6
<1>8. Progress'
  BY <1>1, <1>2, <1>3, <1>7, MovesOn DEF WritePc
<1> QED
  BY <1>5, <1>6, <1>8

LEMMA SaveIndexInv ==
  ASSUME RepoInv, NEW th \in Thread, SaveIndex(th)
  PROVE  RepoInv'
<1> USE DEF RepoInv, SaveIndex, At, To, history
<1> DEFINE r == request[th]
           x == [r EXCEPT !.pc = "record"]
<1>1. r \in WriteCall /\ r.pc = "index"
  BY Shape DEF WritePc
<1>2. x \in WriteCall /\ x.pc = "record" /\ x.patch = r.patch /\ x.plan = r.plan
  BY <1>1 DEF WriteCall, WritePc
<1>3. request' = [request EXCEPT ![th] = x]
  BY <1>1 DEF WriteCall, Typed
<1> HIDE DEF x
<1>4. request'[th] = x
  BY <1>1, <1>2, <1>3, MovesOn DEF WritePc
<1>5. index' = [p \in Path |-> IF p \in Changed(r.patch) THEN Data(r, p) ELSE index[p]]
  BY DEF Data
<1>6. \A p \in Changed(r.patch) : Data(r, p) \in Content
  BY <1>1, Paths DEF WriteCall, Data
<1>7. Typed'
  <2>1. index' \in [Path -> Content \union {None}]
    BY <1>5, <1>6 DEF Typed
  <2> QED
    BY <1>1, <1>2, <1>3, <2>1, MovesOn DEF Typed, WritePc
<1>8. WriteProgress(r)
  BY DEF Progress
<1>9. Stored'
  BY <1>1, <1>5, <1>8 DEF Stored, WriteProgress
<1>10. (WriteProgress(request[th]))'
  BY <1>1, <1>2, <1>4, <1>8 DEF WriteProgress, WritePc, Data, Took
<1>11. (RevertProgress(request[th]))'
  BY <1>2, <1>4 DEF RevertProgress, RevertPc
<1>12. Progress'
  BY <1>1, <1>2, <1>3, <1>10, <1>11, MovesOn DEF WritePc
<1> QED
  BY <1>7, <1>9, <1>12

LEMMA SaveRecordInv ==
  ASSUME RepoInv, NEW th \in Thread, SaveRecord(th)
  PROVE  RepoInv'
<1> USE DEF RepoInv, SaveRecord, At, history
<1> DEFINE r == request[th]
           rec == [patch |-> r.patch, prev |-> r.plan, reverted |-> FALSE]
<1>1. r \in WriteCall /\ r.pc = "record" /\ lock = th
  BY Shape DEF WritePc
<1>2. rec \in Record
  BY <1>1 DEF WriteCall, Record
<1>3. Progress' /\ Typed'
  <2>1. records' \in [PatchId -> Record \union {None}]
    BY <1>2 DEF Typed
  <2> QED
    BY <1>1, <2>1, Ends DEF Typed
<1>4. WriteProgress(r)
  BY DEF Progress
<1>5. \A i \in PatchId : records'[i] # None =>
        \/ i = r.patch.id /\ records'[i] = rec
        \/ records'[i] = records[i]
  OBVIOUS
<1>6. \A p \in Changed(r.patch) : Data(r, p) \in ours[p] /\ Took(r, p)
  BY <1>1, <1>4 DEF WriteProgress
<1>7. Stored'
  BY <1>5, <1>6 DEF Stored, Data, Took
<1> QED
  BY <1>3, <1>7

-----------------------------------------------------------------------------
(* A revert                                                                 *)

LEMMA BeginRevertInv ==
  ASSUME RepoInv, NEW th \in Thread, NEW i \in PatchId, NEW w, BeginRevert(th, i, w)
  PROVE  RepoInv'
<1> USE DEF RepoInv, BeginRevert, Take, store
<1> DEFINE r == [pc |-> "verify", patch |-> records[i].patch,
                 plan |-> records[i].prev, done |-> Files]
<1>1. r \in RevertCall
  BY RepoAssumption DEF RevertCall, RevertPc, Typed, Record
<1>2. request'[th] = r /\ \A o \in Thread : o # th => request'[o] = request[o]
  BY DEF Typed
<1>3. Typed'
  BY <1>1, <1>2, RepoAssumption DEF Typed
<1>4. Stored'
  BY DEF Stored
<1>5. (WriteProgress(request[th]) /\ RevertProgress(request[th]))'
  BY <1>2 DEF WriteProgress, RevertProgress, WritePc, Stored
<1>6. Progress'
  BY <1>2, <1>5, OneMoves DEF Typed
<1> QED
  BY <1>3, <1>4, <1>6

LEMMA VerifyInv ==
  ASSUME RepoInv, NEW th \in Thread, Verify(th)
  PROVE  RepoInv'
<1> USE DEF RepoInv, Verify, At, To, store, history
<1> DEFINE r == request[th]
           x == [r EXCEPT !.pc = "restore"]
<1>1. r \in RevertCall /\ r.pc = "verify" /\ r # Idle
  BY Shape DEF RevertPc
<1>2. CASE ~ Unchanged(r.patch)
  BY <1>1, <1>2, RefuseInv DEF Refuse
<1>3. CASE Unchanged(r.patch)
  <2>1. x \in RevertCall /\ x.pc = "restore" /\ x.patch = r.patch /\ x.plan = r.plan
        /\ x.done = r.done
    BY <1>1 DEF RevertCall, RevertPc
  <2>2. request' = [request EXCEPT ![th] = x] /\ lock' = lock
    BY <1>1, <1>3 DEF RevertCall, Typed
  <2> HIDE DEF x
  <2>3. request'[th] = x
    BY <1>1, <2>1, <2>2, MovesOn DEF RevertPc
  <2>4. Typed'
    BY <1>1, <2>1, <2>2, MovesOn DEF Typed, RevertPc
  <2>5. Stored'
    BY DEF Stored
  <2>6. RevertProgress(r)
    BY DEF Progress
  <2>7. \A p \in Changed(r.patch) : p <= Files /\ ~ (p > Files)
    BY <1>1, Paths, RepoAssumption DEF RevertCall, Path
  <2>8. (RevertProgress(request[th]))'
    BY <1>1, <1>3, <2>1, <2>3, <2>6, <2>7 DEF RevertProgress, RevertPc, Unchanged, Data
  <2>9. (WriteProgress(request[th]))'
    BY <2>1, <2>3 DEF WriteProgress, WritePc
  <2>10. Progress'
    BY <1>1, <2>1, <2>2, <2>8, <2>9, MovesOn DEF RevertPc
  <2> QED
    BY <2>4, <2>5, <2>10
<1> QED
  BY <1>2, <1>3

LEMMA RestoreInv ==
  ASSUME RepoInv, NEW th \in Thread, Restore(th)
  PROVE  RepoInv'
<1> USE DEF RepoInv, At, store
<1> DEFINE r == request[th]
<1>1. r \in RevertCall /\ r.pc = "restore"
  BY Shape DEF RevertPc, Restore
<1>2. PICK p \in Lasts(Applied(r)) :
        Put(p, r.plan[p]) /\ request' = [request EXCEPT ![th].done = p - 1]
  BY DEF Restore
<1>3. UNCHANGED <<head, store, lock, committed, origin, touched, budget>>
  BY DEF Restore
<1>4. /\ Changed(r.patch) \subseteq Path /\ p \in Changed(r.patch) /\ p \in Path
      /\ r.plan[p] \in Text /\ p - 1 \in 0 .. Files
      /\ \A q \in Changed(r.patch) : q <= p - 1 => q <= r.done /\ q # p
      /\ \A q \in Changed(r.patch) : q > p - 1 => (q > r.done /\ ~ (q <= r.done)) \/ q = p
  <2>1. Changed(r.patch) \subseteq Path /\ p \in Changed(r.patch) /\ p <= r.done
    BY <1>1, Paths DEF RevertCall, Lasts, Applied
  <2>2. \A q \in Changed(r.patch) : q <= r.done => q <= p
    BY DEF Lasts, Applied
  <2>3. p \in 1 .. Files /\ r.done \in 0 .. Files /\ Files \in Nat /\ Changed(r.patch) \subseteq 1 .. Files
    BY <1>1, <2>1, RepoAssumption DEF RevertCall, Path
  <2>4. r.plan[p] \in Text
    BY <1>1, <2>1 DEF RevertCall
  <2>5. p - 1 \in 0 .. Files
    BY <2>3
  <2>6. \A q \in Changed(r.patch) : q <= p - 1 => q <= r.done /\ q # p
    BY <2>1, <2>3
  <2>7. \A q \in Changed(r.patch) : q > p - 1 => (q > r.done /\ ~ (q <= r.done)) \/ q = p
    BY <2>2, <2>3
  <2> QED
    BY <2>1, <2>4, <2>5, <2>6, <2>7
<1> DEFINE x == [r EXCEPT !.done = p - 1]
<1>5. x \in RevertCall /\ x.pc = "restore" /\ x.patch = r.patch /\ x.done = p - 1
      /\ x.plan = r.plan
  BY <1>1, <1>4 DEF RevertCall
<1>6. request' = [request EXCEPT ![th] = x]
  BY <1>1, <1>2 DEF RevertCall, Typed
<1> HIDE DEF x
<1>7. /\ tree' \in [Path -> Text] /\ ours' \in [Path -> SUBSET Text]
      /\ tree'[p] = r.plan[p] /\ r.plan[p] \in ours'[p]
      /\ \A q \in Path : q # p => tree'[q] = tree[q]
      /\ \A q \in Path : ours[q] \subseteq ours'[q]
  BY <1>2, <1>4, PutEffect
<1>8. request'[th] = x
  BY <1>1, <1>3, <1>5, <1>6, MovesOn DEF RevertPc
<1>9. Typed'
  BY <1>1, <1>3, <1>5, <1>6, <1>7, MovesOn DEF Typed, RevertPc
<1>10. Stored'
  <2>1. \A i \in PatchId : records[i] # None => Changed(records[i].patch) \subseteq Path
    BY Paths DEF Typed, Record
  <2> QED
    BY <1>3, <1>7, <2>1 DEF Stored
<1>11. (RevertProgress(request[th]))'
  <2>0. RevertProgress(r)
    BY DEF Progress
  <2>1. records'[r.patch.id] # None /\ records'[r.patch.id].patch = r.patch
        /\ records'[r.patch.id].prev = r.plan
    BY <1>1, <1>3, <2>0 DEF RevertProgress, RevertPc
  <2>2. ASSUME NEW q \in Changed(r.patch) \ touched, q <= p - 1
        PROVE  tree'[q] = Data(r, q)
    BY <1>1, <1>4, <1>7, <2>0, <2>2 DEF RevertProgress
  <2>3. ASSUME NEW q \in Changed(r.patch), ~ (q <= p - 1)
        PROVE  /\ q \notin touched => tree'[q] = r.plan[q]
               /\ r.plan[q] \in ours'[q]
    <3>1. q > p - 1 /\ q \in Path
      BY <1>4, <2>3, RepoAssumption DEF Path
    <3>2. CASE q = p
      BY <1>7, <3>2
    <3>3. CASE q # p
      BY <1>1, <1>4, <1>7, <2>0, <3>1, <3>3 DEF RevertProgress
    <3> QED
      BY <3>2, <3>3
  <2>4. \A q \in Changed(r.patch) : q > p - 1 => ~ (q <= p - 1)
    BY <1>4, RepoAssumption DEF Path
  <2> QED
    BY <1>3, <1>5, <1>8, <2>1, <2>2, <2>3, <2>4 DEF RevertProgress, Data, RevertPc
<1>12. (WriteProgress(request[th]))'
  BY <1>5, <1>8 DEF WriteProgress, WritePc
<1>13. Progress'
  BY <1>1, <1>3, <1>5, <1>6, <1>11, <1>12, MovesOn DEF RevertPc
<1> QED
  BY <1>9, <1>10, <1>13

LEMMA AllRestoredInv ==
  ASSUME RepoInv, NEW th \in Thread, AllRestored(th)
  PROVE  RepoInv'
<1> USE DEF RepoInv, AllRestored, At, To, store, history
<1> DEFINE r == request[th]
           x == [r EXCEPT !.pc = "reindex"]
<1>1. r \in RevertCall /\ r.pc = "restore"
  BY Shape DEF RevertPc
<1>2. x \in RevertCall /\ x.pc = "reindex" /\ x.patch = r.patch /\ x.plan = r.plan
  BY <1>1 DEF RevertCall, RevertPc
<1>3. request' = [request EXCEPT ![th] = x]
  BY <1>1 DEF RevertCall, Typed
<1> HIDE DEF x
<1>4. request'[th] = x
  BY <1>1, <1>2, <1>3, MovesOn DEF RevertPc
<1>5. Typed'
  BY <1>1, <1>2, <1>3, MovesOn DEF Typed, RevertPc
<1>6. Stored'
  BY DEF Stored
<1>7. RevertProgress(r)
  BY DEF Progress
<1>8. \A q \in Changed(r.patch) : ~ (q <= r.done) /\ q > r.done
  BY <1>1, Paths, RepoAssumption DEF Applied, RevertCall, Path
<1>9. \A q \in Changed(r.patch) : r.plan[q] \in ours[q]
                                  /\ (q \notin touched => tree[q] = r.plan[q])
  BY <1>1, <1>7, <1>8 DEF RevertProgress
<1>10. (RevertProgress(request[th]))'
  BY <1>1, <1>2, <1>4, <1>7, <1>9 DEF RevertProgress, RevertPc
<1>11. (WriteProgress(request[th]))'
  BY <1>2, <1>4 DEF WriteProgress, WritePc
<1>12. Progress'
  BY <1>1, <1>2, <1>3, <1>10, <1>11, MovesOn DEF RevertPc
<1> QED
  BY <1>5, <1>6, <1>12

LEMMA ReindexInv ==
  ASSUME RepoInv, NEW th \in Thread, Reindex(th)
  PROVE  RepoInv'
<1> USE DEF RepoInv, Reindex, At, To, history
<1> DEFINE r == request[th]
           x == [r EXCEPT !.pc = "rerecord"]
<1>1. r \in RevertCall /\ r.pc = "reindex"
  BY Shape DEF RevertPc
<1>2. x \in RevertCall /\ x.pc = "rerecord" /\ x.patch = r.patch /\ x.plan = r.plan
  BY <1>1 DEF RevertCall, RevertPc
<1>3. request' = [request EXCEPT ![th] = x]
  BY <1>1 DEF RevertCall, Typed
<1> HIDE DEF x
<1>4. request'[th] = x
  BY <1>1, <1>2, <1>3, MovesOn DEF RevertPc
<1>5. RevertProgress(r)
  BY DEF Progress
<1>6. \A p \in Path : r.plan[p] \in Content \union {Absent}
  BY <1>1 DEF RevertCall, Text
<1>7. Typed'
  <2>1. index' \in [Path -> Content \union {None}]
    BY <1>6 DEF Typed
  <2> QED
    BY <1>1, <1>2, <1>3, <2>1, MovesOn DEF Typed, RevertPc
<1>8. \A p \in Path : index'[p] # None =>
        \/ p \in Changed(r.patch) /\ index'[p] = r.plan[p]
        \/ index'[p] = index[p]
  OBVIOUS
<1>9. \A p \in Changed(r.patch) : r.plan[p] \in ours[p]
  BY <1>1, <1>5 DEF RevertProgress
<1>10. Stored'
  BY <1>8, <1>9 DEF Stored
<1>11. (RevertProgress(request[th]))'
  BY <1>1, <1>2, <1>4, <1>5 DEF RevertProgress, RevertPc
<1>12. (WriteProgress(request[th]))'
  BY <1>2, <1>4 DEF WriteProgress, WritePc
<1>13. Progress'
  BY <1>1, <1>2, <1>3, <1>11, <1>12, MovesOn DEF RevertPc
<1> QED
  BY <1>7, <1>10, <1>13

LEMMA RerecordInv ==
  ASSUME RepoInv, NEW th \in Thread, Rerecord(th)
  PROVE  RepoInv'
<1> USE DEF RepoInv, Rerecord, At, history
<1> DEFINE r == request[th] i == r.patch.id
<1>1. r \in RevertCall /\ r.pc = "rerecord" /\ lock = th
  BY Shape DEF RevertPc
<1>2. RevertProgress(r)
  BY DEF Progress
<1>3. i \in PatchId /\ records[i] # None /\ records[i] \in Record
  BY <1>1, <1>2, Paths DEF RevertProgress, RevertPc, RevertCall, Typed
<1>4. /\ records'[i] \in Record /\ records'[i].patch = records[i].patch
      /\ records'[i].prev = records[i].prev
      /\ \A j \in PatchId : j # i => records'[j] = records[j]
      /\ records' \in [PatchId -> Record \union {None}]
  BY <1>3 DEF Typed, Record
<1>5. Progress' /\ Typed'
  BY <1>1, <1>4, Ends DEF Typed
<1>6. \A j \in PatchId : records'[j] # None =>
        records[j] # None /\ records'[j].patch = records[j].patch
                         /\ records'[j].prev = records[j].prev
  BY <1>3, <1>4
<1>7. Stored'
  BY <1>6 DEF Stored
<1> QED
  BY <1>5, <1>7

-----------------------------------------------------------------------------
LEMMA CallInv ==
  ASSUME RepoInv, NEW th \in Thread, Call(th)
  PROVE  RepoInv'
<1> USE DEF Call
<1>1. ASSUME NEW c \in Patch, Begin(th, c) PROVE RepoInv'
  BY <1>1, BeginInv
<1>2. ASSUME NEW i \in PatchId, NEW w, BeginRevert(th, i, w) PROVE RepoInv'
  BY <1>2, BeginRevertInv
<1>3. CASE Look(th) \/ PlanMade(th)
  BY <1>3, LookInv, PlanMadeInv
<1>4. CASE Apply(th) \/ ApplyFails(th) \/ Undo(th) \/ UndoFails(th)
  BY <1>4, ApplyInv, ApplyFailsInv, UndoInv
<1>5. CASE AllApplied(th) \/ SaveIndex(th) \/ SaveRecord(th)
  BY <1>5, AllAppliedInv, SaveIndexInv, SaveRecordInv
<1>6. CASE Verify(th) \/ Restore(th) \/ AllRestored(th)
  BY <1>6, VerifyInv, RestoreInv, AllRestoredInv
<1>7. CASE Reindex(th) \/ Rerecord(th)
  BY <1>7, ReindexInv, RerecordInv
<1>8. CASE PlanRefused(th) \/ Undone(th) \/ Breaks(th)
  BY <1>8, RefuseInv DEF PlanRefused, Undone, Breaks, At, Idle
<1> QED
  BY <1>1, <1>2, <1>3, <1>4, <1>5, <1>6, <1>7, <1>8

LEMMA NextInv == RepoInv /\ [Next]_vars => RepoInv'
<1> SUFFICES ASSUME RepoInv, [Next]_vars PROVE RepoInv'
  OBVIOUS
<1>1. ASSUME NEW th \in Thread, Call(th) PROVE RepoInv'
  BY <1>1, CallInv
<1>2. ASSUME NEW p \in Path, NEW c \in Text, Edit(p, c) PROVE RepoInv'
  BY <1>2, EditInv
<1>3. ASSUME NEW i \in PatchId, Age(i) PROVE RepoInv'
  BY <1>3, AgeInv
<1>4. CASE GitCommit \/ Kill
  BY <1>4, GitCommitInv, KillInv
<1>5. CASE UNCHANGED vars
  <2>1. Typed'
    BY <1>5 DEF vars, store, history, RepoInv, Typed
  <2>2. Stored'
    BY <1>5 DEF vars, store, history, RepoInv, Stored
  <2>3. Progress'
    BY <1>5, SameProgress DEF vars, store, history, RepoInv
  <2> QED
    BY <2>1, <2>2, <2>3 DEF RepoInv
<1> QED
  BY <1>1, <1>2, <1>3, <1>4, <1>5 DEF Next

(* The inductive invariant holds for ever.                                  *)
THEOREM Invariant == Spec => []RepoInv
<1> QED
  BY InitInv, NextInv, PTL DEF Spec

(* The tree, the index, the records and the lock keep their types, and a    *)
(* request is served only under the lock.                                   *)
THEOREM TypeCorrect == Spec => []TypeOK
<1>1. RepoInv => TypeOK
  BY DEF RepoInv, Typed, TypeOK, Record
<1> QED
  BY <1>1, Invariant, PTL

(* A file the index opens to readers has what the service put there         *)
(* (written_sha).                                                           *)
THEOREM ReadableStaysOurs == Spec => []ReadableIsOurs
<1>1. RepoInv => ReadableIsOurs
  BY DEF RepoInv, Stored, ReadableIsOurs
<1> QED
  BY <1>1, Invariant, PTL

Writes(th, p) ==
  /\ Apply(th) \/ Undo(th) \/ Restore(th)
  /\ request[th].pc \in {"apply", "undo", "restore"}
  /\ p \in Changed(request[th].patch)
  /\ request[th].pc = "apply" <=> p > request[th].done

(* Only Edit and a put of a request change the tree.                        *)
LEMMA WhoWrites ==
  ASSUME RepoInv, [Next]_vars, NEW p \in Path, tree'[p] # tree[p]
  PROVE  \/ p \in touched'
         \/ \E th \in Thread : Writes(th, p)
<1>1. ASSUME NEW q \in Path, NEW c \in Text, Edit(q, c) PROVE p \in touched'
  BY <1>1 DEF Edit, RepoInv, Typed
<1>2. ASSUME NEW th \in Thread, Apply(th)
      PROVE  /\ request[th].pc = "apply" /\ p \in Changed(request[th].patch)
             /\ p > request[th].done
  <2>1. PICK q \in Firsts(Left(request[th])) :
          Put(q, request[th].patch.files[q].data) /\ request[th].pc = "apply"
    BY <1>2 DEF Apply, At
  <2> QED
    BY <2>1 DEF Put, Firsts, Left, RepoInv, Typed
<1>3. ASSUME NEW th \in Thread, Undo(th) \/ Restore(th)
      PROVE  /\ request[th].pc \in {"undo", "restore"}
             /\ p \in Changed(request[th].patch) /\ ~ (p > request[th].done)
  <2>1. PICK q \in Lasts(Applied(request[th])) : Put(q, request[th].plan[q])
    BY <1>3 DEF Undo, Restore
  <2>2. p = q /\ p \in Changed(request[th].patch) /\ p <= request[th].done
    BY <2>1 DEF Put, Lasts, Applied, RepoInv, Typed
  <2>3. request[th].pc \in {"undo", "restore"}
    BY <1>3 DEF Undo, Restore, At
  <2>4. request[th].done \in 0 .. Files /\ p \in 1 .. Files
    BY <2>3, Shape DEF RepoInv, WritePc, RevertPc, WriteCall, RevertCall, Path
  <2> QED
    BY <2>2, <2>3, <2>4, RepoAssumption
<1>4. ASSUME NEW th \in Thread, Call(th), ~ Apply(th), ~ Undo(th), ~ Restore(th)
      PROVE  FALSE
  BY <1>4 DEF Call, Begin, BeginRevert, Look, PlanMade, PlanRefused, ApplyFails,
       UndoFails, Undone, AllApplied, SaveIndex, SaveRecord, Verify, AllRestored,
       Reindex, Rerecord, Breaks, Refuse, store, history
<1> QED
  BY <1>1, <1>2, <1>3, <1>4 DEF Next, GitCommit, Kill, Age, vars, history, store, Writes

(* "a writer never overwrites the owner's work in progress"                 *)
THEOREM OwnersTextStays == Spec => OwnersTextKept
<1>1. ASSUME RepoInv, [Next]_vars, NEW p \in Path, tree'[p] # tree[p], p \notin touched'
      PROVE  Safe(p)
  <2>0. PICK th \in Thread : Writes(th, p)
    BY <1>1, WhoWrites
  <2> DEFINE r == request[th]
  <2>1. /\ Apply(th) \/ Undo(th) \/ Restore(th)
        /\ r.pc \in {"apply", "undo", "restore"} /\ p \in Changed(r.patch)
        /\ r.pc = "apply" <=> p > r.done
    BY <2>0 DEF Writes
  <2>2. p \notin touched
    BY <1>1, <2>1 DEF Apply, Undo, Restore
  <2>3. WriteProgress(r) /\ RevertProgress(r)
    BY <1>1 DEF RepoInv, Progress
  <2>4. CASE r.pc = "apply"
    BY <2>1, <2>2, <2>3, <2>4 DEF WriteProgress
  <2>5. CASE r.pc # "apply"
    <3>1. r.done \in 0 .. Files /\ p \in 1 .. Files
      BY <1>1, <2>1, Shape DEF RepoInv, WritePc, RevertPc, WriteCall, RevertCall, Path
    <3>2. p <= r.done
      BY <2>1, <2>5, <3>1, RepoAssumption
    <3>3. CASE r.pc = "undo"
      BY <2>1, <2>2, <2>3, <3>2, <3>3 DEF WriteProgress, Safe
    <3>4. CASE r.pc = "restore"
      <4>1. r.patch \in Patch /\ r.patch.id \in PatchId
        BY <1>1, <3>4, Shape, Paths DEF RepoInv, RevertPc, RevertCall
      <4>2. records[r.patch.id] # None /\ records[r.patch.id].patch = r.patch
        BY <2>3, <3>4 DEF RevertProgress, RevertPc
      <4>3. Data(r, p) \in ours[p]
        BY <1>1, <2>1, <4>1, <4>2 DEF RepoInv, Stored, Data
      <4> QED
        BY <2>1, <2>2, <2>3, <3>2, <3>4, <4>3 DEF RevertProgress, Safe
    <3> QED
      BY <2>1, <2>5, <3>3, <3>4
  <2> QED
    BY <2>4, <2>5
<1>2. RepoInv /\ [Next]_vars =>
        [\A p \in Path : tree'[p] # tree[p] =>
           \/ p \in touched'
           \/ tree[p] = Absent
           \/ tree[p] \in committed[p] \union ours[p]]_<<tree, touched>>
  <2> SUFFICES ASSUME RepoInv, [Next]_vars, NEW p \in Path, tree'[p] # tree[p],
                      p \notin touched'
               PROVE  tree[p] = Absent \/ tree[p] \in committed[p] \union ours[p]
    OBVIOUS
  <2> QED
    BY <1>1 DEF Safe
<1> QED
  BY <1>2, Invariant, PTL DEF Spec, OwnersTextKept

(* While a patch has a record no file is written for it.                    *)
THEOREM PatchesApplyOnce == Spec => RecordedNotReapplied
<1>1. RepoInv => \A th \in Thread : request[th].pc = "apply"
                                     => records[request[th].patch.id] = None
  BY DEF RepoInv, Progress, WriteProgress, WritePc
<1>2. RepoInv /\ [Next]_vars =>
        [\A th \in Thread :
           request[th].pc = "apply" /\ request'[th] # request[th] /\ tree' # tree
             => records[request[th].patch.id] = None]_vars
  BY <1>1
<1> QED
  BY <1>2, Invariant, PTL DEF Spec, RecordedNotReapplied

(* A recorded revert gave back what the patch took.                         *)
THEOREM RevertsAreExact == Spec => RevertExact
<1>1. ASSUME RepoInv, [Next]_vars, NEW i \in PatchId,
             records[i] # None, records'[i] # None,
             ~ records[i].reverted, records'[i].reverted,
             NEW p \in Changed(records[i].patch) \ touched
      PROVE  origin[i][p] \in {None, tree'[p]}
  <2>1. ASSUME NEW th \in Thread, SaveRecord(th) PROVE FALSE
    BY <1>1, <2>1 DEF SaveRecord
  <2>2. ASSUME NEW th \in Thread, Call(th), ~ SaveRecord(th), ~ Rerecord(th)
        PROVE  FALSE
    BY <1>1, <2>2 DEF Call, Begin, BeginRevert, Look, PlanMade, PlanRefused, Apply,
         ApplyFails, Undo, UndoFails, Undone, AllApplied, SaveIndex, Verify,
         Restore, AllRestored, Reindex, Breaks, Refuse, store, history
  <2>3. PICK th \in Thread : Rerecord(th)
    BY <1>1, <2>1, <2>2 DEF Next, Edit, Age, GitCommit, Kill, vars, store
  <2> DEFINE r == request[th]
  <2>4. r \in RevertCall /\ r.pc = "rerecord"
    BY <1>1, <2>3, Shape DEF Rerecord, At, RevertPc, RepoInv
  <2>5. i = r.patch.id
    BY <1>1, <2>3 DEF Rerecord, RepoInv, Typed
  <2>6. RevertProgress(r)
    BY <1>1 DEF RepoInv, Progress
  <2>7. records[i].patch = r.patch /\ records[i].prev = r.plan
    BY <2>4, <2>5, <2>6 DEF RevertProgress, RevertPc
  <2>8. tree[p] = r.plan[p]
    BY <1>1, <2>4, <2>6, <2>7 DEF RevertProgress
  <2>9. tree' = tree
    BY <2>3 DEF Rerecord
  <2> QED
    BY <1>1, <2>7, <2>8, <2>9 DEF RepoInv, Stored
<1>2. RepoInv /\ [Next]_vars =>
        [\A i \in PatchId :
           records[i] # None /\ records'[i] # None
             /\ ~ records[i].reverted /\ records'[i].reverted =>
               \A p \in Changed(records[i].patch) \ touched :
                 origin[i][p] \in {None, tree'[p]}]_vars
  BY <1>1
<1> QED
  BY <1>2, Invariant, PTL DEF Spec, RevertExact

(* While a request is served no other moves.                                *)
LEMMA OnlyTheHolder ==
  ASSUME Typed, NEW th \in Thread, request[th] # Idle, NEW o \in Thread, Call(o)
  PROVE  o = th
<1>1. lock = th /\ th # None /\ (o # th => request[o] = Idle)
  BY RepoAssumption DEF Typed
<1>2. request[o] # Idle \/ lock = None
  <2> SUFFICES ASSUME request[o] = Idle PROVE lock = None
    OBVIOUS
  <2>1. request[o].pc = "idle"
    BY DEF Idle
  <2>2. \/ \E c \in Patch : Begin(o, c)
        \/ \E i \in PatchId, w \in {c.writer : c \in Patch} : BeginRevert(o, i, w)
    BY <2>1 DEF Call, Look, PlanMade, PlanRefused, Apply, ApplyFails,
       Undo, UndoFails, Undone, AllApplied, SaveIndex, SaveRecord, Verify, Restore,
       AllRestored, Reindex, Rerecord, Breaks, At
  <2> QED
    BY <2>2 DEF Begin, BeginRevert
<1> QED
  BY <1>1, <1>2

(* A call that fails leaves all as it was, one that ends has put all its    *)
(* files.                                                                   *)
THEOREM WritesAreWhole == Spec => AllOrNothing
<1>1. ASSUME RepoInv, [Next]_vars, NEW th \in Thread, request'[th] = Idle,
             request[th].pc \in {"undo", "record"}
      PROVE  \/ Kill
             \/ /\ Undone(th) \/ SaveRecord(th) \/ Breaks(th)
                /\ tree' = tree
  <2>1. request[th] \in WriteCall /\ request[th] # Idle
    BY <1>1, Shape DEF RepoInv, WritePc
  <2>2. ASSUME NEW o \in Thread, Call(o) PROVE Call(th)
    BY <1>1, <2>1, <2>2, OnlyTheHolder DEF RepoInv
  <2>3. Kill \/ Call(th)
    BY <1>1, <2>1, <2>2 DEF Next, Edit, GitCommit, Age, vars
  <2>4. ASSUME Undo(th) \/ UndoFails(th) PROVE FALSE
    <3>1. PICK p : \/ request' = [request EXCEPT ![th].done = p - 1]
                   \/ request' = [request EXCEPT ![th].done = p - 1,
                                                 ![th].stuck = @ \union {p}]
      BY <2>4 DEF Undo, UndoFails
    <3>2. request'[th].pc = request[th].pc
      BY <1>1, <2>1, <3>1 DEF RepoInv, Typed, WriteCall
    <3> QED
      BY <1>1, <3>2 DEF Idle
  <2>5. CASE Call(th)
    <3>1. Undone(th) \/ SaveRecord(th) \/ Breaks(th)
      BY <1>1, <2>1, <2>4, <2>5 DEF Call, Begin, BeginRevert, Take, Look, PlanMade,
         PlanRefused, Apply, ApplyFails, AllApplied, SaveIndex, Verify, Restore,
         AllRestored, Reindex, Rerecord, At
    <3> QED
      BY <3>1 DEF Undone, SaveRecord, Breaks, Refuse
  <2> QED
    BY <2>3, <2>5
<1>2. ASSUME RepoInv, [Next]_vars, NEW th \in Thread, request'[th] = Idle,
             request[th].pc = "undo", budget'.kills = budget.kills,
             NEW p \in Changed(request[th].patch) \ (touched \union request[th].stuck)
      PROVE  tree'[p] = request[th].plan[p]
  <2>1. ~ Kill
    BY <1>2 DEF Kill, RepoInv, Typed
  <2>2. tree' = tree /\ (Undone(th) \/ SaveRecord(th) \/ Breaks(th))
    BY <1>1, <1>2, <2>1
  <2>3. Applied(request[th]) = {}
    BY <1>2, <2>2 DEF Undone, SaveRecord, Breaks, At
  <2>4. request[th] \in WriteCall
    BY <1>2, Shape DEF RepoInv, WritePc
  <2>5. p \in 1 .. Files /\ request[th].done \in 0 .. Files
    BY <2>4, Paths DEF WriteCall, Path
  <2>6. p > request[th].done
    BY <2>3, <2>5, RepoAssumption DEF Applied
  <2>7. WriteProgress(request[th])
    BY <1>2 DEF RepoInv, Progress
  <2> QED
    BY <1>2, <2>2, <2>6, <2>7 DEF WriteProgress
<1>3. ASSUME RepoInv, [Next]_vars, NEW th \in Thread, request'[th] = Idle,
             request[th].pc = "record",
             NEW p \in Changed(request[th].patch) \ touched
      PROVE  tree'[p] = request[th].patch.files[p].data
  <2>1. tree' = tree
    BY <1>1, <1>3 DEF Kill
  <2>2. WriteProgress(request[th])
    BY <1>3 DEF RepoInv, Progress
  <2> QED
    BY <1>3, <2>1, <2>2 DEF WriteProgress, Data
<1>4. RepoInv /\ [Next]_vars =>
        [\A th \in Thread : LET r == request[th] IN
           request'[th] = Idle =>
             /\ r.pc = "undo" =>
                  \/ budget'.kills # budget.kills
                  \/ \A p \in Changed(r.patch) \ (touched \union r.stuck) :
                       tree'[p] = r.plan[p]
             /\ r.pc = "record" =>
                  \A p \in Changed(r.patch) \ touched :
                    tree'[p] = r.patch.files[p].data]_vars
  BY <1>2, <1>3
<1> QED
  BY <1>4, Invariant, PTL DEF Spec, AllOrNothing
=============================================================================
