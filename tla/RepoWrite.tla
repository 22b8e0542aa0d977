----------------------------- MODULE RepoWrite -----------------------------
(***************************************************************************)
(* Writes to the working tree of a granted project (repo_write.py).  A     *)
(* writer submits changes of whole files under a patch id; the host checks *)
(* them against the tree and git, renames each file into place, and keeps  *)
(* an index of what it wrote last and a record of each patch, from which   *)
(* the patch may be reverted.  Requests run in threads and take a lock per *)
(* project; the owner edits and commits at any time, and the host may be   *)
(* killed between any two of the steps.                                    *)
(*                                                                         *)
(* A digest is the change itself, a hash is the content.  Not modelled:    *)
(* grants, rates and audit (the guard of Begin), the path, mode, size and  *)
(* content filters, new directories, and dry runs, which write nothing.    *)
(***************************************************************************)
EXTENDS Naturals, FiniteSets

CONSTANTS Content,
          Files,      \* paths are 1 .. Files, in the order of the changes
          Patch,      \* [id, writer, files]: path -> base (or Absent) and data
          Thread,
          MaxRequests, MaxEdits, MaxKills,   \* bounds
          Absent, None

Path == 1 .. Files
PatchId == {c.id : c \in Patch}
Text == Content \union {Absent}
Changed(c) == DOMAIN c.files

ASSUME RepoAssumption ==
  /\ Files \in Nat /\ Absent \notin Content /\ None \notin Thread \union Text
  /\ {MaxRequests, MaxEdits, MaxKills} \subseteq Nat
  /\ \A c \in Patch : /\ Changed(c) \subseteq Path /\ Changed(c) # {}
                      /\ \A p \in Changed(c) : c.files[p].data \in Content
                                                /\ c.files[p].base \in Text

VARIABLES
  tree,     \* the working tree
  head,     \* the last commit; what it has is tracked
  index,    \* index.json: what the service wrote to a path last
  records,  \* <patch_id>.json
  old,      \* patches whose record is past PATCH_TTL_SECONDS
  lock,     \* the thread that holds the project's lock, or None
  request,  \* per thread: the call it serves
  committed, ours, \* history: what was ever committed, and put by the service
  origin,   \* history: what a patch replaced, None if the owner was quicker
  touched,  \* history: paths the owner edited since the call looked
  budget

store   == <<index, records, old>>
history == <<committed, ours, origin, touched>>
vars    == <<tree, head, store, lock, request, history, budget>>

Idle == [pc |-> "idle"]

Init ==
  /\ tree \in [Path -> Text] /\ head = tree
  /\ index = [p \in Path |-> None]
  /\ records = [i \in PatchId |-> None] /\ old = {}
  /\ lock = None /\ request = [th \in Thread |-> Idle]
  /\ committed = [p \in Path |-> {head[p]}]
  /\ ours = [p \in Path |-> {}]
  /\ origin = [i \in PatchId |-> [p \in Path |-> None]]
  /\ touched = {}
  /\ budget = [requests |-> MaxRequests, edits |-> MaxEdits, kills |-> MaxKills]

-----------------------------------------------------------------------------
(* The owner *)

Edit(p, c) ==
  /\ budget.edits > 0 /\ tree[p] # c
  /\ tree' = [tree EXCEPT ![p] = c]
  /\ touched' = touched \union {p}
  /\ budget' = [budget EXCEPT !.edits = @ - 1]
  /\ UNCHANGED <<head, store, lock, request, committed, ours, origin>>

GitCommit ==
  /\ head # tree
  /\ head' = tree
  /\ committed' = [p \in Path |-> committed[p] \union {tree[p]}]
  /\ UNCHANGED <<tree, store, lock, request, ours, origin, touched, budget>>

(* A record is a week old. *)
Age(i) ==
  /\ records[i] # None /\ i \notin old
  /\ old' = old \union {i}
  /\ UNCHANGED <<tree, head, index, records, lock, request, history, budget>>

-----------------------------------------------------------------------------
(* A call *)

At(th, pc) == request[th].pc = pc
To(th, pc) == request' = [request EXCEPT ![th].pc = pc]

Take(th, r) ==
  /\ request[th] = Idle /\ budget.requests > 0
  /\ request' = [request EXCEPT ![th] = r]
  /\ budget' = [budget EXCEPT !.requests = @ - 1]

(* The call returns, or raises, and releases the lock. *)
End(th) ==
  /\ request' = [request EXCEPT ![th] = Idle]
  /\ lock' = None

Put(p, c) ==
  /\ tree' = [tree EXCEPT ![p] = c]
  /\ ours' = [ours EXCEPT ![p] = @ \union {c}]

Refuse(th) ==
  /\ End(th)
  /\ UNCHANGED <<tree, head, store, history, budget>>

(* What fails after the files were written is not undone. *)
Breaks(th) ==
  /\ \/ At(th, "index") \/ At(th, "record")
     \/ At(th, "restore") \/ At(th, "reindex") \/ At(th, "rerecord")
  /\ Refuse(th)

(* A patch with a record is answered from it or refused: nothing is done. *)
BeginUnlocked(th, c) ==
  /\ records[c.id] = None
  /\ Take(th, [pc |-> "look", patch |-> c, plan |-> tree, dirty |-> {},
               tracked |-> {}, done |-> 0, stuck |-> {}])
  /\ lock' = th
  /\ UNCHANGED <<tree, head, store, history>>

Begin(th, c) ==
  /\ lock = None
  /\ records[c.id] = None
  /\ Take(th, [pc |-> "look", patch |-> c, plan |-> tree, dirty |-> {},
               tracked |-> {}, done |-> 0, stuck |-> {}])
  /\ lock' = th
  /\ UNCHANGED <<tree, head, store, history>>

(* Snapshot and _tracked_files *)
Look(th) ==
  /\ At(th, "look")
  /\ request' = [request EXCEPT
       ![th].pc = "plan",
       ![th].tracked = {p \in Path : head[p] # Absent},
       ![th].dirty = {p \in Path : head[p] # Absent /\ tree[p] # head[p]}]
  /\ touched' = {}
  /\ UNCHANGED <<tree, head, store, lock, committed, ours, origin, budget>>

MayWriteDirty(r, p) ==
  LET base == r.patch.files[p].base
  IN IF base = Absent THEN tree[p] = Absent /\ p \notin r.tracked
     ELSE /\ tree[p] # Absent
          /\ p \in r.tracked \/ index[p] = tree[p]
          /\ tree[p] = base

MayWrite(r, p) ==
  LET base == r.patch.files[p].base
  IN IF base = Absent THEN tree[p] = Absent /\ p \notin r.tracked
     ELSE /\ tree[p] # Absent
          /\ p \in r.tracked \/ index[p] = tree[p]
          /\ tree[p] = base
          /\ p \notin r.dirty \/ index[p] = tree[p]

PlanMade(th) ==
  /\ At(th, "plan")
  /\ \A p \in Changed(request[th].patch) : MayWrite(request[th], p)
  /\ request' = [request EXCEPT ![th].pc = "apply", ![th].plan = tree]
  /\ UNCHANGED <<tree, head, store, lock, history, budget>>

PlanRefused(th) ==
  /\ At(th, "plan")
  /\ \E p \in Changed(request[th].patch) : ~ MayWrite(request[th], p)
  /\ Refuse(th)

Left(r) == {p \in Changed(r.patch) : p > r.done}
Firsts(s) == {p \in s : \A q \in s : p <= q}
Lasts(s) == {p \in s : \A q \in s : p >= q}

Apply(th) ==
  LET r == request[th] IN
  /\ At(th, "apply")
  /\ \E p \in Firsts(Left(r)) :
     /\ Put(p, r.patch.files[p].data)
     /\ request' = [request EXCEPT ![th].done = p]
     /\ origin' = [origin EXCEPT ![r.patch.id][p] =
                     IF p \in touched THEN None ELSE tree[p]]
     /\ UNCHANGED <<head, store, lock, committed, touched, budget>>

ApplyFails(th) ==
  /\ At(th, "apply") /\ Left(request[th]) # {}
  /\ To(th, "undo")
  /\ UNCHANGED <<tree, head, store, lock, history, budget>>

Applied(r) == {p \in Changed(r.patch) : p <= r.done}

UndoSkipping(th) ==
  LET r == request[th] IN
  /\ At(th, "undo")
  /\ \E p \in Lasts(Applied(r)) :
     /\ IF r.plan[p] # Absent THEN Put(p, r.plan[p]) ELSE UNCHANGED <<tree, ours>>
     /\ request' = [request EXCEPT ![th].done = p - 1]
     /\ UNCHANGED <<head, store, lock, committed, origin, touched, budget>>

Undo(th) ==
  LET r == request[th] IN
  /\ At(th, "undo")
  /\ \E p \in Lasts(Applied(r)) :
     /\ Put(p, r.plan[p])
     /\ request' = [request EXCEPT ![th].done = p - 1]
     /\ UNCHANGED <<head, store, lock, committed, origin, touched, budget>>

(* A restore that fails is passed over. *)
UndoFails(th) ==
  LET r == request[th] IN
  /\ At(th, "undo")
  /\ \E p \in Lasts(Applied(r)) :
     /\ request' = [request EXCEPT ![th].done = p - 1, ![th].stuck = @ \union {p}]
     /\ UNCHANGED <<tree, head, store, lock, history, budget>>

Undone(th) ==
  /\ At(th, "undo") /\ Applied(request[th]) = {}
  /\ Refuse(th)

AllApplied(th) ==
  /\ At(th, "apply") /\ Left(request[th]) = {}
  /\ To(th, "index")
  /\ UNCHANGED <<tree, head, store, lock, history, budget>>

SaveIndexReadBack(th) ==
  LET c == request[th].patch
  IN /\ At(th, "index")
     /\ index' = [p \in Path |-> IF p \in Changed(c) THEN tree[p] ELSE index[p]]
     /\ To(th, "record")
     /\ UNCHANGED <<tree, head, records, old, lock, history, budget>>

SaveIndex(th) ==
  LET c == request[th].patch
  IN /\ At(th, "index")
     /\ index' = [p \in Path |-> IF p \in Changed(c) THEN c.files[p].data
                                 ELSE index[p]]
     /\ To(th, "record")
     /\ UNCHANGED <<tree, head, records, old, lock, history, budget>>

(* save and prune *)
SaveRecordLate(th) ==
  LET r == request[th]
  IN /\ At(th, "record")
     /\ records' = [i \in PatchId |->
          IF i = r.patch.id
          THEN [patch |-> r.patch, prev |-> tree, reverted |-> FALSE]
          ELSE IF i \in old THEN None ELSE records[i]]
     /\ old' = {}
     /\ End(th)
     /\ UNCHANGED <<tree, head, index, history, budget>>

SaveRecord(th) ==
  LET r == request[th]
  IN /\ At(th, "record")
     /\ records' = [i \in PatchId |->
          IF i = r.patch.id
          THEN [patch |-> r.patch, prev |-> r.plan, reverted |-> FALSE]
          ELSE IF i \in old THEN None ELSE records[i]]
     /\ old' = {}
     /\ End(th)
     /\ UNCHANGED <<tree, head, index, history, budget>>

-----------------------------------------------------------------------------
(* repo_revert *)

BeginRevert(th, i, w) ==
  /\ lock = None
  /\ records[i] # None /\ records[i].patch.writer = w
  /\ ~ records[i].reverted
  /\ Take(th, [pc |-> "verify", patch |-> records[i].patch,
               plan |-> records[i].prev, done |-> Files])
  /\ lock' = th
  /\ touched' = {}
  /\ UNCHANGED <<tree, head, store, committed, ours, origin>>

Unchanged(c) == \A p \in Changed(c) : tree[p] = c.files[p].data

Verify(th) ==
  /\ At(th, "verify")
  /\ IF Unchanged(request[th].patch)
     THEN To(th, "restore") /\ UNCHANGED lock
     ELSE End(th)
  /\ UNCHANGED <<tree, head, store, history, budget>>

Restore(th) ==
  LET r == request[th] IN
  /\ At(th, "restore")
  /\ \E p \in Lasts(Applied(r)) :
     /\ Put(p, r.plan[p])
     /\ request' = [request EXCEPT ![th].done = p - 1]
     /\ UNCHANGED <<head, store, lock, committed, origin, touched, budget>>

AllRestored(th) ==
  /\ At(th, "restore") /\ Applied(request[th]) = {}
  /\ To(th, "reindex")
  /\ UNCHANGED <<tree, head, store, lock, history, budget>>

Reindex(th) ==
  LET r == request[th]
  IN /\ At(th, "reindex")
     /\ index' = [p \in Path |->
          IF p \notin Changed(r.patch) THEN index[p]
          ELSE IF r.plan[p] = Absent THEN None ELSE r.plan[p]]
     /\ To(th, "rerecord")
     /\ UNCHANGED <<tree, head, records, old, lock, history, budget>>

Rerecord(th) ==
  /\ At(th, "rerecord")
  /\ records' = [records EXCEPT ![request[th].patch.id].reverted = TRUE]
  /\ old' = old \ {request[th].patch.id}
  /\ End(th)
  /\ UNCHANGED <<tree, head, index, history, budget>>

(* The host's process ends with all its threads. *)
Kill ==
  /\ budget.kills > 0
  /\ \E th \in Thread : request[th] # Idle
  /\ request' = [th \in Thread |-> Idle] /\ lock' = None
  /\ budget' = [budget EXCEPT !.kills = @ - 1]
  /\ UNCHANGED <<tree, head, store, history>>

Call(th) ==
  \/ \E c \in Patch : Begin(th, c)
  \/ \E i \in PatchId, w \in {c.writer : c \in Patch} : BeginRevert(th, i, w)
  \/ Look(th) \/ PlanMade(th) \/ PlanRefused(th)
  \/ Apply(th) \/ ApplyFails(th) \/ Undo(th) \/ UndoFails(th)
  \/ Undone(th) \/ AllApplied(th) \/ SaveIndex(th) \/ SaveRecord(th)
  \/ Verify(th) \/ Restore(th) \/ AllRestored(th)
  \/ Reindex(th) \/ Rerecord(th)
  \/ Breaks(th)

Next ==
  \/ \E th \in Thread : Call(th)
  \/ \E p \in Path, c \in Text : Edit(p, c)
  \/ \E i \in PatchId : Age(i)
  \/ GitCommit \/ Kill

Spec == Init /\ [][Next]_vars
=============================================================================
