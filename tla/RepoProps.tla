------------------------------ MODULE RepoProps ------------------------------
(* What the repository write service owes the owner and the writer.          *)
EXTENDS RepoWrite

TypeOK ==
  /\ tree \in [Path -> Text] /\ head \in [Path -> Text]
  /\ index \in [Path -> Content \union {None}]
  /\ \A i \in PatchId : records[i] # None =>
       records[i].patch \in Patch /\ records[i].prev \in [Path -> Text]
  /\ old \subseteq PatchId
  /\ lock \in Thread \union {None}
  /\ \A th \in Thread : lock # th => request[th] = Idle
  /\ \A p \in Path : committed[p] \subseteq Text /\ ours[p] \subseteq Text

(* "a writer never overwrites the owner's work in progress": what a write,  *)
(* its undo or a revert replaces was committed once or put there by the     *)
(* service, however the index lags behind kills and failed calls.  The      *)
(* exception is an edit made after the call looked at the tree.             *)
OwnersTextKept ==
  [][\A p \in Path :
       tree'[p] # tree[p] =>
         \/ p \in touched'
         \/ tree[p] = Absent
         \/ tree[p] \in committed[p] \union ours[p]]_<<tree, touched>>

(* written_sha: a file that git does not track is readable only while it    *)
(* has what the service put there, never what the owner keeps to himself.   *)
ReadableIsOurs ==
  \A p \in Path :
    index[p] # None /\ tree[p] = index[p] => tree[p] \in ours[p]

(* _write_locked is all or nothing: a call that ends by itself after its    *)
(* first rename has put all its files, or all are what they were.  An       *)
(* owner's edit meanwhile and a restore that failed are exceptions, and so  *)
(* is a failure after the last rename, which nothing undoes.                *)
AllOrNothing ==
  [][\A th \in Thread : LET r == request[th] IN
       request'[th] = Idle =>
         /\ r.pc = "undo" =>
              \/ budget'.kills # budget.kills
              \/ \A p \in Changed(r.patch) \ (touched \union r.stuck) :
                   tree'[p] = r.plan[p]
         /\ r.pc = "record" =>
              \A p \in Changed(r.patch) \ touched :
                tree'[p] = r.patch.files[p].data]_vars

(* The patch id is an idempotency key: while its record exists no file is   *)
(* written for it again, by requests that overlap and after a revert.       *)
RecordedNotReapplied ==
  [][\A th \in Thread :
       request[th].pc = "apply" /\ request'[th] # request[th] /\ tree' # tree
         => records[request[th].patch.id] = None]_vars

(* A revert that is recorded gave every file back what the patch took from  *)
(* it, unless the owner was quicker then or now.                            *)
RevertExact ==
  [][\A i \in PatchId :
       records[i] # None /\ records'[i] # None
         /\ ~ records[i].reverted /\ records'[i].reverted =>
           \A p \in Changed(records[i].patch) \ touched :
             origin[i][p] \in {None, tree'[p]}]_vars
=============================================================================
