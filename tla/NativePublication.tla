------------------------- MODULE NativePublication -------------------------
(***************************************************************************)
(* Publisher (native_publication.py): it puts a reference to a journaled   *)
(* message into the queue of the conversation, by one child process at a   *)
(* time (native_queue.py).  The provider removes no duplicates, so an      *)
(* unknown outcome is looked up in the queue before anything is added.     *)
(*                                                                         *)
(* tick.pc "look" is Publisher.tick before it reads the row, "publish" and *)
(* "pending" before it commits the attempt.  One job runs and dies with    *)
(* the process, so an attempt is known by its message.                     *)
(***************************************************************************)
EXTENDS NativeJournal

CONSTANT MaxQueue \* bound on the references to one message in the queue

ASSUME NativePublicationAssumption == MaxQueue \in Nat

VARIABLES tick,  \* the delivery thread: pc, endpoint, messages to visit, the one it is at
          job,   \* the child: operation, message, result
          queue  \* references to a message in the conversation's queue

NoJob == [op |-> "none", m |-> None, result |-> "none"]
AtMessage == {"look", "publish", "pending", "receipt", "timeout"}
Waiting == [pc |-> "idle", ep |-> 1, todo |-> {}, m |-> None]
Left(S) == IF S = {} THEN Waiting ELSE [pc |-> "next", ep |-> tick.ep, todo |-> S, m |-> None]
Continue == tick' = Left(tick.todo)
Done(m) == tick' = Left(tick.todo \ {m})
At(pc, m) == tick' = [tick EXCEPT !.pc = pc, !.todo = @ \ {m}, !.m = m]

PublicationInit == tick = Waiting /\ job = NoJob /\ queue = [m \in Message |-> 0]

SetPub(m, pub) == SetRow(m, [row[m] EXCEPT !.pub = pub])
Unreserved(m) == row[m].ref = None

-----------------------------------------------------------------------------
(* The child.  A killed child, or one whose answer is lost, may have added. *)
(* The queue is listed a page at a time, from where the last page ended: a  *)
(* page that is not the last one and does not show the message counts as a  *)
(* fault, as it says no more of the queue than a child that failed.         *)

Adds(m) == queue[m] < MaxQueue /\ queue' = [queue EXCEPT ![m] = @ + 1]

ChildAdds ==
  /\ job.op = "publish" /\ job.result = "none"
  /\ Adds(job.m)
  /\ job' = [job EXCEPT !.result = "ok"]
  /\ UNCHANGED <<hub, row, tick>>

ChildFails ==
  /\ job.op # "none" /\ job.result = "none"
  /\ Fault
  /\ \/ job' = [job EXCEPT !.result = "not_sent"] /\ UNCHANGED queue
     \/ /\ job' = [job EXCEPT !.result = "unknown"]
        /\ UNCHANGED queue \/ (job.op = "publish" /\ Adds(job.m))
  /\ UNCHANGED <<state, to, handed, live, late, row, tick>>

ChildLists ==
  /\ job.op = "pending" /\ job.result = "none"
  /\ job' = [job EXCEPT !.result = IF queue[job.m] > 0 THEN "ok" ELSE "absent"]
  /\ UNCHANGED <<hub, row, tick, queue>>

(* A child that outlived the host. *)
OrphanAdds(m, ep) ==
  /\ <<"add", m, ep>> \in late
  /\ late' = late \ {<<"add", m, ep>>}
  /\ Adds(m)
  /\ UNCHANGED <<state, to, handed, live, faults, row, tick, job>>

-----------------------------------------------------------------------------
(* Mutant: a child that failed is taken for one that added nothing. *)
OutcomeOptimistic == IF job.result = "ok" THEN "queued" ELSE "ready"
(* Mutant: a reference that is not in the queue is taken for one that was handled. *)
OutcomeNeverAbsent == CASE job.result = "ok" -> "queued"
                        [] job.result = "not_sent" /\ job.op = "publish" -> "ready"
                        [] OTHER -> "unknown"
(* maintain: what the result says of the publication. *)
Outcome == CASE job.result = "ok" -> "queued"
             [] job.result = "absent" /\ row[job.m].state = "received" -> "ready"
             [] job.result = "not_sent" /\ job.op = "publish" -> "ready"
             [] OTHER -> "unknown"

(* maintain runs at the head of every tick and of every visit. *)
Collect ==
  /\ job.result # "none" /\ tick.pc \in {"idle", "look"}
  /\ IF row[job.m].pub = "body_reserved" THEN UNCHANGED row ELSE SetPub(job.m, Outcome)
  /\ job' = NoJob
  /\ UNCHANGED <<hub, tick, queue>>

(* prepare: the row has a reference from here on. *)
Prepare(m) == SetRow(m, [row[m] EXCEPT !.owned = TRUE])
(* A row without a reference is given one only while it is still wanted.   *)
Referable(m) == row[m].owned \/ (row[m].state = "received" /\ state[m] = "open")

(* Publisher.tick that starts nothing.  The last case is a row that waits  *)
(* for the child, one that is not eligible, and one whose 30 seconds since *)
(* it was last looked up or published have not passed.                     *)
Look ==
  /\ tick.pc = "look" /\ job.result = "none"
  /\ Continue
  /\ LET m == tick.m IN
     \/ ~Referable(m) /\ UNCHANGED row
     \/ row[m].owned /\ row[m].state # "received" /\ SetPub(m, "body_reserved")
     \/ /\ row[m].owned /\ row[m].state = "received"
        /\ row[m].pub = "publishing" /\ job.m # m
        /\ SetPub(m, "unknown")
     \/ /\ Referable(m) /\ row[m].state = "received"
        /\ job # NoJob \/ row[m].pub # "none"
        /\ row[m].pub = "publishing" => job.m = m
        /\ Prepare(m)
  /\ UNCHANGED <<hub, job, queue>>

LookPublishes ==
  /\ tick.pc = "look" /\ job = NoJob
  /\ row[tick.m].state = "received" /\ Referable(tick.m)
  /\ Prepare(tick.m)
  /\ \/ row[tick.m].pub \in {"unknown", "queued"} /\ tick' = [tick EXCEPT !.pc = "pending"]
     \/ row[tick.m].pub \in {"none", "ready"} /\ tick' = [tick EXCEPT !.pc = "publish"]
  /\ UNCHANGED <<hub, job, queue>>

(* A later reference waits for one that is out and still wanted. *)
Outstanding(m) ==
  \E k \in Message \ {m} : /\ row[k].state = "received" /\ row[k].ep = row[m].ep
                           /\ row[k].pub \in {"publishing", "queued"}
                           /\ state[k] = "open"

StartJob(m, op, pub) == /\ SetPub(m, pub)
                        /\ job' = [op |-> op, m |-> m, result |-> "none"]

(* The hub is asked again, and the attempt is committed unless the         *)
(* envelope has changed since it was read: a hook reserved the body.       *)
Publish ==
  /\ tick.pc = "publish"
  /\ Continue
  /\ LET m == tick.m IN
     \/ /\ Current(m, row[m].ep) /\ Unreserved(m) /\ ~Outstanding(m)
        /\ IF state[m] = "open" THEN StartJob(m, "publish", "publishing")
           ELSE SetPub(m, "not_eligible") /\ UNCHANGED job
     \/ /\ ~Current(m, row[m].ep) \/ ~Unreserved(m) \/ Outstanding(m)
        /\ UNCHANGED <<row, job>>
  /\ UNCHANGED <<hub, queue>>

AskQueue ==
  /\ tick.pc = "pending"
  /\ Continue
  /\ IF Unreserved(tick.m) THEN StartJob(tick.m, "pending", "unknown") ELSE UNCHANGED <<row, job>>
  /\ UNCHANGED <<hub, queue>>

ChildStep == ChildAdds \/ ChildFails \/ ChildLists
             \/ \E m \in Message, ep \in Endpoint : OrphanAdds(m, ep)

PublicationTypeOK ==
  /\ tick \in [pc : {"idle", "next"} \union AtMessage, ep : Endpoint,
               todo : SUBSET Message, m : Message \union {None}]
  /\ job \in [op : {"none", "publish", "pending"}, m : Message \union {None},
              result : {"none", "ok", "absent", "not_sent", "unknown"}]
  /\ queue \in [Message -> 0 .. MaxQueue]
=============================================================================
