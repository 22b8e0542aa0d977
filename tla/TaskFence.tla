------------------------------ MODULE TaskFence ------------------------------
(***************************************************************************)
(* What a task ledger promises about the executor of a task: a fencing     *)
(* token.  Operations are admitted for the holder only, the token passes   *)
(* on only while none is running, and every pass raises the epoch, so two  *)
(* holders never run operations at the same time.  Once the task is        *)
(* stopped nothing is admitted any more; what runs may still complete.     *)
(***************************************************************************)
EXTENDS Naturals

CONSTANTS Endpoint, Tool, None
VARIABLES holder, epoch, running, stopped

Init == /\ holder = None
        /\ epoch = 0
        /\ running = {}
        /\ stopped = FALSE

Assign(e) ==
  /\ holder = None
  /\ holder' = e
  /\ UNCHANGED <<epoch, running, stopped>>

(* e = holder: the fence is renewed, and work of the old epoch is refused. *)
Pass(e) ==
  /\ holder # None /\ ~ stopped
  /\ running = {}
  /\ holder' = e
  /\ epoch' = epoch + 1
  /\ UNCHANGED <<running, stopped>>

Admit(t) ==
  /\ holder # None /\ ~ stopped
  /\ running' = running \union {<<holder, t, epoch>>}
  /\ UNCHANGED <<holder, epoch, stopped>>

Complete(o) ==
  /\ o \in running
  /\ running' = running \ {o}
  /\ UNCHANGED <<holder, epoch, stopped>>

Stop ==
  /\ stopped' = TRUE
  /\ UNCHANGED <<holder, epoch, running>>

Next == \/ \E e \in Endpoint : Assign(e) \/ Pass(e)
        \/ \E t \in Tool : Admit(t)
        \/ \E o \in running : Complete(o)
        \/ Stop

Spec == Init /\ [][Next]_<<holder, epoch, running, stopped>>
=============================================================================
