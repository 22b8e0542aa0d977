------------------------------ MODULE Telegram ------------------------------
(***************************************************************************)
(* The Telegram relay of a host (telegram_runtime.py, telegram_ingress.py):*)
(* one process that polls the bot's updates, submits the owner's texts to  *)
(* the mailbox, and sends the agent's replies back to the chat they        *)
(* answer.  Updates and mailbox items are numbered as they arrive.  Every  *)
(* journal statement, host request and API call is a step; the process     *)
(* stops at the first error and may be started again.                      *)
(*                                                                         *)
(* Each effect is reserved in the journal before it is tried: what may     *)
(* have happened is never done again.                                      *)
(*                                                                         *)
(* Not modelled: the checks of an update's sender, text and origin, whose  *)
(* verdict is KindOf; the store of discovered group chats; a binding that  *)
(* is replaced under another name.  The host's copy of the configuration   *)
(* changes with the relay's; a request that was given up is served at once *)
(* or never, as nobody looks in between.                                   *)
(***************************************************************************)
EXTENDS Integers, Sequences

CONSTANTS KindOf,      \* a sequence: "private", "group" or "other" text, by update
          MaxItems,    \* bound on mailbox items
          MaxFaults    \* bound on kills of the process, changes of its
                       \* configuration and items that can never be sent

Update == 1 .. Len(KindOf)
Item == 1 .. MaxItems
Enrolled == {"private", "group"}
Generation == 1 .. MaxFaults + 1
Text == [update : Update, generation : Generation]

(* What answers no text of the journal, and a reply with or without a body *)
(* that Telegram takes.                                                    *)
Stray == [text |-> [update |-> 0, generation |-> 0], fits |-> TRUE]
Reply == [text : Text, fits : BOOLEAN]

ASSUME TelegramAssumption ==
  /\ KindOf \in Seq({"private", "group", "other"})
  /\ MaxItems \in Nat /\ MaxFaults \in Nat

VARIABLES
  arrived,  \* updates Telegram has
  cursor,   \* telegram_cursors, "updates": updates done with
  intent,   \* telegram_intents.state, by update and generation of its binding
  accepted, \* texts whose message the hub has
  inbox,    \* mailbox items of the relay: the text each one answers
  mailbox,  \* telegram_cursors, "mailbox": items done with
  reply,    \* telegram_replies.state
  held,     \* items in telegram_reply_holds
  acked,    \* items acknowledged to the hub
  sent,     \* history: times an item was sent to Telegram
  active,   \* bindings that are neither revoked, expired nor removed
  generation, \* of each binding in the configuration
  enrolled, \* the generations the process started with; 0: it has no relay
  changed,  \* current_config sees another configuration than at the start
  proc,     \* the process: pc, the update or item it is at, the last one it read
  faults

journal == <<cursor, intent, mailbox, reply, held>>
world == <<arrived, accepted, inbox, acked, sent>>
config == <<active, generation, enrolled, changed>>
vars == <<journal, world, config, proc, faults>>

EffectState == {"none", "reserved", "accepted", "unknown"}
Stopped == [pc |-> "stopped"]
Loop(pc) == [pc |-> pc]
On(pc) == [proc EXCEPT !.pc = pc]
Stop == proc' = Stopped
Fault == faults < MaxFaults /\ faults' = faults + 1

Init ==
  /\ arrived = 0 /\ cursor = 0 /\ mailbox = 0
  /\ intent = [t \in Text |-> "none"] /\ accepted = {}
  /\ inbox = << >>
  /\ reply = [i \in Item |-> "none"] /\ sent = [i \in Item |-> 0]
  /\ held = {} /\ acked = {}
  /\ active = Enrolled /\ changed = FALSE
  /\ generation = [k \in Enrolled |-> 1] /\ enrolled = [k \in Enrolled |-> 0]
  /\ proc = Stopped /\ faults = 0

(* The text of an update under the bindings the process started with: the  *)
(* generation is part of the message's id.                                 *)
TextOf(u) == [update |-> u, generation |-> enrolled[KindOf[u]]]

Chat(i) == KindOf[inbox[i].text.update]
Group(i) == inbox[i] # Stray /\ Chat(i) = "group"

(* The process's binding is the one configured.                            *)
Current(k) == k \in active /\ enrolled[k] = generation[k]
Usable(k) == Current(k) /\ ~changed

(* unsupported_reply, and reply_binding_mismatch: the binding has another  *)
(* generation than the text that is answered.                              *)
Unsendable(i) == ~inbox[i].fits \/ inbox[i].text # TextOf(inbox[i].text.update)

-----------------------------------------------------------------------------
(* The loop: replies first, then updates. *)

(* The relays are made from the configuration, where a group's binding may *)
(* have been removed; verify: the private binding must be active.          *)
Start ==
  /\ proc = Stopped /\ "private" \in active
  /\ proc' = Loop("inbox")
  /\ changed' = FALSE
  /\ \/ enrolled' = generation
     \/ "group" \notin active /\ enrolled' = [generation EXCEPT !["group"] = 0]
  /\ UNCHANGED <<journal, world, active, generation, faults>>

(* An API call or a host request fails, before or after it took effect. *)
CallFails ==
  /\ proc.pc \in {"inbox", "reply", "poll", "ack"}
  /\ Stop
  /\ acked' \in {acked} \union (IF proc.pc = "ack" THEN {acked \union {proc.at}} ELSE {})
  /\ UNCHANGED <<journal, arrived, accepted, inbox, sent, config, faults>>

GoOn(pc, loop) ==
  proc' = IF proc.at < proc.last THEN [pc |-> pc, at |-> proc.at + 1, last |-> proc.last]
                                 ELSE Loop(loop)

ReadInbox ==
  /\ proc.pc = "inbox" /\ ~changed
  /\ proc' = IF mailbox < Len(inbox) THEN [pc |-> "reply", at |-> mailbox + 1, last |-> Len(inbox)]
                                     ELSE Loop("poll")
  /\ UNCHANGED <<journal, world, config, faults>>

Poll ==
  /\ proc.pc = "poll" /\ ~changed
  /\ proc' = IF cursor < arrived THEN [pc |-> "update", at |-> cursor + 1, last |-> arrived]
                                 ELSE Loop("inbox")
  /\ UNCHANGED <<journal, world, config, faults>>

(* current_config refuses to go on with another configuration. *)
ConfigurationChanged ==
  /\ proc.pc \in {"inbox", "poll", "update"} /\ changed
  /\ Stop
  /\ UNCHANGED <<journal, world, config, faults>>

-----------------------------------------------------------------------------
(* Replies (replies_once, deliver_reply). *)

(* Mutant: the cursor moves and the hold is not written. *)
HoldForgotten(i) == mailbox' = i /\ GoOn("reply", "poll") /\ UNCHANGED held

(* hold_group_reply: the hold and the cursor commit together, so that a   *)
(* reply that is held is never met again (replies_once asks all the same). *)
Hold(i) ==
  /\ held' = held \union {i}
  /\ mailbox' = i
  /\ GoOn("reply", "poll")

(* No relay for what answers no text, or for a group that was removed; a   *)
(* binding that is not current; a reply that deliver_reply never sends.    *)
(* Only a group's reply can be held, and only for the first two.           *)
ReplyRefused ==
  /\ proc.pc = "reply" /\ proc.at \notin held
  /\ LET i == proc.at IN
     \/ inbox[i] = Stray /\ Stop /\ UNCHANGED <<held, mailbox>>
     \/ /\ inbox[i] # Stray /\ ~Usable(Chat(i))
        /\ IF Group(i) /\ (~changed \/ enrolled["group"] = 0)
           THEN Hold(i)
           ELSE Stop /\ UNCHANGED <<held, mailbox>>
     \/ /\ inbox[i] # Stray /\ Usable(Chat(i)) /\ Unsendable(i)
        /\ Stop /\ UNCHANGED <<held, mailbox>>
  /\ UNCHANGED <<cursor, intent, reply, world, config, faults>>

Deliverable(i) == inbox[i] # Stray /\ Usable(Chat(i)) /\ ~Unsendable(i)

(* Mutant: a reply whose outcome is not known is sent again. *)
ReplyReserveAgain ==
  /\ proc.pc = "reply" /\ proc.at \notin held /\ Deliverable(proc.at)
  /\ IF reply[proc.at] = "accepted"
     THEN proc' = On("ack") /\ UNCHANGED reply
     ELSE proc' = On("send") /\ reply' = [reply EXCEPT ![proc.at] = "reserved"]
  /\ UNCHANGED <<cursor, intent, mailbox, held, world, config, faults>>

(* Mutant: a group's reply whose outcome is not known stops the process. *)
ReplyReserveStops ==
  /\ proc.pc = "reply" /\ proc.at \notin held /\ Deliverable(proc.at)
  /\ CASE reply[proc.at] = "none" ->
            /\ reply' = [reply EXCEPT ![proc.at] = "reserved"]
            /\ proc' = On("send")
       [] reply[proc.at] = "accepted" -> proc' = On("ack") /\ UNCHANGED reply
       [] OTHER -> Stop /\ UNCHANGED reply
  /\ UNCHANGED <<cursor, intent, mailbox, held, world, config, faults>>

ReplyReserve ==
  /\ proc.pc = "reply" /\ proc.at \notin held /\ Deliverable(proc.at)
  /\ CASE reply[proc.at] = "none" ->
            /\ reply' = [reply EXCEPT ![proc.at] = "reserved"]
            /\ proc' = On("send")
            /\ UNCHANGED <<held, mailbox>>
       [] reply[proc.at] = "accepted" -> proc' = On("ack") /\ UNCHANGED <<reply, held, mailbox>>
       [] OTHER -> /\ IF Group(proc.at) THEN Hold(proc.at) ELSE Stop /\ UNCHANGED <<held, mailbox>>
                   /\ UNCHANGED reply
  /\ UNCHANGED <<cursor, intent, world, config, faults>>

Sends(S) == \E n \in S : sent' = [sent EXCEPT ![proc.at] = @ + n]

Send ==
  /\ proc.pc = "send" /\ Usable(Chat(proc.at))
  /\ Sends({1})
  /\ proc' = On("sent")
  /\ UNCHANGED <<journal, arrived, accepted, inbox, acked, config, faults>>

(* The binding is gone by now, or the call fails, delivered or not. *)
SendFails ==
  /\ proc.pc = "send"
  /\ IF Usable(Chat(proc.at)) THEN Sends({0, 1}) ELSE UNCHANGED sent
  /\ reply' = [reply EXCEPT ![proc.at] = "unknown"]
  /\ proc' = On("unsent")
  /\ UNCHANGED <<cursor, intent, mailbox, held, arrived, accepted, inbox, acked, config, faults>>

SendUnknown ==
  /\ proc.pc = "unsent"
  /\ IF Group(proc.at) THEN Hold(proc.at) ELSE Stop /\ UNCHANGED <<held, mailbox>>
  /\ UNCHANGED <<cursor, intent, reply, world, config, faults>>

SettleReply ==
  /\ proc.pc = "sent"
  /\ reply' = [reply EXCEPT ![proc.at] = "accepted"]
  /\ proc' = On("ack")
  /\ UNCHANGED <<cursor, intent, mailbox, held, world, config, faults>>

Acknowledge ==
  /\ proc.pc = "ack"
  /\ acked' = acked \union {proc.at}
  /\ proc' = On("acked")
  /\ UNCHANGED <<journal, arrived, accepted, inbox, sent, config, faults>>

AdvanceMailbox ==
  /\ proc.pc = "acked"
  /\ mailbox' = proc.at
  /\ GoOn("reply", "poll")
  /\ UNCHANGED <<cursor, intent, reply, held, world, config, faults>>

-----------------------------------------------------------------------------
(* Updates (receive_once, receive). *)

UpdateRead ==
  /\ proc.pc = "update" /\ ~changed
  /\ proc' = On("admit")
  /\ UNCHANGED <<journal, world, config, faults>>

Advance == cursor' = proc.at /\ GoOn("update", "inbox")

(* Every refusal but that of an inactive private binding passes the update, *)
(* a configuration changed since it was read included.                      *)
Passed(u) == \/ KindOf[u] = "other"
             \/ changed
             \/ KindOf[u] = "group" /\ ~Current("group")
Admit ==
  /\ proc.pc = "admit"
  /\ CASE Passed(proc.at) -> Advance
       [] ~Passed(proc.at) /\ Current(KindOf[proc.at]) -> proc' = On("receive") /\ UNCHANGED cursor
       [] OTHER -> Stop /\ UNCHANGED cursor
  /\ UNCHANGED <<intent, mailbox, reply, held, world, config, faults>>

(* Mutant: any journaled text counts as a duplicate. *)
ReceiveAnyDuplicate ==
  /\ proc.pc = "receive" /\ Usable(KindOf[proc.at])
  /\ IF intent[TextOf(proc.at)] = "none"
     THEN /\ intent' = [intent EXCEPT ![TextOf(proc.at)] = "reserved"]
          /\ proc' = On("submit")
          /\ UNCHANGED cursor
     ELSE Advance /\ UNCHANGED intent
  /\ UNCHANGED <<mailbox, reply, held, world, config, faults>>

Receive ==
  /\ proc.pc = "receive"
  /\ LET u == proc.at  t == TextOf(u) IN
     IF ~Usable(KindOf[u])
     THEN /\ IF KindOf[u] = "group" /\ ~changed THEN Advance ELSE Stop /\ UNCHANGED cursor
          /\ UNCHANGED intent
     ELSE CASE intent[t] = "none" ->
                 /\ intent' = [intent EXCEPT ![t] = "reserved"]
                 /\ proc' = On("submit")
                 /\ UNCHANGED cursor
            [] intent[t] = "accepted" -> Advance /\ UNCHANGED intent
            [] OTHER -> Stop /\ UNCHANGED <<cursor, intent>>
  /\ UNCHANGED <<mailbox, reply, held, world, config, faults>>

(* Host.dispatch reads the binding again and makes the message from it. *)
Submit ==
  /\ proc.pc = "submit" /\ Usable(KindOf[proc.at])
  /\ accepted' = accepted \union {TextOf(proc.at)}
  /\ proc' = On("submitted")
  /\ UNCHANGED <<journal, arrived, inbox, acked, sent, config, faults>>

(* A call that fails or is cut short may have been served; by then the     *)
(* binding may be of another generation, and so the message of another id. *)
MayBeServed ==
  LET u == proc.at
      served == {[update |-> u, generation |-> generation[k]] :
                   k \in {KindOf[u]} \intersect active}
  IN \E S \in SUBSET served : accepted' = accepted \union S

SubmitFails ==
  /\ proc.pc = "submit"
  /\ MayBeServed
  /\ intent' = [intent EXCEPT ![TextOf(proc.at)] = "unknown"]
  /\ Stop
  /\ UNCHANGED <<cursor, mailbox, reply, held, arrived, inbox, acked, sent, config, faults>>

Settle ==
  /\ proc.pc = "submitted"
  /\ intent' = [intent EXCEPT ![TextOf(proc.at)] = "accepted"]
  /\ proc' = On("settled")
  /\ UNCHANGED <<cursor, mailbox, reply, held, world, config, faults>>

AdvanceUpdates ==
  /\ proc.pc = "settled"
  /\ Advance
  /\ UNCHANGED <<intent, mailbox, reply, held, world, config, faults>>

-----------------------------------------------------------------------------
(* A kill, in the middle of a call that may have taken effect. *)
Kill ==
  /\ proc # Stopped /\ Fault
  /\ Stop
  /\ IF proc.pc = "submit" THEN MayBeServed ELSE UNCHANGED accepted
  /\ IF proc.pc = "send" THEN Sends({0, 1}) ELSE UNCHANGED sent
  /\ UNCHANGED <<journal, arrived, inbox, acked, config>>

(* The owner, the agent and the operator. *)
OwnerWrites ==
  /\ arrived < Len(KindOf)
  /\ arrived' = arrived + 1
  /\ UNCHANGED <<journal, accepted, inbox, acked, sent, config, proc, faults>>

AgentWrites ==
  /\ Len(inbox) < MaxItems
  /\ \/ /\ \E item \in [text : accepted, fits : {TRUE}] : inbox' = Append(inbox, item)
        /\ UNCHANGED faults
     \/ /\ \E item \in [text : accepted, fits : {FALSE}] \union {Stray} : inbox' = Append(inbox, item)
        /\ Fault
  /\ UNCHANGED <<journal, arrived, accepted, acked, sent, config, proc>>

Revoke(k) ==
  /\ k \in active /\ Fault
  /\ active' = active \ {k}
  /\ UNCHANGED <<journal, world, generation, enrolled, changed, proc>>

ChangeConfiguration ==
  /\ ~changed /\ Fault
  /\ changed' = TRUE
  /\ UNCHANGED <<journal, world, active, generation, enrolled, proc>>

(* A binding gets a new generation; only the private one's is compared.     *)
Enroll(k) ==
  /\ Fault /\ generation[k] <= MaxFaults
  /\ generation' = [generation EXCEPT ![k] = @ + 1]
  /\ active' = active \union {k}
  /\ changed' = (changed \/ k = "private")
  /\ UNCHANGED <<journal, world, enrolled, proc>>

LocalStep ==
  \/ Start \/ ConfigurationChanged
  \/ ReplyRefused \/ ReplyReserve \/ SendUnknown \/ SettleReply \/ AdvanceMailbox
  \/ UpdateRead \/ Admit \/ Receive \/ Settle \/ AdvanceUpdates
CallStep == ReadInbox \/ Poll \/ Acknowledge \/ Send \/ Submit
FailStep == CallFails \/ SendFails \/ SubmitFails \/ Kill
WorldStep == \/ OwnerWrites \/ AgentWrites \/ ChangeConfiguration
             \/ \E k \in Enrolled : Revoke(k) \/ Enroll(k)

Next == LocalStep \/ CallStep \/ FailStep \/ WorldStep
Spec == Init /\ [][Next]_vars

(* The process is restarted when it stops and goes on while it runs; a call *)
(* that is tried again and again succeeds once.                             *)
Fairness == /\ WF_vars(LocalStep) /\ WF_vars(Send \/ SendFails) /\ WF_vars(Submit \/ SubmitFails)
            /\ SF_vars(ReadInbox) /\ SF_vars(Poll) /\ SF_vars(Acknowledge)
            /\ SF_vars(ReplyRefused \/ ReplyReserve)
FairSpec == Spec /\ Fairness
=============================================================================
