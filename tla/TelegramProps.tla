---------------------------- MODULE TelegramProps ----------------------------
(***************************************************************************)
(* What the Telegram relay must guarantee.                                 *)
(***************************************************************************)
EXTENDS Telegram

TypeOK ==
  /\ arrived \in 0 .. Len(KindOf) /\ cursor \in 0 .. Len(KindOf)
  /\ intent \in [Text -> EffectState] /\ accepted \subseteq Text
  /\ inbox \in Seq(Reply \union {Stray}) /\ Len(inbox) <= MaxItems
  /\ mailbox \in 0 .. MaxItems
  /\ reply \in [Item -> EffectState]
  /\ held \subseteq Item /\ acked \subseteq Item
  /\ sent \in [Item -> Nat]
  /\ active \subseteq Enrolled /\ changed \in BOOLEAN
  /\ generation \in [Enrolled -> Generation]
  /\ enrolled \in [Enrolled -> Generation \union {0}]
  /\ proc \in {Stopped, Loop("inbox"), Loop("poll")}
       \union [pc : {"reply", "send", "sent", "unsent", "ack", "acked"}, at : Item, last : Item]
       \union [pc : {"update", "admit", "receive", "submit", "submitted", "settled"},
                at : Update, last : Update]
  /\ faults \in 0 .. MaxFaults

(* A reply reaches the chat at most once, over failed calls, kills and     *)
(* restarts (telegram-dots-route.md: a restart does not "duplicate a known *)
(* send").                                                                 *)
SentOnce == \A i \in Item : sent[i] <= 1

(* The mailbox cursor passes an item only when it was sent and             *)
(* acknowledged, or is held (replies_once, hold_group_reply): no reply is  *)
(* lost between the two stores.                                            *)
NoReplyLost == \A i \in 1 .. mailbox : (sent[i] = 1 /\ i \in acked) \/ i \in held

(* The agent's item is acknowledged to the hub only after Telegram took it.*)
AckedWasSent == \A i \in acked : sent[i] = 1

(* Only items that answer a group's text are held: a private reply is sent *)
(* or stops the process.                                                   *)
OnlyGroupHeld == \A i \in held : Group(i)

(* An owner's text is passed only when the hub has it, or, for a group,    *)
(* while its binding is not the one the process knows.  The exception is   *)
(* the gap of receive_once: a configuration that changes between the two   *)
(* times it is read passes the update unseen.                              *)
OwnerTextPassed ==
  [][\A u \in Update : cursor < u /\ u <= cursor' =>
       \/ Passed(u)
       \/ TextOf(u) \in accepted /\ intent[TextOf(u)] = "accepted"]_vars

(* What needs the operator: the next text was submitted and its outcome is *)
(* not known; the next item answers nothing, is one that deliver_reply     *)
(* never sends, or is a private reply that may have been sent; or the      *)
(* owner's binding is revoked.  A group's reply of unknown outcome is held *)
(* and is none of these (hold_group_reply).                                *)
Doubtful(state) == state = "unknown" \/ (state = "reserved" /\ proc = Stopped)
TextBlocked == \E u \in Update : /\ u = cursor + 1
                                 /\ KindOf[u] # "other" /\ Current(KindOf[u])
                                 /\ Doubtful(intent[TextOf(u)])
ItemBlocked ==
  /\ mailbox < Len(inbox)
  /\ LET i == mailbox + 1 IN
     \/ inbox[i] = Stray
     \/ /\ inbox[i] # Stray /\ Usable(Chat(i))
        /\ Unsendable(i) \/ (~Group(i) /\ Doubtful(reply[i]))
Blocked == TextBlocked \/ ItemBlocked \/ "private" \notin active

(* A text Telegram has is passed, unless something that needs the operator *)
(* stands before it.                                                       *)
UpdatesPass == \A u \in Update : arrived >= u ~> (cursor >= u \/ Blocked)
=============================================================================
