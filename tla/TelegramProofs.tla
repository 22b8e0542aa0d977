--------------------------- MODULE TelegramProofs ---------------------------
(***************************************************************************)
(* Proofs about Telegram for every sequence of texts and every number of   *)
(* items, kills, changes of the configuration and items never sent.        *)
(*                                                                         *)
(* The argument: the process is at the item, or the update, that follows   *)
(* its cursor (Placed); what the journal has not reserved was not sent,    *)
(* and what it calls accepted was (Reserved, Told); so the step that moves *)
(* a cursor passes one item, and the journal says why (Settled).           *)
(***************************************************************************)
EXTENDS TelegramProps, TLAPS

ReplyPc == {"reply", "send", "sent", "unsent", "ack", "acked"}
UpdatePc == {"update", "admit", "receive", "submit", "submitted", "settled"}

(* The process is right behind its cursor, within the page it has read.     *)
Placed ==
  /\ cursor <= arrived /\ mailbox <= Len(inbox) /\ held \subseteq 1 .. Len(inbox)
  /\ proc.pc \in ReplyPc =>
       proc.at = mailbox + 1 /\ proc.at <= proc.last /\ proc.last <= Len(inbox)
  /\ proc.pc \in UpdatePc =>
       proc.at = cursor + 1 /\ proc.at <= proc.last /\ proc.last <= arrived

(* A reply is sent at most once, and only under its reservation.            *)
Reserved ==
  /\ \A i \in Item : /\ sent[i] <= 1
                     /\ reply[i] = "none" => sent[i] = 0
                     /\ reply[i] = "accepted" => sent[i] = 1
                     /\ i \in acked => sent[i] = 1
  /\ proc.pc = "send" => sent[proc.at] = 0 /\ reply[proc.at] = "reserved"
  /\ proc.pc \in {"sent", "ack", "acked"} => sent[proc.at] = 1
  /\ proc.pc = "acked" => proc.at \in acked

(* What the cursor passed is settled.                                       *)
Settled == NoReplyLost /\ OnlyGroupHeld

(* The journal calls a text accepted only when the hub has it.              *)
Told ==
  /\ \A t \in Text : intent[t] = "accepted" => t \in accepted
  /\ proc.pc = "submitted" => TextOf(proc.at) \in accepted
  /\ proc.pc = "settled" => /\ TextOf(proc.at) \in Text
                            /\ intent[TextOf(proc.at)] = "accepted"

TelegramInv == TypeOK /\ Placed /\ Reserved /\ Settled /\ Told

-----------------------------------------------------------------------------
(* Where the process is                                                     *)

Between == {Stopped, Loop("inbox"), Loop("poll")}
AtReply == [pc : ReplyPc, at : Item, last : Item]
AtUpdate == [pc : UpdatePc, at : Update, last : Update]

LEMMA Numbers == MaxItems \in Nat /\ Len(KindOf) \in Nat
<1>1. KindOf \in Seq({"private", "group", "other"})
  BY TelegramAssumption
<1> QED
  BY <1>1, TelegramAssumption

LEMMA Where ==
  ASSUME TypeOK
  PROVE  /\ proc \in Between \union AtReply \union AtUpdate
         /\ proc.pc \in ReplyPc => proc \in AtReply /\ proc.at \in Item /\ proc.last \in Item
         /\ proc.pc \in UpdatePc => proc \in AtUpdate /\ proc.at \in Update /\ proc.last \in Update
  BY DEF TypeOK, Between, AtReply, AtUpdate, ReplyPc, UpdatePc, Stopped, Loop

(* Typing, when the process is where it may be.                             *)
LEMMA TypesStay ==
  ASSUME TypeOK, proc' \in Between \union AtReply \union AtUpdate,
         UNCHANGED <<arrived, inbox, active, generation, enrolled, changed, faults>>,
         cursor' \in 0 .. Len(KindOf), mailbox' \in 0 .. MaxItems,
         intent' \in [Text -> EffectState], accepted' \subseteq Text,
         reply' \in [Item -> EffectState], held' \subseteq Item, acked' \subseteq Item,
         sent' \in [Item -> Nat]
  PROVE  TypeOK'
  BY DEF TypeOK, Between, AtReply, AtUpdate, ReplyPc, UpdatePc

LEMMA SettledStays ==
  ASSUME TypeOK, Settled, UNCHANGED <<mailbox, held, inbox>>,
         acked \subseteq acked', \A i \in Item : sent[i] = 1 => sent'[i] = 1
  PROVE  Settled'
<1>1. \A i \in 1 .. mailbox : i \in Item
  BY Numbers DEF TypeOK, Item
<1> QED
  BY <1>1 DEF Settled, NoReplyLost, OnlyGroupHeld, Group, Chat

-----------------------------------------------------------------------------
(* What a step must show: it stops or leaves the page, goes on with the     *)
(* item or update it is at, or passes it.                                   *)

LEMMA HaltOK ==
  ASSUME TelegramInv, proc' \in Between,
         UNCHANGED <<arrived, cursor, mailbox, held, inbox>>,
         active' \subseteq Enrolled, changed' \in BOOLEAN,
         generation' \in [Enrolled -> Generation], enrolled' \in [Enrolled -> Generation \union {0}],
         faults' \in 0 .. MaxFaults,
         intent' \in [Text -> EffectState], accepted' \subseteq Text,
         reply' \in [Item -> EffectState], acked' \subseteq Item, sent' \in [Item -> Nat],
         acked \subseteq acked', \A i \in Item : sent[i] = 1 => sent'[i] = 1,
         \A i \in Item : /\ sent'[i] <= 1
                         /\ reply'[i] = "none" => sent'[i] = 0
                         /\ reply'[i] = "accepted" => sent'[i] = 1
                         /\ i \in acked' => sent'[i] = 1,
         \A t \in Text : intent'[t] = "accepted" => t \in accepted'
  PROVE  TelegramInv'
<1>1. proc'.pc \in {"stopped", "inbox", "poll"}
  BY DEF Between, Stopped, Loop
<1>2. TypeOK'
  BY DEF TelegramInv, TypeOK, Between
<1>3. Placed'
  BY <1>1 DEF TelegramInv, Placed, ReplyPc, UpdatePc
<1>4. Reserved'
  <2>1. \A i \in Item : /\ sent'[i] <= 1
                        /\ reply'[i] = "none" => sent'[i] = 0
                        /\ reply'[i] = "accepted" => sent'[i] = 1
                        /\ i \in acked' => sent'[i] = 1
    OBVIOUS
  <2> QED
    BY <1>1, <2>1 DEF Reserved
<1>5. Settled'
  BY SettledStays DEF TelegramInv
<1>6. Told'
  BY <1>1 DEF Told
<1> QED
  BY <1>2, <1>3, <1>4, <1>5, <1>6 DEF TelegramInv

LEMMA ReplyOnOK ==
  ASSUME TelegramInv, NEW pc \in ReplyPc, proc.pc \in ReplyPc, proc' = On(pc),
         UNCHANGED <<arrived, cursor, mailbox, held, inbox, intent, accepted,
                     active, generation, enrolled, changed, faults>>,
         reply' \in [Item -> EffectState], acked' \subseteq Item, sent' \in [Item -> Nat],
         acked \subseteq acked', \A i \in Item : sent[i] = 1 => sent'[i] = 1,
         Reserved'
  PROVE  TelegramInv'
<1>1. /\ proc' \in AtReply /\ proc'.pc = pc /\ proc'.at = proc.at /\ proc'.last = proc.last
  BY Where DEF TelegramInv, On, AtReply
<1>2. TypeOK'
  BY <1>1, TypesStay DEF TelegramInv, TypeOK
<1>3. Placed'
  BY <1>1 DEF TelegramInv, Placed, ReplyPc, UpdatePc
<1>4. Settled'
  BY SettledStays DEF TelegramInv
<1>5. Told'
  BY <1>1 DEF TelegramInv, Told, ReplyPc
<1> QED
  BY <1>2, <1>3, <1>4, <1>5 DEF TelegramInv

LEMMA ReplyPassOK ==
  ASSUME TelegramInv, proc.pc \in ReplyPc, mailbox' = proc.at, GoOn("reply", "poll"),
         held' = held \/ (held' = held \union {proc.at} /\ Group(proc.at)),
         (sent[proc.at] = 1 /\ proc.at \in acked) \/ proc.at \in held',
         UNCHANGED <<arrived, cursor, inbox, intent, accepted, reply, acked, sent,
                     active, generation, enrolled, changed, faults>>
  PROVE  TelegramInv'
<1> USE Numbers
<1>1. /\ proc \in AtReply /\ proc.at \in Item /\ proc.last \in Item
      /\ proc.at = mailbox + 1 /\ proc.at <= proc.last /\ proc.last <= Len(inbox)
  BY Where DEF TelegramInv, Placed
<1>2. /\ inbox \in Seq(Reply \union {Stray}) /\ Len(inbox) \in Nat /\ mailbox \in Nat
      /\ cursor \in 0 .. Len(KindOf) /\ held \subseteq Item
  BY DEF TelegramInv, TypeOK
<1>3. \/ proc' = Loop("poll")
      \/ /\ proc' \in AtReply /\ proc'.pc = "reply" /\ proc'.at = proc.at + 1
         /\ proc'.last = proc.last /\ proc.at < proc.last
  BY <1>1 DEF GoOn, AtReply, ReplyPc, Item
<1>4. TypeOK'
  <2>1. proc' \in Between \union AtReply \union AtUpdate
    BY <1>3 DEF Between
  <2>2. mailbox' \in 0 .. MaxItems /\ held' \subseteq Item
    <3>1. held' \subseteq Item
      BY <1>1, <1>2
    <3> QED
      BY <1>1, <3>1 DEF Item
  <2>3. TypeOK
    BY DEF TelegramInv
  <2> QED
    BY <2>1, <2>2, <2>3, TypesStay DEF TypeOK
<1>5. Placed'
  <2>1. cursor' <= arrived' /\ mailbox' <= Len(inbox')
    BY <1>1, <1>2 DEF TelegramInv, Placed, Item
  <2>2. held' \subseteq 1 .. Len(inbox')
    <3>1. held \subseteq 1 .. Len(inbox) /\ inbox' = inbox
      BY DEF TelegramInv, Placed
    <3>2. proc.at \in 1 .. Len(inbox)
      BY <1>1, <1>2 DEF Item
    <3> QED
      BY <3>1, <3>2
  <2>3. CASE proc' = Loop("poll")
    BY <2>1, <2>2, <2>3 DEF Placed, Loop, ReplyPc, UpdatePc
  <2>4. CASE /\ proc'.pc = "reply" /\ proc'.at = proc.at + 1
             /\ proc'.last = proc.last /\ proc.at < proc.last
    <3>1. /\ proc'.at = mailbox' + 1 /\ proc'.at <= proc'.last
          /\ proc'.last <= Len(inbox') /\ proc'.pc \notin UpdatePc
      BY <1>1, <1>2, <2>4 DEF UpdatePc, Item
    <3> QED
      BY <2>1, <2>2, <3>1 DEF Placed
  <2> QED
    BY <1>3, <2>3, <2>4
<1>6. Reserved'
  BY <1>3 DEF TelegramInv, Reserved, Loop
<1>7. Settled'
  <2>1. \A i \in 1 .. mailbox' : i = proc.at \/ i \in 1 .. mailbox
    BY <1>1, <1>2 DEF Item
  <2>2. NoReplyLost'
    BY <2>1 DEF TelegramInv, Settled, NoReplyLost
  <2>3. OnlyGroupHeld'
    BY DEF TelegramInv, Settled, OnlyGroupHeld, Group, Chat
  <2> QED
    BY <2>2, <2>3 DEF Settled
<1>8. Told'
  BY <1>3 DEF TelegramInv, Told, Loop
<1> QED
  BY <1>4, <1>5, <1>6, <1>7, <1>8 DEF TelegramInv

LEMMA UpdateOnOK ==
  ASSUME TelegramInv, NEW pc \in UpdatePc, proc.pc \in UpdatePc, proc' = On(pc),
         UNCHANGED <<arrived, cursor, mailbox, held, inbox, reply, acked, sent,
                     active, generation, enrolled, changed, faults>>,
         intent' \in [Text -> EffectState], accepted' \subseteq Text, Told'
  PROVE  TelegramInv'
<1>1. /\ proc' \in AtUpdate /\ proc'.pc = pc /\ proc'.at = proc.at /\ proc'.last = proc.last
  BY Where DEF TelegramInv, On, AtUpdate
<1>2. TypeOK'
  BY <1>1, TypesStay DEF TelegramInv, TypeOK
<1>3. Placed'
  BY <1>1 DEF TelegramInv, Placed, ReplyPc, UpdatePc
<1>4. Reserved'
  BY <1>1 DEF TelegramInv, Reserved, UpdatePc
<1>5. Settled'
  BY SettledStays DEF TelegramInv
<1> QED
  BY <1>2, <1>3, <1>4, <1>5 DEF TelegramInv

LEMMA UpdatePassOK ==
  ASSUME TelegramInv, proc.pc \in UpdatePc, Advance,
         UNCHANGED <<arrived, mailbox, held, inbox, intent, accepted, reply, acked, sent,
                     active, generation, enrolled, changed, faults>>
  PROVE  TelegramInv'
<1> USE Numbers
<1>1. /\ proc \in AtUpdate /\ proc.at \in Update /\ proc.last \in Update
      /\ proc.at = cursor + 1 /\ proc.at <= proc.last /\ proc.last <= arrived
  BY Where DEF TelegramInv, Placed
<1>2. arrived \in 0 .. Len(KindOf)
  BY DEF TelegramInv, TypeOK
<1>3. \/ proc' = Loop("inbox")
      \/ /\ proc' \in AtUpdate /\ proc'.pc = "update" /\ proc'.at = proc.at + 1
         /\ proc'.last = proc.last /\ proc.at < proc.last
  BY <1>1 DEF Advance, GoOn, AtUpdate, UpdatePc, Update
<1>4. cursor' = proc.at
  BY DEF Advance
<1>5. TypeOK'
  <2>1. proc' \in Between \union AtReply \union AtUpdate
    BY <1>3 DEF Between
  <2>2. cursor' \in 0 .. Len(KindOf)
    BY <1>1, <1>4 DEF Update
  <2>3. TypeOK
    BY DEF TelegramInv
  <2> QED
    BY <2>1, <2>2, <2>3, TypesStay DEF TypeOK
<1>6. Placed'
  BY <1>1, <1>2, <1>3, <1>4 DEF TelegramInv, Placed, Loop, ReplyPc, UpdatePc, Update
<1>7. Reserved'
  BY <1>3 DEF TelegramInv, Reserved, Loop
<1>8. Settled'
  BY SettledStays DEF TelegramInv
<1>9. Told'
  BY <1>3 DEF TelegramInv, Told, Loop
<1> QED
  BY <1>5, <1>6, <1>7, <1>8, <1>9 DEF TelegramInv

-----------------------------------------------------------------------------
(* The steps                                                                *)

Calm == UNCHANGED <<arrived, cursor, intent, accepted, inbox, mailbox, reply, held, acked, sent>>

(* Steps of the process that only change where it is.                       *)
LEMMA TurnsOK ==
  ASSUME TelegramInv, Calm, proc' \in Between, UNCHANGED <<faults, generation>>,
         enrolled' \in [Enrolled -> Generation \union {0}],
         active' = active, changed' \in BOOLEAN
  PROVE  TelegramInv'
<1>1. \A i \in Item : /\ sent'[i] <= 1
                      /\ reply'[i] = "none" => sent'[i] = 0
                      /\ reply'[i] = "accepted" => sent'[i] = 1
                      /\ i \in acked' => sent'[i] = 1
  BY DEF TelegramInv, Reserved, Calm
<1>2. \A t \in Text : intent'[t] = "accepted" => t \in accepted'
  BY DEF TelegramInv, Told, Calm
<1> QED
  BY <1>1, <1>2, HaltOK DEF TelegramInv, TypeOK, Calm

LEMMA LoopOK ==
  ASSUME TelegramInv, Start \/ ConfigurationChanged
  PROVE  TelegramInv'
<1>1. Calm /\ proc' \in Between /\ UNCHANGED <<faults, generation>> /\ active' = active
      /\ enrolled' \in [Enrolled -> Generation \union {0}]
      /\ changed' \in BOOLEAN
  BY DEF Start, ConfigurationChanged, Calm, Between, Stop, Stopped, Loop, journal, world, config,
     TelegramInv, TypeOK
<1> QED
  BY <1>1, TurnsOK

LEMMA PageOK ==
  ASSUME TelegramInv, ReadInbox \/ Poll
  PROVE  TelegramInv'
<1> USE Numbers
<1>1. Calm /\ UNCHANGED <<faults, active, generation, enrolled, changed>>
  BY DEF ReadInbox, Poll, Calm, journal, world, config
<1>2. /\ cursor \in 0 .. Len(KindOf) /\ mailbox \in 0 .. MaxItems /\ changed \in BOOLEAN
      /\ enrolled \in [Enrolled -> Generation \union {0}]
      /\ arrived \in 0 .. Len(KindOf) /\ Len(inbox) <= MaxItems /\ Len(inbox) \in Nat
  BY DEF TelegramInv, TypeOK
<1>3. CASE proc' \in {Loop("poll"), Loop("inbox")}
  BY <1>1, <1>2, <1>3, TurnsOK DEF Between
<1>4. CASE mailbox < Len(inbox) /\ proc' = [pc |-> "reply", at |-> mailbox + 1, last |-> Len(inbox)]
  <2>1. proc' \in AtReply /\ proc'.pc = "reply"
    BY <1>2, <1>4 DEF AtReply, ReplyPc, Item
  <2>2. TypeOK'
    BY <1>1, <2>1, TypesStay DEF TelegramInv, TypeOK, Calm
  <2>3. Placed'
    BY <1>1, <1>2, <1>4, <2>1 DEF TelegramInv, Placed, Calm, ReplyPc, UpdatePc
  <2>4. Reserved' /\ Told'
    BY <1>1, <2>1 DEF TelegramInv, Reserved, Told, Calm
  <2>5. Settled'
    BY <1>1, SettledStays DEF TelegramInv, Calm
  <2> QED
    BY <2>2, <2>3, <2>4, <2>5 DEF TelegramInv
<1>5. CASE cursor < arrived /\ proc' = [pc |-> "update", at |-> cursor + 1, last |-> arrived]
  <2>1. proc' \in AtUpdate /\ proc'.pc = "update"
    BY <1>2, <1>5 DEF AtUpdate, UpdatePc, Update
  <2>2. TypeOK'
    BY <1>1, <2>1, TypesStay DEF TelegramInv, TypeOK, Calm
  <2>3. Placed'
    BY <1>1, <1>2, <1>5, <2>1 DEF TelegramInv, Placed, Calm, ReplyPc, UpdatePc
  <2>4. Reserved' /\ Told'
    BY <1>1, <2>1 DEF TelegramInv, Reserved, Told, Calm
  <2>5. Settled'
    BY <1>1, SettledStays DEF TelegramInv, Calm
  <2> QED
    BY <2>2, <2>3, <2>4, <2>5 DEF TelegramInv
<1> QED
  BY <1>3, <1>4, <1>5 DEF ReadInbox, Poll

(* The texts the hub may be given.                                          *)
LEMMA TextHere ==
  ASSUME TypeOK, NEW u \in Update, Current(KindOf[u])
  PROVE  TextOf(u) \in Text
  BY DEF TypeOK, Current, TextOf, Text

LEMMA Served ==
  ASSUME TelegramInv, proc.pc = "submit", MayBeServed
  PROVE  accepted \subseteq accepted' /\ accepted' \subseteq Text
<1>1. proc.at \in Update /\ accepted \subseteq Text
  BY Where DEF TelegramInv, TypeOK, UpdatePc
<1>2. \A k \in active : [update |-> proc.at, generation |-> generation[k]] \in Text
  BY <1>1 DEF TelegramInv, TypeOK, Text
<1> QED
  BY <1>1, <1>2 DEF MayBeServed

(* What a failure or a kill leaves.                                         *)
LEMMA FailOK ==
  ASSUME TelegramInv, CallFails \/ SubmitFails \/ Kill
  PROVE  TelegramInv'
<1>1. proc' = Stopped /\ UNCHANGED <<arrived, cursor, mailbox, held, inbox, reply, active, generation, enrolled, changed>>
  BY DEF CallFails, SubmitFails, Kill, Stop, journal, config
<1>2. faults' \in 0 .. MaxFaults
  BY TelegramAssumption DEF CallFails, SubmitFails, Kill, Fault, TelegramInv, TypeOK
<1>3. /\ sent' \in [Item -> Nat]
      /\ \A i \in Item : \/ sent'[i] = sent[i]
                         \/ sent'[i] \in {0, 1} /\ proc.pc = "send" /\ i = proc.at
  <2>1. sent \in [Item -> Nat]
    BY DEF TelegramInv, TypeOK
  <2>2. CASE sent' = sent
    BY <2>1, <2>2
  <2>3. CASE proc.pc = "send" /\ Sends({0, 1})
    <3>1. proc.at \in Item /\ sent[proc.at] = 0
      BY <2>3, Where DEF TelegramInv, Reserved, ReplyPc
    <3>2. PICK n \in {0, 1} : sent' = [sent EXCEPT ![proc.at] = @ + n]
      BY <2>3 DEF Sends
    <3> QED
      BY <2>1, <2>3, <3>1, <3>2
  <2> QED
    BY <2>2, <2>3 DEF CallFails, SubmitFails, Kill
<1>4. proc.pc = "send" => sent[proc.at] = 0 /\ reply[proc.at] = "reserved"
  BY DEF TelegramInv, Reserved
<1>5. /\ acked' \subseteq Item /\ acked \subseteq acked'
      /\ \A i \in acked' : i \in acked \/ (proc.pc = "ack" /\ i = proc.at)
  BY Where DEF CallFails, SubmitFails, Kill, TelegramInv, TypeOK, ReplyPc
<1>6. proc.pc = "ack" => sent[proc.at] = 1
  BY DEF TelegramInv, Reserved
<1>7. /\ intent' \in [Text -> EffectState] /\ accepted' \subseteq Text
      /\ accepted \subseteq accepted'
      /\ \A t \in Text : intent'[t] = "accepted" => intent[t] = "accepted"
  <2>1. accepted \subseteq Text /\ intent \in [Text -> EffectState]
    BY DEF TelegramInv, TypeOK
  <2>2. accepted \subseteq accepted' /\ accepted' \subseteq Text
    <3>1. CASE accepted' = accepted
      BY <2>1, <3>1
    <3>2. CASE proc.pc = "submit" /\ MayBeServed
      BY <2>1, <3>2, Served
    <3> QED
      BY <3>1, <3>2 DEF CallFails, SubmitFails, Kill
  <2>3. intent' = intent \/ intent' = [intent EXCEPT ![TextOf(proc.at)] = "unknown"]
    BY DEF CallFails, SubmitFails, Kill, journal
  <2> QED
    BY <2>1, <2>2, <2>3 DEF EffectState
<1>8. \A t \in Text : intent'[t] = "accepted" => t \in accepted'
  BY <1>7 DEF TelegramInv, Told
<1>9. \A i \in Item : /\ sent[i] = 1 => sent'[i] = 1
                      /\ sent'[i] <= 1
                      /\ reply'[i] = "none" => sent'[i] = 0
                      /\ reply'[i] = "accepted" => sent'[i] = 1
                      /\ i \in acked' => sent'[i] = 1
  <2>1. ASSUME NEW i \in Item
        PROVE  /\ sent[i] = 1 => sent'[i] = 1
               /\ sent'[i] <= 1
               /\ reply'[i] = "none" => sent'[i] = 0
               /\ reply'[i] = "accepted" => sent'[i] = 1
               /\ i \in acked' => sent'[i] = 1
    <3>1. /\ sent[i] <= 1 /\ (reply[i] = "none" => sent[i] = 0)
          /\ (reply[i] = "accepted" => sent[i] = 1) /\ (i \in acked => sent[i] = 1)
      BY DEF TelegramInv, Reserved
    <3> QED
      BY <1>1, <1>3, <1>4, <1>5, <1>6, <3>1
  <2> QED
    BY <2>1
<1> QED
  BY <1>1, <1>2, <1>3, <1>5, <1>7, <1>8, <1>9, HaltOK DEF TelegramInv, TypeOK, Between

(* A reply is passed: it is held, or sent and acknowledged.                 *)
LEMMA HoldOK ==
  ASSUME TelegramInv, proc.pc \in ReplyPc, Group(proc.at), Hold(proc.at),
         UNCHANGED <<cursor, intent, reply, world, config, faults>>
  PROVE  TelegramInv'
  BY ReplyPassOK DEF Hold, world, config

LEMMA StopOK ==
  ASSUME TelegramInv, Stop, UNCHANGED <<journal, world, config, faults>>
  PROVE  TelegramInv'
<1>1. changed \in BOOLEAN /\ enrolled \in [Enrolled -> Generation \union {0}]
  BY DEF TelegramInv, TypeOK
<1> QED
  BY <1>1, TurnsOK DEF Stop, Between, Calm, journal, world, config

LEMMA ReplyPassesOK ==
  ASSUME TelegramInv, ReplyRefused \/ SendUnknown \/ AdvanceMailbox
  PROVE  TelegramInv'
<1>1. CASE ReplyRefused
  <2>1. CASE Group(proc.at) /\ Hold(proc.at)
    BY <1>1, <2>1, HoldOK DEF ReplyRefused, ReplyPc
  <2>2. CASE Stop /\ UNCHANGED <<held, mailbox>>
    BY <1>1, <2>2, StopOK DEF ReplyRefused, journal
  <2> QED
    BY <1>1, <2>1, <2>2 DEF ReplyRefused
<1>2. CASE SendUnknown
  <2>1. CASE Group(proc.at) /\ Hold(proc.at)
    BY <1>2, <2>1, HoldOK DEF SendUnknown, ReplyPc
  <2>2. CASE Stop /\ UNCHANGED <<held, mailbox>>
    BY <1>2, <2>2, StopOK DEF SendUnknown, journal
  <2> QED
    BY <1>2, <2>1, <2>2 DEF SendUnknown
<1>3. CASE AdvanceMailbox
  <2>1. sent[proc.at] = 1 /\ proc.at \in acked
    BY <1>3 DEF AdvanceMailbox, TelegramInv, Reserved
  <2> QED
    BY <1>3, <2>1, ReplyPassOK DEF AdvanceMailbox, ReplyPc, world, config
<1> QED
  BY <1>1, <1>2, <1>3

LEMMA ReplyReserveOK ==
  ASSUME TelegramInv, ReplyReserve
  PROVE  TelegramInv'
<1>1. /\ proc.pc = "reply" /\ proc.at \in Item
      /\ UNCHANGED <<cursor, intent, world, config, faults>>
  BY Where DEF ReplyReserve, ReplyPc, TelegramInv
<1>2. CASE /\ reply[proc.at] = "none" /\ reply' = [reply EXCEPT ![proc.at] = "reserved"]
           /\ proc' = On("send") /\ UNCHANGED <<held, mailbox>>
  <2>1. reply' \in [Item -> EffectState] /\ sent \in [Item -> Nat] /\ acked \subseteq Item
    BY <1>2 DEF TelegramInv, TypeOK, EffectState
  <2>2. proc'.pc = "send" /\ proc'.at = proc.at
    BY <1>1, <1>2, Where DEF On, TelegramInv, ReplyPc, AtReply
  <2>3. Reserved'
    BY <1>1, <1>2, <2>2 DEF TelegramInv, TypeOK, Reserved, world
  <2> QED
    BY <1>1, <1>2, <2>1, <2>3, ReplyOnOK DEF ReplyPc, world, config
<1>3. CASE reply[proc.at] = "accepted" /\ proc' = On("ack") /\ UNCHANGED <<reply, held, mailbox>>
  <2>1. reply \in [Item -> EffectState] /\ sent \in [Item -> Nat] /\ acked \subseteq Item
    BY DEF TelegramInv, TypeOK
  <2>2. proc'.pc = "ack" /\ proc'.at = proc.at
    BY <1>1, <1>3, Where DEF On, TelegramInv, ReplyPc, AtReply
  <2>3. Reserved'
    BY <1>1, <1>3, <2>2 DEF TelegramInv, Reserved, world
  <2> QED
    BY <1>1, <1>3, <2>1, <2>3, ReplyOnOK DEF ReplyPc, world, config
<1>4. CASE Group(proc.at) /\ Hold(proc.at) /\ UNCHANGED reply
  BY <1>1, <1>4, HoldOK DEF ReplyPc
<1>5. CASE Stop /\ UNCHANGED <<held, mailbox, reply>>
  BY <1>1, <1>5, StopOK DEF journal
<1> QED
  BY <1>2, <1>3, <1>4, <1>5 DEF ReplyReserve

(* The API call, its failure, and what the journal and the hub are told.    *)
LEMMA SendOK ==
  ASSUME TelegramInv, Send \/ SendFails
  PROVE  TelegramInv'
<1>1. /\ proc.pc = "send" /\ proc.at \in Item /\ sent[proc.at] = 0
      /\ reply[proc.at] = "reserved"
      /\ UNCHANGED <<arrived, cursor, mailbox, held, inbox, intent, accepted, acked,
                     active, generation, enrolled, changed, faults>>
  BY Where DEF Send, SendFails, ReplyPc, TelegramInv, Reserved, journal, config
<1>2. proc.at \notin acked
  BY <1>1 DEF TelegramInv, Reserved
<1>3. /\ sent \in [Item -> Nat] /\ reply \in [Item -> EffectState] /\ acked \subseteq Item
  BY DEF TelegramInv, TypeOK
<1>4. \A i \in Item : /\ sent[i] <= 1
                      /\ reply[i] = "none" => sent[i] = 0
                      /\ reply[i] = "accepted" => sent[i] = 1
                      /\ i \in acked => sent[i] = 1
  BY DEF TelegramInv, Reserved
<1>5. CASE Send
  <2>1. sent' = [sent EXCEPT ![proc.at] = 1] /\ reply' = reply /\ proc' = On("sent")
    BY <1>1, <1>3, <1>5 DEF Send, Sends, journal
  <2>2. proc'.pc = "sent" /\ proc'.at = proc.at
    BY <1>1, <2>1, Where DEF On, TelegramInv, ReplyPc, AtReply
  <2>3. Reserved'
    BY <1>1, <1>2, <1>3, <1>4, <2>1, <2>2 DEF Reserved
  <2>4. sent' \in [Item -> Nat] /\ \A i \in Item : sent[i] = 1 => sent'[i] = 1
    BY <1>1, <1>3, <2>1
  <2> QED
    BY <1>1, <1>3, <2>1, <2>3, <2>4, ReplyOnOK DEF ReplyPc
<1>6. CASE SendFails
  <2>1. /\ sent' = sent \/ sent' = [sent EXCEPT ![proc.at] = 1]
        /\ reply' = [reply EXCEPT ![proc.at] = "unknown"] /\ proc' = On("unsent")
    <3>1. sent' = sent \/ \E n \in {0, 1} : sent' = [sent EXCEPT ![proc.at] = @ + n]
      BY <1>6 DEF SendFails, Sends
    <3> QED
      BY <1>1, <1>3, <1>6, <3>1 DEF SendFails
  <2>2. proc'.pc = "unsent" /\ proc'.at = proc.at
    BY <1>1, <2>1, Where DEF On, TelegramInv, ReplyPc, AtReply
  <2>3. Reserved'
    BY <1>1, <1>2, <1>3, <1>4, <2>1, <2>2 DEF Reserved
  <2>4. /\ sent' \in [Item -> Nat] /\ \A i \in Item : sent[i] = 1 => sent'[i] = 1
        /\ reply' \in [Item -> EffectState]
    BY <1>1, <1>3, <2>1 DEF EffectState
  <2> QED
    BY <1>1, <1>3, <2>1, <2>3, <2>4, ReplyOnOK DEF ReplyPc
<1> QED
  BY <1>5, <1>6

LEMMA SettleReplyOK ==
  ASSUME TelegramInv, SettleReply
  PROVE  TelegramInv'
<1>1. /\ proc.pc = "sent" /\ proc.at \in Item /\ sent[proc.at] = 1
      /\ reply' = [reply EXCEPT ![proc.at] = "accepted"] /\ proc' = On("ack")
      /\ UNCHANGED <<arrived, cursor, mailbox, held, inbox, intent, accepted, acked, sent,
                     active, generation, enrolled, changed, faults>>
  BY Where DEF SettleReply, ReplyPc, TelegramInv, Reserved, world, config
<1>2. reply' \in [Item -> EffectState] /\ sent \in [Item -> Nat] /\ acked \subseteq Item
  BY <1>1 DEF TelegramInv, TypeOK, EffectState
<1>3. proc'.pc = "ack" /\ proc'.at = proc.at
  BY <1>1, Where DEF On, TelegramInv, ReplyPc, AtReply
<1>4. Reserved'
  BY <1>1, <1>3 DEF TelegramInv, TypeOK, Reserved
<1> QED
  BY <1>1, <1>2, <1>4, ReplyOnOK DEF ReplyPc

LEMMA AcknowledgeOK ==
  ASSUME TelegramInv, Acknowledge
  PROVE  TelegramInv'
<1>1. /\ proc.pc = "ack" /\ proc.at \in Item /\ sent[proc.at] = 1
      /\ acked' = acked \union {proc.at} /\ proc' = On("acked")
      /\ UNCHANGED <<arrived, cursor, mailbox, held, inbox, intent, accepted, reply, sent,
                     active, generation, enrolled, changed, faults>>
  BY Where DEF Acknowledge, ReplyPc, TelegramInv, Reserved, journal, config
<1>2. reply \in [Item -> EffectState] /\ sent \in [Item -> Nat] /\ acked' \subseteq Item
  BY <1>1 DEF TelegramInv, TypeOK
<1>3. proc'.pc = "acked" /\ proc'.at = proc.at
  BY <1>1, Where DEF On, TelegramInv, ReplyPc, AtReply
<1>4. Reserved'
  BY <1>1, <1>3 DEF TelegramInv, Reserved
<1> QED
  BY <1>1, <1>2, <1>4, ReplyOnOK DEF ReplyPc

(* The updates.                                                             *)
LEMMA UpdatePassesOK ==
  ASSUME TelegramInv, Admit \/ Receive \/ UpdateRead \/ AdvanceUpdates
  PROVE  TelegramInv'
<1>1. /\ proc.pc \in UpdatePc /\ proc.at \in Update
      /\ UNCHANGED <<arrived, mailbox, held, inbox, accepted, reply, acked, sent,
                     active, generation, enrolled, changed, faults>>
  BY Where DEF Admit, Receive, UpdateRead, AdvanceUpdates, UpdatePc, TelegramInv,
     journal, world, config
<1>2. intent \in [Text -> EffectState] /\ accepted \subseteq Text
  BY DEF TelegramInv, TypeOK
<1>3. CASE Advance /\ UNCHANGED intent
  BY <1>1, <1>3, UpdatePassOK
<1>4. CASE Stop /\ UNCHANGED <<cursor, intent>>
  BY <1>1, <1>4, StopOK DEF journal, world, config
<1>5. CASE /\ proc.pc \in {"update", "admit"} /\ UNCHANGED <<cursor, intent>>
           /\ proc' = On("admit") \/ proc' = On("receive")
  <2>1. PICK pc \in {"admit", "receive"} : proc' = On(pc)
    BY <1>5
  <2>2. proc'.pc = pc
    BY <1>1, <2>1, Where DEF On, TelegramInv, AtUpdate
  <2>3. Told'
    BY <1>1, <1>5, <2>2 DEF TelegramInv, Told
  <2> QED
    BY <1>1, <1>2, <1>5, <2>1, <2>3, UpdateOnOK DEF UpdatePc
<1>6. CASE /\ UNCHANGED cursor
           /\ intent' = [intent EXCEPT ![TextOf(proc.at)] = "reserved"] /\ proc' = On("submit")
  <2>1. proc'.pc = "submit"
    BY <1>1, <1>6, Where DEF On, TelegramInv, AtUpdate
  <2>2. Told' /\ intent' \in [Text -> EffectState]
    BY <1>1, <1>2, <1>6, <2>1 DEF TelegramInv, Told, EffectState
  <2> QED
    BY <1>1, <1>2, <1>6, <2>2, UpdateOnOK DEF UpdatePc
<1>7. CASE Admit
  BY <1>3, <1>4, <1>5, <1>7 DEF Admit
<1>8. CASE Receive
  BY <1>3, <1>4, <1>6, <1>8 DEF Receive
<1>9. CASE UpdateRead
  BY <1>5, <1>9 DEF UpdateRead, journal
<1>10. CASE AdvanceUpdates
  BY <1>3, <1>10 DEF AdvanceUpdates
<1> QED
  BY <1>7, <1>8, <1>9, <1>10

LEMMA SubmitOK ==
  ASSUME TelegramInv, Submit \/ Settle
  PROVE  TelegramInv'
<1>1. /\ proc.pc \in UpdatePc /\ proc.at \in Update
      /\ UNCHANGED <<arrived, cursor, mailbox, held, inbox, reply, acked, sent,
                     active, generation, enrolled, changed, faults>>
  BY Where DEF Submit, Settle, UpdatePc, TelegramInv, journal, world, config
<1>2. intent \in [Text -> EffectState] /\ accepted \subseteq Text
  BY DEF TelegramInv, TypeOK
<1>3. CASE Submit
  <2>1. /\ accepted' = accepted \union {TextOf(proc.at)} /\ intent' = intent
        /\ proc' = On("submitted") /\ TextOf(proc.at) \in Text
    BY <1>1, <1>3, TextHere DEF Submit, Usable, TelegramInv, journal
  <2>2. proc'.pc = "submitted" /\ proc'.at = proc.at
    BY <1>1, <2>1, Where DEF On, TelegramInv, AtUpdate
  <2>3. Told'
    BY <1>1, <2>1, <2>2 DEF TelegramInv, Told, TextOf
  <2> QED
    BY <1>1, <1>2, <2>1, <2>3, UpdateOnOK DEF UpdatePc
<1>4. CASE Settle
  <2>1. /\ accepted' = accepted /\ intent' = [intent EXCEPT ![TextOf(proc.at)] = "accepted"]
        /\ proc' = On("settled") /\ TextOf(proc.at) \in accepted
    BY <1>4 DEF Settle, TelegramInv, Told, world
  <2>2. proc'.pc = "settled" /\ proc'.at = proc.at
    BY <1>1, <2>1, Where DEF On, TelegramInv, AtUpdate
  <2>3. Told' /\ intent' \in [Text -> EffectState]
    <3>1. TextOf(proc.at)' = TextOf(proc.at) /\ TextOf(proc.at) \in Text
      BY <1>1, <1>2, <2>1, <2>2 DEF TextOf
    <3> QED
      BY <1>2, <2>1, <2>2, <3>1 DEF TelegramInv, Told, EffectState
  <2> QED
    BY <1>1, <1>2, <2>1, <2>3, UpdateOnOK DEF UpdatePc
<1> QED
  BY <1>3, <1>4

(* The owner, the agent and the operator leave the process where it is.     *)
LEMMA WorldOK ==
  ASSUME TelegramInv, WorldStep
  PROVE  TelegramInv'
<1> USE Numbers
<1>1. UNCHANGED <<cursor, intent, mailbox, reply, held, accepted, acked, sent, proc>>
  BY DEF WorldStep, OwnerWrites, AgentWrites, Revoke, Enroll, ChangeConfiguration, journal, world
<1>2. /\ arrived' \in 0 .. Len(KindOf) /\ arrived <= arrived'
      /\ active' \subseteq Enrolled /\ changed' \in BOOLEAN
      /\ faults' \in 0 .. MaxFaults /\ enrolled' = enrolled
      /\ generation' \in [Enrolled -> Generation]
  <2>1. /\ arrived \in 0 .. Len(KindOf) /\ active \subseteq Enrolled
        /\ changed \in BOOLEAN /\ faults \in 0 .. MaxFaults /\ MaxFaults \in Nat
        /\ generation \in [Enrolled -> Generation]
    BY TelegramAssumption DEF TelegramInv, TypeOK
  <2>2. CASE OwnerWrites
    BY <2>1, <2>2 DEF OwnerWrites, config
  <2>3. CASE AgentWrites
    <3>1. arrived' = arrived /\ UNCHANGED <<active, generation, enrolled, changed>>
      BY <2>3 DEF AgentWrites, config
    <3>2. faults' \in 0 .. MaxFaults
      <4>1. faults' = faults \/ Fault
        BY <2>3 DEF AgentWrites
      <4> QED
        BY <2>1, <4>1 DEF Fault
    <3> QED
      BY <2>1, <3>1, <3>2
  <2>4. CASE ChangeConfiguration
    BY <2>1, <2>4 DEF ChangeConfiguration, Fault, world
  <2>5. ASSUME NEW k \in Enrolled, Revoke(k)
        PROVE  /\ arrived' = arrived /\ active' \subseteq Enrolled /\ changed' \in BOOLEAN
               /\ faults' \in 0 .. MaxFaults /\ enrolled' = enrolled
               /\ generation' \in [Enrolled -> Generation]
    <3>1. /\ arrived' = arrived /\ active' \subseteq active
          /\ UNCHANGED <<generation, enrolled, changed>>
      BY <2>5 DEF Revoke, world
    <3>2. faults' \in 0 .. MaxFaults
      BY <2>1, <2>5 DEF Revoke, Fault
    <3> QED
      BY <2>1, <3>1, <3>2
  <2>6. ASSUME NEW k \in Enrolled, Enroll(k)
        PROVE  /\ arrived' = arrived /\ active' \subseteq Enrolled /\ changed' \in BOOLEAN
               /\ faults' \in 0 .. MaxFaults /\ enrolled' = enrolled
               /\ generation' \in [Enrolled -> Generation]
    <3>1. /\ arrived' = arrived /\ active' = active \union {k} /\ enrolled' = enrolled
          /\ changed' = (changed \/ k = "private")
          /\ generation' = [generation EXCEPT ![k] = @ + 1]
      BY <2>6 DEF Enroll, world
    <3>2. faults' \in 0 .. MaxFaults
      BY <2>1, <2>6 DEF Enroll, Fault
    <3>3. generation[k] + 1 \in Generation
      BY <2>1, <2>6 DEF Enroll, Generation
    <3>4. changed' \in BOOLEAN
      BY <3>1
    <3>5. generation' \in [Enrolled -> Generation]
      BY <2>1, <3>1, <3>3
    <3> QED
      BY <2>1, <3>1, <3>2, <3>4, <3>5
  <2> QED
    BY <2>1, <2>2, <2>3, <2>4, <2>5, <2>6 DEF WorldStep
<1>3. /\ inbox' \in Seq(Reply \union {Stray}) /\ Len(inbox') <= MaxItems
      /\ Len(inbox) \in Nat /\ Len(inbox') \in Nat /\ Len(inbox) <= Len(inbox')
      /\ \A i \in 1 .. Len(inbox) : inbox'[i] = inbox[i]
  <2>1. inbox \in Seq(Reply \union {Stray}) /\ Len(inbox) <= MaxItems
    BY DEF TelegramInv, TypeOK
  <2>2. CASE inbox' = inbox
    BY <2>1, <2>2
  <2>3. CASE AgentWrites
    <3>1. PICK item \in Reply \union {Stray} : inbox' = Append(inbox, item)
      BY <2>3 DEF AgentWrites, Reply, TelegramInv, TypeOK
    <3>2. Len(inbox) < MaxItems
      BY <2>3 DEF AgentWrites
    <3> QED
      BY <2>1, <3>1, <3>2
  <2> QED
    BY <2>2, <2>3 DEF WorldStep, OwnerWrites, Revoke, Enroll, ChangeConfiguration, world
<1>4. TypeOK'
  BY <1>1, <1>2, <1>3 DEF TelegramInv, TypeOK
<1>5. Placed'
  <2>1. /\ cursor \in 0 .. Len(KindOf) /\ arrived \in 0 .. Len(KindOf) /\ mailbox \in 0 .. MaxItems
    BY DEF TelegramInv, TypeOK
  <2>2. proc.pc \in ReplyPc \union UpdatePc => proc.last \in Int
    BY Where DEF TelegramInv, Item, Update
  <2>3. held' \subseteq 1 .. Len(inbox')
    BY <1>1, <1>3 DEF TelegramInv, Placed
  <2> QED
    BY <1>1, <1>2, <1>3, <2>1, <2>2, <2>3 DEF TelegramInv, Placed
<1>6. Reserved' /\ Told'
  BY <1>1, <1>2 DEF TelegramInv, Reserved, Told, TextOf
<1>7. Settled'
  <2>1. NoReplyLost'
    BY <1>1 DEF TelegramInv, Settled, NoReplyLost
  <2>2. OnlyGroupHeld'
    BY <1>1, <1>3 DEF TelegramInv, Placed, Settled, OnlyGroupHeld, Group, Chat
  <2> QED
    BY <2>1, <2>2 DEF Settled
<1> QED
  BY <1>4, <1>5, <1>6, <1>7 DEF TelegramInv

-----------------------------------------------------------------------------
(* The invariant                                                            *)

LEMMA InitInv ==
  ASSUME Init
  PROVE  TelegramInv
<1> USE Numbers
<1>1. TypeOK
  <2>1. inbox \in Seq(Reply \union {Stray}) /\ Len(inbox) <= MaxItems
    BY DEF Init
  <2>2. /\ reply \in [Item -> EffectState] /\ sent \in [Item -> Nat]
        /\ intent \in [Text -> EffectState]
    BY DEF Init, EffectState
  <2> QED
    <3>1. /\ arrived \in 0 .. Len(KindOf) /\ cursor \in 0 .. Len(KindOf)
          /\ mailbox \in 0 .. MaxItems
          /\ faults \in 0 .. MaxFaults
          /\ generation \in [Enrolled -> Generation]
          /\ enrolled \in [Enrolled -> Generation \union {0}]
      BY TelegramAssumption DEF Init, Generation
    <3> QED
      BY <2>1, <2>2, <3>1 DEF Init, TypeOK
<1>2. Placed
  BY DEF Init, Placed, Stopped, ReplyPc, UpdatePc
<1>3. Reserved /\ Told
  BY DEF Init, Reserved, Told, Stopped
<1>4. Settled
  BY DEF Init, Settled, NoReplyLost, OnlyGroupHeld
<1> QED
  BY <1>1, <1>2, <1>3, <1>4 DEF TelegramInv

LEMMA NextInv ==
  ASSUME TelegramInv, [Next]_vars
  PROVE  TelegramInv'
<1>1. CASE LocalStep
  BY <1>1, LoopOK, ReplyPassesOK, ReplyReserveOK, SettleReplyOK, UpdatePassesOK, SubmitOK
  DEF LocalStep
<1>2. CASE CallStep
  BY <1>2, PageOK, AcknowledgeOK, SendOK, SubmitOK DEF CallStep
<1>3. CASE FailStep
  BY <1>3, FailOK, SendOK DEF FailStep
<1>4. CASE WorldStep
  BY <1>4, WorldOK
<1>5. CASE UNCHANGED vars
  BY <1>5 DEF vars, journal, world, config, TelegramInv, TypeOK, Placed, Reserved, Settled, Told, TextOf,
     NoReplyLost, OnlyGroupHeld, Group, Chat
<1> QED
  BY <1>1, <1>2, <1>3, <1>4, <1>5 DEF Next

(* The inductive invariant holds in every state the relay reaches.          *)
THEOREM Invariant == Spec => []TelegramInv
<1>1. Init => TelegramInv
  BY InitInv
<1>2. TelegramInv /\ [Next]_vars => TelegramInv'
  BY NextInv
<1> QED
  BY <1>1, <1>2, PTL DEF Spec

-----------------------------------------------------------------------------
(* What the relay guarantees                                                *)

(* The journal, the cursors, the mailbox and the process are typed.         *)
THEOREM TypeCorrect == Spec => []TypeOK
<1>1. TelegramInv => TypeOK
  BY DEF TelegramInv
<1> QED
  BY <1>1, Invariant, PTL

(* A reply reaches its chat at most once, over failed calls, faults and      *)
(* restarts.                                                                *)
THEOREM RepliesGoOnce == Spec => []SentOnce
<1>1. TelegramInv => SentOnce
  BY DEF TelegramInv, Reserved, SentOnce
<1> QED
  BY <1>1, Invariant, PTL

(* What the mailbox cursor passed was sent and acknowledged, or is held.    *)
THEOREM RepliesAreKept == Spec => []NoReplyLost
<1>1. TelegramInv => NoReplyLost
  BY DEF TelegramInv, Settled
<1> QED
  BY <1>1, Invariant, PTL

(* What was acknowledged to the hub was taken by Telegram.                  *)
THEOREM AcknowledgedIsSent == Spec => []AckedWasSent
<1>1. TelegramInv => AckedWasSent
  BY DEF TelegramInv, TypeOK, Reserved, AckedWasSent
<1> QED
  BY <1>1, Invariant, PTL

(* Only replies to a group are held.                                        *)
THEOREM HeldIsGroup == Spec => []OnlyGroupHeld
<1>1. TelegramInv => OnlyGroupHeld
  BY DEF TelegramInv, Settled
<1> QED
  BY <1>1, Invariant, PTL

Handed(u) == TextOf(u) \in Text /\ intent[TextOf(u)] = "accepted"

(* The step that moves the cursor of the updates passes the update the      *)
(* process is at.                                                           *)
LEMMA CursorStep ==
  ASSUME TelegramInv, [Next]_vars, cursor' # cursor
  PROVE  /\ cursor' = proc.at /\ proc.at = cursor + 1 /\ proc.at \in Update
         /\ Passed(proc.at) \/ Handed(proc.at)
<1>1. (Admit \/ Receive \/ AdvanceUpdates) /\ Advance
  <2>1. CASE LocalStep
    BY <2>1 DEF LocalStep, Start, ConfigurationChanged, ReplyRefused, ReplyReserve,
       SendUnknown, SettleReply, AdvanceMailbox, UpdateRead, Admit, Receive, Settle,
       AdvanceUpdates, journal
  <2>2. CASE CallStep
    BY <2>2 DEF CallStep, ReadInbox, Poll, Acknowledge, Send, Submit, journal
  <2>3. CASE FailStep
    BY <2>3 DEF FailStep, CallFails, SendFails, SubmitFails, Kill, journal
  <2>4. CASE WorldStep
    BY <2>4 DEF WorldStep, OwnerWrites, AgentWrites, ChangeConfiguration, Revoke, Enroll, journal
  <2>5. CASE UNCHANGED vars
    BY <2>5 DEF vars, journal
  <2> QED
    BY <2>1, <2>2, <2>3, <2>4, <2>5 DEF Next
<1>2. proc.pc \in UpdatePc
  BY <1>1 DEF Admit, Receive, AdvanceUpdates, UpdatePc
<1>3. proc.at = cursor + 1 /\ proc.at \in Update
  BY <1>2, Where DEF TelegramInv, Placed
<1>4. Passed(proc.at) \/ Handed(proc.at)
  <2>1. CASE Admit
    BY <1>1, <2>1 DEF Admit, Advance
  <2>2. CASE Receive
    <3>1. CASE ~ Usable(KindOf[proc.at])
      BY <1>1, <2>2, <3>1 DEF Receive, Advance, Usable, Passed
    <3>2. CASE Usable(KindOf[proc.at])
      BY <1>1, <1>3, <2>2, <3>2, TextHere DEF Receive, Advance, Usable, Handed, TelegramInv
    <3> QED
      BY <3>1, <3>2
  <2>3. CASE AdvanceUpdates
    BY <2>3 DEF AdvanceUpdates, Handed, TelegramInv, Told
  <2> QED
    BY <1>1, <2>1, <2>2, <2>3
<1> QED
  BY <1>1, <1>3, <1>4 DEF Advance

(* An owner's text is passed only when the hub has it, it is a group's      *)
(* without an active binding, or the configuration has just changed.        *)
THEOREM TextsAreNotLost == Spec => OwnerTextPassed
<1>1. TelegramInv /\ [Next]_vars =>
        [\A u \in Update : cursor < u /\ u <= cursor' =>
           \/ Passed(u)
           \/ TextOf(u) \in accepted /\ intent[TextOf(u)] = "accepted"]_vars
  <2> SUFFICES ASSUME TelegramInv, [Next]_vars, NEW u \in Update, cursor < u, u <= cursor'
               PROVE  \/ Passed(u)
                      \/ TextOf(u) \in accepted /\ intent[TextOf(u)] = "accepted"
    OBVIOUS
  <2>1. cursor \in Nat /\ u \in Nat
    BY Numbers DEF TelegramInv, TypeOK, Update
  <2>2. cursor' # cursor
    BY <2>1
  <2>3. u = proc.at
    BY <2>1, <2>2, CursorStep
  <2> QED
    BY <2>2, <2>3, CursorStep DEF TelegramInv, Told, Handed
<1> QED
  BY <1>1, Invariant, PTL DEF Spec, OwnerTextPassed
=============================================================================
