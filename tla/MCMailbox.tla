------------------------------ MODULE MCMailbox ------------------------------
(* Instances of Mailbox for TLC: a sender, and incarnations of one Codex     *)
(* conversation that receive.                                                *)
EXTENDS MailboxProps, TLC

CONSTANTS Sender, A, B, C, M, R, R2, Clients, Agents, Thread, Chat, T1, T2

Solo   == {Sender, A}
Pair   == {Sender, A, B}
Trio   == {Sender, A, B, C}
One    == {M}
Two    == {M, R}
Three  == {M, R, R2}

SoloParty  == [e \in Solo |-> IF e = Sender THEN Clients ELSE Agents]
SoloNative == [e \in Solo |-> IF e = Sender THEN Chat ELSE Thread]
PairParty  == [e \in Pair |-> IF e = Sender THEN Clients ELSE Agents]
PairNative == [e \in Pair |-> IF e = Sender THEN Chat ELSE Thread]
TrioParty  == [e \in Trio |-> IF e = Sender THEN Clients ELSE Agents]
TrioNative == [e \in Trio |-> IF e = Sender THEN Chat ELSE Thread]
Replies    == {R, R2}
OneReply   == {R}
JustSender == {Sender}
SenderAndA == {Sender, A}
SenderAndC == {Sender, C}
Tokens     == {T1, T2}
Claims     == Permutations(Replies) \union Permutations(Tokens)
JustA      == {A}
AB         == {A, B}
ABC        == {A, B, C}
Incarnations == Permutations(ABC)
Surfaces == Permutations(AB)
BothParties == {Clients, Agents}
=============================================================================
