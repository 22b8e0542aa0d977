# A verification of tproj's messaging core

tproj runs AI agents (Claude Code, Codex, remote and service agents) in tmux
panes and lets them exchange messages and formal tasks. What has to be right
under concurrency, crashes, retries and lost calls is the "unified" messaging
runtime in `src/extensions/messaging/unified/`. This directory models it in
TLA+, checks the models with TLC and proves their main properties with TLAPS.

Contents: [the system](#the-system) · [modules](#modules) · [runs](#runs) ·
[bounds](#bounds-and-why-they-are-enough) · [fairness](#fairness) ·
[proofs](#proofs) ·
[where code and documents disagree](#where-code-and-documents-disagree) ·
[not modelled](#not-modelled) · [plan](#plan)

## The system

One broker process per host owns a SQLite database (WAL), the *hub*, and serves
requests on a Unix socket. A host process beside it finds the agents of that
host, keeps their registrations alive, takes their requests and delivers their
messages. Hosts are joined by SSH.

| part | state it keeps | operations | correct when | modelled in |
|---|---|---|---|---|
| mailbox hub, `hub.py` | endpoints, attestations, messages, receipts, delivery owners, claimed work | register, heartbeat, attest, retire, hand off, submit, claim, begin_present, receipt, cancel, receive_work, receive_finish | a message is given to at most one adapter, once, and never once it was cancelled; receipt, owner and reservation agree | `Mailbox` |
| recipient preference, `recipient.py` | a chosen surface per participant, with a revision | observe, select, clear, presentation fence | only the chosen surface or its successor presents | `Mailbox` |
| task ledger, `tasks.py`, `task_transport.py` | status, owner, executor, epoch, hand-off, tool operations, assignments | submit, acknowledge, progress, done, block, verify, report, cancel, freeze, tool calls, four hand-off steps, resume | one writer at a time, changes of executor by consent, no tool call twice | `TaskAuthority` |
| federation, `federation.py` | an outbox row per message to another host | submit, flush, retry loop, cancel; peer accept, peer cancel | two hubs keep the promise one hub makes | `Federation` |
| submission queue, `submission_queue.py`, `host.submit` | a journal of submissions and deferred work | direct submit, enqueue, worker, cancel, restart | work is submitted once; a cancellation is final; nothing goes round for ever | `SubmissionQueue` |
| host adapter, `host.py`, `receipt.py` | the delivery journal | tick, injection, acknowledgement, prompt hook, restart | nothing is pasted twice; what the sender is told is true | `HostDelivery` |
| native route, `native_*.py` | references in a conversation's queue, reservations, contexts | publish, look up, resolve, recover | a body is returned once and only when granted; no wake is lost | `NativeJournal`, `NativePublication`, `NativeConsumer`, `Native` |
| task host, `task_host.py` | bindings, markers, detach receipts, refused tool ids | resume, accept, detach, release, reconcile | bindings follow the ledger through late and dying requests | `TaskHost` |
| Telegram relay, `telegram_*.py` | cursors, intents, replies, holds | poll, admit, submit, send, acknowledge | no text or reply lost, none sent twice | `Telegram` |
| repository writes, `repo_write.py` | the tree, an index, a record per patch | write, undo, revert | the owner's text is kept; a patch is applied once and whole | `RepoWrite` |
| server, `protocol.py` | slots of running requests | serve_socket | bounded concurrency | constant `Slots` of `Mailbox` |
| directory and enrolment, `directory.py`, `enrollment.py` | an address directory with a pending change | prepare, commit, abort | all hosts agree on a revision | [not modelled](#not-modelled) |

The other components (CLI, shell runtime, relays, bridge, MCP servers, hooks,
desktop application, configuration) are listed with their reasons in
`PROJECT.json`; they render, translate or supervise.

How they interact. Agents and services call their host, which calls its hub; the
hub calls neither. A host polls with `claim`, and asks `begin_present` for
permission before any irreversible injection. Hubs call each other over SSH with
`peer_*` requests; the caller's row in its own database is what survives a lost
answer. The task ledger lives in the hub of one host; the hosts of executors
cache what they need of it. The Telegram relay is a service of its host.

What is hard:

- The plain hub serves one request at a time. A hub with a `host_id` serves up
  to 16 at once, each with its own connection. Handlers that open
  `BEGIN IMMEDIATE` stay atomic; those that read and write in separate
  statements (`register`, `attest_native`, `endpoint_retire`,
  `delivery_status`, every path of `federation.py`) do not.
- A host's delivery thread, submission worker and request threads share a
  journal and commit statement by statement.
- A call that its caller gave up may still be served. Every process may be
  killed between two statements.
- Incarnations: an agent's process is replaced at any time, and messages,
  reservations, replies and tasks pinned to the old one go to the successor,
  become stale, or must be refused.
- Effects that cannot be taken back: text pasted into a terminal, a body
  returned to a conversation, a Telegram message, a renamed file.

## Modules

    DeliveryPromise          what a sender is promised of one message
      ^ refined by Mailbox        (MailboxProps, MailboxProofs, MCMailbox)
      ^ used as the destination's mailbox, and refined end to end,
        by Federation             (FederationProps, FederationProofs, MCFederation)
      ^ refined by HostPath, and by Native for each message
    TaskFence                the executor as holder of a fencing token
      ^ refined by TaskAuthority  (TaskProps, TaskProofs, MCTask)
    TaskMaster               the ledger as a host meets it; every step of
      ^                      TaskAuthority is one of it
      TaskHost               an executor's host beside it
                                  (TaskHostProps, TaskHostProofs, MCTaskHost)
    HostHub                  the hub as a host meets it; every step of Mailbox
      ^                      is one of it
      SubmissionQueue, HostDelivery
        HostPath             both beside one hub   (HostProps, HostProofs, MCHost)
    NativeJournal            the hub and the journal of the native route
      NativePublication, NativeConsumer
        Native               both in one host      (NativeProps, NativeProofs, MCNative)
    Telegram                      (TelegramProps, TelegramProofs, MCTelegram)
    RepoWrite                     (RepoProps, RepoProofs, MCRepo)

`X.tla` has constants, state and one action per handler or per step between two
commits; `XProps.tla` the properties and the refinement mapping; `XProofs.tla`
the theorems; `MCX.tla` the instances of the runs. The code a definition
translates is in `PROJECT.json` under "map". Beside some definitions stand
variants named for what they drop (`WaitingOrUnsure`, `FlushForever`, ...):
plausible bugs, each of which breaks the property it is listed with.

### Mailbox

State: the tables of `hub.SCHEMA`, one variable per column that decides
something (`epState` is `endpoints.retired` and whether the row exists; `owner`
is `native_delivery_owners`; `reserved`, `handed`, `work`, `finished` are
records the code keeps in `metadata`). `begun` and `presenter` are history: how
often and for whom `begin_present` succeeded.

A handler in a transaction is one action. `RegisterCheck`/`RegisterWrite`,
`AttestCheck`/`AttestWrite`, `RetireMark`/`RetireSweep` and
`StatusCheck`/`StatusWrite` are the handlers that are not; between the two the
request is in `inflight`, which holds at most `Slots` requests. `Slots = 1` is
the plain hub, `Slots > 1` the concurrent broker. `HubCrash` empties `inflight`.
Time is four lapses: heartbeat (30 s), observation (120 s), claim lease (300 s),
TTL. An endpoint stands for one incarnation, because registration refuses to
give an endpoint a second one.

### TaskAuthority

One task, as tasks never meet. Every request is one transaction, so one action;
a request that names another epoch than the current one changes nothing and is
left out. Any endpoint may send any request at any time, however long ago it was
authenticated, which covers late and reordered requests. `Attest` collects
evidence of continuation (`_resume_continuity`), which may be used much later.

### Federation

State of the sender's hub: `row`, `acceptance`, `place` (the outbox row, its
acceptance state and its rowid, which decides what `LIMIT 8` reads), `copy` (the
sender's own message row), `batch` (the rows the retry loop has read), `calls`
(what each thread is doing). State of the destination: `phase` and `grants` of
`DeliveryPromise`: `Federation` does not copy the mailbox of the destination but
uses its promise, which `Mailbox` is proved to keep. `late` are requests whose
caller gave up and which may still be served.

The steps of a thread are its statements: read and call (`Resubmit`,
`TickFlush`, `Cancel`), the call served (`Serve`, or `GiveUp` and later
`ServeLate`), the outbox update (`FinishAccept`, `FinishCancel`), the message
update (`WriteCopy`). `peer_cancel` is served in two steps, because its accept
and its cancel are separate transactions. `Crash` kills the sender's hub between
any two of them.

### HostHub, SubmissionQueue, HostDelivery, HostPath

`HostHub` is the hub reduced to what a host can tell apart: which states each
request is accepted in and which it leaves (`Accepts`, `Result`), and that a
request given up by its caller is served later or never (`late`).

`SubmissionQueue` has the tables `submissions` (`journal`) and `submission_work`
(`work`, `tried`, `overdue`), a direct `submit` between its statements
(`request`), and the worker thread (`worker`). An id takes the direct or the
deferred route for ever. After a restart what was `dispatching` is held.

`HostDelivery` has the `deliveries` rows (`row`), the delivery thread (`tick`)
and the acknowledgements and prompt hooks of the agent (`receipt`); `pasted`
counts the injections. The window the code protects is `TickGate` (the hub's
gate), `TickJournal` and `TickPaste`; a restart turns `dispatching` into
`uncertain`, which is never pasted again.

`HostPath` puts both beside one hub, from the service that submits to the agent
that reads, and lets one kill interrupt both.

### NativeJournal, NativePublication, NativeConsumer, Native

The route for Codex conversations that take references from a queue of their
own. The host journals a message, has a child process add a reference to it
(`NativePublication`; `job` is the child, `queue` the references), and a hook
that meets the reference asks for the bodies (`NativeConsumer`; `hook`). A hook
reserves every body in the journal, asks the hub, and only then returns a
context, which the delivery thread finds in the transcript and reports
(`Native`). The endpoint may be replaced once, by a process that resumed the
conversation; `handed` are the messages it inherits.

The agent may also read a message in its inbox and acknowledge it (`Ack`): the
host then writes `presented` into the journal, whatever route the row takes and
whatever its publication is at, and only after that asks the hub for the receipt,
which may be lost, refused or served late. A row without a reference
(`owned` is false: `native_consumer.owns`) has that receipt sent again by every
tick; one with a reference has not. `acked` is history. A row that stays
`dispatching` for 30 seconds is written over as `uncertain` (`MarkUncertain`), a
statement after it was read, so an acknowledgement in between is overwritten.
`Look` may leave a row alone for its 30 seconds of backoff. The list of the queue
comes in pages; one that is not the last and does not show the message is counted
as a fault (`ChildFails`).

### TaskHost

Bindings per endpoint (`binding`), one marker file per conversation (`marker`),
detach and release receipts, refused tool ids (`fenced`). Each transaction, file
operation and call of the task master is a step of the request (`request`), and
`Fail` may end it at each. The ledger is `TaskMaster`: `TaskAuthority` reduced to
what the requests read, for several tasks. A task that is neither frozen nor over
is "accepted" there; owners are left out, but not what they do to the epoch (a
resume by the owner ends it too, `ResumesElsewhere`). `Elsewhere` are the
endpoints of other hosts. `over`, `raced` and `mixed` are
history: assignments whose row was removed, conversations whose marker was
removed beside a new row, rows a late request overwrote. The last two are known
limits of the code (below) and the only exceptions the properties make.

### Telegram

One process: a page of mailbox items, then a page of updates. `proc` is the
statement it is at; it stops at the first error and may be started again. Each
effect is reserved in the journal (`intent`, `reply`) before it is tried, and
what may have happened is never done again. A reply that may not be sent to a
group is held; hold and cursor commit together, so the code's test for a held
item in front of the cursor never succeeds, and has no action. An owner's binding
has a generation, which is part of a text's message id (`TextOf`): the operator
may revoke it, remove it or enrol it again (`Enroll`), and the process knows the
one it started with (`enrolled`, 0 for a group it has no relay for). What
`deliver_reply` never sends (`Unsendable`: a body Telegram does not take, or an
answer to a text of another generation) stops the process, as does an item that
answers no text (`Stray`).

### RepoWrite

The tree, the last commit, the index of what the service wrote, the records of
patches, the project's lock. A write looks at the tree, plans, renames file by
file, saves the index and the record, and undoes on failure; a revert restores.
The owner edits and commits at any time. `committed`, `ours`, `origin` and
`touched` are history.

## Runs

| run | instance | what it shows |
|---|---|---|
| MailboxConcurrent | a sender and one recipient, 1 message, 2 requests at once, kills, maintenance open/stopped/probe, every receipt | the hub refines the promise, on the concurrent broker (`PromiseKept`) |
| MailboxHandoff | a sender and 3 incarnations of a Codex conversation, 1 message, serial hub, every receipt, TTL | presenter, owner and sweep agree over chains of two hand-offs |
| MailboxWork | 1 message, 2 competing replies, 2 claims with leases | a prepared reply wins; finished work is silent |
| MailboxSurfaces | 2 TUI surfaces and a headless one, a choice, 1 message and its reply | only the chosen surface or its successor presents; nothing answered is presented again |
| TaskLedger | 2 incarnations of one conversation, of which one retires, and an owner; 1 tool call each, 3 epochs | hand-offs against resumes; results, detaching, consent; the fence (`FenceKept`) |
| FederationCancel | 1 message, a request thread and the retry loop, 1 kill, 1 late request | what the sender is told is true; the promise, end to end (`EndToEndKept`) |
| FederationSettles | 2 messages, one to a host that never answers, 1 row per tick, 1 kill | no row stays pending, under `FairSpec`, without cancellations |
| HostPath | 1 message by either route, 1 kill, 1 late request, cancellation, a revoked binding, the agent's own receipts | submitted once, pasted at most once and in the order `DeliveryPromise` allows (`PastedAsPromised`), a confirmed cancellation is final, `presented` is true; work ends and the sender is told, under `FairSpec` |
| Native | 2 messages in a context; or 2 hooks and a fault; or a hand-off and a fault; or a hand-off and an acknowledgement | each body is returned as `DeliveryPromise` says and only when granted (`ReturnedAsPromised`), receipts are true, one reference at a time; no wake is lost and every recorded context is told, under `FairSpec` |
| TaskHost | 2 processes of one conversation, 2 tasks, 2 requests at a time, each able to die at every step; 5 cases | what is removed was over; what was accepted is bound, marked, fenced |
| Telegram | a private and a group text, 2 items, and any 2 of: a kill, a binding revoked or enrolled again, another changed configuration, an item that is never sent | no reply is sent twice or lost, no text is passed unseen; updates pass, under `FairSpec` |
| RepoWrite | 3 patches of 2 writers on 2 files, 2 threads, 3 requests, 1 edit, 1 kill, commits, failing steps | the owner's text is kept, private text stays private, a patch is applied once and whole, a revert is exact |

Deadlock is not checked: every one of these systems may come to rest. No run
checks a type invariant: each is proved.

### Bounds, and why they are enough

- *Messages.* Handlers touch one message; messages meet in a reply and its
  original (two), in a prepared and a competing reply (three), in the retry loop
  (two, with `Limit` 1 standing for 8), in a context of two bodies, and in the
  pages of Telegram. Chains of hand-offs longer than two repeat the same step.
- *`Slots` 2, two threads, two hooks.* The handlers that are not atomic are a
  check and one write, so a conflict needs two of them.
- *`MaxEpoch` 2.* Epochs 0, 1 and 2: to the other executor, and back.
- *Kills, late requests, faults, edits: 1.* The first falls between any two
  steps. Telegram has `MaxFaults` 2 of any kinds, so that a configuration that
  changes meets a kill, or an item that stops the process.
- *`Cases` of TaskHost and `Limits` of Native* name combinations of what goes
  wrong; a behaviour takes one, so that each is explored to its end.
- *`Steady`, `Expiring`, `Reports`, `Cancelled`, `Reachable`, `Owners`,
  `Retiring`* name the endpoints or messages a run leaves to their bad luck.
- Symmetry is used only for values the constants do not tell apart, and in no run
  with a liveness property.

The theorems hold for any number of all of these.

### Fairness

Nowhere are kills, faults, senders, owners or agents assumed to act, save where
named here.

- *Federation.* The retry loop runs every two seconds (`hub.main`), a call
  returns or is given up after 30 (`federation.remote`), a thread that has an
  answer goes on, and time passes. The destination need not answer.
- *HostPath.* The delivery loop and the submission worker of `host.main` run for
  ever (weak). The worker's query, and receipts to the hub, are tried again and
  again, and a hub that is up answers one of them (strong).
- *Native.* The loops of the host run; a child ends; the conversation takes its
  references and its hooks finish (weak); a row that stays `dispatching` is
  eventually seen after 30 seconds, and one in backoff after its own 30 (strong). `WakeNotLost` is about a
  conversation that goes on: nothing in the host could replace its attention.
- *Telegram.* The process is started again by its supervisor and goes on while it
  runs; polling, reading the inbox and acknowledging succeed once if tried again
  and again (strong). Sending and submitting only end, in either way.

`Mailbox`, `TaskAuthority`, `TaskHost` and `RepoWrite` have no liveness
properties: the code promises progress to nobody who does not ask again.

## Proofs

All theorems hold for every value of the constants that satisfies the modules'
named assumptions: constants have their types, NULL is no identifier, what is
counted is finite. TLC evaluates each on the runs.

- **Mailbox.** `GrantInv` is inductive with `TypeOK`: for each message, one
  that is unstored, waiting or cancelled was never begun and has no final
  receipt; it was begun at most once; if begun, its presenter is its delivery
  actor; and a reservation names the current owner. No single part is inductive:
  that nobody else's receipt counts needs the actor, that the actor stays needs
  that only waiting messages are handed on, and that needs that waiting ones were
  never begun. `HubKeepsPromise` maps every step to a step of `DeliveryPromise`
  or a stutter. `WorkInv` (a reply is prepared under a claim; what is finished
  is stored, unanswered and unprepared) gives `FinishedStaysSilent` and
  `PreparedReplyStays`; both rest on `RowStep`: rows are immutable but for their
  state, and only an admitted submission adds one. `ChosenSurfaceOnly` needs no
  invariant beyond types. Three theorems say exactly when a weaker statement
  holds: `RetiredWorkTold` if the process is not killed, and
  `SerialRetiredForever`, `SerialReceiptsStay`, `SerialAnsweredNotBegun` if
  `Slots = 1`. The last ones use `SerialInv` (one handler between check and
  write, and its check still holds) and `HeirInv`: who answered in the
  recipient's place is the only live endpoint of its surface the message can
  still go to.
  `OwnersFollow` is about chains of hand-offs: the recipient's heirs are a
  recursive function on the naturals (`Heirs`). `OwedInv` says of each message
  that its delivery actor is the heir whose number is the owner's generation; a
  hand-off adds a link at the end of a chain and changes none before it
  (`HandoffExtends`). The library's induction takes a predicate, which the
  provers cannot instantiate, so `Induction` is proved over sets of naturals,
  from the least number outside such a set.
  `HubMeetsHosts`: each step of the hub is, for each message, a step of `HostHub`
  or none, so what is proved of the hosts holds beside this hub. Its hypothesis,
  `Reports` within presented, uncertain and waiting, is what a host's journal
  reports (`host.py:1321`); what a service reports of the messages it claimed
  itself (`host.py:1053`) may be more.
- **TaskAuthority.** `FenceInv` (a pending hand-off is current, every open
  operation is the executor's of this epoch, finished tasks are quiet, nothing
  exists before submit) gives `OneWriter`, `HandoffsAreCurrent`,
  `ResultsAreQuiet` and `LedgerIsFence`. `HistoryInv` (evidence names retired
  incarnations of one conversation, a hand-off's phase is the consent of both
  sides, a result is the executor's, who handed over is recorded) gives
  `ResultsAreOwn`, `ExecutorsConsent`, `FormerExecutorsDetach`.
  `LedgerMeetsHosts`: seen by any host (`TaskView`: any set of endpoints that
  conversations do not leave), each step is one of `TaskMaster` or changes
  nothing there. It needs `HistoryInv` (evidence names former endpoints of the
  same conversation, so the former one is on the same host). Stating it found an
  error of an earlier `TaskHost`, whose ledger had no resumes by owners and other
  hosts. The exception is `begin_operation`, which `task_host.py` refuses.
- **Federation.** `FedInv`: the mailbox only moves forward (`Stable`), so an
  answer that was true when it was given is true when its caller uses it,
  however late (`Truth`); rows follow from answers. `HubsKeepPromise` is the
  refinement of `DeliveryPromise` by two hubs.
- **HostPath.** `HostInv`: no step takes the hub's message back, and what
  happens there was asked by the step or by a late request (`Moved`). So the
  gate opens once (`Window`), whatever says presented has evidence (`Evident`),
  and what nobody tried is not at the hub (`Untried`, `Unsent`). Evidence has to
  be kept for every copy of a report, the late ones included, which is why no
  part stands alone. `TerminalKeepsPromise` maps the journal and the terminal to
  `DeliveryPromise`: the paste is the presentation.
- **Native.** `NativeInv`: the hub grants a message once, and only to an ask
  whose reservation was journaled before (`Fenced`), so one hook at most holds
  its body (`Bodies`); receipts follow the transcript or an acknowledgement
  (`Context`), also those that are served late, which is why what was asked
  belongs to the invariant; a reference is added when there is none (`Added`). `BodiesKeepPromise` refines
  `DeliveryPromise` for each message: the body's return is the presentation.
- **TaskHost.** `HostInv`: the ledger only goes forward (`Forward`), so what a
  request read is still true, or more so, when it writes (`Sound`, `Passed`);
  rows are written before the ledger can need them and removed when it has
  passed them. The four properties of the run are themselves parts of it.
  `LedgerIsServed`: the requests change the ledger only by steps of `TaskMaster`.
- **Telegram.** `TelegramInv`: the process is right behind its cursor
  (`Placed`); what is not reserved was not sent, what is called accepted was
  (`Reserved`, `Told`); so the step that moves a cursor passes one item, and the
  journal says why (`Settled`).
- **RepoWrite.** `RepoInv`: under the lock, what a request found stays so but for
  the paths the owner touched since; its step says what it has put (`Progress`);
  what index and records hold was put once (`Stored`).

Proved but in no run, because they are parts of the invariants above: the type
invariants, `CancelledNeverShown`, `ReservationCurrent`, `PresentedAtMostOnce`,
`PendingIsCurrent`, `FinishedIsQuiet`, `NoToolRunsTwice`, `TerminalForever`,
`DeliveredIsThere`, `CommittedIsThere`, `AckedWasSent`, `OnlyGroupHeld`,
`GrantIsFenced`, `JournalAgrees`, `ClosedWasFinished`, `BindingNotReplaced`,
`PastedOnce`, `ReturnedOnce`. `MeetsHosts`, `MeetsTaskHosts` and `LedgerServed`
compose modules and are proved only.

`RetiredForever` and `ReceiptNeverRegresses` are in no run because they fail on
the concurrent broker; proved for the serial hub.

Model-checked only: `PendingSettles`, `PendingEnds`, `UncertainIsTold`,
`WakeNotLost`, `RecordedIsTold` and `UpdatesPass`, because liveness under
fairness is out of the prover's reach.

## Where code and documents disagree

Met while modelling. The statements with a name are defined in the last sections
of `MailboxProps` and `FederationProps`; no run checks them, for they do not
hold of every configuration.

- *Revived endpoints* (`RetiredForever`). `register` reads the endpoint and
  later upserts it with `retired=0` (`hub.py:391`), without a transaction. With
  concurrent requests an `endpoint_retire` can commit in between.
  `unified-messaging.md:718`: "Retired identities are never revived".
- *Sibling surfaces.* `begin_present` looks for an answer of the recipient and
  of the presenter (`hub.py:1049`), a hand-off for one of any incarnation of the
  conversation (`hub.py:274`). A message handed to the headless surface before
  its TUI successor answered is therefore still given to the headless one.
  `NothingBegunAfterReply` is about answers on the presenter's own surface.
- *Receipts* (`ReceiptNeverRegresses`). `delivery_status` (`hub.py:1105`)
  replaces a receipt by a state it read before, against `hub.py:1011`, "receipt
  state cannot move backwards". Concurrent broker only.
- *Retirement.* `endpoint_retire` is two commits (`hub.py:1299`): a kill between
  them leaves work pinned to a retired endpoint. Its sweep matches the original
  recipient, so a message handed on to the retired endpoint stays pending until
  its TTL (`TransferredWorkIsStale`).
- *Forgotten cancellation* (`CancelNotForgotten`, `CancelRetried`). `flush_one`
  ends with `state='delivered'` (`federation.py:573`) whatever the row says by
  then; a cancellation made meanwhile is dropped, though the message is unread.
  `message-cancellation.md:17`: "Durable recovery retries the same cancellation
  ID and never resends content." The second half fails too (`NeverResent`): the
  retry loop flushes a row it read before the cancellation; the destination's
  tombstone makes that harmless.
- *Starved rows.* `tick` reads 8 rows without rotation (`federation.py:579`).
  Eight cancellations for a host that never answers occupy it for good. Messages
  expire and make room, cancellations do not: that is why `PendingSettles` is
  checked without cancellations.
- *Outcomes* (`OutcomeStored`). `too_late` marks the row delivered without an
  acceptance state (`federation.py:602`), against `unified-messaging.md:682`.
- *Serialized dispatch* (`TombstoneFirst`). The comment at `federation.py:773`
  relies on it, and the federated broker is concurrent.
- *Task bindings.* A late resume replaces a newer binding of the same
  conversation (`task_host.py:366`), and an accept whose check was overtaken
  updates only the epoch of another task's row (`task_host.py:617`, `642`):
  `mixed`. `unified-tasks.md`: "A different current binding is never
  overwritten". An accept the master refuses leaves a row that no detach removes
  (`task_host.py:630`).
- *Task markers.* Cleanup unlinks after a check that may be stale, and
  `task_release_cancelled` without one (`task_host.py:533`, `545`, `593`):
  `raced`. `unified-tasks.md`: "while refusing cleanup if a new binding
  appeared".
- *Repository writes.* A failure or a kill after the last rename leaves files
  without a record (`repo_write.py:326`); a revert that fails halfway stays
  partial, against the comment "a revert is all or nothing too"
  (`repo_write.py:362`); a patch that was reverted is answered "applied" when
  repeated; an edit between check and rename is overwritten. `touched` and the
  exceptions of `AllOrNothing` are these.
- *Native acknowledgements.* The explicit `ack` writes `presented` into the
  journal before it asks the hub, and does not look at the route
  (`host.py:1079`), against `unified-messaging.md:919`: "Local reconciliation stays
  `dispatching`/`uncertain` until the authoritative Hub confirms `presented`".
  `JournalAgrees` therefore says so only of what was not acknowledged. When
  its receipt is lost, nothing tells the hub again of a row with a reference: the
  page of `host.py:1167` leaves it out, and the native branch passes it
  (`host.py:1250`). `Unrepeated` is this exception of `WakeNotLost` and
  `RecordedIsTold`.
- *Native ticks.* A transferred row that can never be bound ends every tick of
  its endpoint, and with it the visits of all its other messages; so does one
  that was acknowledged before it had a reference and then handed on, whose
  receipt the hub refuses (`Stuck`).
- *Overwritten rows.* `mark_uncertain` updates the row whatever it holds
  (`host.py:135`); the sender of an acknowledged message may be told `uncertain`
  first.
- *Delivery.* A row `mark_uncertain` wrote over an acknowledgement is refused by
  the hub in every tick, and ends the visit of the rows behind it (`Refused`).
- *Telegram.* A configuration that changes between the two times `receive_once`
  reads it passes an update unseen (`Passed`). A reply of more than 4096
  characters, or one to a text of an earlier generation of its binding, raises
  (`telegram_ingress.py:460`, `466`), is not held even for a group, and stops the
  process at every restart, with all updates behind it (`ItemBlocked`). A text
  that Telegram offers again after its binding was enrolled again has another
  message id, and may reach the agent a second time.

## Not modelled

- Bodies, addresses, policies, enrolment and identity checks: their verdict is a
  guard or a refusal. SQLite, SSH, tmux and the clock are trusted to do what
  their callers expect.
- *Mailbox*: the native drain watermark, which nothing reads back; directory
  import; pruning; the read-only views; the recovery grants of `recipient.py`,
  which read and answer one message under an operator's token.
- *Federation*: destination resolution before the first commit, aliases, peers no
  longer enrolled. A cancellation the destination refuses for ever stays
  pending; the model has it, no property speaks of it.
- *Task ledger*: `binding_release_check` compares hosts and projects, a
  participant; the model compares conversations, as the host sends only former
  incarnations of the caller's own (`task_host.py`).
- *Host*: the request front of `main`, pane discovery, how a prompt is
  recognised in a terminal; `receipt.py` beyond what evidence it yields.
- *Task host*: the read-only views, the approval prompt, owner roles.
- *Repository access*: the read side and the grant policy, which are stateless
  checks. A write's own look at the tree, the index and git's lists
  (`repo_write.py:253`) is one step, and "tracked" is what the last commit has:
  an edit or a commit between these reads is seen by all of them or by none.
- *Directory and enrolment*: read, not modelled. The steps of an update are
  driven by an operator's command; `commit` checks a pending row's state outside
  its transaction, a lost answer to `prepare` leaves a row that blocks the next
  one, and a retry after the revision moved is an `id_conflict`
  (`directory.py:70`, `205`).
- Shell front ends, relays, bridge, MCP servers, hooks, desktop application,
  installation: I/O, rendering and translation around the parts above; see the
  notes in `PROJECT.json`.

## Plan

1. `Directory`: the two-phase change over hosts that are killed and unreachable,
   and the atomic change it should implement.
2. `RecoveryGrant` (`recipient.py`): grant, read, reply and revoke, against
   `Mailbox`'s hand-offs.
3. Done: `Mailbox` and `HostHub`, `TaskAuthority` and `TaskMaster`. Left: the
   hub of `NativeJournal`, which is still a reduced one of its own.

## Running

    tlc -config MailboxConcurrent.cfg MCMailbox.tla
    tlapm MailboxProofs.tla

Each run takes at most five minutes with two workers, each proof module at most
three.
