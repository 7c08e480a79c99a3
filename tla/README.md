# tim in TLA+: synchronisation, workspace locks, sessions

The repository holds `tim`, a workflow tool that keeps plans, workspaces and coding-agent
sessions in SQLite databases, with a command line, a SvelteKit web process and background
workers. A user may run it on several machines. One machine is the **main node**; the others
are **persistent nodes** (or transient workers) that send it operations and fetch its canonical
state. That synchronisation (`src/tim/sync`) is the part of the system whose correctness is
hardest to see from tests, and the part this project models in most detail. On one machine,
several runs of `tim` share workspaces under locks, and the web process shows the sessions of all
of them and answers their prompts; these are modelled too.

Paths in this document are relative to the repository's root unless they name a module.

## 1. Inventory

### 1.1 Synchronisation

| part | code | state | operations |
|---|---|---|---|
| operation engine of the main node | `apply_operation.ts`, `apply_batch.ts`, `apply_shared.ts`, `apply_conflicts.ts` | `sync_operation` rows, `sync_conflict`, `sync_sequence`, canonical tables | applyOperation, applyBatch, persistRolledBackBatchRejections, resolveSyncConflict, clear-rejected |
| queue of a persistent node | `queue.ts`, `statuses.ts`, `result_transitions.ts` | `sync_operation.status` (queued, sending, failed_retryable, acked, conflict, rejected), `tim_node_sequence` | enqueue, list, mark sending, apply results, fail, reset stranded rows |
| WebSocket client, runner | `ws_client.ts`, `runner.ts`, `result_application.ts` | connection, the flush in progress, waiters, suspended handlers | connect/hello, flush loop, catch-up, invalidate, snapshot merge, sequence poll, reconnect; the `tim sync` commands over HTTP |
| server of the main node | `server.ts` | sockets | op_batch, batch, catch_up_request, snapshot_request, sequence_status_request, broadcast |
| log retention, bootstrap, cursors | `retention.ts`, `bootstrap.ts`, `src/tim/db/sync_tables.ts` | `sync_sequence`, `tim_node_cursor` | prune by cursor and age, advance, bootstrap rows |
| identity of projects | `write_router.ts`, `project_delete.ts`, `snapshots.ts`, `src/tim/db/project.ts` | the project table of each host, the announced flag | make up a UUID, announce, match by UUID or repository, adopt, delete |
| writes on the main node | `write_router.ts`, `sequence_repair.ts` | `tim_node_sequence` | route an operation or a batch, repair unused numbers |
| projection and settings | `projection.ts`, `operation_fold.ts`, `conflicts.ts`, ... | canonical and projected tables, setting revisions | fold active operations over canonical rows, merge |
| artifact transfer | `artifact_transfer.ts`, `artifact_scheduling.ts`, `src/tim/db/artifact_transfer.ts` | transfer rows with attempts | claim, transfer, retry, give up |
| authentication, keys, configuration | `auth.ts`, `config.ts`, `entity_keys.ts`, ... | none | parsing and validation |

How they meet. A command on a persistent node writes its projection and inserts operations in the
queue, in one transaction that takes their sequence numbers. Two processes may flush that queue:
the web process over a socket, and a `tim sync` command over HTTP. The main node's web process
serves both, one frame at a time, and decides every operation in a transaction of its own (or a
batch in one transaction); the results travel back and move the rows of the queue. Each mutation
adds a row to `sync_sequence`; the web process announces its own rows to the connected sockets. A
node fetches snapshots for the keys an announcement names, overwrites its canonical rows, rebuilds
its projection and advances its cursor. A node that connects asks for the rows past the cursor.

What makes it hard: frames are repeated when their verdict was lost; operations of one origin
must be applied in order although they are refused, deferred and rolled back one at a time; two
processes share the queue without a lock held across their awaits; handlers of the socket overlap
because they await snapshots; processes die between transactions; rows are pruned while nodes are
away; and other processes write the main node's database without sockets to announce it on.

What makes each part correct:

* **engine**: an operation is decided once; the log holds each origin's mutations in issue order;
  a batch is never found in part; a reported verdict is the recorded one.
* **queue and flush**: a row says what the main node did; no row stays in `sending` without an
  owner; every operation is settled in the end.
* **catch-up**: the cursor never runs ahead of what has arrived or is under way; copies never go
  back in time; no row is pruned that a node still needs; nodes converge.
* **projects**: all nodes that take part end with one UUID per repository; the main node does not
  return to a UUID it has left; work queued under an announced UUID is accepted; local state
  survives.

### 1.2 Workspace locks

A workspace is a clone of a repository in which a coding agent works. `workspace_lock` has at most
one row per workspace: a `pid` lock of a process, or a `persistent` one that stays until somebody
removes it. Operations: acquire (with takeover of a stale row and the transition between the two
types), three kinds of release, the stale check, the clean-up during selection
(`workspace_auto_selector.ts`), the sweep of the web process, and the exit handlers. A process
chooses a workspace (`--auto-workspace`, `--workspace`, the current directory, `workspace add
--reuse`), creates one if none is free, acquires the lock, sets the workspace up and works.

What makes it hard: every decision is taken on rows read earlier, the processes may die at any
step, a lock goes stale by age although its owner lives, and the user and the web process remove
locks as well. It is correct if two runs never work in one workspace, except where somebody took
the lock away by one of the ways meant for it.

### 1.3 Sessions

An agent keeps a bounded history of its output (`headless_adapter.ts`) and serves a socket; its
info file tells the web process where. The discovery client (`session_discovery.ts`) connects,
buffers, registers, retries and forgets; the session manager (`session_manager.ts`) rebuilds
output and prompts from the replay and passes answers back. A prompt (`input.ts`) waits for the
terminal, a timeout and the web at the same time.

What makes it hard: live frames follow the replay of an old history, answers get lost with the
connection, the old session stays in view until a reconnection is complete, and either process may
die at any time. It is correct if a prompt is shown once, while it waits, until its first answer,
and the session follows the agent.

### 1.4 The rest of the program

| part | code | behaviour worth modelling |
|---|---|---|
| plan assignments | `src/tim/assignments/`, `src/tim/db/assignment.ts` | claims of one plan by several users and workspaces |
| plans | `src/tim/plans*`, `ready_plans.ts`, `plan_materialize.ts`, `plan_merge.ts` | readiness over dependencies; materialised files merged back |
| agent and orchestration | `src/tim/commands/agent`, `lifecycle.ts`, `executors/` | drives external models and processes |
| log tunnel | `src/logging/tunnel_*.ts` | output and prompts of a child agent forwarded through its parent |
| launch locks, plan actions | `src/lib/server/launch_lock.ts`, `plan_actions.ts` | lock against its timeout |
| processes | `src/common/session_process*.ts`, `subprocess_monitor.ts`, `process.ts` | signals, operating system |
| webhooks, inbox, PR status, digests | `src/lib/server/webhook_*.ts`, `inbox_producer.ts`, ... | feeds merged into tables, idempotence per row |
| database | `src/tim/db/` | schema and SQL without control flow of its own |
| user interface, integrations | `src/routes`, `src/lib`, `src/common/github`, `linear.ts`, `slack`, `media-host`, `src/rmfilter` | presentation and clients of services |

`PROJECT.json` lists the same parts with their status, and the hazards with their lines.

## 2. Modules

| module | models | lines up with |
|---|---|---|
| `SyncApply` | the operation engine of the main node | one action per entry point |
| `SyncApplyProofs` | theorems about `SyncApply`: types, the order of the log, final and true verdicts, one effect per operation, whole batches | |
| `OpDelivery` | abstract: what synchronisation promises the author of an operation | |
| `SyncFlush` | queue, clients, wire and server around `SyncApply`; implements `OpDelivery` | one action per step between two awaits or transactions |
| `SyncFlushProofs` | theorems about `SyncFlush`, and that it implements `SyncApply` and `OpDelivery` | |
| `SyncCatchUp` | the log, cursors, sockets, snapshots, pruning and restarts | one action per frame handler |
| `SyncCatchUpProofs` | theorems about `SyncCatchUp`: types, nothing invented, rows kept, no regression | |
| `SyncCatchUpCoverProofs` | the same, continued: cursors are covered | |
| `SyncProjects` | UUIDs of projects across hosts | one action per handler |
| `SyncProjectsProofs` | theorems about `SyncProjects` | |
| `WorkspaceLock` | the lock table, the processes that choose and lock workspaces, user and sweep | one action per transaction |
| `WorkspaceLockProofs` | theorems about `WorkspaceLock` | |
| `Sessions` | an agent, its prompts and history, the discovery client and the session manager | one action per event handler |
| `SessionsProofs` | theorems about `Sessions` | |
| `FoldProofs` | lemmas about `FoldLeft` and sets of numbers, for the proofs about these two | |
| `MC...` | the instances TLC checks | |

### SyncApply

`db` is what is committed at the main node: `row` (the status of `sync_operation`), the `projects`
that exist, the `open` conflicts and the `log` (`sync_sequence`). An operation is identified by its
origin and `localSequence`, which `allocateLocalSequenceRange` gives out once. `content` is what
origins have issued; the transport is left out: `ApplyOperation(op)` and the batch actions may be
called for any issued operation, any number of times, in any order. This covers every loss, delay,
duplication and reordering a transport can cause, so what holds here holds under any of them.

`Outcomes(d, op)` is `applyOperationInTransaction`: replay of a recorded row, then the
unknown-project check, then the FIFO check, then the payload, in the code's order. A validation
error leaves no record (the transaction is rolled back), a deferral leaves a row in `received`.
What the payload of an edit does to plan and setting tables is open: it may apply with 0 to
`MaxMutations` rows, conflict or be rejected. An announcement may replace the UUID of another
project that has the repository, or be invalid when UUID and repository have rows of their own;
which repository an announcement carries is left open for `Contested` projects, and what becomes of
the projects is `SyncProjects`. `applyBatch` is several steps on the copy
`txn.work` of the tables (`BeginBatch`, `StepBatch` per operation, `CommitBatch`), with the
rejections of a rolled back batch stored by a second transaction (`PersistRejections`), and a
process that may die before either (`FailBatch`). SQLite's write lock keeps the other actions out
while a batch is running, not between the rollback and the second transaction.

### SyncFlush and OpDelivery

`SyncFlush` extends `SyncApply` with the `queue` of each node, one client per node and transport
(the socket of the web process, a `tim sync` command), frames on the `wire`, and the frame the
main node is serving. A flush goes through the phases `marking` (each row has a transaction of its
own), `sent`, `answered` and `failing` (the catch block, row by row); where the code awaits or
starts a transaction another client may act. A client that gives up leaves its frame to be lost or
still to arrive with nobody to answer to (`Abandon`).

`OpDelivery` says nothing of queues: an operation is pending, is settled once, and its origin
learns the verdict. The refinement mapping takes `fate` from the rows of the main node, `known`
from the queue and `refused` from the verdicts given without a record.

### SyncCatchUp

An entity is a key whose value is the number of the row that last changed it; deletion is a
change. A socket has both directions in order (`inbox`, `outbox`), the `suspended` handlers that
await snapshots, and `catchingUp`. Writes come from the main node's web process (announced), from
other processes on that machine (not announced), from a node over its socket, and from a `tim
sync` command. Pruning may happen at any time, by peer cursor and, if `TimePruning`, by age up to
any row. Commands run catch-ups and fetches in a process of their own, on the same tables. A restart
of the main node lists again what has no row left and still exists: any part of `Unlisted`, since
the model does not say which entities are deleted ones.

### SyncProjects

Each host has a table of projects by repository, with the UUID, the announced flag and whether the
row holds state of this machine. A host makes up a UUID for a repository it first opens. A command
on a host goes through the steps of `routeSyncOperation`, between which merges, other commands and
its own death may come: it builds the edit with the UUID of the moment (`BeginEdit`), finds out
whether an announcement is due (`CheckAnnounced`), queues it, or on the main node applies it
(`AnnounceOnNode`, `AnnounceOnMain`), marks the project in another transaction (`Mark`), and
queues or applies the edit (`WriteEdit`). The main node matches announcements by UUID, then by
repository, and takes the announced UUID. Nodes request and merge snapshots; whole requests and
responses are units, in order per node. Left out: lost connections (SyncCatchUp), retries
(SyncFlush), explicit project.delete operations (SyncApply).

### WorkspaceLock

`lock` is the table. A process is in a `phase` of its set-up; what it has read is in `view` (the
pid owner of each row, or a mark) and may be old when it acts. `ReadLock` is the read of one
candidate by the selection, `BeginClear` and `RemoveStale` its two-step clean-up, after which the
process takes the workspace (`Cleared`),
`CreateWorkspace` and `LockCreated` the row and the persistent lock of a new workspace,
`Acquire`/`AcquireFails` the acquisition with its retries on another workspace, `FinishSetup`
and `FailSetup` the end of the set-up with its release by force, `Exit` and `Crash` the end with
and without exit handlers. `SweepRead` and `SweepDelete` are the web process, `UserLock` and
`UserUnlock` the commands. `aged` marks locks older than a day; `lost` remembers whose lock was
removed while in use. A process id is not used twice.

### Sessions

One session: sessions share nothing but the maps they are kept in. `prompt`, `history` and `agent`
are the agent's; `link`, `toWeb` and `toAgent` the socket, which either side may believe open after
it has ended; `conn` is the tracked connection with its buffer; `session` what the user sees. Limits
are counted in messages: `MaxHistory` for the bytes of the history, `MaxPending` for the buffer of a
reconnection. A `line` stands for every message that is not about a prompt. Promise continuations
run before the next event, so a prompt answered over the web says so within `ReceiveResponse`, and
one answered at the terminal within `AnswerAtTerminal`. When the socket ends, frames to the web
process are lost; of what was sent to the agent any first part has arrived and is handled after the
end (`SomeArrives`), possibly after a reconnection. A response with an error
(`headless_adapter.ts:338`) is left out, since nothing in the repository sends one. The agent is one
that discovery accepts. A terminal session (`pty`) replays no structured output and hence never ends
its replay.

## 3. What is checked

`Nodes`, `Keys`, `Projects` and the like are model values. Every run explores its whole state
space. `CHECK_DEADLOCK FALSE` is set everywhere because each system may come to rest: all bounds
used up, every queue empty.

| run | instance | checks | size |
|---|---|---|---|
| `apply_one_node` | 1 node, 3 operations, 2 projects (one contested), batches of 2, 2 mutations | `TypeOK`, `LogInOriginOrder`, `OneEffect`, `BatchUnity`, `Agreement`, `DecidedOnce` | 131,888 states |
| `flush_shared` | socket and command on one queue, 2 operations or a batch, 1 failure, batch errors | `FlushTypeOK`, `QueueAgreement`, `DeliveryImplemented` | 1,368,618 |
| `flush_socket` | the socket alone, 3 operations, singly or in batches of 2, 1 failure, fair | `NoStranding`, `DeliveryImplemented`, `Settles` | 403,384 |
| `catch_up_converges` | 1 node, 2 keys, 4 rows, announced writes only, fair | `TypeOK`, `CursorIsCovered`, `Converges` | 194,587 |
| `catch_up_retention` | 2 nodes, 2 keys, 2 rows, pruning by cursor, 1 failure, external writes | `RetainedForPeers`, `NoRegression` | 631,432 |
| `catch_up_commands` | commands, external writes, pruning by age and 1 failure together | `NothingInvented` | 765,506 |
| `projects_identity` | a node and the main node open and edit one repository, 3 operations with announcements, crashes between their steps, 1 full catch-up, fair | `TypeOK`, `RefusedOnlyWhenLost`, `NeverTakenBack`, `SameIdentity` | 230,024 |
| `workspace_locks` | 3 symmetric processes, 2 workspaces of which one can be created, all ways to choose | `TypeOK`, `LockHeld`, `Exclusive`, `LossExplained` | 449,102 |
| `sessions` | 2 prompts, 2 answers from the web, 1 message on its way to the agent, 1 line, a history of 3 and a buffer of 5 messages, 2 failures (a crash is one), terminal or not, fair | `TypeOK`, `NoStalePrompt`, `ShownOnce`, `FirstAnswerWins`, `PromptIsShown`, `FollowsAgent` | 1,255,101 |
| `flush_announced` | socket, 1 transient error | `AnnouncedFirst` is violated | |
| `catch_up_external_writes` | writes of another process, fair | `Converges` is violated | |
| `projects_kept` | two nodes open one repository, a full catch-up | `LocalProjectKept` is violated | |

Why the bounds are enough for what is asked:

* The engine's FIFO rule compares a number with its predecessor and the largest decided one; with
  three numbers an operation can be early, in turn, late and overtaken, and a batch of two can
  follow or precede a single operation. Two mutations show a log entry repeated within an
  operation. The duplicates are not bounded: an action stays enabled after it was taken.
* Two rows are enough for two clients to cut a flush between them: one row marked and one taken by
  the other, a batch complete or not. Deferral needs a third number, since an origin may start at
  0 or 1: with three operations in `flush_socket` a transient error of the second defers the
  third, and a batch can be in front of or behind a single operation in one flush. One failure can
  fall at any step; the retries after it meet rows in every status. `Settles` also passes with
  two failures and two operations.
* Catch-up needs a row within, at and past the cursor, and two keys so that a handler of one key
  overtakes a handler of the other. Pruning two rows with two nodes has a node ahead and a node
  behind, or one that never reported. `RestartMain` needs a pruned row that is bootstrapped again.
* One repository and one UUID per host is the contest itself: two UUIDs for one repository, and a
  host that adopts the other's. Three operations are two announcements and the edit that loses, or
  an announcement of one host made twice around that of the other. The same safety properties hold
  with two commands at once (4.3 million states) and, with two operations, for a second node.
* Locks: two processes contend and a third takes, clears or sweeps what one of them left; one
  workspace is there from the start and one is created, so a creator meets others who choose it.
* Sessions: two answers tell a first from a second one. One message on its way to the agent is
  enough for a late one: an answer that arrived as the socket ended is handled, or waits while the
  prompt is replayed, and the user may answer again once it is handled. A history of three messages
  drops the request of a prompt, or only the first half of a request and its end; a replay of three
  does not fit the buffer and one of two does. Two failures are a break and the loss of the answer
  sent on the dead connection, or a restart during a reconnection. Prompts are independent of each
  other but for their order; two have one shown and one deferred at the same time.

The engine is checked with one node. That other nodes do not upset it is proved: each of its
safety properties is a theorem for any number of nodes (section 4). The same goes for the safety
properties of `SyncFlush`, `SyncCatchUp` and `SyncProjects`, whose instances have one or two nodes,
and for `WorkspaceLock` and `Sessions`.

What the violations show (details and quotations in `PROJECT.json`, `findings`):

* **AnnouncedFirst**: `write_router.ts:182` relies on FIFO order for the announcement, but the
  engine rejects an operation of an unknown project before it looks at the order, so a transient
  error of the announcement lets the operation behind it be rejected for good; the announcement
  is then overtaken.
* **Converges with external writes**: an invalidate moves the cursor to its sequence whatever lies
  in between; a write of a process without sockets is skipped for ever. (With a break
  instead of an external write the same assignment loses rows of a catch-up under way.)
* **LocalProjectKept**: a node that still has the replaced UUID is told it is deleted, and deletes
  the local project with what refers to it, where the documentation says it is adopted.

### Properties that hold only within limits

* `RefusedOnlyWhenLost`: the main node does refuse edits of an announced project, once a second
  announcement of the repository has replaced its UUID, and edits that were built before their
  node took another UUID over. `docs/sync-operations-guide.md:13` could be read to promise more.
* `NeverTakenBack` exempts a UUID its maker announces twice, which two commands or a crash before
  the mark may do: the main node then returns to it.
* `LossExplained` names what takes a lock from a live process: a day's age, the user, a failing
  set-up whose lock was taken from it earlier (the release is by force), and the creator's
  takeover of a persistent lock set meanwhile.
* `PromptIsShown` and `FollowsAgent` exempt what the code cannot resume (`Resumable`): terminal
  sessions, always, because after a break `replay_end` never comes (`session_discovery.ts:592`), and
  a replay of more than 10,000 messages, which is cut off again at every retry. `PromptIsShown`
  also exempts a prompt whose request the history has dropped; it can be answered at the terminal.
  Both hold of agents that discovery accepts: one with a token, or whose host is not loopback, is
  skipped and dropped (`session_discovery.ts:343-380`), and its session is never shown.
* `NothingInvented` bounds cursors by the sequence the main node itself reports
  (`getCurrentSequenceId`), also when rows, or all rows, are pruned: no cursor would be refused as
  being beyond it. It does not say that a node gets rows pruned by age (`retention.ts:34`).

* `Agreement` and `QueueAgreement` exempt announcements of a contested project, whose rejection is
  rolled back with its transaction: a duplicate may still be applied. `Settles` is checked without
  contested projects, because the operations after such an announcement are deferred for ever.
* `NoStranding` is checked for the socket alone; `docs/sync-between-nodes.md:255` documents that a
  command may leave rows in `sending`.
* `NoRegression` is checked without commands: a command and the socket may fetch snapshots at
  different times and merge them in the other order.
* `Settles` is checked without database errors in batches: over a socket such an error produces no
  frame, and the flush waits until the connection breaks.

### Fairness

The client reconnects for ever with a bounded delay, a connected client polls its queue every 30 s
(`startFlushLoop`) and the sequence of the main node every minute (`startSequencePollLoop`), and
the event loops of both sides handle every frame received: weak fairness of `Connect`,
`ListPending`, `PollStatus` and of the handlers, per client. Handlers that take turns on one
client are one fair disjunction. Nothing makes users write, commands start, pruning happen or
failures occur, so these are not fair; failures are bounded, which is what lets a system that
fails come to an end at all. A command, once started, runs on (`CommandFetch`, `CommandMerge`).

In `Sessions` the discovery client scans every few seconds and retries with a bounded delay, after
the last retry with the next scan (`Discover`, `Reconnect`, `Forget`); both event loops handle
what arrives, and `destroy` runs to its end. Nobody need ask, answer or write.

Every property of a passing run has a mutant in `PROJECT.json`: a faulty variant of a definition,
written beside it in the module, under which TLC finds the property violated.

## 4. What is proved

Every theorem holds for all values of the constants that satisfy the named assumptions of its
module, and under no further condition unless the table states one.

The engine (`SyncApplyProofs`), from
`BoundsAssumption` (the bounds are positive, contested projects are projects) and
`NoContentAssumption` (`NoContent` is no content):

| theorem | says |
|---|---|
| `Invariance` | `Spec => []IInv` |
| `TypeCorrectness` | `Spec => []TypeOK` |
| `OrderOfTheLog` | `Spec => []LogInOriginOrder` |
| `DecisionsAreFinal` | `Spec => DecidedOnce` |
| `EffectsByOnePath` | `Spec => []OneEffect` |
| `VerdictsAreTrue` | `Spec => []Agreement` |
| `BatchesAreWhole` | `Spec => []BatchUnity` |

The flush (`SyncFlushProofs`), from these and `FlushAssumption` (transports are sockets and
commands) and `NoFrameAssumption` (`NoFrame` is no frame):

| theorem | says |
|---|---|
| `EngineImplemented` | `FlushSpec => Spec` |
| `FlushTypesHold` | `FlushSpec => []FlushTypeOK` |
| `QueuesAgree` | `FlushSpec => []QueueAgreement` |
| `DeliveryIsKept` | `FlushSpec => DeliveryImplemented`, the refinement of `OpDelivery` |
| `NothingIsStranded` | if `Transports = {"socket"}`, `FlushSpec => []NoStranding` |

Catch-up (`SyncCatchUpProofs`, `SyncCatchUpCoverProofs`), from `CatchUpAssumption` (there is a node,
entities are finitely many, the bounds are positive):

| theorem | says |
|---|---|
| `Invariance` | `Spec => []IInv` |
| `TypeCorrectness` | `Spec => []TypeOK` |
| `NothingIsInvented` | `Spec => []NothingInvented` |
| `NodesKeepTheirRows` | if `~Commands` and `~TimePruning`, `Spec => []RetainedForPeers` |
| `CopiesMoveForward` | if `~Commands`, `Spec => NoRegression` |
| `CursorsAreCovered` | if `~Commands`, `~ExternalWrites`, `~TimePruning` and `MaxFailures = 0`, `Spec => []CursorIsCovered` |

The locks (`WorkspaceLockProofs`), from `ModelAssumption` and `NoLockAssumption` (model values
differ, modes exist):

| theorem | says |
|---|---|
| `Invariance` | `Spec => []IInv` |
| `TypeCorrectness` | `Spec => []TypeOK` |
| `LockIsHeld` | `Spec => []LockHeld` |
| `MutualExclusion` | `Spec => []Exclusive` |
| `LossesAreExplained` | `Spec => LossExplained` |

Projects (`SyncProjectsProofs`), from `ProjectsAssumption` (the main node is not a persistent node,
users sit at hosts, the bounds are natural numbers), `NoProjectAssumption` and `NoDraftAssumption`
(model values differ from rows and drafts):

| theorem | says |
|---|---|
| `Invariance` | `Spec => []Inv` |
| `TypeCorrectness` | `Spec => []TypeOK` |
| `NoEditAhead` | `Spec => []RefusedOnlyWhenLost` |
| `UuidsAreUnique` | `Spec => []OneProjectEach`: no table has a UUID twice, and no announcement is refused for its UUID |
| `MainKeepsItsProjects` | `Spec => NeverTakenBack` |

Sessions (`SessionsProofs`), from `SessionsAssumption` (`NoPrompt` is no
prompt, no answer from the web has the name of a state of a prompt, the limits are natural numbers;
there may be any number of prompts, even infinitely many):

| theorem | says |
|---|---|
| `Invariance` | `Spec => []Inv` |
| `TypeCorrectness` | `Spec => []TypeOK` |
| `NoPromptStale` | `Spec => []NoStalePrompt` |
| `EachShownOnce` | `Spec => []ShownOnce` |
| `FirstAnswerStands` | `Spec => FirstAnswerWins` |

The conditions of a theorem are met by the runs that check its property; where the code is known to
break the property without them, section 3 says how.

### The engine

No property but the types is inductive. The FIFO check compares with the *rows* of an origin, while
the order is a property of the *log*: so `LoggedOnlyApplied` ties them together (a direct mutation in
the log belongs to an applied row). A mutation is appended only in turn, hence after all decided
numbers of its origin, hence, by that conjunct, after all logged ones (`DirectEffect`). A batch
works on a copy of the tables that later replaces the committed ones, so the copy must satisfy the
same (`SoundDb(txn.work)`), must follow the committed tables (`Follows(db, txn.work)`, which is
transitive), and no row of the batch may be committed meanwhile (`SoundTxn`), which uses that a
unit has been issued whole (`UnitsIssued`):

    IInv == TypeOK /\ SoundDb(db) /\ UnitsIssued /\ SoundTxn

`OutcomesSound` treats one operation in any sound tables, and is used both for a single operation
and for a turn of a batch. `StepSound` has one step per action and yields `IInv'` together with
`Follows(db, db')`, from which `DecisionsAreFinal` follows without another invariant. The lemmas
on sequences (`AppendCopies` and what follows it) are stated for any set of entries.

Three more invariants stand on `IInv`, each required of the committed tables and of the copy a
batch works on:

* `Effects`: an open conflict has no entries in the log, and the entries of a resolved one lie in a
  stretch of at most `MaxMutations` rows. A resolution takes the conflict out of `open` in the
  transaction that logs it, so it cannot be repeated, and an applied row never enters `open`.
* `ToldTruly`: the tables bear out what origins were told. The hard case is a rejection that left
  no row: it is true only because the number is then *overtaken* (a later one of the origin is
  decided), and what is overtaken stays so and is refused whenever it comes again (`Silent`). The
  announcement of a contested project is the one operation that may be told a rejection and is
  neither; it is excepted here as in the property.
* `Batches`: the operations of a unit agree on it, rows of one unit are decided together, and while
  a batch is in progress the copy differs from the committed tables in rows of the batch only, with
  a decided part below `next` and nothing above.

`OutcomeForms` says what a decision can do to the tables in three forms (`Replays`, `Escapes`,
`Records`), so that these proofs look at `Outcomes` once.

### The flush

`EngineImplemented` is what makes the theorems about the engine theorems about the system: the
server takes the engine's steps, or none. It is not immediate, since `ServeOperation` asks neither
whether the operation at hand belongs to a batch (only whether the first one of its frame does) nor
whether a batch is in progress; both follow from how frames are cut. The invariant is

    Engine    == IInv /\ Effects /\ ToldTruly /\ Batches /\ EditsConflict
    FlushSound == FlushTypes /\ ... /\ SoundServed /\ TxnIsServed /\ ... /\ SoundQueue

A frame is `WellCut`: single operations, or a whole batch (`FirstIsWellCut`, from the units of the
engine). The batch in progress is the frame being served (`TxnIsServed`). A verdict in a reply,
wherever it is, was told by the engine (`Truthful`), and so was the status of a settled row
(`SoundQueue`); `QueuesAgree` follows from `ToldTruly`. Frames of clients that have gone need no
special case: they are as well cut as the others.

`DeliveryIsKept` maps every step: `Enqueue` to `Issue`, the steps of a client to `Learn` (each row
that becomes settled learns what was told, and what was told is the fate), those of the main node
to `Settle` (`Follows` keeps fates, `Grows` keeps what was told), the rest to stuttering.

`NothingIsStranded` needs both directions: a row in flight is in `sending` (else the catch block
would stop early and leave the rows behind it), and one frame at most is on its way for a client,
which is then waiting and connected (`Awaited`; else an answer would meet a flush that has moved
on). With a command beside the socket the first fails: its recovery resets rows the socket has in
flight.

### Catch-up

`IInv` says that nothing is ahead of the main node: no version, cursor, reported cursor, frame,
request or handler names a row past the log, and no copy or frame holds a value newer than the
entity's. One conjunct counts: there are as many suspended handlers as snapshots asked for or on
their way (`SoundSocket`), without which `TypeOK` fails when snapshots arrive.

* `Retained` (no commands, no pruning by age): a reported cursor is never past the cursor, in the
  tables or in a request under way, and pruning is never past a cursor. Cursors only move up.
* `Ordered` (no commands): the snapshots in an inbox hold later and later values, none older than
  the copy. Handlers overlap, but each awaits snapshots of its own, read after the earlier ones.
* `Covered` (announced writes only, nothing breaks): the latest change of each entity is at the
  node, in a frame or request under way, or the node has not been greeted, and then its cursor is 0
  (`Supplied`, `Unmet`). A catch-up answer may leave out what was pruned, so requests must ask for
  rows past what the node reported (`Upward`), and greetings must come first (`Mannered`).

### The locks

`LockHeld` says that a process that uses a workspace has its lock unless it is in `lost`. Three
more conjuncts make it inductive:

    IInv == TypeOK /\ HasChosen /\ LockHeld /\ KnownStale

`HasChosen`: who sets up, works or clears has chosen a workspace. `KnownStale`: an owner a process
is about to clear, or the sweep has read, is dead, or its lock is older than a day, and stays so.
Every step that overwrites or deletes a row adds the one who uses the workspace to `lost`
(`Losers`), so the steps that need care are those that delete on an old view; `KnownStale` says the
row they find under the same owner is stale still. `Exclusive` follows, because a row has one
owner, and `LossExplained` by cases over the same steps.

### Projects

`RefusedOnlyWhenLost` speaks of edits that were refused; what has to be known is where a UUID that
reaches the main node comes from. A host makes a UUID up for one repository, and nothing in the
program records which, so the invariant supplies it:

    Inv == TypeOK /\ RefusedOnlyWhenLost /\ \E home \in Homes : Identity(home)

`home` maps each UUID made up so far to its repository. `Identity(home)` says that every row, draft,
queued operation, log entry, request and snapshot that carries a UUID is about `home` of it. Hence
two repositories never contest a UUID on the main node (`MainUncontested`, `UuidsAreUnique`), and a
UUID of the log that has no row there belongs to a repository the main node knows under another
(`Known`), which is what a `deleted` snapshot means.

The order of things is in `Told(h, r)`: the main node knows repository `r`, or an announcement of it
is in the queue of host `h`. A row is announced, and a draft past its announcement, only if `Told`
holds; an edit in a queue has the announcement in front of it or its repository is on the main
node (`QueuedOK`), so that when it is its turn, the main node knows the repository. Between the
announcement and the edit a merge may take the row away or change its UUID; it does so only for a
repository the main node knows (`Backed`, and the last part of `Grows`).

Each step shows that nothing of this goes back (`Grows`) and that what it changes is right;
`StepHolds` does the rest. Opening a repository is the one step that extends `home`.
`NeverTakenBack` follows by cases: only an announcement changes a UUID of the main node's table, and
what a node queues as an announcement has a UUID of its own.

### Sessions

    Inv == TypeOK /\ Connections /\ FewPending /\ HistoryOK /\ StreamOK /\ ScreenOK

`Stream` is what the web process has received and not yet made a session of, followed by what is on
the way. `HistoryOK` and `StreamOK` say that the history and the stream ask each prompt at most once
and leave open, reading from the left, only prompts that are pending (`OpenIn`); dropping the oldest
messages of the history keeps this, which is why a bounded history is safe. `ScreenOK` says that
what is shown or deferred is shown once, is not asked again later in the stream, and is pending or
has its end in it. With its connection a session loses what it shows; the stream of the next one
starts with a replay of the history, which live frames follow, so `HistoryOK` gives `StreamOK`.
`NoStalePrompt` and `ShownOnce` follow. `FirstAnswerWins` needs the types,
and that no answer has the name of a state of a prompt.

### Folds

A reconnection handles its buffered frames in one step, and a response is merged in one step; both
are `FoldLeft` over a sequence. The community modules define it by a recursive function over sets of
indices, and no theorem of the library says it has a value. `FoldProofs` shows that it does, for an
operation given as a function on sets (`FoldExists`: the equation is solved for `1 .. n` from a
solution for `1 .. n - 1`), and that the fold is the last state of a run that handles the elements
one by one (`FoldSteps`). Induction is by a least counterexample (`LeastNatural`, `UpTo`), which is a
statement about sets and needs no operator for a parameter. `MergeStays` and the `...Run` lemmas
apply this to the folds of the two modules: what each element keeps, the whole fold keeps.

### What is left to TLC

Every invariant and every action property of the passing runs is a theorem. Only model-checked are
the liveness properties (`Settles`, `Converges`, `SameIdentity`, `PromptIsShown`, `FollowsAgent`),
since liveness under fairness needs ENABLED, which is beyond the installed provers, and the
counterexamples of the three violation runs. No module declares a RECURSIVE operator.

## 5. What is not modelled

* Plan and setting data: what an edit conflicts with, setting revisions, projections, plan-id
  reservation. The engine treats these verdicts as open, so nothing proved or checked depends on
  them; a property about them would need them.
* The operations the main node writes itself, the allocation of their numbers and the markers
  that fill unused ones (`sequence_repair.ts`, also called by clear-rejected): planned as
  `SyncMainWrites`. `Nodes` of `SyncApply` are other nodes, whose counters live in their databases.
* Dependencies between entities in `SyncCatchUp`: a plan's snapshot that arrives before its
  project is dropped (`snapshots.ts:370`).
* Time: backoff, the 30 s flush poll and request timeouts are steps that may happen, not
  durations. A snapshot request that times out is a disconnect.
* Authentication, frame validation, artifact frames, transient workers (which act as a node without
  cursor).
* In `WorkspaceLock`: git work during set-up and round trip, which locks do not depend on, and the
  reuse of process ids.
* In `Sessions`: agents protected by a token or not on loopback, which are never connected,
  responses with an error, notification sessions, the retention of old sessions, control of executors,
  terminal bytes, the browser side, and agents inside agents, whose prompts travel through the
  tunnel.
* The parts of section 1.4.

## 6. Plan

Done: `SyncApply`, `OpDelivery`, `SyncFlush`, `SyncCatchUp`, `WorkspaceLock`, `SyncProjects` and
`Sessions`, with proofs of all their safety properties.

Next, in order:

1. `SyncMainWrites`: several processes write on the main node. A batch takes its sequence numbers
   in one transaction and is applied in another (`write_router.ts:398`), and a write in between
   repairs the numbers as cleared (`sequence_repair.ts:5`). Abstract: every write of the main node
   takes effect once, or its author is told it did not.
2. `SyncSettings`: revisions of project settings (`apply_operation.ts:602`), the fold of active
   operations over canonical rows. Abstract: a set based on a revision applies only to it.
3. `ArtifactTransfer`: claims, attempts, stranded transfers (`src/tim/db/artifact_transfer.ts`).
4. `Assignments`: claims of one plan (`claim_plan.ts` reads before the transaction that writes).
5. The tunnel of prompts between agents (`src/logging/tunnel_*.ts`), beside `Sessions`.
6. `SyncPlans`: plans and their projects across catch-ups, to cover dropped snapshots.

Runs for these keep to two or three processes and one or two rows each; where a question is asked
twice by an older and a newer run, the older gives way.

Theorems: the safety properties of each of these modules, as they come. `FoldProofs` serves the fold
of active operations in `SyncSettings`.
