# Picotoo Pet V2 in TLA+

This directory holds TLA+ specifications of the Mac Core (`src/picotoopet_core`) and of the
Windows desktop (`windows/desktop`), the TLC configurations that check them on small
instances, and proofs checked by TLAPS. Paths below are relative to the root of the
repository. `PROJECT.json` lists, for each definition, the lines it models, and for each
run what it checks.

Run `tlc -config X.cfg M` to check, `tlapm M.tla` to prove.

## 1. Inventory

The system is two programs. The **Mac Core** is a FastAPI server on one SQLite database: it
keeps projects, tasks, approvals, results, an audit log and an outbox of events, offers REST,
an MCP server over stdio and one WebSocket route, and runs a dispatcher in its event loop. The
**desktop** is a WPF program that holds one HTTP client and one event stream, and merges what
both tell it into one state. Around them are installers with version pointers, a health
supervisor with a resident model, and release tools.

| Component | State | Operations | Hard behaviour | What makes it correct |
|---|---|---|---|---|
| Task state machine (`queue/state_machine.py`) | none | `ensure_transition` | long sequences of legal moves | ended tasks stay ended |
| Task queue (`queue/repository.py`) | `tasks`, `task_events`, `event_outbox` | create, retry, lease_next, recover_expired_leases, transition | leases that run out during work, clocks read before the lock, keys that come back | keys stay unique, history, row and snapshot agree, leases belong to their worker |
| Approvals (`approvals/service.py`) | `approvals`, `tasks.approval_id` | request, approve, reject, expiry on use | check-then-insert, several approvals of a task, expiry against decision | a verdict and its effect commit together and once |
| Outbox, dispatcher, broker (`events/`) | claims, acknowledgements, subscriber queues | append, claim, publish, acknowledge, subscribe, unsubscribe | crash between claim and acknowledge, full queues, subscribers that leave | no acknowledged event is lost to a connection |
| WebSocket route (`api/routes/events.py`) | per connection: last sequence, replayed page | subscribe, replay, live events | replay overlaps live events | each connection sends an increasing stream without gaps |
| Event stream client (`EventStreamClient.cs`) | last sequence, channel, connection | connect, receive, consume, reconnect | reconnecting while the channel is not empty | the log is applied in order, once, without gaps |
| Desktop state (`AppStateStore.cs`, `TaskCoordinator.cs`, `MainWindowViewModel.cs`) | task snapshots, last sequence, connection | replace, upsert, apply, connect, submit | REST answers race events; connects overlap; change of address | no event is left out, no connection is forgotten |
| Audit chain (`audit/`) | `audit_events` | append, verify | interleaved writers, a lost tail | the chain verifies, and names the row that was damaged |
| Result store (`results/store.py`) | object files, manifest | put_bytes, verify | crash during a write, the same object by two threads | a file is whole, and what a put returned verifies |
| Permission gate and MCP tools (`permissions/`, `mcp/`) | `projects` | authorize, the frozen tools | tools, REST calls and workers on the same tasks | no work in protected projects, no upload without approval |
| Database (`db/`) | connection, migrations | transaction, apply_migrations | crash during a migration, two first starts | whoever works on it finds every table |
| Resident model and health (`ollama/`, `health/`) | resident model, probe results | ensure_resident, run_once | a failing write in the loop, Ollama stopping between two calls | supervision goes on, and its rows become true |
| File logger (`SafeFileLogger.cs`) | queue, semaphore, file | Enqueue, WriterLoop, DisposeAsync | wake-up and disposal race | nothing queued is lost or written after disposal |
| Installers (`windows/desktop/release`, `windows/desktop/scripts`) | `current` and `previous` pointers | install, restore, roll back | crash between two pointer writes | `current` names a complete version |
| Model downloads (`windows/bootstrap/Install-VisualModels.ps1`) | partial and final files | download, verify, move | restart of a download | a final file is verified |
| Percentiles (`performance/percentiles.py`, `LatencyRecorder.cs`) | samples | percentile | boundaries | the reference definition |
| Agents, configuration, authentication, inventory, credential and settings stores, windows and commands, release tools | rows, files or nothing | single reads and writes | none of their own | - |

How they interact: the REST and MCP handlers call the queue and the approvals in threads of the
server; every change of a task appends its event and a snapshot to the outbox in the same
transaction; the dispatcher turns outbox rows into queue entries of the connections; the
WebSocket handlers replay from the table and then send from their queue; the desktop's event
stream feeds the state store, which also takes the answers of REST calls.

## 2. Modules

| Module | Models | Notes |
|---|---|---|
| `TaskLifecycle` | the statuses and the transition table | constants and operators only |
| `TaskQueue` | `QueueRepository` | one action per operation, each one transaction |
| `TaskQueueProofs` | | theorems about `TaskQueue`: keys and ended tasks |
| `TaskHistoryProofs` | | theorems about `TaskQueue`: history, snapshots, leases, order |
| `Approvals` | `ApprovalService` with the callers of the queue | extends `TaskQueue` |
| `ApprovalsProofs` | | theorems about `Approvals` |
| `EventLog` | the promise of event delivery | abstract specification |
| `EventDelivery` | outbox, dispatcher, broker, WebSocket handler, event stream client | refines `EventLog` |
| `EventDeliveryProofs` | | theorems about `EventDelivery` and its refinement |
| `DesktopState` | `AppStateStore`, `TaskCoordinator`, `MainWindowViewModel` | the Mac Core is its log |
| `DesktopStateProofs` | | theorems about `DesktopState` |
| `Migrations` | how a process opens and migrates the database | used by `HealthSupervisor` |
| `HealthSupervisor` | `run_once`, its loop and command, `ResidentManager` | extends `Migrations` |
| `HealthSupervisorProofs` | | theorems about both |
| `PermissionGate` | `PermissionGate.authorize` | operators only |
| `McpTools` | `McpToolExecutor` and the projects | extends `Approvals`, `PermissionGate`; refines `Approvals` |
| `McpToolsProofs` | | theorems about `McpTools` |
| `ResultStore` | `ResultStore` | |
| `AuditChain` | `AuditWriter`, `verify_audit_chain` | |
| `MCTaskQueue`, `MCApprovals`, `MCEventDelivery`, `MCDesktopState`, `MCHealthSupervisor` | | constants and symmetry for TLC |
| `MCServices` | | `McpTools`, `ResultStore` and `AuditChain` in one run |
| `ServicesProofs` | | theorems about `ResultStore`, `AuditChain` and `MCServices` |

**TaskQueue.** `tasks`, `taskEvents` and `outbox` are the three tables as sequences in
insertion order; a task's id is its position. `Create`, `Retry`, `LeaseNext`,
`RecoverExpiredLeases` and `Transition` are the repository's methods; `Commit` writes rows,
events and snapshots together, as `Database.transaction` does. A create that finds its
idempotency key, or an active task with its dedupe key, writes nothing and is a stutter.
`lease_next` and `recover_expired_leases` read the clock before they hold the transaction, so
they use any time of the last `LockWait` ticks (`RecentTimes`). The wall clock is taken not to
run backwards. `not_before` is never set by the code; projects, payloads, error texts and the
other timestamps do not influence any guard and are left out. `QueueNext` lets any caller move
any task along the state machine: the repository checks nothing else.

**Approvals.** `request` is two actions, `CheckRequest` (the read of the task) and
`InsertRequest` (the insertion), with `inFlight` between them and `Restart` losing it. `Approve`
and `Reject` are `Decide`: the move of the task and the verdict in one transaction; `ExpireOnUse`
is the branch that marks an approval that has run out. Tokens are secrets handed out one per
approval; a caller without the right one changes nothing, so the actions are those of callers
that hold it. `Cancel` is the REST and MCP cancel; `WorkerMove` stands for the workers and the
scheduler the queue is written for, which are not in the repository.

**EventDelivery.** An event is its rowid. `Claim` takes the first `BatchSize` claimable rows and
notes the subscribers of the first publish; each `Put` is one awaited `queue.put`; `Acknowledge`
needs all of them. Claims of a dead server become claimable after a minute (`ClaimsGetStale`),
not before; a claim's age is told by the run of the server that made it, since within a run a
new batch is claimed only when the last one is acknowledged. A connection goes through
`accepted`, `subscribed` (its queue is registered), `sending` (its page is read) and `closed`.
The frame `connected` is sent before the `try` whose `finally` unsubscribes, so a handler that
ends in `subscribed` leaves its queue registered, and every later publish puts events there
that nobody reads (`HandlerEnds`). A socket has room for `WireCapacity` frames: `SendReplay` and
`SendLive` wait for it (`Writable`), so that a full channel holds up the client's receiver, the
receiver the handler, and the handler the dispatcher. The client's channel outlives its connections, and `Connect` asks for what follows the last
event *consumed*, so events in the channel are sent again. Authentication and the Ping and Pong
messages only decide whether a connection exists: `Disconnect` (client) and `BreakConnection`
(server) may end it at any time. `TaskQueue`'s `outbox` is the table whose rowids these are.

**DesktopState.** The Mac Core is its log of events; a task's version is its last event, so a
task list is the length of the log when it was read, and "older" is a comparison of numbers. An
action is what runs between two awaits. `Connect` and `CancelFirst` start `ConnectAsync`: the
first is the case where `CancelConnectionAsync` returns at once, the second takes the fields
(`TakeConnection`), cancels and waits for the old stream, and `ConnectAfterCancel` goes on.
`AnswerAttempt` and `ReplaceByAttempt` are the list and its arrival, `StartStream` the start of
the stream, `Undo` and `FinishUndo` the catch. Two runs of `ConnectAsync` may overlap, since
the save button stays enabled and the connect at start-up is not a command; the commands
exclude each other by `IsBusy` as far as the code does. A list holds the `ListLimit` newest
tasks and no diagnostics. `EventDelivery` shows that a stream brings the log in order and
without gaps (as long as a page holds what was missed), which is what a stream is here. The two
history variables say which rows an answer has set back (`overtaken`) and whether two connects
have overlapped (`overlapped`).

**Migrations and HealthSupervisor.** `executescript` commits the open transaction before it
runs, so every `CREATE` commits by itself and the record does too: `RunStatement`,
`RecordMigration` and `RecordRefused` (the primary key refuses a second record, and the process
exits) are separate steps, and a process may be killed between any two. A round of `run_once`
is a step per check, per call of Ollama and per row written; `WriteFails` is the unguarded
write. The supervisor gives a call of Ollama two seconds (`services.py:56`), the load of the
model too. The world says which calls Ollama is sure to answer in time (`prompt`: none, the two
lists, or the lists and the load); any other one may be answered (`ReadInstalled`,
`ReadRunning`, `Preload`, `ConfirmRunning`) or fail, as often as it likes (`CallFails`), and a
failed one makes the row `degraded`. A load that the client has given up may still end with the
model in memory. A process that launchd keeps alive starts again from "down"; the loop opens and migrates
the database anew in every round, as `_run_health` does. `resident-check` writes no row and is
left out; `serve` is a process with no rounds, which the proof covers and the run omits.

**McpTools.** `toolCall` is history: which call, for which project and with or without an
upload, a task stems from, retries included. `SubmitTask` stands for the thirteen tools that
create tasks with the permission each has; the reading tools change nothing. The reasons of
the tools' cancels and requests are those of the routes, which the properties do not tell apart.

**ResultStore.** A put of other bytes touches other files, so the puts are of one object.
`_write_atomic` is a step per call of the operating system. Only the file is synced, not its
directory, so after `LosePower` a rename may be undone, each by itself. `Sync` takes `os.fsync`
to reach the medium. On macOS it leaves the file in the drive's cache (that takes
`F_FULLFSYNC`, which `store.py` does not ask for), so there a loss of power, though not a kill,
may do more than the model says, and `FilesAreWhole` depends on the drive.

**AuditChain.** A hash is the sequence of everything it covers, so equal hashes mean equal
content. `append` is one `BEGIN IMMEDIATE` transaction. `ChangeField` and `LoseRow` are not
code: they are what the chain is there to show.

## 3. What the runs check

| Run | Question | Bounds |
|---|---|---|
| `queue_keys` | keys, retries and the end of tasks | three tasks, one key of each kind, five events |
| `queue_leases` | leases, recovery, history, snapshots, order | two tasks, two workers, two priorities, one or two attempts, six events, four times |
| `approvals` | expiry, finality, which verdict moves which task, refinement of the queue | two tasks, two approvals, one client, five events |
| `delivery` | refinement of the in-order log | three events, one failure, batch 2, queue 2, socket and channel 1 |
| `delivery_live` | every event delivered and applied | four events, one failure, batch, queue, socket and channel of one |
| `desktop` | events, answers, connects and their failures | two connects in flight, two connections, three events, three tasks of which one is hidden and one fits a list, one failure |
| `supervision` | migration by two processes, rows that become true | the supervisor and the installer's health command, one failure, one change of the world |
| `services` | tools and permissions; puts and crashes; damage of the chain | two tasks, two projects, one approval; three puts, two threads, two faults; three rows, one damage |
| `retry_bypass`, `late_reject` | disagreements of documents and code, see 5 | |
| `delivery_page`, `delivery_stuck` | disagreements of documents and code, see 5 | |

Why the bounds are enough to be interesting: three tasks make a key hit, a retry of a retry and
a duplicate after the end of the first; five to seven events let one task be leased, lost,
recovered and leased again, or be created, approved, run, wait again and be decided again; two
approvals are what it takes for one to interfere with the other. In the delivery, three events
with a batch of two leave one event outside the batch that a crash loses, which is delivered
before the lost ones come back; a queue and a channel of one or two make every wait happen. In
`delivery_live` the channel, the socket and the queue hold an event each and the fourth makes the
dispatcher wait, so that all of them are full at once. In
`desktop`, two connections are what a reconnect and its race with the old stream take, and a
failed connect with the one before it; the connects may overlap, but two live streams would take
a third connection (section 5). With `MaxConns = 3` and `MaxLog = 2` the same properties hold, in
3.6 million states and some minutes: the run keeps to two and to the longer log. In `supervision`, the failure
falls anywhere in the migration or between two rows of either process, and the change of the
world anywhere too, also between two calls of Ollama; these fail any number of times. With
`MaxFailures = 2`, where each process may die, the same properties hold, in 1.4 million states
and some minutes. In `services`, three puts let one be late, two overlap and one be
repeated after a fault; a damage of a chain of three may hit its first row, a middle one or the
last, before or after later rows are appended. All runs set `CHECK_DEADLOCK FALSE`: the queue
stops at the bounds of its tables and the delivery stops when every event has arrived, as the
program rests when nothing is asked of it; the same holds of the others.

`MCServices` puts three modules into one run. They share no state and never call each other, so
a behaviour of all is an interleaving of one of each, and a property of one of them holds in
it when it holds in the behaviours of that one alone. `moving`, chosen at the start, says which
moves: the states are the sum of theirs instead of the product, and every property is still
checked on every behaviour of the module it is about.

The properties, by what would break them:

- `IdempotentCreation`, `OneActivePerDedupeKey`: keys against every later sequence of moves.
- `ChildrenOfUnsuccessfulTasks`, `EndedTasksStayEnded`: retries leave the ended task alone.
- `HistoryExplainsStatus`, `SnapshotsAreCurrent`: events, rows and outbox tell one story,
  also when recovery moves several tasks at once.
- `LostTasksFailAtTheLimit`, `LeaseBelongsToLastLeaser`, `RecoveryOnlyAfterExpiry`,
  `NoOvertaking`: leases, their loss and the order in which they are given. The first counts the
  leases in the history, over whatever waits and moves lie between them: a task whose lease is
  lost fails at the limit, not one lease early or late.
- `DecisionsMatchEvents`, `DecisionsAreFinal`, `DecisionsInTime`,
  `CloudTasksRunOnlyAfterApproval`: verdicts and their effects. `DecisionsInTime` goes by the
  clock that the decision has read, which may be behind when the transaction is obtained.
- `ImplementsQueue`: on the queue's tables, every step of the approval service is a step of
  the queue.
- `AcknowledgedReachesConnections`, `ImplementsLog`: no event is lost or repeated between the
  outbox and the desktop's state, whatever fails, as long as a page holds what was missed.
- `EventsReachClients`, `EventsAreDelivered`: every event arrives in the end, although queue,
  socket and channel may all be full, unless publish waits for the full queue of a handler that
  has ended (`WaitsForNobody`): then it waits until the next start of the server, which
  `delivery_stuck` shows of the promise without the exception, `EveryEventArrives`.
- `OnlyOvertakenAnswersLeaveStaleRows`: through reconnects, failures, old streams that still
  drain and duplicates, each event is applied once and in order; a row is stale only because a
  REST answer was stored after events it did not know of.
- `OneConsumerAtATime`, `OpenConnectionsAreCurrent`, `AwaitedStreamsEnd`: as long as connects
  do not overlap, one stream is consumed, no open connection is forgotten, and no connect waits
  for a stream that nothing ends.
- `WorkersFindTheirTables`, `KeptProcessesComeUp`: overlapping and dying migrations.
- `HealthConverges`: when the world has settled the rows say how it is, also after a skipped
  check, a half-written round, calls of Ollama that ran out of time or a model that went away
  during its check. The model's row becomes `ok` if the model can be loaded within the time limit
  or has been loaded at last, and `degraded` if it cannot be used at all; nothing is said of a
  model that is always too slow (section 5).
- `ToolWorkAvoidsProtectedProjects`, `ToolUploadsRunOnlyAfterApproval`, `ImplementsApprovals`:
  what the tools reach, beside every other caller. The first is about where work begins: a tool
  may cancel a task of a project it does not name, or request an approval for it. The second
  excludes retries, which run without approval (`retry_bypass`).
- `FilesAreWhole`, `ReturnedPutsVerify`, `ManifestsHaveObjects`, `LatePutsChangeNothing`:
  puts that overlap, fail, are killed or lose their power. `LatePutsChangeNothing` is about puts
  that find both files; two that overlap may each write a manifest.
- `DamageIsLocated`: the verifier stops at the first row that a damage hit, or that lost the
  row before it, and at no other.

## 4. Fairness

`EventDelivery` and `HealthSupervisor` state fairness. The event loop runs every task that can go on (weak
fairness of the dispatcher's and of each handler's steps); the client reconnects in a loop with
bounded delays, reads its socket and consumes its channel (weak fairness of its steps); a
handler whose client has gone is told by the socket or by the server's ping; and a minute
passes. A send waits for room in the socket, which only the client makes. Appends, restarts and
lost connections are never forced. In `HealthSupervisor`, a process that launchd keeps
alive is started again (`KeepAlive` and `RunAtLoad` in `deploy/macos`) and goes on, since its
calls of Ollama and its waits for the database have time limits: a call ends with its answer or
in `CallFails`, and nothing makes Ollama answer but `prompt`. Kills, failed writes, changes
of the world and the health command are never forced. The queue has no fairness: no
code under `src/` calls `recover_expired_leases` or `lease_next` in a loop, so nothing promises
that a lost lease is recovered.

## 5. Where documents and code disagree

Each is a run that TLC ends with a counterexample.

1. `retry_bypass`: a retry of cloud work is created `Queued`, since `retry` does not copy the
   cloud policy; the operator guide says cloud tasks stop at `WaitingForApproval`.
2. `late_reject`: `reject` cancels a task that is no longer waiting.
3. `delivery_page`: a desktop that missed more than 2000 events skips what follows the page.
4. `delivery_stuck`: the dispatcher waits forever on the full queue of an ended connection. A
   handler whose `connected` frame cannot be sent (`events.py:36-45`) has the same effect: its
   queue stays registered and fills up. `broker.py:33` says that a full queue waits and loses
   no event.

Two more behaviours are in the model and no document speaks against them, so no run is about
them: `request` may insert an approval for a task that has left its wait between the check and
the insertion, and an approval of an earlier wait of a task may be used in a later one.

The modules of the desktop, the supervisor and the results allow these as well:

- Two overlapping connects leave two streams alive, one of which nothing cancels any more: the
  second takes empty fields while the first still waits, and both open a connection. The
  comment at `MainWindowViewModel.cs:385` says that two concurrent consumers never exist; the
  `overlapped` disjuncts of the three connection properties are there for that. It takes a
  running stream and two connects after it: with `MaxConns = 3` and `MaxLog = 2`, and the
  disjunct taken out of `OneConsumerAtATime`, TLC shows it in seconds.
- The answer to a create or a refresh may overwrite newer events, and the row stays stale until
  the task's next event; `TaskCoordinator.cs:19` says the event stream corrects it. `overtaken`
  is there for that. A refresh also drops the rows of tasks older than the 500 newest.
- The docstring at `supervisor.py:56` says that no exception ends the daemon; a failed write of
  a row does (`WriteFails`), and it is launchd that brings it back.
- The docstring at `resident_manager.py:36` says that an installed model is loaded and kept
  resident. One that takes longer than the two seconds of `services.py:56` to load stays
  `degraded` as long as Ollama gives up the loads that its client has given up; `Loadable` in
  `HealthConverges` is there for that.
- Two overlapping puts of the same bytes may both write a manifest, which `store.py:45` calls
  immutable; only late puts leave it alone (`LatePutsChangeNothing`).
- Rows lost from the end of the audit chain leave a chain that verifies.

## 6. Proofs

Every safety property that a passing run checks is also a theorem, for all values of the
constants that satisfy the named assumptions (`QueueAssumption`, `ApprovalAssumption`, ...).
The assumptions say that bounds are numbers, that `None` is none of the values it stands beside,
that sets whose members are counted are finite, and that the
reasons of the callers are not those `QueueRepository` writes itself (`created`, `leased`,
`lease_expired`, ...). Two theorems have a hypothesis of their own, explained below:
`NoneBehindAPage` for the delivery and one damage for the audit chain.

**`TaskQueueProofs`** (`TaskQueue`, keys):

- `TypeCorrect`: `QueueTypeOK` is inductive; one step per action, `CommitTypes` for what all
  of them write.
- `IdempotentCreationHolds`, `OneActivePerDedupeKeyHolds`: both are inductive together with the
  types. `StepsOnRows` classifies every step of the queue by what it does to the rows (nothing,
  one row added after the key checks, or rows moved along the state machine with their keys
  kept); from it the first follows at once, and the second with `ActiveComesFromActive`.
- `EndedTasksStayEndedHolds`: from `StepsOnRows` and the transition table.

**`TaskHistoryProofs`** (`TaskQueue`, records). One lemma carries the module: `StepIsRecorded`.
A step leaves a task and its events alone, or changes it in one of four ways (taken by a worker,
lost by one, moved, born) and appends exactly one event and one snapshot that say which. Recovery
is the hard case: it moves any number of tasks in one transaction, so the event of a task is
found by its place among the recovered ones.

- `LogsAgreeAlways`: the outbox has one row per task event, of the same task.
- `HistoryExplainsStatusHolds`, `SnapshotsAreCurrentHolds`: each is inductive with `LogsAgree`.
- `AttemptsCountLeasesHolds`, `LeaseBelongsToLastLeaserHolds`: these need that no caller can
  pass a reason of kind `leased`, which the code guarantees by writing that event in `lease_next`
  alone; the assumption on `CallerReasons` says so. No run checks the first, a fact about a counter.
- `LostTasksFailAtTheLimitHolds`: `LostInv`, the property over the events of each task, is inductive
  with `AttemptsCountLeases`: the counter that recovery compares is the number of leases in the
  history, and an old loss keeps its count, since later leases come after it.
- `RecoveryOnlyAfterExpiryHolds`, `NoOvertakingHolds`: properties of steps, from the same lemma.
- `ChildrenOfUnsuccessfulTasksHolds`: a parent failed or was cancelled when it was retried, and
  `Completed` is not reached from there.

**`ApprovalsProofs`** (`Approvals`):

- `QueueTypesHold`, `ImplementsQueueHolds`: each step of the service, and of the queue's other
  callers, is a step of `QueueNext` or leaves the queue's tables alone, so the theorems about
  the queue hold with the service on top of it. That a step is one of the queue's needs the
  types (an approval's task is a row), which is why the two go together.
- `ApprovalTypesHold`, `DecisionsAreFinalHolds`, `DecisionsInTimeHolds`: from `StepsOnApprovals`,
  which says that a step leaves the approvals alone, appends a pending one, or resolves a
  pending one by the clock it read.
- `CloudTasksRunOnlyAfterApprovalHolds`: the property is not inductive, since it does not say
  what status a cloud task without an approval is in. `CloudInv` adds that it waits for its
  approval or has ended (`Locked`), from where only an approval leads to a status a worker
  takes, and that every event is of a row there is, so that a new row starts with no history.
- `DecisionsMatchEventsHolds`: `DecisionInv` replaces the cardinalities by the one event there is
  and speaks of every number an approval may get, so that an approval inserted later starts
  without events. A step is quiet (`QuietStep`) or decides one approval with one event.

**`McpToolsProofs`** (`McpTools`):

- `ImplementsApprovalsHolds`: each step of a tool is a step of `Approvals` or leaves its state
  alone, so the theorems above hold with the tools as callers too;
  `RecordsAgreeForEveryCaller` puts the two refinements together for the records of the queue
  and the verdicts.
- `McpTypesHold`, `ToolWorkAvoidsProtectedProjectsHolds`: together inductive. Tasks are born in
  a tool's call, which the gate allows only outside protected projects
  (`TaskToolsAreRefused`), or inherit their project from the task they retry.
- `ToolUploadsRunOnlyAfterApprovalHolds`: a tool's upload is created as cloud work and its
  creation stays in the history (`UploadsStep`), so `CloudTasksRunOnlyAfterApproval` applies.

**`EventDeliveryProofs`** (`EventDelivery`). The inductive invariant, `DeliveryInv`, follows an
event from the table to the desktop:

- `DeliveryBase` holds whatever the sizes are: types, rows are claimed in order, and nothing is
  in a page, a queue, a socket or a channel that is not in the table. `DeliveryTypesHold` follows.
- `HandlersMissNothing`: a handler that sends has every later event in its page or queue, or the
  dispatcher has still to put it there. This is where a crash between claim and acknowledge is
  covered: the rows come back, and a connection that subscribed meanwhile has them in its page.
- `HandlersSendInOrder`: the page goes on from what was sent, and before each event in a queue
  comes the one before it, in the queue, in the page or sent. Without it a handler could skip.
- `ClientsReceiveInOrder`: the same for the socket and the channel.

`AcknowledgedReachesConnectionsHolds` and `DeliveryImplementsLog` (the refinement of `EventLog`,
step by step in `DeliveryStepsAreLogSteps`) are proved under `[]NoneBehindAPage`: no handler is
about to read its replay more than one page behind. The hypothesis cannot go: a desktop that is
further behind does skip events, which is the disagreement `delivery_page` shows (section 5).
`WholePagesSuffice` discharges it when a page is as large as the log, which is how the runs
`delivery` and `delivery_live` are configured. `DeliveryInv` and its use were checked by TLC before they were proved, with
the constants of `delivery`, and with pages of two and four events under the hypothesis.

**`DesktopStateProofs`** (`DesktopState`): `DesktopInv` adds to the types and to
`OnlyOvertakenAnswersLeaveStaleRows` that a stream has consumed no more than the store applied
(`StreamsBehindStore`), that what a run of `ConnectAsync` refers to is there, that there is room
for the connections the runs will open, and, as long as connects have not overlapped,
`ConnectsDoNotMix`: one run at most is on, what is open is in the fields, what still runs is in the
fields or awaited by the run, and the fields are empty while a run cancels. `DesktopTypesHold`,
`OnlyOvertakenAnswersLeaveStaleRowsHolds`, `OpenConnectionsAreCurrentHolds`,
`AwaitedStreamsEndHolds` and `OneConsumerAtATimeHolds` follow for any number of tasks, runs and
connections.

**`HealthSupervisorProofs`** (`Migrations`, `HealthSupervisor`): `WorkersFindTheirTablesHolds`
for any set of processes and any number of failures. The property says nothing of the processes
in the middle of the script; `StartInv` adds that a process at its i-th statement has run those
before it, one at the record has run them all, and that no step drops a table.
`SupervisionTypesHold` needs it too: the tables are some of the script's.

**`ServicesProofs`**:

- `FilesAreWholeHolds`, `ReturnedPutsVerifyHolds`, `ManifestsHaveObjectsHold`,
  `LatePutsChangeNothingHolds` for any number of threads, puts and faults. `StoreInv` adds that
  what has a final name was synced (else a loss of power could cut it), and that a put at its
  manifest has an object behind it, whatever other puts do.
- `OneDamageIsLocated`: while there has been one damage at most, the verifier names the first row
  it hit, for a chain of any length, with rows appended before and after. `AuditInv` says that
  without a damage every row continues the chain and is as it was appended, and that after one
  there is a row which neither continues the chain nor is as it was, with only good rows before it.
  Two damages may hide each other (the content and the hash of the last row, changed together,
  continue the chain), so the theorem is about one; the run has `MaxDamages = 1`, which
  `DamageIsLocatedHolds` states. `AuditTypesHold` needs no such condition.
- `ServicesAreIndependent`: a behaviour of `MCServices` is one of each service, which is the
  argument of section 3 for checking them in one run; `ServicesTypesHold` follows from it.

Model-checked only: the liveness properties `EventsReachClients`, `EventsAreDelivered`,
`KeptProcessesComeUp` and `HealthConverges`. They rest on fairness and `ENABLED`, which are out of
the prover's reach.

## 7. Not modelled

`PROJECT.json` lists every component with its status. Left out for good: pure file-system and
operating-system calls, reports, the user interface, release tools, the content of payloads and
the authentication of callers. Workers do not exist in the repository; `TaskQueue` and
`Approvals` offer their calls without promising any.

Not modelled yet, and worth it: the file logger (`SafeFileLogger.cs`), the version pointers of
the Windows installers, the model downloads, the change of the desktop to another Mac, the
dispatcher's end by an SQLite error.

## 8. Plan

1. Done: `TaskLifecycle`, `TaskQueue`, `Approvals`, `EventLog`, `EventDelivery`, first proofs.
2. Done: `DesktopState`, `Migrations`, `HealthSupervisor`, `PermissionGate`, `McpTools`,
   `ResultStore`, `AuditChain`, with the proofs of section 6.
3. Done: every safety property of the passing runs proved; the delivery implements the log
   when pages hold what was missed.
4. `SafeFileLogger`: queue, wake-up semaphore and disposal; `InstallPointers`: both Windows
   installers and rollbacks with a crash after every write; `ModelDownloads`; the percentiles
   as operators against a reference definition.
