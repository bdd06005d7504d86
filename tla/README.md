# LunaFox: TLA+ models and proofs

LunaFox is a self-hosted attack-surface scanner. A server (Go, `src/server`)
keeps targets, scans and results in PostgreSQL, plans a scan as a workflow of
tasks, and hands the tasks to agents, which run scanning engines in containers
and report back over a gRPC control stream. Around this core it runs scheduled
scans, notifications, a template catalogue, the cleanup of deleted targets and
its own upgrade, each with a worker goroutine, durable state and retries. This
directory models these protocols, checks them with TLC and proves with TLAPS,
for every size of the system, the safety properties that TLC checks on the small
instances (one of them, `ConvergenceOwed`, only as long as nothing has failed).

    cd tla
    tlc -workers 2 -config MCScanExecution_streams.cfg MCScanExecution
    tlc -workers 2 -config MCScheduledScans.cfg MCScheduledScans
    tlapm ScanStoreProofs.tla
    tlapm ScanExecutionProofs.tla
    tlapm ScanRecoveryProofs.tla          (and the other ...Proofs modules)

## 1. The system

### Components, their state and operations

Paths are under `src/server/internal` unless they say otherwise.

| component | state it keeps | operations | hard behaviour | module |
|---|---|---|---|---|
| scan tables (`modules/scan/repository`) | rows of `scan`, `scan_task` | create, claim, commit a result, unlock a stage, cancel, update the status, mark and clear reconciliation, fail leases, stop, delete | concurrent transactions, row locks, conditional updates | `ScanStore` |
| scan execution (`modules/scan/application`) | locals of handlers | report a result, reconcile it, recalculate a scan, fence a session, sweep markers, stop, delete, create | multi-transaction handlers, crash between two of them, replays | `ScanExecution` |
| agent control plane (`grpc/agentcontrol`) | `ActiveSessionRegistry` (memory) | register a session, heartbeat, task request, terminal result, detach | two streams of one agent, stale streams, epochs across restarts | `ScanExecution` |
| agent presence (`modules/agent`) | rows of `agent`, `agent_runtime_status` | record a connection, heartbeat upsert, mark offline, delete | epoch fencing, stale lists, deletion with work running | `ScanStore` |
| agent monitor (`job/agent_monitor.go`) | locals of one check | sweep markers, recover stale agents, recover superseded sessions | races with every control stream; partial failure | `ScanExecution` |
| scheduled scans (`modules/scheduledscan`) | schedules, occurrences, pause flag | create, edit, switch, delete; materialise, attempt, hand off, record, retry, retire | time, a hand-off whose outcome is lost, edits in between | `ScheduledScans` |
| notifications (`modules/notification`) | outbox, facts, deliveries, attempts | create with the business transaction, lease, materialise, deliver, retry, retain | expiring leases, two processes, crash after delivery | `NotificationPipeline` |
| Nuclei templates (`modules/nucleipoc`) | catalogue, sync tasks, candidates, workspaces | create, cancel, claim, clone, stage, promote, recover, clean | lease lost or task recovered under a running goroutine | `TemplateSync` |
| system upgrade, host (`modules/upgrade/upgrader`) | journal, receipts, deployment lock | start, repair, stop, confirm, execute, resume | daemon crashes, migration boundary, lock shared with scripts | `UpgradeHost` |
| system upgrade, Server (`modules/upgrade`) | operation rows, scheduler pause | create, dispatch, reconcile, verify, stop, retry, watchdog | journal replay, lost replies, two writers of a row | `UpgradeOperation` |
| target cleanup (`modules/targetcleanup`) | cleanup jobs | list, reconcile in batches, complete, defer, fail with backoff | writers admitted before the tombstone | `TargetCleanup` |
| result ingestion (`modules/resultingest`, `grpc/agentdata`) | snapshot and asset rows | admit a batch, materialise it | the lease ends between check and write | `TargetCleanup` |
| asset requests, targets, links (`modules/asset`, `modules/catalog`, `modules/identity`) | asset, target, link rows | insert after a check; create, delete | check and insert are two steps | `TargetCleanup` |
| agent licenses (`agentlicense`, `modules/agent`) | entitlement row | import, quota, eligibility | expiry between check and claim | not modelled |
| snapshots, blacklist, fingerprints, identity, security, login visuals, system | single tables | CRUD, search, export | none of their own | not modelled |
| engine installation, MCP server | package cache, replay rows | install, call a tool | file and network I/O | not modelled |
| agent (`src/agent/bin`) | - | - | a closed binary | external |
| engines, SDK, contracts, web client, deployment | - | - | outside the server | not modelled |

`PROJECT.json` lists them all with the reason where a part is left out.

### How the modelled parts interact

A control stream (`Connect`) registers a session of its agent in the registry,
stores its epoch through the heartbeat upsert, closes the leases of earlier
sessions (`FenceSupersededAgentSession`), drains their recovery markers and only
then sends `SessionReady`. A ready session requests tasks; a claim binds an
unbound scan to the agent and leases the task to (agent, session epoch,
request). A terminal result is committed under that lease together with a
recovery marker (`terminal_reconciliation_pending`); then, in transactions of
their own, the next stage is unlocked if this one is over, the scan's status is
recalculated from task counts, and the marker is cleared, set again, and cleared
once the acknowledgement is sent. The monitor wakes on a ticker: it replays the
markers it finds, fails the leases of agents whose heartbeat is stale and marks
them offline, closes leases of superseded sessions of online agents, and replays
the markers again. Operators create, stop and delete scans and delete agents at
any time. All of them share only the database and the registry; nothing but row
locks and conditional updates orders them.

The scheduler materialises the latest due occurrence of each schedule, picks one
occurrence, marks it attempted and calls the ordinary scan creation, which makes
one scan per frozen target in transactions of its own; what was created, not the
error, decides whether the occurrence is retried. An upgrade sets the
scheduler's pause flag and stops all active scans before it dispatches to the
host daemon, whose journal the Server polls. Outcomes of scans, syncs and agents
write an outbox row in their own transaction, which the notification workers turn
into inbox rows and webhook deliveries. Deleting a target writes a tombstone and
a cleanup job; the runner then removes schedules, links, scans and assets in
short transactions, while every writer that was already under way is stopped by
the lock on the target row, or, for result batches, by the execution fence.

### What makes it correct

- scans: a lease is whole, belongs to the agent its scan is bound to and is
  handed out once; a superseded session records nothing; outcomes are final and
  notified once; a stage opens only when the stages before it are over; whatever
  is interrupted is finished by someone;
- schedules: an occurrence comes up once and in order, creates at most one scan
  per target, is tried again only over nothing; disabled schedules are quiet;
  counters add up; nothing starves;
- notifications: an event is told once, to the audience of that moment; only the
  holder of a lease decides; a message is repeated only because of a fault; every
  row is settled in the end;
- templates: the catalogue changes only by a whole, uncancelled sync; a clean run
  leaves no workspace; the one slot is freed;
- upgrade: the migration starts at most once, a plain failure never touched the
  database, success is proven, mutations never overlap, what is confirmed is what
  was verified, outcomes are final, operations end;
- deletion: from the tombstone on a target only shrinks, a completed job leaves
  nothing, results are written by the session that holds the lease, and every
  cleanup ends.

## 2. Modules

| module | what it is |
|---|---|
| `ScanStore` | the scan tables and every transaction that writes them, in any order (`StoreSpec`); the abstract specification of the database side |
| `ScanExecution` | the goroutines: control streams, the monitor, operators, faults; each step is one transaction of `ScanStore` or one registry access; implements `StoreSpec` |
| `OccurrenceLedger` | abstract: what the scheduler promises of an occurrence |
| `ScheduledScans` | the schedule tables, the scheduler goroutine and the hand-off; implements `OccurrenceLedger` |
| `NotificationPromise` | abstract: what is promised of an event and its deliveries |
| `NotificationPipeline` | outbox and delivery workers of several processes; implements `NotificationPromise` |
| `TemplateCatalog` | abstract: what a sync may do to the catalogue |
| `TemplateSync` | tasks, runners, cancellation, recovery and retention of several processes; implements `TemplateCatalog` |
| `UpgradeHost` | the host daemon, executor, journal and deployment lock |
| `UpgradeOperation` | extends `UpgradeHost` with the Server: requests, rows, recovery job |
| `TargetLifecycle` | abstract: what a deleted target may still gain and when it is clear |
| `TargetCleanup` | tombstone, runner and every writer; implements `TargetLifecycle` |
| `ScanClaims`, `UpgradeClaims`, `TargetClaims` | sentences of comments, documents and tests that the code does not keep |
| `MC...` | small instances for TLC |
| `ScanStoreProofs` | theorems about `StoreSpec`, for every value of the constants |
| `ScanExecutionProofs` | the goroutines are type-correct, implement `StoreSpec` and open stages in order, for every workflow and any number of goroutines |
| `ScanRecoveryProofs` | outcomes, fencing and convergence of the goroutines: the invariants of the recovery |
| `ScheduledScansProofs` | the invariants of the schedule tables, and `ScheduledScans => OccurrenceLedger` |
| `NotificationPipelineProofs` | ownership and accounting of the workers, and `NotificationPipeline => NotificationPromise` |
| `TemplateSyncProofs` | clean runs, and `TemplateSync => TemplateCatalog` |
| `UpgradeProofs` | the safety of host and Server together |
| `TargetCleanupProofs` | the result lease, and `TargetCleanup => TargetLifecycle` |

### ScanStore

`scan`, `task` and `agent` are the rows of the tables, reduced to the columns the
protocol reads; `outbox` is the sequence of terminal notification candidates per
scan. `task[t]` has the status, the lease (`agent`, `epoch`, `request`), the marker
(`pending`) and the failure kind. `agent[a]` has the epoch of the last stored
session, `online`, and `fresh`: whether `last_heartbeat` is within the monitor's
cutoff, which `HeartbeatLapses` ends at any time.

An action is one committed transaction, with its whole guard: `Claim` includes
the persisted-session check, the replay lookup and the binding of the scan;
`DeleteAgent` fails the unstarted pinned tasks, ends the scans this settles and
deletes the row. Where a transaction reads rows it does not lock before it writes
(`failRunningTasksForAgent`), the rows it selected are a parameter, so that the
reading and the writing can be two steps of a goroutine. A session is its epoch:
the upsert stores one session identifier per epoch. Resolved plans are reduced
to `Runs`, the tasks whose plan an agent's Engine API majors can run. The order
in which candidates are offered is left open, because rows locked by other
transactions are skipped.

### ScanExecution

`pc[w]` says where goroutine `w` is and `job[w]` holds its handler's locals;
between two steps any other goroutine may run. `live` and `lastEpoch` are the
registry. The labels follow the code:

    stream:   idle -> persist -> attach -> fence -> [disconnect -> recalculate ...]
              -> list -> [reconcile ... -> list] -> ready -> serve
              serve -> heartbeat | claim -> serve
              serve -> [commit ->] reconcile ... clear -> mark -> acknowledge
              -> unmark -> serve
    monitor:  idle -> [reconcile ...] -> stale -> offline -> [disconnect ->
              recalculate ... ->] mark offline -> ... -> snapshot -> sessions
              -> [disconnect -> recalculate ...] -> [reconcile ...] -> idle
    shared:   reconcile -> [unlock ->] recalculate -> [cancel ->] update -> clear

A connected agent may send any request or any result at any time, replays
included; the agent itself is a closed binary. `Reject` is the failure of a check
of a handler; every handler error ends the stream, as `Connect` does. Faults:
`Restart` empties the registry and every goroutine, `BreakHandler` ends a stream in
the middle of its handler, `MonitorFails` skips what the code skips when a query
fails. A handler looks up the registry in one step (`Serve`, `Acknowledge`) and
acts on it in the next, when its session may have been superseded. A stage-count
query and the query after it are one step where nothing is written between them and
the second decides (`ReconcileNext`); the read of a task and the check of its session
likewise (`ReportResult`), the commit checking both again.

### ScheduledScans

`schedule` and `occurrence` are the tables; a time rule is the set of instants it
matches, so that `FirstAfter` and `LatestAtOrBefore` are what the cron calculator
computes, and time is a counter. `pc` and `job` are the locals of `RunPass`:
`idle -> materialize -> attempt -> create -> record`. `Operator` holds every write
of a schedule (create, edit, batch switch, delete, deletion by target cleanup,
retention) and the pause. The hand-off runs `CreateBatch` target by target: a
target may be missed, the batch may fail or exceed its deadline, and a commit
may go unacknowledged (`LoseAcknowledgement`); `ClassifyHandoff` then looks at what
was created. `seen`, `scans` and `untold` are history for the properties.

The refinement: an occurrence is `trying` from `StartAttempt` to the end of its
pass, `closed` once settled, `lost` when a restart left it attempted without an
outcome, and `gone` when its row was removed. `OccurrenceLedger` then says that
nothing leads back from there, that scans are made only while trying and once per
target, and that `TryAgain` needs an occurrence without scans, unless its commit
went unacknowledged, which the code cannot know.

`Garble` is outside the service: a stored configuration or input source that
`StartAttempt` cannot decode. The service writes none, but an attempt on such a row
fails on every pass, and its `last_run_time` is rolled back with it. The other
deterministic errors of a pass need a time rule the calculator rejects, which
`Create` and `Update` refuse; queries that fail are `PassFails`, a bounded fault.

### NotificationPipeline

Each process has an outbox worker (`telling[p]`) and a delivery worker
(`sending[p]`) with lease owners of their own. `Claim` takes due rows and rows
whose lease has lapsed; `Materialize` is one transaction (fact, audience, inbox,
deliveries); settling a row is conditional on the lease (`Owns`). A delivery goes
through `LoadDestination`, `CallProvider`, `RecordAttempt`, `SettleDelivery`, with a
crash (`Crash`), a failed write (`WriteFails`) or a lapsing lease between any two.
A batch that is slower than its lease counts as a fault. The retry window is a
choice: a retryable failure may always have been the last one.

### TemplateSync

`run[p]` is the `RunOnce` of a process with its locals, one store call per step, in
the order of the code; `WatchCancellation`, `WatchLease` and `Interrupt` are the
watchers that cancel its context; `sweep[p]` is the hourly retention job. The
lease of a task is `fresh` or `waited` before its claim, then `held` or `lapsed`;
`LeaseLapses` of a lease that is still renewed is a fault. The transactions of the
catalogue are serialised by their advisory lock, so each is one step.
`TemplateCatalog` knows four phases of a sync, and that only an open sync, not a
stopping one, may install what it validated.

### UpgradeHost and UpgradeOperation

A step of the host is a durable checkpoint with the command in front of it. The
two journal copies are one value because the newer one wins wherever both are
read. `execution[o]` is `idle`, `waiting` for the deployment lock, `working` or
`finishing`; `held` is the lock as the daemon remembers it and `lock` as the
directory says, which differ after a crash or when an operator removes it.
`Dies` forgets everything but the files; `Serve` fences, then resumes. Migration
outcomes, receipts and confirmations are separate because the code writes them
at different times (`CrashInConfirm`). A confirmation releases the lock before it is
answered; `AcceptConfirmLate` and `ReleaseLate` are the two halves of one whose
caller gave up waiting, at most one at a time.

On the Server, `api` is the one request that `Service.mu` lets through, `job` the
recovery job with the event it has read. `Allowed`, `Replayable` and `Writable` are
the transition graph, the journal replay and the guard of `Update`. A read of a
row and the compare-and-set on its status are one step. The watchdog has no clock:
it may fire for any active operation that no request is handing over.

### TargetCleanup

`runner` is the place of `Reconcile`: `next -> confirm -> schedules -> control ->
scans -> assets -> complete`; each step is one transaction, `Defer`, `RunFails` and
`Restart` send the job back to the start. Writers that lock the target row are one
step with `LockActive`; result batches and HTTP asset requests are two, in
`requests` between their check and their write. A scan is its status and the
lease of its running task; `ScanStore` has it in detail. `TargetLifecycle` says
that a deleted target only loses what it owns, except for what was admitted
without a lock while it lived.

## 3. Runs

Every bound is a constant of the `.cfg`, named as a bound where it is declared.

| run | instance | states | shows |
|---|---|---|---|
| `exec_streams` | 3 tasks in 2 stages, 2 streams of one agent, 2 epochs, stop, delete scan | 2,440,000 | leases, idempotent requests and the fence; the stage barrier and owed convergence while an old stream's handler interleaves with its successor's registration |
| `exec_operator` | 2 tasks in 2 stages, 2 agents, 1 stream, monitor, 1 fault, pin, stop, delete scan, delete agent, skipped steps | 1,330,000 | ended scans are settled and notified once, outcomes are final, and the refinement `ScanExecution => StoreSpec` |
| `exec_liveness` | 3 tasks in 2 stages, 1 stream, monitor, 2 epochs, lapse, 1 fault | 306,000 | settled scans end unless stranded, superseded leases close, under fairness |
| `scheduled` | a schedule of a target and one of an organisation of two, 2 rules, 2 instants, 1 retry, 1 command or undecodable row, 1 fault | 542,000 | the invariants of the tables, the refinement `ScheduledScans => OccurrenceLedger`, neither schedule starves behind the other |
| `notification` | 1 event and 1 unreadable envelope, 1 destination, 2 processes, 2 attempts, 1 fault or change | 138,000 | lease ownership, accounting of accepted messages, the refinement `=> NotificationPromise`, nothing is stuck |
| `template_sync` | 2 requests, 1 template, 2 processes, 1 sweeper, 1 fault | 801,000 | the refinement `=> TemplateCatalog`, clean runs, the slot is freed |
| `upgrade` | 2 successive operations of different releases, 1 stop or retry, 1 fault, lifecycle commands | 5,610,000 | the safety of host and Server together |
| `upgrade_liveness` | 1 operation of each kind of release, 1 stop or retry, 1 fault, lifecycle commands, a removed lock, a late release | 231,000 | operations end unless stranded; recovery is reported |
| `cleanup` | 2 targets, 1 schedule, 1 scan, 2 sessions, 1 request under way, 1 fault | 702,000 | the refinement `=> TargetLifecycle`, results belong to the lease, cleanup ends |

Why these sizes are enough for what they check. Transactions of different scans
meet only in the agent row, whose epoch every scan run lets move, so one scan
will do; two stages, one of them parallel, are the least with which unlocking,
waiting for a sibling and cancelling what is left all happen. `exec_liveness` has
a parallel first stage because what a fault can strand needs a stage that opens while
another goroutine decides. In `scheduled` one rule matches every instant, so that a
schedule can be late by two occurrences; both schedules are due together, so that
each waits behind the other, behind its retries, its deleted target and its
undecodable row. What each may be created with and edited to is `Plans` and `Edits`.
In `notification` a batch holds
an event that can be told beside one that cannot, and the second process takes
over whatever the first loses. In `template_sync` the second request is the one the
first task's slot keeps out; with one template the union of two checkouts cannot be
told from one of them, which `Replaced` treats template by template. In
`upgrade` the three pairs of releases put every kind of release before or after
another. In `cleanup` a schedule may move between the targets while one is deleted.
One fault at any point is what the code is written to survive; pairs of faults
were too large for these instances.

`CHECK_DEADLOCK FALSE` stands in runs whose instance stops when its epochs,
requests, commands or faults are used up. In the others TLC checks that no state is
stuck. Symmetry (requests, streams) is used in the one safety run of scans only;
task identifiers are numbers because a batch is taken in their order.

**Fairness.** What is assumed is always that code which has begun goes on, that
tickers fire, and that time passes; never that an agent, an operator, a provider
or a fault acts.

- scans: `WF(StreamWork(w))` and `WF(MonitorWork(w))`: Go schedules a handler and each
  database call returns; the monitor's ticker fires again;
- `scheduled`: `WF(Pass)` for the scheduler goroutine, `WF(Resume)` because a pause
  ends (an upgrade resumes it, or restarts the process, whose flag starts false);
- `notification`: some worker goes on as long as one can, and leases and back-offs
  run out;
- `template_sync`: each run's next call returns (all have deadlines), the retention
  ticker of one process fires, and a lease nobody renews runs out;
- `upgrade_liveness`: requests and the recovery job go on. `SF(JobStalls)` stands for
  the watchdog's clock: a stage that stays the same outlasts the window, although
  the job is between two ticks most of the time. Nothing is assumed of the host:
  it may hang at any checkpoint;
- `cleanup`: `WF(RunnerStep)` for the runner's poll and `WF(RetryFallsDue(t))` because
  `next_retry_at` is at most an hour away.

Faults are bounded, so a liveness property says: after the last fault, it happens.

### Where the code disagrees with its documents

Three runs are counterexamples: they find a behaviour of the code that a sentence
of the repository excludes. Three more disagreements belong to runs that pass.
`PROJECT.json` quotes the sentences of all six ("findings").

- `premature_success`: `recalculateScanStatus` leaves blocked tasks out. A
  recalculation by another goroutine between the commit of a stage's last task
  and the unlock of the next stage ends the scan as succeeded; the later stage
  is unlocked but can no longer be claimed.
- `upgrade_stranded`: a host that fails while the row says `restarting` or
  `agent_verifying` checkpoints `failed`, which the transition graph refuses; the
  recovery job returns that error on every tick before its watchdog, and the
  operation stays active. `OperationsEnd`, the passing property, excepts exactly
  this state (`Stranded`).
- `upgrade`: a confirmation releases the deployment lock after it has let go of the
  daemon's mutex, and releases the one the daemon holds by then. When its caller gave
  up waiting, that may be the lock of the next operation, although the comment of
  `releaseDeploymentLock` says it leaves the lock of another owner alone. The run has
  no `"late release"` in its `Events`; with it TLC finds commands without the lock
  (`MutationsNeverOverlap`) after one lost reply.
- `cleanup_unserialized`: an HTTP asset request reads the active target without a
  lock and inserts later; its rows can land on a tombstone whose cleanup has
  completed. `KeepsTheLifecycle` excepts exactly these requests (`late`).
- `exec_liveness`: a scan is stranded when a goroutine fails between the cancellation
  of what had not started and the write of the status it has decided, and the others
  counted before that cancellation (section 4, *Convergence*). No marker is left,
  although comments promise that one is kept for recovery. `SettledScansEnd` excepts
  exactly this state (`Stranded`); without the exception TLC finds it on the same
  instance.
- `scheduled`: disabling a schedule deletes every occurrence without an outcome, the
  one waiting for a retry and the one being handed off included; three sentences of
  the documents say that only unattempted ones go and that an attempt goes on. (The
  hand-off does go on, but its row is gone and its outcome is counted nowhere.)
  `DisabledScheduleIsQuiet` states what the code does; its mutant,
  `OccurrencesUnattempted`, is what the documents say.

The passing runs are chosen so that these are out of the way of what they
check, never by changing the code's behaviour: `exec_operator` has no lapses, which
are the road to `premature_success` in a sequential workflow.

### Observed while modelling, not checked by a run

Behaviours of the code a maintainer should know of; each can be found with the
modules here by adding the property it violates.

- scans: a success reported after a sibling's failure opens the next stage
  (`findNextUnlockableStageOrder` looks only beyond the finished stage); the fence
  skips scans that have failed meanwhile, so a ready session may find a running
  lease of its predecessor; a claim between recovery and the mark as offline
  leaves an offline agent with a running lease; a task running when its agent is
  deleted is never closed;
- schedules: a row that `StartAttempt` cannot decode is selected first on every pass
  and holds back the schedules that have waited less long (`HeldBack`, excepted by
  `OccurrencesAreTakenUp`); a lost commit acknowledgement is retried and makes a second scan; a
  pass that has read the pause flag goes on to its end;
- templates: a second process may finish the cancellation of a task whose runner
  still works; the retention job may remove the workspace of a running sync (its
  key not yet stored, or the read of the keys failed); a restart within thirty
  seconds leaves the slot taken until the next hourly pass; a cancelled task is
  recovered as clean although its directory exists when its key was not stored;
- upgrade: an operator who removes the lock under a live daemon lets a lifecycle
  command overlap a repair, because the daemon does not look again at a lock it
  remembers; a journal read while it is written counts as corrupt and ends the
  operation; a terminal event reconciled before `PrepareForUpgrade` has set the pause
  leaves it set; a retry does not pause again; a v1 journal stays at `verifying`
  and keeps the host from a next operation; a stop that arrives in `finishing` is
  lost; an execution that waits behind another operation's fence waits until it
  is stopped;
- cleanup: the cancellation of scans by the cleanup queues no notification.

## 4. Proofs

`ScanStoreProofs` proves, for every set of scans, tasks, agents and requests,
every workflow and every `MaxEpoch`, from `WorkflowAssumption` and
`IdentityAssumption` alone:

| theorem | says |
|---|---|
| `TypeCorrectness` | `StoreSpec => []StoreTypeOK` |
| `LeasesAreSound` | `StoreSpec => []LeaseIntegrity` |
| `RequestsAreIdempotent` | `StoreSpec => []OneTaskPerRequest` |
| `NotificationsAreRight` | `StoreSpec => []NotificationAgrees` |
| `OutcomesNeverChange` | `StoreSpec => OutcomesAreFinal` |
| `SupersededSessionsAreFenced` | `StoreSpec => SupersededSessionIsFenced` |

The inductive invariant is `StoreIInv`: the four invariants and
`NothingBeforeCreation`, which says that a scan not yet created has absent tasks
and is bound to nobody. Without it, creating a scan could overwrite a lease.
Most transactions are *quiet*: they write no lease, start no task, and change no
binding or epoch in a way a lease could notice. `QuietStepKeepsLeases` proves
once that a quiet step keeps leases and requests, `QuietTransactions` that all
but `CreateScan` and `Claim` are quiet, and these two have lemmas of their own.
`TypeStep` and `NotificationStep` go action by action. The two action properties
follow from the invariant step by step.

### The goroutines

`ScanExecutionProofs` and `ScanRecoveryProofs` are about `ScanExecution`, for any
number of streams and monitors, any bound on faults and any set of events, from
`WorkersAssumption` and the two assumptions above:

| theorem | says |
|---|---|
| `ExecutionTypeCorrectness` | `Spec => []ExecutionTypeOK` |
| `ExecutionImplementsStore` | `Spec => StoreSpec`: every step of a handler, of the monitor or of an operator is one transaction of the tables, or leaves them alone |
| `ExecutionKeepsTheTables` | hence all that is proved of `StoreSpec` holds of the goroutines |
| `StagesOpenInOrder` | `Spec => []StageBarrier` |
| `EndedScansAreSettled` | `Spec => []EndedScanIsSettled` |
| `ReadySessionsAreAlone` | `Spec => []ReadySessionIsAlone` |
| `ConvergenceStaysOwed` | `Spec => [](faults = 0 => ConvergenceOwed)` |

A step of a handler is a transaction of `StoreNext` only if the handler's locals
are fit for it: a task reported by a session must come with that session's agent
and a positive epoch, a status write with a scan and a terminal verdict. Types
do not say so (an idle goroutine has no agent), so `ExecutionIInv` adds
`HandlersOK`: for each label, what the locals must hold there. That a step keeps
it is proved once (`MovesKeepHandlers`: a step moves one goroutine to a label its
new locals are fit for) and per action by showing the move (`StreamWorkMoves`,
`ReconcileMoves`, `MonitorWorkMoves`, ...); the sub-machines handlers share,
recalculation, selection and the list of tasks left, have lemmas of their own.

`StageBarrier` is not inductive: `UnlockStage` acts on a task count another
transaction read before it, and in between streams, monitors and operators go on.
`StageIInv` strengthens it with `StagesInOrder` (nothing of an opened stage is
blocked) and `UnlocksAreDue` (a goroutine about to unlock has a succeeded task
with nothing unfinished at or before its stage). The argument is that what is
finished stays finished: all steps but creation and unlocking are *stage-quiet*
(`StageSteps`), creation concerns tasks nobody can be unlocking for
(`CreationKeepsDue`, from `NothingBeforeCreation`), and an unlock takes the
earliest remaining stage as a whole (`UnlockKeepsOrder`).

The three parts of `ScanRecoveryProofs` each have an inductive invariant of their
own, on top of `ExecutionIInv` and `StoreIInv`. `WhoMoves` says once that a step
moves one goroutine, or none, or resets all of them.

*Outcomes.* `OutcomeIInv` adds to `EndedScanIsSettled` what a goroutine knows that
is about to write a failure or a cancellation (`DecisionOK`): the scan exists, and at
`update` nothing of it is unstarted. A scan row becomes failed or cancelled only
there, or in a transaction that ends the unstarted tasks itself (`StatusStep`); and
nothing becomes unstarted again (`BarrenStays`), because unlocking only turns blocked
tasks into pending ones and creation is over. So it does not matter how stale the
count behind the verdict was.

*Fencing.* `FenceIInv` says how far the handler of a registering session has come
(`Fenced`): its session is the agent's last or was one of them (`Passed`); while it
is about to disconnect, the scans it has selected include that of every lease of
an older session in an active scan; from then on there is no such lease (`Alone`).
The selection may be stale when it is used, but only in one direction: no older
lease comes up after the session was stored (`PassedStays`), since a claim requires
the stored session, and a session once passed stays so.

*Convergence.* `ConvergenceOwed` is not inductive: a marker does not help if the
goroutine about to clear it counted before the scan was settled. `OwedIInv` asks
for a marker that no goroutine is past counting for (`Sure`), or a goroutine
that has decided; and `TasksInHand` for every reconciled task to be over and of the
scan its goroutine recalculates. A scan becomes settled when its last pending or
running task goes; whatever ends that task leaves a marker on it, or was
the cancellation of a goroutine that has decided (`LastTaskOwes`). No goroutine can be
past that marker: it would have been over before. From then on a count of the scan
decides, so a goroutine gets past the marker only by writing the status
(`PastCountStep`), after which the scan is not active (`UpdateEnds`). That a created
scan is not settled at once follows from the order of its stages, by induction on
their numbers (`CreatedScansWait`, `LeastNumber`).

The theorem asks for `faults = 0`: no restart, no handler cut off, no failed query. With
one fault a stream and the monitor can strand a scan. Tasks 1 and 2 are stage 1
and task 3 is stage 2. Task 1 has failed; the monitor's sweep has listed its marker,
then its own handler clears it. Task 2 succeeds. The monitor, still at task 1,
counts a failure and stands before the cancellation; the stream unlocks stage 2,
which a failed sibling does not prevent, counts an undecided scan and clears the
marker of task 2. The monitor now cancels task 3, and the server restarts, or the
write of the status fails: the scan is active, with nothing to wait for, no marker
and nobody about to decide. It stays so, since a sweep starts from markers, and a
fence from running leases. `exec_streams`, which checks `ConvergenceOwed`, has no
fault; `exec_liveness` has one at any point, and its `SettledScansEnd` says that
settled scans end in every other case: a fault before the decision, after the status
write, in the fence or the recovery of a lease, or with a marker left.

All these invariants were checked by TLC on instances of their own before they
were proved.

### Scheduled scans

`ScheduledScansProofs`, from `ScheduleAssumption` alone, for any schedules, owners,
time rules, retries, commands and faults:

| theorem | says |
|---|---|
| `ScheduleTypeCorrectness` | `Spec => []TypeOK` |
| `CursorsRunAhead` | `Spec => []CursorIsAhead` |
| `DisabledMeansQuiet` | `Spec => []DisabledScheduleIsQuiet` |
| `AggregatesAreSound` | `Spec => []AggregatesAddUp` |
| `SchedulerKeepsTheLedger` | `Spec => KeepsTheLedger`, the refinement of `OccurrenceLedger` |

`IInv` adds to these `Links`: rows belong to a schedule that was given out
(`RowsBelong`), what came up is past (`SeenIsPast`), a row agrees with the scans that
exist for it (`OccurrencesAreHonest`), and the locals of the pass agree with the row
they were read from unless a command has closed that row meanwhile
(`PassIsFaithful`). That last part is what the refinement rests on: the pass acts
on an occurrence it read several transactions earlier, and `RecordOutcome` and
`TryAgain` are steps of the ledger only if the row is still the one attempted. The
counters are sums over the instants of a schedule; `AggregatesIInv` states them as
cardinalities, and each step is shown to move one occurrence from one class to
another.

### Notifications

`NotificationPipelineProofs`, from `NotificationAssumption` (the processes are finitely
many, no row is named `None`), for any events, users, destinations, batch sizes,
attempts and faults:

| theorem | says |
|---|---|
| `TypesHold` | `Spec => []TypeOK` |
| `AcceptanceAccounted` | `Spec => []AcceptanceIsAccounted` |
| `OwnerDecides` | `Spec => OnlyTheOwnerDecides` |
| `PromiseKept` | `Spec => KeepsThePromise`, the refinement of `NotificationPromise` |

Workers outlive their leases, so a worker's locals say little about the row, except
to the one who still owns it. `AttemptsAreOwned` and `CountsAreFresh` say what an
owner knows (the row it holds is at the attempt it has counted), `SendersAreTidy`
what any worker's locals satisfy at each label, `EventIInv` the same for the
outbox, and `DeliveriesAreOwed` that a delivery has its fact. `Books` is the
accounting: every message a provider accepted is the delivered one, or is still
in the hands of a worker (`Settling`, `Late`), or was paid for by a fault, and no
attempt exceeds the budget by more than the workers that lost the row. It counts
workers, hence the finite set of processes; each step moves a worker from one
class to another.

### Template synchronisation

`TemplateSyncProofs`, from `SyncAssumption`, for any processes, retention jobs,
requests, templates and faults:

| theorem | says |
|---|---|
| `SyncTypeCorrectness` | `Spec => []Types` |
| `CleanMeansClean` | `Spec => []CleanRunsLeaveNothing` |
| `CatalogIsKept` | `Spec => KeepsTheCatalog`, the refinement of `TemplateCatalog` |

The invariant has three layers. `OneActive` and `ClaimsAreAlone`: one task is active,
and a run that is past its claim has its row for itself. `RowOK`: what holds of a
row whoever wrote it, for example that an unclaimed task has neither candidates nor a
workspace. `RunOK`: what a run may rely on after others have written its row; that
a cancellation it heard of stays one, that its claim is recorded, that what it
staged is what the checkout held as long as the task has not been stopped
(`StagingIsFaithful`), and that nobody settled its workspace while it works
(`WorkspaceIsOwn`). `RunStepKeeps` reduces a step of a run to the row it touches;
the writes of operators, of the cancellation and of the retention job are shown to
be `Steady`, that is, to keep what runs rely on. A promotion is a step of
`TemplateCatalog` because `StagingIsFaithful` still holds in the transaction that
reads the task as not cancelled.

### Upgrade

`UpgradeProofs`, from `UpgradeAssumption`, for any
operations, releases and bounds:

| theorem | says |
|---|---|
| `UpgradeTypeCorrectness` | `Spec => []TypeOK` |
| `OneMigration` | `Spec => []MigrationRunsOnce` |
| `CleanFailure` | `Spec => []FailureIsClean` |
| `MutationsExclude` | `LockKept` implies `Spec => []MutationsNeverOverlap` |
| `ConfirmationFence` | `LockKept` implies `Spec => []ConfirmationIsFenced` |
| `ProvenSuccess` | `Spec => []SuccessIsProven` |
| `FinalOutcomes` | `Spec => OutcomesAreFinal` |

The migration is started once because the journal says so before the command
runs and no crash or resumption takes it back (`JournalRemembers`). Exclusion needs
that the directory's lock follows what the daemon and the lifecycle script hold
(`LockFollowsHolder`), that whoever runs commands holds it (`WorkIsHeld`), and that a
host past its verification does (`VerifiedIsHeld`). It is not true when an operator
removes the lock of an ended operation under a daemon that remembers it, nor when a
confirmation releases the lock late, as section 3 describes; `LockKept` is exactly
the absence of these two events (`NothingComesLate`), the run `upgrade` satisfies it,
and it restricts nothing else. `ProvenSuccess` follows a claim
from host to Server: what a row, the copy of a request or the event of the recovery
job says of receipts and migration is shown by the host's files (`EvidenceIsShown`),
although copies are read at one time and written at another (`CopiesAreOpen`).
`FinalOutcomes` is then one case per writer of a row.

### Target cleanup

`TargetCleanupProofs`, from `CleanupAssumption`, for any targets, schedules, scans,
sessions, requests, order of resources and batch bounds:

| theorem | says |
|---|---|
| `CleanupTypeCorrectness` | `Spec => []TypeOK` |
| `LeasedResults` | `Spec => ResultsBelongToTheLease` |
| `CleanupKeepsTheLifecycle` | `Spec => KeepsTheLifecycle`, the refinement of `TargetLifecycle` |

`Links` is what the runner relies on between its transactions: an active scan has a
target (`ActiveScansHaveTargets`), jobs and tombstones go together
(`JobsFollowTombstones`), the runner works on a job that is still pending
(`RunnerWorksOnPendingJobs`), and an absent target owns nothing (`BareOutsideLife`). A
writer that locks the row cannot pass the tombstone; one that was admitted earlier
can, and the refinement accounts for it in `late`.

### Where a proof changed a model

Each inductive invariant was first checked by TLC as an invariant of a run, with
more faults than the run has where that was possible: 542,000 states of
`ScheduledScans`, 1,640,000 of `NotificationPipeline` and 5,250,000 of `TemplateSync`
(two faults each for the last two), 5,610,000 of `UpgradeOperation`.

The refinement mapping of `TemplateSync` had a `CASE` whose arms overlapped
for a task that is being cancelled. TLC takes the first arm, the logic does not say
which; `PhaseOf` now has disjoint arms. `NotificationPipeline` has a `CASE` whose arms are
disjoint only by the invariant `SendersAreTidy`, which is why that part is needed.
A nested `@` is not read by the prover as TLC reads it, so nested updates are
written out.

## 5. What is only model-checked

- Liveness, which is out of the prover's reach together with `ENABLED`: `SettledScansEnd`
  and `SupersededLeasesClose`, `OccurrencesAreTakenUp`, `NothingIsStuck`,
  `SlotIsFreed`, `OperationsEnd`, `RecoveryIsReported`, `CleanupEnds`.
- That a settled scan ends after a fault unless it is stranded (`SettledScansEnd`), on
  the instance of `exec_liveness`. The marker left for the recovery
  (`ConvergenceOwed`) is checked and proved without faults.
- The disagreements of section 3, which are counterexamples.

## 6. What is not modelled

Of the modelled parts:

- scans: the contents of plans, configurations, results and diagnostics, and which
  of several failures becomes the scan's (`selectCanonicalFailedTask`); the license
  guard of claims and creation; outbound events to agents (`task_cancel`,
  configuration, update), which are lossy and whose effect is in a closed binary;
  the page size of the marker query; database errors in stream handlers other than by
  ending the stream at any step (`BreakHandler`);
- schedules: cron parsing and time zones (a rule is the set of its instants), the
  timer between passes, listing;
- notifications: reading, marking and expiry of the inbox, realtime hints, test
  deliveries, provider responses, destination reconciliation at startup;
- templates: request fingerprints, counters, diagnostics, rows of sources, expiry of
  request tombstones, the overflow of the runner's queue, validation of a template;
- upgrade: manifests, scope plans and digests (they always match), agent
  expectations (verification may succeed, fail, need recovery or take another tick), progress
  events, host activity, deployment files;
- cleanup: diagnostics and backlog metrics; five of the six asset resources, which
  do the same; decoding and merging of result items.

Steps of the code that are one step of a model, and why nothing told apart is lost:

- schedules: `RetireOccurrences` is all batches of `DeleteOccurrenceBatch`, which remove
  rows nobody will look at again; `ClassifyHandoff` has no `HandoffCanceled`, because
  the outcome is written under the same cancelled context and fails with it;
- notifications: a destination that cannot be read for good is a bounded fault;
- templates: `PromoteCandidates` treats a task found already succeeded as any other
  that may not be promoted, and clone and validation failures are bounded faults;
- upgrade: `Stop` is one step with the diagnostic `Update` after its read, which changes
  no column of the model;
- cleanup: `Materialize` writes snapshot and asset rows for every batch (a
  `currentOnly` result has no snapshot row), and `InsertAssets` writes one row where the
  code inserts statements of 500, each under the same check made earlier.

Isolation anomalies of READ COMMITTED inside one statement are not modelled.

Parts left out: agent licenses and engine installation (a quota, and a package cache
with signatures and network I/O), snapshots, blacklists, fingerprints, identity,
security, system settings (single tables), the MCP server, the web client, the
engines, generated contracts and the deployment scripts other than their lock. Most
of the repository's lines are generated code, request handlers, user interface
and engine wrappers of this kind.

## 7. Plan

1. `LeaseIntegrity` across the composition: that what a session serves was claimed by
   that session, from the handlers' locals.
2. `AgentLicense`: quota and eligibility at claim.
