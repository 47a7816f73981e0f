# Verification of agent-task-center

`agent-task-center` (`atc`) is an HTTP service that keeps a queue of tasks for AI
agents in one SQLite file. Clients create or classify tasks, workers lease them,
send heartbeats and report results under a fencing token, and a background loop
takes back leases that have run out. This directory models the service in TLA+,
checks it with TLC and proves its main safety properties with TLAPS.

## 1. The system

| Component | Source | State | Operations |
|---|---|---|---|
| Task queue API | `internal/api/tasks.go` | `tasks`, `task_attempts` | create, PATCH, DELETE (cancel), lease, heartbeat, complete, fail, list, get |
| Expiry loop | `internal/queue/expiry.go` | the batch of one iteration | scan, then requeue or time out each task of the batch |
| Classification | `internal/api/classify.go`, `internal/ai/classify.go` | `tasks` | look a title up, answer from the cache, ask the model, insert or requeue |
| Audit events | `internal/api/events.go` | `task_events` | append, list |
| Workflows, workspaces | `internal/api/workflows.go`, `workspaces.go` | `workflows`, `workspaces` | create, update, delete, get, list |
| Logs | `internal/api/api.go` | `task_logs` | ingest a batch, query |
| Database | `internal/db/db.go`, `migrations/0001_init.sql` | the file, `schema_migrations`, the pool of `database/sql` | open, migrate |
| Process | `cmd/atc/main.go` | listener, signal channel, loop | start, serve, drain, exit |
| Lists | `internal/api/tasks.go`, `internal/db/tasks.go`, `internal/dashboard/dashboard.go`, `logs.go` | none | GET /api/tasks and /api/logs with limit and offset, the pages /tasks and /logs |
| Metrics | `internal/api/metrics.go`, `internal/dashboard/metrics.go` | `updated_at`, `started_at`, `ended_at` | counts by status, retry rate, throughput, average durations |
| Detail queries | `internal/db/tasks.go` | none | one task with its events and logs |
| Model providers, configuration | `internal/ai/*.go`, `internal/config` | none | one external call; environment variables |
| Example worker | `examples/worker.sh` | a token | a client of the API |

**How they interact.** All handlers and the loop share one `*sql.DB`; they meet
nowhere but in the tables. There is no lock in the program: each HTTP request has
its goroutine, each statement outside the lease handler commits on its own, and
only the lease handler opens a transaction. WAL mode gives that transaction a
snapshot at its first read; its first write fails if anything was committed
since. A handler typically checks in one statement, writes in a second, closes
the attempt in a third and appends an event in a fourth, and drops the errors of
the later ones. Workers talk to the queue only by the token a lease gave them.

**What is hard here.**

- Interleavings: everything between the check and the write of one handler, and
  between the scan of the loop and its updates.
- Crashes and failing statements between those steps; errors that are dropped.
- Attempts that the expiry leaves open, so old tokens come back.
- Slow classification: the lookup and the insert are seconds apart.
- References that only one connection of the pool enforces.
- Migrations that are neither atomic nor exclusive; signals at any moment.
- Lists that are read a page at a time, COUNT and page in two statements, while
  rows come, go and change places.
- Dates that are read at one statement and written at another, and refreshed by
  whoever writes the row next.

`PROJECT.json` lists each of these at its line under `hazards`.

**What makes each part correct.**

- *Queue.* A fencing token is issued once and tokens grow; a leased task has one
  owner, an open attempt and a deadline that is near; only the owner's token is let
  through; a lease is granted to the best eligible task; what is settled stays settled.
- *Loop.* What has run out is taken back, in spite of everything else.
- *Events.* The trail never tells of something that did not happen, and is
  complete when nothing failed.
- *Classification.* It may queue a settled task again, and nothing else may.
- *Catalog.* References hold; DELETE is final; a task gets the values its request gives.
- *Lists.* Who reads to the last page has seen every row there was, once, and only
  rows that were asked for.
- *Metrics.* Every task is in one of the counts, and what happened counts when it
  happened, once.
- *Process.* Nobody serves an incomplete schema; every start gets through; a
  signal lets the handlers finish.

## 2. Modules

| Module | What it holds |
|---|---|
| `TaskQueue` | the queue, the loop, classification and the audit events; its properties and inductive invariant `IInv` |
| `LeaseLedger` | the abstract specification: one status and one counter of grants for each task |
| `TaskQueueProofs` | `IInv` is invariant, and the safety properties that follow |
| `TaskQueueHistoryProofs` | what was decided or recorded earlier: the choice of a lease, the audit trail, settled tasks, attempts beyond the maximum |
| `TaskQueueActionProofs` | `OwnerOnly`, and that `TaskQueue` implements `LeaseLedger` |
| `TaskQueueDeadlineProofs` | deadlines: whatever overlaps, a lease ends within its timeout |
| `Metrics`, `MetricsProofs` | `TaskQueue` with the dates of its rows, and the queries of a report; the theorems about them |
| `Catalog`, `CatalogProofs` | workflows, workspaces, defaults and references of tasks and logs, the pool of connections; the theorems about them |
| `Listing`, `ListingProofs` | one client that walks through a list while others write; the theorems about walks of any length |
| `Service`, `ServiceProofs` | processes on one file: migrations, listener, signals, drain, crashes; the theorems about them |
| `Deployment` | the abstract specification of `Service`: one schema, one server, the requests in its handlers |
| `MCTaskQueue`, `MCMetrics`, `MCCatalog`, `MCListing`, `MCService` | values and symmetries for TLC |

### TaskQueue

`task[t]` is the row of a task, `attempts[t]` the sequence of its rows in
`task_attempts`, `events[t]` the kinds of its rows in `task_events`. `req[r]` is
the local state of a handler: `pc` names the statement it runs next, the other
fields are its local variables. `loop` is the same for the expiry loop. `snap`
is the set of lease transactions whose snapshot is still the newest state: every
commit empties it (`Commit`), and `LeaseCommit` needs to be in it, else
`LeaseConflict` answers 500. `held` are the tokens that reached a worker; a
worker may call with any of them at any time, so repeated and late calls are
included. `swallowed` records that some statement failed and its error was
dropped; properties that such a failure breaks say so.

| Action | Code |
|---|---|
| `Create` | `handleCreateTask` |
| `PatchCheck`, `PatchWrite` | `handleUpdateTask`: SELECT status; UPDATE WHERE id |
| `CancelCheck`, `CancelWrite` | `handleCancelTask`: the same |
| `LeaseBegin`, `LeaseSelect`, `LeaseNothing`, `LeaseCommit`, `LeaseConflict` | `handleLeaseTask`: the clock; the transaction's reads; 204; INSERT, UPDATE, COMMIT; SQLITE_BUSY_SNAPSHOT |
| `HeartbeatBegin`, `HeartbeatRead`, `HeartbeatWrite` | `handleTaskHeartbeat`: the clock; the token check; the UPDATE, and whether its event is a heartbeat or a progress |
| `CompleteValidate`, `CompleteWrite`, `CompleteClose` | `handleCompleteTask`: `validateFencingToken`; the task; the attempt |
| `FailValidate`, `FailRead`, `FailWrite`, `FailClose` | `handleFailTask` |
| `ClassifyRead`, `ClassifyUpdate`, `ClassifyInsert` | `ClassifyHandler`: lookup and cache; the writes after the model has answered |
| `AppendEvent` | the event at the end of a handler, and its reply |
| `Abort` | a statement whose error the handler returns |
| `LoopScan`, `LoopUpdate`, `LoopSkip`, `LoopTimedOut`, `LoopRetried` | `runExpiry`, `processExpiredTask` |
| `Crash`, `Tick` | the process dies and starts again; the clock |

Abstractions: ids are model values; workspace, workflow, step, domain and
priority are one value, the *route*, and a filter is the set of routes it
admits; `context` and `context_hash` are two columns, and a hash stands for the
title and the context it was computed of; timeouts, attempts and backoff
are a member of `Configs`; the clock counts seconds, as the RFC 3339 strings of the
code do. Lease and heartbeat read the clock in a step of its own, before their first
query; where fail and the loop read it just before a query, the two are one step.
`Faults` says which failures may happen: `crash`, `reported` (a statement
fails and the handler says so) and `ignored` (it drops the error). `SQLITE_BUSY`
is one way for a statement to fail.

### Catalog

Every statement takes a connection of the pool (`Take`) and gives it back
(`Executed`), which closes it when `MaxIdle` connections are idle already.
`enforcing` are the connections on which `PRAGMA foreign_keys=ON` ran: the first
one, as long as it lives. `Enforced` is a constraint as that connection sees it.
`ReadWorkflow` and `UpdateWorkflow` are the two statements of a PUT, `ReadDefaults`
and `InsertTask` those of a POST of a task; `Own` are the values of the request
with 300 and 3 in place of what it leaves out, `Inherits` the condition under
which the workflow's replace them. The columns of a workflow are two, the
definition and the defaults, and of the defaults the timeout and the attempts; the
backoff is treated as the attempts are. The reference of a log
row to an attempt is left out; it behaves like the one to its task.

### Listing

`view` is the list, `table` what is read, `walk` the client with its request:
`Begin`, then `Count` and `Serve` for each page (`Serve` alone for /logs, which reads
one row more instead of counting), `Retry` when a request fails. `Insert` and
`Change` are the writers. `IsPage` is `LIMIT n OFFSET o`: SQL promises no order of
rows whose ORDER BY columns are equal, so each such group may give any of its rows, in
every statement others. `Replies` is what is sent of a page: /tasks does not ask whether
its rows ended early, and sends what came. A column is known by what the filter tells apart (`col`,
`prio`); `created_at` is an instant and the zone it is written in, compared as the
strings are (`Earlier`). Server stamps are in UTC, a client's log rows in any zone.

`walk.steady` and `walk.still` are history: the rows that were in the list when the
walk began and that no writer has made possible to miss since, and the rows that
were served and that no writer has made possible to see again. `Steady` and `Still` say
which writes do that: a change of the row, a row with the same key, a row ahead that
leaves (for `still`: comes), and a row that comes in ahead between COUNT and page. A row
that a reply leaves out of its page is not steady any more.

### Metrics

`Metrics` EXTENDS `TaskQueue`: each step of the queue is taken together with the dates
it writes. `updated` and `span` are the columns, `clock[r]` the earliest time that
the handler can have read; `Readings` are the times a step may write, since the
code reads the clock once and writes it at a later statement. A query is a
function of the state: `StatusCount` and `Reported` (the GROUP BY and the `switch`
over its rows), `Throughput`, `Durations`. `Writes` are the steps that set `updated_at`,
a PATCH that leaves the other columns as they are among them. The retry rate has no
definition: its query compares `result_code` with a value that is never written.

### Service

`applied` are the statements of the files that the schema has, `recorded` is
`schema_migrations`. A process goes through `Open`, `Check`, `Apply` (one
statement), `Record`, then starts the goroutine of the listener and goes on to
`signal.Notify`: `Listen` and `Notify` come in either order. `Signal` before
`Notify` ends the process as the Go runtime does; after it, the process drains and
ends by `Drained` or `DrainTimeout`. A request is in `handling` from when the listener has
accepted its connection: `Shutdown` waits for a handler that has yet to start, too. `Crash`
stands for a crash anywhere and for the exits of `main`: a statement of the migrations
that fails, an address that cannot be used, `ai.NewProvider` without its settings. A start
that fails every time is not an interruption that ends, and `StartupServes` does not
promise it anything. `applied` and `recorded` survive. The
real repository has one file today; `Versions` is a parameter since the loop is
written for any number.

`Deployment` is what the processes promise together: the schema goes through its
versions one by one, the address belongs to one process, which gets it when the schema
is complete, and accepted requests end one by one unless their process is cut off.
Under `Promised` its `schema` is `schema_migrations`, its `server` the process that
listens, its `handling` the requests whose handlers have not returned; checking,
applying, `signal.Notify` and the drain are not seen.

## 3. Runs

Passing runs (`CHECK_DEADLOCK FALSE` everywhere: the clock and the leases are
bounded, clients need not call, a process may stay down, the ids run out, a walk
ends).

| Run | States | Instance | Shows |
|---|---|---|---|
| `leases` | 1,855,853 | 1 task, 2 workers, 2 handlers, 2 leases, `max_attempts` 2, time 0..2, events kept; create, lease, heartbeat, complete, fail | `LeaseBacked`, `LeasedAttemptOpen`, `OwnerOnly`, `EventsGrounded`, `EventsComplete`, `DeadlineNear` |
| `failures` | 744,080 | 1 task, 2 handlers, 2 leases, time 0..2; classify, lease, complete, fail and cancel, with crashes, reported failures and dropped errors | `TypeOK`, `TokensAgree`, `SettledForGood`, `ImplementsLedger` |
| `choice` | 2,416,381 | 2 tasks, 2 priorities, 2 filters, 2 handlers; PATCH, DELETE, fail and classification beside leases | `GrantIsBest` |
| `metrics` | 258,054 | 1 task, 1 handler, 4 leases, `max_attempts` 1 and 2, time 0..3, windows of 2 and 1, fairness; create, PATCH, lease and the answers, crashes and reported failures | `AttemptsCapped`, `ExpiredReaped`, `MetricsTypeOK`, `CountsCover`, `ThroughputDated`, `DurationsFixed` |
| `catalog` | 695,300 | 2 handlers, 2 connections, a pool that keeps 1, requests that give a timeout only or attempts only; all operations of `Catalog` | `TypeOK`, `FirstConnectionKeepsReferences`, `DeletedStaysDeleted` |
| `startup` | 4,834 | 2 processes, 2 versions of 2 statements, 1 request, 3 interruptions, fairness | `TypeOK`, `MigrationsInOrder`, `ServesMigrated`, `StartupServes`, `SignalsDrain`, `DrainFinishes`, `ImplementsDeployment` |
| `pages` | 136,512 | the four lists, 3 rows, 2 columns, 2 priorities, 3 timestamps of 2 zones, limits asked of 0 and 3 with a default of 1 and a maximum of 2, pages of 2 | `TypeOK`, `WalkFinds`, `ServedOnce`, `ServesWanted` |

**Why these bounds are enough.** A lease lasts one second, so time 0..2 holds a lease, its
expiry (`lease < now` needs two ticks) and a second lease, which expires as well if the
first was ended early. In `metrics` a lease has run out at the next tick (`Short`), so that
time 0..3 holds several of them, and the windows of the rates are shorter than the run, so
that what happened drops out of them. Two leases of one task are what a
stale token needs. Two handlers make every pair of steps interleave, and the loop
is a third actor; the properties speak of one handler, or of one handler and the
task, so a third handler adds nothing that another choice of the two does not.
Handlers are symmetric; symmetry is not used with liveness. In `metrics` there is one
handler, which overlaps with the loop: `Cap` is `max_attempts` plus one, 3, and the run
allows a fourth lease, which only the bound on stale decisions keeps away; the second one
beyond `max_attempts` of 1 likewise. The conditions of `ThroughputDated` and
`DurationsFixed` (section 3, What the code does not promise) hold of one handler by
themselves; they are proved for any number. One task is enough where tasks do not
influence each other; `choice`, where they do, has two. `MaxIdle = 1` in
`catalog` lets the pool close connections with two handlers, as the code's two would
with three. In `startup`, three interruptions stop either process in either version
and once more after that. In `pages`, three rows and pages of one and two give a full
page, a half page, an empty one and a second page with a row ahead of it; the limit
asked for is absent or above the maximum. The invariants proved below hold without any of these
bounds.

### What the documents say and the code does not do

Each of these runs has one property, taken from a document, and TLC finds a
behaviour of the code that violates it. The passing properties are stated so that
they hold beside them.

| Run | Behaviour |
|---|---|
| `zombie_fail` | the loop requeues a task and leaves its attempt open; another worker leases and completes it, and its attempt is closed; the first worker's attempt is the newest open one again, and its fail requeues the completed task |
| `stale_count` | the loop scans at `attempt_count = 1`; the worker fails, another one leases; the loop requeues at `attempt_count = 2 = max_attempts`, and a third lease follows |
| `dangling` | a statement on the second connection inserts a task whose workflow does not exist |
| `late_complete` | a complete passes the token check, its lease runs out, the loop requeues the task and another request leases it; the complete then writes its UPDATE and ends the task of the new owner (`src/prd/04-non-functional-requirements.md:15`) |
| `given_values` | a POST of a task names a workflow, gives `max_attempts` and no timeout; the workflow's `max_attempts` replaces the given one (`src/prd/03-functional-requirements.md:125`) |

Two more need no search, the definitions show them. `src/prd/06-api-spec.md:104` says of
PUT /api/workflows/{name} "Only provided fields change."; `UpdateWorkflow` writes every
column from the row that `ReadWorkflow` read (`workflows.go:191-205`), so of two PUTs of
different columns the second undoes the first. `src/prd/03-functional-requirements.md:229`
lists the retry rate of the last hour; `metrics.go:121` counts the result code `retry`, and
`Close` and its callers write `completed` and `failed` only, so the rate is 0.

### What the code does not promise

Some properties hold under a condition that the code needs, too:

- `AttemptsCapped` allows as many attempts beyond `max_attempts` as there are
  handlers: fail and the loop compare the count in one statement and queue the task in a
  later one, and each handler, and the loop, may act on a count that was true before the
  others wrote (`stale_count` is the shortest case). It is about tasks made by
  POST /tasks; a reclassification queues a task whatever its count is.
- A title may name several tasks: two classifications that both look a new title up
  before either inserts make two, and POST /tasks and PATCH look at no other title.
- `context_hash` may belong to another title and context than its row's: PATCH changes
  these and leaves the hash, and a later classification with the old context is answered
  from the cache. A PATCH between the lookup of a classification and its write does it
  the other way round.
- A deadline may move back: a heartbeat that was delayed between its clock and its UPDATE
  overwrites what a later heartbeat, or the lease of the next owner, has written.
  `DeadlineNear` says that deadlines are never too far ahead, whatever overlaps.
- `EventsComplete`, without crashes: a crash after the COMMIT of a lease leaves it
  without its event.
- `SignalsDrain`: the listener is started before `signal.Notify`, and a signal in
  between ends the process with its requests.
- `WalkFinds` and `ServedOnce` are about rows with a sort key of their own, from which
  nothing has been taken away ahead; equal keys may be missed or served twice. A page of
  /tasks whose rows stop coming is sent as if it were complete (`db/tasks.go:91-98` does not
  ask for `rows.Err()`), and the client goes on behind the rows it left out.
- `ServesWanted` excepts /tasks, whose link to the next page carries no filter
  (`src/prd/07-dashboard-spec.md`: "Filters persist in URL query parameters"), and log
  rows stamped in other zones than UTC, which are compared as strings.
- `ThroughputDated` excepts completed tasks with an older attempt left open by an
  expiry: its heartbeats pass the check and refresh `updated_at`. It also needs that no
  two reports or edits of one task overlap (`ReportsApart`): each refreshes `updated_at`,
  and the attempt is dated by whoever closes it.
- `DurationsFixed`, only while no two answers about one attempt overlap (`AnswersApart`): a
  repeated complete that passed the check before the first closed the attempt closes it
  again, with a later time.
- PATCH, DELETE and reclassification may write a row that was leased after their
  check, and the loop may take back a lease that a heartbeat extended after the
  scan: `LeaseBacked`, `ImplementsLedger` and `GrantIsBest` say what still holds then.

## 4. Fairness

`TaskQueue!Fairness`, which `FairSpec` and `MetricsFairSpec` add, assumes that the ticker goes on
and each statement of the loop returns (WF of `ExpiryLoop`), and that the UPDATE of a task that is
tried again and again succeeds eventually (SF of `LoopUpdate(t)`): failures and crashes may be many,
but not at every attempt. Nothing is assumed of handlers, clients or workers. WF alone would not do:
each failing iteration disables `LoopUpdate` and starts over.

`Service!FairSpec` assumes that `main` and the goroutine of the listener keep
running (WF of `Startup` and `Listen` for each process) and that `Shutdown` returns,
when the handlers have or when its context times out (WF of `Drained \/ DrainTimeout`).
`DrainFinishes` needs no request to end. Nothing is assumed of
signals, crashes or requests, nor that anybody starts a process: `StartupServes`
speaks of one that was started.

## 5. Proofs

All theorems hold for every value of the constants that satisfies the named
assumptions of the modules: any set of tasks, workers and handlers, any bounds,
any failures. The assumptions are few: `None` differs from the values it stands
beside, `Configs` are triples of integers (workflow defaults are not range-checked, so
not naturals), `Prio` maps routes to integers, limits and page sizes are positive.
A theorem with a condition of its own states it: `"crash" \notin Faults` for
`TrailIsComplete`, a finite set of handlers for `AttemptsAreCapped`.

Two properties of the metrics are not true of all behaviours of the code. Their theorems
say which two handlers must not overlap, as `[]P` beside the specification: `AnswersApart`
(two answers about one attempt) for `DurationsFixed`, `ReportsApart` (two reports or edits
of one task, a heartbeat from the reading of its clock on) for `ThroughputDated`. Any number
of handlers may otherwise be in progress, and the loop, crashes and failures are not
restricted. No document promises these dates under overlap; the run `metrics` checks the
properties where one handler and the loop overlap.

| Theorem | Module | Says |
|---|---|---|
| `Invariance` | `TaskQueueProofs` | `Spec => []IInv` |
| `TypeCorrect` | `TaskQueueProofs` | `TypeOK` |
| `TokensOnceInOrder` | `TaskQueueProofs` | `TokensAgree`: the i-th attempt has token i and `attempt_count` counts them |
| `LeasesBacked` | `TaskQueueProofs` | `LeaseBacked` |
| `OwnersCanReport` | `TaskQueueProofs` | `LeasedAttemptOpen` |
| `OnlyOwnersAccepted` | `TaskQueueActionProofs` | `OwnerOnly` |
| `Refinement` | `TaskQueueActionProofs` | `Spec => Ledger!Spec` |
| `GrantsAreBest` | `TaskQueueHistoryProofs` | `GrantIsBest` |
| `TrailIsTrue` | `TaskQueueHistoryProofs` | `EventsGrounded` |
| `TrailIsComplete` | `TaskQueueHistoryProofs` | `EventsComplete`, without crashes |
| `SettledStays` | `TaskQueueHistoryProofs` | `SettledForGood` |
| `AttemptsAreCapped` | `TaskQueueHistoryProofs` | `AttemptsCapped` |
| `DeadlinesNear` | `TaskQueueDeadlineProofs` | `DeadlineNear` |
| `DatesTypeCorrect` | `MetricsProofs` | `MetricsTypeOK` |
| `DurationsKept` | `MetricsProofs` | `DurationsFixed` under `AnswersApart` |
| `ThroughputsDated` | `MetricsProofs` | `ThroughputDated` under `ReportsApart` |
| `CountsCoverTasks` | `MetricsProofs` | `CountsCover` |
| `Invariance`, `TypeCorrect` | `CatalogProofs` | `IInv` and `TypeOK` of `Catalog` |
| `FirstConnection` | `CatalogProofs` | `FirstConnectionKeepsReferences` |
| `DeletedStays` | `CatalogProofs` | `DeletedStaysDeleted` |
| `Invariance`, `TypeCorrect` | `ListingProofs` | `IInv` and `TypeOK` of `Listing` |
| `WalksFind` | `ListingProofs` | `WalkFinds` |
| `RowsServedOnce` | `ListingProofs` | `ServedOnce` |
| `PagesServeWanted` | `ListingProofs` | `ServesWanted` |
| `Invariance`, `TypeCorrect` | `ServiceProofs` | `IInv` and `TypeOK` of `Service` |
| `AppliedInOrder` | `ServiceProofs` | `MigrationsInOrder` |
| `ServesComplete` | `ServiceProofs` | `ServesMigrated` |
| `SignalCutsEarly` | `ServiceProofs` | `SignalsDrain` |
| `OneDeployment` | `ServiceProofs` | `Spec => Promised!Spec` (`ImplementsDeployment`) |

**The argument for the queue.** None of the properties is inductive alone.
`TokensAgree` depends on the lease transaction: between its reads and its COMMIT
it carries a token computed earlier. `SnapshotsFresh` says that while the
transaction may still commit, nothing has been committed since, so the task is still
queued and the token still the next; every write empties `snap`, so it holds
vacuously afterwards. `LeasedAttemptOpen` depends on the order of two statements:
complete and fail write the task first, so a handler about to close an attempt
(`Closing`) finds the task not leased, or leased again with a newer attempt
(`ClosesOldAttempts`); closing the older row leaves the newest open. That needs
`HandlersKnowAttempt`: the attempt a handler took from its check exists, as attempts
are never removed. `BatchWasLeased` and `AttemptsHaveTask` give the
ledger's guard of `Settle`: only a task that was leased times out. `OwnerOnly`
follows: the newest attempt of a leased task is open and has the largest token, so
only it passes `IsTop`.

The proof has one lemma for each action, and shared lemmas for the shapes
that recur: a step that only moves a handler, one that writes a row without
leasing it, one that closes an attempt, one that only the loop takes. For the
refinement, each write of a row is `Create`, `Grant`, `Settle`, `Requeue` or
`Cancel` of the ledger by the status it writes, and all other steps stutter.

**What was decided earlier.** `GrantIsBest` compares a choice made at the SELECT with
the rows at the COMMIT: `FreshChoice` says that a transaction whose snapshot is still
the newest state still sees its task as the best, since no other write has been
committed (`SnapshotSteps`). `EventsGrounded` needs `OutcomesClosed`: a handler about
to record an outcome has closed its attempt, and results stay (`ResultsStay`).
`EventsComplete` needs `AllNoted`: every lease and every closed attempt is on the
trail or some handler is on its way to record it, which is what a crash would
break. `HandlerMoves` lists what a handler's local state may become and
what it has seen when it does; with `StatusSteps` (which status a step may write, and
who writes it) it gives `SettledForGood`: a settled task has no open attempt to pass the
check with, and no handler or batch is past its check already.

**How many attempts.** `AttemptsCapped` is not inductive: what bounds the count is how
many decisions on an old count are still on their way. `Retrying(t)` are the handlers that
have decided to queue t again and have not written it, `Reclaiming(t)` says that the loop
has. The invariant is `DecisionsBounded`, by `Room(t)`: either the count leaves room for the
lease that the loop makes possible, or the count, the decisions under way and the place
in the queue together do not exceed `max_attempts` plus the number of handlers. A
decision is taken only below `max_attempts` (`Deciding`), where the first alternative
holds; each stands for one lease at most, and is spent when its row is written
(`BoundedWritten`); only a lease raises the count, and it needs a queued task. With
`max_attempts` of 1 nobody decides so after the first lease, hence the other bound of
`Cap`. The number of handlers is counted
with `FiniteSetTheorems`.

**How far ahead a deadline is.** `DeadlinesInv` adds to `DeadlineNear` that the times which
handlers carry are past, the one a heartbeat has read before its token check among them;
whoever writes a deadline adds the timeout of the row, which never changes once the row
exists, to such a time. That is why delayed heartbeats, of whatever attempt, cannot
together keep a lease alive longer than the last one of them asked for.

**The argument for the metrics.** A step of `Metrics` is one of `TaskQueue`
(`MetricsQueue`), so `IInv` carries over. `DatesInv` adds that the times which handlers
and the loop carry are past, and that a handler about to close an attempt carries one
that is not before the attempt's start. While answers are apart, `OpenHeld` says that the
attempt of a handler past its check is still open, so no attempt ends twice and its
duration stays. `CompletionDated` says when a completed task was written last: at the
end of an attempt that ended last, or by an attempt that is still open; `HandlersDated`
is what the handlers on their way there know, and `OthersDated` that a handler which
reports on another task leaves it so. The loop completes nothing
(`LoopStatus`), and a lease that commits finds its task queued (`FreshChoice`).

`CountsCover` adds the counts up with a fold over a set, which is defined by recursion on
sets and a choice of elements. `SumCounts` proves what it computes without induction
over the fold: the sets of statuses for which it might be wrong are subsets of a set of
seven, so among them would be a smallest one (`SmallestExists`); taking the chosen element
away gives a smaller one, on which the fold is right, and `CountSplits` adds the element
back.

**The argument for the catalog.** A statement runs on a connection that enforces or
not; `ReferencesStep` goes through the statements and shows that an enforced one keeps
references.
`HandlersReady` says what a handler has at each of its statements: a PUT about to
write has a complete row, a POST of a task its own values, or its workflow's when it
gave no timeout. `DeletedStaysDeleted` follows from the statements: only the INSERT of a
POST makes a row.

**The argument for a walk.** The place of a row is the number of rows ahead of it
in the list. `SteadyAhead`: a steady row has been served or its place is at or behind
the next offset, and below the total that decides whether there is another page.
`StillBehind`: a still row's place is before the next offset. A row with a key of its
own is in the page exactly when its place is between offset and offset + limit; a
write moves its place only by rows that come or leave ahead of it, which is what
`Steady` and `Still` watch; a reply that leaves rows out makes them unsteady, and keeps
the rest. The rest is arithmetic of the page numbers.

**The argument for the process.** `Progress` says what a process knows at each
point: at version v all earlier ones are recorded; at statement s the ones before
it are applied; past the last file everything is recorded. `applied` and
`recorded` only grow, so other processes and crashes do not disturb it. For
`OneDeployment`, a version that is recorded when it was missing comes after exactly the
earlier ones (`RecordedPrefix`: a recorded version has statements applied, and those
were begun with all earlier ones recorded); a process that gets the address handles
nothing yet; one that ends, for whatever reason, is cut off (`ExitCutsOff`); what goes on
inside a process stutters (`InnerStep`).

**Only model-checked.** Liveness: `ExpiredReaped`, `StartupServes`, `DrainFinishes`. Liveness
under fairness and ENABLED are outside what the prover can do. Every safety property
that a passing run checks is proved.

## 6. Not modelled, and the plan

- *Detail queries.* Three reads of one task; nothing depends on them and no document
  promises that they belong together.
- *Model providers.* One call of an external service; its outcome is a choice of
  `ClassifyInsert`, `ClassifyUpdate` and `Abort`. The prompt and the parsing of the
  answer are left out.
- *Configuration.* Environment variables read once at the start; the values are
  constants of the modules.
- *Example worker.* A client; the modules let clients call anything with any token
  that was issued.
- *Dashboard.* Templates, the drawer, auto-refresh and the options of the selects
  (`distinctStrings`); what its lists and its metrics read is modelled.
- *Log batches.* Rows are stored one by one and failing ones are skipped; the reply
  counts them, and no document promises that a batch sent twice is stored once.
- *Timestamps.* Fractions of seconds and `+00:00` for `Z`, which sort differently from
  what the server writes.
- *Metrics.* A report's four queries are not one snapshot; each is a function of the
  state it reads. Statements whose error is dropped are not dated.
- *Tasks.* `step`, `run_id` and `domain` are not kept apart.

The order in which modules were written: the queue with its loop first, since
every other part depends on it; its abstract ledger; the process and its
migrations; the catalog; the lists; the metrics. Next:

1. An abstract specification for `Catalog`, beside `LeaseLedger` and `Deployment`.
2. The steps of the liveness arguments that are safety: what an iteration of the loop
   never undoes, how far a start gets.
3. `Catalog`: a second reference of log rows, to attempts.

## 7. How to run

    tlc -config leases.cfg MCTaskQueue.tla       # and so on for each cfg
    tlc -config catalog.cfg MCCatalog.tla        # and dangling.cfg, given_values.cfg
    tlc -config startup.cfg MCService.tla
    tlc -config pages.cfg MCListing.tla
    tlc -config metrics.cfg MCMetrics.tla
    tlapm TaskQueueProofs.tla                    # and so on for each ...Proofs

Definitions marked "Variant" in a comment stand before the definition they vary and are
used by no specification. Each is that definition with a plausible mistake; put in its
place, it makes TLC report the property that is there to notice it.
