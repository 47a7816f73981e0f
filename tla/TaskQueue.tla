----------------------------- MODULE TaskQueue -----------------------------
(***************************************************************************)
(* The task queue of agent-task-center: the rows of the tables tasks,      *)
(* task_attempts and task_events, the HTTP handlers of                     *)
(* src/internal/api/tasks.go and classify.go that change them, and the     *)
(* expiry loop of src/internal/queue/expiry.go.                            *)
(*                                                                         *)
(* Handlers run concurrently, one goroutine for each request, and every    *)
(* SQL statement is one step: outside the lease transaction a statement    *)
(* autocommits, and other handlers and the expiry loop run between two     *)
(* statements of one handler.  The lease transaction reads a snapshot and  *)
(* commits only while no other write has been committed since.  A request  *)
(* that the code answers without a write is not a step.                    *)
(***************************************************************************)
EXTENDS Integers, Sequences, FiniteSetsExt

CONSTANTS
    Task,       \* the ids newID() may draw
    Worker,     \* worker ids (None may be one: worker_id is optional)
    Req,        \* handler goroutines that may be in progress at once
    Title,      \* task titles: what a classification looks a task up by
    Context,    \* contexts sent with a classification
    Route,      \* values of the columns PATCH may change and a lease filters on
    Prio,       \* Prio[x]: the priority column of route x
    Filters,    \* the lease filters clients use, as the set of routes they admit
    Configs,    \* visibility timeout, max attempts and retry backoff
    Ops,        \* the operations clients call
    Faults,     \* the failures that may happen
    Recorded,   \* the event types kept in the model
    None,       \* SQL NULL
    MaxTime,    \* bound on the clock
    MaxLeases   \* bound on the attempts of one task

AllOps == {"create", "patch", "cancel", "lease", "heartbeat", "complete", "fail",
           "classify"}
\* "crash": the process dies.  "reported": a statement fails and the handler
\* answers 500 or the loop skips the task.  "ignored": a statement fails and
\* the code drops the error.
AllFaults == {"crash", "reported", "ignored"}

ASSUME NoneAssumption ==
    /\ None \notin Int /\ None \notin Route /\ None \notin Configs
    /\ None \notin Title \X Context /\ None \notin Filters
    /\ None \notin {"completed", "failed"}
ASSUME PrioAssumption == Prio \in [Route -> Int]
ASSUME FiltersAssumption == Filters \subseteq SUBSET Route
ASSUME ContextAssumption == None \notin Context
ASSUME ConfigsAssumption ==
    Configs \subseteq [vis : Int, max : Int, backoff : Int]
ASSUME OpsAssumption == Ops \subseteq AllOps /\ Faults \subseteq AllFaults
ASSUME BoundsAssumption == MaxTime \in Nat /\ MaxLeases \in Nat

VARIABLES
    task,       \* table tasks: task[t]
    attempts,   \* table task_attempts: attempts[t][i] is the i-th row of t
    events,     \* table task_events: the kinds of rows of t
    req,        \* local state of each handler
    loop,       \* local state of the expiry loop
    snap,       \* lease transactions whose snapshot is still the newest state
    held,       \* <<t, token>>: tokens that reached a worker
    now,        \* the clock, in seconds
    swallowed   \* some statement failed and the code dropped its error

db == <<task, attempts, events>>
vars == <<task, attempts, events, req, loop, snap, held, now, swallowed>>

-----------------------------------------------------------------------------
(* Rows *)

Option(S) == S \cup {None}
\* The statuses a task ends in, of those the program knows (allStatuses).
Terminal == {"completed", "failed", "timed_out", "cancelled"}
Status == {"absent", "queued", "leased"} \cup Terminal
\* Nothing in the code sets "blocked", the other status PATCH and DELETE admit.
Editable == {"queued", "blocked"}

\* hash, the column context_hash, stands for the title and the context that
\* SHA-256 was computed of.
NoTask == [status |-> "absent", title |-> None, context |-> None, hash |-> None,
           route |-> None, config |-> None, worker |-> None, lease |-> None, retry |-> None,
           count |-> 0, created |-> 0]
Existing == {t \in Task : task[t].status # "absent"}

\* Variant: the defaults of the workflow are not filled in.
CreatedBare(n, y, h, x, c) == [NoTask EXCEPT !.status = "queued", !.title = n, !.context = y,
                                             !.hash = h, !.route = x, !.created = now]
Created(n, y, h, x, c) == [NoTask EXCEPT !.status = "queued", !.title = n, !.context = y,
                                         !.hash = h, !.route = x, !.config = c,
                                         !.created = now]
Leased(row, w, at) == [row EXCEPT !.status = "leased", !.worker = w,
                                  !.lease = at + row.config.vis,
                                  !.count = @ + 1]
Completed(row, w) == [row EXCEPT !.status = "completed", !.worker = w,
                                 !.lease = None]
Requeued(row, at) == [row EXCEPT !.status = "queued", !.worker = None,
                                 !.lease = None,
                                 !.retry = at + row.config.backoff]
Ended(row, s) == [row EXCEPT !.status = s, !.worker = None, !.lease = None]

Attempt(k, w) == [token |-> k, worker |-> w, result |-> None]
\* Variant: ended_at is set on the newest attempt, whichever answered.
CloseNewest(t, i, res) == [attempts EXCEPT ![t][Len(attempts[t])].result = res]
Close(t, i, res) == [attempts EXCEPT ![t][i].result = res]

Open(t) == {i \in DOMAIN attempts[t] : attempts[t][i].result = None}
Token(t, i) == attempts[t][i].token

\* Variant: MAX over the open attempts only.
MaxOpenToken(t) == Max({Token(t, i) : i \in Open(t)} \cup {0})
\* SELECT MAX(fencing_token): NULL reads as 0.
MaxToken(t) == Max({Token(t, i) : i \in DOMAIN attempts[t]} \cup {0})

\* Variant: no ORDER BY, any open attempt may be the one found.
IsOpen(t, i) == i \in Open(t)
\* ended_at IS NULL ORDER BY fencing_token DESC LIMIT 1
IsTop(t, i) == i \in Open(t) /\ \A j \in Open(t) : Token(t, j) <= Token(t, i)

\* Variant: without ended_at IS NULL, a closed attempt still answers.
ValidatesClosed(t, k, i) == i \in DOMAIN attempts[t] /\ Token(t, i) = k
\* validateFencingToken: row i is the attempt the handler goes on with.
Validates(t, k, i) == IsTop(t, i) /\ Token(t, i) = k

\* Variant: without status = 'queued'.
EligibleAny(f, at) == {t \in Task : /\ task[t].status # "absent"
                                    /\ task[t].route \in f
                                    /\ task[t].retry = None \/ task[t].retry <= at}
\* The rows a lease may take, at time at under filter f, and the one ORDER BY
\* priority DESC, created_at ASC LIMIT 1 picks.
Eligible(f, at) == {t \in Task : /\ task[t].status = "queued"
                                 /\ task[t].route \in f
                                 /\ task[t].retry = None \/ task[t].retry <= at}
Precedes(t, u) == \/ Prio[task[t].route] > Prio[task[u].route]
                  \/ /\ Prio[task[t].route] = Prio[task[u].route]
                     /\ task[t].created <= task[u].created
Picks(t, f, at) == t \in Eligible(f, at) /\ \A u \in Eligible(f, at) : Precedes(t, u)

\* findTaskByTitle: WHERE title = ? ORDER BY created_at DESC LIMIT 1 picks one.
Latest(n) == {t \in Existing :
    /\ task[t].title = n
    /\ \A u \in Existing : task[u].title = n => task[u].created <= task[t].created}

Expired(at) == {t \in Task : task[t].status = "leased" /\ task[t].lease < at}

-----------------------------------------------------------------------------
(* Local state of the handlers and of the loop *)

\* at: the clock as the handler has read it; token and filter: what the request
\* gives; attempt: the row of task_attempts it works on, or the token of the row
\* that a lease is about to insert.
Idle == [pc |-> "idle", task |-> None, token |-> 0, filter |-> None, attempt |-> 0,
         worker |-> None, at |-> 0, again |-> FALSE, event |-> None, hash |-> None]
LoopIdle == [pc |-> "idle", at |-> 0, batch |-> {}, again |-> {}, task |-> None]

Goto(r, s) == req' = [req EXCEPT ![r] = s]
\* The handler's last writes are done: the event and the reply are left.
ToEvent(r, t, i, e) == Goto(r, [Idle EXCEPT !.pc = "event", !.task = t,
                                            !.attempt = i, !.event = e])
Done(r) == Goto(r, Idle)

\* A committed write makes the snapshot of every open lease transaction old.
Commit == snap' = {}
\* Variant: the statements of the lease run outside a transaction.
SnapshotIgnored(r) == r \in Req
\* A lease transaction may write only on the newest state (SQLITE_BUSY_SNAPSHOT).
SnapshotCurrent(r) == r \in snap

Row(t, row) == task' = [task EXCEPT ![t] = row]
Record(t, e, i) ==
    events' = IF e \in Recorded
              THEN [events EXCEPT ![t] = @ \cup {[type |-> e, attempt |-> i]}]
              ELSE events
Swallow == "ignored" \in Faults /\ swallowed' = TRUE

-----------------------------------------------------------------------------
(* POST /api/tasks, PATCH and DELETE /api/tasks/{id} *)

Create(r, t, n, y, x, c) ==
    /\ "create" \in Ops /\ req[r].pc = "idle"
    /\ task[t].status = "absent"
    /\ Row(t, Created(n, y, None, x, c))
    /\ Commit
    /\ ToEvent(r, t, 0, "created")
    /\ UNCHANGED <<attempts, events, loop, held, now, swallowed>>

PatchCheck(r, t) ==
    /\ "patch" \in Ops /\ req[r].pc = "idle"
    /\ task[t].status \in Editable
    /\ Goto(r, [Idle EXCEPT !.pc = "patch.write", !.task = t])
    /\ UNCHANGED <<db, loop, snap, held, now, swallowed>>

\* UPDATE ... WHERE id = ?: the status read before is not a condition of it.
\* A context that is not sent is kept; context_hash is never recomputed.
PatchWrite(r, n, y, x) ==
    LET t == req[r].task IN
    /\ req[r].pc = "patch.write"
    /\ Row(t, [task[t] EXCEPT !.title = n, !.route = x,
                              !.context = IF y = None THEN @ ELSE y])
    /\ Commit
    /\ Done(r)
    /\ UNCHANGED <<attempts, events, loop, held, now, swallowed>>

CancelCheck(r, t) ==
    /\ "cancel" \in Ops /\ req[r].pc = "idle"
    /\ task[t].status \in Editable
    /\ Goto(r, [Idle EXCEPT !.pc = "cancel.write", !.task = t])
    /\ UNCHANGED <<db, loop, snap, held, now, swallowed>>

CancelWrite(r) ==
    LET t == req[r].task IN
    /\ req[r].pc = "cancel.write"
    /\ Row(t, [task[t] EXCEPT !.status = "cancelled"])
    /\ Commit
    /\ ToEvent(r, t, 0, "cancelled")
    /\ UNCHANGED <<attempts, events, loop, held, now, swallowed>>

-----------------------------------------------------------------------------
(* POST /api/tasks/lease *)

\* The clock is read before the transaction begins.
LeaseBegin(r, w, f) ==
    /\ "lease" \in Ops /\ req[r].pc = "idle"
    /\ Goto(r, [Idle EXCEPT !.pc = "lease.select", !.worker = w, !.filter = f, !.at = now])
    /\ UNCHANGED <<db, loop, snap, held, now, swallowed>>

\* The transaction's reads: the task, and the next token.  The error of the
\* second read is dropped, and the token is then 1.
LeaseSelect(r) ==
    LET q == req[r] IN
    /\ q.pc = "lease.select"
    /\ \E t \in Task :
         /\ Picks(t, q.filter, q.at)
         /\ Len(attempts[t]) < MaxLeases
         /\ \/ /\ Goto(r, [q EXCEPT !.pc = "lease.commit", !.task = t,
                                    !.attempt = MaxToken(t) + 1])
               /\ UNCHANGED swallowed
            \/ /\ Goto(r, [q EXCEPT !.pc = "lease.commit", !.task = t, !.attempt = 1])
               /\ Swallow
    /\ snap' = snap \cup {r}
    /\ UNCHANGED <<db, loop, held, now>>

\* 204: nothing to lease, or MaxLeases is reached.
LeaseNothing(r) ==
    LET q == req[r] IN
    /\ q.pc = "lease.select"
    /\ \A t \in Task : Picks(t, q.filter, q.at) => Len(attempts[t]) >= MaxLeases
    /\ Done(r)
    /\ UNCHANGED <<db, loop, snap, held, now, swallowed>>

\* INSERT of the attempt, UPDATE of the task, COMMIT.
LeaseCommit(r) ==
    LET q == req[r]  t == q.task IN
    /\ q.pc = "lease.commit" /\ SnapshotCurrent(r)
    /\ attempts' = [attempts EXCEPT ![t] = Append(@, Attempt(q.attempt, q.worker))]
    /\ Row(t, Leased(task[t], q.worker, q.at))
    /\ Commit
    /\ ToEvent(r, t, Len(attempts[t]) + 1, "leased")
    /\ UNCHANGED <<events, loop, held, now, swallowed>>

\* SQLITE_BUSY_SNAPSHOT: 500, and the deferred Rollback.
LeaseConflict(r) ==
    /\ req[r].pc = "lease.commit" /\ ~SnapshotCurrent(r)
    /\ Done(r)
    /\ UNCHANGED <<db, loop, snap, held, now, swallowed>>

-----------------------------------------------------------------------------
(* POST /api/tasks/{id}/heartbeat, complete and fail *)

\* A worker calls with any token that reached one.  The clock is read before
\* the token is checked.
HeartbeatBegin(r, t, k) ==
    /\ "heartbeat" \in Ops /\ req[r].pc = "idle" /\ <<t, k>> \in held
    /\ Goto(r, [Idle EXCEPT !.pc = "heartbeat.read", !.task = t, !.token = k, !.at = now])
    /\ UNCHANGED <<db, loop, snap, held, now, swallowed>>

\* 404 or 409 if the token is not that of the newest open attempt.
HeartbeatRead(r) ==
    LET q == req[r] IN
    /\ q.pc = "heartbeat.read"
    /\ \/ \E i \in DOMAIN attempts[q.task] :
            /\ Validates(q.task, q.token, i)
            /\ Goto(r, [q EXCEPT !.pc = "heartbeat.write", !.attempt = i])
       \/ /\ \A i \in DOMAIN attempts[q.task] : ~Validates(q.task, q.token, i)
          /\ Done(r)
    /\ UNCHANGED <<db, loop, snap, held, now, swallowed>>

\* Variant: the heartbeat writes the worker of its attempt as well.
HeartbeatTakesOver(r) ==
    LET q == req[r]  t == q.task IN
    /\ q.pc = "heartbeat.write"
    /\ Row(t, [task[t] EXCEPT !.lease = q.at + task[t].config.vis,
                              !.worker = attempts[t][q.attempt].worker])
    /\ Commit
    /\ ToEvent(r, t, q.attempt, "heartbeat")
    /\ UNCHANGED <<attempts, events, loop, held, now, swallowed>>

\* Variant: the deadline is moved on from where it is.
HeartbeatAddsOn(r) ==
    LET q == req[r]  t == q.task IN
    /\ q.pc = "heartbeat.write"
    /\ Row(t, [task[t] EXCEPT !.lease = (IF @ = None THEN q.at ELSE @) + task[t].config.vis])
    /\ Commit
    /\ ToEvent(r, t, q.attempt, "heartbeat")
    /\ UNCHANGED <<attempts, events, loop, held, now, swallowed>>

HeartbeatWrite(r) ==
    LET q == req[r]  t == q.task IN
    /\ q.pc = "heartbeat.write"
    /\ Row(t, [task[t] EXCEPT !.lease = q.at + task[t].config.vis])
    /\ Commit
    /\ \E e \in {"heartbeat", "progress"} : ToEvent(r, t, q.attempt, e)
    /\ UNCHANGED <<attempts, events, loop, held, now, swallowed>>

\* Variant: the attempt is closed before the task is updated.
CompleteClosesFirst(r, t, k) ==
    /\ "complete" \in Ops /\ req[r].pc = "idle" /\ <<t, k>> \in held
    /\ \E i \in DOMAIN attempts[t] :
         /\ Validates(t, k, i)
         /\ attempts' = Close(t, i, "completed")
         /\ Goto(r, [Idle EXCEPT !.pc = "complete.write", !.task = t, !.attempt = i])
    /\ Commit
    /\ UNCHANGED <<task, events, loop, held, now, swallowed>>

CompleteValidate(r, t, k) ==
    /\ "complete" \in Ops /\ req[r].pc = "idle" /\ <<t, k>> \in held
    /\ \E i \in DOMAIN attempts[t] :
         /\ Validates(t, k, i)
         /\ Goto(r, [Idle EXCEPT !.pc = "complete.write", !.task = t, !.attempt = i])
    /\ UNCHANGED <<db, loop, snap, held, now, swallowed>>

\* worker_id is the caller's word: nothing compares it with the attempt's.
CompleteWrite(r, w) ==
    LET t == req[r].task IN
    /\ req[r].pc = "complete.write"
    /\ Row(t, Completed(task[t], w))
    /\ Commit
    /\ Goto(r, [req[r] EXCEPT !.pc = "complete.close"])
    /\ UNCHANGED <<attempts, events, loop, held, now, swallowed>>

CompleteClose(r) ==
    LET q == req[r] IN
    /\ q.pc = "complete.close"
    /\ \/ attempts' = Close(q.task, q.attempt, "completed") /\ Commit /\ UNCHANGED swallowed
       \/ Swallow /\ UNCHANGED <<attempts, snap>>
    /\ ToEvent(r, q.task, q.attempt, "completed")
    /\ UNCHANGED <<task, events, loop, held, now>>

FailValidate(r, t, k) ==
    /\ "fail" \in Ops /\ req[r].pc = "idle" /\ <<t, k>> \in held
    /\ \E i \in DOMAIN attempts[t] :
         /\ Validates(t, k, i)
         /\ Goto(r, [Idle EXCEPT !.pc = "fail.read", !.task = t, !.attempt = i])
    /\ UNCHANGED <<db, loop, snap, held, now, swallowed>>

\* Variant: the last attempt is retried as well.
FailRetriesLast(r, hint) ==
    LET row == task[req[r].task] IN
    /\ req[r].pc = "fail.read"
    /\ Goto(r, [req[r] EXCEPT !.pc = "fail.write", !.at = now,
                              !.again = hint /\ row.count <= row.config.max])
    /\ UNCHANGED <<db, loop, snap, held, now, swallowed>>

\* The clock is read just before the counts, and the two are one step here.
\* hint: retry_hint, true when absent.  A failed read leaves 0 < 0: no retry.
FailRead(r, hint) ==
    LET row == task[req[r].task] IN
    /\ req[r].pc = "fail.read"
    /\ \/ /\ Goto(r, [req[r] EXCEPT !.pc = "fail.write", !.at = now,
                                    !.again = hint /\ row.count < row.config.max])
          /\ UNCHANGED swallowed
       \/ /\ Goto(r, [req[r] EXCEPT !.pc = "fail.write", !.at = now, !.again = FALSE])
          /\ Swallow
    /\ UNCHANGED <<db, loop, snap, held, now>>

FailWrite(r) ==
    LET q == req[r]  row == task[q.task] IN
    /\ q.pc = "fail.write"
    /\ \/ /\ Row(q.task, IF q.again THEN Requeued(row, q.at) ELSE Ended(row, "failed"))
          /\ Commit /\ UNCHANGED swallowed
       \/ Swallow /\ UNCHANGED <<task, snap>>
    /\ Goto(r, [q EXCEPT !.pc = "fail.close", !.at = 0, !.again = FALSE])
    /\ UNCHANGED <<attempts, events, loop, held, now>>

\* Variant: the handler answers without its event.
FailUnlogged(r) ==
    LET q == req[r] IN
    /\ q.pc = "fail.close"
    /\ attempts' = Close(q.task, q.attempt, "failed") /\ Commit
    /\ Done(r)
    /\ UNCHANGED <<task, events, loop, held, now, swallowed>>

FailClose(r) ==
    LET q == req[r] IN
    /\ q.pc = "fail.close"
    /\ \/ attempts' = Close(q.task, q.attempt, "failed") /\ Commit /\ UNCHANGED swallowed
       \/ Swallow /\ UNCHANGED <<attempts, snap>>
    /\ ToEvent(r, q.task, q.attempt, "failed")
    /\ UNCHANGED <<task, events, loop, held, now>>

-----------------------------------------------------------------------------
(* POST /api/classify *)

\* The newest task of the title, if any.  The same title and context as last
\* time is answered without a write; else the model is asked, which takes long.
ClassifyRead(r, n, y) ==
    /\ "classify" \in Ops /\ req[r].pc = "idle"
    /\ \/ /\ Latest(n) = {}
          /\ Goto(r, [Idle EXCEPT !.pc = "classify.insert", !.hash = <<n, y>>])
       \/ \E t \in Latest(n) :
            /\ task[t].hash # <<n, y>>
            /\ Goto(r, [Idle EXCEPT !.pc = "classify.update", !.task = t, !.hash = <<n, y>>])
    /\ UNCHANGED <<db, loop, snap, held, now, swallowed>>

\* The task is queued again whatever its status: leased, completed, cancelled.
\* Its worker, deadline, backoff and attempts are left as they are.
ClassifyUpdate(r, x) ==
    LET q == req[r]  t == q.task IN
    /\ q.pc = "classify.update"
    /\ Row(t, [task[t] EXCEPT !.status = "queued", !.route = x, !.hash = q.hash,
                              !.context = q.hash[2]])
    /\ Commit
    /\ ToEvent(r, t, 0, "reclassified")
    /\ UNCHANGED <<attempts, events, loop, held, now, swallowed>>

ClassifyInsert(r, t, x, c) ==
    LET h == req[r].hash IN
    /\ req[r].pc = "classify.insert"
    /\ task[t].status = "absent"
    /\ Row(t, Created(h[1], h[2], h, x, c))
    /\ Commit
    /\ ToEvent(r, t, 0, "classified")
    /\ UNCHANGED <<attempts, events, loop, held, now, swallowed>>

-----------------------------------------------------------------------------
(* The end of a handler, and a handler that gives up *)

\* AppendEvent's error is dropped; the reply carries the token of a lease,
\* unless the read that fills it fails.
AppendEvent(r) ==
    LET q == req[r]
        granted == IF q.event = "leased" THEN {<<q.task, Token(q.task, q.attempt)>>} ELSE {} IN
    /\ q.pc = "event"
    /\ \/ Record(q.task, q.event, q.attempt) /\ Commit /\ UNCHANGED swallowed
       \/ Swallow /\ UNCHANGED <<events, snap>>
    /\ \/ held' = held \cup granted
       \/ "reported" \in Faults /\ UNCHANGED held
    /\ Done(r)
    /\ UNCHANGED <<task, attempts, loop, now>>

\* A statement, or the call of the model, whose error the handler returns as a
\* 500.  A create is read back before its event: that read may fail too.
Abort(r) ==
    /\ "reported" \in Faults
    /\ \/ req[r].pc \in {"patch.write", "cancel.write", "lease.select", "lease.commit",
                         "heartbeat.read", "heartbeat.write", "complete.write",
                         "classify.update", "classify.insert"}
       \/ req[r].pc = "event" /\ req[r].event = "created"
    /\ snap' = snap \ {r}
    /\ Done(r)
    /\ UNCHANGED <<db, loop, held, now, swallowed>>

-----------------------------------------------------------------------------
(* runExpiry: one goroutine, woken by a ticker *)

\* Variant: the scan looks only for tasks that may be retried.
ScanRetryable ==
    LET again == {t \in Expired(now) : task[t].count < task[t].config.max} IN
    /\ loop.pc = "idle" /\ again # {}
    /\ loop' = [LoopIdle EXCEPT !.pc = "batch", !.at = now, !.batch = again, !.again = again]
    /\ UNCHANGED <<db, req, snap, held, now, swallowed>>

\* The time, the tasks and their counts are read once for the whole batch; the
\* clock just before the query, in one step with it here.
LoopScan ==
    /\ loop.pc = "idle" /\ Expired(now) # {}
    /\ loop' = [LoopIdle EXCEPT
                  !.pc = "batch", !.at = now, !.batch = Expired(now),
                  !.again = {t \in Expired(now) : task[t].count < task[t].config.max}]
    /\ UNCHANGED <<db, req, snap, held, now, swallowed>>

\* The rest of the batch, or the end of the iteration.
Rest(batch) == IF batch = {} THEN LoopIdle
               ELSE [loop EXCEPT !.pc = "batch", !.batch = batch, !.task = None]

\* UPDATE ... WHERE id = ?: neither the status nor the lease is a condition.
LoopUpdate(t) ==
    /\ loop.pc = "batch" /\ t \in loop.batch
    /\ Row(t, IF t \in loop.again THEN Requeued(task[t], loop.at)
              ELSE Ended(task[t], "timed_out"))
    /\ Commit
    /\ loop' = [loop EXCEPT !.pc = "timed_out", !.task = t, !.batch = @ \ {t}]
    /\ UNCHANGED <<attempts, events, req, held, now, swallowed>>

\* The UPDATE fails: the task is left to a later iteration.
LoopSkip(t) ==
    /\ "reported" \in Faults
    /\ loop.pc = "batch" /\ t \in loop.batch
    /\ loop' = Rest(loop.batch \ {t})
    /\ UNCHANGED <<db, req, snap, held, now, swallowed>>

LoopTimedOut ==
    /\ loop.pc = "timed_out"
    /\ \/ Record(loop.task, "timed_out", 0) /\ Commit /\ UNCHANGED swallowed
       \/ Swallow /\ UNCHANGED <<events, snap>>
    /\ loop' = IF loop.task \in loop.again THEN [loop EXCEPT !.pc = "retried"]
               ELSE Rest(loop.batch)
    /\ UNCHANGED <<task, attempts, req, held, now>>

LoopRetried ==
    /\ loop.pc = "retried"
    /\ \/ Record(loop.task, "retried", 0) /\ Commit /\ UNCHANGED swallowed
       \/ Swallow /\ UNCHANGED <<events, snap>>
    /\ loop' = Rest(loop.batch)
    /\ UNCHANGED <<task, attempts, req, held, now>>

-----------------------------------------------------------------------------
(* The process dies and starts again: only the database is left. *)
Crash ==
    /\ "crash" \in Faults
    /\ req' = [r \in Req |-> Idle] /\ loop' = LoopIdle /\ snap' = {}
    /\ UNCHANGED <<db, held, now, swallowed>>

Tick ==
    /\ now < MaxTime
    /\ now' = now + 1
    /\ UNCHANGED <<db, req, loop, snap, held, swallowed>>

-----------------------------------------------------------------------------
Init ==
    /\ task = [t \in Task |-> NoTask]
    /\ attempts = [t \in Task |-> <<>>]
    /\ events = [t \in Task |-> {}]
    /\ req = [r \in Req |-> Idle]
    /\ loop = LoopIdle
    /\ snap = {}
    /\ held = {}
    /\ now = 0
    /\ swallowed = FALSE

Handler(r) ==
    \/ \E t \in Task, n \in Title, y \in Option(Context), x \in Route, c \in Configs :
          Create(r, t, n, y, x, c)
    \/ \E t \in Task : PatchCheck(r, t) \/ CancelCheck(r, t)
    \/ \E n \in Title, y \in Option(Context), x \in Route : PatchWrite(r, n, y, x)
    \/ CancelWrite(r)
    \/ \E w \in Worker, f \in Filters : LeaseBegin(r, w, f)
    \/ LeaseSelect(r)
    \/ LeaseNothing(r)
    \/ LeaseCommit(r)
    \/ LeaseConflict(r)
    \/ \E h \in held : \/ HeartbeatBegin(r, h[1], h[2])
                       \/ CompleteValidate(r, h[1], h[2])
                       \/ FailValidate(r, h[1], h[2])
    \/ HeartbeatRead(r)
    \/ HeartbeatWrite(r)
    \/ \E w \in Worker : CompleteWrite(r, w)
    \/ CompleteClose(r)
    \/ \E hint \in BOOLEAN : FailRead(r, hint)
    \/ FailWrite(r)
    \/ FailClose(r)
    \/ \E n \in Title, y \in Context : ClassifyRead(r, n, y)
    \/ \E x \in Route : ClassifyUpdate(r, x)
    \/ \E t \in Task, x \in Route, c \in Configs : ClassifyInsert(r, t, x, c)
    \/ AppendEvent(r)
    \/ Abort(r)

ExpiryLoop ==
    \/ LoopScan
    \/ \E t \in Task : LoopUpdate(t) \/ LoopSkip(t)
    \/ LoopTimedOut
    \/ LoopRetried

Next == (\E r \in Req : Handler(r)) \/ ExpiryLoop \/ Crash \/ Tick

Spec == Init /\ [][Next]_vars

\* The ticker never stops, every statement of the loop returns, and an UPDATE
\* the loop tries again and again does not fail, or meet a crash, every time.
Fairness == WF_vars(ExpiryLoop) /\ \A t \in Task : SF_vars(LoopUpdate(t))
FairSpec == Spec /\ Fairness

-----------------------------------------------------------------------------
(* Types *)

Hash == Title \X Context
Rows == [status : Status, title : Option(Title), context : Option(Context),
         hash : Option(Hash),
         route : Option(Route), config : Option(Configs),
         worker : Option(Worker), lease : Option(Int), retry : Option(Int),
         count : Nat, created : Nat]
Attempts == [token : Nat, worker : Option(Worker), result : {None, "completed", "failed"}]
EventTypes == {"created", "leased", "heartbeat", "progress", "completed", "failed",
               "timed_out", "retried", "cancelled", "classified", "reclassified"}
ReqPc == {"idle", "patch.write", "cancel.write", "lease.select", "lease.commit",
          "heartbeat.read", "heartbeat.write", "complete.write", "complete.close",
          "fail.read", "fail.write", "fail.close", "classify.update", "classify.insert",
          "event"}
Reqs == [pc : ReqPc, task : Option(Task), token : Nat, filter : Option(Filters),
         attempt : Nat, worker : Option(Worker), at : Nat, again : BOOLEAN,
         event : Option(EventTypes), hash : Option(Hash)]
\* Handlers that know no task, or have not looked theirs up.
Unread == {"idle", "lease.select", "heartbeat.read", "classify.insert"}
\* A handler keeps what it needs of its request.
Informed(q) == /\ q.pc = "heartbeat.read" => q.task \in Task
               /\ q.pc \in {"lease.select", "lease.commit"} => q.filter \in Filters
               /\ q.pc \in {"classify.update", "classify.insert"} => q.hash \in Hash
Loops == [pc : {"idle", "batch", "timed_out", "retried"}, at : Nat,
          batch : SUBSET Task, again : SUBSET Task, task : Option(Task)]

\* The tables and the local states hold what their columns and variables
\* may hold, and a row that exists is complete.
TypeOK ==
    /\ task \in [Task -> Rows]
    /\ \A t \in Existing : /\ task[t].title \in Title /\ task[t].route \in Route
                           /\ task[t].config \in Configs
    /\ attempts \in [Task -> Seq(Attempts)]
    /\ events \in [Task -> SUBSET [type : EventTypes, attempt : Nat]]
    /\ req \in [Req -> Reqs]
    /\ \A r \in Req : req[r].pc \notin Unread => req[r].task \in Existing
    /\ \A r \in Req : Informed(req[r])
    /\ \A r \in Req : req[r].pc = "event" => req[r].event \in EventTypes
    /\ loop \in Loops
    /\ loop.batch \subseteq Existing
    /\ loop.pc \in {"timed_out", "retried"} => loop.task \in Existing
    /\ snap \subseteq Req
    /\ held \subseteq Task \X Nat
    /\ now \in Nat
    /\ swallowed \in BOOLEAN

-----------------------------------------------------------------------------
(* Safety *)

\* FR-13, NFR-01: no two leases of a task carry the same fencing token, tokens
\* count up from 1 with the attempts, and attempt_count counts the attempts.
\* Two lease transactions that select the same task must not both commit.  If
\* the error of the token's read was dropped, tokens may repeat, but not
\* overtake the attempts.
TokensAgree == \A t \in Task :
    /\ task[t].count = Len(attempts[t])
    /\ \A i \in DOMAIN attempts[t] : /\ Token(t, i) \in 1..i
                                     /\ swallowed \/ Token(t, i) = i

\* A leased task has a deadline the expiry loop can see, and the worker shown
\* on its row is the one that was given the newest token, whatever heartbeats,
\* stale answers and expiries came in between.
LeaseBacked == \A t \in Task :
    task[t].status = "leased" =>
        /\ task[t].lease # None
        /\ attempts[t] # <<>>
        /\ task[t].worker = attempts[t][Len(attempts[t])].worker

\* The owner of a lease can always report: the newest attempt of a leased task
\* is open.  handleCompleteTask and handleFailTask change the task before they
\* close the attempt; only a swallowed error of that UPDATE breaks it.
LeasedAttemptOpen == \A t \in Task :
    task[t].status = "leased" /\ ~swallowed =>
        attempts[t] # <<>> /\ attempts[t][Len(attempts[t])].result = None

HasEvent(t, e, i) == [type |-> e, attempt |-> i] \in events[t]
Quiet == loop = LoopIdle /\ \A r \in Req : req[r] = Idle

\* The events that name an attempt.
OfAttempts == {"leased", "heartbeat", "progress", "completed", "failed"}

\* FR-20: the audit trail never runs ahead of the tables (a recorded lease has
\* its attempt, a recorded result its closed attempt, a time-out its lease).
EventsGrounded == \A t \in Task : \A e \in events[t] :
    /\ e.type \in OfAttempts => e.attempt \in DOMAIN attempts[t]
    /\ e.type \in {"completed", "failed"} /\ ~swallowed =>
           attempts[t][e.attempt].result # None
    /\ e.type \in {"timed_out", "retried"} => attempts[t] # <<>>

\* FR-20: without crashes and swallowed errors, once nothing is in progress
\* every lease and every closed attempt has its event.
EventsComplete == Quiet /\ ~swallowed => \A t \in Task : \A i \in DOMAIN attempts[t] :
    /\ HasEvent(t, "leased", i)
    /\ attempts[t][i].result # None =>
           HasEvent(t, "completed", i) \/ HasEvent(t, "failed", i)

\* FR-18, FR-19: handleFailTask and runExpiry compare attempt_count with
\* max_attempts in one step and queue the task in a later one.  Each handler, and
\* the loop, may have decided on a count that is old by then; so a task that no
\* classification has touched exceeds max_attempts by the number of handlers at
\* most, and one that must not be retried never is.
Cap(t) == IF task[t].config.max < 2 THEN 1 ELSE task[t].config.max + Cardinality(Req)
AttemptsCapped == \A t \in Existing : task[t].hash = None => task[t].count <= Cap(t)

\* A task is settled when its status is terminal, no attempt is open and no
\* handler or batch that may write its status is under way.
StatusWriter(t) ==
    \/ t \in loop.batch
    \/ \E r \in Req : /\ req[r].task = t
                      /\ req[r].pc \in {"cancel.write", "complete.write", "fail.read",
                                        "fail.write", "classify.update"}
Settled(t) == task[t].status \in Terminal /\ Open(t) = {} /\ ~StatusWriter(t)

Reclassifying(t) == \E r \in Req : req[r].pc = "classify.update" /\ req[r].task = t

\* A settled task stays as it is until a new classification takes it up: no
\* call of a worker, late or repeated, no cancellation and no expiry revives it.
SettledForGood == [][\A t \in Task :
    Settled(t) => /\ task'[t].status = task[t].status
                  /\ Settled(t)' \/ Reclassifying(t)']_vars

\* FR-17, NFR-02: while a task is leased, only the token of its newest attempt
\* passes the check of heartbeat, complete and fail.
Accepted(r, t) == /\ req[r].pc \in {"idle", "heartbeat.read"} /\ req'[r].task = t
                  /\ req'[r].pc \in {"heartbeat.write", "complete.write", "fail.read"}
OwnerOnly == [][\A r \in Req, t \in Task :
    Accepted(r, t) /\ task[t].status = "leased" /\ ~swallowed
        => req'[r].attempt = Len(attempts[t])]_vars

\* FR-13: a lease is granted to a queued task whose backoff had passed when the
\* request read the clock, and no other task that the filter of this request
\* admits precedes it at the moment of the commit, though the choice was made at
\* an earlier step.
Grants(r, t) == /\ req[r].pc = "lease.commit" /\ req[r].task = t
                /\ req'[r].pc = "event" /\ req'[r].event = "leased"
GrantIsBest == [][\A t \in Task :
    Len(attempts'[t]) > Len(attempts[t]) =>
        \E r \in Req : Grants(r, t) /\ Picks(t, req[r].filter, req[r].at)]_vars

\* NFR-03: however late heartbeats and leases write the deadline they have
\* computed, and in whatever order, a lease ends within its visibility timeout
\* once nobody renews it any more.
DeadlineNear == \A t \in Task :
    task[t].status = "leased" => task[t].lease <= now + task[t].config.vis

\* NFR-03: a lease that has run out is taken back or extended.
ExpiredReaped == \A t \in Task : t \in Expired(now) ~> t \notin Expired(now)

-----------------------------------------------------------------------------
(* What the documents say and the code does not keep *)

Answers(r, t) == /\ req[r].pc \in {"complete.write", "fail.write"}
                 /\ req[r].task = t /\ task'[t] # task[t]

\* prd/04 NFR-02: complete and fail "must reject requests with a fencing token
\* that does not match the current attempt's token".  The token is checked in one
\* statement and the task is written in another, without the token or the status
\* as a condition: an answer that passed the check before an expiry changes the
\* task of the next owner.
OwnerWrites == [][\A r \in Req, t \in Task :
    Answers(r, t) /\ task[t].status = "leased"
        => req[r].attempt = Len(attempts[t])]_vars

\* prd/04 NFR-02: the task remains in whatever state the new owner set.  Once
\* the new owner's attempt is closed, an older attempt that expired is the
\* newest open one, and its worker's fail queues the completed task again.
NewOwnerStands == [][\A r \in Req, t \in Task :
    Answers(r, t) /\ task[t].status = "completed"
        => task'[t].status = "completed"]_vars

\* prd/03 FR-19: a task with attempt_count >= max_attempts is not leased again.
\* handleFailTask and runExpiry decide on a count read at an earlier step.
AttemptsWithinMax == \A t \in Existing : task[t].count <= task[t].config.max

-----------------------------------------------------------------------------
(* Why the safety properties hold: with them, an inductive invariant *)

\* A lease transaction that may still commit has chosen a task that is still
\* queued and a token that is still the next one: any commit since its reads,
\* its own or another's, would have made its snapshot old.
SnapshotsFresh == \A r \in snap :
    LET q == req[r] IN
    /\ q.pc = "lease.commit"
    /\ task[q.task].status = "queued"
    /\ q.attempt \in 1 .. Len(attempts[q.task]) + 1
    /\ swallowed \/ q.attempt = Len(attempts[q.task]) + 1

\* A handler past its token check works on an attempt that exists.
Answering == {"heartbeat.write", "complete.write", "complete.close",
              "fail.read", "fail.write", "fail.close"}
OnAttempt(q) == \/ q.pc \in Answering
                \/ q.pc = "event" /\ q.event \in OfAttempts
HandlersKnowAttempt == \A r \in Req :
    OnAttempt(req[r]) => req[r].attempt \in DOMAIN attempts[req[r].task]

\* Whoever is about to close an attempt has taken the lease away before: the
\* task is no longer leased, or leased again with a newer attempt.
Closing(q) == q.pc \in {"complete.close", "fail.close"}
ClosesOldAttempts == \A r \in Req :
    Closing(req[r]) /\ ~swallowed /\ task[req[r].task].status = "leased"
        => req[r].attempt < Len(attempts[req[r].task])

\* The loop handles tasks that were leased, and only rows that exist have
\* attempts.
BatchWasLeased ==
    /\ \A t \in loop.batch : attempts[t] # <<>>
    /\ loop.pc \in {"timed_out", "retried"} => attempts[loop.task] # <<>>
AttemptsHaveTask == \A t \in Task : attempts[t] # <<>> => t \in Existing

IInv == /\ TypeOK
        /\ TokensAgree
        /\ LeaseBacked
        /\ LeasedAttemptOpen
        /\ SnapshotsFresh
        /\ HandlersKnowAttempt
        /\ ClosesOldAttempts
        /\ BatchWasLeased
        /\ AttemptsHaveTask

-----------------------------------------------------------------------------
(* The abstract specification *)

Ledger == INSTANCE LeaseLedger WITH
              status <- [t \in Task |-> task[t].status],
              issued <- [t \in Task |-> Len(attempts[t])]

\* Every step of the handlers, the loop and the failures is a step of the
\* ledger or leaves it alone: in particular NFR-01, one grant for each time a
\* task is queued.
ImplementsLedger == Ledger!Spec
=============================================================================
