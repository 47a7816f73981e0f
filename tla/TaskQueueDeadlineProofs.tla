----------------------- MODULE TaskQueueDeadlineProofs -----------------------
(* The deadline of a lease never lies further ahead than the visibility      *)
(* timeout of its task, for every value of the constants: whoever writes it  *)
(* adds the timeout to a clock reading that is its own, however late it      *)
(* writes and whichever handlers come in between.                            *)
EXTENDS TaskQueueActionProofs

\* Time never runs backwards.
LEMMA TimePasses == ASSUME IInv, [Next]_vars PROVE now' >= now
<1>1. now \in Nat
  BY DEF IInv, TypeOK
<1>2. ASSUME NEW r \in Req, Handler(r) PROVE now' = now
  BY <1>2 DEF Handler, Create, PatchCheck, CancelCheck, PatchWrite, CancelWrite,
        LeaseBegin, LeaseSelect, LeaseNothing, LeaseCommit, LeaseConflict, HeartbeatBegin,
        HeartbeatRead, CompleteValidate, FailValidate, HeartbeatWrite, CompleteWrite, CompleteClose, FailRead, FailWrite, FailClose,
        ClassifyRead, ClassifyUpdate, ClassifyInsert, AppendEvent, Abort
<1>3. ASSUME ExpiryLoop \/ Crash \/ Tick \/ UNCHANGED vars PROVE now' \in {now, now + 1}
  BY <1>3 DEF ExpiryLoop, LoopScan, LoopUpdate, LoopSkip, LoopTimedOut, LoopRetried, Crash,
              Tick, vars
<1> QED
  BY <1>1, <1>2, <1>3 DEF Next

\* Who may write the deadline of a task that is leased afterwards.
LEMMA DeadlineSteps ==
    ASSUME IInv, [Next]_vars, NEW t \in Task, task'[t].status = "leased"
    PROVE  /\ task'[t].config = task[t].config
           /\ \/ \E r \in Req : /\ LeaseCommit(r) /\ req[r].task = t
                               /\ task'[t].lease = req[r].at + task[t].config.vis
              \/ /\ task[t].status = "leased"
                 /\ \/ task'[t].lease = task[t].lease
                    \/ \E r \in Req : /\ HeartbeatWrite(r) /\ req[r].task = t
                                     /\ task'[t].lease = req[r].at + task[t].config.vis
<1>1. /\ task \in [Task -> Rows]
      /\ \A r \in Req : req[r].pc \notin {"idle", "lease.select", "heartbeat.read",
                                         "classify.insert"} => req[r].task \in Task
  BY DEF IInv, TypeOK, Existing, Unread
<1>2. /\ task'[t].config = task[t].config
      /\ task[t].status = "leased" \/ \E r \in Req : LeaseCommit(r) /\ req[r].task = t
  BY RowSteps DEF RowKept, SameTask, RowInserted, RowPatched, RowReclassified
<1>3. ASSUME NEW r \in Req, LeaseCommit(r), req[r].task = t
      PROVE  task'[t].lease = req[r].at + task[t].config.vis
  <2> DEFINE n == req[r].at + task[t].config.vis
             k == task[t].count + 1
             row == [task[t] EXCEPT !.status = "leased", !.worker = req[r].worker,
                                    !.lease = n, !.count = k]
  <2>1. Row(t, row)
    BY <1>3 DEF LeaseCommit, Leased
  <2> HIDE DEF n, k
  <2>2. row.lease = n
    BY <1>1 DEF Rows
  <2> HIDE DEF row
  <2>3. task'[t].lease = n
    BY <1>1, <2>1, <2>2 DEF Row
  <2> QED
    BY <2>3 DEF n
<1>4. ASSUME NEW u \in Task, NEW row, Row(u, row),
             row.status # "leased" \/ row.lease = task[u].lease
      PROVE  task'[t].lease = task[t].lease
  BY <1>1, <1>4 DEF Row
<1>5. ASSUME NEW r \in Req, Handler(r), task' # task
      PROVE  \/ LeaseCommit(r) /\ req[r].task = t
             \/ task'[t].lease = task[t].lease
             \/ /\ HeartbeatWrite(r) /\ req[r].task = t
                /\ task'[t].lease = req[r].at + task[t].config.vis
  <2> DEFINE q == req[r]
             u == q.task
  <2>1. CASE \/ \E v \in Task, n \in Title, y \in Option(Context), x \in Route, c \in Configs :
                  Create(r, v, n, y, x, c)
             \/ \E v \in Task, x \in Route, c \in Configs : ClassifyInsert(r, v, x, c)
    <3>1. PICK v \in Task : \E n, y, h, x, c : Row(v, Created(n, y, h, x, c))
      BY <2>1 DEF Create, ClassifyInsert
    <3>2. \A n, y, h, x, c : Created(n, y, h, x, c).status # "leased"
      BY DEF Created, NoTask
    <3> QED
      BY <1>4, <3>1, <3>2
  <2>2. ASSUME NEW n \in Title, NEW y \in Option(Context), NEW x \in Route, PatchWrite(r, n, y, x)
        PROVE  task'[t].lease = task[t].lease
    <3> DEFINE row == [task[u] EXCEPT !.title = n, !.route = x,
                              !.context = IF y = None THEN @ ELSE y]
    <3>1. u \in Task /\ task[u] \in Rows /\ Row(u, row)
      BY <1>1, <2>2 DEF PatchWrite
    <3>2. row.lease = task[u].lease
      BY <3>1 DEF Rows
    <3> HIDE DEF row
    <3> QED
      BY <1>4, <3>1, <3>2
  <2>3. CASE \/ CancelWrite(r)
             \/ \E x \in Route : ClassifyUpdate(r, x)
             \/ \E w \in Worker : CompleteWrite(r, w)
    <3>1. /\ u \in Task /\ task[u] \in Rows
          /\ \/ Row(u, [task[u] EXCEPT !.status = "cancelled"])
             \/ \E x \in Route : Row(u, [task[u] EXCEPT !.status = "queued", !.route = x,
                                           !.hash = q.hash, !.context = q.hash[2]])
             \/ \E w \in Worker : Row(u, Completed(task[u], w))
      BY <1>1, <2>3 DEF CancelWrite, ClassifyUpdate, CompleteWrite
    <3>2. /\ [task[u] EXCEPT !.status = "cancelled"].status = "cancelled"
          /\ \A x : [task[u] EXCEPT !.status = "queued", !.route = x, !.hash = q.hash,
                                    !.context = q.hash[2]].status = "queued"
          /\ \A w : Completed(task[u], w).status = "completed"
      BY <3>1 DEF Rows, Completed
    <3>3. \E row : Row(u, row) /\ row.status # "leased"
      BY <3>1, <3>2
    <3> QED
      BY <1>4, <3>1, <3>3
  <2>4. CASE FailWrite(r)
    <3> DEFINE row == IF q.again THEN Requeued(task[u], q.at) ELSE Ended(task[u], "failed")
    <3>1. u \in Task /\ task[u] \in Rows /\ Row(u, row)
      BY <1>1, <1>5, <2>4 DEF FailWrite
    <3>2. row.status \in {"queued", "failed"} /\ SameTask(row, task[u])
      BY <3>1, RowUnleased
    <3> HIDE DEF row
    <3> QED
      BY <1>4, <3>1, <3>2
  <2>5. CASE LeaseCommit(r)
    BY <1>1, <2>5 DEF LeaseCommit, Row
  <2>6. CASE HeartbeatWrite(r)
    <3> DEFINE n == q.at + task[u].config.vis
               row == [task[u] EXCEPT !.lease = n]
    <3>1. u \in Task /\ task[u] \in Rows /\ Row(u, row)
      BY <1>1, <2>6 DEF HeartbeatWrite
    <3> HIDE DEF n
    <3>2. row.lease = n
      BY <3>1 DEF Rows
    <3> HIDE DEF row
    <3>3. IF u = t THEN task'[t].lease = n ELSE task'[t] = task[t]
      BY <1>1, <3>1, <3>2 DEF Row
    <3> QED
      BY <2>6, <3>3 DEF n
  <2> QED
    BY <1>5, <2>1, <2>2, <2>3, <2>4, <2>5, <2>6
    DEF Handler, PatchCheck, CancelCheck, LeaseBegin, LeaseSelect, LeaseNothing, LeaseConflict,
        HeartbeatBegin, HeartbeatRead, CompleteValidate, CompleteClose, FailValidate, FailRead, FailClose, ClassifyRead,
        AppendEvent, Abort, db
<1>6. ASSUME NEW u \in Task, LoopUpdate(u) PROVE task'[t].lease = task[t].lease
  <2> DEFINE row == IF u \in loop.again THEN Requeued(task[u], loop.at)
                    ELSE Ended(task[u], "timed_out")
  <2>1. task[u] \in Rows /\ Row(u, row)
    BY <1>1, <1>6 DEF LoopUpdate
  <2>2. row.status # "leased"
    BY <2>1, RowUnleased
  <2> HIDE DEF row
  <2> QED
    BY <1>4, <2>1, <2>2
<1>7. CASE \/ LoopScan \/ LoopTimedOut \/ LoopRetried \/ Crash \/ Tick \/ UNCHANGED vars
           \/ \E u \in Task : LoopSkip(u)
  BY <1>7 DEF LoopScan, LoopTimedOut, LoopRetried, LoopSkip, Crash, Tick, vars, db
<1>8. task' = task => task'[t].lease = task[t].lease
  OBVIOUS
<1>9. \/ \E r \in Req : LeaseCommit(r) /\ req[r].task = t
      \/ task'[t].lease = task[t].lease
      \/ \E r \in Req : /\ HeartbeatWrite(r) /\ req[r].task = t
                       /\ task'[t].lease = req[r].at + task[t].config.vis
  BY <1>5, <1>6, <1>7, <1>8 DEF Next, ExpiryLoop
<1> QED
  BY <1>2, <1>3, <1>9

\* The handlers that have read the clock to write a deadline.
Renewing == {"lease.select", "lease.commit", "heartbeat.read", "heartbeat.write"}

\* No deadline lies too far ahead, and no handler that is to write one has read
\* a clock that is ahead.
DeadlinesInv == /\ DeadlineNear
                /\ \A r \in Req : req[r].pc \in Renewing => req[r].at <= now

LEMMA DeadlinesKept ==
    ASSUME IInv, DeadlinesInv, [Next]_vars
    PROVE  DeadlinesInv'
<1>1. /\ now \in Nat /\ now' \in Nat /\ now' >= now
      /\ \A r \in Req : req[r].at \in Nat /\ req'[r].at \in Nat
      /\ \A t \in Task : task'[t].status = "leased" =>
             task'[t].lease \in Int /\ task'[t].config.vis \in Int
  <2>1. IInv'
    BY NextIInv
  <2>2. now \in Nat /\ now' \in Nat /\ now' >= now
    BY <2>1, TimePasses DEF IInv, TypeOK
  <2>3. \A r \in Req : req[r].at \in Nat /\ req'[r].at \in Nat
    BY <2>1 DEF IInv, TypeOK, Reqs
  <2>4. ASSUME NEW t \in Task, task'[t].status = "leased"
        PROVE  task'[t].lease \in Int /\ task'[t].config.vis \in Int
    <3>1. task'[t].config \in Configs
      BY <2>1, <2>4 DEF IInv, TypeOK, Existing
    <3>2. task'[t].lease \in Int
      BY <2>1, <2>4 DEF IInv, TypeOK, Rows, Option, LeaseBacked
    <3> QED
      BY <3>1, <3>2, ConfigsAssumption
  <2> QED
    BY <2>2, <2>3, <2>4
<1>2. ASSUME NEW r \in Req, req'[r].pc \in Renewing PROVE req'[r].at <= now'
  <2>1. CASE req'[r] = req[r]
    BY <1>1, <1>2, <2>1 DEF DeadlinesInv
  <2>2. CASE /\ req[r].pc \in {"lease.select", "heartbeat.read"}
             /\ req'[r].at = req[r].at
    BY <1>1, <1>2, <2>2 DEF DeadlinesInv, Renewing
  <2>3. CASE req'[r].at = now
    BY <1>1, <2>3
  <2> QED
    BY <1>2, <2>1, <2>2, <2>3, HandlerMoves DEF Move, Renewing
<1>3. ASSUME NEW t \in Task, task'[t].status = "leased"
      PROVE  task'[t].lease <= now' + task'[t].config.vis
  <2>1. \A r \in Req : LeaseCommit(r) \/ HeartbeatWrite(r) => req[r].at <= now
    BY DEF DeadlinesInv, Renewing, LeaseCommit, HeartbeatWrite
  <2>2. task'[t].config = task[t].config
    BY <1>3, DeadlineSteps
  <2>3. CASE task[t].status = "leased" /\ task'[t].lease = task[t].lease
    <3>1. task[t].lease <= now + task[t].config.vis
      BY <2>3 DEF DeadlinesInv, DeadlineNear
    <3> QED
      BY <1>1, <1>3, <2>2, <2>3, <3>1
  <2>4. CASE \E r \in Req : /\ LeaseCommit(r) \/ HeartbeatWrite(r)
                           /\ task'[t].lease = req[r].at + task[t].config.vis
    <3>1. PICK r \in Req : /\ req[r].at <= now
                           /\ task'[t].lease = req[r].at + task'[t].config.vis
      BY <2>1, <2>2, <2>4
    <3> QED
      BY <1>1, <1>3, <3>1
  <2> QED
    BY <1>3, <2>3, <2>4, DeadlineSteps
<1> QED
  BY <1>2, <1>3 DEF DeadlinesInv, DeadlineNear

\* NFR-03: a lease that nobody renews any more ends within the visibility
\* timeout of its task, whatever overlaps.  Handlers that carry an old clock
\* reading only write an earlier deadline.
THEOREM DeadlinesNear == Spec => []DeadlineNear
<1>1. Init => DeadlinesInv
  BY DEF Init, Idle, NoTask, DeadlinesInv, DeadlineNear, Renewing
<1>2. IInv /\ DeadlinesInv /\ [Next]_vars => DeadlinesInv'
  BY DeadlinesKept
<1>3. DeadlinesInv => DeadlineNear
  BY DEF DeadlinesInv
<1> QED
  BY <1>1, <1>2, <1>3, Invariance, PTL DEF Spec
=============================================================================
