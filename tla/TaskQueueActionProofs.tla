----------------------- MODULE TaskQueueActionProofs -----------------------
(* What no step of TaskQueue does, and that its steps are steps of the       *)
(* ledger, for every value of the constants.  Both follow from the invariant *)
(* of TaskQueueProofs and from where handlers may go.                        *)
EXTENDS TaskQueueHistoryProofs

-----------------------------------------------------------------------------
(* Only the owner of a lease passes the check *)

\* While no error was dropped, the row the check of a leased task goes on with
\* is the newest one: it is open, and among open rows the token is the number.
LEMMA TopIsNewest ==
    ASSUME IInv, NEW t \in Task, task[t].status = "leased", ~swallowed,
           NEW i \in DOMAIN attempts[t], IsTop(t, i)
    PROVE  i = Len(attempts[t])
<1> USE DEF IInv
<1> DEFINE n == Len(attempts[t])
<1>1. /\ attempts[t] \in Seq(Attempts) /\ n \in Nat /\ DOMAIN attempts[t] = 1..n
  BY LenProperties DEF TypeOK
<1>2. attempts[t] # <<>> /\ attempts[t][n].result = None
  BY DEF LeasedAttemptOpen
<1>3. n # 0
  BY <1>1, <1>2, EmptySeq
<1>4. n \in Open(t)
  BY <1>1, <1>2, <1>3 DEF Open
<1>5. Token(t, n) = n /\ Token(t, i) = i
  BY <1>1, <1>3 DEF TokensAgree
<1>6. Token(t, n) <= Token(t, i)
  BY <1>4 DEF IsTop
<1> QED
  BY <1>1, <1>5, <1>6

\* Only the three checks let a request in.
LEMMA AcceptedByCheck ==
    ASSUME IInv, Next, NEW r \in Req, NEW t \in Task, Accepted(r, t)
    PROVE  \E i \in DOMAIN attempts[t] : IsTop(t, i) /\ req'[r].attempt = i
<1>1. req'[r] # req[r]
  BY DEF Accepted
<1>2. IsTop(t, req'[r].attempt)
  BY <1>1, HandlerMoves DEF Accepted, Move
<1> QED
  BY <1>2 DEF IsTop, Open

\* FR-17, NFR-02: however stale answers, expiries, reclassifications and
\* crashes interleave, no step accepts a token of a leased task but the newest.
THEOREM OnlyOwnersAccepted == Spec => OwnerOnly
<1>1. IInv /\ [Next]_vars => [\A r \in Req, t \in Task :
          Accepted(r, t) /\ task[t].status = "leased" /\ ~swallowed
              => req'[r].attempt = Len(attempts[t])]_vars
  <2> SUFFICES ASSUME IInv, Next, NEW r \in Req, NEW t \in Task, Accepted(r, t),
                      task[t].status = "leased", ~swallowed
               PROVE  req'[r].attempt = Len(attempts[t])
    OBVIOUS
  <2>1. PICK i \in DOMAIN attempts[t] : IsTop(t, i) /\ req'[r].attempt = i
    BY AcceptedByCheck
  <2> QED
    BY <2>1, TopIsNewest
<1> QED
  BY <1>1, Invariance, PTL DEF Spec, OwnerOnly
-----------------------------------------------------------------------------
(* The ledger *)

\* A step that gives one task a status the ledger allows, and issues nothing.
LEMMA StatusMove ==
    ASSUME NEW t \in Task, NEW s,
           \A u \in Task : task'[u].status = IF u = t THEN s ELSE task[u].status,
           \A u \in Task : Len(attempts'[u]) = Len(attempts[u]),
           \/ task[t].status = "absent" /\ s = "queued"
           \/ task[t].status # "absent" /\ s \in {"queued", "cancelled"}
           \/ Len(attempts[t]) > 0 /\ s \in {"completed", "failed", "timed_out"}
           \/ s = task[t].status
    PROVE  [Ledger!Next]_(Ledger!ledger)
<1> DEFINE status == [u \in Task |-> task[u].status]
           issued == [u \in Task |-> Len(attempts[u])]
           status1 == [u \in Task |-> task'[u].status]
           issued1 == [u \in Task |-> Len(attempts'[u])]
<1>1. issued1 = issued
  OBVIOUS
<1>2. status1 = [status EXCEPT ![t] = s]
  OBVIOUS
<1>3. status[t] = task[t].status /\ issued[t] = Len(attempts[t])
  OBVIOUS
<1>4. CASE s = task[t].status
  <2>1. status1 = status
    BY <1>4
  <2> QED
    BY <1>1, <2>1 DEF Ledger!ledger
<1>5. CASE task[t].status = "absent" /\ s = "queued"
  <2>1. Ledger!Create(t)
    BY <1>1, <1>2, <1>3, <1>5 DEF Ledger!Create
  <2> QED
    BY <2>1 DEF Ledger!Next
<1>6. CASE task[t].status # "absent" /\ s = "queued"
  <2>1. Ledger!Requeue(t)
    BY <1>1, <1>2, <1>3, <1>6 DEF Ledger!Requeue
  <2> QED
    BY <2>1 DEF Ledger!Next
<1>7. CASE task[t].status # "absent" /\ s = "cancelled"
  <2>1. Ledger!Cancel(t)
    BY <1>1, <1>2, <1>3, <1>7 DEF Ledger!Cancel
  <2> QED
    BY <2>1 DEF Ledger!Next
<1>8. CASE Len(attempts[t]) > 0 /\ s \in {"completed", "failed", "timed_out"}
  <2>1. Ledger!Settle(t)
    BY <1>1, <1>2, <1>3, <1>8 DEF Ledger!Settle
  <2> QED
    BY <2>1 DEF Ledger!Next
<1> QED
  BY <1>4, <1>5, <1>6, <1>7, <1>8

\* The same, when the step is the UPDATE or INSERT of one row.
LEMMA RowMove ==
    ASSUME IInv, NEW t \in Task, NEW row, Row(t, row), attempts' = attempts,
           \/ task[t].status = "absent" /\ row.status = "queued"
           \/ task[t].status # "absent" /\ row.status \in {"queued", "cancelled"}
           \/ Len(attempts[t]) > 0 /\ row.status \in {"completed", "failed", "timed_out"}
           \/ row.status = task[t].status
    PROVE  [Ledger!Next]_(Ledger!ledger)
<1>1. \A u \in Task : task'[u] = IF u = t THEN row ELSE task[u]
  BY DEF Row, IInv, TypeOK
<1>2. \A u \in Task : task'[u].status = IF u = t THEN row.status ELSE task[u].status
  BY <1>1
<1> QED
  BY <1>2, StatusMove

\* A step that leaves tasks and attempts alone.
LEMMA NoMove ==
    ASSUME task' = task, attempts' = attempts
    PROVE  [Ledger!Next]_(Ledger!ledger)
  BY DEF Ledger!ledger

LEMMA GrantMove ==
    ASSUME IInv, NEW r \in Req, NEW t \in Task, t = req[r].task, LeaseCommit(r)
    PROVE  [Ledger!Next]_(Ledger!ledger)
<1> USE DEF IInv
<1> DEFINE a == Attempt(req[r].attempt, req[r].worker)
           row == Leased(task[t], req[r].worker, req[r].at)
           status == [u \in Task |-> task[u].status]
           issued == [u \in Task |-> Len(attempts[u])]
           status1 == [u \in Task |-> task'[u].status]
           issued1 == [u \in Task |-> Len(attempts'[u])]
<1>1. /\ req[r] \in Reqs /\ task[t] \in Rows /\ task[t].config \in Configs
      /\ task[t].status = "queued"
      /\ req[r].worker \in Option(Worker) /\ req[r].at \in Nat /\ req[r].attempt \in Nat
  BY DEF LeaseCommit, SnapshotCurrent, SnapshotsFresh, TypeOK, Existing, Reqs
<1>2. row.status = "leased" /\ a \in Attempts
  BY <1>1, LeasedRow DEF Attempt, Attempts
<1>3. /\ Row(t, row)
      /\ attempts' = [attempts EXCEPT ![t] = Append(attempts[t], a)]
  BY DEF LeaseCommit
<1> HIDE DEF row, a
<1>4. \A u \in Task : task'[u].status = IF u = t THEN "leased" ELSE task[u].status
  BY <1>2, <1>3 DEF Row, TypeOK
<1>5. Len(Append(attempts[t], a)) = Len(attempts[t]) + 1
  BY <1>1, <1>2, AppendProperties DEF TypeOK
<1>6. \A u \in Task : Len(attempts'[u]) = IF u = t THEN Len(attempts[t]) + 1 ELSE Len(attempts[u])
  BY <1>1, <1>3, <1>5 DEF TypeOK
<1>7. status1 = [status EXCEPT ![t] = "leased"] /\ status[t] = "queued"
  BY <1>1, <1>4
<1>8. issued1 = [issued EXCEPT ![t] = issued[t] + 1]
  BY <1>1, <1>6
<1>9. Ledger!Grant(t)
  BY <1>7, <1>8 DEF Ledger!Grant
<1> QED
  BY <1>9 DEF Ledger!Next

LEMMA StepOfLedger == IInv /\ [Next]_vars => [Ledger!Next]_(Ledger!ledger)
<1> SUFFICES ASSUME IInv, [Next]_vars PROVE [Ledger!Next]_(Ledger!ledger)
  OBVIOUS
<1> USE DEF IInv
<1>1. ASSUME NEW t \in Task, attempts[t] # <<>> PROVE Len(attempts[t]) > 0
  BY <1>1, EmptySeq, LenProperties DEF TypeOK
<1>2. ASSUME NEW r \in Req, OnAttempt(req[r])
      PROVE  req[r].task \in Task /\ Len(attempts[req[r].task]) > 0
  <2>1. req[r].task \in Task /\ req[r].attempt \in DOMAIN attempts[req[r].task]
    BY <1>2 DEF TypeOK, Existing, Unread, OnAttempt, OfAttempts, Answering, HandlersKnowAttempt
  <2>2. attempts[req[r].task] # <<>>
    BY <2>1
  <2> QED
    BY <1>1, <2>1, <2>2
<1>3. ASSUME NEW r \in Req,
             req[r].pc \notin {"idle", "lease.select", "heartbeat.read", "classify.insert"}
      PROVE  /\ req[r].task \in Task /\ task[req[r].task].status # "absent"
             /\ task[req[r].task] \in Rows
  BY <1>3 DEF TypeOK, Existing, Unread
<1>4. ASSUME NEW r \in Req, Handler(r) PROVE [Ledger!Next]_(Ledger!ledger)
  <2>1. ASSUME NEW t \in Task, NEW n \in Title, NEW y, NEW h, NEW x \in Route, NEW c \in Configs,
               task[t].status = "absent", Row(t, Created(n, y, h, x, c)), attempts' = attempts
        PROVE  [Ledger!Next]_(Ledger!ledger)
    <3>1. Created(n, y, h, x, c).status = "queued"
      BY DEF Created, NoTask
    <3> QED
      BY <2>1, <3>1, RowMove
  <2>2. ASSUME NEW t \in Task, NEW n \in Title, NEW y \in Option(Context),
               NEW x \in Route, NEW c \in Configs, Create(r, t, n, y, x, c)
        PROVE  [Ledger!Next]_(Ledger!ledger)
    BY <2>1, <2>2 DEF Create
  <2>3. ASSUME NEW t \in Task, NEW x \in Route, NEW c \in Configs, ClassifyInsert(r, t, x, c)
        PROVE  [Ledger!Next]_(Ledger!ledger)
    <3>1. req[r].hash[1] \in Title
      BY <2>3 DEF ClassifyInsert, TypeOK, Informed, Hash
    <3> QED
      BY <2>1, <2>3, <3>1 DEF ClassifyInsert
  <2>4. ASSUME NEW n \in Title, NEW y \in Option(Context), NEW x \in Route, PatchWrite(r, n, y, x)
        PROVE  [Ledger!Next]_(Ledger!ledger)
    <3> DEFINE t == req[r].task
               row == [task[t] EXCEPT !.title = n, !.route = x,
                              !.context = IF y = None THEN @ ELSE y]
    <3>1. t \in Task /\ task[t] \in Rows
      BY <2>4, <1>3 DEF PatchWrite
    <3>2. row.status = task[t].status
      BY <3>1 DEF Rows
    <3>3. Row(t, row) /\ attempts' = attempts
      BY <2>4 DEF PatchWrite
    <3> HIDE DEF row
    <3> QED
      BY <3>1, <3>2, <3>3, RowMove
  <2>5. ASSUME NEW x \in Route, ClassifyUpdate(r, x) PROVE [Ledger!Next]_(Ledger!ledger)
    <3> DEFINE t == req[r].task
               row == [task[t] EXCEPT !.status = "queued", !.route = x, !.hash = req[r].hash,
                              !.context = req[r].hash[2]]
    <3>1. t \in Task /\ task[t] \in Rows /\ task[t].status # "absent"
      BY <2>5, <1>3 DEF ClassifyUpdate
    <3>2. row.status = "queued"
      BY <3>1 DEF Rows
    <3>3. Row(t, row) /\ attempts' = attempts
      BY <2>5 DEF ClassifyUpdate
    <3> HIDE DEF row
    <3> QED
      BY <3>1, <3>2, <3>3, RowMove
  <2>6. CASE CancelWrite(r)
    <3> DEFINE t == req[r].task
               row == [task[t] EXCEPT !.status = "cancelled"]
    <3>1. t \in Task /\ task[t] \in Rows /\ task[t].status # "absent"
      BY <2>6, <1>3 DEF CancelWrite
    <3>2. row.status = "cancelled"
      BY <3>1 DEF Rows
    <3>3. Row(t, row) /\ attempts' = attempts
      BY <2>6 DEF CancelWrite
    <3> HIDE DEF row
    <3> QED
      BY <3>1, <3>2, <3>3, RowMove
  <2>7. CASE HeartbeatWrite(r)
    <3> DEFINE t == req[r].task
               n == req[r].at + task[t].config.vis
               row == [task[t] EXCEPT !.lease = n]
    <3>1. t \in Task /\ task[t] \in Rows
      BY <2>7, <1>3 DEF HeartbeatWrite
    <3> HIDE DEF n
    <3>2. row.status = task[t].status
      BY <3>1 DEF Rows
    <3>3. Row(t, row) /\ attempts' = attempts
      BY <2>7 DEF HeartbeatWrite, n
    <3> HIDE DEF row
    <3> QED
      BY <3>1, <3>2, <3>3, RowMove
  <2>8. ASSUME NEW w \in Worker, CompleteWrite(r, w) PROVE [Ledger!Next]_(Ledger!ledger)
    <3> DEFINE t == req[r].task
               row == Completed(task[t], w)
    <3>1. t \in Task /\ task[t] \in Rows /\ Len(attempts[t]) > 0
      BY <2>8, <1>2, <1>3 DEF CompleteWrite, OnAttempt, Answering
    <3>2. row.status = "completed"
      BY <3>1 DEF Completed, Rows
    <3>3. Row(t, row) /\ attempts' = attempts
      BY <2>8 DEF CompleteWrite
    <3> HIDE DEF row
    <3> QED
      BY <3>1, <3>2, <3>3, RowMove
  <2>9. CASE FailWrite(r)
    <3> DEFINE t == req[r].task
               row == IF req[r].again THEN Requeued(task[t], req[r].at) ELSE Ended(task[t], "failed")
    <3>1. /\ t \in Task /\ task[t] \in Rows /\ Len(attempts[t]) > 0
          /\ task[t].status # "absent" /\ task[t].config \in Configs /\ req[r].at \in Nat
      BY <2>9, <1>2, <1>3 DEF FailWrite, OnAttempt, Answering, TypeOK, Existing, Reqs
    <3>2. row.status \in {"queued", "failed"}
      BY <3>1, UnleasedRow DEF Status, Terminal
    <3>3. (Row(t, row) \/ task' = task) /\ attempts' = attempts
      BY <2>9 DEF FailWrite
    <3> HIDE DEF row
    <3> QED
      BY <3>1, <3>2, <3>3, RowMove, NoMove
  <2>10. CASE CompleteClose(r) \/ FailClose(r)
    <3>1. /\ req[r].task \in Task /\ req[r].attempt \in DOMAIN attempts[req[r].task]
      BY <2>10 DEF CompleteClose, FailClose, TypeOK, Existing, Unread, HandlersKnowAttempt, OnAttempt, Answering
    <3>2. /\ task' = task
          /\ \/ attempts' = attempts
             \/ \E res \in {"completed", "failed"} :
                  attempts' = Close(req[r].task, req[r].attempt, res)
      BY <2>10 DEF CompleteClose, FailClose
    <3>3. \A u \in Task : Len(attempts'[u]) = Len(attempts[u])
      BY <3>1, <3>2, CloseEffect DEF TypeOK
    <3>4. /\ \A u \in Task : task'[u].status = IF u = req[r].task THEN task[req[r].task].status
                                                ELSE task[u].status
      BY <3>2
    <3> QED
      BY <3>1, <3>3, <3>4, StatusMove
  <2>11. CASE LeaseCommit(r)
    <3>1. req[r].task \in Task
      BY <2>11, <1>3 DEF LeaseCommit
    <3> QED
      BY <2>11, <3>1, GrantMove
  <2>12. CASE \/ \E t \in Task : PatchCheck(r, t) \/ CancelCheck(r, t)
              \/ \E w \in Worker, f \in Filters : LeaseBegin(r, w, f)
              \/ LeaseSelect(r) \/ LeaseNothing(r) \/ LeaseConflict(r)
              \/ \E h \in held : \/ HeartbeatBegin(r, h[1], h[2])
                                 \/ CompleteValidate(r, h[1], h[2])
                                 \/ FailValidate(r, h[1], h[2])
              \/ HeartbeatRead(r)
              \/ \E hint \in BOOLEAN : FailRead(r, hint)
              \/ \E n \in Title, y \in Context : ClassifyRead(r, n, y)
              \/ AppendEvent(r)
              \/ Abort(r)
    <3>1. task' = task /\ attempts' = attempts
      BY <2>12 DEF PatchCheck, CancelCheck, LeaseBegin, LeaseSelect, LeaseNothing,
                   LeaseConflict, HeartbeatBegin, HeartbeatRead, CompleteValidate, FailValidate, FailRead, ClassifyRead, AppendEvent, Abort, db
    <3> QED
      BY <3>1, NoMove
  <2> QED
    BY <1>4, <2>2, <2>3, <2>4, <2>5, <2>6, <2>7, <2>8, <2>9, <2>10, <2>11, <2>12 DEF Handler
<1>5. ASSUME NEW t \in Task, LoopUpdate(t) PROVE [Ledger!Next]_(Ledger!ledger)
  <2> DEFINE row == IF t \in loop.again THEN Requeued(task[t], loop.at)
                    ELSE Ended(task[t], "timed_out")
  <2>1. /\ task[t] \in Rows /\ attempts[t] # <<>> /\ task[t].status # "absent"
        /\ task[t].config \in Configs /\ loop.at \in Nat
    BY <1>5 DEF LoopUpdate, TypeOK, Existing, BatchWasLeased, Loops
  <2>2. row.status \in {"queued", "timed_out"}
    BY <2>1, UnleasedRow DEF Status, Terminal
  <2>3. Row(t, row) /\ attempts' = attempts
    BY <1>5 DEF LoopUpdate
  <2> HIDE DEF row
  <2> QED
    BY <1>1, <2>1, <2>2, <2>3, RowMove
<1>6. CASE \/ LoopScan \/ LoopTimedOut \/ LoopRetried \/ Crash \/ Tick \/ UNCHANGED vars
           \/ \E t \in Task : LoopSkip(t)
  <2>1. task' = task /\ attempts' = attempts
    BY <1>6 DEF LoopScan, LoopTimedOut, LoopRetried, LoopSkip, Crash, Tick, vars, db
  <2> QED
    BY <2>1, NoMove
<1> QED
  BY <1>4, <1>5, <1>6 DEF Next, ExpiryLoop

LEMMA InitOfLedger == Init => Ledger!Init
  BY EmptySeq DEF Init, NoTask, Ledger!Init

\* NFR-01 and the life of a task: for every value of the constants, every
\* behaviour of the handlers, the loop and the failures is one of the ledger.
THEOREM Refinement == Spec => ImplementsLedger
<1>1. Init => Ledger!Init
  BY InitOfLedger
<1>2. IInv /\ [Next]_vars => [Ledger!Next]_(Ledger!ledger)
  BY StepOfLedger
<1> QED
  BY <1>1, <1>2, Invariance, PTL DEF Spec, ImplementsLedger, Ledger!Spec
=============================================================================
