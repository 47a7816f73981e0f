----------------------- MODULE TaskQueueHistoryProofs -----------------------
(* What the rows of a task may tell of its past, for every value of the      *)
(* constants: which choice a lease committed, what the audit trail says, and *)
(* that a task stays settled.  All of it rests on the invariant of           *)
(* TaskQueueProofs.                                                          *)
EXTENDS TaskQueueProofs, FiniteSetTheorems

-----------------------------------------------------------------------------
(* The attempts *)

\* A lease appends to the attempts, the end of an answer closes one, and no
\* other step touches them.
LEMMA AttemptSteps ==
    ASSUME IInv, Next
    PROVE  \/ attempts' = attempts
           \/ \E r \in Req : LeaseCommit(r)
           \/ \E r \in Req, res \in {"completed", "failed"} :
                 /\ Closing(req[r])
                 /\ attempts' = Close(req[r].task, req[r].attempt, res)
                 /\ ToEvent(r, req[r].task, req[r].attempt, res)
<1>1. ASSUME ExpiryLoop \/ Crash \/ Tick PROVE attempts' = attempts
  BY <1>1 DEF ExpiryLoop, LoopScan, LoopUpdate, LoopSkip, LoopTimedOut, LoopRetried, Crash,
              Tick, db
<1>2. ASSUME NEW r \in Req, Handler(r)
      PROVE  \/ attempts' = attempts
             \/ LeaseCommit(r)
             \/ \E res \in {"completed", "failed"} :
                   /\ Closing(req[r])
                   /\ attempts' = Close(req[r].task, req[r].attempt, res)
                   /\ ToEvent(r, req[r].task, req[r].attempt, res)
  <2>1. CASE CompleteClose(r) \/ FailClose(r)
    BY <2>1 DEF CompleteClose, FailClose, Closing
  <2>2. CASE ~(CompleteClose(r) \/ FailClose(r) \/ LeaseCommit(r))
    <3>1. attempts' = attempts
      BY <1>2, <2>2 DEF Handler, Create, PatchCheck, CancelCheck, PatchWrite, CancelWrite,
            LeaseBegin, LeaseSelect, LeaseNothing, LeaseConflict, HeartbeatBegin, HeartbeatRead, CompleteValidate, FailValidate,
            HeartbeatWrite, CompleteWrite, FailRead, FailWrite, ClassifyRead,
            ClassifyUpdate, ClassifyInsert, AppendEvent, Abort, db
    <3> QED
      BY <3>1
  <2> QED
    BY <2>1, <2>2
<1> QED
  BY <1>1, <1>2 DEF Next

\* What a lease transaction appends.
LEMMA LeaseAppends ==
    ASSUME IInv, NEW r \in Req, LeaseCommit(r)
    PROVE  LET t == req[r].task  n == Len(attempts[t]) IN
           /\ t \in Task /\ n \in Nat /\ task[t].status = "queued"
           /\ DOMAIN attempts[t] = 1..n /\ DOMAIN attempts'[t] = 1 .. n + 1
           /\ \A i \in 1..n : attempts'[t][i] = attempts[t][i]
           /\ attempts'[t][n + 1].result = None
           /\ \A u \in Task : u # t => attempts'[u] = attempts[u]
<1> USE DEF IInv
<1> DEFINE q == req[r]
           t == q.task
           a == Attempt(q.attempt, q.worker)
           n == Len(attempts[t])
<1>1. /\ q \in Reqs /\ t \in Task /\ q.attempt \in Nat /\ q.worker \in Option(Worker)
      /\ task[t].status = "queued"
  BY DEF LeaseCommit, SnapshotCurrent, SnapshotsFresh, TypeOK, Existing, Unread, Reqs
<1>2. a \in Attempts /\ a.result = None
  BY <1>1 DEF Attempt, Attempts
<1>3. /\ attempts[t] \in Seq(Attempts) /\ n \in Nat /\ DOMAIN attempts[t] = 1..n
  BY <1>1, LenProperties DEF TypeOK
<1>4. attempts' = [attempts EXCEPT ![t] = Append(attempts[t], a)]
  BY DEF LeaseCommit
<1> HIDE DEF a
<1>5. /\ Append(attempts[t], a) \in Seq(Attempts) /\ Len(Append(attempts[t], a)) = n + 1
      /\ Append(attempts[t], a)[n + 1] = a
      /\ \A i \in 1..n : Append(attempts[t], a)[i] = attempts[t][i]
  BY <1>2, <1>3, AppendProperties
<1>6. DOMAIN Append(attempts[t], a) = 1 .. n + 1
  BY <1>5, LenProperties
<1>7. /\ attempts'[t] = Append(attempts[t], a)
      /\ \A u \in Task : u # t => attempts'[u] = attempts[u]
  BY <1>1, <1>4 DEF TypeOK
<1> QED
  BY <1>1, <1>2, <1>3, <1>5, <1>6, <1>7

\* The attempt that is closed has its result.
LEMMA ClosedResult ==
    ASSUME attempts \in [Task -> Seq(Attempts)], NEW t \in Task,
           NEW i \in DOMAIN attempts[t], NEW res \in {"completed", "failed"}
    PROVE  Close(t, i, res)[t][i].result = res /\ res # None
<1> DEFINE old == attempts[t]
<1>1. DOMAIN old = 1..Len(old)
  BY LenProperties
<1>2. old[i] \in Attempts
  BY <1>1, ElementOfSeq
<1>3. Close(t, i, res)[t] = [old EXCEPT ![i].result = res]
  BY DEF Close
<1>4. Close(t, i, res)[t][i] = [old[i] EXCEPT !.result = res]
  BY <1>1, <1>3
<1> QED
  BY <1>2, <1>4, NoneAssumption DEF Attempts

\* No attempt is removed or opened again.
LEMMA ResultsStay ==
    ASSUME IInv, [Next]_vars, NEW t \in Task, NEW i \in DOMAIN attempts[t]
    PROVE  /\ i \in DOMAIN attempts'[t]
           /\ attempts[t][i].result # None => attempts'[t][i].result # None
<1>1. CASE attempts' = attempts
  BY <1>1
<1>2. ASSUME NEW r \in Req, LeaseCommit(r)
      PROVE  i \in DOMAIN attempts'[t] /\ attempts'[t][i] = attempts[t][i]
  <2> DEFINE u == req[r].task
             n == Len(attempts[u])
  <2>1. /\ n \in Nat /\ DOMAIN attempts[u] = 1..n /\ DOMAIN attempts'[u] = 1 .. n + 1
        /\ \A j \in 1..n : attempts'[u][j] = attempts[u][j]
        /\ u # t => attempts'[t] = attempts[t]
    BY <1>2, LeaseAppends
  <2> HIDE DEF n
  <2>2. CASE u = t
    <3>1. i \in 1..n /\ i \in 1 .. n + 1
      BY <2>1, <2>2
    <3> QED
      BY <2>1, <2>2, <3>1
  <2>3. CASE u # t
    BY <2>1, <2>3
  <2> QED
    BY <2>2, <2>3
<1>3. ASSUME NEW r \in Req, NEW res \in {"completed", "failed"}, Closing(req[r]),
             attempts' = Close(req[r].task, req[r].attempt, res)
      PROVE  /\ i \in DOMAIN attempts'[t]
             /\ attempts[t][i].result # None => attempts'[t][i].result # None
  <2>1. /\ req[r].task \in Task /\ req[r].attempt \in DOMAIN attempts[req[r].task]
        /\ attempts \in [Task -> Seq(Attempts)]
    BY <1>3 DEF Closing, IInv, TypeOK, Existing, Unread, HandlersKnowAttempt, OnAttempt, Answering
  <2>2. /\ DOMAIN attempts'[t] = DOMAIN attempts[t]
        /\ t # req[r].task \/ i # req[r].attempt => attempts'[t][i].result = attempts[t][i].result
    BY <1>3, <2>1, CloseEffect
  <2>3. CASE t = req[r].task /\ i = req[r].attempt
    <3>1. attempts'[t][i].result = res /\ res # None
      BY <1>3, <2>1, <2>3, ClosedResult
    <3> QED
      BY <2>2, <3>1
  <2> QED
    BY <2>2, <2>3
<1> QED
  BY <1>1, <1>2, <1>3, AttemptSteps DEF vars

-----------------------------------------------------------------------------
(* The choice of a lease *)

\* A transaction that may still commit holds the best choice there is: nothing
\* has changed since it chose.
FreshChoice == \A r \in snap : Picks(req[r].task, req[r].filter, req[r].at)

\* A step that commits makes every snapshot old; one that does not leaves the
\* rows and the transactions that may still commit as they are, but for the
\* one it may begin.
LEMMA SnapshotSteps ==
    ASSUME IInv, [Next]_vars
    PROVE  \/ snap' = {}
           \/ /\ task' = task
              /\ \A r \in snap' : \/ r \in snap /\ req'[r] = req[r]
                                 \/ LeaseSelect(r)
<1>1. \A r \in snap : r \in Req /\ req[r].pc = "lease.commit"
  BY DEF IInv, TypeOK, SnapshotsFresh
<1>2. ASSUME NEW r \in Req, NEW s, Goto(r, s), task' = task, snap' \subseteq snap,
             r \notin snap'
      PROVE  task' = task /\ \A q \in snap' : q \in snap /\ req'[q] = req[q]
  BY <1>1, <1>2 DEF Goto, IInv, TypeOK
<1>3. ASSUME ExpiryLoop \/ Crash \/ Tick \/ UNCHANGED vars
      PROVE  \/ snap' = {}
             \/ task' = task /\ snap' = snap /\ req' = req
  BY <1>3 DEF ExpiryLoop, LoopScan, LoopUpdate, LoopSkip, LoopTimedOut, LoopRetried, Crash,
              Tick, Commit, db, vars
<1>4. ASSUME NEW r \in Req, LeaseSelect(r)
      PROVE  task' = task /\ \A q \in snap' : q = r \/ (q \in snap /\ req'[q] = req[q])
  <2>1. \E s : Goto(r, s)
    BY <1>4 DEF LeaseSelect
  <2> QED
    BY <1>1, <1>4, <2>1 DEF LeaseSelect, Goto, db, IInv, TypeOK
<1>5. ASSUME NEW r \in Req, Handler(r), ~LeaseSelect(r), snap' # {}
      PROVE  task' = task /\ snap' \subseteq snap /\ r \notin snap' /\ \E s : Goto(r, s)
  <2>1. CASE LeaseConflict(r)
    BY <2>1 DEF LeaseConflict, SnapshotCurrent, Done, db
  <2>2. CASE Abort(r)
    BY <2>2 DEF Abort, Done, db
  <2>3. CASE \/ \E t \in Task : PatchCheck(r, t) \/ CancelCheck(r, t)
             \/ \E w \in Worker, f \in Filters : LeaseBegin(r, w, f)
             \/ LeaseNothing(r)
             \/ \E h \in held : \/ HeartbeatBegin(r, h[1], h[2])
                                \/ CompleteValidate(r, h[1], h[2])
                                \/ FailValidate(r, h[1], h[2])
             \/ HeartbeatRead(r)
             \/ \E hint \in BOOLEAN : FailRead(r, hint)
             \/ \E n \in Title, y \in Context : ClassifyRead(r, n, y)
    <3>1. /\ task' = task /\ snap' = snap
          /\ req[r].pc \in {"idle", "lease.select", "heartbeat.read", "fail.read"}
      BY <2>3 DEF PatchCheck, CancelCheck, LeaseBegin, LeaseNothing, HeartbeatBegin,
                  HeartbeatRead, CompleteValidate, FailValidate, FailRead, ClassifyRead, db
    <3>2. \E s : Goto(r, s)
      BY <2>3 DEF PatchCheck, CancelCheck, LeaseBegin, LeaseNothing, HeartbeatBegin,
                  HeartbeatRead, CompleteValidate, FailValidate, FailRead, ClassifyRead, Done
    <3> QED
      BY <1>1, <3>1, <3>2
  <2>4. CASE CompleteClose(r) \/ FailClose(r) \/ FailWrite(r) \/ AppendEvent(r)
    BY <1>1, <1>5, <2>4 DEF CompleteClose, FailClose, FailWrite, AppendEvent, Commit, ToEvent, Done
  <2>5. CASE snap' = {}
    BY <1>5, <2>5
  <2> QED
    BY <1>5, <2>1, <2>2, <2>3, <2>4, <2>5
    DEF Handler, Create, PatchWrite, CancelWrite, LeaseCommit, HeartbeatWrite, CompleteWrite,
        ClassifyUpdate, ClassifyInsert, Commit
<1> QED
  BY <1>2, <1>3, <1>4, <1>5 DEF Next

LEMMA FreshChoiceKept == IInv /\ FreshChoice /\ [Next]_vars => FreshChoice'
<1> SUFFICES ASSUME IInv, FreshChoice, [Next]_vars, task' = task, NEW r \in snap',
                    (r \in snap /\ req'[r] = req[r]) \/ LeaseSelect(r)
             PROVE  Picks(req[r].task, req[r].filter, req[r].at)'
  <2>1. CASE snap' = {}
    BY <2>1 DEF FreshChoice
  <2> QED
    BY <2>1, SnapshotSteps DEF FreshChoice
<1>1. CASE r \in snap /\ req'[r] = req[r]
  BY <1>1 DEF FreshChoice, Picks, Eligible, Precedes
<1>2. CASE LeaseSelect(r)
  <2> DEFINE q == req[r]
  <2>1. PICK t \in Task :
          /\ Picks(t, q.filter, q.at)
          /\ \E k : Goto(r, [q EXCEPT !.pc = "lease.commit", !.task = t, !.attempt = k])
    BY <1>2 DEF LeaseSelect
  <2>2. r \in Req /\ req \in [Req -> Reqs]
    <3>1. TypeOK'
      BY NextIInv DEF IInv
    <3> QED
      BY <3>1 DEF IInv, TypeOK
  <2>3. req'[r].task = t /\ req'[r].filter = q.filter /\ req'[r].at = q.at
    BY <2>1, <2>2 DEF Goto, Reqs
  <2> QED
    BY <2>1, <2>3 DEF Picks, Eligible, Precedes
<1> QED
  BY <1>1, <1>2

LEMMA FreshChoiceAlways == Spec => []FreshChoice
<1>1. Init => FreshChoice
  BY DEF Init, FreshChoice
<1> QED
  BY <1>1, FreshChoiceKept, Invariance, PTL DEF Spec

\* FR-13: whatever other handlers, the loop and the failures do between the
\* SELECT and the COMMIT of a lease, it is granted only if it is still the best
\* choice among what the filter of its own request admits.
THEOREM GrantsAreBest == Spec => GrantIsBest
<1> DEFINE Best == \A t \in Task :
              Len(attempts'[t]) > Len(attempts[t]) =>
                  \E r \in Req : Grants(r, t) /\ Picks(t, req[r].filter, req[r].at)
<1>1. IInv /\ FreshChoice /\ [Next]_vars => [Best]_vars
  <2> SUFFICES ASSUME IInv, FreshChoice, Next, NEW t \in Task,
                      Len(attempts'[t]) > Len(attempts[t])
               PROVE  \E r \in Req : Grants(r, t) /\ Picks(t, req[r].filter, req[r].at)
    OBVIOUS
  <2>1. Len(attempts[t]) \in Nat
    BY LenProperties DEF IInv, TypeOK
  <2>2. attempts' # attempts
    BY <2>1
  <2>3. ~(\E r \in Req, res \in {"completed", "failed"} :
            /\ Closing(req[r])
            /\ attempts' = Close(req[r].task, req[r].attempt, res))
    <3> SUFFICES ASSUME NEW r \in Req, NEW res \in {"completed", "failed"}, Closing(req[r]),
                        attempts' = Close(req[r].task, req[r].attempt, res)
                 PROVE  FALSE
      OBVIOUS
    <3>1. /\ req[r].task \in Task /\ req[r].attempt \in DOMAIN attempts[req[r].task]
          /\ attempts \in [Task -> Seq(Attempts)]
      BY DEF Closing, IInv, TypeOK, Existing, Unread, HandlersKnowAttempt, OnAttempt, Answering
    <3>2. Len(attempts'[t]) = Len(attempts[t])
      BY <3>1, CloseEffect
    <3> QED
      BY <2>1, <3>2
  <2>4. PICK r \in Req : LeaseCommit(r)
    BY <2>2, <2>3, AttemptSteps
  <2>5. t = req[r].task
    BY <2>1, <2>4, LeaseAppends
  <2>6. r \in snap /\ req[r].pc = "lease.commit"
    BY <2>4 DEF LeaseCommit, SnapshotCurrent
  <2>7. req'[r].pc = "event" /\ req'[r].event = "leased"
    BY <2>4 DEF LeaseCommit, ToEvent, Goto, Idle, IInv, TypeOK
  <2> QED
    BY <2>5, <2>6, <2>7 DEF FreshChoice, Grants
<1>2. Spec => [][Best]_vars
  <2> HIDE DEF Best
  <2> QED
    BY <1>1, FreshChoiceAlways, Invariance, PTL DEF Spec
<1> QED
  BY <1>2 DEF GrantIsBest

-----------------------------------------------------------------------------
(* The handlers *)

\* Only the loop records expiries.
HandlerEvents == EventTypes \ {"timed_out", "retried"}

\* Where a handler may be after a step, and what it found on the way.
Move(q, s) ==
    \/ s.pc = "idle"
    \/ s.pc \in {"lease.select", "heartbeat.read"} /\ s.at = now
    \/ s.pc = "lease.commit" /\ req[q].pc = "lease.select" /\ s.at = req[q].at
    \/ s.pc = "classify.insert" /\ req[q].pc = "idle" /\ Latest(s.hash[1]) = {}
    \/ s.pc = "classify.update" /\ req[q].pc = "idle" /\ s.task \in Latest(s.hash[1])
    \/ s.pc = "event" /\ s.event \in HandlerEvents \ {"completed", "failed"}
    \/ /\ s.pc \in {"patch.write", "cancel.write"} /\ task[s.task].status \in Editable
       /\ s.pc = "patch.write" => "patch" \in Ops
    \/ /\ s.pc \in {"heartbeat.write", "complete.write", "fail.read"} /\ IsTop(s.task, s.attempt)
       /\ s.pc = "heartbeat.write" =>
              req[q].pc = "heartbeat.read" /\ s.task = req[q].task /\ s.at = req[q].at
    \/ s.pc \in {"complete.close", "fail.close"}
    \/ /\ s.pc = "fail.write" /\ req[q].pc = "fail.read"
       /\ s.task = req[q].task /\ s.attempt = req[q].attempt
       /\ s.again => task[s.task].count < task[s.task].config.max

LEMMA HandlerMoves ==
    ASSUME IInv, [Next]_vars, NEW r \in Req
    PROVE  \/ req'[r] = req[r]
           \/ Move(r, req'[r])
           \/ /\ CompleteClose(r) \/ FailClose(r)
              /\ req'[r].pc = "event" /\ req'[r].event \in {"completed", "failed"}
<1>1. req \in [Req -> Reqs]
  BY DEF IInv, TypeOK
<1>2. ASSUME NEW q \in Req, NEW s, Goto(q, s), Move(q, s)
      PROVE  req'[r] = req[r] \/ Move(r, req'[r])
  BY <1>1, <1>2 DEF Goto
<1>3. ASSUME NEW q \in Req, NEW t, NEW i, NEW e, ToEvent(q, t, i, e)
      PROVE  \/ req'[r] = req[r]
             \/ q = r /\ req'[r].pc = "event" /\ req'[r].event = e
  <2> DEFINE s == [Idle EXCEPT !.pc = "event", !.task = t, !.attempt = i, !.event = e]
  <2>1. s.event = e /\ s.pc = "event" /\ Goto(q, s)
    BY <1>3 DEF ToEvent, Idle
  <2> HIDE DEF s
  <2> QED
    BY <1>1, <2>1 DEF Goto
<1>4. CASE ExpiryLoop \/ Tick \/ UNCHANGED vars
  BY <1>4 DEF ExpiryLoop, LoopScan, LoopUpdate, LoopSkip, LoopTimedOut, LoopRetried, Tick, vars
<1>5. CASE Crash
  BY <1>5 DEF Crash, Idle, Move
<1>6. ASSUME NEW q \in Req, Handler(q)
      PROVE  \/ req'[r] = req[r]
             \/ Move(r, req'[r])
             \/ /\ CompleteClose(r) \/ FailClose(r)
                /\ req'[r].pc = "event" /\ req'[r].event \in {"completed", "failed"}
  <2>1. CASE CompleteClose(q) \/ FailClose(q)
    BY <1>3, <2>1 DEF CompleteClose, FailClose
  <2>2. ASSUME NEW t, NEW i, NEW e \in HandlerEvents \ {"completed", "failed"}, ToEvent(q, t, i, e)
        PROVE  req'[r] = req[r] \/ Move(r, req'[r])
    BY <1>3, <2>2 DEF Move
  <2>3. CASE \/ \E t \in Task, n \in Title, y \in Option(Context), x \in Route, c \in Configs :
                  Create(q, t, n, y, x, c)
             \/ CancelWrite(q) \/ LeaseCommit(q) \/ HeartbeatWrite(q)
             \/ \E x \in Route : ClassifyUpdate(q, x)
             \/ \E t \in Task, x \in Route, c \in Configs : ClassifyInsert(q, t, x, c)
    BY <2>2, <2>3 DEF Create, CancelWrite, LeaseCommit, HeartbeatWrite, ClassifyUpdate,
                      ClassifyInsert, HandlerEvents, EventTypes
  <2>4. CASE \/ \E n \in Title, y \in Option(Context), x \in Route : PatchWrite(q, n, y, x)
             \/ LeaseNothing(q) \/ LeaseConflict(q) \/ AppendEvent(q) \/ Abort(q)
    <3>1. Goto(q, Idle) /\ Move(q, Idle)
      BY <2>4 DEF PatchWrite, LeaseNothing, LeaseConflict, AppendEvent, Abort, Done, Idle, Move
    <3> QED
      BY <1>2, <3>1
  <2>5. CASE \/ \E w \in Worker : CompleteWrite(q, w)
             \/ \E hint \in BOOLEAN : FailRead(q, hint)
             \/ FailWrite(q)
    <3>1. req[q] \in Reqs
      BY <1>1
    <3>2. PICK pc \in {"complete.close", "fail.write", "fail.close"} :
             /\ \E at, again :
                  /\ Goto(q, [req[q] EXCEPT !.pc = pc, !.at = at, !.again = again])
                  /\ pc = "fail.write" /\ again =>
                         task[req[q].task].count < task[req[q].task].config.max
             /\ pc = "fail.write" => req[q].pc = "fail.read"
      <4>1. ASSUME NEW w \in Worker, CompleteWrite(q, w)
            PROVE  Goto(q, [req[q] EXCEPT !.pc = "complete.close", !.at = req[q].at,
                                          !.again = req[q].again])
        BY <3>1, <4>1 DEF CompleteWrite, Reqs
      <4> QED
        BY <2>5, <4>1 DEF FailRead, FailWrite
    <3>3. PICK at, again :
             /\ Goto(q, [req[q] EXCEPT !.pc = pc, !.at = at, !.again = again])
             /\ pc = "fail.write" /\ again =>
                    task[req[q].task].count < task[req[q].task].config.max
      BY <3>2
    <3> DEFINE s == [req[q] EXCEPT !.pc = pc, !.at = at, !.again = again]
    <3>4. /\ s.pc = pc /\ s.task = req[q].task /\ s.attempt = req[q].attempt
          /\ s.again = again /\ Goto(q, s)
      BY <3>1, <3>3 DEF Reqs
    <3> HIDE DEF s
    <3>5. Move(q, s)
      BY <3>2, <3>3, <3>4 DEF Move
    <3> QED
      BY <1>2, <3>4, <3>5
  <2>6. CASE \E t \in Task : PatchCheck(q, t) \/ CancelCheck(q, t)
    <3>1. PICK t \in Task, pc \in {"patch.write", "cancel.write"} :
             /\ task[t].status \in Editable /\ (pc = "patch.write" => "patch" \in Ops)
             /\ Goto(q, [Idle EXCEPT !.pc = pc, !.task = t])
      BY <2>6 DEF PatchCheck, CancelCheck
    <3> DEFINE s == [Idle EXCEPT !.pc = pc, !.task = t]
    <3>2. s.pc = pc /\ s.task = t /\ Goto(q, s)
      BY <3>1 DEF Idle
    <3> HIDE DEF s
    <3>3. Move(q, s)
      BY <3>1, <3>2 DEF Move
    <3> QED
      BY <1>2, <3>2, <3>3
  <2>7. CASE \/ \E w \in Worker, f \in Filters : LeaseBegin(q, w, f)
             \/ \E h \in held : HeartbeatBegin(q, h[1], h[2])
    <3>1. \/ \E w, f : Goto(q, [Idle EXCEPT !.pc = "lease.select", !.worker = w, !.filter = f,
                                           !.at = now])
          \/ \E t, k : Goto(q, [Idle EXCEPT !.pc = "heartbeat.read", !.task = t, !.token = k,
                                           !.at = now])
      BY <2>7 DEF LeaseBegin, HeartbeatBegin
    <3>2. ASSUME NEW w, NEW f, Goto(q, [Idle EXCEPT !.pc = "lease.select", !.worker = w,
                                                    !.filter = f, !.at = now])
          PROVE  \E s : Goto(q, s) /\ Move(q, s)
      <4> DEFINE s == [Idle EXCEPT !.pc = "lease.select", !.worker = w, !.filter = f, !.at = now]
      <4>1. s.pc = "lease.select" /\ s.at = now
        BY DEF Idle
      <4>2. Goto(q, s)
        BY <3>2
      <4> HIDE DEF s
      <4> QED
        BY <4>1, <4>2 DEF Move
    <3>3. ASSUME NEW t, NEW k, Goto(q, [Idle EXCEPT !.pc = "heartbeat.read", !.task = t,
                                                    !.token = k, !.at = now])
          PROVE  \E s : Goto(q, s) /\ Move(q, s)
      <4> DEFINE s == [Idle EXCEPT !.pc = "heartbeat.read", !.task = t, !.token = k, !.at = now]
      <4>1. s.pc = "heartbeat.read" /\ s.at = now
        BY DEF Idle
      <4>2. Goto(q, s)
        BY <3>3
      <4> HIDE DEF s
      <4> QED
        BY <4>1, <4>2 DEF Move
    <3> QED
      BY <1>2, <3>1, <3>2, <3>3
  <2>8. CASE \E h \in held : CompleteValidate(q, h[1], h[2]) \/ FailValidate(q, h[1], h[2])
    <3>1. PICK t, i, pc :
             /\ pc \in {"complete.write", "fail.read"} /\ IsTop(t, i)
             /\ Goto(q, [Idle EXCEPT !.pc = pc, !.task = t, !.attempt = i])
      <4>1. PICK h : CompleteValidate(q, h[1], h[2]) \/ FailValidate(q, h[1], h[2])
        BY <2>8
      <4>2. CASE CompleteValidate(q, h[1], h[2])
        BY <4>2 DEF CompleteValidate, Validates
      <4>3. CASE FailValidate(q, h[1], h[2])
        BY <4>3 DEF FailValidate, Validates
      <4> QED
        BY <4>1, <4>2, <4>3
    <3> DEFINE s == [Idle EXCEPT !.pc = pc, !.task = t, !.attempt = i]
    <3>2. s.pc = pc /\ s.task = t /\ s.attempt = i /\ Goto(q, s)
      BY <3>1 DEF Idle
    <3> HIDE DEF s
    <3>3. Move(q, s)
      BY <3>1, <3>2 DEF Move
    <3> QED
      BY <1>2, <3>2, <3>3
  <2>10. CASE LeaseSelect(q)
    <3>1. PICK t, k : Goto(q, [req[q] EXCEPT !.pc = "lease.commit", !.task = t, !.attempt = k])
      BY <2>10 DEF LeaseSelect
    <3> DEFINE s == [req[q] EXCEPT !.pc = "lease.commit", !.task = t, !.attempt = k]
    <3>2. s.pc = "lease.commit" /\ s.at = req[q].at /\ Goto(q, s)
      BY <1>1, <3>1 DEF Reqs
    <3> HIDE DEF s
    <3>3. Move(q, s)
      BY <2>10, <3>2 DEF Move, LeaseSelect
    <3> QED
      BY <1>2, <3>2, <3>3
  <2>11. CASE HeartbeatRead(q)
    <3>1. CASE Done(q)
      <4>1. Goto(q, Idle) /\ Move(q, Idle)
        BY <3>1 DEF Done, Idle, Move
      <4> QED
        BY <1>2, <4>1
    <3>2. CASE ~Done(q)
      <4>1. PICK i : /\ IsTop(req[q].task, i)
                     /\ Goto(q, [req[q] EXCEPT !.pc = "heartbeat.write", !.attempt = i])
        BY <2>11, <3>2 DEF HeartbeatRead, Validates
      <4> DEFINE s == [req[q] EXCEPT !.pc = "heartbeat.write", !.attempt = i]
      <4>2. /\ s.pc = "heartbeat.write" /\ s.at = req[q].at /\ s.task = req[q].task
            /\ s.attempt = i /\ Goto(q, s)
        BY <1>1, <4>1 DEF Reqs
      <4> HIDE DEF s
      <4>3. Move(q, s)
        BY <2>11, <4>1, <4>2 DEF Move, HeartbeatRead
      <4> QED
        BY <1>2, <4>2, <4>3
    <3> QED
      BY <3>1, <3>2
  <2>9. CASE \E n \in Title, y \in Context : ClassifyRead(q, n, y)
    <3>1. PICK n, y, t :
             \/ /\ Latest(n) = {} /\ req[q].pc = "idle"
                /\ Goto(q, [Idle EXCEPT !.pc = "classify.insert", !.hash = <<n, y>>])
             \/ /\ t \in Latest(n) /\ req[q].pc = "idle"
                /\ Goto(q, [Idle EXCEPT !.pc = "classify.update", !.task = t, !.hash = <<n, y>>])
      BY <2>9 DEF ClassifyRead
    <3> DEFINE a == [Idle EXCEPT !.pc = "classify.insert", !.hash = <<n, y>>]
               b == [Idle EXCEPT !.pc = "classify.update", !.task = t, !.hash = <<n, y>>]
    <3>2. /\ a.pc = "classify.insert" /\ b.pc = "classify.update" /\ b.task = t
          /\ a.hash[1] = n /\ b.hash[1] = n
      BY DEF Idle
    <3>3. /\ req[q].pc = "idle"
          /\ \/ Goto(q, a) /\ Latest(n) = {}
             \/ Goto(q, b) /\ t \in Latest(n)
      BY <3>1
    <3> HIDE DEF a, b
    <3>4. (Latest(n) = {} => Move(q, a)) /\ (t \in Latest(n) => Move(q, b))
      BY <3>2, <3>3 DEF Move
    <3> QED
      BY <1>2, <3>3, <3>4
  <2> QED
    BY <1>6, <2>1, <2>3, <2>4, <2>5, <2>6, <2>7, <2>8, <2>9, <2>10, <2>11 DEF Handler
<1> QED
  BY <1>4, <1>5, <1>6 DEF Next

-----------------------------------------------------------------------------
(* The audit trail *)

\* A handler about to record an outcome has closed its attempt, or dropped the
\* error of that.
OutcomesClosed == \A r \in Req : req[r].pc = "event" =>
    /\ req[r].event \in HandlerEvents
    /\ req[r].event \in {"completed", "failed"} /\ ~swallowed
           => attempts[req[r].task][req[r].attempt].result # None

EventsInv == EventsGrounded /\ OutcomesClosed

\* What a step records is an event of a handler or of the loop.
LEMMA EventSteps ==
    ASSUME IInv, [Next]_vars
    PROVE  \/ events' = events
           \/ \E r \in Req : /\ req[r].pc = "event" /\ attempts' = attempts
                             /\ swallowed' = swallowed
                             /\ Record(req[r].task, req[r].event, req[r].attempt)
           \/ /\ loop.pc \in {"timed_out", "retried"} /\ attempts' = attempts
              /\ \E e \in {"timed_out", "retried"} : Record(loop.task, e, 0)
<1>1. CASE LoopTimedOut \/ LoopRetried
  BY <1>1 DEF LoopTimedOut, LoopRetried
<1>2. CASE LoopScan \/ (\E t \in Task : LoopUpdate(t) \/ LoopSkip(t)) \/ Crash \/ Tick \/ UNCHANGED vars
  BY <1>2 DEF LoopScan, LoopUpdate, LoopSkip, Crash, Tick, db, vars
<1>3. ASSUME NEW r \in Req, AppendEvent(r)
      PROVE  \/ events' = events
             \/ /\ req[r].pc = "event" /\ attempts' = attempts /\ swallowed' = swallowed
                /\ Record(req[r].task, req[r].event, req[r].attempt)
  BY <1>3 DEF AppendEvent
<1>4. ASSUME NEW r \in Req, Handler(r), ~AppendEvent(r) PROVE events' = events
  BY <1>4 DEF Handler, Create, PatchCheck, CancelCheck, PatchWrite, CancelWrite, LeaseBegin, LeaseSelect, LeaseNothing,
        LeaseCommit, LeaseConflict, HeartbeatBegin, HeartbeatRead, CompleteValidate, FailValidate,
        HeartbeatWrite, CompleteWrite, CompleteClose, FailRead, FailWrite, FailClose,
        ClassifyRead, ClassifyUpdate, ClassifyInsert, Abort, db
<1> QED
  BY <1>1, <1>2, <1>3, <1>4 DEF Next, ExpiryLoop

LEMMA SwallowedStays ==
    ASSUME IInv, [Next]_vars, swallowed
    PROVE  swallowed'
<1>1. ASSUME NEW r \in Req, Handler(r) PROVE swallowed'
  BY <1>1 DEF Handler, Create, PatchCheck, CancelCheck, PatchWrite, CancelWrite, LeaseBegin, LeaseSelect, LeaseNothing,
        LeaseCommit, LeaseConflict, HeartbeatBegin, HeartbeatRead, CompleteValidate, FailValidate,
        HeartbeatWrite, CompleteWrite, CompleteClose, FailRead, FailWrite, FailClose,
        ClassifyRead, ClassifyUpdate, ClassifyInsert, AppendEvent, Abort, Swallow
<1>2. ASSUME ExpiryLoop \/ Crash \/ Tick PROVE swallowed'
  BY <1>2 DEF ExpiryLoop, LoopScan, LoopUpdate, LoopSkip, LoopTimedOut, LoopRetried, Crash,
              Tick, Swallow
<1> QED
  BY <1>1, <1>2 DEF Next, vars

LEMMA GroundedKept ==
    ASSUME IInv, EventsInv, [Next]_vars
    PROVE  EventsGrounded'
<1> USE DEF IInv, EventsInv
<1>1. /\ events \in [Task -> SUBSET [type : EventTypes, attempt : Nat]]
      /\ swallowed \in BOOLEAN
  BY DEF TypeOK
<1> DEFINE Grounded(t, e) ==
      /\ e.type \in OfAttempts =>
             e.attempt \in DOMAIN attempts'[t]
      /\ e.type \in {"completed", "failed"} /\ ~swallowed' =>
             attempts'[t][e.attempt].result # None
      /\ e.type \in {"timed_out", "retried"} => attempts'[t] # <<>>
<1>2. ASSUME NEW t \in Task, NEW e \in events[t] PROVE Grounded(t, e)
  <2>1. /\ e.type \in OfAttempts =>
               e.attempt \in DOMAIN attempts[t]
        /\ e.type \in {"completed", "failed"} /\ ~swallowed =>
               attempts[t][e.attempt].result # None
        /\ e.type \in {"timed_out", "retried"} => attempts[t] # <<>>
    BY DEF EventsGrounded
  <2>2. attempts[t] # <<>> => attempts'[t] # <<>>
    <3> SUFFICES ASSUME attempts[t] # <<>> PROVE attempts'[t] # <<>>
      OBVIOUS
    <3>1. 1 \in DOMAIN attempts[t]
      <4>1. attempts[t] \in Seq(Attempts)
        BY DEF TypeOK
      <4> QED
        BY <4>1, LenProperties, EmptySeq
    <3>2. 1 \in DOMAIN attempts'[t]
      BY <3>1, ResultsStay
    <3> QED
      BY <3>2, EmptySeq
  <2> QED
    BY <2>1, <2>2, ResultsStay, SwallowedStays DEF OfAttempts
<1>3. CASE events' = events
  BY <1>2, <1>3 DEF EventsGrounded
<1>4. ASSUME NEW r \in Req, req[r].pc = "event", attempts' = attempts, swallowed' = swallowed,
             Record(req[r].task, req[r].event, req[r].attempt)
      PROVE  EventsGrounded'
  <2> DEFINE q == req[r]
             x == [type |-> q.event, attempt |-> q.attempt]
  <2>1. q.task \in Task
    BY <1>4 DEF TypeOK, Existing, Unread
  <2>2. Grounded(q.task, x)
    BY <1>4 DEF HandlersKnowAttempt, OnAttempt, OfAttempts, OutcomesClosed, HandlerEvents, TypeOK
  <2>3. \A t \in Task : \A e \in events'[t] : e \in events[t] \/ (t = q.task /\ e = x)
    BY <1>1, <1>4, <2>1 DEF Record
  <2> HIDE DEF x
  <2> QED
    BY <1>2, <2>2, <2>3 DEF EventsGrounded
<1>5. ASSUME loop.pc \in {"timed_out", "retried"}, attempts' = attempts,
             NEW e \in {"timed_out", "retried"}, Record(loop.task, e, 0)
      PROVE  EventsGrounded'
  <2> DEFINE x == [type |-> e, attempt |-> 0]
  <2>1. loop.task \in Task /\ attempts[loop.task] # <<>>
    BY <1>5 DEF TypeOK, Existing, Unread, BatchWasLeased
  <2>2. Grounded(loop.task, x)
    BY <1>5, <2>1 DEF OfAttempts
  <2>3. \A t \in Task : \A f \in events'[t] : f \in events[t] \/ (t = loop.task /\ f = x)
    BY <1>1, <1>5, <2>1 DEF Record
  <2> HIDE DEF x
  <2> QED
    BY <1>2, <2>2, <2>3 DEF EventsGrounded
<1> QED
  BY <1>3, <1>4, <1>5, EventSteps

LEMMA OutcomesClosedKept ==
    ASSUME IInv, EventsInv, [Next]_vars
    PROVE  OutcomesClosed'
<1> SUFFICES ASSUME NEW r \in Req, req'[r].pc = "event"
             PROVE  /\ req'[r].event \in HandlerEvents
                    /\ req'[r].event \in {"completed", "failed"} /\ ~swallowed'
                           => attempts'[req'[r].task][req'[r].attempt].result # None
  BY DEF OutcomesClosed
<1> USE DEF IInv, EventsInv
<1>1. CASE req'[r] = req[r]
  <2>1. req[r].event \in {"completed", "failed"} =>
          req[r].task \in Task /\ req[r].attempt \in DOMAIN attempts[req[r].task]
    BY <1>1 DEF TypeOK, Existing, Unread, HandlersKnowAttempt, OnAttempt, OfAttempts
  <2> QED
    BY <1>1, <2>1, ResultsStay, SwallowedStays DEF OutcomesClosed
<1>2. CASE /\ CompleteClose(r) \/ FailClose(r)
           /\ req'[r].event \in {"completed", "failed"}
  <2> DEFINE t == req[r].task
             i == req[r].attempt
  <2>1. /\ t \in Task /\ i \in DOMAIN attempts[t]
        /\ attempts \in [Task -> Seq(Attempts)] /\ req \in [Req -> Reqs]
    BY <1>2 DEF CompleteClose, FailClose, TypeOK, Existing, Unread, HandlersKnowAttempt, OnAttempt, Answering
  <2>2. PICK res \in {"completed", "failed"} :
          /\ ToEvent(r, t, i, res)
          /\ attempts' = Close(t, i, res) \/ swallowed'
    BY <1>2 DEF CompleteClose, FailClose, Swallow
  <2>3. req'[r].task = t /\ req'[r].attempt = i
    BY <2>1, <2>2 DEF ToEvent, Goto, Idle
  <2>4. attempts' = Close(t, i, res) => attempts'[t][i].result # None
    BY <2>1, ClosedResult
  <2> QED
    BY <1>2, <2>2, <2>3, <2>4 DEF HandlerEvents, EventTypes
<1>3. CASE Move(r, req'[r])
  BY <1>3 DEF Move
<1> QED
  BY <1>1, <1>2, <1>3, HandlerMoves

LEMMA EventsAlways == Spec => []EventsInv
<1>1. Init => EventsInv
  BY DEF Init, Idle, EventsInv, EventsGrounded, OutcomesClosed
<1>2. IInv /\ EventsInv /\ [Next]_vars => EventsInv'
  BY GroundedKept, OutcomesClosedKept DEF EventsInv
<1> QED
  BY <1>1, <1>2, Invariance, PTL DEF Spec

\* FR-20: the audit trail tells of no lease, outcome or expiry that the tables
\* do not hold, whatever crashes and fails.
THEOREM TrailIsTrue == Spec => []EventsGrounded
<1>1. EventsInv => EventsGrounded
  BY DEF EventsInv
<1> QED
  BY <1>1, EventsAlways, PTL

\* Attempt i of t is on the trail with an event of kinds E, or will be when some
\* handler gets there.
Noted(t, i, E) == \/ \E e \in E : HasEvent(t, e, i)
                  \/ \E r \in Req : /\ req[r].pc = "event" /\ req[r].event \in E
                                    /\ req[r].task = t /\ req[r].attempt = i
AllNoted == ~swallowed => \A t \in Task : \A i \in DOMAIN attempts[t] :
    /\ Noted(t, i, {"leased"})
    /\ attempts[t][i].result # None => Noted(t, i, {"completed", "failed"})

LEMMA HandlerGoes == ASSUME NEW r \in Req, Handler(r) PROVE \E s : Goto(r, s)
<1>1. CASE \/ \E n \in Title, y \in Context : ClassifyRead(r, n, y)
           \/ \E w \in Worker, f \in Filters : LeaseBegin(r, w, f)
           \/ LeaseSelect(r) \/ HeartbeatRead(r)
           \/ \E h \in held : \/ HeartbeatBegin(r, h[1], h[2])
                              \/ CompleteValidate(r, h[1], h[2])
                              \/ FailValidate(r, h[1], h[2])
  BY <1>1 DEF ClassifyRead, LeaseBegin, LeaseSelect, HeartbeatBegin, HeartbeatRead,
              CompleteValidate, FailValidate, Done
<1>2. CASE ~(\/ \E n \in Title, y \in Context : ClassifyRead(r, n, y)
             \/ \E w \in Worker, f \in Filters : LeaseBegin(r, w, f)
             \/ LeaseSelect(r) \/ HeartbeatRead(r)
             \/ \E h \in held : \/ HeartbeatBegin(r, h[1], h[2])
                                \/ CompleteValidate(r, h[1], h[2])
                                \/ FailValidate(r, h[1], h[2]))
  BY <1>2 DEF Handler, Create, PatchCheck, CancelCheck, PatchWrite, CancelWrite, LeaseNothing,
        LeaseCommit, LeaseConflict, HeartbeatWrite, CompleteWrite, CompleteClose, FailRead,
        FailWrite, FailClose, ClassifyUpdate, ClassifyInsert, AppendEvent, Abort, ToEvent, Done
<1> QED
  BY <1>1, <1>2

\* Without a crash, a handler that has an event to record records it, or drops
\* the error.
LEMMA NotedKept ==
    ASSUME IInv, [Next]_vars, "crash" \notin Faults, ~swallowed',
           {"leased", "completed", "failed"} \subseteq Recorded,
           NEW t \in Task, NEW i, NEW E \in SUBSET {"leased", "completed", "failed"},
           Noted(t, i, E)
    PROVE  Noted(t, i, E)'
<1>1. /\ events \in [Task -> SUBSET [type : EventTypes, attempt : Nat]]
      /\ req \in [Req -> Reqs]
      /\ \A r \in Req : req[r].pc = "event" => req[r].task \in Task
      /\ loop.pc \in {"timed_out", "retried"} => loop.task \in Task
  BY DEF IInv, TypeOK, Existing, Unread
<1>2. ASSUME NEW u \in Task, NEW e, NEW j, Record(u, e, j) \/ events' = events
      PROVE  events[t] \subseteq events'[t]
  BY <1>1, <1>2 DEF Record
<1>3. events[t] \subseteq events'[t]
  BY <1>1, <1>2, EventSteps
<1>4. CASE \E e \in E : HasEvent(t, e, i)
  BY <1>3, <1>4 DEF HasEvent, Noted
<1>5. ASSUME NEW r \in Req, req[r].pc = "event", req[r].event \in E, req[r].task = t,
             req[r].attempt = i
      PROVE  Noted(t, i, E)'
  <2>1. CASE req'[r] = req[r]
    BY <1>5, <2>1 DEF Noted
  <2>2. CASE req'[r] # req[r]
    <3>1. Handler(r)
      <4>1. CASE ExpiryLoop \/ Tick \/ UNCHANGED vars
        BY <2>2, <4>1 DEF ExpiryLoop, LoopScan, LoopUpdate, LoopSkip, LoopTimedOut, LoopRetried,
                          Tick, vars
      <4>2. ~Crash
        BY DEF Crash
      <4>3. ASSUME NEW q \in Req, Handler(q) PROVE q = r
        BY <1>1, <2>2, <4>3, HandlerGoes DEF Goto
      <4> QED
        BY <4>1, <4>2, <4>3 DEF Next
    <3>2. AppendEvent(r)
      BY <1>5, <3>1 DEF Handler, Create, PatchCheck, CancelCheck, PatchWrite, CancelWrite,
            LeaseBegin, LeaseSelect, LeaseNothing, LeaseCommit, LeaseConflict, HeartbeatBegin, HeartbeatRead, CompleteValidate,
            FailValidate, HeartbeatWrite, CompleteWrite, CompleteClose, FailRead, FailWrite,
            FailClose, ClassifyRead, ClassifyUpdate, ClassifyInsert, Abort
    <3>3. Record(t, req[r].event, i)
      BY <1>5, <3>2 DEF AppendEvent, Swallow
    <3>4. [type |-> req[r].event, attempt |-> i] \in events'[t]
      BY <1>1, <1>5, <3>3 DEF Record
    <3> QED
      BY <1>5, <3>4 DEF Noted, HasEvent
  <2> QED
    BY <2>1, <2>2
<1> QED
  BY <1>4, <1>5 DEF Noted

LEMMA AllNotedKept ==
    ASSUME IInv, AllNoted, [Next]_vars, "crash" \notin Faults,
           {"leased", "completed", "failed"} \subseteq Recorded
    PROVE  AllNoted'
<1> SUFFICES ASSUME ~swallowed', NEW t \in Task, NEW i \in DOMAIN attempts'[t]
             PROVE  /\ Noted(t, i, {"leased"})'
                    /\ attempts'[t][i].result # None => Noted(t, i, {"completed", "failed"})'
  BY DEF AllNoted
<1>1. ~swallowed
  BY SwallowedStays
<1>2. ASSUME i \in DOMAIN attempts[t] PROVE Noted(t, i, {"leased"})'
  BY <1>1, <1>2, NotedKept DEF AllNoted
<1>3. ASSUME i \in DOMAIN attempts[t], attempts[t][i].result # None
      PROVE  Noted(t, i, {"completed", "failed"})'
  BY <1>1, <1>3, NotedKept DEF AllNoted
<1>4. req \in [Req -> Reqs]
  BY DEF IInv, TypeOK
<1>5. ASSUME NEW r \in Req, NEW u, NEW j, NEW e, ToEvent(r, u, j, e)
      PROVE  req'[r].pc = "event" /\ req'[r].task = u /\ req'[r].attempt = j /\ req'[r].event = e
  BY <1>4, <1>5 DEF ToEvent, Goto, Idle
<1>6. CASE attempts' = attempts
  BY <1>2, <1>3, <1>6
<1>7. ASSUME NEW r \in Req, LeaseCommit(r)
      PROVE  /\ Noted(t, i, {"leased"})'
             /\ attempts'[t][i].result # None => Noted(t, i, {"completed", "failed"})'
  <2> DEFINE u == req[r].task
             n == Len(attempts[u])
  <2>1. CASE t # u \/ i \in 1..n
    <3>1. i \in DOMAIN attempts[t] /\ attempts'[t][i] = attempts[t][i]
      BY <1>7, <2>1, LeaseAppends
    <3> QED
      BY <1>2, <1>3, <3>1
  <2>2. CASE t = u /\ i \notin 1..n
    <3>1. i = n + 1
      BY <1>7, <2>2, LeaseAppends
    <3>2. ToEvent(r, t, i, "leased")
      BY <1>7, <2>2, <3>1 DEF LeaseCommit
    <3>3. Noted(t, i, {"leased"})'
      BY <1>5, <3>2 DEF Noted
    <3>4. attempts'[t][i].result = None
      BY <1>7, <2>2, <3>1, LeaseAppends
    <3> QED
      BY <3>3, <3>4
  <2> QED
    BY <2>1, <2>2
<1>8. ASSUME NEW r \in Req, NEW res \in {"completed", "failed"}, Closing(req[r]),
             attempts' = Close(req[r].task, req[r].attempt, res),
             ToEvent(r, req[r].task, req[r].attempt, res)
      PROVE  /\ Noted(t, i, {"leased"})'
             /\ attempts'[t][i].result # None => Noted(t, i, {"completed", "failed"})'
  <2>1. /\ req[r].task \in Task /\ req[r].attempt \in DOMAIN attempts[req[r].task]
        /\ attempts \in [Task -> Seq(Attempts)]
    BY <1>8 DEF Closing, IInv, TypeOK, Existing, Unread, HandlersKnowAttempt, OnAttempt, Answering
  <2>2. /\ i \in DOMAIN attempts[t]
        /\ t # req[r].task \/ i # req[r].attempt => attempts'[t][i].result = attempts[t][i].result
    BY <1>8, <2>1, CloseEffect
  <2>3. CASE t = req[r].task /\ i = req[r].attempt
    BY <1>2, <1>5, <1>8, <2>2, <2>3 DEF Noted
  <2> QED
    BY <1>2, <1>3, <2>2, <2>3
<1> QED
  BY <1>6, <1>7, <1>8, AttemptSteps DEF vars

\* FR-20: while no process dies and no error is dropped, once everybody is done
\* every lease and every outcome is on the trail.
THEOREM TrailIsComplete ==
    ASSUME "crash" \notin Faults, {"leased", "completed", "failed"} \subseteq Recorded
    PROVE  Spec => []EventsComplete
<1>1. Init => AllNoted
  BY EmptySeq DEF Init, AllNoted
<1>2. IInv /\ AllNoted /\ [Next]_vars => AllNoted'
  BY AllNotedKept
<1>3. AllNoted => EventsComplete
  BY DEF AllNoted, EventsComplete, Quiet, Noted, Idle
<1> QED
  BY <1>1, <1>2, <1>3, Invariance, PTL DEF Spec

-----------------------------------------------------------------------------
(* Settled tasks *)

StatusPc == {"cancel.write", "complete.write", "fail.read", "fail.write", "classify.update"}

\* Who changes the status of a task that exists: a handler on its way to write
\* it, a lease, or the loop with the task in its batch.
LEMMA StatusSteps ==
    ASSUME IInv, [Next]_vars, NEW t \in Task, task[t].status # "absent",
           task'[t].status # task[t].status
    PROVE  \/ \E r \in Req : req[r].task = t /\ req[r].pc \in StatusPc
           \/ \E r \in Req : LeaseCommit(r) /\ req[r].task = t
           \/ t \in loop.batch
<1>1. /\ task \in [Task -> Rows]
      /\ \A r \in Req : req[r].pc \notin {"idle", "lease.select", "heartbeat.read",
                                         "classify.insert"} => req[r].task \in Task
  BY DEF IInv, TypeOK, Existing, Unread
<1>2. ASSUME NEW u \in Task, NEW row, Row(u, row) PROVE u = t
  BY <1>1, <1>2 DEF Row
<1>3. ASSUME NEW u \in Task, NEW row, Row(u, row), row.status = task[u].status PROVE FALSE
  BY <1>1, <1>3 DEF Row
<1>4. ASSUME NEW r \in Req, Handler(r)
      PROVE  \/ req[r].task = t /\ req[r].pc \in StatusPc
             \/ LeaseCommit(r) /\ req[r].task = t
  <2>1. CASE \/ \E u \in Task, n \in Title, y \in Option(Context), x \in Route, c \in Configs :
                  Create(r, u, n, y, x, c)
             \/ \E u \in Task, x \in Route, c \in Configs : ClassifyInsert(r, u, x, c)
    BY <1>2, <2>1 DEF Create, ClassifyInsert
  <2>2. CASE LeaseCommit(r)
    BY <1>1, <1>2, <2>2 DEF LeaseCommit
  <2>3. CASE \/ CancelWrite(r) \/ FailWrite(r)
             \/ \E w \in Worker : CompleteWrite(r, w)
             \/ \E x \in Route : ClassifyUpdate(r, x)
    BY <1>1, <1>2, <2>3 DEF CancelWrite, FailWrite, CompleteWrite, ClassifyUpdate, StatusPc
  <2>4. ASSUME NEW n \in Title, NEW y \in Option(Context), NEW x \in Route, PatchWrite(r, n, y, x)
        PROVE  FALSE
    <3> DEFINE u == req[r].task
               row == [task[u] EXCEPT !.title = n, !.route = x,
                              !.context = IF y = None THEN @ ELSE y]
    <3>1. u \in Task /\ task[u] \in Rows /\ Row(u, row)
      BY <1>1, <2>4 DEF PatchWrite
    <3>2. row.status = task[u].status
      BY <3>1 DEF Rows
    <3> HIDE DEF row
    <3> QED
      BY <1>3, <3>1, <3>2
  <2>5. CASE HeartbeatWrite(r)
    <3> DEFINE u == req[r].task
               n == req[r].at + task[u].config.vis
               row == [task[u] EXCEPT !.lease = n]
    <3>1. u \in Task /\ task[u] \in Rows /\ Row(u, row)
      BY <1>1, <2>5 DEF HeartbeatWrite
    <3> HIDE DEF n
    <3>2. row.status = task[u].status
      BY <3>1 DEF Rows
    <3> HIDE DEF row
    <3> QED
      BY <1>3, <3>1, <3>2
  <2>6. task' = task => FALSE
    OBVIOUS
  <2> QED
    BY <1>4, <2>1, <2>2, <2>3, <2>4, <2>5, <2>6
    DEF Handler, PatchCheck, CancelCheck, LeaseBegin, LeaseSelect, LeaseNothing, LeaseConflict, HeartbeatBegin, HeartbeatRead,
        CompleteValidate, CompleteClose, FailValidate, FailRead, FailClose, ClassifyRead,
        AppendEvent, Abort, db
<1>5. ASSUME NEW u \in Task, LoopUpdate(u) PROVE t \in loop.batch
  BY <1>2, <1>5 DEF LoopUpdate
<1>6. CASE \/ LoopScan \/ LoopTimedOut \/ LoopRetried \/ Crash \/ Tick \/ UNCHANGED vars
           \/ \E u \in Task : LoopSkip(u)
  BY <1>6 DEF LoopScan, LoopTimedOut, LoopRetried, LoopSkip, Crash, Tick, vars, db
<1> QED
  BY <1>4, <1>5, <1>6 DEF Next, ExpiryLoop

\* What the loop takes into its batch is leased, and set apart to be tried again
\* if its count allows it at that moment.
LEMMA BatchSteps ==
    ASSUME IInv, [Next]_vars, NEW t \in loop'.batch
    PROVE  /\ t \in loop.batch \/ task[t].status = "leased"
           /\ t \in loop'.again =>
                 \/ t \in loop.batch \cap loop.again
                 \/ task[t].status = "leased" /\ task[t].count < task[t].config.max
<1>1. loop \in Loops
  BY DEF IInv, TypeOK
<1>2. ASSUME NEW B \in SUBSET loop.batch, loop' = Rest(B)
      PROVE  t \in loop.batch /\ loop'.again = loop.again
  BY <1>1, <1>2, RestType DEF Rest, LoopIdle, Loops
<1>3. CASE LoopScan
  BY <1>3 DEF LoopScan, LoopIdle, Expired
<1>4. ASSUME NEW u \in Task, LoopUpdate(u)
      PROVE  t \in loop.batch /\ loop'.again = loop.again
  BY <1>1, <1>4 DEF LoopUpdate, Loops
<1>5. ASSUME NEW u \in Task, LoopSkip(u) PROVE t \in loop.batch /\ loop'.again = loop.again
  BY <1>2, <1>5 DEF LoopSkip
<1>6. CASE LoopTimedOut \/ LoopRetried
  <2>1. loop' = [loop EXCEPT !.pc = "retried"] \/ loop' = Rest(loop.batch)
    BY <1>6 DEF LoopTimedOut, LoopRetried
  <2> QED
    BY <1>1, <1>2, <2>1 DEF Loops
<1>7. CASE Crash
  BY <1>7 DEF Crash, LoopIdle
<1>8. ASSUME NEW r \in Req, Handler(r) PROVE loop' = loop
  BY <1>8 DEF Handler, Create, PatchCheck, CancelCheck, PatchWrite, CancelWrite, LeaseBegin, LeaseSelect, LeaseNothing,
        LeaseCommit, LeaseConflict, HeartbeatBegin, HeartbeatRead, CompleteValidate, FailValidate,
        HeartbeatWrite, CompleteWrite, CompleteClose, FailRead, FailWrite, FailClose,
        ClassifyRead, ClassifyUpdate, ClassifyInsert, AppendEvent, Abort
<1>9. CASE Tick \/ UNCHANGED vars
  BY <1>9 DEF Tick, vars
<1> QED
  BY <1>3, <1>4, <1>5, <1>6, <1>7, <1>8, <1>9 DEF Next, ExpiryLoop

LEMMA SettledStep ==
    ASSUME IInv, [Next]_vars, NEW t \in Task, Settled(t)
    PROVE  /\ task'[t].status = task[t].status
           /\ Settled(t)' \/ Reclassifying(t)'
<1>1. /\ task[t].status \notin {"absent", "queued", "blocked", "leased"}
      /\ Open(t) = {} /\ t \notin loop.batch
      /\ \A r \in Req : req[r].task = t => req[r].pc \notin StatusPc
  BY DEF Settled, Terminal, StatusWriter, StatusPc
<1>2. ASSUME NEW r \in Req, LeaseCommit(r) PROVE req[r].task # t
  BY <1>1, <1>2, LeaseAppends
<1>3. task'[t].status = task[t].status
  BY <1>1, <1>2, StatusSteps
<1>4. DOMAIN attempts'[t] = DOMAIN attempts[t]
  <2>1. CASE attempts' = attempts
    BY <2>1
  <2>2. ASSUME NEW r \in Req, LeaseCommit(r) PROVE attempts'[t] = attempts[t]
    BY <1>2, <2>2, LeaseAppends
  <2>3. ASSUME NEW r \in Req, NEW res \in {"completed", "failed"}, Closing(req[r]),
               attempts' = Close(req[r].task, req[r].attempt, res)
        PROVE  DOMAIN attempts'[t] = DOMAIN attempts[t]
    <3>1. /\ req[r].task \in Task /\ req[r].attempt \in DOMAIN attempts[req[r].task]
          /\ attempts \in [Task -> Seq(Attempts)]
      BY <2>3 DEF Closing, IInv, TypeOK, Existing, Unread, HandlersKnowAttempt, OnAttempt, Answering
    <3> QED
      BY <2>3, <3>1, CloseEffect
  <2> QED
    BY <2>1, <2>2, <2>3, AttemptSteps DEF vars
<1>5. Open(t)' = {}
  BY <1>1, <1>4, ResultsStay DEF Open
<1>6. t \notin loop'.batch
  BY <1>1, BatchSteps
<1>7. ASSUME NEW r \in Req, req'[r].task = t, req'[r].pc \in StatusPc
      PROVE  req'[r].pc = "classify.update"
  <2>1. req'[r] # req[r]
    BY <1>1, <1>7
  <2>2. Move(r, req'[r])
    BY <1>7, <2>1, HandlerMoves DEF StatusPc
  <2> QED
    BY <1>1, <1>7, <2>2 DEF Move, Editable, StatusPc, IsTop
<1>8. Reclassifying(t)' \/ ~StatusWriter(t)'
  BY <1>6, <1>7 DEF Reclassifying, StatusWriter, StatusPc
<1> QED
  BY <1>3, <1>5, <1>8 DEF Settled

\* FR-17, FR-18: no call of a worker, late or repeated, no cancellation and no
\* expiry revives a settled task.
THEOREM SettledStays == Spec => SettledForGood
<1> DEFINE Stays == \A t \in Task :
              Settled(t) => /\ task'[t].status = task[t].status
                            /\ Settled(t)' \/ Reclassifying(t)'
<1>1. IInv /\ [Next]_vars => [Stays]_vars
  BY SettledStep
<1>2. Spec => [][Stays]_vars
  <2> HIDE DEF Stays
  <2> QED
    BY <1>1, Invariance, PTL DEF Spec
<1> QED
  BY <1>2 DEF SettledForGood

-----------------------------------------------------------------------------
(* What a step does to a row *)

\* What neither a lease nor an answer touches.
SameTask(new, old) ==
    /\ new.title = old.title /\ new.context = old.context /\ new.hash = old.hash
    /\ new.config = old.config /\ new.created = old.created

\* It is kept as far as classifications see it, leased only by a lease, which is
\* what counts, and queued again only by who decided so earlier.
RowKept(t) ==
    LET old == task[t]  new == task'[t] IN
    /\ SameTask(new, old) /\ (new.status = "absent" <=> old.status = "absent")
    /\ \/ new.count = old.count
       \/ /\ new.count = old.count + 1 /\ new.status = "leased"
          /\ \E r \in Req : LeaseCommit(r) /\ req[r].task = t
    /\ new.status = "leased" =>
           old.status = "leased" \/ \E r \in Req : LeaseCommit(r) /\ req[r].task = t
    /\ new.status = "queued" =>
           \/ old.status = "queued"
           \/ \E r \in Req : FailWrite(r) /\ req[r].task = t /\ req[r].again
           \/ LoopUpdate(t) /\ t \in loop.again
RowInserted(t) ==
    LET new == task'[t] IN
    /\ task[t].status = "absent" /\ new.status = "queued" /\ new.created = now
    /\ new.count = 0
    /\ \/ "create" \in Ops /\ new.hash = None
       \/ \E r \in Req : /\ req[r].pc = "classify.insert" /\ new.hash = req[r].hash
                         /\ new.title = req[r].hash[1] /\ new.context = req[r].hash[2]
                         /\ req' = [req EXCEPT ![r] = req'[r]] /\ req'[r].pc = "event"
RowPatched(t) ==
    LET old == task[t]  new == task'[t] IN
    /\ \E r \in Req : req[r].pc = "patch.write" /\ req[r].task = t /\ Done(r)
    /\ new.status = old.status /\ new.created = old.created /\ new.hash = old.hash
    /\ new.config = old.config /\ new.count = old.count
RowReclassified(t) ==
    LET old == task[t]  new == task'[t] IN
    /\ old.status # "absent" /\ new.status = "queued"
    /\ new.title = old.title /\ new.created = old.created
    /\ \E r \in Req : /\ req[r].pc = "classify.update" /\ req[r].task = t
                      /\ new.hash = req[r].hash /\ new.context = req[r].hash[2]

LEMMA RowUnleased ==
    ASSUME NEW row \in Rows, NEW at, NEW s
    PROVE  \A new \in {Requeued(row, at), Ended(row, s)} :
               /\ SameTask(new, row) /\ new.count = row.count
               /\ new.status \in {"queued", s} /\ Ended(row, s).status = s
<1> DEFINE n == at + row.config.backoff
           a == [row EXCEPT !.status = "queued", !.worker = None, !.lease = None, !.retry = n]
<1>1. Requeued(row, at) = a
  BY DEF Requeued
<1> HIDE DEF n
<1>2. SameTask(a, row) /\ a.count = row.count /\ a.status = "queued"
  BY DEF Rows, SameTask
<1> HIDE DEF a
<1> QED
  BY <1>1, <1>2 DEF Ended, Rows, SameTask

LEMMA RowLeased ==
    ASSUME NEW row \in Rows, NEW at, NEW w
    PROVE  LET new == Leased(row, w, at) IN
           SameTask(new, row) /\ new.count = row.count + 1 /\ new.status = "leased"
<1> DEFINE v == at + row.config.vis
           n == row.count + 1
           a == [row EXCEPT !.status = "leased", !.worker = w, !.lease = v, !.count = n]
<1>1. Leased(row, w, at) = a
  BY DEF Leased
<1> HIDE DEF v
<1>2. SameTask(a, row) /\ a.count = n /\ a.status = "leased"
  BY DEF Rows, SameTask
<1> HIDE DEF a
<1> QED
  BY <1>1, <1>2

LEMMA RowSteps ==
    ASSUME IInv, [Next]_vars, NEW t \in Task
    PROVE  RowKept(t) \/ RowInserted(t) \/ RowPatched(t) \/ RowReclassified(t)
<1>1. /\ task \in [Task -> Rows] /\ req \in [Req -> Reqs] /\ loop \in Loops /\ now \in Nat
      /\ \A r \in Req : req[r].pc \notin {"idle", "lease.select", "heartbeat.read",
                                         "classify.insert"} =>
             /\ req[r].task \in Task /\ task[req[r].task].status # "absent"
             /\ task[req[r].task].config \in Configs
      /\ \A u \in loop.batch : task[u].status # "absent" /\ task[u].config \in Configs
  BY DEF IInv, TypeOK, Existing, Unread
<1>2. ASSUME task'[t] = task[t] PROVE RowKept(t)
  BY <1>2 DEF RowKept, SameTask
<1>3. ASSUME NEW u \in Task, NEW row, Row(u, row)
      PROVE  task'[u] = row /\ (u # t => RowKept(t))
  BY <1>1, <1>2, <1>3 DEF Row
<1>4. CASE task' = task
  BY <1>2, <1>4
<1>5. ASSUME NEW n, NEW y, NEW h, NEW x, NEW c
      PROVE  LET row == Created(n, y, h, x, c) IN
             /\ row.title = n /\ row.context = y /\ row.hash = h /\ row.created = now
             /\ row.status = "queued" /\ row.count = 0
  BY DEF Created, NoTask
<1>6. ASSUME NEW u \in Task, NEW row, Row(u, row), task[u].status # "absent",
             row.status # "absent", row.status = "leased" => task[u].status = "leased",
             row.status = "queued" => \/ task[u].status = "queued"
                                      \/ \E r \in Req : /\ FailWrite(r) /\ req[r].task = u
                                                        /\ req[r].again
                                      \/ LoopUpdate(u) /\ u \in loop.again,
             SameTask(row, task[u]), row.count = task[u].count
      PROVE  RowKept(t)
  BY <1>3, <1>6 DEF RowKept
<1>7. ASSUME NEW r \in Req, Handler(r), task' # task
      PROVE  RowKept(t) \/ RowInserted(t) \/ RowPatched(t) \/ RowReclassified(t)
  <2> DEFINE q == req[r]
             u == q.task
  <2>1. ASSUME NEW v \in Task, NEW n \in Title, NEW y \in Option(Context), NEW x \in Route,
               NEW c \in Configs, Create(r, v, n, y, x, c)
        PROVE  RowKept(t) \/ RowInserted(t)
    BY <1>3, <1>5, <2>1 DEF Create, RowInserted
  <2>2. ASSUME NEW v \in Task, NEW x \in Route, NEW c \in Configs, ClassifyInsert(r, v, x, c)
        PROVE  RowKept(t) \/ RowInserted(t)
    <3> DEFINE row == Created(q.hash[1], q.hash[2], q.hash, x, c)
    <3>1. /\ Row(v, row) /\ q.pc = "classify.insert" /\ task[v].status = "absent"
          /\ \E e : ToEvent(r, v, 0, e)
      BY <2>2 DEF ClassifyInsert
    <3>2. /\ row.title = q.hash[1] /\ row.context = q.hash[2] /\ row.hash = q.hash
          /\ row.created = now /\ row.status = "queued" /\ row.count = 0
      BY <1>5
    <3> HIDE DEF row
    <3>3. req' = [req EXCEPT ![r] = req'[r]] /\ req'[r].pc = "event"
      BY <1>1, <3>1 DEF ToEvent, Goto, Idle
    <3> QED
      BY <1>3, <3>1, <3>2, <3>3 DEF RowInserted
  <2>3. ASSUME NEW n \in Title, NEW y \in Option(Context), NEW x \in Route, PatchWrite(r, n, y, x)
        PROVE  RowKept(t) \/ RowPatched(t)
    <3> DEFINE row == [task[u] EXCEPT !.title = n, !.route = x,
                              !.context = IF y = None THEN @ ELSE y]
    <3>1. u \in Task /\ task[u] \in Rows /\ Row(u, row) /\ q.pc = "patch.write" /\ Done(r)
      BY <1>1, <2>3 DEF PatchWrite
    <3>2. /\ row.status = task[u].status /\ row.created = task[u].created
          /\ row.hash = task[u].hash /\ row.config = task[u].config
          /\ row.count = task[u].count
      BY <3>1 DEF Rows
    <3> HIDE DEF row
    <3> QED
      BY <1>3, <3>1, <3>2 DEF RowPatched
  <2>4. ASSUME NEW x \in Route, ClassifyUpdate(r, x) PROVE RowKept(t) \/ RowReclassified(t)
    <3> DEFINE row == [task[u] EXCEPT !.status = "queued", !.route = x, !.hash = q.hash,
                              !.context = q.hash[2]]
    <3>1. /\ u \in Task /\ task[u] \in Rows /\ task[u].status # "absent" /\ Row(u, row)
          /\ q.pc = "classify.update"
      BY <1>1, <2>4 DEF ClassifyUpdate
    <3>2. /\ row.status = "queued" /\ row.created = task[u].created /\ row.title = task[u].title
          /\ row.hash = q.hash /\ row.context = q.hash[2]
      BY <3>1 DEF Rows
    <3> HIDE DEF row
    <3> QED
      BY <1>3, <3>1, <3>2 DEF RowReclassified
  <2>5. CASE CancelWrite(r)
    <3> DEFINE row == [task[u] EXCEPT !.status = "cancelled"]
    <3>1. u \in Task /\ task[u] \in Rows /\ task[u].status # "absent" /\ Row(u, row)
      BY <1>1, <2>5 DEF CancelWrite
    <3>2. row.status = "cancelled" /\ SameTask(row, task[u]) /\ row.count = task[u].count
      BY <3>1 DEF Rows, SameTask
    <3> HIDE DEF row
    <3> QED
      BY <1>6, <3>1, <3>2
  <2>6. CASE HeartbeatWrite(r)
    <3> DEFINE n == q.at + task[u].config.vis
               row == [task[u] EXCEPT !.lease = n]
    <3>1. u \in Task /\ task[u] \in Rows /\ task[u].status # "absent" /\ Row(u, row)
      BY <1>1, <2>6 DEF HeartbeatWrite
    <3> HIDE DEF n
    <3>2. row.status = task[u].status /\ SameTask(row, task[u]) /\ row.count = task[u].count
      BY <3>1 DEF Rows, SameTask
    <3> HIDE DEF row
    <3> QED
      BY <1>6, <3>1, <3>2
  <2>7. ASSUME NEW w \in Worker, CompleteWrite(r, w) PROVE RowKept(t)
    <3> DEFINE row == Completed(task[u], w)
    <3>1. u \in Task /\ task[u] \in Rows /\ task[u].status # "absent" /\ Row(u, row)
      BY <1>1, <2>7 DEF CompleteWrite
    <3>2. row.status = "completed" /\ SameTask(row, task[u]) /\ row.count = task[u].count
      BY <3>1 DEF Rows, Completed, SameTask
    <3> HIDE DEF row
    <3> QED
      BY <1>6, <3>1, <3>2
  <2>8. CASE FailWrite(r)
    <3> DEFINE row == IF q.again THEN Requeued(task[u], q.at) ELSE Ended(task[u], "failed")
    <3>1. u \in Task /\ task[u] \in Rows /\ task[u].status # "absent" /\ Row(u, row)
      BY <1>1, <1>7, <2>8 DEF FailWrite
    <3>2. /\ row.status = (IF q.again THEN row.status ELSE "failed")
          /\ row.status \in {"queued", "failed"}
          /\ SameTask(row, task[u]) /\ row.count = task[u].count
      BY <3>1, RowUnleased
    <3> HIDE DEF row
    <3> QED
      BY <1>6, <2>8, <3>1, <3>2
  <2>9. CASE LeaseCommit(r)
    <3> DEFINE row == Leased(task[u], q.worker, q.at)
    <3>1. u \in Task /\ task[u] \in Rows /\ task[u].status # "absent" /\ Row(u, row)
      BY <1>1, <2>9 DEF LeaseCommit
    <3>2. row.status = "leased" /\ SameTask(row, task[u]) /\ row.count = task[u].count + 1
      BY <3>1, RowLeased
    <3> HIDE DEF row
    <3> QED
      BY <1>3, <2>9, <3>1, <3>2 DEF RowKept
  <2> QED
    BY <1>7, <2>1, <2>2, <2>3, <2>4, <2>5, <2>6, <2>7, <2>8, <2>9
    DEF Handler, PatchCheck, CancelCheck, LeaseBegin, LeaseSelect, LeaseNothing, LeaseConflict, HeartbeatBegin, HeartbeatRead,
        CompleteValidate, CompleteClose, FailValidate, FailRead, FailClose, ClassifyRead,
        AppendEvent, Abort, db
<1>8. ASSUME NEW u \in Task, LoopUpdate(u) PROVE RowKept(t)
  <2> DEFINE row == IF u \in loop.again THEN Requeued(task[u], loop.at)
                    ELSE Ended(task[u], "timed_out")
  <2>1. task[u] \in Rows /\ task[u].status # "absent" /\ Row(u, row)
    BY <1>1, <1>8 DEF LoopUpdate
  <2>2. /\ row.status = (IF u \in loop.again THEN row.status ELSE "timed_out")
        /\ row.status \in {"queued", "timed_out"}
        /\ SameTask(row, task[u]) /\ row.count = task[u].count
    BY <2>1, RowUnleased
  <2> HIDE DEF row
  <2> QED
    BY <1>6, <1>8, <2>1, <2>2
<1>9. CASE \/ LoopScan \/ LoopTimedOut \/ LoopRetried \/ Crash \/ Tick \/ UNCHANGED vars
           \/ \E u \in Task : LoopSkip(u)
  BY <1>4, <1>9 DEF LoopScan, LoopTimedOut, LoopRetried, LoopSkip, Crash, Tick, vars, db
<1> QED
  BY <1>4, <1>7, <1>8, <1>9 DEF Next, ExpiryLoop

\* A step writes one row at most.
LEMMA OneRow ==
    ASSUME IInv, [Next]_vars
    PROVE  \E v : \A u \in Task : u # v => task'[u] = task[u]
<1>1. task \in [Task -> Rows]
  BY DEF IInv, TypeOK
<1>2. ASSUME NEW v, NEW row, Row(v, row) PROVE \E w : \A u \in Task : u # w => task'[u] = task[u]
  BY <1>1, <1>2 DEF Row
<1>3. ASSUME task' = task PROVE \E w : \A u \in Task : u # w => task'[u] = task[u]
  BY <1>3
<1>4. ASSUME NEW r \in Req, Handler(r) PROVE task' = task \/ \E v, row : Row(v, row)
  BY <1>4 DEF Handler, Create, PatchCheck, CancelCheck, PatchWrite, CancelWrite, LeaseBegin, LeaseSelect, LeaseNothing,
        LeaseCommit, LeaseConflict, HeartbeatBegin, HeartbeatRead, CompleteValidate, FailValidate,
        HeartbeatWrite, CompleteWrite, CompleteClose, FailRead, FailWrite, FailClose,
        ClassifyRead, ClassifyUpdate, ClassifyInsert, AppendEvent, Abort, db
<1>5. ASSUME ExpiryLoop \/ Crash \/ Tick \/ UNCHANGED vars
      PROVE  task' = task \/ \E v, row : Row(v, row)
  BY <1>5 DEF ExpiryLoop, LoopScan, LoopUpdate, LoopSkip, LoopTimedOut, LoopRetried, Crash,
              Tick, db, vars
<1> QED
  BY <1>2, <1>3, <1>4, <1>5 DEF Next

-----------------------------------------------------------------------------
(* What was decided on an old count *)

\* Who has decided that t is to be queued again: handlers on their way to write
\* it, and the loop.
Retrying(t) == {r \in Req : req[r].pc = "fail.write" /\ req[r].task = t /\ req[r].again}
Reclaiming(t) == t \in loop.batch \cap loop.again

OneIf(b) == IF b THEN 1 ELSE 0

\* Either the count still leaves room for the lease the loop makes possible, or
\* each decision under way, and the queue entry there may be, stand for one lease.
Room(t) ==
    \/ task[t].count + OneIf(Reclaiming(t)) <= task[t].config.max
    \/ task[t].count + OneIf(Reclaiming(t)) + OneIf(task[t].status = "queued")
         + Cardinality(Retrying(t)) <= task[t].config.max + Cardinality(Req)
Unretried(t) ==
    /\ Retrying(t) = {} /\ ~Reclaiming(t)
    /\ task[t].count + OneIf(task[t].status = "queued") <= 1
Bounded(t) == IF task[t].config.max < 2 THEN Unretried(t) ELSE Room(t)
DecisionsBounded == \A t \in Existing : task[t].hash = None => Bounded(t)

\* A decision to queue a task again is made on a count below max_attempts.
LEMMA Deciding ==
    ASSUME IInv, [Next]_vars, NEW t \in Task
    PROVE  /\ \/ Retrying(t)' \subseteq Retrying(t)
              \/ 1 <= task[t].count /\ task[t].count < task[t].config.max
           /\ \/ Reclaiming(t)' => Reclaiming(t)
              \/ 1 <= task[t].count /\ task[t].count < task[t].config.max
<1>1. attempts[t] \in Seq(Attempts) /\ task[t].count = Len(attempts[t])
  BY DEF IInv, TypeOK, TokensAgree
<1>2. ASSUME attempts[t] # <<>> PROVE 1 <= task[t].count
  BY <1>1, <1>2, LenProperties, EmptySeq
<1>3. ASSUME NEW r \in Retrying(t)', r \notin Retrying(t)
      PROVE  1 <= task[t].count /\ task[t].count < task[t].config.max
  <2>1. /\ r \in Req /\ req'[r] # req[r]
        /\ req'[r].pc = "fail.write" /\ req'[r].task = t /\ req'[r].again
    BY <1>3 DEF Retrying
  <2>2. /\ req[r].pc = "fail.read" /\ req[r].task = t
        /\ task[t].count < task[t].config.max
    BY <2>1, HandlerMoves DEF Move
  <2>3. req[r].attempt \in DOMAIN attempts[t]
    BY <2>1, <2>2 DEF IInv, HandlersKnowAttempt, OnAttempt, Answering
  <2> QED
    BY <1>2, <2>2, <2>3, EmptySeq
<1>4. ASSUME Reclaiming(t)', ~Reclaiming(t)
      PROVE  1 <= task[t].count /\ task[t].count < task[t].config.max
  <2>1. task[t].status = "leased" /\ task[t].count < task[t].config.max
    BY <1>4, BatchSteps DEF Reclaiming
  <2> QED
    BY <1>2, <2>1 DEF IInv, LeaseBacked
<1> QED
  BY <1>3, <1>4

\* A row no lease counts on, and that nobody queues: decisions add up to no more.
LEMMA BoundedStays ==
    ASSUME IInv, IsFiniteSet(Req), [Next]_vars, NEW t \in Task, Bounded(t),
           task[t].config \in Configs, task'[t].config = task[t].config,
           task'[t].count = task[t].count,
           task'[t].status = "queued" => task[t].status = "queued"
    PROVE  Bounded(t)'
<1>1. task[t].count \in Nat /\ task[t].config.max \in Int
  BY ConfigsAssumption DEF IInv, TypeOK, Rows
<1>2. CASE 1 <= task[t].count /\ task[t].count < task[t].config.max
  BY <1>1, <1>2 DEF Bounded, Room, OneIf
<1>3. CASE Retrying(t)' \subseteq Retrying(t) /\ (Reclaiming(t)' => Reclaiming(t))
  <2>1. /\ Cardinality(Retrying(t)) \in Nat /\ Cardinality(Retrying(t)') \in Nat
        /\ Cardinality(Retrying(t)') <= Cardinality(Retrying(t)) /\ Cardinality(Req) \in Nat
    <3>1. IsFiniteSet(Retrying(t))
      BY FS_Subset DEF Retrying
    <3>2. IsFiniteSet(Retrying(t)')
      BY <1>3, <3>1, FS_Subset
    <3> QED
      BY <1>3, <3>1, <3>2, FS_Subset, FS_CardinalityType
  <2>2. ASSUME Unretried(t) PROVE Unretried(t)'
    <3>1. Retrying(t)' = {} /\ ~Reclaiming(t)'
      BY <1>3, <2>2 DEF Unretried
    <3> QED
      BY <1>1, <2>2, <3>1 DEF Unretried, OneIf
  <2>3. ASSUME Room(t) PROVE Room(t)'
    <3>1. CASE task[t].count + OneIf(Reclaiming(t)) <= task[t].config.max
      BY <1>1, <1>3, <3>1 DEF Room, OneIf
    <3>2. CASE task[t].count + OneIf(Reclaiming(t)) + OneIf(task[t].status = "queued")
                 + Cardinality(Retrying(t)) <= task[t].config.max + Cardinality(Req)
      BY <1>1, <1>3, <2>1, <3>2 DEF Room, OneIf
    <3> QED
      BY <2>3, <3>1, <3>2 DEF Room
  <2> QED
    BY <2>2, <2>3 DEF Bounded
<1> QED
  BY <1>2, <1>3, Deciding

\* Who leases the task, or queues it again, carries out no other decision.
LEMMA BoundedWritten ==
    ASSUME IInv, IsFiniteSet(Req), [Next]_vars, NEW t \in Task, Bounded(t),
           task[t].config \in Configs, task'[t].config = task[t].config,
           \/ \E r \in Req : /\ LeaseCommit(r) /\ req[r].task = t
                             /\ task'[t].count = task[t].count + 1
                             /\ task'[t].status = "leased"
           \/ \E r \in Req : /\ FailWrite(r) /\ req[r].task = t /\ req[r].again
                             /\ task'[t].count = task[t].count
           \/ LoopUpdate(t) /\ t \in loop.again /\ task'[t].count = task[t].count
    PROVE  Bounded(t)'
<1>1. /\ task[t].count \in Nat /\ task[t].config.max \in Int
      /\ req \in [Req -> Reqs] /\ loop \in Loops
  BY ConfigsAssumption DEF IInv, TypeOK, Rows
<1>2. ASSUME NEW S, S \subseteq Retrying(t)
      PROVE  /\ IsFiniteSet(S) /\ Cardinality(S) \in Nat
             /\ Cardinality(S) <= Cardinality(Retrying(t))
  <2>1. IsFiniteSet(Retrying(t))
    BY FS_Subset DEF Retrying
  <2> QED
    BY <1>2, <2>1, FS_Subset, FS_CardinalityType
<1>3. Cardinality(Retrying(t)) \in Nat /\ Cardinality(Req) \in Nat
  BY <1>2, FS_CardinalityType
<1>4. ASSUME NEW r \in Req, LeaseCommit(r), req[r].task = t,
             task'[t].count = task[t].count + 1, task'[t].status = "leased"
      PROVE  Bounded(t)'
  <2>1. task[t].status = "queued"
    BY <1>4, LeaseAppends
  <2>2. Retrying(t)' \subseteq Retrying(t) /\ r \notin Retrying(t)' /\ loop' = loop
    <3>1. \A x \in Req : x # r => req'[x] = req[x]
      BY <1>1, <1>4 DEF LeaseCommit, ToEvent, Goto
    <3>2. req'[r].pc = "event"
      BY <1>1, <1>4 DEF LeaseCommit, ToEvent, Goto, Idle
    <3>3. loop' = loop
      BY <1>4 DEF LeaseCommit
    <3> QED
      BY <3>1, <3>2, <3>3 DEF Retrying
  <2>3. Reclaiming(t)' <=> Reclaiming(t)
    BY <2>2 DEF Reclaiming
  <2>4. ASSUME Unretried(t) PROVE Unretried(t)'
    <3>1. Retrying(t)' = {} /\ ~Reclaiming(t)'
      BY <2>2, <2>3, <2>4 DEF Unretried
    <3> QED
      BY <1>1, <1>4, <2>1, <2>4, <3>1 DEF Unretried, OneIf
  <2>5. ASSUME Room(t) PROVE Room(t)'
    <3>1. Cardinality(Retrying(t)') <= Cardinality(Req) - 1
      <4>1. Retrying(t)' \subseteq Req \ {r}
        BY <2>2 DEF Retrying
      <4>2. IsFiniteSet(Req \ {r}) /\ Cardinality(Req \ {r}) = Cardinality(Req) - 1
        BY <1>4, FS_RemoveElement
      <4> QED
        BY <4>1, <4>2, FS_Subset
    <3>2. /\ Cardinality(Retrying(t)') \in Nat
          /\ Cardinality(Retrying(t)') <= Cardinality(Retrying(t))
      BY <1>2, <2>2
    <3>3. OneIf(task[t].status = "queued") = 1 /\ OneIf(task'[t].status = "queued") = 0
      BY <1>4, <2>1 DEF OneIf
    <3>4. OneIf(Reclaiming(t)') = OneIf(Reclaiming(t)) /\ OneIf(Reclaiming(t)) \in {0, 1}
      BY <2>3 DEF OneIf
    <3> QED
      BY <1>1, <1>3, <1>4, <2>5, <3>1, <3>2, <3>3, <3>4 DEF Room
  <2> QED
    BY <2>4, <2>5, <1>4 DEF Bounded
<1>5. ASSUME NEW r \in Req, FailWrite(r), req[r].task = t, req[r].again,
             task'[t].count = task[t].count
      PROVE  Bounded(t)'
  <2>1. r \in Retrying(t)
    BY <1>5 DEF FailWrite, Retrying
  <2>2. /\ Retrying(t)' \subseteq Retrying(t) \ {r} /\ loop' = loop
    <3>1. \A x \in Req : x # r => req'[x] = req[x]
      BY <1>1, <1>5 DEF FailWrite, Goto
    <3>2. req'[r].pc = "fail.close"
      BY <1>1, <1>5 DEF FailWrite, Goto, Reqs
    <3>3. loop' = loop
      BY <1>5 DEF FailWrite
    <3> QED
      BY <3>1, <3>2, <3>3 DEF Retrying
  <2>3. Reclaiming(t)' <=> Reclaiming(t)
    BY <2>2 DEF Reclaiming
  <2>4. /\ Cardinality(Retrying(t)') \in Nat
        /\ Cardinality(Retrying(t)') <= Cardinality(Retrying(t)) - 1
    <3>1. IsFiniteSet(Retrying(t))
      BY <1>2
    <3>2. /\ IsFiniteSet(Retrying(t) \ {r})
          /\ Cardinality(Retrying(t) \ {r}) = Cardinality(Retrying(t)) - 1
      BY <2>1, <3>1, FS_RemoveElement
    <3> QED
      BY <1>2, <2>2, <3>2, FS_Subset
  <2>5. ~Unretried(t)
    BY <2>1 DEF Unretried
  <2>6. Room(t)'
    BY <1>1, <1>3, <1>5, <2>3, <2>4, <2>5 DEF Bounded, Room, OneIf
  <2> QED
    BY <2>5, <2>6 DEF Bounded
<1>6. ASSUME LoopUpdate(t), t \in loop.again, task'[t].count = task[t].count PROVE Bounded(t)'
  <2>1. Reclaiming(t) /\ ~Reclaiming(t)' /\ Retrying(t)' = Retrying(t)
    BY <1>1, <1>6 DEF LoopUpdate, Reclaiming, Retrying, Loops
  <2>2. ~Unretried(t)
    BY <2>1 DEF Unretried
  <2>3. Room(t)'
    BY <1>1, <1>3, <1>6, <2>1, <2>2 DEF Bounded, Room, OneIf
  <2> QED
    BY <2>2, <2>3 DEF Bounded
<1> QED
  BY <1>4, <1>5, <1>6

LEMMA DecisionsBoundedKept ==
    ASSUME IInv, IsFiniteSet(Req), DecisionsBounded, [Next]_vars
    PROVE  DecisionsBounded'
<1> SUFFICES ASSUME NEW t \in Existing', task'[t].hash = None PROVE Bounded(t)'
  BY DEF DecisionsBounded
<1>1. t \in Task /\ task'[t].config \in Configs
  <2>1. TypeOK'
    BY NextIInv DEF IInv
  <2> QED
    BY <2>1 DEF TypeOK, Existing, Unread
<1>2. ASSUME t \in Existing, task[t].hash = None
      PROVE  Bounded(t) /\ task[t].config \in Configs
  BY <1>2 DEF DecisionsBounded, IInv, TypeOK
<1>3. CASE RowInserted(t)
  <2>1. t \notin Existing /\ task[t].count = 0
    <3>1. attempts[t] \in Seq(Attempts) /\ task[t].count = Len(attempts[t])
      BY <1>1 DEF IInv, TypeOK, TokensAgree
    <3> QED
      BY <1>1, <1>3, <3>1, EmptySeq DEF RowInserted, IInv, AttemptsHaveTask, Existing
  <2>2. Retrying(t) = {} /\ ~Reclaiming(t)
    BY <2>1 DEF Retrying, Reclaiming, IInv, TypeOK, Unread
  <2>3. Retrying(t)' = {} /\ ~Reclaiming(t)'
    BY <1>1, <2>1, <2>2, Deciding
  <2>4. task'[t].count = 0 /\ task'[t].config.max \in Int
    BY <1>1, <1>3, ConfigsAssumption DEF RowInserted
  <2>5. Cardinality(Req) \in Nat
    BY FS_CardinalityType
  <2> QED
    BY <2>3, <2>4, <2>5 DEF Bounded, Unretried, Room, OneIf
<1>4. CASE RowReclassified(t)
  <2>1. \A r \in Req : req[r].pc = "classify.update" => req[r].hash \in Hash
    BY DEF IInv, TypeOK, Informed
  <2> QED
    BY <1>4, <2>1, NoneAssumption DEF RowReclassified, Hash
<1>5. CASE RowPatched(t)
  <2>1. t \in Existing /\ task[t].hash = None
    BY <1>1, <1>5 DEF RowPatched, Existing
  <2> QED
    BY <1>1, <1>2, <1>5, <2>1, BoundedStays DEF RowPatched
<1>6. CASE RowKept(t)
  <2>1. t \in Existing /\ task[t].hash = None /\ task'[t].config = task[t].config
    BY <1>1, <1>6 DEF RowKept, SameTask, Existing
  <2>2. CASE \/ task'[t].count # task[t].count
             \/ task'[t].status = "queued" /\ task[t].status # "queued"
    BY <1>1, <1>2, <1>6, <2>1, <2>2, BoundedWritten DEF RowKept
  <2>3. CASE /\ task'[t].count = task[t].count
             /\ task'[t].status = "queued" => task[t].status = "queued"
    BY <1>1, <1>2, <2>1, <2>3, BoundedStays
  <2> QED
    BY <2>2, <2>3
<1> QED
  BY <1>1, <1>3, <1>4, <1>5, <1>6, RowSteps

\* FR-18, FR-19: a task no classification has touched exceeds its max_attempts by
\* one for each handler at most, and one that must not be retried never is.
THEOREM AttemptsAreCapped ==
    ASSUME IsFiniteSet(Req)
    PROVE  Spec => []AttemptsCapped
<1>1. Init => DecisionsBounded
  BY DEF Init, NoTask, Existing, DecisionsBounded
<1>2. IInv /\ DecisionsBounded /\ [Next]_vars => DecisionsBounded'
  BY DecisionsBoundedKept
<1>3. IInv /\ DecisionsBounded => AttemptsCapped
  <2> SUFFICES ASSUME IInv, DecisionsBounded, NEW t \in Existing, task[t].hash = None
               PROVE  task[t].count <= Cap(t)
    BY DEF AttemptsCapped
  <2>1. /\ t \in Task /\ task[t].count \in Nat /\ task[t].config.max \in Int
        /\ Cardinality(Req) \in Nat
    BY ConfigsAssumption, FS_CardinalityType DEF IInv, TypeOK, Rows, Existing
  <2>2. Cardinality(Retrying(t)) \in Nat
    BY FS_Subset, FS_CardinalityType DEF Retrying
  <2> QED
    BY <2>1, <2>2 DEF DecisionsBounded, Bounded, Unretried, Room, OneIf, Cap
<1> QED
  BY <1>1, <1>2, <1>3, Invariance, PTL DEF Spec
=============================================================================
