---------------------------- MODULE MetricsProofs ----------------------------
(* What the metrics are computed of, for every value of the constants: the   *)
(* dates of the rows are in order, the counts cover the tasks, and, while no *)
(* two answers about one attempt overlap, what an attempt contributes to the *)
(* average durations stays.                                                  *)
EXTENDS Metrics, TaskQueueDeadlineProofs

-----------------------------------------------------------------------------
(* Steps of the queue *)

\* What becomes of a handler's local state, as far as its clock matters.
Moves(r) ==
    LET q == req[r]  s == req'[r]
        From(pc) == q.pc = pc /\ s.task = q.task /\ s.attempt = q.attempt IN
    /\ \A x \in Req : x # r => req'[x] = req[x]
    /\ s.pc \in {"lease.select", "heartbeat.read", "fail.write"} => s.at = now
    /\ s.pc = "lease.commit" => q.pc = "lease.select" /\ s.at = q.at
    /\ s.pc \in {"heartbeat.read", "complete.write", "fail.read"} => q.pc = "idle"
    /\ s.pc = "heartbeat.write" => q.pc = "heartbeat.read" /\ s.task = q.task /\ s.at = q.at
    /\ s.pc = "complete.close" => From("complete.write")
    /\ s.pc = "fail.write" => From("fail.read")
    /\ s.pc = "fail.close" => From("fail.write")

LEMMA HandlerTimes == ASSUME IInv, NEW r \in Req, Handler(r) PROVE Moves(r)
<1>1. req \in [Req -> Reqs] /\ req[r] \in Reqs
  BY DEF IInv, TypeOK
<1>2. ASSUME NEW s, Goto(r, s) PROVE req'[r] = s /\ \A x \in Req : x # r => req'[x] = req[x]
  BY <1>1, <1>2 DEF Goto
<1>3. ASSUME NEW s, Goto(r, s),
             s.pc \notin {"lease.select", "lease.commit", "heartbeat.read", "heartbeat.write",
                          "complete.write", "fail.read", "complete.close", "fail.write",
                          "fail.close"}
      PROVE  Moves(r)
  BY <1>2, <1>3 DEF Moves
<1>4. ASSUME NEW t, NEW i, NEW e, ToEvent(r, t, i, e) PROVE Moves(r)
  <2> DEFINE s == [Idle EXCEPT !.pc = "event", !.task = t, !.attempt = i, !.event = e]
  <2>1. s.pc = "event" /\ Goto(r, s)
    BY <1>4 DEF ToEvent, Idle
  <2> HIDE DEF s
  <2> QED
    BY <1>3, <2>1
<1>5. ASSUME Goto(r, Idle) PROVE Moves(r)
  <2>1. Idle.pc = "idle"
    BY DEF Idle
  <2> QED
    BY <1>3, <1>5, <2>1
<1>6. CASE \/ \E n \in Title, y \in Option(Context), x \in Route : PatchWrite(r, n, y, x)
           \/ LeaseNothing(r) \/ LeaseConflict(r) \/ AppendEvent(r) \/ Abort(r)
  BY <1>5, <1>6 DEF PatchWrite, LeaseNothing, LeaseConflict, AppendEvent, Abort, Done
<1>7. CASE \/ \E t \in Task, n \in Title, y \in Option(Context), x \in Route, c \in Configs :
                Create(r, t, n, y, x, c)
           \/ CancelWrite(r) \/ LeaseCommit(r) \/ HeartbeatWrite(r) \/ CompleteClose(r)
           \/ FailClose(r)
           \/ \E x \in Route : ClassifyUpdate(r, x)
           \/ \E t \in Task, x \in Route, c \in Configs : ClassifyInsert(r, t, x, c)
  BY <1>4, <1>7 DEF Create, CancelWrite, LeaseCommit, HeartbeatWrite, CompleteClose, FailClose,
                    ClassifyUpdate, ClassifyInsert
<1>8. CASE \/ \E t \in Task : PatchCheck(r, t) \/ CancelCheck(r, t)
           \/ \E n \in Title, y \in Context : ClassifyRead(r, n, y)
  <2>1. ASSUME NEW t, NEW pc \in {"patch.write", "cancel.write"},
               Goto(r, [Idle EXCEPT !.pc = pc, !.task = t])
        PROVE  Moves(r)
    <3> DEFINE s == [Idle EXCEPT !.pc = pc, !.task = t]
    <3>1. s.pc = pc /\ Goto(r, s)
      BY <2>1 DEF Idle
    <3> HIDE DEF s
    <3> QED
      BY <1>3, <3>1
  <2>2. ASSUME NEW h, Goto(r, [Idle EXCEPT !.pc = "classify.insert", !.hash = h])
        PROVE  Moves(r)
    <3> DEFINE s == [Idle EXCEPT !.pc = "classify.insert", !.hash = h]
    <3>1. s.pc = "classify.insert" /\ Goto(r, s)
      BY <2>2 DEF Idle
    <3> HIDE DEF s
    <3> QED
      BY <1>3, <3>1
  <2>3. ASSUME NEW t, NEW h,
               Goto(r, [Idle EXCEPT !.pc = "classify.update", !.task = t, !.hash = h])
        PROVE  Moves(r)
    <3> DEFINE s == [Idle EXCEPT !.pc = "classify.update", !.task = t, !.hash = h]
    <3>1. s.pc = "classify.update" /\ Goto(r, s)
      BY <2>3 DEF Idle
    <3> HIDE DEF s
    <3> QED
      BY <1>3, <3>1
  <2> QED
    BY <1>8, <2>1, <2>2, <2>3 DEF PatchCheck, CancelCheck, ClassifyRead
<1>9. CASE \/ \E w \in Worker, f \in Filters : LeaseBegin(r, w, f)
           \/ \E h \in held : HeartbeatBegin(r, h[1], h[2])
  <2>1. PICK w, f, t, k :
           /\ req[r].pc = "idle"
           /\ \/ Goto(r, [Idle EXCEPT !.pc = "lease.select", !.worker = w, !.filter = f,
                                      !.at = now])
              \/ Goto(r, [Idle EXCEPT !.pc = "heartbeat.read", !.task = t, !.token = k,
                                      !.at = now])
    BY <1>9 DEF LeaseBegin, HeartbeatBegin
  <2> DEFINE a == [Idle EXCEPT !.pc = "lease.select", !.worker = w, !.filter = f, !.at = now]
             b == [Idle EXCEPT !.pc = "heartbeat.read", !.task = t, !.token = k, !.at = now]
  <2>2. a.pc = "lease.select" /\ b.pc = "heartbeat.read" /\ a.at = now /\ b.at = now
    BY DEF Idle
  <2>3. Goto(r, a) \/ Goto(r, b)
    BY <2>1
  <2> HIDE DEF a, b
  <2> QED
    BY <1>2, <2>1, <2>2, <2>3 DEF Moves
<1>10. CASE LeaseSelect(r)
  <2>1. PICK t, k : Goto(r, [req[r] EXCEPT !.pc = "lease.commit", !.task = t, !.attempt = k])
    BY <1>10 DEF LeaseSelect
  <2> DEFINE s == [req[r] EXCEPT !.pc = "lease.commit", !.task = t, !.attempt = k]
  <2>2. s.pc = "lease.commit" /\ s.at = req[r].at /\ Goto(r, s) /\ req[r].pc = "lease.select"
    BY <1>1, <1>10, <2>1 DEF LeaseSelect, Reqs
  <2> HIDE DEF s
  <2> QED
    BY <1>2, <2>2 DEF Moves
<1>12. CASE HeartbeatRead(r)
  <2>1. ASSUME NEW i, Goto(r, [req[r] EXCEPT !.pc = "heartbeat.write", !.attempt = i])
        PROVE  Moves(r)
    <3> DEFINE s == [req[r] EXCEPT !.pc = "heartbeat.write", !.attempt = i]
    <3>1. /\ s.pc = "heartbeat.write" /\ s.at = req[r].at /\ s.task = req[r].task
          /\ Goto(r, s) /\ req[r].pc = "heartbeat.read"
      BY <1>1, <1>12, <2>1 DEF HeartbeatRead, Reqs
    <3> HIDE DEF s
    <3> QED
      BY <1>2, <3>1 DEF Moves
  <2> QED
    BY <1>5, <1>12, <2>1 DEF HeartbeatRead, Done
<1>13. CASE \E h \in held : CompleteValidate(r, h[1], h[2]) \/ FailValidate(r, h[1], h[2])
  <2>1. PICK h, i :
           /\ req[r].pc = "idle"
           /\ \/ Goto(r, [Idle EXCEPT !.pc = "complete.write", !.task = h[1], !.attempt = i])
              \/ Goto(r, [Idle EXCEPT !.pc = "fail.read", !.task = h[1], !.attempt = i])
    BY <1>13 DEF CompleteValidate, FailValidate
  <2> DEFINE b == [Idle EXCEPT !.pc = "complete.write", !.task = h[1], !.attempt = i]
             c == [Idle EXCEPT !.pc = "fail.read", !.task = h[1], !.attempt = i]
  <2>2. b.pc = "complete.write" /\ c.pc = "fail.read"
    BY DEF Idle
  <2>3. Goto(r, b) \/ Goto(r, c)
    BY <2>1
  <2> HIDE DEF b, c
  <2> QED
    BY <1>2, <2>1, <2>2, <2>3 DEF Moves
<1>11. CASE \/ \E w \in Worker : CompleteWrite(r, w)
            \/ \E hint \in BOOLEAN : FailRead(r, hint)
            \/ FailWrite(r)
  <2>1. PICK pc \in {"complete.close", "fail.write", "fail.close"} :
           /\ \E at, again :
                /\ Goto(r, [req[r] EXCEPT !.pc = pc, !.at = at, !.again = again])
                /\ pc = "fail.write" => at = now
           /\ pc = "complete.close" => req[r].pc = "complete.write"
           /\ pc = "fail.write" => req[r].pc = "fail.read"
           /\ pc = "fail.close" => req[r].pc = "fail.write"
    <3>1. ASSUME NEW w \in Worker, CompleteWrite(r, w)
          PROVE  /\ Goto(r, [req[r] EXCEPT !.pc = "complete.close", !.at = req[r].at,
                                           !.again = req[r].again])
                 /\ req[r].pc = "complete.write"
      BY <1>1, <3>1 DEF CompleteWrite, Reqs
    <3> QED
      BY <1>11, <3>1 DEF FailRead, FailWrite
  <2>2. PICK at, again : /\ Goto(r, [req[r] EXCEPT !.pc = pc, !.at = at, !.again = again])
                         /\ pc = "fail.write" => at = now
    BY <2>1
  <2> DEFINE s == [req[r] EXCEPT !.pc = pc, !.at = at, !.again = again]
  <2>3. /\ s.pc = pc /\ s.task = req[r].task /\ s.attempt = req[r].attempt /\ s.at = at
        /\ Goto(r, s)
    BY <1>1, <2>2 DEF Reqs
  <2> HIDE DEF s
  <2> QED
    BY <1>2, <2>1, <2>2, <2>3 DEF Moves
<1> QED
  BY <1>6, <1>7, <1>8, <1>9, <1>10, <1>11, <1>12, <1>13 DEF Handler

\* The attempts, step by step, and who writes them.
LEMMA HandlerAttempts ==
    ASSUME IInv, NEW r \in Req, Handler(r)
    PROVE  \/ attempts' = attempts /\ ~Closing(req[r])
           \/ LeaseCommit(r)
           \/ \E res \in {"completed", "failed"} :
                 /\ Closing(req[r])
                 /\ attempts' = Close(req[r].task, req[r].attempt, res)
                 /\ req'[r].pc = "event"
<1>1. CASE CompleteClose(r) \/ FailClose(r)
  <2>1. \E t, i, e : ToEvent(r, t, i, e)
    BY <1>1 DEF CompleteClose, FailClose
  <2>2. req'[r].pc = "event"
    BY <2>1 DEF ToEvent, Goto, Idle, IInv, TypeOK
  <2> QED
    BY <1>1, <2>2, DatedFaultsAssumption DEF CompleteClose, FailClose, Closing, Swallow
<1>2. CASE ~(CompleteClose(r) \/ FailClose(r) \/ LeaseCommit(r))
  BY <1>2 DEF Handler, Create, PatchCheck, CancelCheck, PatchWrite, CancelWrite,
        LeaseBegin, LeaseSelect, LeaseNothing, LeaseConflict, HeartbeatBegin, HeartbeatRead, CompleteValidate, FailValidate,
        HeartbeatWrite, CompleteWrite, FailRead, FailWrite, ClassifyRead,
        ClassifyUpdate, ClassifyInsert, AppendEvent, Abort, db, Closing
<1> QED
  BY <1>1, <1>2

-----------------------------------------------------------------------------
(* Dates *)

Spans == [from : Nat, to : Option(Nat)]

\* The handlers that will date their writes with a time they have read before.
Carrying == {"lease.select", "lease.commit", "heartbeat.read", "heartbeat.write", "fail.write"}

\* The times handlers and the loop carry are past, and a handler that will close
\* an attempt carries one that is not before the attempt's start.
TimesPast ==
    /\ loop.at \in 0 .. now
    /\ \A r \in Req : req[r].pc \in Carrying => req[r].at \in 0 .. now
    /\ \A r \in Req : LET q == req[r]  from == span[q.task][q.attempt].from IN
         /\ q.pc \in {"complete.write", "complete.close", "fail.read", "fail.close"} =>
                from <= clock[r]
         /\ q.pc = "fail.write" => from <= q.at
SpansTyped ==
    /\ DOMAIN span = Task
    /\ \A t \in Task : \A i \in DOMAIN attempts[t] : span[t][i] \in Spans
DatesInv == MetricsTypeOK /\ SpansTyped /\ TimesPast

LEMMA MetricsQueue == MetricsSpec => Spec
<1>1. MetricsInit => Init
  BY DEF MetricsInit
<1>2. [MetricsNext]_metricsVars => [Next]_vars
  BY DEF MetricsNext, Next, Handler, metricsVars
<1> QED
  BY <1>1, <1>2, PTL DEF MetricsSpec, Spec

LEMMA MetricsIInv == MetricsSpec => []IInv
  BY MetricsQueue, Invariance

LEMMA InitDates == Init /\ MetricsInit => DatesInv
<1> SUFFICES ASSUME MetricsInit PROVE DatesInv
  OBVIOUS
<1>1. /\ now = 0 /\ loop.at = 0 /\ \A r \in Req : req[r].pc = "idle"
      /\ \A t \in Task : attempts[t] = <<>> /\ span[t] = <<>>
      /\ DOMAIN span = Task
  BY DEF MetricsInit, Init, Idle, LoopIdle
<1>2. DOMAIN <<>> = {}
  BY EmptySeq, LenProperties
<1> QED
  BY <1>1, <1>2 DEF MetricsInit, DatesInv, MetricsTypeOK, SpansTyped, TimesPast, Carrying

\* What a step that dates a handler's writes does to the spans.
LEMMA SpanSteps ==
    ASSUME IInv, DatesInv, NEW r \in Req, Handler(r), NEW at \in Nat, Dated(r, at),
           NEW t \in Task
    PROVE  /\ DOMAIN span' = Task /\ DOMAIN span'[t] = DOMAIN attempts'[t]
           /\ \A i \in DOMAIN attempts[t] :
                /\ i \in DOMAIN attempts'[t]
                /\ span'[t][i] \in Spans /\ span'[t][i].from = span[t][i].from
                /\ \/ /\ span'[t][i] = span[t][i]
                      /\ attempts'[t][i].result = attempts[t][i].result
                   \/ /\ Ends(r, t, i) /\ span'[t][i].to = at
                      /\ attempts'[t][i].result # None
           /\ \A i \in DOMAIN attempts'[t] \ DOMAIN attempts[t] :
                /\ LeaseCommit(r) /\ attempts'[t][i].result = None
                /\ span'[t][i] = [from |-> at, to |-> None]
<1>1. /\ span' = [u \in Task |-> [i \in DOMAIN attempts'[u] |->
                  IF i \notin DOMAIN attempts[u] THEN [from |-> at, to |-> None]
                  ELSE IF Ends(r, u, i) THEN [span[u][i] EXCEPT !.to = at]
                  ELSE span[u][i]]]
  BY DEF Dated
<1>2. /\ DOMAIN span' = Task /\ DOMAIN span'[t] = DOMAIN attempts'[t]
      /\ \A i \in DOMAIN attempts'[t] :
            span'[t][i] = IF i \notin DOMAIN attempts[t] THEN [from |-> at, to |-> None]
                          ELSE IF Ends(r, t, i) THEN [span[t][i] EXCEPT !.to = at]
                          ELSE span[t][i]
  BY <1>1
<1>3. \A i \in DOMAIN attempts[t] :
         LET new == [span[t][i] EXCEPT !.to = at] IN
         /\ span[t][i] \in Spans
         /\ new \in Spans /\ new.from = span[t][i].from /\ new.to = at
  BY DEF DatesInv, SpansTyped, Spans, Option
<1>4. CASE attempts' = attempts /\ ~Closing(req[r])
  BY <1>2, <1>3, <1>4 DEF Ends
<1>5. CASE LeaseCommit(r)
  <2>1. ~Closing(req[r])
    BY <1>5 DEF LeaseCommit, Closing
  <2>2. /\ \A i \in DOMAIN attempts[t] : /\ i \in DOMAIN attempts'[t]
                                         /\ attempts'[t][i] = attempts[t][i]
        /\ \A i \in DOMAIN attempts'[t] \ DOMAIN attempts[t] : attempts'[t][i].result = None
    <3>1. CASE t = req[r].task
      <4> DEFINE n == Len(attempts[t])
      <4>1. /\ n \in Nat /\ DOMAIN attempts[t] = 1..n /\ DOMAIN attempts'[t] = 1 .. n + 1
            /\ \A i \in 1..n : attempts'[t][i] = attempts[t][i]
            /\ attempts'[t][n + 1].result = None
        BY <1>5, <3>1, LeaseAppends
      <4>2. (1 .. n + 1) \ (1..n) = {n + 1} /\ 1..n \subseteq 1 .. n + 1
        BY <4>1
      <4> HIDE DEF n
      <4> QED
        BY <4>1, <4>2
    <3>2. CASE t # req[r].task
      BY <1>5, <3>2, LeaseAppends
    <3> QED
      BY <3>1, <3>2
  <2> QED
    BY <1>2, <1>3, <1>5, <2>1, <2>2 DEF Ends
<1>6. ASSUME NEW res \in {"completed", "failed"}, Closing(req[r]),
             attempts' = Close(req[r].task, req[r].attempt, res)
      PROVE  /\ DOMAIN attempts'[t] = DOMAIN attempts[t]
             /\ \A i \in DOMAIN attempts[t] :
                  IF Ends(r, t, i) THEN attempts'[t][i].result # None
                  ELSE attempts'[t][i].result = attempts[t][i].result
  <2>1. /\ req[r].task \in Task /\ req[r].attempt \in DOMAIN attempts[req[r].task]
        /\ attempts \in [Task -> Seq(Attempts)]
    BY <1>6 DEF Closing, IInv, TypeOK, Existing, Unread, HandlersKnowAttempt, OnAttempt, Answering
  <2> QED
    BY <1>6, <2>1, CloseEffect, ClosedResult DEF Ends
<1> QED
  BY <1>2, <1>3, <1>4, <1>5, <1>6, HandlerAttempts

\* The times a handler may date a step with.
LEMMA ReadingsPast ==
    ASSUME IInv, DatesInv, NEW r \in Req, NEW at \in Readings(r)
    PROVE  /\ at \in 0 .. now
           /\ Closing(req[r]) => at = clock[r]
           /\ req[r].pc \in Carrying => at = req[r].at
           /\ req[r].pc = "complete.write" => at >= clock[r]
           /\ req[r].pc \in {"idle", "fail.read"} => at = now
<1>1. now \in Nat /\ clock[r] \in 0 .. now
  BY DEF IInv, TypeOK, DatesInv, MetricsTypeOK
<1>2. \A x \in clock[r] .. now : x \in 0 .. now /\ x >= clock[r]
  BY <1>1
<1>3. CASE req[r].pc \in Carrying
  BY <1>3 DEF Readings, DatesInv, TimesPast, Closing, Carrying
<1>4. CASE req[r].pc \in {"patch.write", "cancel.write", "complete.write", "classify.update"}
  BY <1>2, <1>4 DEF Readings, Closing, Carrying
<1>5. CASE Closing(req[r])
  BY <1>1, <1>5 DEF Readings, Closing, Carrying
<1>6. CASE /\ req[r].pc \notin Carrying
           /\ req[r].pc \notin {"patch.write", "cancel.write", "complete.write", "classify.update"}
           /\ ~Closing(req[r])
  BY <1>1, <1>6 DEF Readings, Carrying
<1> QED
  BY <1>3, <1>4, <1>5, <1>6

LEMMA HandlerDates ==
    ASSUME IInv, IInv', DatesInv, NEW r \in Req, Handler(r), NEW at \in Readings(r),
           Dated(r, at)
    PROVE  DatesInv'
<1>1. /\ now' = now /\ loop' = loop
      /\ at \in 0 .. now /\ now \in Nat
  <2>1. now' = now /\ loop' = loop
    BY DEF Handler, Create, PatchCheck, CancelCheck, PatchWrite, CancelWrite, LeaseBegin, LeaseSelect, LeaseNothing,
        LeaseCommit, LeaseConflict, HeartbeatBegin, HeartbeatRead, CompleteValidate, FailValidate,
        HeartbeatWrite, CompleteWrite, CompleteClose, FailRead, FailWrite, FailClose,
        ClassifyRead, ClassifyUpdate, ClassifyInsert, AppendEvent, Abort
  <2> QED
    BY <2>1, ReadingsPast DEF IInv, TypeOK
<1>2. /\ updated' \in [Task -> 0 .. now'] /\ clock' \in [Req -> 0 .. now']
      /\ clock'[r] = IF req'[r].pc \in {"idle", "event"} THEN 0 ELSE at
      /\ \A x \in Req : x # r => clock'[x] = clock[x]
  BY <1>1 DEF Dated, DatesInv, MetricsTypeOK
<1>3. ASSUME NEW t \in Task
      PROVE  /\ DOMAIN span' = Task /\ DOMAIN span'[t] = DOMAIN attempts'[t]
             /\ \A i \in DOMAIN attempts'[t] :
                  /\ span'[t][i] \in Spans /\ span'[t][i].from \in 0 .. now'
                  /\ IF attempts'[t][i].result = None THEN span'[t][i].to = None
                     ELSE span'[t][i].to \in span'[t][i].from .. now'
                  /\ i \in DOMAIN attempts[t] => span'[t][i].from = span[t][i].from
  <2>1. /\ DOMAIN span' = Task /\ DOMAIN span'[t] = DOMAIN attempts'[t]
        /\ \A i \in DOMAIN attempts[t] :
             /\ i \in DOMAIN attempts'[t]
             /\ span'[t][i] \in Spans /\ span'[t][i].from = span[t][i].from
             /\ \/ /\ span'[t][i] = span[t][i]
                   /\ attempts'[t][i].result = attempts[t][i].result
                \/ /\ Ends(r, t, i) /\ span'[t][i].to = at
                   /\ attempts'[t][i].result # None
        /\ \A i \in DOMAIN attempts'[t] \ DOMAIN attempts[t] :
             /\ attempts'[t][i].result = None
             /\ span'[t][i] = [from |-> at, to |-> None]
    BY <1>1, SpanSteps
  <2>2. \A i \in DOMAIN attempts[t] :
           /\ span[t][i].from \in 0 .. now
           /\ IF attempts[t][i].result = None THEN span[t][i].to = None
              ELSE span[t][i].to \in span[t][i].from .. now
    BY DEF DatesInv, MetricsTypeOK
  <2>3. ASSUME NEW i, Ends(r, t, i) PROVE at >= span[t][i].from
    BY <2>3, ReadingsPast DEF Ends, Closing, DatesInv, TimesPast
  <2>4. ASSUME NEW i \in DOMAIN attempts'[t], i \in DOMAIN attempts[t]
        PROVE  /\ span'[t][i] \in Spans /\ span'[t][i].from \in 0 .. now'
               /\ IF attempts'[t][i].result = None THEN span'[t][i].to = None
                  ELSE span'[t][i].to \in span'[t][i].from .. now'
               /\ span'[t][i].from = span[t][i].from
    BY <1>1, <2>1, <2>2, <2>3, <2>4
  <2>5. ASSUME NEW i \in DOMAIN attempts'[t], i \notin DOMAIN attempts[t]
        PROVE  /\ span'[t][i] \in Spans /\ span'[t][i].from \in 0 .. now'
               /\ attempts'[t][i].result = None /\ span'[t][i].to = None
    BY <1>1, <2>1, <2>5 DEF Spans, Option
  <2> QED
    BY <2>1, <2>4, <2>5
<1>4. MetricsTypeOK' /\ SpansTyped'
  <2>1. \A t \in Task : DOMAIN span' = Task
    BY <1>3
  <2>2. DOMAIN span' = Task
    BY DEF Dated
  <2> QED
    BY <1>2, <1>3, <2>2 DEF MetricsTypeOK, SpansTyped
<1>5. Moves(r)
  BY HandlerTimes
<1>6. ASSUME NEW x \in Req, req[x].pc \in Answering \/ req'[x].pc \in Answering
      PROVE  /\ req'[x].pc \in Answering =>
                  /\ req'[x].task \in Task
                  /\ req'[x].attempt \in DOMAIN attempts'[req'[x].task]
             /\ req[x].pc \in Answering =>
                  /\ req[x].task \in Task
                  /\ req[x].attempt \in DOMAIN attempts[req[x].task]
  BY <1>6 DEF IInv, TypeOK, Existing, Unread, HandlersKnowAttempt, OnAttempt, Answering
<1>7. TimesPast'
  <2>1. \A x \in Req : req'[x].pc \in Carrying => req'[x].at \in 0 .. now'
    BY <1>1, <1>5 DEF Moves, DatesInv, TimesPast, Carrying
  <2>2. ASSUME NEW x \in Req, x # r
        PROVE  LET q == req'[x]  from == span'[q.task][q.attempt].from IN
               /\ q.pc \in {"complete.write", "complete.close", "fail.read", "fail.close"} =>
                      from <= clock'[x]
               /\ q.pc = "fail.write" => from <= q.at
    <3>1. req'[x] = req[x] /\ clock'[x] = clock[x]
      BY <1>2, <1>5, <2>2 DEF Moves
    <3>2. req[x].pc \in Answering =>
             span'[req[x].task][req[x].attempt].from = span[req[x].task][req[x].attempt].from
      BY <1>3, <1>6, <3>1
    <3> QED
      BY <3>1, <3>2 DEF Answering, DatesInv, TimesPast
  <2>3. LET q == req'[r]  from == span'[q.task][q.attempt].from IN
        /\ q.pc \in {"complete.write", "complete.close", "fail.read", "fail.close"} =>
               from <= clock'[r]
        /\ q.pc = "fail.write" => from <= q.at
    <3> DEFINE q == req'[r]
               from == span'[q.task][q.attempt].from
    <3>1. q.pc \in Answering => from \in 0 .. now
      BY <1>1, <1>3, <1>6
    <3>2. CASE q.pc \in {"complete.write", "fail.read"}
      BY <1>1, <1>2, <1>5, <3>1, <3>2, ReadingsPast DEF Moves, Answering
    <3>3. CASE q.pc = "fail.write"
      BY <1>1, <1>5, <3>1, <3>3 DEF Moves, Answering
    <3>4. ASSUME q.task = req[r].task, q.attempt = req[r].attempt, req[r].pc \in Answering
          PROVE  from = span[req[r].task][req[r].attempt].from /\ from \in Nat
      <4>1. from = span[req[r].task][req[r].attempt].from
        BY <1>3, <1>6, <3>4, ResultsStay DEF Next
      <4> QED
        BY <1>6, <3>4, <4>1 DEF DatesInv, SpansTyped, Spans
    <3>5. CASE q.pc = "complete.close"
      <4>1. req[r].pc = "complete.write" /\ from <= clock[r] /\ from \in Nat
        BY <1>5, <3>4, <3>5 DEF Moves, DatesInv, TimesPast, Answering
      <4>2. clock'[r] = at /\ at >= clock[r] /\ clock[r] \in Nat
        BY <1>2, <3>5, <4>1, ReadingsPast DEF DatesInv, MetricsTypeOK
      <4> QED
        BY <1>1, <3>5, <4>1, <4>2
    <3>6. CASE q.pc = "fail.close"
      <4>1. req[r].pc = "fail.write" /\ from <= req[r].at
        BY <1>5, <3>4, <3>6 DEF Moves, DatesInv, TimesPast, Answering
      <4>2. clock'[r] = req[r].at
        BY <1>2, <3>6, <4>1, ReadingsPast DEF Carrying
      <4> QED
        BY <3>6, <4>1, <4>2
    <3> QED
      BY <3>2, <3>3, <3>5, <3>6
  <2> QED
    BY <1>1, <2>1, <2>2, <2>3 DEF TimesPast, DatesInv
<1> QED
  BY <1>4, <1>7 DEF DatesInv

LEMMA LoopTimes ==
    ASSUME IInv, loop.at \in 0 .. now, ExpiryLoop
    PROVE  loop'.at \in 0 .. now /\ now' = now /\ req' = req /\ attempts' = attempts
<1>1. now \in Nat /\ loop \in Loops
  BY DEF IInv, TypeOK
<1>2. LoopIdle.at = 0
  BY DEF LoopIdle
<1>3. CASE LoopScan
  BY <1>1, <1>3 DEF LoopScan, LoopIdle, db
<1>4. CASE \E t \in Task : LoopUpdate(t)
  BY <1>1, <1>4 DEF LoopUpdate, Loops
<1>5. \A b : Rest(b).at \in {0, loop.at}
  BY <1>1, <1>2 DEF Rest, Loops
<1>6. CASE (\E t \in Task : LoopSkip(t)) \/ LoopTimedOut \/ LoopRetried
  <2>1. [loop EXCEPT !.pc = "retried"].at = loop.at
    BY <1>1 DEF Loops
  <2>2. loop'.at \in {0, loop.at}
    BY <1>5, <1>6, <2>1 DEF LoopSkip, LoopTimedOut, LoopRetried
  <2>3. now' = now /\ req' = req /\ attempts' = attempts
    BY <1>6 DEF LoopSkip, LoopTimedOut, LoopRetried, db
  <2> QED
    BY <1>1, <2>2, <2>3
<1> QED
  BY <1>3, <1>4, <1>6 DEF ExpiryLoop

LEMMA DatesKept == IInv /\ IInv' /\ DatesInv /\ [MetricsNext]_metricsVars => DatesInv'
<1> SUFFICES ASSUME IInv, IInv', DatesInv, [MetricsNext]_metricsVars PROVE DatesInv'
  OBVIOUS
<1>1. now \in Nat
  BY DEF IInv, TypeOK
<1>2. ASSUME NEW r \in Req, Handler(r), NEW at \in Readings(r), Dated(r, at)
      PROVE  DatesInv'
  BY <1>2, HandlerDates
<1>7. ASSUME NEW r \in Req, Abort(r), Undated(r) PROVE DatesInv'
  <2>1. /\ attempts' = attempts /\ now' = now /\ loop' = loop /\ updated' = updated
        /\ span' = span /\ clock' = [clock EXCEPT ![r] = 0]
        /\ req' = [req EXCEPT ![r] = Idle] /\ Idle.pc = "idle"
    BY <1>7 DEF Abort, Undated, Done, Goto, Idle, db
  <2>2. req \in [Req -> Reqs] /\ clock \in [Req -> 0 .. now]
    BY DEF IInv, TypeOK, DatesInv, MetricsTypeOK
  <2>3. \A x \in Req : req'[x].pc = "idle" \/ (req'[x] = req[x] /\ clock'[x] = clock[x])
    BY <2>1, <2>2
  <2>4. clock' \in [Req -> 0 .. now]
    BY <1>1, <2>1, <2>2
  <2> QED
    BY <2>1, <2>3, <2>4 DEF DatesInv, MetricsTypeOK, SpansTyped, TimesPast, Carrying
<1>3. CASE ExpiryLoop /\ LoopDated
  <2>1. loop'.at \in 0 .. now /\ now' = now /\ req' = req /\ attempts' = attempts
    BY <1>3, LoopTimes DEF DatesInv, TimesPast
  <2>2. span' = span /\ clock' = clock /\ updated' \in [Task -> 0 .. now]
    BY <1>3 DEF LoopDated, DatesInv, MetricsTypeOK, TimesPast
  <2> QED
    BY <2>1, <2>2 DEF DatesInv, MetricsTypeOK, SpansTyped, TimesPast
<1>4. CASE Crash /\ clock' = [r \in Req |-> 0] /\ UNCHANGED <<updated, span>>
  <2>1. /\ attempts' = attempts /\ now' = now /\ loop'.at = 0
        /\ \A r \in Req : req'[r].pc = "idle"
    BY <1>4 DEF Crash, db, Idle, LoopIdle
  <2> QED
    BY <1>1, <1>4, <2>1 DEF DatesInv, MetricsTypeOK, SpansTyped, TimesPast, Carrying
<1>5. CASE Tick /\ UNCHANGED dates
  <2>1. /\ attempts' = attempts /\ now' = now + 1 /\ loop' = loop /\ req' = req
        /\ updated' = updated /\ span' = span /\ clock' = clock
    BY <1>5 DEF Tick, db, dates
  <2>2. \A x : x \in 0 .. now => x \in 0 .. now'
    BY <1>1, <2>1
  <2>3. MetricsTypeOK'
    <3>1. updated' \in [Task -> 0 .. now'] /\ clock' \in [Req -> 0 .. now']
      BY <2>1, <2>2 DEF DatesInv, MetricsTypeOK
    <3>2. \A t \in Task : \A i \in DOMAIN span[t] :
             /\ span[t][i].from \in 0 .. now'
             /\ IF attempts[t][i].result = None THEN span[t][i].to = None
                ELSE span[t][i].to \in span[t][i].from .. now'
      BY <1>1, <2>1 DEF DatesInv, MetricsTypeOK
    <3> QED
      BY <2>1, <3>1, <3>2 DEF DatesInv, MetricsTypeOK
  <2> QED
    BY <2>1, <2>2, <2>3 DEF DatesInv, SpansTyped, TimesPast
<1>6. CASE UNCHANGED metricsVars
  BY <1>6 DEF metricsVars, vars, dates, DatesInv, MetricsTypeOK, SpansTyped, TimesPast
<1> QED
  BY <1>2, <1>3, <1>4, <1>5, <1>6, <1>7 DEF MetricsNext

LEMMA DatesAlways == MetricsSpec => []DatesInv
<1>1. MetricsInit => DatesInv
  BY InitDates DEF MetricsInit
<1> QED
  BY <1>1, DatesKept, MetricsIInv, PTL DEF MetricsSpec

\* An attempt ends when its result is written, not before it started, and with a
\* time that some handler has read: for any number of handlers, and whatever
\* crashes or is reported to fail.
THEOREM DatesTypeCorrect == MetricsSpec => []MetricsTypeOK
<1>1. DatesInv => MetricsTypeOK
  BY DEF DatesInv
<1> QED
  BY <1>1, DatesAlways, PTL

-----------------------------------------------------------------------------
(* Durations *)

\* No two answers about one attempt are past their check at a time: a worker
\* does not repeat a call that it still waits for.
Answered == {"complete.write", "complete.close", "fail.read", "fail.write", "fail.close"}
AnswersApart == \A r, s \in Req :
    /\ r # s /\ req[r].pc \in Answered /\ req[s].pc \in Answered
    /\ req[r].task = req[s].task
    => req[r].attempt # req[s].attempt

\* A handler past its check works on an attempt that is still open.
OpenHeld == \A r \in Req :
    req[r].pc \in Answered => attempts[req[r].task][req[r].attempt].result = None

\* An attempt only ends with the answer of its handler.
LEMMA OpenStays ==
    ASSUME IInv, NEW r \in Req, Handler(r), NEW t \in Task, NEW i \in DOMAIN attempts[t],
           attempts[t][i].result = None
    PROVE  \/ attempts'[t][i].result = None
           \/ Closing(req[r]) /\ req[r].task = t /\ req[r].attempt = i
<1>1. CASE LeaseCommit(r)
  BY <1>1, LeaseAppends
<1>2. ASSUME NEW res \in {"completed", "failed"}, Closing(req[r]),
             attempts' = Close(req[r].task, req[r].attempt, res)
      PROVE  attempts'[t][i].result = None \/ (req[r].task = t /\ req[r].attempt = i)
  <2>1. /\ req[r].task \in Task /\ req[r].attempt \in DOMAIN attempts[req[r].task]
        /\ attempts \in [Task -> Seq(Attempts)]
    BY <1>2 DEF Closing, IInv, TypeOK, Existing, Unread, HandlersKnowAttempt, OnAttempt, Answering
  <2> QED
    BY <1>2, <2>1, CloseEffect
<1> QED
  BY <1>1, <1>2, HandlerAttempts

LEMMA OpenHeldKept ==
    ASSUME IInv, AnswersApart, OpenHeld, [Next]_vars
    PROVE  OpenHeld'
<1>1. CASE UNCHANGED <<req, attempts>>
  BY <1>1 DEF OpenHeld
<1>2. CASE ExpiryLoop \/ Tick \/ UNCHANGED vars
  BY <1>1, <1>2 DEF ExpiryLoop, LoopScan, LoopUpdate, LoopSkip, LoopTimedOut, LoopRetried, Tick,
                    vars, db
<1>3. CASE Crash
  BY <1>3 DEF Crash, Idle, OpenHeld, Answered
<1>4. ASSUME NEW r \in Req, Handler(r) PROVE OpenHeld'
  <2> SUFFICES ASSUME NEW x \in Req, req'[x].pc \in Answered
               PROVE  attempts'[req'[x].task][req'[x].attempt].result = None
    BY DEF OpenHeld
  <2>1. CASE x # r
    <3>1. req'[x] = req[x]
      BY <1>4, <2>1, HandlerTimes DEF Moves
    <3>2. req[x].task \in Task /\ req[x].attempt \in DOMAIN attempts[req[x].task]
      BY <3>1 DEF Answered, IInv, TypeOK, Existing, Unread, HandlersKnowAttempt, OnAttempt, Answering
    <3>3. attempts[req[x].task][req[x].attempt].result = None
      BY <3>1 DEF OpenHeld
    <3>4. ~(Closing(req[r]) /\ req[r].task = req[x].task /\ req[r].attempt = req[x].attempt)
      BY <2>1, <3>1 DEF AnswersApart, Closing, Answered
    <3> QED
      BY <1>4, <3>1, <3>2, <3>3, <3>4, OpenStays
  <2>2. ASSUME x = r PROVE attempts' = attempts
    <3>1. req'[r].pc = "event" \/ attempts' = attempts
      <4>1. ASSUME LeaseCommit(r) PROVE req'[r].pc = "event"
        BY <4>1 DEF LeaseCommit, ToEvent, Goto, Idle, IInv, TypeOK
      <4> QED
        BY <1>4, <4>1, HandlerAttempts
    <3> QED
      BY <2>2, <3>1 DEF Answered
  <2>3. CASE x = r /\ req'[r].pc \in {"complete.write", "fail.read"}
    <3>1. req[r].pc = "idle" /\ req'[r] # req[r]
      BY <1>4, <2>3, HandlerTimes DEF Moves
    <3>2. IsTop(req'[r].task, req'[r].attempt)
      BY <1>4, <2>3, <3>1, HandlerMoves DEF Move, Next
    <3> QED
      BY <2>2, <2>3, <3>2 DEF IsTop, Open
  <2>4. CASE x = r /\ req'[r].pc \in {"complete.close", "fail.write", "fail.close"}
    BY <1>4, <2>2, <2>4, HandlerTimes DEF Moves, OpenHeld, Answered
  <2> QED
    BY <2>1, <2>3, <2>4 DEF Answered
<1> QED
  BY <1>2, <1>3, <1>4 DEF Next

LEMMA OpenHeldAlways == MetricsSpec /\ []AnswersApart => []OpenHeld
<1>1. Init => OpenHeld
  BY DEF Init, Idle, OpenHeld, Answered
<1>2. Spec /\ []AnswersApart => []OpenHeld
  BY <1>1, OpenHeldKept, Invariance, PTL DEF Spec
<1> QED
  BY <1>2, MetricsQueue, PTL

\* FR-23: what an attempt contributes to the average durations is fixed once it
\* is completed, though its worker may report it again as often as it likes, one
\* call after the other.
THEOREM DurationsKept == MetricsSpec /\ []AnswersApart => DurationsFixed
<1> DEFINE Fixed == \A at \in 0 .. MaxTime : Durations(at) \subseteq Durations(at)'
<1>2. ASSUME IInv, DatesInv, OpenHeld, [MetricsNext]_metricsVars,
             NEW t \in Task, NEW i \in DOMAIN attempts[t], attempts[t][i].result = "completed"
      PROVE  /\ DOMAIN span'[t] = DOMAIN attempts'[t] /\ i \in DOMAIN attempts'[t]
             /\ span'[t][i] = span[t][i] /\ attempts'[t][i].result = "completed"
  <2>1. CASE UNCHANGED <<attempts, span>>
    BY <1>2, <2>1 DEF DatesInv, MetricsTypeOK
  <2>2. CASE \/ ExpiryLoop /\ LoopDated
             \/ Tick /\ UNCHANGED dates
             \/ Crash /\ UNCHANGED <<updated, span>>
             \/ \E r \in Req : Abort(r) /\ Undated(r)
             \/ UNCHANGED metricsVars
    <3>1. ExpiryLoop => attempts' = attempts
      BY <1>2, LoopTimes DEF DatesInv, TimesPast
    <3> QED
      BY <2>1, <2>2, <3>1 DEF LoopDated, Tick, Crash, Abort, Undated, db, dates,
                                   metricsVars, vars
  <2>3. ASSUME NEW r \in Req, Handler(r), NEW at \in Readings(r), Dated(r, at)
        PROVE  /\ DOMAIN span'[t] = DOMAIN attempts'[t] /\ i \in DOMAIN attempts'[t]
               /\ span'[t][i] = span[t][i] /\ attempts'[t][i].result = "completed"
    <3>1. at \in Nat
      BY <1>2, <2>3, ReadingsPast
    <3>2. ~Ends(r, t, i)
      BY <1>2, NoneAssumption DEF Ends, Closing, OpenHeld, Answered
    <3> QED
      BY <1>2, <2>3, <3>1, <3>2, SpanSteps
  <2> QED
    BY <1>2, <2>2, <2>3 DEF MetricsNext
<1>3. IInv /\ DatesInv /\ OpenHeld /\ [MetricsNext]_metricsVars => [Fixed]_metricsVars
  <2> SUFFICES ASSUME IInv, DatesInv, OpenHeld, [MetricsNext]_metricsVars,
                      NEW at \in 0 .. MaxTime, NEW m \in Recent(at), Result(m) = "completed"
               PROVE  m \in Recent(at)' /\ Result(m)' = "completed"
                      /\ span'[m[1]][m[2]] = span[m[1]][m[2]]
    BY DEF Durations
  <2>1. m[1] \in Task /\ m[2] \in DOMAIN attempts[m[1]] /\ attempts[m[1]][m[2]].result = "completed"
    BY DEF Recent, Result, DatesInv, MetricsTypeOK
  <2> QED
    BY <1>2, <2>1 DEF Recent, Result
<1>4. MetricsSpec /\ []AnswersApart => [][Fixed]_metricsVars
  <2> HIDE DEF Fixed
  <2> QED
    BY <1>3, OpenHeldAlways, MetricsIInv, DatesAlways, PTL DEF MetricsSpec
<1> QED
  BY <1>4 DEF DurationsFixed

-----------------------------------------------------------------------------
(* Throughput *)

\* No two calls about one task are under way at a time, be they reports of
\* workers or edits.  Leases, cancellations, classifications and the loop may be.
Reporting == {"patch.write", "heartbeat.read", "heartbeat.write"} \cup Answered
ReportsApart == \A r, s \in Req :
    r # s /\ req[r].pc \in Reporting /\ req[s].pc \in Reporting => req[r].task # req[s].task

LEMMA ReportsAnswersApart == ReportsApart => AnswersApart
  BY DEF ReportsApart, AnswersApart, Reporting

EndsPast(t, at) == \A e \in EndTimes(t) : e <= at

\* A completed task was last written when its last attempt ended, or is being
\* written to by an attempt that is open; and the handler on its way there knows.
CompletionDated == \A t \in Task : task[t].status = "completed" =>
    EndsPast(t, updated[t]) /\ (Open(t) = {} => updated[t] \in EndTimes(t))
HandlersDated == \A r \in Req : LET q == req[r]  t == q.task IN
    /\ q.pc \in {"heartbeat.read", "heartbeat.write"} => EndsPast(t, q.at)
    /\ q.pc = "heartbeat.write" => q.attempt \in Open(t)
    /\ q.pc = "complete.write" => EndsPast(t, clock[r])
    /\ q.pc = "complete.close" /\ task[t].status = "completed" => clock[r] = updated[t]
    /\ q.pc \in {"patch.write", "fail.close"} => task[t].status # "completed"

LEMMA EndTimesPast == ASSUME IInv, DatesInv, NEW t \in Task PROVE EndsPast(t, now)
<1>1. ASSUME NEW i \in DOMAIN span[t], span[t][i].to # None PROVE span[t][i].to <= now
  <2>1. now \in Nat /\ span[t][i].from \in 0 .. now
    BY DEF IInv, TypeOK, DatesInv, MetricsTypeOK
  <2>2. span[t][i].to \in span[t][i].from .. now
    BY <1>1 DEF DatesInv, MetricsTypeOK
  <2> QED
    BY <2>1, <2>2
<1> QED
  BY <1>1 DEF EndsPast, EndTimes

\* Only a lease of t and the end of an answer about t change what has ended.
LEMMA EndTimesStep ==
    ASSUME IInv, DatesInv, NEW r \in Req, Handler(r), NEW at \in Nat, Dated(r, at),
           NEW t \in Task
    PROVE  \/ EndTimes(t)' = EndTimes(t) /\ Open(t)' = Open(t)
           \/ /\ LeaseCommit(r) /\ req[r].task = t
              /\ EndTimes(t)' = EndTimes(t) /\ Open(t) \subseteq Open(t)'
           \/ /\ Closing(req[r]) /\ req[r].task = t
              /\ at \in EndTimes(t)'
              /\ \A e \in EndTimes(t)' : e = at \/ e \in EndTimes(t)
<1>1. /\ DOMAIN span[t] = DOMAIN attempts[t] /\ DOMAIN span'[t] = DOMAIN attempts'[t]
      /\ \A i \in DOMAIN attempts[t] :
           /\ i \in DOMAIN attempts'[t]
           /\ \/ /\ span'[t][i] = span[t][i]
                 /\ attempts'[t][i].result = attempts[t][i].result
              \/ /\ Ends(r, t, i) /\ span'[t][i].to = at
                 /\ attempts'[t][i].result # None
      /\ (\E i \in DOMAIN attempts'[t] \ DOMAIN attempts[t] : TRUE) => LeaseCommit(r)
  BY SpanSteps DEF DatesInv, MetricsTypeOK
<1>2. CASE ~LeaseCommit(r) /\ ~(Closing(req[r]) /\ req[r].task = t)
  <2>1. \A i \in DOMAIN attempts[t] : /\ span'[t][i] = span[t][i]
                                      /\ attempts'[t][i].result = attempts[t][i].result
    BY <1>1, <1>2 DEF Ends
  <2>2. DOMAIN attempts'[t] = DOMAIN attempts[t]
    BY <1>1, <1>2
  <2> QED
    BY <1>1, <2>1, <2>2 DEF EndTimes, Open
<1>3. CASE LeaseCommit(r) /\ req[r].task # t
  <2>1. attempts'[t] = attempts[t] /\ ~Closing(req[r])
    BY <1>3, LeaseAppends DEF LeaseCommit, Closing
  <2>2. \A i \in DOMAIN attempts[t] : span'[t][i] = span[t][i]
    BY <1>1, <2>1 DEF Ends
  <2> QED
    BY <1>1, <2>1, <2>2 DEF EndTimes, Open
<1>4. CASE Closing(req[r]) /\ req[r].task = t /\ ~LeaseCommit(r)
  <2>1. req[r].attempt \in DOMAIN attempts[t] /\ Ends(r, t, req[r].attempt)
    BY <1>4 DEF Closing, Ends, IInv, HandlersKnowAttempt, OnAttempt, Answering
  <2>2. DOMAIN attempts'[t] = DOMAIN attempts[t]
    BY <1>1, <1>4
  <2>3. span'[t][req[r].attempt].to = at
    <3>1. span' = [u \in Task |-> [i \in DOMAIN attempts'[u] |->
                     IF i \notin DOMAIN attempts[u] THEN [from |-> at, to |-> None]
                     ELSE IF Ends(r, u, i) THEN [span[u][i] EXCEPT !.to = at]
                     ELSE span[u][i]]]
      BY DEF Dated
    <3>2. span'[t][req[r].attempt] = [span[t][req[r].attempt] EXCEPT !.to = at]
      BY <2>1, <2>2, <3>1
    <3>3. span[t][req[r].attempt] \in Spans
      BY <2>1 DEF DatesInv, SpansTyped
    <3> QED
      BY <3>2, <3>3 DEF Spans
  <2>4. at # None
    BY NoneAssumption
  <2> QED
    BY <1>1, <1>4, <2>1, <2>2, <2>3, <2>4 DEF EndTimes
<1>5. CASE LeaseCommit(r) /\ req[r].task = t
  <2>1. ~Closing(req[r])
    BY <1>5 DEF LeaseCommit, Closing
  <2>2. \A i \in DOMAIN attempts[t] : /\ i \in DOMAIN attempts'[t]
                                      /\ span'[t][i] = span[t][i]
                                      /\ attempts'[t][i].result = attempts[t][i].result
    BY <1>1, <2>1 DEF Ends
  <2>3. \A i \in DOMAIN attempts'[t] \ DOMAIN attempts[t] : span'[t][i] = [from |-> at, to |-> None]
    BY SpanSteps
  <2>4. EndTimes(t)' = EndTimes(t)
    BY <1>1, <2>2, <2>3 DEF EndTimes
  <2> QED
    BY <1>5, <2>2, <2>4 DEF Open
<1> QED
  BY <1>2, <1>3, <1>4, <1>5

\* Who writes the row of t.
LEMMA WriterSteps ==
    ASSUME IInv, NEW r \in Req, Handler(r), NEW t \in Task
    PROVE  \/ task'[t] = task[t]
           \/ Inserts(t) /\ task'[t].status = "queued"
           \/ Writes(r, t)
<1> SUFFICES ASSUME task'[t] # task[t], ~Inserts(t)
             PROVE  Writes(r, t)
  BY RowSteps DEF Inserts, Next, RowKept, RowInserted, RowPatched, RowReclassified
<1>1. ASSUME NEW u, NEW row, Row(u, row) PROVE u = t
  BY <1>1 DEF Row, IInv, TypeOK
<1>2. ASSUME NEW row, Row(t, row), task[t].status = "absent", row.status = "queued" PROVE FALSE
  BY <1>2 DEF Row, IInv, TypeOK, Inserts
<1>3. \A n, y, h, x, c : Created(n, y, h, x, c).status = "queued"
  BY DEF Created, NoTask
<1>4. CASE \/ \E u \in Task, n \in Title, y \in Option(Context), x \in Route, c \in Configs :
                Create(r, u, n, y, x, c)
           \/ \E u \in Task, x \in Route, c \in Configs : ClassifyInsert(r, u, x, c)
  BY <1>1, <1>2, <1>3, <1>4 DEF Create, ClassifyInsert
<1>5. CASE \/ Patches(r) \/ CancelWrite(r) \/ LeaseCommit(r) \/ HeartbeatWrite(r)
           \/ FailWrite(r)
           \/ \E w \in Worker : CompleteWrite(r, w)
           \/ \E x \in Route : ClassifyUpdate(r, x)
  <2>1. req[r].task = t /\ req[r].pc \in Writing
    BY <1>1, <1>5 DEF Patches, PatchWrite, CancelWrite, LeaseCommit, HeartbeatWrite, FailWrite,
                      CompleteWrite, ClassifyUpdate, Writing
  <2>2. /\ req \in [Req -> Reqs] /\ Idle.pc = "idle"
        /\ \A s : Goto(r, s) => req'[r] = s
    BY DEF IInv, TypeOK, Idle, Goto
  <2>3. ASSUME NEW u, NEW i, NEW e, ToEvent(r, u, i, e) PROVE req'[r] # Idle
    <3>1. [Idle EXCEPT !.pc = "event", !.task = u, !.attempt = i, !.event = e].pc = "event"
      BY DEF Idle
    <3> QED
      BY <2>2, <2>3, <3>1 DEF ToEvent
  <2>4. CASE FailWrite(r)
    <3>1. Goto(r, [req[r] EXCEPT !.pc = "fail.close", !.at = 0, !.again = FALSE])
      BY <2>4 DEF FailWrite
    <3>2. [req[r] EXCEPT !.pc = "fail.close", !.at = 0, !.again = FALSE].pc = "fail.close"
      BY <2>2 DEF Reqs
    <3> QED
      BY <2>1, <2>2, <3>1, <3>2 DEF Writes
  <2>5. CASE \E w \in Worker : CompleteWrite(r, w)
    <3>1. Goto(r, [req[r] EXCEPT !.pc = "complete.close"])
      BY <2>5 DEF CompleteWrite
    <3>2. [req[r] EXCEPT !.pc = "complete.close"].pc = "complete.close"
      BY <2>2 DEF Reqs
    <3> QED
      BY <2>1, <2>2, <3>1, <3>2 DEF Writes
  <2>6. CASE \/ CancelWrite(r) \/ LeaseCommit(r) \/ HeartbeatWrite(r)
             \/ \E x \in Route : ClassifyUpdate(r, x)
    <3>1. \E u, i, e : ToEvent(r, u, i, e)
      BY <2>6 DEF CancelWrite, LeaseCommit, HeartbeatWrite, ClassifyUpdate
    <3> QED
      BY <2>1, <2>3, <3>1 DEF Writes
  <2> QED
    BY <1>5, <2>1, <2>4, <2>5, <2>6 DEF Writes
<1> QED
  BY <1>4, <1>5
  DEF Handler, Patches, PatchCheck, CancelCheck, LeaseBegin, LeaseSelect, LeaseNothing,
      LeaseConflict, HeartbeatBegin, HeartbeatRead, CompleteValidate, CompleteClose,
      FailValidate, FailRead, FailClose, ClassifyRead, AppendEvent, Abort, db

\* What it is then.
LEMMA WrittenStatus ==
    ASSUME IInv, NEW r \in Req, Handler(r), NEW t \in Task, Writes(r, t)
    PROVE  \/ req[r].pc = "complete.write" /\ req'[r].pc = "complete.close"
           \/ /\ req[r].pc \in {"heartbeat.write", "patch.write"}
              /\ task'[t].status = task[t].status
           \/ task'[t].status \in {"cancelled", "leased", "queued", "failed"}
<1>1. /\ task \in [Task -> Rows] /\ req \in [Req -> Reqs] /\ req[r].task = t
      /\ req[r].pc \in Writing /\ (req'[r] # Idle \/ Patches(r))
  BY DEF IInv, TypeOK, Writes
<1>2. ASSUME NEW row, Row(t, row) PROVE task'[t] = row
  BY <1>1, <1>2 DEF Row
<1>3. Goto(r, Idle) => Patches(r)
  BY <1>1 DEF Goto
<1>5. ASSUME NEW w \in Worker, CompleteWrite(r, w)
      PROVE  req[r].pc = "complete.write" /\ req'[r].pc = "complete.close"
  BY <1>1, <1>5 DEF CompleteWrite, Goto, Reqs
<1>6. CASE Patches(r)
  <2> PICK n \in Title, y \in Option(Context), x \in Route : PatchWrite(r, n, y, x)
    BY <1>6 DEF Patches
  <2> DEFINE row == [task[t] EXCEPT !.title = n, !.route = x,
                            !.context = IF y = None THEN @ ELSE y]
  <2>1. task[t] \in Rows /\ Row(t, row) /\ req[r].pc = "patch.write"
    BY <1>1 DEF PatchWrite
  <2>2. row.status = task[t].status
    BY <2>1 DEF Rows
  <2> HIDE DEF row
  <2> QED
    BY <1>2, <2>1, <2>2
<1>7. CASE HeartbeatWrite(r)
  <2> DEFINE n == req[r].at + task[t].config.vis
             row == [task[t] EXCEPT !.lease = n]
  <2>1. task[t] \in Rows /\ Row(t, row) /\ req[r].pc = "heartbeat.write"
    BY <1>1, <1>7 DEF HeartbeatWrite
  <2> HIDE DEF n
  <2>2. row.status = task[t].status
    BY <2>1 DEF Rows
  <2> HIDE DEF row
  <2> QED
    BY <1>2, <2>1, <2>2
<1>8. CASE CancelWrite(r)
  <2> DEFINE row == [task[t] EXCEPT !.status = "cancelled"]
  <2>1. task[t] \in Rows /\ Row(t, row)
    BY <1>1, <1>8 DEF CancelWrite
  <2>2. row.status = "cancelled"
    BY <2>1 DEF Rows
  <2> HIDE DEF row
  <2> QED
    BY <1>2, <2>1, <2>2
<1>9. CASE LeaseCommit(r)
  <2> DEFINE row == Leased(task[t], req[r].worker, req[r].at)
  <2>1. task[t] \in Rows /\ Row(t, row)
    BY <1>1, <1>9 DEF LeaseCommit
  <2>2. row.status = "leased"
    BY <2>1, RowLeased
  <2> HIDE DEF row
  <2> QED
    BY <1>2, <2>1, <2>2
<1>10. CASE FailWrite(r)
  <2> DEFINE row == IF req[r].again THEN Requeued(task[t], req[r].at)
                    ELSE Ended(task[t], "failed")
  <2>1. task[t] \in Rows /\ Row(t, row)
    BY <1>1, <1>10, DatedFaultsAssumption DEF FailWrite, Swallow
  <2>2. row.status \in {"queued", "failed"}
    BY <2>1, RowUnleased
  <2> HIDE DEF row
  <2> QED
    BY <1>2, <2>1, <2>2
<1>4. CASE LeaseConflict(r) \/ Abort(r)
  BY <1>3, <1>4, <1>6 DEF LeaseConflict, Abort, Done
<1>11. ASSUME NEW x \in Route, ClassifyUpdate(r, x) PROVE task'[t].status = "queued"
  <2> DEFINE row == [task[t] EXCEPT !.status = "queued", !.route = x, !.hash = req[r].hash,
                            !.context = req[r].hash[2]]
  <2>1. task[t] \in Rows /\ Row(t, row)
    BY <1>1, <1>11 DEF ClassifyUpdate
  <2>2. row.status = "queued"
    BY <2>1 DEF Rows
  <2> HIDE DEF row
  <2> QED
    BY <1>2, <2>1, <2>2
<1>12. req[r].pc \notin {"idle", "lease.select", "heartbeat.read", "fail.read", "complete.close",
                        "fail.close", "classify.insert", "event"}
  BY <1>1 DEF Writing
<1> QED
  BY <1>4, <1>5, <1>6, <1>7, <1>8, <1>9, <1>10, <1>11, <1>12
  DEF Handler, Patches, Create, PatchCheck, CancelCheck, LeaseBegin, LeaseSelect,
      LeaseNothing, HeartbeatBegin, HeartbeatRead, CompleteValidate, CompleteClose, FailValidate, FailRead, FailClose, ClassifyRead, ClassifyInsert, AppendEvent

LEMMA CompletionDatedByHandler ==
    ASSUME IInv, DatesInv, OpenHeld, FreshChoice, CompletionDated, HandlersDated,
           NEW r \in Req, Handler(r), NEW at \in Readings(r), Dated(r, at)
    PROVE  CompletionDated'
<1> SUFFICES ASSUME NEW t \in Task, task'[t].status = "completed"
             PROVE  /\ \A e \in EndTimes(t)' : e <= updated'[t]
                    /\ Open(t)' = {} => updated'[t] \in EndTimes(t)'
  BY DEF CompletionDated, EndsPast
<1>1. /\ at \in 0 .. now /\ at \in Nat /\ now \in Nat
      /\ Closing(req[r]) => at = clock[r]
      /\ req[r].pc = "complete.write" => at >= clock[r]
  BY ReadingsPast DEF IInv, TypeOK
<1>2. /\ updated[t] \in 0 .. now /\ clock[r] \in 0 .. now
      /\ updated'[t] = IF Writes(r, t) \/ Inserts(t) THEN at ELSE updated[t]
  BY DEF Dated, DatesInv, MetricsTypeOK
<1>3. ~LeaseCommit(r) \/ task[req[r].task].status = "queued"
  BY DEF LeaseCommit, SnapshotCurrent, FreshChoice, Picks, Eligible
<1>4. CASE task'[t] = task[t] /\ ~Writes(r, t)
  <2>1. /\ updated'[t] = updated[t]
        /\ EndsPast(t, updated[t]) /\ (Open(t) = {} => updated[t] \in EndTimes(t))
    BY <1>2, <1>4 DEF Inserts, CompletionDated
  <2>2. CASE EndTimes(t)' = EndTimes(t) /\ Open(t)' = Open(t)
    BY <2>1, <2>2 DEF EndsPast
  <2>3. CASE /\ Closing(req[r]) /\ req[r].task = t
             /\ at \in EndTimes(t)'
             /\ \A e \in EndTimes(t)' : e = at \/ e \in EndTimes(t)
    <3>1. at = updated[t]
      BY <1>1, <1>4, <2>3 DEF HandlersDated, Closing
    <3> QED
      BY <1>2, <2>1, <2>3, <3>1 DEF EndsPast
  <2> QED
    BY <1>1, <1>3, <1>4, <2>2, <2>3, EndTimesStep
<1>5. CASE Writes(r, t)
  <2>1. /\ req[r].pc \in {"complete.write", "heartbeat.write", "patch.write"} /\ req[r].task = t
        /\ req[r].pc # "complete.write" => task[t].status = "completed"
    BY <1>5, WrittenStatus DEF Writes
  <2>2. req[r].pc # "patch.write"
    BY <2>1 DEF HandlersDated
  <2>3. EndTimes(t)' = EndTimes(t) /\ Open(t)' = Open(t)
    BY <1>1, <2>1, EndTimesStep DEF LeaseCommit, Closing
  <2>4. updated'[t] = at
    BY <1>2, <1>5
  <2>5. CASE req[r].pc = "complete.write"
    <3>1. req[r].attempt \in Open(t)
      BY <2>1, <2>5
      DEF OpenHeld, Answered, Open, IInv, HandlersKnowAttempt, OnAttempt, Answering
    <3>2. \A e \in EndTimes(t) : e \in Nat
      BY <1>1 DEF EndTimes, DatesInv, SpansTyped, MetricsTypeOK, Spans, Option
    <3>3. \A e \in EndTimes(t) : e <= clock[r]
      BY <2>1, <2>5 DEF HandlersDated, EndsPast
    <3>4. \A e \in EndTimes(t) : e <= at
      BY <1>1, <1>2, <2>5, <3>2, <3>3
    <3> QED
      BY <2>3, <2>4, <3>1, <3>4
  <2>6. CASE req[r].pc = "heartbeat.write"
    <3>1. at = req[r].at
      BY <2>6, ReadingsPast DEF Carrying
    <3> QED
      BY <2>1, <2>3, <2>4, <2>6, <3>1 DEF HandlersDated, EndsPast
  <2> QED
    BY <2>1, <2>2, <2>5, <2>6
<1> QED
  BY <1>4, <1>5, WriterSteps

\* The other handlers: what r does to their tasks they do not notice.
LEMMA OthersDated ==
    ASSUME IInv, ReportsApart, DatesInv, HandlersDated, NEW r \in Req, Handler(r),
           NEW at \in Nat, Dated(r, at), NEW x \in Req, x # r,
           NEW q, NEW t, q = req[x], t = q.task
    PROVE  /\ req'[x] = q
           /\ q.pc \in {"heartbeat.read", "heartbeat.write"} => \A e \in EndTimes(t)' : e <= q.at
           /\ q.pc = "heartbeat.write" => q.attempt \in Open(t)'
           /\ q.pc = "complete.write" => \A e \in EndTimes(t)' : e <= clock'[x]
           /\ q.pc = "complete.close" /\ task'[t].status = "completed" => clock'[x] = updated'[t]
           /\ q.pc \in {"patch.write", "fail.close"} => task'[t].status # "completed"
<1>1. req'[x] = req[x] /\ clock'[x] = clock[x]
  <2>1. clock \in [Req -> 0 .. now]
    BY DEF DatesInv, MetricsTypeOK
  <2> QED
    BY <2>1, HandlerTimes DEF Moves, Dated
<1> SUFFICES ASSUME q.pc \in Reporting
             PROVE  /\ q.pc \in {"heartbeat.read", "heartbeat.write"} =>
                           \A e \in EndTimes(t)' : e <= q.at
                    /\ q.pc = "heartbeat.write" => q.attempt \in Open(t)'
                    /\ q.pc = "complete.write" => \A e \in EndTimes(t)' : e <= clock[x]
                    /\ q.pc = "complete.close" /\ task'[t].status = "completed" =>
                           clock[x] = updated'[t]
                    /\ q.pc \in {"patch.write", "fail.close"} => task'[t].status # "completed"
  BY <1>1 DEF Reporting, Answered
<1>2. t \in Task
  BY DEF Reporting, Answered, IInv, TypeOK, Existing, Unread, Informed
<1>3. ~(req[r].task = t /\ req[r].pc \in Reporting)
  BY DEF ReportsApart
<1>4. EndTimes(t)' = EndTimes(t) /\ Open(t) \subseteq Open(t)'
  <2>1. ~(Closing(req[r]) /\ req[r].task = t)
    BY <1>3 DEF Closing, Reporting, Answered
  <2> QED
    BY <1>2, <2>1, EndTimesStep
<1>5. task'[t].status = "completed" =>
          task[t].status = "completed" /\ updated'[t] = updated[t]
  <2> SUFFICES ASSUME task'[t].status = "completed"
               PROVE  task[t].status = "completed" /\ updated'[t] = updated[t]
    OBVIOUS
  <2>1. ~Writes(r, t)
    BY <1>2, <1>3, WrittenStatus DEF Writes, Reporting, Answered
  <2>2. task'[t] = task[t]
    BY <1>2, <2>1, WriterSteps
  <2> QED
    BY <1>2, <2>1, <2>2 DEF Dated, Inserts
<1> QED
  BY <1>4, <1>5 DEF HandlersDated, EndsPast

LEMMA HandlersDatedByHandler ==
    ASSUME IInv, IInv', ReportsApart, DatesInv, HandlersDated,
           NEW r \in Req, Handler(r), NEW at \in Readings(r), Dated(r, at)
    PROVE  HandlersDated'
<1> SUFFICES ASSUME NEW q, NEW t, q = req'[r], t = q.task
             PROVE  /\ q.pc \in {"heartbeat.read", "heartbeat.write"} =>
                           \A e \in EndTimes(t)' : e <= q.at
                    /\ q.pc = "heartbeat.write" => q.attempt \in Open(t)'
                    /\ q.pc = "complete.write" => \A e \in EndTimes(t)' : e <= clock'[r]
                    /\ q.pc = "complete.close" /\ task'[t].status = "completed" =>
                           clock'[r] = updated'[t]
                    /\ q.pc \in {"patch.write", "fail.close"} =>
                           task'[t].status # "completed"
  <2>1. at \in Nat
    BY ReadingsPast DEF IInv, TypeOK
  <2>2. ASSUME NEW x \in Req, x # r, NEW p, NEW u, p = req'[x], u = p.task
        PROVE  /\ p.pc \in {"heartbeat.read", "heartbeat.write"} =>
                      \A e \in EndTimes(u)' : e <= p.at
               /\ p.pc = "heartbeat.write" => p.attempt \in Open(u)'
               /\ p.pc = "complete.write" => \A e \in EndTimes(u)' : e <= clock'[x]
               /\ p.pc = "complete.close" /\ task'[u].status = "completed" =>
                      clock'[x] = updated'[u]
               /\ p.pc \in {"patch.write", "fail.close"} => task'[u].status # "completed"
    <3>1. p = req[x]
      BY <2>2, HandlerTimes DEF Moves
    <3> QED
      BY <2>1, <2>2, <3>1, OthersDated
  <2> QED
    BY <2>2 DEF HandlersDated, EndsPast
<1>1. at \in Nat /\ now \in Nat /\ (req[r].pc = "idle" => at = now)
  BY ReadingsPast DEF IInv, TypeOK
<1>2. q.pc \notin {"idle", "lease.select", "classify.insert"} => t \in Task
  BY DEF IInv, TypeOK, Existing, Unread, Informed
<1>3. q.pc \notin {"idle", "event"} => clock'[r] = at
  BY DEF Dated, DatesInv, MetricsTypeOK
<1>4. Moves(r)
  BY HandlerTimes
<1>5. q = req[r] \/ Move(r, q) \/ q.pc = "event"
  BY HandlerMoves DEF Next
<1>6. ASSUME t \in Task, task'[t].status = "completed"
      PROVE  task[t].status = "completed" \/ (req[r].pc = "complete.write" /\ q.pc = "complete.close")
  BY <1>6, WriterSteps, WrittenStatus
<1>7. ASSUME q.pc \in {"heartbeat.read", "heartbeat.write", "complete.write"}
      PROVE  t \in Task /\ EndTimes(t)' = EndTimes(t) /\ Open(t)' = Open(t)
  <2>1. req[r].pc \in {"idle", "heartbeat.read"} /\ t \in Task
    BY <1>2, <1>4, <1>7 DEF Moves
  <2> QED
    BY <1>1, <2>1, EndTimesStep DEF LeaseCommit, Closing
<1>11. CASE q.pc \in {"heartbeat.read", "complete.write"}
  <2>1. req[r].pc = "idle"
    BY <1>4, <1>11 DEF Moves
  <2>2. \A e \in EndTimes(t) : e <= now
    BY <1>7, <1>11, EndTimesPast DEF EndsPast
  <2>3. q.pc = "heartbeat.read" => q.at = now
    BY <1>4 DEF Moves
  <2> QED
    BY <1>1, <1>3, <1>7, <1>11, <2>1, <2>2, <2>3
<1>12. CASE q.pc = "heartbeat.write"
  <2>1. req[r].pc = "heartbeat.read" /\ t = req[r].task /\ q.at = req[r].at
    BY <1>4, <1>12 DEF Moves
  <2>2. IsTop(t, q.attempt)
    BY <1>5, <1>12, <2>1 DEF Move
  <2>3. \A e \in EndTimes(t) : e <= q.at
    BY <2>1 DEF HandlersDated, EndsPast
  <2> QED
    BY <1>7, <1>12, <2>2, <2>3 DEF IsTop
<1>8. CASE q.pc = "complete.close"
  <2>1. req[r].pc = "complete.write" /\ req[r].task = t /\ t \in Task /\ q # Idle
    BY <1>2, <1>4, <1>8 DEF Moves, Idle
  <2>2. Writes(r, t)
    BY <2>1 DEF Writes, Writing
  <2> QED
    BY <1>3, <1>8, <2>1, <2>2 DEF Dated
<1>9. CASE q.pc = "patch.write"
  <2>1. t \in Task
    BY <1>2, <1>9
  <2>2. task[t].status # "completed"
    BY <1>5, <1>9 DEF Move, Editable, HandlersDated
  <2> QED
    BY <1>6, <1>9, <2>1, <2>2
<1>10. CASE q.pc = "fail.close"
  <2>1. req[r].pc = "fail.write" /\ req[r].task = t /\ t \in Task /\ q # Idle
    BY <1>2, <1>4, <1>10 DEF Moves, Idle
  <2>2. Writes(r, t)
    BY <2>1 DEF Writes, Writing
  <2>3. task'[t].status \in {"cancelled", "leased", "queued", "failed"}
    BY <2>1, <2>2, WrittenStatus
  <2> QED
    BY <1>10, <2>3
<1> QED
  BY <1>8, <1>9, <1>10, <1>11, <1>12

\* The loop completes nothing, and stamps what it writes only.
LEMMA LoopStatus ==
    ASSUME IInv, ExpiryLoop, LoopDated, NEW t \in Task, task'[t].status = "completed"
    PROVE  task[t].status = "completed" /\ updated'[t] = updated[t]
<1>1. task \in [Task -> Rows] /\ loop \in Loops
  BY DEF IInv, TypeOK
<1>2. ASSUME ~(loop.pc = "batch" /\ loop'.pc = "timed_out" /\ loop'.task = t)
      PROVE  updated'[t] = updated[t]
  BY <1>2 DEF LoopDated
<1>3. ASSUME NEW u \in Task, LoopUpdate(u)
      PROVE  task[t].status = "completed" /\ updated'[t] = updated[t]
  <2> DEFINE row == IF u \in loop.again THEN Requeued(task[u], loop.at)
                    ELSE Ended(task[u], "timed_out")
  <2>1. row.status \in {"queued", "timed_out"}
    BY <1>1, RowUnleased
  <2>2. Row(u, row) /\ loop'.task = u
    BY <1>1, <1>3 DEF LoopUpdate, Loops
  <2> HIDE DEF row
  <2>3. t # u
    BY <1>1, <2>1, <2>2 DEF Row
  <2>4. task'[t] = task[t]
    BY <1>1, <2>2, <2>3 DEF Row
  <2> QED
    BY <1>2, <2>2, <2>3, <2>4
<1>4. \A b : Rest(b).pc \in {"idle", "batch"}
  BY <1>1 DEF Rest, LoopIdle, Loops
<1>5. CASE LoopScan \/ \E u \in Task : LoopSkip(u)
  <2>1. task' = task /\ loop'.pc # "timed_out"
    BY <1>4, <1>5 DEF LoopScan, LoopSkip, LoopIdle, db
  <2> QED
    BY <1>2, <2>1
<1>6. CASE LoopTimedOut \/ LoopRetried
  BY <1>2, <1>6 DEF LoopTimedOut, LoopRetried
<1> QED
  BY <1>3, <1>5, <1>6 DEF ExpiryLoop

LEMMA CompletionKept ==
    ASSUME IInv, IInv', ReportsApart, DatesInv, OpenHeld, FreshChoice,
           CompletionDated, HandlersDated, [MetricsNext]_metricsVars
    PROVE  CompletionDated' /\ HandlersDated'
<1>1. CASE \E r \in Req : Handler(r) /\ \E at \in Readings(r) : Dated(r, at)
  BY <1>1, CompletionDatedByHandler, HandlersDatedByHandler
<1>2. ASSUME attempts' = attempts, span' = span, clock' = clock, req' = req,
             \A t \in Task : task'[t].status = "completed" =>
                 task[t].status = "completed" /\ updated'[t] = updated[t]
      PROVE  CompletionDated' /\ HandlersDated'
  <2>1. \A t : EndTimes(t)' = EndTimes(t) /\ Open(t)' = Open(t)
    BY <1>2 DEF EndTimes, Open
  <2>2. \A r \in Req : req[r].pc \in {"patch.write", "fail.close", "complete.close"} =>
            req[r].task \in Task
    BY DEF IInv, TypeOK, Existing, Unread
  <2> QED
    BY <1>2, <2>1, <2>2 DEF CompletionDated, HandlersDated, EndsPast
<1>3. CASE ExpiryLoop /\ LoopDated
  <2>1. req' = req /\ attempts' = attempts /\ span' = span /\ clock' = clock
    BY <1>3, LoopTimes DEF LoopDated, DatesInv, TimesPast
  <2> QED
    BY <1>2, <1>3, <2>1, LoopStatus
<1>4. CASE Crash /\ clock' = [r \in Req |-> 0] /\ UNCHANGED <<updated, span>>
  <2>1. /\ attempts' = attempts /\ span' = span /\ updated' = updated /\ task' = task
        /\ \A r \in Req : req'[r].pc = "idle"
    BY <1>4 DEF Crash, db, Idle
  <2>2. \A t : EndTimes(t)' = EndTimes(t) /\ Open(t)' = Open(t)
    BY <2>1 DEF EndTimes, Open
  <2> QED
    BY <2>1, <2>2 DEF CompletionDated, HandlersDated, EndsPast
<1>6. ASSUME NEW r \in Req, Abort(r), Undated(r) PROVE CompletionDated' /\ HandlersDated'
  <2>1. /\ attempts' = attempts /\ span' = span /\ updated' = updated /\ task' = task
        /\ \A x \in Req : req'[x].pc = "idle" \/ (req'[x] = req[x] /\ clock'[x] = clock[x])
    <3>1. req \in [Req -> Reqs] /\ clock \in [Req -> 0 .. now] /\ Idle.pc = "idle"
      BY DEF IInv, TypeOK, DatesInv, MetricsTypeOK, Idle
    <3> QED
      BY <1>6, <3>1 DEF Abort, Undated, Done, Goto, db
  <2>2. \A t : EndTimes(t)' = EndTimes(t) /\ Open(t)' = Open(t)
    BY <2>1 DEF EndTimes, Open
  <2>3. CompletionDated'
    BY <2>1, <2>2 DEF CompletionDated, EndsPast
  <2>4. HandlersDated'
    BY <2>1, <2>2 DEF HandlersDated, EndsPast
  <2> QED
    BY <2>3, <2>4
<1>5. CASE (Tick /\ UNCHANGED dates) \/ UNCHANGED metricsVars
  BY <1>2, <1>5 DEF Tick, db, dates, metricsVars, vars
<1> QED
  BY <1>1, <1>3, <1>4, <1>5, <1>6 DEF MetricsNext

\* FR-23: the throughput counts a task from its completion on for as long as the
\* window is wide, and no longer unless an attempt older than the one that
\* completed it still sends heartbeats; while no two reports or edits of one task
\* overlap.
THEOREM ThroughputsDated == MetricsSpec /\ []ReportsApart => []ThroughputDated
<1>1. MetricsInit => CompletionDated /\ HandlersDated
  BY DEF MetricsInit, Init, NoTask, Idle, CompletionDated, HandlersDated
<1>2. MetricsSpec => []FreshChoice
  BY MetricsQueue, FreshChoiceAlways
<1>3. MetricsSpec /\ []ReportsApart => [](CompletionDated /\ HandlersDated)
  BY <1>1, <1>2, CompletionKept, OpenHeldAlways, ReportsAnswersApart, MetricsIInv, DatesAlways, PTL
  DEF MetricsSpec
<1>4. IInv /\ DatesInv /\ CompletionDated => ThroughputDated
  <2> SUFFICES ASSUME IInv, DatesInv, CompletionDated, NEW t \in Task,
                      task[t].status = "completed", NEW at \in 0 .. now
               PROVE  /\ \A e \in EndTimes(t) : e >= at - TenMinutes => t \in Throughput(at)
                      /\ Open(t) = {} /\ t \in Throughput(at) =>
                             \E e \in EndTimes(t) : e >= at - TenMinutes
    BY DEF ThroughputDated
  <2>1. now \in Nat /\ updated[t] \in 0 .. now /\ at - TenMinutes \in Int
    BY WindowsAssumption DEF IInv, TypeOK, DatesInv, MetricsTypeOK
  <2>2. EndsPast(t, updated[t]) /\ (Open(t) = {} => updated[t] \in EndTimes(t))
    BY DEF CompletionDated
  <2>3. \A e \in EndTimes(t) : e \in Nat
    BY <2>1 DEF EndTimes, DatesInv, SpansTyped, MetricsTypeOK, Spans, Option
  <2>4. ASSUME NEW e \in EndTimes(t), e >= at - TenMinutes PROVE updated[t] >= at - TenMinutes
    BY <2>1, <2>2, <2>3, <2>4 DEF EndsPast
  <2> QED
    BY <2>2, <2>4 DEF Throughput
<1> QED
  BY <1>3, <1>4, MetricsIInv, DatesAlways, PTL

-----------------------------------------------------------------------------
(* Counts *)

CountIn(S) == Cardinality({t \in Existing : task[t].status \in S})

LEMMA SumUnfolds ==
    MapThenSumSet(StatusCount, Reported) =
              LET iter[s \in SUBSET Reported] ==
                    IF s = {} THEN 0
                    ELSE LET x == CHOOSE x \in s : TRUE
                         IN StatusCount(x) + iter[s \ {x}]
              IN iter[Reported]
  BY DEF MapThenSumSet, MapThenFoldSet

LEMMA CountSplits ==
    ASSUME IsFiniteSet(Existing), NEW s \in SUBSET Reported, NEW x \in s
    PROVE  CountIn(s) = StatusCount(x) + CountIn(s \ {x})
<1> DEFINE A == {t \in Existing : task[t].status \in s}
           B == {t \in Existing : task[t].status \in s \ {x}}
           C == {t \in Task : task[t].status = x}
<1>1. A = B \cup C /\ B \cap C = {} /\ C \subseteq Existing
  BY DEF Reported, Existing
<1>2. IsFiniteSet(B) /\ IsFiniteSet(C)
  BY <1>1, FS_Subset
<1>3. Cardinality(A) = Cardinality(B) + Cardinality(C) - 0
  BY <1>1, <1>2, FS_Union, FS_EmptySet
<1>4. Cardinality(B) \in Nat /\ Cardinality(C) \in Nat
  BY <1>2, FS_CardinalityType
<1> HIDE DEF A, B, C
<1>5. Cardinality(A) = Cardinality(C) + Cardinality(B)
  BY <1>3, <1>4
<1> QED
  BY <1>5 DEF A, B, C, CountIn, StatusCount

LEMMA SmallestExists ==
    ASSUME NEW N \in SUBSET Nat, N # {}
    PROVE  \E n \in N : \A m \in N : n <= m
<1> DEFINE R == OpToRel(<, Nat)
<1>1. IsWellFoundedOn(R, Nat)
  BY NatLessThanWellFounded
<1>2. \A m, n \in Nat : m < n => <<m, n>> \in R
  BY DEF OpToRel
<1> HIDE DEF R
<1>3. PICK n \in N : \A m \in N : ~ (<<m, n>> \in R)
  BY <1>1, WFMin
<1>4. ASSUME NEW m \in N PROVE n <= m
  <2>1. m \in Nat /\ n \in Nat /\ ~ (m < n)
    BY <1>2, <1>3
  <2> QED
    BY <2>1
<1> QED
  BY <1>4

LEMMA ReportedFinite == IsFiniteSet(Reported)
<1>1. IsFiniteSet({"queued"} \cup {"leased"} \cup {"running"})
  BY FS_Singleton, FS_AddElement
<1>2. IsFiniteSet({"queued"} \cup {"leased"} \cup {"running"} \cup {"completed"} \cup {"failed"})
  BY <1>1, FS_AddElement
<1>3. IsFiniteSet({"queued"} \cup {"leased"} \cup {"running"} \cup {"completed"} \cup {"failed"}
                  \cup {"timed_out"} \cup {"cancelled"})
  BY <1>2, FS_AddElement
<1> QED
  BY <1>3 DEF Reported

\* The sum over a set of statuses is the number of rows that have one of them.
LEMMA SumCounts ==
    ASSUME IsFiniteSet(Existing)
    PROVE  MapThenSumSet(StatusCount, Reported) = CountIn(Reported)
<1> DEFINE g == [s \in SUBSET Reported |-> CountIn(s)]
           Body(f, s) == IF s = {} THEN 0
                         ELSE LET x == CHOOSE x \in s : TRUE
                              IN StatusCount(x) + f[s \ {x}]
           Solves(f) == f = [s \in SUBSET Reported |-> Body(f, s)]
<1>1. MapThenSumSet(StatusCount, Reported) = (CHOOSE f : Solves(f))[Reported]
  BY SumUnfolds
<1>2. Solves(g)
  <2>1. ASSUME NEW s \in SUBSET Reported PROVE CountIn(s) = Body(g, s)
    <3>1. CASE s = {}
      <4>1. {t \in Existing : task[t].status \in s} = {}
        BY <3>1
      <4> QED
        BY <3>1, <4>1, FS_EmptySet DEF CountIn
    <3>2. CASE s # {}
      <4> DEFINE x == CHOOSE x \in s : TRUE
      <4>1. x \in s /\ s \ {x} \in SUBSET Reported
        BY <3>2
      <4>2. CountIn(s) = StatusCount(x) + CountIn(s \ {x})
        BY <4>1, CountSplits
      <4> QED
        BY <3>2, <4>1, <4>2
    <3> QED
      BY <3>1, <3>2
  <2> QED
    BY <2>1
<1>3. ASSUME NEW f, Solves(f) PROVE f = g
  <2> DEFINE D == {s \in SUBSET Reported : f[s] # g[s]}
             N == {Cardinality(s) : s \in D}
  <2>2. \A s \in SUBSET Reported : IsFiniteSet(s) /\ Cardinality(s) \in Nat
    BY ReportedFinite, FS_Subset, FS_CardinalityType
  <2>3. \A s \in SUBSET Reported : f[s] = Body(f, s) /\ g[s] = Body(g, s)
    BY <1>2, <1>3
  <2>4. D = {}
    <3> SUFFICES ASSUME D # {} PROVE FALSE
      OBVIOUS
    <3>1. N \subseteq Nat /\ N # {}
      BY <2>2
    <3>3. PICK n \in N : \A m \in N : n <= m
      BY <3>1, SmallestExists
    <3>4. PICK s \in D : n = Cardinality(s)
      OBVIOUS
    <3>5. s # {}
      BY <2>3
    <3> DEFINE x == CHOOSE x \in s : TRUE
    <3>6. x \in s /\ s \ {x} \in SUBSET Reported
      BY <3>5
    <3>7. Cardinality(s \ {x}) < Cardinality(s)
      <4> HIDE DEF x
      <4>1. Cardinality(s \ {x}) = Cardinality(s) - 1
        BY <2>2, <3>6, FS_RemoveElement
      <4> QED
        BY <2>2, <4>1
    <3>8. s \ {x} \notin D
      <4>1. Cardinality(s) \in Nat /\ Cardinality(s \ {x}) \in Nat
        BY <2>2, <3>6
      <4>2. s \ {x} \in D => Cardinality(s) <= Cardinality(s \ {x})
        BY <3>3, <3>4
      <4> QED
        BY <3>7, <4>1, <4>2
    <3>9. f[s \ {x}] = g[s \ {x}]
      BY <3>6, <3>8
    <3> QED
      BY <2>3, <3>5, <3>9
  <2> QED
    BY <1>2, <1>3, <2>4
<1>4. (CHOOSE f : Solves(f)) = g
  <2> HIDE DEF Solves, g
  <2> QED
    BY <1>2, <1>3
<1> QED
  BY <1>1, <1>4

LEMMA ExistingFinite == Spec => []IsFiniteSet(Existing)
<1>1. Init => IsFiniteSet(Existing)
  <2> SUFFICES ASSUME Init PROVE Existing = {}
    BY FS_EmptySet
  <2> QED
    BY DEF Init, Existing, NoTask
<1>2. IInv /\ IsFiniteSet(Existing) /\ [Next]_vars => IsFiniteSet(Existing)'
  <2> SUFFICES ASSUME IInv, IsFiniteSet(Existing), [Next]_vars PROVE IsFiniteSet(Existing')
    OBVIOUS
  <2>1. PICK v : \A u \in Task : u # v => task'[u] = task[u]
    BY OneRow
  <2>2. Existing' \subseteq Existing \cup {v}
    BY <2>1 DEF Existing
  <2> QED
    BY <2>2, FS_AddElement, FS_Subset
<1> QED
  BY <1>1, <1>2, Invariance, PTL DEF Spec

\* FR-23: whatever the handlers and the loop do, each task there is stands in
\* exactly one of the counts of the report.
THEOREM CountsCoverTasks == MetricsSpec => []CountsCover
<1>1. IInv /\ IsFiniteSet(Existing) => CountsCover
  <2> SUFFICES ASSUME IInv, IsFiniteSet(Existing) PROVE CountsCover
    OBVIOUS
  <2>1. {t \in Existing : task[t].status \in Reported} = Existing
    BY DEF IInv, TypeOK, Rows, Status, Terminal, Reported, Existing
  <2> QED
    BY <2>1, SumCounts DEF CountsCover, CountIn
<1> QED
  BY <1>1, ExistingFinite, MetricsIInv, MetricsQueue, PTL
=============================================================================
