---------------------------- MODULE MCTaskQueue ----------------------------
(* Instances of TaskQueue for TLC. *)
EXTENDS TaskQueue, TLC

CONSTANTS t1, t2, w1, w2, r1, r2, n1, n2, y1, y2, lo, hi

MCPrio == [x \in Route |-> IF x = hi THEN 1 ELSE 0]
AnyRoute == {Route}
Either == {Route, {lo}}

\* One attempt, and a second one after a failure or an expiry.
Once == {[vis |-> 1, max |-> 1, backoff |-> 0]}
Twice == {[vis |-> 1, max |-> 2, backoff |-> 0]}
\* A lease that has run out at the next tick.
Short == {[vis |-> 0, max |-> m, backoff |-> 0] : m \in {1, 2}}

AnswerOps == {"create", "lease", "heartbeat", "complete", "fail"}
WorkerOps == {"create", "lease", "complete", "fail"}
QueueOps == {"classify", "lease", "complete", "fail", "cancel"}
ReportOps == AnswerOps \cup {"patch"}
LeaseOps == {"create", "classify", "lease", "patch", "cancel", "fail"}
NoEvents == {}
AuditEvents == {"leased", "completed", "failed", "timed_out", "retried"}

ReqSymmetry == Permutations(Req)
=============================================================================
