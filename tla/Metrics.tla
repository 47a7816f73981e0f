------------------------------ MODULE Metrics ------------------------------
(***************************************************************************)
(* What GET /api/metrics and the page / of the dashboard report            *)
(* (src/internal/api/metrics.go, dashboard/metrics.go): TaskQueue with the *)
(* columns they read besides: updated_at of tasks, started_at and ended_at *)
(* of task_attempts, and the time each handler has read for them.          *)
(*                                                                         *)
(* A report is four queries, one after the other and none of which writes; *)
(* each query is a function of the state it reads.                         *)
(***************************************************************************)
EXTENDS TaskQueue

CONSTANTS
    Hour,       \* the windows of the rates, in ticks of the clock
    TenMinutes

ASSUME WindowsAssumption == TenMinutes \in Nat /\ Hour \in Nat
\* A statement whose error is dropped is not dated here.
ASSUME DatedFaultsAssumption == "ignored" \notin Faults

VARIABLES
    updated,    \* updated[t]: updated_at
    span,       \* span[t][i]: started_at and ended_at of the i-th attempt of t
    clock       \* clock[r]: the time a handler has read, or could have read last

dates == <<updated, span, clock>>
metricsVars == <<vars, dates>>

-----------------------------------------------------------------------------
(* Dates *)

\* Variant: complete leaves updated_at.
WritingButComplete == {"patch.write", "cancel.write", "lease.commit", "heartbeat.write",
                       "fail.write", "classify.update"}
\* The steps of a handler that write the row of its task.  A handler whose
\* statement fails is done; a PATCH that succeeds is done as well, and has set
\* updated_at even if it leaves the other columns as they were.
Writing == {"patch.write", "cancel.write", "lease.commit", "heartbeat.write",
            "complete.write", "fail.write", "classify.update"}
Patches(r) == \E n \in Title, y \in Option(Context), x \in Route : PatchWrite(r, n, y, x)
Writes(r, t) == /\ req[r].pc \in Writing /\ req[r].task = t
                /\ req'[r] # Idle \/ Patches(r)
Inserts(t) == task[t].status = "absent" /\ task'[t].status # "absent"

\* Variant: ended_at is set on the newest attempt.
EndsNewest(r, t, i) == Closing(req[r]) /\ req[r].task = t /\ i = Len(attempts[t])
Ends(r, t, i) == Closing(req[r]) /\ req[r].task = t /\ i = req[r].attempt

\* Lease and heartbeat read the clock before their first query, fail before it
\* reads the counts; the others at some time before they write.  complete and
\* fail close the attempt with the time they wrote on the task.
Readings(r) ==
    CASE req[r].pc \in {"lease.select", "lease.commit", "heartbeat.read", "heartbeat.write",
                        "fail.write"} -> {req[r].at}
      [] req[r].pc \in {"patch.write", "cancel.write", "complete.write", "classify.update"} ->
             clock[r] .. now
      [] Closing(req[r]) -> {clock[r]}
      [] OTHER -> {now}

Dated(r, at) ==
    /\ updated' = [t \in Task |-> IF Writes(r, t) \/ Inserts(t) THEN at ELSE updated[t]]
    /\ span' = [t \in Task |-> [i \in DOMAIN attempts'[t] |->
                  IF i \notin DOMAIN attempts[t] THEN [from |-> at, to |-> None]
                  ELSE IF Ends(r, t, i) THEN [span[t][i] EXCEPT !.to = at]
                  ELSE span[t][i]]]
    /\ clock' = [clock EXCEPT ![r] = IF req'[r].pc \in {"idle", "event"} THEN 0 ELSE at]

\* A failing statement writes no date.
Undated(r) == clock' = [clock EXCEPT ![r] = 0] /\ UNCHANGED <<updated, span>>

\* The loop stamps the time of its scan, and leaves the attempt open.
LoopDated ==
    /\ updated' = [t \in Task |-> IF /\ loop.pc = "batch" /\ loop'.pc = "timed_out"
                                     /\ loop'.task = t THEN loop.at ELSE updated[t]]
    /\ UNCHANGED <<span, clock>>

MetricsInit ==
    /\ Init
    /\ updated = [t \in Task |-> 0]
    /\ span = [t \in Task |-> <<>>]
    /\ clock = [r \in Req |-> 0]

MetricsNext ==
    \/ \E r \in Req : Handler(r) /\ \E at \in Readings(r) : Dated(r, at)
    \/ \E r \in Req : Abort(r) /\ Undated(r)
    \/ ExpiryLoop /\ LoopDated
    \/ Crash /\ clock' = [r \in Req |-> 0] /\ UNCHANGED <<updated, span>>
    \/ Tick /\ UNCHANGED dates

MetricsSpec == MetricsInit /\ [][MetricsNext]_metricsVars
MetricsFairSpec == MetricsSpec /\ Fairness

-----------------------------------------------------------------------------
(* Queries, at time at *)

\* Variant: a status the switch does not know.
ReportedButTimedOut == {"queued", "leased", "running", "completed", "failed", "cancelled"}
\* SELECT status, COUNT( * ) GROUP BY status, and the switch over its rows.
Reported == {"queued", "leased", "running", "completed", "failed", "timed_out", "cancelled"}
StatusCount(s) == Cardinality({t \in Task : task[t].status = s})

\* started_at >= ?
Recent(at) == {m \in Task \X (1 .. MaxLeases) :
    m[2] \in DOMAIN span[m[1]] /\ span[m[1]][m[2]].from >= at - Hour}
Result(m) == attempts[m[1]][m[2]].result

\* status = 'completed' AND updated_at >= ?
Throughput(at) == {t \in Task : task[t].status = "completed" /\ updated[t] >= at - TenMinutes}

\* What the averages are taken of.
Durations(at) == {<<m, span[m[1]][m[2]].to - span[m[1]][m[2]].from>> :
                  m \in {d \in Recent(at) : Result(d) = "completed"}}

-----------------------------------------------------------------------------
\* Every attempt has its dates, and no other: it has ended when its result was
\* written, not before it started and not in the future.
MetricsTypeOK ==
    /\ updated \in [Task -> 0 .. now]
    /\ clock \in [Req -> 0 .. now]
    /\ \A t \in Task :
         /\ DOMAIN span[t] = DOMAIN attempts[t]
         /\ \A i \in DOMAIN span[t] :
              /\ span[t][i].from \in 0 .. now
              /\ IF attempts[t][i].result = None THEN span[t][i].to = None
                 ELSE span[t][i].to \in span[t][i].from .. now

\* FR-23: each task is in one of the counts the report shows, whatever status
\* the handlers and the loop gave it.
CountsCover ==
    Cardinality(Existing) = MapThenSumSet(StatusCount, Reported)

\* FR-23, as long as no two reports or edits of one task overlap: a completed
\* task counts for the throughput at least as long after its completion as the
\* window is wide, and no longer, unless an attempt older than the one that
\* completed it is open: the heartbeats of that attempt still pass, and refresh
\* updated_at.
EndTimes(t) == {span[t][i].to : i \in DOMAIN span[t]} \ {None}
ThroughputDated == \A t \in Task : task[t].status = "completed" =>
    /\ \A at \in 0 .. now, e \in EndTimes(t) : e >= at - TenMinutes => t \in Throughput(at)
    /\ \A at \in 0 .. now : Open(t) = {} /\ t \in Throughput(at) =>
           \E e \in EndTimes(t) : e >= at - TenMinutes

\* FR-23, as long as no two answers about one attempt overlap: what an attempt
\* contributes to the average durations never changes, however often its worker
\* reports it again.
DurationsFixed == [][\A at \in 0 .. MaxTime : Durations(at) \subseteq Durations(at)']_metricsVars
=============================================================================
