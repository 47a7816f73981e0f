---------------------------- MODULE LeaseLedger ----------------------------
(***************************************************************************)
(* What the queue promises of one row, whatever happens around it: a task  *)
(* once created stays in the table; it becomes leased only by a grant,     *)
(* which finds it queued and issues the next fencing token; it is          *)
(* completed, failed or timed out only after a grant; and what is settled  *)
(* in whatever way may be queued again, without a grant being counted.     *)
(* Handlers, attempts, the clock, snapshots and failures are not part of   *)
(* this view: TaskQueue implements it with                                 *)
(*   status <- the status column     issued <- the number of attempts      *)
(***************************************************************************)
EXTENDS Naturals

CONSTANT Task

VARIABLES status, issued

ledger == <<status, issued>>

Init == status = [t \in Task |-> "absent"] /\ issued = [t \in Task |-> 0]

Create(t) ==
    /\ status[t] = "absent"
    /\ status' = [status EXCEPT ![t] = "queued"]
    /\ UNCHANGED issued

Grant(t) ==
    /\ status[t] = "queued"
    /\ status' = [status EXCEPT ![t] = "leased"]
    /\ issued' = [issued EXCEPT ![t] = @ + 1]

\* The outcome of some attempt, or of a lease that ran out.
Settle(t) ==
    /\ issued[t] > 0
    /\ \E s \in {"completed", "failed", "timed_out"} : status' = [status EXCEPT ![t] = s]
    /\ UNCHANGED issued

\* After a failure or an expiry, or with a new classification.
Requeue(t) ==
    /\ status[t] # "absent"
    /\ status' = [status EXCEPT ![t] = "queued"]
    /\ UNCHANGED issued

Cancel(t) ==
    /\ status[t] # "absent"
    /\ status' = [status EXCEPT ![t] = "cancelled"]
    /\ UNCHANGED issued

Next == \E t \in Task : Create(t) \/ Grant(t) \/ Settle(t) \/ Requeue(t) \/ Cancel(t)

Spec == Init /\ [][Next]_ledger
=============================================================================
