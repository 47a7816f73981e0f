----------------------------- MODULE MCListing -----------------------------
(* Instances of Listing for TLC. *)
EXTENDS Listing, TLC

CONSTANTS x1, x2, x3, in, out

UTC(n) == [utc |-> n, zone |-> 0]
\* 2 and 3 o'clock in UTC, and 2 o'clock written in a zone one hour ahead.
MCStamp == {UTC(2), UTC(3), [utc |-> 2, zone |-> 1]}

Listed == [NoFilter EXCEPT !.cols = {in}]
Urgent == [NoFilter EXCEPT !.least = 1]
Recent == [NoFilter EXCEPT !.since = [utc |-> 3, zone |-> -1]]
Old == [NoFilter EXCEPT !.until = UTC(3)]
MCFilters == [v \in Views |-> CASE v = "tasks" -> {Listed, Urgent}
                                [] v = "taskPage" -> {Listed}
                                [] v = "logs" -> {Recent, Old}
                                [] OTHER -> {[NoFilter EXCEPT !.since = UTC(2)], Old}]

RowSymmetry == Permutations(Row)
=============================================================================
