------------------------------ MODULE Listing ------------------------------
(***************************************************************************)
(* The lists a client reads a page at a time: GET /api/tasks               *)
(* (handleListTasks in src/internal/api/tasks.go), GET /api/logs           *)
(* (handleQuery in api.go), and the pages /tasks (db/tasks.go,             *)
(* dashboard.go) and /logs (dashboard/logs.go) of the dashboard.           *)
(*                                                                         *)
(* One client walks through one list while others write the table it is    *)
(* read from.  Every request of the walk is one or two statements, each of *)
(* them atomic: COUNT, then the rows between OFFSET and LIMIT.  Rows whose *)
(* ORDER BY columns are equal may come in any order, and in another order  *)
(* in the next statement.  A column a filter compares is known by the      *)
(* value the comparison tells apart.                                       *)
(***************************************************************************)
EXTENDS Integers, FiniteSets

CONSTANTS
    Row,            \* ids of rows
    Col,            \* the columns filters compare: status, domain, level, ...
    Prio,           \* priorities of tasks
    Stamp,          \* created_at: an instant and the zone it is written in
    Views,          \* the lists clients walk through
    FiltersOf,      \* FiltersOf[v]: the filters of the requests for list v
    Asked,          \* limits clients ask for, 0 when they ask for none
    DefaultLimit,   \* 50 for tasks, 100 for logs
    MaxLimit,       \* 200 for tasks, 1000 for logs
    PageSize,       \* 50 and 100 on the pages of the dashboard
    None            \* no row, or a bound the filter does not have

AllViews == {"tasks", "logs", "taskPage", "logPage"}
OfTasks == {"tasks", "taskPage"}
OfDashboard == {"taskPage", "logPage"}

ASSUME StampAssumption == Stamp \subseteq [utc : Int, zone : Int]
ASSUME PrioAssumption == Prio \subseteq Int /\ 0 \in Prio
ASSUME ViewsAssumption == Views \subseteq AllViews
Filters == [cols : SUBSET Col, least : Int \cup {None},
            since : [utc : Int, zone : Int] \cup {None},
            until : [utc : Int, zone : Int] \cup {None}]
ASSUME FiltersAssumption == \A v \in Views : FiltersOf[v] \subseteq Filters
ASSUME LimitsAssumption == /\ Asked \subseteq Int
                           /\ DefaultLimit \in Nat \ {0}
                           /\ MaxLimit \in Nat \ {0}
                           /\ PageSize \in Nat \ {0}
ASSUME RowAssumption == IsFiniteSet(Row)
ASSUME NoneAssumption == None \notin Int /\ None \notin [prio : Prio, at : Stamp, col : Col]

VARIABLES
    view,   \* the list of this walk
    table,  \* the table it is read from
    walk    \* the client, and its request in progress

vars == <<view, table, walk>>

-----------------------------------------------------------------------------
(* created_at, a string *)

\* RFC 3339 writes the local time first, then +hh:mm, -hh:mm or Z, which sort
\* in this order.
Local(s) == s.utc + s.zone
Suffix(z) == IF z = 0 THEN 48 ELSE IF z > 0 THEN z ELSE 24 - z
Earlier(a, b) == \/ Local(a) < Local(b)
                 \/ Local(a) = Local(b) /\ Suffix(a.zone) < Suffix(b.zone)

\* Variant: the bound is compared as the client wrote it.
AsWritten(s) == s
\* t.UTC().Format(time.RFC3339)
InUTC(s) == [s EXCEPT !.zone = 0]

-----------------------------------------------------------------------------
(* The statements *)

\* WHERE
Admits(f, row) ==
    /\ row # None
    /\ row.col \in f.cols
    /\ f.least = None \/ row.prio >= f.least
    /\ f.since = None \/ ~Earlier(row.at, InUTC(f.since))
    /\ f.until = None \/ ~Earlier(InUTC(f.until), row.at)
Matching(tb, f) == {x \in Row : Admits(f, tb[x])}

\* ORDER BY: priority DESC, created_at ASC; created_at ASC; created_at DESC.
Before(a, b) ==
    CASE view \in OfTasks -> a.prio > b.prio \/ (a.prio = b.prio /\ Earlier(a.at, b.at))
      [] view = "logs" -> Earlier(a.at, b.at)
      [] OTHER -> Earlier(b.at, a.at)
Ahead(tb, f, x) == {y \in Matching(tb, f) : Before(tb[y], tb[x])}
Ties(tb, f, x) == {y \in Matching(tb, f) : ~Before(tb[y], tb[x]) /\ ~Before(tb[x], tb[y])}

Least(a, b) == IF a < b THEN a ELSE b
Greatest(a, b) == IF a > b THEN a ELSE b
Common(a, b, c, d) == Greatest(Least(b, d) - Greatest(a, c), 0)

\* LIMIT n OFFSET o: of each group of equal rows as many as it has places
\* between o and o + n.
IsPage(page, o, n) ==
    LET all == Matching(table, walk.filter) IN
    /\ page \subseteq all
    /\ Cardinality(page) = Common(0, Cardinality(all), o, o + n)
    /\ \A x \in all :
         LET first == Cardinality(Ahead(table, walk.filter, x))
             ties == Ties(table, walk.filter, x)
         IN  Cardinality(page \cap ties) = Common(first, first + Cardinality(ties), o, o + n)

-----------------------------------------------------------------------------
(* Parameters of a request *)

Limit(l) == IF view \in OfDashboard THEN PageSize
            ELSE IF l <= 0 THEN DefaultLimit ELSE Least(l, MaxLimit)

\* n is the parameter offset of the API, page of the dashboard.
Offset(n) == IF view \in OfDashboard THEN (Greatest(n, 1) - 1) * PageSize ELSE Greatest(n, 0)

\* Variant: the last page is counted only when it is full.
TotalPagesFloor(total) == total \div PageSize
TotalPages(total) == (total + PageSize - 1) \div PageSize

\* /logs reads one row more, to learn whether there is a next page.
Fetched(l) == IF view = "logPage" THEN PageSize + 1 ELSE Limit(l)

\* Variant: the row read to look ahead is shown.
ShownAll(read) == {read}
\* logs[:pageSize]
Shown(read) == IF Cardinality(read) > Limit(walk.limit)
               THEN {p \in SUBSET read : IsPage(p, Offset(walk.n), Limit(walk.limit))}
               ELSE {read}

\* The links "Next" of /logs keep the filter; those of /tasks have only a page.
NoFilter == [cols |-> Col, least |-> None, since |-> None, until |-> None]
NextFilter == IF view = "taskPage" THEN NoFilter ELSE walk.filter

\* What the client asks for next, and whether it goes on.
NextN(page) == IF view \in OfDashboard THEN Greatest(walk.n, 1) + 1
               ELSE Offset(walk.n) + Cardinality(page)
GoesOn(page, read) ==
    CASE view = "taskPage" -> Greatest(walk.n, 1) < TotalPages(walk.total)
      [] view = "logPage" -> Cardinality(read) > PageSize
      [] OTHER -> page # {} /\ NextN(page) < walk.total

-----------------------------------------------------------------------------
(* What a walk may be held to: steady are rows that were in the list when it *)
(* began and could not be missed since; still are rows that were served and  *)
(* could not come again since.                                               *)

Alone(tb, f, x) == x \in Matching(tb, f) /\ Ties(tb, f, x) = {x}
NoneLeft(tb, f, x) == Ahead(table, walk.filter, x) \subseteq Ahead(tb, f, x)
NoneCame(tb, f, x) == Ahead(tb, f, x) \subseteq Ahead(table, walk.filter, x)

\* The table becomes tb, or the filter f: rows stay steady while they are listed
\* with a key of their own, no row ahead of them leaves its place, and none comes
\* in ahead of them between the COUNT and the SELECT of one request.
Steady(tb, f) ==
    {x \in walk.steady : /\ Alone(tb, f, x) /\ NoneLeft(tb, f, x)
                         /\ walk.pc = "page" => NoneCame(tb, f, x)}
Still(tb, f) == {x \in walk.still : Alone(tb, f, x) /\ NoneCame(tb, f, x)}

\* The rows a filter means: instants are compared, not strings.
Wants(f, row) ==
    /\ row # None
    /\ row.col \in f.cols
    /\ f.least = None \/ row.prio >= f.least
    /\ f.since = None \/ row.at.utc >= f.since.utc
    /\ f.until = None \/ row.at.utc <= f.until.utc
Wanted(f) == {x \in Row : Wants(f, table[x]) /\ table[x].at.zone = 0}

-----------------------------------------------------------------------------
(* Writers *)

Write(x, row) ==
    LET tb == [table EXCEPT ![x] = row] IN
    /\ table' = tb
    /\ walk' = [walk EXCEPT !.steady = Steady(tb, walk.filter),
                            !.still = Still(tb, walk.filter)]
    /\ UNCHANGED view

\* Variant: a task is stamped in the zone of the server.
InsertLocal(x, p, s, c) ==
    /\ table[x] = None
    /\ view \in OfTasks \/ p = 0
    /\ Write(x, [prio |-> p, at |-> s, col |-> c])

\* A new task, or a log line.  The server writes its own time in UTC, and reads
\* the clock before the INSERT; a client's timestamp is stored as it came.
Insert(x, p, s, c) ==
    /\ table[x] = None
    /\ IF view \in OfTasks THEN s.zone = 0 ELSE p = 0
    /\ Write(x, [prio |-> p, at |-> s, col |-> c])

\* Whatever changes a task: its status, its priority, its other columns.
Change(x, p, c) ==
    /\ view \in OfTasks /\ table[x] # None
    /\ Write(x, [table[x] EXCEPT !.prio = p, !.col = c])

-----------------------------------------------------------------------------
(* The walk *)

FirstStatement == IF view = "logPage" THEN "select" ELSE "count"

\* A client begins at the first row.
Begin(f, l, n) ==
    /\ walk.pc = "idle"
    /\ n <= IF view \in OfDashboard THEN 1 ELSE 0
    /\ walk' = [walk EXCEPT !.pc = FirstStatement, !.asked = f, !.filter = f,
                            !.limit = l, !.n = n,
                            !.steady = {x \in Wanted(f) : Alone(table, f, x)}]
    /\ UNCHANGED <<view, table>>

Count ==
    /\ walk.pc = "count"
    /\ walk' = [walk EXCEPT !.pc = "page",
                            !.total = Cardinality(Matching(table, walk.filter))]
    /\ UNCHANGED <<view, table>>

\* ListTasks does not ask for rows.Err(): a page of /tasks whose rows stop coming
\* is sent as far as they came, as if it were complete.
Replies(page) ==
    IF view = "taskPage"
    THEN {p \in SUBSET page : \E m \in 0..PageSize : IsPage(p, Offset(walk.n), m)}
    ELSE {page}

\* What a reply leaves out of its page is no longer held to be found.
Serve(read, page, reply) ==
    LET on == GoesOn(page, read)
        f == IF on THEN NextFilter ELSE walk.filter
        fresh == {x \in reply : Alone(table, walk.filter, x)}
    IN
    /\ walk.pc \in {"page", "select"}
    /\ IsPage(read, Offset(walk.n), Fetched(walk.limit)) /\ page \in Shown(read)
    /\ reply \in Replies(page)
    /\ walk' = [walk EXCEPT
                  !.pc = IF on THEN FirstStatement ELSE "end",
                  !.n = NextN(page),
                  !.filter = f,
                  !.seen = @ \cup reply,
                  !.again = @ \cup (reply \cap walk.still),
                  !.steady = {x \in @ \ (page \ reply) : Alone(table, f, x)},
                  !.still = {x \in @ \cup fresh : Alone(table, f, x) /\ NoneCame(table, f, x)}]
    /\ UNCHANGED <<view, table>>

\* 500: the client sends the same request again.
Retry ==
    /\ walk.pc = "page"
    /\ walk' = [walk EXCEPT !.pc = "count"]
    /\ UNCHANGED <<view, table>>

Init ==
    /\ view \in Views
    /\ table = [x \in Row |-> None]
    /\ walk = [pc |-> "idle", asked |-> NoFilter, filter |-> NoFilter, limit |-> 0, n |-> 0,
               total |-> 0, seen |-> {}, steady |-> {}, still |-> {}, again |-> {}]

Next ==
    \/ \E x \in Row, p \in Prio, s \in Stamp, c \in Col : Insert(x, p, s, c)
    \/ \E x \in Row, p \in Prio, c \in Col : Change(x, p, c)
    \/ \E f \in FiltersOf[view], l \in Asked, n \in 0..1 : Begin(f, l, n)
    \/ Count
    \/ \E read \in SUBSET Row : \E page \in SUBSET read : \E reply \in SUBSET page :
           Serve(read, page, reply)
    \/ Retry

Spec == Init /\ [][Next]_vars

-----------------------------------------------------------------------------
Walks == [pc : {"idle", "count", "page", "select", "end"}, asked : Filters,
          filter : Filters, limit : Int, n : Int, total : Nat, seen : SUBSET Row,
          steady : SUBSET Row, still : SUBSET Row, again : SUBSET Row]

\* The variables hold what they may hold; what the server stamps is in UTC.
TypeOK ==
    /\ view \in Views
    /\ table \in [Row -> [prio : Prio, at : Stamp, col : Col] \cup {None}]
    /\ view \in OfTasks => \A x \in Row : table[x] # None => table[x].at.zone = 0
    /\ walk \in Walks
    /\ walk.pc = "select" <=> view = "logPage" /\ walk.pc \notin {"idle", "end"}

\* FR-10, FR-22, FR-24, FR-25: a client that follows the pages to the end has
\* seen every row that was in the list, and written in UTC, when it began, although
\* each page is a statement of its own: it can miss a row only if that row was
\* changed, shares its sort key with another, lost a row ahead of it, was pushed
\* back between the COUNT and the SELECT of one request, or was left out of a page
\* of /tasks whose rows stopped coming.
WalkFinds == walk.pc = "end" => walk.steady \subseteq walk.seen

\* A row is served twice only if another came in ahead of it since, or shares
\* its sort key.
ServedOnce == walk.again = {}

\* The pages show what the client asked for, whatever zone the client wrote
\* since and until in.  Rows stamped in another zone than UTC may be let through or
\* held back wrongly.  "Next" on /tasks forgets the filter: its second page is one
\* of all tasks (prd/07, View 2: "Filters persist in URL query parameters").
ServesWanted == [][\A x \in walk'.seen \ walk.seen :
    table[x].at.zone = 0 /\ view # "taskPage" => x \in Wanted(walk.asked)]_vars

-----------------------------------------------------------------------------
(* Why they hold *)

\* The place of a row in the list, counted from 0.
Place(x) == Cardinality(Ahead(table, walk.filter, x))

\* The walk has served the steady rows, or they are still to come: at or behind
\* the next offset, and within the total the page was promised by.
SteadyAhead == \A x \in walk.steady :
    /\ Alone(table, walk.filter, x)
    /\ walk.pc \in {"count", "page", "select"} => x \in walk.seen \/ Place(x) >= Offset(walk.n)
    /\ walk.pc = "page" => Place(x) < walk.total

\* The still rows are behind the walk.
StillBehind == \A x \in walk.still :
    /\ Alone(table, walk.filter, x)
    /\ Place(x) < Offset(walk.n)

IInv == /\ TypeOK
        /\ walk.pc = "idle" => walk.still = {}
        /\ view # "taskPage" => walk.filter = walk.asked
        /\ SteadyAhead /\ StillBehind
        /\ WalkFinds /\ ServedOnce
=============================================================================
