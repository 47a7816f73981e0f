SPECIFICATION Spec
CONSTANTS
    t1 = t1  t2 = t2  w1 = w1  w2 = w2  r1 = r1  r2 = r2
    n1 = n1  n2 = n2  y1 = y1  y2 = y2  lo = lo  hi = hi
    None = None
    Task = {t1}
    Worker = {w1, w2}
    Req = {r1, r2}
    Title = {n1}
    Context = {}
    Route = {lo}
    Prio <- MCPrio
    Filters <- AnyRoute
    Configs <- Twice
    Ops <- AnswerOps
    Faults = {}
    Recorded <- AuditEvents
    MaxTime = 2
    MaxLeases = 2
SYMMETRY ReqSymmetry
CHECK_DEADLOCK FALSE
INVARIANTS LeaseBacked LeasedAttemptOpen EventsGrounded EventsComplete DeadlineNear
PROPERTIES OwnerOnly
