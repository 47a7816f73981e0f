SPECIFICATION MetricsFairSpec
CONSTANTS
    t1 = t1  t2 = t2  w1 = w1  w2 = w2  r1 = r1  r2 = r2
    n1 = n1  n2 = n2  y1 = y1  y2 = y2  lo = lo  hi = hi
    None = None
    Task = {t1}
    Worker = {w1}
    Req = {r1}
    Title = {n1}
    Context = {}
    Route = {lo}
    Prio <- MCPrio
    Filters <- AnyRoute
    Configs <- Short
    Ops <- ReportOps
    Faults = {"crash", "reported"}
    Recorded <- NoEvents
    MaxTime = 3
    MaxLeases = 4
    Hour = 2
    TenMinutes = 1
CHECK_DEADLOCK FALSE
INVARIANTS MetricsTypeOK CountsCover ThroughputDated AttemptsCapped
PROPERTIES DurationsFixed ExpiredReaped
