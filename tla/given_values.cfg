SPECIFICATION Spec
CONSTANTS
    d1 = d1  d2 = d2
    k1 = k1  k2 = k2  r1 = r1  r2 = r2
    None = None
    Name = {n1}
    Def = {d1}
    Defaults <- OneDefault
    Hard <- MCHard
    Wants <- MCWants
    Workspace = {s1}
    Task = {t1}
    Req = {r1}
    Conn = {k1, k2}
    First = k1
    MaxIdle = 1
    MaxBatch = 1
    Ops <- WorkflowOps
CHECK_DEADLOCK FALSE
PROPERTIES GivenValuesOverride
