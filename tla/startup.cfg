SPECIFICATION FairSpec
CONSTANTS
    Proc = {p1, p2}
    Req = {q1}
    Versions = 2
    Stmts = 2
    None = None
    MaxInterrupts = 3
CHECK_DEADLOCK FALSE
INVARIANTS TypeOK MigrationsInOrder ServesMigrated
PROPERTIES StartupServes SignalsDrain DrainFinishes ImplementsDeployment
