\* PostgreSQL, callers with a deadline, any statement may fail.
SPECIFICATION Spec
CONSTANTS
    r1 = r1
    r2 = r2
    r3 = r3
    Runs = {r1, r2}
    None = None
    Dialect = "postgres"
    HostOf <- MCHostOf
    TopVersion = 2
    Latest <- MCLatest
    StepArgs = {0, 2}
    Irreversible = {}
    HasDeadline = TRUE
    CtxTimeout = 1
    StmtDelay = 1
    StaleTimeout = 2
    HeartbeatInterval = 1
    RenewTimeout = 0
    FaultyDb = TRUE
INVARIANTS
    TypeOK
    ActiveRunOwnsLease
    PlanIsCurrent
    AppliedIsPrefix
PROPERTIES
    OnlyInformedRunsWrite
    ImplementsSerial
CHECK_DEADLOCK FALSE
