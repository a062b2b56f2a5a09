\* SQLite: three processes on two hosts share the file, no caller has a deadline.
SPECIFICATION Spec
CONSTANTS
    r1 = r1
    r2 = r2
    r3 = r3
    Runs = {r1, r2, r3}
    None = None
    Dialect = "sqlite"
    HostOf <- MCHostOf
    TopVersion = 2
    Latest <- MCLatest
    StepArgs = {1, 2}
    Irreversible = {2}
    HasDeadline = FALSE
    CtxTimeout = 0
    StmtDelay = 0
    StaleTimeout = 1
    HeartbeatInterval = 1
    RenewTimeout = 0
    FaultyDb = TRUE
INVARIANTS
    ActiveRunOwnsLease
PROPERTIES
    ImplementsSerial
CHECK_DEADLOCK FALSE
