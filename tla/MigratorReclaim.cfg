\* SQLite: three processes on one host, no deadline. breakStaleLock reads the owner and clears the row in two statements.
SPECIFICATION PromptSpec
CONSTANTS
    r1 = r1
    r2 = r2
    r3 = r3
    Runs = {r1, r2, r3}
    None = None
    Dialect = "sqlite"
    HostOf <- SameHost
    TopVersion = 1
    Latest <- SameBinary
    StepArgs = {1}
    Irreversible = {}
    HasDeadline = FALSE
    CtxTimeout = 0
    StmtDelay = 0
    StaleTimeout = 1
    HeartbeatInterval = 1
    RenewTimeout = 0
    FaultyDb = FALSE
INVARIANTS
    ActiveRunOwnsLease
CHECK_DEADLOCK FALSE
