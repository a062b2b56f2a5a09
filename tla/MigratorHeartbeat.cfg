\* PostgreSQL without deadlines: renewals that are prompt and do not fail keep the lease.
SPECIFICATION FairSpec
CONSTANTS
    r1 = r1
    r2 = r2
    r3 = r3
    Runs = {r1, r2}
    None = None
    Dialect = "postgres"
    HostOf <- MCHostOf
    TopVersion = 2
    Latest <- MCLatest
    StepArgs = {0, 2}
    Irreversible = {}
    HasDeadline = FALSE
    CtxTimeout = 0
    StmtDelay = 1
    StaleTimeout = 3
    HeartbeatInterval = 1
    RenewTimeout = 1
    FaultyDb = FALSE
    FileVersions = {0, 1, 2}
    FileNames = {a, b}
    MaxFiles = 3
INVARIANTS
    ActiveRunOwnsLease
    FilesAreLoaded
PROPERTIES
    WaiterIsServed
CHECK_DEADLOCK FALSE
