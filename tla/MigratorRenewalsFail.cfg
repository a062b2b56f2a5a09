\* PostgreSQL without deadlines: the heartbeat tolerates failing renewals for staleLockTimeout since its last answer.
SPECIFICATION PromptSpec
CONSTANTS
    r1 = r1
    r2 = r2
    r3 = r3
    Runs = {r1, r2}
    None = None
    Dialect = "postgres"
    HostOf <- MCHostOf
    TopVersion = 2
    Latest <- MCLatest
    StepArgs = {0, 2}
    Irreversible = {}
    HasDeadline = FALSE
    CtxTimeout = 0
    StmtDelay = 0
    StaleTimeout = 2
    HeartbeatInterval = 1
    RenewTimeout = 1
    FaultyDb = TRUE
INVARIANTS
    ExclusiveMigration
CHECK_DEADLOCK FALSE
