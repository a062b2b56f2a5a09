\* Two replicas, two connections, the timeouts of main.go in units of five seconds.
SPECIFICATION FairSpec
CONSTANTS
    Replicas = {r1, r2}
    Requests = {q1, q2}
    None = None
    Dead = Dead
    MigrateTimeout = 3
    StaleAfter = 12
    HeaderTimeout = 1
    ReadTimeout = 3
    RequestTimeout = 2
    ShutdownTimeout = 2
    MaxFaults = 2
INVARIANTS
    TypeOK
    PoolOutlivesHandlers
    EarlyRequestsAreAnswered
PROPERTIES
    ServesAgain
    ConnectionsEnd
