\* Two registrations of one name that may wait for each other, a rollback of the tables and a login between them, whose token lasts a second and a half.
SPECIFICATION AccessFairSpec
CONSTANTS
    ann = ann
    bob = bob
    eve = eve
    l1 = l1
    Requests = {ann, bob}
    Logins = {l1}
    None = None
    NameOf <- MCNameOf
    CredsOf <- MCCredsOf
    PoolSize = 2
    MaxTxRetries = 3
    Second = 2
    Ttl = 3
    RequestTimeout = 1
    MaxNow = 5
INVARIANTS
    OwnProfileOnly
    TokenLastsItsTime
PROPERTIES
    RegistrationEnds
