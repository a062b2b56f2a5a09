\* Two registrations of one name and one of another, a pool of two, a login and a rollback of the tables.
SPECIFICATION ScanSpec
CONSTANTS
    ann = ann
    bob = bob
    eve = eve
    l1 = l1
    Requests = {ann, bob, eve}
    Logins = {l1}
    None = None
    NameOf <- MCNameOf
    CredsOf <- MCCredsOf
    PoolSize = 2
    MaxTxRetries = 3
    Asked = {0, 3}
    MaxLimit = 2
    DefaultLimit = 1
    MaxOffset = 2
    CreatedAt <- MCCreatedAt
    IdRank <- MCIdRank
    MaxTerm = 2
    MaxText = 4
INVARIANTS
    TypeOK
    UsersAreWhole
    ScanTypeOK
    ScanMissesNobody
    SearchIsSubstring
PROPERTIES
    ImplementsDirectory
