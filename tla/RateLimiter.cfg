\* Two thirds of a token per second, bursts of two; a sweep every other second.
SPECIFICATION EdgeSpec
CONSTANTS
    Ips = {a, b, c, d}
    None = None
    Unit = 3
    Rate = 2
    Burst = 6
    MaxClients = 3
    IdleTimeout = 3
    CleanupInterval = 1
    AgeCap = 4
    p1 = p1
    p2 = p2
    local = local
    stranger = stranger
    Junk = Junk
    Addresses <- MCAddresses
    Trusted = {p1, p2}
    Loopback = {local}
    Presets <- MCPresets
    RealIPs = {stranger, Junk}
    Chains <- MCChains
SYMMETRY Symmetry
INVARIANTS
    TypeOK
    ListMatchesMap
    CapacityHolds
    RetryAfterIsExact
    AskerIsCharged
PROPERTIES
    ImplementsBuckets
