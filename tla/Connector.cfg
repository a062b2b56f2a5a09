\* Two callers, two tokens, a vendor that may do anything but keep its word.
SPECIFICATION FairSpec
CONSTANTS
    Callers = {c1, c2}
    Directs = {}
    None = None
    Omitted = Omitted
    Answers <- MCAnswers
    DefaultTtl = 2
    MaxTtl = 2
    FullMargin = 2
    AuthTimeout = 1
    MaxIssued = 2
INVARIANTS
    TypeOK
    RejectedIsDropped
PROPERTIES
    CancellationIsOwn
    CallEnds
