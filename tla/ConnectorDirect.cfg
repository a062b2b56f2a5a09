\* The same with a third goroutine that calls Authenticate itself.
SPECIFICATION Spec
CONSTANTS
    Callers = {c1, c2}
    Directs = {d1}
    None = None
    Omitted = Omitted
    Answers <- MCAnswers
    DefaultTtl = 2
    MaxTtl = 2
    FullMargin = 1
    AuthTimeout = 1
    MaxIssued = 2
SYMMETRY CallersAreAlike
INVARIANTS
    StampedeCollapses
    MarginCovers
PROPERTIES
    UsableTokenIsKept
