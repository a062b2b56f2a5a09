\* What README.md says of the retry after a 401.
SPECIFICATION Spec
CONSTANTS
    Callers = {c1, c2}
    Directs = {}
    None = None
    Omitted = Omitted
    Answers <- MCAnswers
    DefaultTtl = 2
    MaxTtl = 2
    FullMargin = 1
    AuthTimeout = 1
    MaxIssued = 2
PROPERTIES
    RetryReauthenticates
