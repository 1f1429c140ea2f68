CONSTANTS
    a1 = a1
    a2 = a2
    Requests = {r1, r2}
    Auths = {a1, a2}
    Sessions = {s1}
    SessionOf <- MCSessionOf
    Retries <- MCRetries
    Priority <- MCPriority
    MaxWait = 1
    Codes = {"429"}
    Toggled = {a2}
    CoolOf <- MCCoolOf
    NoSession = NoSession
    None = None
    Refreshers = {f1, f2}
    Operators = {o1}
    PendingBackoff = 1
    FailureBackoff = 2
    CallTime = 1
    Cooldown = 1
    MaxToken = 2
SPECIFICATION MCSpec
INVARIANTS
    OneRefreshAtATime
    TokenNotLost
    CallsBounded
    GiveUpJustified
PROPERTIES
    ExpiringIsTried
    RequestsEnd
