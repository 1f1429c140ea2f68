CONSTANTS
    a1 = a1
    a2 = a2
    a3 = a3
    p1 = p1
    p2 = p2
    model = model
    preview = preview
    up1 = up1
    up2 = up2
    None = None
    Nil = Nil
    Auths = {a1, a2, a3}
    Providers = {p1, p2}
    Upstream = {up1, up2}
    ProviderOf <- MCProviderOf
    ModelCandidates <- MCCandidates
    Supports <- MCSupports
    Resolve <- MCResolve
    SwitchProject = FALSE
    SwitchPreview = TRUE
    Codes = {"forbidden", "quota", "transient", "protocol"}
    CoolingCodes = {"forbidden", "quota"}
    Contended <- MCContended
    Clients = {c1, c2}
    Supplied = {m1}
    Suppliers = {s1, s2}
    NoSupplier = NoSupplier
    MaxCopies = 2
    Workers = {w1, w2}
    Resolvable = {m1, m2}
    Callers = {k1, k2}
    Writers = {x1}
    Writes = 2
    g1 = g1
    g2 = g2
    Graded = {g1, g2}
    Base <- MCBase
    CoolingDisabled = FALSE
    Unauthorized = 2
    Payment = 2
    NotFound = 2
    Transient = 1
    Transport = 1
    BackoffBase = 1
    BackoffMax = 2
    Day = 2
    RetryAfters = {2}
    MaxLevel = 1
    MaxTime = 3
SPECIFICATION MCSpec
SYMMETRY MCSymmetry
INVARIANTS
    NoRouteTwice
    FailuresRespected
    NoOrphanMarks
    CountsExact
    AnswerStillAvailable
    AggregateHonest
PROPERTIES
    FallbackIsLast
    ActiveMeansClean
    BackoffKept
    AbstractSpec
\* An attempt ends, and a caller whose nested RLock meets a waiting writer stops
\* for good.
CHECK_DEADLOCK FALSE
