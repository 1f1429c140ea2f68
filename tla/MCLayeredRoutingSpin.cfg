CONSTANTS
    a1 = a1
    a2 = a2
    a3 = a3
    p1 = p1
    p2 = p2
    model = model
    preview = preview
    up1 = up1
    up2 = up2
    None = None
    Auths = {a1}
    Providers = {p1}
    Upstream = {up1, up2}
    ProviderOf <- OneProvider
    ModelCandidates <- MCCandidates
    Supports <- OneSupports
    Resolve <- OneResolve
    SwitchProject = TRUE
    SwitchPreview = TRUE
    Codes = {"quota"}
    CoolingCodes = {}
    Contended <- NoContention
SPECIFICATION FairSpec
PROPERTY AttemptEnds
CHECK_DEADLOCK FALSE
