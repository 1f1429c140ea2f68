CONSTANTS
    r1 = r1
    r2 = r2
    Req = {r1, r2}
    Cap = 1
    NoReq = none
    Chunks <- MCChunks
SPECIFICATION FairSpec
INVARIANTS
    NoWaiterForgotten
    PanicNeedsOverlap
    SuccessIsWhole
PROPERTY ClosingEndsRequests
