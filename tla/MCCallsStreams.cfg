\* One provider with two credentials, two attempts, two reconfigurations; one
\* stream and its retry; an answer of up to four blocks and two tools.
CONSTANTS
    a1 = a1
    a2 = a2
    p1 = p1
    Requests = {r1, r2}
    Auths = {a1, a2}
    Providers = {p1}
    ProviderOf <- MCProviderOf
    LimitChoices = {0, 1}
    MaxGen = 2
    Executors <- MCExecutors
    Retries = 1
    MaxLines = 1
    Kinds = {"openai", "codex", "gemini", "gemini-cli", "antigravity"}
    ToolIndexes = {0, 1}
    MaxBlocks = 4
SPECIFICATION MCSpec
INVARIANTS
    TypeOK
    SlotsConserved
    LimitPerGeneration
    LoadExact
    OneAttemptShown
    DoneIsWhole
    OutcomeIsRecorded
    ToldOnce
    RefusedOnlyAfterLapse
    CompleteIsDelivered
    StopReasonTrue
PROPERTIES
    WaitingEnds
    AllEnd
    RetryGetsItsSlot
