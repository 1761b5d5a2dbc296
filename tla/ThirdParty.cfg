SPECIFICATION ThirdPartySpec
CHECK_DEADLOCK FALSE
CONSTANTS
    c1 = c1
    m1 = m1
    r1 = r1
    r2 = r2
    e1 = e1
    e2 = e2
    w1 = w1
    w2 = w2
    None = None
    Consumers = {c1}
    Merchants = {m1}
    Requests = {r1, r2}
    Endpoints = {e1, e2}
    ThreadHasPool = TRUE
    Workers = {w1, w2}
    Limits = {0, 2}
    DefaultLimit = 2
    Windows = {0, 2, 3}
    DefaultWindow = 3
    TTL = 2
    TokenLife = 5
    MaxDelay = 1
    Horizon = 4
    RowIds = {1, 2}
    PageSize = 1
    MaxRetries = 2
    Deliveries = {1, 2}
    MaxLetters = 2
    Workloads <- Mixes
INVARIANTS
    StaleOnlyByRace
    WindowBound
    ExportComplete
    SkippedOnlyWithoutOffset
    DeadLetterOrDelivered
PROPERTIES
    AdmittedWithinTtl
