SPECIFICATION ClientsSpec
CHECK_DEADLOCK FALSE
CONSTANTS
    t1 = t1
    t2 = t2
    s1 = s1
    s2 = s2
    None = None
    SeedCustomers = {1, 2, 3, 4, 5}
    SeedPayments = {1, 2, 3, 4, 5}
    SeedRefunds = {1, 2, 3}
    Price = 2
    Tasks = {t1, t2}
    MAX_RETRIES = 2
    MinRows = 2
    Need = 1
    RefundEvery = 1
    Runs = {s1, s2}
    Workloads <- Mixes
INVARIANTS
    SeedAccounted
    CleanReportTrue
PROPERTIES
    SeedEnds
    ProbeEnds
