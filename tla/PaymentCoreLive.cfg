\* Refinement and liveness: no symmetry, one payment, far enough for a second refund
\* to be refused.
SPECIFICATION FairSpec
CONSTANTS
    None = None
    w1 = w1
    w2 = w2
    c1 = c1
    c2 = c2
    p1 = p1
    p2 = p2
    r1 = r1
    r2 = r2
    Workers = {w1, w2}
    Customers = {c1}
    Payments = {p1}
    Refunds = {r1, r2}
    Amounts = {1, 2}
    MaxClock = 6
PROPERTY ImplementsLifecycle
PROPERTY TransactionsFinish
\* The workload ends with the clock.
CHECK_DEADLOCK FALSE
