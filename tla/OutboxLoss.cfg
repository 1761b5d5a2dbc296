\* One run at a time, nothing crashes, one send fails.
SPECIFICATION OutboxSpec
CONSTANTS
    None = None
    m1 = m1
    m2 = m2
    k1 = k1
    k2 = k2
    Merchants = {m1, m2}
    Publishers = {k1}
    BatchSize = 2
    MaxEvents = 2
    MaxFailures = 0
    MaxLost = 1
INVARIANT ZeroEventLoss
\* The workload ends with the last event.
CHECK_DEADLOCK FALSE
