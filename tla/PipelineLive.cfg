\* One tenant, and the same failures as PipelineSafe, with two restarts.
SPECIFICATION PipelineFairSpec
CONSTANTS
    None = None
    m1 = m1
    m2 = m2
    k1 = k1
    Merchants = {m1}
    Publishers = {k1}
    BatchSize = 2
    MaxEvents = 3
    MaxFailures = 1
    MaxLost = 0
    MaxRestarts = 2
    MaxErrors = 1
PROPERTY CommittedAreDecided
\* The workload ends with the last event.
CHECK_DEADLOCK FALSE
