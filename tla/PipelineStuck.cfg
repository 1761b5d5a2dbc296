\* One exception reaches the consumer's outer handler, nothing else fails.
SPECIFICATION PipelineFairSpec
CONSTANTS
    None = None
    m1 = m1
    m2 = m2
    k1 = k1
    Merchants = {m1}
    Publishers = {k1}
    BatchSize = 2
    MaxEvents = 1
    MaxFailures = 0
    MaxLost = 0
    MaxRestarts = 1
    MaxErrors = 0
PROPERTY ReadSideCatchesUp
\* The workload ends with the last event.
CHECK_DEADLOCK FALSE
