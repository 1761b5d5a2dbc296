\* One publisher run at a time, so that the topic is in order; one run fails, the
\* consumer restarts once and one of its steps raises.
SPECIFICATION PipelineSpec
CONSTANTS
    None = None
    m1 = m1
    m2 = m2
    k1 = k1
    Merchants = {m1, m2}
    Publishers = {k1}
    BatchSize = 2
    MaxEvents = 3
    MaxFailures = 1
    MaxLost = 0
    MaxRestarts = 1
    MaxErrors = 1
SYMMETRY Symmetry
INVARIANT PipelineTypeOK
INVARIANT CausalOrder
INVARIANT AppliedOnce
INVARIANT NothingSkipped
INVARIANT OneLossPerRestart
INVARIANT DeadLettersExplained
INVARIANT AppliedAndFiled
PROPERTY ImplementsFeed
\* The workload ends with the last event.
CHECK_DEADLOCK FALSE
