\* Two overlapping runs of the task, two of which may fail, as may one send; a batch
\* of two leaves rows behind for the next run.
SPECIFICATION OutboxFairSpec
CONSTANTS
    None = None
    m1 = m1
    m2 = m2
    k1 = k1
    k2 = k2
    Merchants = {m1, m2}
    Publishers = {k1, k2}
    BatchSize = 2
    MaxEvents = 3
    MaxFailures = 2
    MaxLost = 1
INVARIANT OutboxInv
INVARIANT OnlyCommittedSent
INVARIANT LostOnlyByFailedSends
INVARIANT CopiesFromFailures
PROPERTY CommittedArePublished
\* The workload ends with the last event.
CHECK_DEADLOCK FALSE
