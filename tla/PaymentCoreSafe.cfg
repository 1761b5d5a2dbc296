\* Two payments taken to their refunds by two workers at once: the longest life a
\* payment has needs 7 events (customer, payment, authorize, capture, two
\* refunds, one processed or the settlement).
SPECIFICATION Spec
CONSTANTS
    None = None
    w1 = w1
    w2 = w2
    c1 = c1
    c2 = c2
    p1 = p1
    p2 = p2
    r1 = r1
    r2 = r2
    Workers = {w1, w2}
    Customers = {c1}
    Payments = {p1, p2}
    Refunds = {r1, r2}
    Amounts = {1, 2}
    MaxClock = 7
SYMMETRY Symmetry
INVARIANT IInv
INVARIANT TypeOK
INVARIANT RefundsWithinCharge
INVARIANT RefundsReserved
INVARIANT LedgerComplete
INVARIANT OutboxTellsStatus
INVARIANT PaymentsKeepCustomer
INVARIANT OutboxCausal
\* The workload ends with the clock.
CHECK_DEADLOCK FALSE
