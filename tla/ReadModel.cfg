\* A merchant and one customer under two names, two payments with two descriptions,
\* a refund on either of two days, two updates; the consumer is up to two events
\* behind and may lose one.
SPECIFICATION ReadSpec
CONSTANTS
    None = None
    c1 = c1
    c2 = c2
    p1 = p1
    p2 = p2
    r1 = r1
    n1 = n1
    n2 = n2
    card = card
    x1 = x1
    x2 = x2
    Customers = {c1}
    Payments = {p1, p2}
    Refunds = {r1}
    Amounts = {1, 2}
    Prices = {2}
    Names = {n1, n2}
    Texts = {x1, x2}
    Methods = {card}
    MaxDay = 2
    MaxLag = 2
    MaxEdits = 2
    MaxDropped = 1
SYMMETRY Symmetry
INVARIANT ReadTypeOK
INVARIANT ReplicaConverges
INVARIANT NeverAhead
INVARIANT NamesAgree
INVARIANT AggregatesAddUp
\* The workload ends with the last payment's and the last refund's life.
CHECK_DEADLOCK FALSE
