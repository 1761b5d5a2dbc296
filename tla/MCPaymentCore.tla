----------------------------- MODULE MCPaymentCore -----------------------------
EXTENDS PaymentCoreProperties, TLC

CONSTANTS c1, c2, p1, p2, r1, r2, w1, w2

\* Sound for safety: no property or action names a particular id.
Symmetry ==
    Permutations(Workers) \cup Permutations(Customers)
        \cup Permutations(Payments) \cup Permutations(Refunds)
=============================================================================
