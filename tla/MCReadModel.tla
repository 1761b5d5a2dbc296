------------------------------- MODULE MCReadModel -------------------------------
EXTENDS ReadModelProperties, TLC

CONSTANTS c1, c2, p1, p2, r1, n1, n2, x1, x2, card

\* Sound for safety: no property or action names a particular id.
Symmetry == Permutations(Customers) \cup Permutations(Payments) \cup Permutations(Names) \cup Permutations(Texts)
=============================================================================
