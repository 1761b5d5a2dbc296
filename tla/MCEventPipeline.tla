----------------------------- MODULE MCEventPipeline -----------------------------
EXTENDS EventPipeline, TLC

CONSTANTS m1, m2, k1

\* Sound for safety: the tenants are interchangeable.
Symmetry == Permutations(Merchants)
=============================================================================
