-------------------------------- MODULE MCOutbox --------------------------------
EXTENDS OutboxProperties, TLC

CONSTANTS m1, m2, k1, k2
=============================================================================
