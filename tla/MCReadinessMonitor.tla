------------------------- MODULE MCReadinessMonitor -------------------------
EXTENDS ReadinessMonitor
=============================================================================
