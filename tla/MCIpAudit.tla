----------------------------- MODULE MCIpAudit -----------------------------
EXTENDS IpAudit, TLC

\* Writers, event types and keys are interchangeable.
Symmetric == Permutations(Writers) \cup Permutations(Types) \cup Permutations(Keys)
=============================================================================
