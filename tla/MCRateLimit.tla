---------------------------- MODULE MCRateLimit ----------------------------
EXTENDS RateLimit, TLC

\* Client addresses are interchangeable.
IpSymmetry == Permutations(Ips)
=============================================================================
