------------------------------ MODULE MCProxy ------------------------------
EXTENDS Proxy, TLC

\* Client addresses are interchangeable.
IpSymmetry == Permutations(ClientIps)
=============================================================================
