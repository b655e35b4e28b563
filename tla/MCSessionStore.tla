--------------------------- MODULE MCSessionStore ---------------------------
EXTENDS SessionStore
=============================================================================
