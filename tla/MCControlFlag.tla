--------------------------- MODULE MCControlFlag ---------------------------
EXTENDS ControlFlag
=============================================================================
