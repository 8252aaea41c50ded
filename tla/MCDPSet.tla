------------------------------- MODULE MCDPSet -------------------------------
EXTENDS DPSet

CONSTANTS c1, c2, d1

\* Both connections are of the one switch d1.
MCDpid == [c \in Conn |-> d1]
=============================================================================
