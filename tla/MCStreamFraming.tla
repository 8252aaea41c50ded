--------------------------- MODULE MCStreamFraming ---------------------------
EXTENDS StreamFraming
=============================================================================
