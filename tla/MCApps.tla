-------------------------------- MODULE MCApps --------------------------------
EXTENDS Apps

\* DPSet is a context and is created first; OFPHandler starts the listeners.
MCAppOrder == <<"dpset", "OFPHandler", "monitor">>
MCHandles == [a \in App |-> IF a = "monitor" THEN {"state"} ELSE Class]
=============================================================================
