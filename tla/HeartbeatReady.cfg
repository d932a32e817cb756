\* Two connections, one fault: a node may stay NotReady while it beats.
SPECIFICATION FairSpec
CONSTANTS
    Conn = {k1, k2}
    NoConn = NoConn
    MaxFaults = 1
PROPERTIES
    ConnectedBecomesReady
\* A cubelet that stays down, or the bound on connections, ends the run.
CHECK_DEADLOCK FALSE
