\* Two connections, two faults: a node may stay Ready although it hangs.
SPECIFICATION FairSpec
CONSTANTS
    Conn = {k1, k2}
    NoConn = NoConn
    MaxFaults = 2
PROPERTIES
    SilentBecomesNotReady
\* A cubelet that stays down, or the bound on connections, ends the run.
CHECK_DEADLOCK FALSE
