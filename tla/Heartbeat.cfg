\* Three connections, two faults.
SPECIFICATION FairSpec
CONSTANTS
    Conn = {k1, k2, k3}
    NoConn = NoConn
    MaxFaults = 2
INVARIANTS
    TypeOK
    OneAttempt
    ReadyIsBacked
PROPERTIES
    GoneCubeletNotReady
\* A cubelet that stays down, or the bound on connections, ends the run.
CHECK_DEADLOCK FALSE
