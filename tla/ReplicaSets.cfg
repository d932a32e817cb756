\* One ReplicaSet, six UIDs, one incident, fair.
SPECIFICATION FairSpec
CONSTANTS
    Pod = {p1, p2, p3, p4, p5, p6}
    Replicas = {1, 2}
    ChanCap = 1
    NoSet = NoSet
    NoStatus = NoStatus
    NoEvent = NoEvent
    NoJob = NoJob
    NoPod = NoPod
    MaxIncidents = 1
    MaxRescales = 2
INVARIANTS
    TypeOK
    NilStatusHasCause
    GhostHasCause
PROPERTIES
    Converges
    RemovalCleans
\* When the manager has stopped for good nothing is left to do.
CHECK_DEADLOCK FALSE
