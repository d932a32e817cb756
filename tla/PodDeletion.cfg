\* One node, one pod created and deleted, no faults: its containers may stay.
SPECIFICATION FairSpec
CONSTANTS
    Pod = {p1}
    Node = {n1}
    PodSpec = {s1}
    Container = {c1, c2}
    ContainersOf <- MCContainersOf
    s1 = s1
    s2 = s2
    c1 = c1
    c2 = c2
    NoPod = NoPod
    NoNode = NoNode
    NoReq = NoReq
    MaxFaults = 0
    MaxBacklog = 1
    MaxWrites = 0
    MaxDeletes = 1
PROPERTIES
    DeletedPodStops
\* Users who have used up their writes leave everyone waiting for events.
CHECK_DEADLOCK FALSE
