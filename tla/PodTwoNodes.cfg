\* Two nodes, one pod created and deleted, one fault, no user rewrites it.
SPECIFICATION Spec
CONSTANTS
    Pod = {p1}
    Node = {n1, n2}
    PodSpec = {s1}
    Container = {c1, c2}
    ContainersOf <- MCContainersOf
    s1 = s1
    s2 = s2
    c1 = c1
    c2 = c2
    NoPod = NoPod
    NoNode = NoNode
    NoReq = NoReq
    MaxFaults = 1
    MaxBacklog = 1
    MaxWrites = 0
    MaxDeletes = 1
INVARIANTS
    BoundBeforeRun
    OneNodePerPod
\* Users who have used up their writes leave everyone waiting for events.
CHECK_DEADLOCK FALSE
