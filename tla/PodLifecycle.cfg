\* One node, one pod rewritten once and deleted, one fault.
SPECIFICATION Spec
CONSTANTS
    Pod = {p1}
    Node = {n1}
    PodSpec = {s1, s2}
    Container = {c1, c2}
    ContainersOf <- MCContainersOf
    s1 = s1
    s2 = s2
    c1 = c1
    c2 = c2
    NoPod = NoPod
    NoNode = NoNode
    NoReq = NoReq
    MaxFaults = 1
    MaxBacklog = 1
    MaxWrites = 1
    MaxDeletes = 1
INVARIANTS
    TypeOK
    CacheAgrees
    OrphanHasCause
    CachedPodRuns
\* Users who have used up their writes leave everyone waiting for events.
CHECK_DEADLOCK FALSE
