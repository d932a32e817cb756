\* CubeProxy with a service of one or two ports, two pods and a DNS object; one
\* GPU job and two nodes; three services and two addresses; actions that invoke
\* one another.
SPECIFICATION SeparateSpec
CONSTANTS
    p1 = p1
    p2 = p2
    d1 = d1
    d2 = d2
    Pod = {p1, p2}
    Dest = {d1, d2}
    Config <- MCConfig
    NoService = NoService
    NoEvent = NoEvent
    NoChain = NoChain
    MaxChanges = 4
    MaxIncidents = 2
    Node = {n1, n2}
    NoNode = NoNode
    NoJob = NoJob
    \* Bound: faults of everybody who handles the job.
    MaxJobIncidents = 2
    Service = {s1, s2, s3}
    \* Bounds: the addresses of the range less one; PUTs, faults and crashes.
    LastAddress = 1
    NoAddress = NoAddress
    MaxServiceIncidents = 2
    Name = {a1, a2}
    Uid = {u1, u2, u3}
    Request = {r1, r2}
    NoAction = NoAction
    NoWrite = NoWrite
INVARIANTS
    TypeOK
    RulesFollow
    LockHolderMoves
    ContainersHaveDns
    JobsTypeOK
    AddressesDiffer
    ActionGraphTypeOK
    NoCycle
PROPERTIES
    Settles
    JobGoesForward
    JobRuns
\* Users stop, and processes may stop for good.
CHECK_DEADLOCK FALSE
