SPECIFICATION GatewaySpec
CONSTANTS
    Call = {c1, c2}
    Ingress = {i1, i2}
    Path = {p1}
    Method = {get, post}
    NoCall = NoCall
    Garbage = Garbage
    NoRoute = NoRoute
    NoMethod = NoMethod
    NoIngressEvent = NoIngressEvent
    \* Bounds: writes of ingresses; faults of the gateway and of Kafka.
    MaxIngressWrites = 3
    MaxGatewayIncidents = 1
INVARIANTS
    AnsweredLeavesNothing
    RoutesFollow
PROPERTIES
    CallsKept
\* Processes may stop for good, and requests stop coming.
CHECK_DEADLOCK FALSE
