\* Two nodes, two callers, two changes or lost watches; Next wraps
\* at four, and six calls take it to numbers that panic.
SPECIFICATION Spec
CONSTANTS
    Node = {n1, n2}
    Worker = {w1, w2}
    Half = 4
    MaxCalls = 6
    MaxFlips = 2
INVARIANTS
    TypeOK
    TableConsistent
    TableFollowsReady
    PanicHasCause
    UsesNodesInTurn
\* A panic ends the process, and the bounds end the run.
CHECK_DEADLOCK FALSE
