\* Three actors; two scripts, two InvokeActions and two calls; one change of the action
\* when all is quiet, and one incident: a failure, or a step at a time when something
\* is under way.
SPECIFICATION FairSpec
CONSTANTS
    Actor = {a1, a2, a3}
    Script = {s1, s2}
    Invokes = {i1, i2}
    PerReplica = 1
    MaxReplicas = 2
    ChanCap = 1
    NoAction = NoAction
    NoStatus = NoStatus
    NoEvent = NoEvent
    NoJob = NoJob
    NoActor = NoActor
    MaxCalls = 2
    MaxChanges = 1
    MaxIncidents = 1
INVARIANTS
    TypeOK
    NilStatusHasCause
PROPERTIES
    DropHasCause
    Converges
    RemovalCleans
\* When the calls, changes and incidents are used up and the brain has stopped,
\* nothing is left to do.
CHECK_DEADLOCK FALSE
