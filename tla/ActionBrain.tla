----------------------------- MODULE ActionBrain -----------------------------
(***************************************************************************)
(* The action brain: it creates an actor when an action without one is     *)
(* called, scales actions by the calls of the last minute and replaces     *)
(* actors that died.  Modelled are the informers of actions and actors,    *)
(* the event loop, the goroutine of calls, the routine of every 11         *)
(* seconds, the monitor that reads the calls from Kafka, and one action    *)
(* with its actors in etcd.                                                *)
(*                                                                         *)
(* A Status is kept as sets; ActualReplicas is the size of Actors, which   *)
(* every writer keeps.  LastUpdateTime and LastScaleTime are not kept: the *)
(* routine finds 30 seconds passed when nothing is under way, at any other *)
(* time it is an incident; 60 seconds have passed or not.                  *)
(***************************************************************************)
EXTENDS Naturals, FiniteSets, Sequences

CONSTANTS
    Actor,        \* UIDs; one that nobody knows any more is used again
    Script,
    Invokes,      \* what an action may have as its InvokeActions
    PerReplica,   \* calls per minute for one more replica (10 in the code)
    MaxReplicas,  \* MaxScaleReplicas (5)
    ChanCap,      \* capacity of evokeChan (5)
    NoAction, NoStatus, NoEvent, NoJob, NoActor,
    MaxCalls, MaxChanges, MaxIncidents  \* budgets

ASSUME ActorAssumption == IsFiniteSet(Actor)

ASSUME BoundAssumption ==
    /\ PerReplica \in Nat \ {0} /\ ChanCap \in Nat \ {0}
    /\ {MaxReplicas, MaxCalls, MaxChanges, MaxIncidents} \subseteq Nat

\* DesiredReplicas, Actors, ToRun and ToKill.
Status == [desired : Nat, actors : SUBSET Actor, toRun : SUBSET Actor, toKill : SUBSET Actor]
Action == [script : Script, invokes : Invokes, status : Status \cup {NoStatus}]

\* "starting" is NotHandle of package phase, "bad" neither that nor Running.
Phase == {"starting", "running", "bad"}
ActorObj == [phase : Phase, script : Script]

ActorMsg == [actor : Actor, obj : ActorObj \cup {NoActor}]
Event == [type : {"actorCreate", "actorRemove"}, actor : Actor]
         \cup [type : {"create", "update", "remove"}, obj : Action]

\* What the holder of biglock has still to do: actors to create, actors to
\* delete or to give the new script, and whether it ends with a PUT.
Job == [kind : {"request", "event", "update", "remove", "routine"}, obj : Action,
        toCreate : Nat, todo : SUBSET Actor, found : BOOLEAN, shared : BOOLEAN,
        stale : BOOLEAN]

ASSUME NoValueAssumption ==
    /\ NoAction \notin Action /\ NoStatus \notin Status /\ NoActor \notin ActorObj
    /\ NoJob \notin Job /\ NoEvent \notin Event

VARIABLES
    action, actors,  \* etcd: the action or NoAction; the actors or NoActor
    born,            \* a user has created the action
    actionReq,       \* a write of the action that the API server has looked up and has still
                     \* to do: a POST's, or a PUT's whose sender waits no more; or NoAction
    actorReq,        \* likewise, a PUT of each actor, or NoActor
    topic,           \* calls the gateway has reported and the monitor not read
    reading,         \* the monitor reads on
    alive,
    actionInf, actorInf,        \* "list", "connect" or "watch"
    actionStream, actorStream,
    actionCache, actorCache,
    actionOut, actorOut,        \* the event an informer is sending
    hand,            \* the event the loop has received
    evoke,           \* calls in evokeChan
    recent,          \* calls of the last minute
    job,             \* the holder of biglock, or NoJob
    lost,            \* biglock will not be unlocked any more
    calls, changes, incidents,
    unseen,          \* history: the action informer missed a write or refused it, or one failed
    nilled,          \* history: a POST wrote over a Status that there was none
    amiss,           \* history: a status was not written, or over one it was not made from, or
                     \* an actor's event missed, and the routine has not put it right
    revived,         \* history: actors that a PUT wrote again after they had been deleted
    tidy             \* history: all was settled when the action was deleted

etcd == <<action, actors, born>>
streams == <<actionStream, actorStream>>
informers == <<actionInf, actorInf, actionOut, actorOut>>
caches == <<actionCache, actorCache>>
requests == <<actionReq, actorReq>>
monitor == <<topic, evoke, recent, calls, reading>>
budgets == <<changes, incidents>>
history == <<unseen, nilled, amiss, revived, tidy>>
vars == <<etcd, requests, streams, alive, informers, caches, hand, monitor, job, lost, budgets,
          history>>

TypeOK ==
    /\ action \in Action \cup {NoAction}
    /\ actors \in [Actor -> ActorObj \cup {NoActor}]
    /\ actionReq \in Action \cup {NoAction}
    /\ actorReq \in [Actor -> ActorObj \cup {NoActor}]
    /\ {born, reading, alive, lost} \subseteq BOOLEAN
    /\ topic \in 0..MaxCalls /\ evoke \in 0..ChanCap /\ recent \in 0..MaxCalls
    /\ {actionInf, actorInf} \subseteq {"list", "connect", "watch"}
    /\ actionStream \in Seq(Action \cup {NoAction})
    /\ actorStream \in Seq(ActorMsg)
    /\ actionCache \in Action \cup {NoAction}
    /\ actorCache \in [Actor -> ActorObj \cup {NoActor}]
    /\ {actionOut, actorOut, hand} \subseteq Event \cup {NoEvent}
    /\ job \in Job \cup {NoJob}
    /\ calls \in 0..MaxCalls /\ changes \in 0..MaxChanges /\ incidents \in 0..MaxIncidents
    /\ {unseen, nilled, amiss, tidy} \subseteq BOOLEAN
    /\ revived \subseteq Actor

Incident == incidents < MaxIncidents /\ incidents' = incidents + 1 /\ UNCHANGED changes

\* Which of several that are alike is taken makes no difference.
Taken(x, S) == x = CHOOSE y \in S : TRUE

Live == {a \in Actor : actors[a] # NoActor}

\* Nothing is under way in the brain and the API server has no action to write, or
\* only actors have still to start or to be reported: time passes.  Calls, changes,
\* the routine and a start that come at any other time are incidents.
Resting ==
    /\ alive /\ job = NoJob /\ ~lost /\ hand = NoEvent /\ evoke = 0
    /\ topic = 0 \/ ~reading
    /\ actionReq = NoAction
    /\ actionInf = "watch" /\ actorInf = "watch"
    /\ actionStream = <<>> /\ actorStream = <<>>
    /\ actionOut = NoEvent /\ actorOut = NoEvent

AtRest == \/ Resting /\ UNCHANGED budgets
          \/ ~Resting /\ Incident

Quiet == Resting /\ \A a \in Live : actors[a].phase # "starting"

-----------------------------------------------------------------------------
(* The API server.                                                         *)

WriteAction(o) ==
    /\ action' = o
    /\ actionStream' = IF actionInf = "watch" THEN Append(actionStream, o) ELSE actionStream
    /\ unseen' = (unseen \/ actionInf # "watch")

\* The actor informer drops the PUT of an actor that is starting.
WriteActor(a, o) ==
    /\ actors' = [actors EXCEPT ![a] = o]
    /\ actorStream' = IF actorInf = "watch" /\ (o # NoActor => o.phase # "starting")
                      THEN Append(actorStream, [actor |-> a, obj |-> o]) ELSE actorStream

-----------------------------------------------------------------------------
(* Informers.  Their channels have no buffer, their caches no lock: a read *)
(* of a cache is taken as one step.                                        *)

\* An object that enters the cache has a Status of its own.
Unshare == job' = IF job = NoJob THEN NoJob ELSE [job EXCEPT !.shared = FALSE]

ListActions ==
    /\ alive /\ actionInf = "list"
    /\ actionInf' = "connect"
    /\ actionCache' = IF action = NoAction THEN actionCache ELSE action
    /\ Unshare
    /\ UNCHANGED <<etcd, requests, streams, alive, actorInf, actionOut, actorOut, actorCache, hand,
                   monitor, lost, budgets, history>>

ListActors ==
    /\ alive /\ actorInf = "list"
    /\ actorInf' = "connect"
    /\ actorCache' = [a \in Actor |->
          IF actors[a] # NoActor /\ actors[a].phase # "starting" THEN actors[a] ELSE actorCache[a]]
    /\ UNCHANGED <<etcd, requests, streams, alive, actionInf, actionOut, actorOut, actionCache,
                   hand, monitor, job, lost, budgets, history>>

Connect ==
    /\ alive
    /\ \/ actionInf = "connect" /\ actionInf' = "watch" /\ UNCHANGED actorInf
       \/ actorInf = "connect" /\ actorInf' = "watch" /\ UNCHANGED actionInf
    /\ UNCHANGED <<etcd, requests, streams, alive, actionOut, actorOut, caches, hand, monitor, job,
                   lost, budgets, history>>

\* Only the script of an action may change: another change of it is not taken into
\* the cache, nor is the Status that came with it.
Refused(o) == o # NoAction /\ actionCache # NoAction /\ o.invokes # actionCache.invokes

ActionNews(o) ==
    CASE o = NoAction /\ actionCache # NoAction -> [type |-> "remove", obj |-> actionCache]
      [] o # NoAction /\ actionCache = NoAction -> [type |-> "create", obj |-> o]
      [] o # NoAction /\ actionCache # NoAction /\ ~Refused(o)
           /\ o.script # actionCache.script -> [type |-> "update", obj |-> o]
      [] OTHER -> NoEvent

InformAction ==
    /\ alive /\ actionInf = "watch" /\ actionOut = NoEvent /\ actionStream # <<>>
    /\ actionStream' = Tail(actionStream)
    /\ actionOut' = ActionNews(Head(actionStream))
    /\ IF Refused(Head(actionStream))
       THEN unseen' = TRUE /\ UNCHANGED <<actionCache, job>>
       ELSE actionCache' = Head(actionStream) /\ Unshare /\ UNCHANGED unseen
    /\ UNCHANGED <<etcd, requests, actorStream, alive, actionInf, actorInf, actorOut, actorCache,
                   hand, monitor, lost, budgets, nilled, amiss, revived, tidy>>

\* An actor is told of when it is first seen running, and when it is deleted.
InformActor ==
    /\ alive /\ actorInf = "watch" /\ actorOut = NoEvent /\ actorStream # <<>>
    /\ actorStream' = Tail(actorStream)
    /\ LET a == Head(actorStream).actor
           new == Head(actorStream).obj
           old == actorCache[a]
       IN  /\ actorCache' = [actorCache EXCEPT ![a] =
                IF old = NoActor /\ new # NoActor /\ new.phase # "running" THEN NoActor ELSE new]
           /\ actorOut' =
                CASE new = NoActor /\ old # NoActor -> [type |-> "actorRemove", actor |-> a]
                  [] new # NoActor /\ old = NoActor /\ new.phase = "running" ->
                        [type |-> "actorCreate", actor |-> a]
                  [] OTHER -> NoEvent
    /\ UNCHANGED <<etcd, requests, actionStream, alive, actionInf, actorInf, actionOut, actionCache,
                   hand, monitor, job, lost, budgets, history>>

LoseWatch ==
    /\ alive /\ Incident
    /\ \/ /\ actionInf = "watch" /\ actionOut = NoEvent
          /\ actionInf' = "list" /\ actionStream' = <<>>
          /\ unseen' = (unseen \/ actionStream # <<>>)
          /\ UNCHANGED <<actorInf, actorStream, amiss>>
       \/ /\ actorInf = "watch" /\ actorOut = NoEvent
          /\ actorInf' = "list" /\ actorStream' = <<>>
          /\ amiss' = TRUE
          /\ UNCHANGED <<actionInf, actionStream, unseen>>
    /\ tidy' = FALSE
    /\ UNCHANGED <<etcd, requests, alive, actionOut, actorOut, caches, hand, monitor, job, lost,
                   nilled, revived>>

-----------------------------------------------------------------------------
(* The monitor.                                                            *)

\* Mutant: evokeChan never blocks its writer.
MonitorReadsOn ==
    /\ alive /\ reading /\ topic > 0
    /\ topic' = topic - 1 /\ evoke' = evoke + 1 /\ recent' = recent + 1
    /\ UNCHANGED <<etcd, requests, streams, alive, informers, caches, hand, calls, reading, job,
                   lost, budgets, history>>

\* Calls are counted, and handed on by name.
MonitorReads ==
    /\ alive /\ reading /\ topic > 0 /\ evoke < ChanCap
    /\ topic' = topic - 1 /\ evoke' = evoke + 1 /\ recent' = recent + 1
    /\ UNCHANGED <<etcd, requests, streams, alive, informers, caches, hand, calls, reading, job,
                   lost, budgets, history>>

\* ReadMessage fails: the loop ends, and with it the reading of calls.
MonitorEnds ==
    /\ alive /\ reading /\ Incident
    /\ reading' = FALSE
    /\ UNCHANGED <<etcd, requests, streams, alive, informers, caches, hand, topic, evoke, recent,
                   calls, job, lost, history>>

MinutePasses ==
    /\ recent > 0
    /\ \/ Quiet /\ UNCHANGED budgets
       \/ ~Quiet /\ Incident
    /\ recent' = 0
    /\ UNCHANGED <<etcd, requests, streams, alive, informers, caches, hand, topic, evoke, calls,
                   reading, job, lost, history>>

\* CalculateScale: one replica more or less than there are, or NoChange.
Target == IF recent = 0 THEN 0
          ELSE IF recent \div PerReplica < MaxReplicas THEN (recent \div PerReplica) + 1
          ELSE MaxReplicas

Scaled(actual) == CASE actual < Target -> actual + 1
                    [] actual > Target -> actual - 1
                    [] OTHER -> actual

-----------------------------------------------------------------------------
(* The controller.                                                         *)

Idle == alive /\ job = NoJob /\ ~lost

EmptyStatus == [desired |-> 0, actors |-> {}, toRun |-> {}, toKill |-> {}]

StartJob(kind, obj, n, todo, shared) ==
    job' = [kind |-> kind, obj |-> obj, toCreate |-> n, todo |-> todo,
            found |-> FALSE, shared |-> shared, stale |-> actionCache # action]

\* The job's PUT of the action, or of one of the actors it updates, that the API
\* server has looked up: the server writes it whether or not anyone waits for it.
OutlivedPut == IF job # NoJob /\ job.found THEN {job.obj} ELSE {}

OutlivedUpdates ==
    IF job = NoJob \/ job.kind # "update" THEN {}
    ELSE {[actorReq EXCEPT ![a] = [phase |-> "running", script |-> job.obj.script]] :
            a \in {b \in job.todo \cap Live : actorReq[b] = NoActor}}

\* The process ends.  A POST of an actor still under way is taken as lost; what the
\* monitor has read of the topic is not read again.
Down ==
    /\ alive' = FALSE
    /\ actionInf' = "list" /\ actorInf' = "list"
    /\ actionOut' = NoEvent /\ actorOut' = NoEvent /\ hand' = NoEvent
    /\ actionStream' = <<>> /\ actorStream' = <<>>
    /\ actionCache' = NoAction /\ actorCache' = [a \in Actor |-> NoActor]
    /\ evoke' = 0 /\ recent' = 0 /\ reading' = TRUE
    /\ job' = NoJob /\ lost' = FALSE
    /\ actionReq' \in {actionReq} \cup OutlivedPut
    /\ actorReq' \in {actorReq} \cup OutlivedUpdates
    /\ unseen' = (unseen \/ (action # NoAction /\ action.status = NoStatus))
    /\ tidy' = FALSE /\ amiss' = TRUE
    /\ UNCHANGED <<etcd, topic, calls, nilled, revived>>

Receive ==
    /\ alive /\ hand = NoEvent
    /\ \/ actionOut # NoEvent /\ hand' = actionOut /\ actionOut' = NoEvent /\ UNCHANGED actorOut
       \/ actorOut # NoEvent /\ hand' = actorOut /\ actorOut' = NoEvent /\ UNCHANGED actionOut
    /\ UNCHANGED <<etcd, requests, streams, alive, actionInf, actorInf, caches, monitor, job, lost,
                   budgets, history>>

\* GetMatchedAction finds the action with a Status, which the handler shares.
Known == actionCache # NoAction /\ actionCache.status # NoStatus

\* A nil Status is dereferenced by the handlers of an actor's event, of the
\* action's removal and of a call.
HandPanics ==
    \/ hand.type \in {"actorCreate", "actorRemove"} /\ actionCache # NoAction
         /\ actionCache.status = NoStatus
    \/ hand.type = "remove" /\ hand.obj.status = NoStatus

Panics ==
    /\ Idle
    /\ \/ hand # NoEvent /\ HandPanics
       \/ evoke > 0 /\ actionCache # NoAction /\ actionCache.status = NoStatus
    /\ Down
    /\ UNCHANGED budgets

Took == hand' = NoEvent /\ UNCHANGED <<etcd, requests, streams, alive, informers, actorCache,
                                       monitor, lost, budgets, history>>

\* Mutant: an actor that is gone stays in Actors.
HandleActorKeeps ==
    /\ Idle /\ hand # NoEvent /\ hand.type \in {"actorCreate", "actorRemove"} /\ ~HandPanics
    /\ IF ~Known THEN UNCHANGED <<actionCache, job>>
       ELSE LET s == actionCache.status
                new == IF hand.type = "actorCreate"
                       THEN [s EXCEPT !.actors = @ \cup {hand.actor}, !.toRun = @ \ {hand.actor}]
                       ELSE [s EXCEPT !.toKill = @ \ {hand.actor}]
            IN  /\ actionCache' = [actionCache EXCEPT !.status = new]
                /\ StartJob("event", actionCache', 0, {}, FALSE)
    /\ Took

HandleActor ==
    /\ Idle /\ hand # NoEvent /\ hand.type \in {"actorCreate", "actorRemove"} /\ ~HandPanics
    /\ IF ~Known THEN UNCHANGED <<actionCache, job>>
       ELSE LET a == hand.actor
                s == actionCache.status
                new == IF hand.type = "actorCreate"
                       THEN [s EXCEPT !.actors = @ \cup {a}, !.toRun = @ \ {a}]
                       ELSE [s EXCEPT !.actors = @ \ {a}, !.toKill = @ \ {a}]
            IN  /\ actionCache' = [actionCache EXCEPT !.status = new]
                /\ StartJob("event", actionCache', 0, {}, FALSE)
    /\ Took

\* Mutant: the action is written back without a Status.
HandleActionCreateBare ==
    /\ Idle /\ hand # NoEvent /\ hand.type = "create"
    /\ StartJob("event", hand.obj, 0, {}, FALSE)
    /\ UNCHANGED actionCache
    /\ Took

HandleActionCreate ==
    /\ Idle /\ hand # NoEvent /\ hand.type = "create"
    /\ StartJob("event", [hand.obj EXCEPT !.status = EmptyStatus], 0, {}, FALSE)
    /\ UNCHANGED actionCache
    /\ Took

\* The topic cannot be created: nobody tries again.
NoTopic ==
    /\ Idle /\ hand # NoEvent /\ hand.type = "create"
    /\ Incident
    /\ hand' = NoEvent
    /\ unseen' = TRUE
    /\ UNCHANGED <<etcd, requests, streams, alive, informers, caches, monitor, job, lost,
                   nilled, amiss, revived, tidy>>

CachedRunning == {a \in Actor : actorCache[a] # NoActor /\ actorCache[a].phase = "running"}
CachedBad == {a \in Actor : actorCache[a] # NoActor} \ CachedRunning

\* The new script goes to the actors that the cache says run.
HandleActionUpdate ==
    /\ Idle /\ hand # NoEvent /\ hand.type = "update"
    /\ StartJob("update", hand.obj, 0, CachedRunning, FALSE)
    /\ UNCHANGED actionCache
    /\ Took

\* Mutant: the actors that have not started are deleted, and no others.
HandleActionRemoveStarting ==
    /\ Idle /\ hand # NoEvent /\ hand.type = "remove" /\ ~HandPanics
    /\ StartJob("remove", hand.obj, 0, hand.obj.status.toRun, FALSE)
    /\ UNCHANGED actionCache
    /\ Took

\* Only the actors in Actors are deleted, not those in ToRun.
HandleActionRemove ==
    /\ Idle /\ hand # NoEvent /\ hand.type = "remove" /\ ~HandPanics
    /\ StartJob("remove", hand.obj, 0, hand.obj.status.actors, FALSE)
    /\ UNCHANGED actionCache
    /\ Took

\* handleRequest: for an action it does not know it goes on without unlocking.
HandleRequest ==
    /\ Idle /\ evoke > 0
    /\ evoke' = evoke - 1
    /\ \/ actionCache = NoAction /\ lost' = TRUE /\ UNCHANGED job
       \/ /\ Known
          /\ IF actionCache.status.toRun \cup actionCache.status.actors = {}
             THEN StartJob("request", actionCache, 1, {}, TRUE) ELSE UNCHANGED job
          /\ UNCHANGED lost
    /\ UNCHANGED <<etcd, requests, streams, alive, informers, caches, hand, topic, recent, calls,
                   reading, budgets, history>>

\* Mutant: the replicas too many are not killed.
StartRoutineSpares(desired, surplus) ==
    LET s == actionCache.status
        missing == IF desired > Cardinality(CachedRunning)
                   THEN desired - Cardinality(CachedRunning) ELSE 0
        kill == s.toKill \cup s.toRun \cup CachedBad
        new == [desired |-> desired, actors |-> CachedRunning, toRun |-> {}, toKill |-> kill]
    IN  StartJob("routine", [actionCache EXCEPT !.status = new], missing, kill, FALSE)

\* checkAndUpdateActionStatus, up to its first request, with the replicas it
\* wants and the running actors it kills.
StartRoutine(desired, surplus) ==
    LET s == actionCache.status
        missing == IF desired > Cardinality(CachedRunning)
                   THEN desired - Cardinality(CachedRunning) ELSE 0
        kill == s.toKill \cup s.toRun \cup surplus \cup CachedBad
        new == [desired |-> desired, actors |-> CachedRunning, toRun |-> {}, toKill |-> kill]
    IN  StartJob("routine", [actionCache EXCEPT !.status = new], missing, kill, FALSE)

Routine ==
    /\ Idle /\ Known
    /\ \/ Quiet /\ UNCHANGED budgets
       \/ ~Quiet /\ Incident
    /\ LET now == actionCache.status.desired
           scaled == IF Cardinality(CachedRunning) = now
                     THEN Scaled(Cardinality(actionCache.status.actors)) ELSE now
       IN  \E desired \in {now, scaled} :
             \E surplus \in SUBSET CachedRunning :
                /\ Cardinality(surplus) = IF Cardinality(CachedRunning) > desired
                                          THEN Cardinality(CachedRunning) - desired ELSE 0
                /\ StartRoutine(desired, surplus)
    /\ UNCHANGED <<etcd, requests, streams, alive, informers, caches, hand, monitor, lost, history>>

-----------------------------------------------------------------------------
(* Jobs: one request to the API server is one step.                        *)

Refs(o) == IF o = NoAction \/ o.status = NoStatus THEN {}
           ELSE o.status.actors \cup o.status.toRun \cup o.status.toKill

RefsOfEvent(e) ==
    CASE e = NoEvent                               -> {}
      [] e.type \in {"actorCreate", "actorRemove"} -> {e.actor}
      [] OTHER                                     -> Refs(e.obj)

\* The actors somebody still knows by their UID.
Mentioned ==
    Refs(action) \cup Refs(actionCache) \cup Refs(actionReq)
      \cup (UNION {Refs(actionStream[i]) : i \in DOMAIN actionStream})
      \cup {actorStream[i].actor : i \in DOMAIN actorStream}
      \cup (UNION {RefsOfEvent(e) : e \in {actionOut, actorOut, hand}})
      \cup (IF job = NoJob THEN {} ELSE Refs(job.obj) \cup job.todo)

\* UIDs nobody has heard of.
Fresh == {a \in Actor : actors[a] = NoActor /\ actorReq[a] = NoActor
                          /\ actorCache[a] = NoActor} \ Mentioned

\* A call's actor is added to the Status the handler read, which is the
\* cache's unless a newer one has arrived meanwhile.
JobCreates ==
    /\ job # NoJob /\ job.toCreate > 0
    /\ \E a \in Fresh :
          /\ Taken(a, Fresh)
          /\ revived' = revived \ {a}
          /\ WriteActor(a, [phase |-> "starting", script |-> job.obj.script])
          /\ LET one == IF job.kind = "request" THEN 1 ELSE 0
                 new == [job.obj.status EXCEPT !.toRun = @ \cup {a}, !.desired = @ + one]
             IN  /\ job' = [job EXCEPT !.toCreate = @ - 1, !.obj.status = new]
                 /\ actionCache' = IF job.shared THEN [actionCache EXCEPT !.status = new]
                                                 ELSE actionCache
    /\ tidy' = FALSE
    /\ UNCHANGED <<action, born, requests, actionStream, alive, informers, actorCache, hand,
                   monitor, lost, budgets, unseen, nilled, amiss>>

JobFailsToCreate ==
    /\ job # NoJob /\ job.toCreate > 0
    /\ Incident
    /\ job' = IF job.kind = "request" THEN NoJob ELSE [job EXCEPT !.toCreate = @ - 1]
    /\ UNCHANGED <<etcd, requests, streams, alive, informers, caches, hand, monitor, lost, history>>

Deletes == job.kind \in {"routine", "remove"}

\* DeleteActor.  Whatever it answers, the actor stays in ToKill: the text that
\* would take it out is not the client library's.
JobDeletes ==
    /\ job # NoJob /\ job.toCreate = 0 /\ Deletes
    /\ \E a \in job.todo :
          /\ IF a \in Live THEN WriteActor(a, NoActor) ELSE UNCHANGED <<actors, actorStream>>
          /\ job' = [job EXCEPT !.todo = @ \ {a}]
    /\ UNCHANGED <<action, born, requests, actionStream, alive, informers, caches, hand, monitor,
                   lost, budgets, history>>

\* UpdateActor of the cached copy, whose phase was Running.  Only the brain deletes
\* actors, by the same lock: that the actor exists is looked up in the same step.
JobUpdates ==
    /\ job # NoJob /\ job.kind = "update"
    /\ \E a \in job.todo :
          /\ IF a \in Live
             THEN WriteActor(a, [phase |-> "running", script |-> job.obj.script])
             ELSE UNCHANGED <<actors, actorStream>>
          /\ job' = [job EXCEPT !.todo = @ \ {a}]
    /\ UNCHANGED <<action, born, requests, actionStream, alive, informers, caches, hand, monitor,
                   lost, budgets, history>>

JobFailsOnActor ==
    /\ job # NoJob /\ job.toCreate = 0
    /\ Incident
    /\ \E a \in job.todo : job' = [job EXCEPT !.todo = @ \ {a}]
    /\ actorReq' \in {actorReq} \cup OutlivedUpdates
    /\ tidy' = FALSE
    /\ UNCHANGED <<etcd, actionReq, streams, alive, informers, caches, hand, monitor, lost,
                   unseen, nilled, amiss, revived>>

JobEnds ==
    /\ job # NoJob /\ job.toCreate = 0 /\ job.todo = {}
    /\ job.kind \in {"update", "remove"}
    /\ job' = NoJob
    /\ UNCHANGED <<etcd, requests, streams, alive, informers, caches, hand, monitor, lost, budgets,
                   history>>

AtPut == /\ job # NoJob /\ job.toCreate = 0 /\ job.todo = {}
         /\ job.kind \in {"request", "event", "routine"}

\* UpdateAction: the action is looked up, then written as the job has it.
JobLooksUp ==
    /\ AtPut /\ ~job.found
    /\ job' = IF action = NoAction THEN NoJob ELSE [job EXCEPT !.found = TRUE]
    /\ UNCHANGED <<etcd, requests, streams, alive, informers, caches, hand, monitor, lost, budgets,
                   history>>

\* The routine's Status names every actor, and none that is gone as running; nor
\* does the informer's cache, or the informer will be told.
PutRight == LET s == job.obj.status
            IN  /\ job.kind = "routine"
                /\ actorInf = "watch"
                /\ \A a \in Actor \ Live : actorCache[a] # NoActor =>
                      \E i \in DOMAIN actorStream : actorStream[i] = [actor |-> a, obj |-> NoActor]
                /\ s.actors \subseteq Live /\ Live \subseteq s.actors \cup s.toRun \cup s.toKill

JobWrites ==
    /\ AtPut /\ job.found
    /\ WriteAction(job.obj)
    /\ amiss' = (job.stale \/ (amiss /\ ~PutRight))
    /\ job' = NoJob
    /\ UNCHANGED <<actors, born, requests, actorStream, alive, informers, caches, hand, monitor,
                   lost, budgets, nilled, revived, tidy>>

JobFailsToWrite ==
    /\ AtPut
    /\ Incident
    /\ job' = NoJob
    /\ actionReq' \in {actionReq} \cup OutlivedPut
    /\ unseen' = TRUE /\ amiss' = TRUE
    /\ UNCHANGED <<etcd, actorReq, streams, alive, informers, caches, hand, monitor, lost,
                   nilled, revived, tidy>>

-----------------------------------------------------------------------------
(* Users, the gateway, cubelets.                                           *)

Call ==
    /\ calls < MaxCalls
    /\ AtRest
    /\ calls' = calls + 1 /\ topic' = topic + 1
    /\ UNCHANGED <<etcd, requests, streams, alive, informers, caches, hand, evoke, recent, reading,
                   job, lost, history>>

\* What a job has read is out of date once a user has written.
Outdate == job' = IF job = NoJob THEN NoJob ELSE [job EXCEPT !.stale = TRUE]

CreateAction ==
    /\ ~born
    /\ born' = TRUE /\ Outdate
    /\ \E s \in Script, i \in Invokes :
          /\ Taken(s, Script) /\ Taken(i, Invokes)
          /\ WriteAction([script |-> s, invokes |-> i, status |-> NoStatus])
    /\ UNCHANGED <<actors, requests, actorStream, alive, informers, caches, hand, monitor, lost,
                   budgets, nilled, amiss, revived, tidy>>

Change ==
    \/ Quiet /\ changes < MaxChanges /\ changes' = changes + 1 /\ UNCHANGED incidents
    \/ ~Quiet /\ Incident

\* PostAction of the same name, which will keep the Status it has read here; then
\* it checks the graph of calls.
PostReads ==
    /\ action # NoAction /\ actionReq = NoAction /\ Change
    /\ \E s \in Script, i \in Invokes :
          /\ <<s, i>> # <<action.script, action.invokes>>
          /\ actionReq' = [action EXCEPT !.script = s, !.invokes = i]
    /\ UNCHANGED <<etcd, actorReq, streams, alive, informers, caches, hand, monitor, job, lost,
                   history>>

\* The action is written whatever has been written or deleted meanwhile.
ActionReqLands ==
    /\ actionReq # NoAction
    /\ WriteAction(actionReq) /\ Outdate
    /\ actionReq' = NoAction
    /\ nilled' = (nilled \/ (actionReq.status = NoStatus /\ action # NoAction
                                /\ action.status # NoStatus))
    /\ amiss' = (amiss \/ action = NoAction \/ action.status # actionReq.status)
    /\ tidy' = FALSE
    /\ UNCHANGED <<actors, born, actorReq, actorStream, alive, informers, caches, hand, monitor,
                   lost, budgets, revived>>

DeleteAction ==
    /\ action # NoAction /\ Change /\ Outdate
    /\ WriteAction(NoAction)
    /\ tidy' = (Quiet /\ actionCache = action /\ action.status # NoStatus
                  /\ Live = action.status.actors)
    /\ UNCHANGED <<actors, born, requests, actorStream, alive, informers, caches, hand, monitor,
                   lost, nilled, amiss, revived>>

\* PutActor: the actor is looked up, and written later, whoever deletes it in between.
PutActor(a, phase) ==
    /\ a \in Live /\ actorReq[a] = NoActor
    /\ actorReq' = [actorReq EXCEPT ![a] = [actors[a] EXCEPT !.phase = phase]]
    /\ UNCHANGED <<etcd, actionReq, streams, alive, informers, caches, hand, monitor, job, lost,
                   history>>

ActorReqLands(a) ==
    /\ actorReq[a] # NoActor
    /\ WriteActor(a, actorReq[a])
    /\ actorReq' = [actorReq EXCEPT ![a] = NoActor]
    /\ revived' = IF actors[a] = NoActor THEN revived \cup {a} ELSE revived
    /\ tidy' = (tidy /\ actorReq[a].phase # "bad")
    /\ UNCHANGED <<action, born, actionReq, actionStream, alive, informers, caches, hand, monitor,
                   job, lost, budgets, unseen, nilled, amiss>>

\* Scheduled and started by a cubelet, which takes seconds.
ActorRuns(a) ==
    /\ PutActor(a, "running")
    /\ actors[a].phase = "starting"
    /\ AtRest

\* The cubelet's routine reports an actor that has started as it is.
ActorReports(a) == PutActor(a, actors[a].phase) /\ actors[a].phase # "starting" /\ Incident

ActorGoesBad(a) == PutActor(a, "bad") /\ actors[a].phase # "bad" /\ Incident

Start ==
    /\ ~alive
    /\ alive' = TRUE
    /\ UNCHANGED <<etcd, requests, streams, informers, caches, hand, monitor, job, lost, budgets,
                   history>>

Kill == alive /\ Incident /\ Down

-----------------------------------------------------------------------------
\* The brain watches and nothing has been created; restarts begin with a list.
Init ==
    /\ action = NoAction /\ actors = [a \in Actor |-> NoActor] /\ born = FALSE
    /\ actionReq = NoAction /\ actorReq = [a \in Actor |-> NoActor]
    /\ topic = 0 /\ evoke = 0 /\ recent = 0 /\ calls = 0 /\ reading = TRUE
    /\ alive = TRUE /\ lost = FALSE
    /\ actionInf = "watch" /\ actorInf = "watch"
    /\ actionStream = <<>> /\ actorStream = <<>>
    /\ actionCache = NoAction /\ actorCache = [a \in Actor |-> NoActor]
    /\ actionOut = NoEvent /\ actorOut = NoEvent /\ hand = NoEvent
    /\ job = NoJob
    /\ changes = 0 /\ incidents = 0
    /\ unseen = FALSE /\ nilled = FALSE /\ amiss = FALSE /\ revived = {} /\ tidy = FALSE

Informs == ListActions \/ ListActors \/ Connect \/ InformAction \/ InformActor \/ Receive
Handles ==
    \/ HandleActor \/ HandleActionCreate \/ HandleActionUpdate \/ HandleActionRemove
    \/ HandleRequest \/ Panics
JobSteps == JobCreates \/ JobDeletes \/ JobUpdates \/ JobEnds \/ JobLooksUp \/ JobWrites
Failures ==
    \/ LoseWatch \/ NoTopic \/ JobFailsToCreate \/ JobFailsOnActor \/ JobFailsToWrite
    \/ MonitorEnds \/ Kill \/ \E a \in Actor : ActorReports(a) \/ ActorGoesBad(a)

Next ==
    \/ Informs \/ Handles \/ JobSteps \/ Routine \/ MonitorReads \/ Failures
    \/ MinutePasses \/ Call \/ CreateAction \/ PostReads \/ ActionReqLands \/ DeleteAction
    \/ Start \/ \E a \in Actor : ActorRuns(a) \/ ActorReqLands(a)

Spec == Init /\ [][Next]_vars

\* While the brain can go on it does, handlers before routines; the API server
\* answers; actors start.
FairSpec ==
    /\ Spec
    /\ WF_vars(Informs \/ Handles \/ JobSteps \/ MonitorReads)
    /\ WF_vars(Routine) /\ WF_vars(ActionReqLands)
    /\ \A a \in Actor : WF_vars(ActorRuns(a)) /\ WF_vars(ActorReqLands(a))

-----------------------------------------------------------------------------
\* A cached action without a Status has a cause, as a cached ReplicaSet has.
\* Until it has one, a call of the action ends the process.
NilStatusHasCause ==
    alive /\ actionCache # NoAction /\ actionCache.status = NoStatus =>
        \/ action = NoAction \/ unseen \/ nilled \/ lost
        \/ \E e \in {actionOut, hand} \ {NoEvent} : e.type = "create"
        \/ job # NoJob /\ job.kind = "event"
        \/ \E i \in DOMAIN actionStream :
              actionStream[i] = NoAction \/ actionStream[i].status # NoStatus

\* What the brain has not heard yet.
Pending ==
    \/ actorStream # <<>> \/ actorOut # NoEvent \/ hand # NoEvent
    \/ actionStream # <<>> \/ actionOut # NoEvent

\* A call for which no actor is created although none exists has been handled
\* with a Status that is out of date, and the news is on its way.
DropHasCause ==
    [][HandleRequest /\ ~lost' /\ job' = NoJob /\ Live = {} =>
        Pending \/ amiss \/ unseen]_vars

Stopped == ~alive \/ lost \/ action = NoAction \/ ~Known

\* An actor that came back in another phase than Running: the informer has no event of it.
Uncounted == \E a \in revived \cap Live : actorCache[a] = NoActor

AsManyAsDesired ==
    /\ action # NoAction /\ action.status # NoStatus
    /\ {a \in Live : actors[a].phase # "running"} = {}
    /\ Cardinality(Live) = action.status.desired

\* An action comes to have the actors it desires, unless the brain stops.
Converges == []<>Stopped \/ []<>amiss \/ []<>Uncounted \/ <>[]AsManyAsDesired

\* The actors of an action that is deleted while all is settled are deleted.
RemovalCleans == tidy ~> (~tidy \/ lost \/ Live \subseteq revived)
=============================================================================
