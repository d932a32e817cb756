------------------------- MODULE ActionBrain_proofs -------------------------
(***************************************************************************)
(* The types of the action brain, why a cached action has no Status, and   *)
(* why a call is dropped, for any actors and scripts and all bounds.       *)
(***************************************************************************)
EXTENDS ActionBrain, FiniteSetTheorems, TLAPS

-----------------------------------------------------------------------------
(* Types *)

\* What the types rest on: no call is counted before it is reported, only a job
\* with a Status creates actors or ends with a PUT, and one that shares its Status
\* with the cache has the cache's object.
Counted == topic + recent <= calls

Working == job # NoJob =>
    /\ job.toCreate > 0 => job.kind \in {"request", "routine"}
    /\ job.kind \in {"request", "event", "routine"} => job.obj.status # NoStatus
    /\ job.shared => actionCache = job.obj

Typed == TypeOK /\ Counted /\ Working

\* A step that takes from the budget of incidents stays within it.
LEMMA IncidentTyped ==
    ASSUME changes \in 0..MaxChanges, incidents \in 0..MaxIncidents, Incident
    PROVE  changes' \in 0..MaxChanges /\ incidents' \in 0..MaxIncidents
  BY BoundAssumption DEF Incident

\* A write of the action keeps the types of what it changes.
LEMMA WriteActionTyped ==
    ASSUME Typed, NEW o \in Action \cup {NoAction}, WriteAction(o)
    PROVE  /\ action' = o /\ action' \in Action \cup {NoAction}
           /\ actionStream' \in Seq(Action \cup {NoAction})
           /\ unseen' \in BOOLEAN
<1>1. Append(actionStream, o) \in Seq(Action \cup {NoAction})
  BY DEF Typed, TypeOK
<1>2. unseen' \in BOOLEAN
  BY DEF WriteAction
<1>3. QED
  BY <1>1, <1>2 DEF Typed, TypeOK, WriteAction

\* So does a write of an actor.
LEMMA WriteActorTyped ==
    ASSUME Typed, NEW a \in Actor, NEW o \in ActorObj \cup {NoActor}, WriteActor(a, o)
    PROVE  actors' \in [Actor -> ActorObj \cup {NoActor}] /\ actorStream' \in Seq(ActorMsg)
<1>1. [actor |-> a, obj |-> o] \in ActorMsg
  BY DEF ActorMsg
<1>2. Append(actorStream, [actor |-> a, obj |-> o]) \in Seq(ActorMsg)
  BY <1>1 DEF Typed, TypeOK
<1>3. QED
  BY <1>2 DEF Typed, TypeOK, WriteActor

\* An action with another Status or specification is an action.
LEMMA ActionWith ==
    ASSUME NEW o \in Action
    PROVE  /\ o.script \in Script /\ o.status \in Status \cup {NoStatus} /\ o # NoAction
           /\ \A s \in Status : [o EXCEPT !.status = s] \in Action /\ s # NoStatus
                                /\ [o EXCEPT !.status = s].status = s
           /\ \A s \in Script, i \in Invokes :
                 /\ [o EXCEPT !.script = s, !.invokes = i] \in Action
                 /\ [o EXCEPT !.script = s, !.invokes = i].status = o.status
  BY NoValueAssumption DEF Action

\* A new job is one, with the object and the actors it is given.
LEMMA StartedJob ==
    ASSUME NEW kind \in {"request", "event", "update", "remove", "routine"},
           NEW obj \in Action, NEW n \in Nat, NEW todo \in SUBSET Actor,
           NEW shared \in BOOLEAN, StartJob(kind, obj, n, todo, shared)
    PROVE  /\ job' \in Job /\ job' # NoJob
           /\ job'.kind = kind /\ job'.obj = obj /\ job'.toCreate = n /\ job'.shared = shared
<1> DEFINE stale == actionCache # action
<1>1. stale \in BOOLEAN
  OBVIOUS
<1> HIDE DEF stale
<1>2. job' = [kind |-> kind, obj |-> obj, toCreate |-> n, todo |-> todo,
              found |-> FALSE, shared |-> shared, stale |-> stale]
  BY DEF StartJob, stale
<1>3. job' \in Job
  BY <1>1, <1>2, Zenon DEF Job
<1>4. QED
  BY <1>2, <1>3, NoValueAssumption

\* A job that goes on is one.
LEMMA JobGoesOn ==
    ASSUME NEW j \in Job
    PROVE  /\ j # NoJob
           /\ [j EXCEPT !.shared = FALSE] \in Job
           /\ [j EXCEPT !.stale = TRUE] \in Job
           /\ [j EXCEPT !.found = TRUE] \in Job
           /\ \A a \in Actor : [j EXCEPT !.todo = @ \ {a}] \in Job
           /\ j.toCreate > 0 => [j EXCEPT !.toCreate = @ - 1] \in Job
<1>1. j # NoJob
  BY NoValueAssumption
<1>2. [j EXCEPT !.shared = FALSE] \in Job
  BY DEF Job
<1>3. [j EXCEPT !.stale = TRUE] \in Job
  BY DEF Job
<1>4. [j EXCEPT !.found = TRUE] \in Job
  BY DEF Job
<1>5. \A a \in Actor : [j EXCEPT !.todo = @ \ {a}] \in Job
  BY DEF Job
<1>6. j.toCreate > 0 => [j EXCEPT !.toCreate = @ - 1] \in Job
  BY DEF Job
<1>7. QED
  BY <1>1, <1>2, <1>3, <1>4, <1>5, <1>6
\* What a step leaves alone of the job and of the cache keeps what rests on it.
LEMMA JobUntouched ==
    ASSUME Typed, UNCHANGED <<job, actionCache>>
    PROVE  job' \in Job \cup {NoJob} /\ Working'
  BY DEF Typed, TypeOK, Working

\* No job is at work, or a cache that drops its Status leaves it to the job.
LEMMA UnsharedJob ==
    ASSUME Typed, Unshare
    PROVE  job' \in Job \cup {NoJob} /\ Working'
<1>1. job = NoJob => job' = NoJob
  BY DEF Unshare
<1>2. job # NoJob => /\ job' = [job EXCEPT !.shared = FALSE] /\ job \in Job
  BY DEF Unshare, Typed, TypeOK
<1>3. job # NoJob => job' \in Job
  BY <1>2, JobGoesOn
<1>4. job # NoJob => job'.toCreate = job.toCreate /\ job'.kind = job.kind
                     /\ job'.obj = job.obj /\ ~job'.shared
  BY <1>2 DEF Job
<1>5. QED
  BY <1>1, <1>3, <1>4 DEF Typed, Working

\* A user's write makes the job's copy old and changes nothing else of it.
LEMMA OutdatedJob ==
    ASSUME Typed, Outdate, actionCache' = actionCache
    PROVE  job' \in Job \cup {NoJob} /\ Working'
<1>1. job = NoJob => job' = NoJob
  BY DEF Outdate
<1>2. job # NoJob => /\ job' = [job EXCEPT !.stale = TRUE] /\ job \in Job
  BY DEF Outdate, Typed, TypeOK
<1>3. job # NoJob => job' \in Job
  BY <1>2, JobGoesOn
<1>4. job # NoJob => job'.toCreate = job.toCreate /\ job'.kind = job.kind
                     /\ job'.obj = job.obj /\ job'.shared = job.shared
  BY <1>2 DEF Job
<1>5. QED
  BY <1>1, <1>3, <1>4 DEF Typed, Working

\* A job that has done a part of its work.
LEMMA PartDone ==
    ASSUME Typed, job # NoJob, actionCache' = actionCache,
           \/ \E a \in Actor : job' = [job EXCEPT !.todo = @ \ {a}]
           \/ job.toCreate > 0 /\ job' = [job EXCEPT !.toCreate = @ - 1]
           \/ job' = [job EXCEPT !.found = TRUE]
    PROVE  job' \in Job \cup {NoJob} /\ Working'
<1>1. job \in Job /\ job.toCreate \in Nat
  BY DEF Typed, TypeOK, Job
<1>2. job' \in Job
  BY <1>1, JobGoesOn
<1>3. job'.kind = job.kind /\ job'.obj = job.obj /\ job'.shared = job.shared
  BY <1>1 DEF Job
<1>4. job'.toCreate > 0 => job.toCreate > 0
  BY <1>1 DEF Job
<1>5. QED
  BY <1>2, <1>3, <1>4 DEF Typed, Working

\* What outlives its sender is an action, or an actor's, with a Status.
LEMMA OutlivedTyped ==
    ASSUME Typed
    PROVE  /\ OutlivedPut \subseteq Action
           /\ OutlivedUpdates \subseteq [Actor -> ActorObj \cup {NoActor}]
<1>1. ASSUME job # NoJob
      PROVE  job.obj \in Action /\ job.todo \subseteq Actor
             /\ [phase |-> "running", script |-> job.obj.script] \in ActorObj
  BY <1>1, ActionWith DEF Typed, TypeOK, Job, ActorObj, Phase
<1>2. OutlivedPut \subseteq Action
  BY <1>1 DEF OutlivedPut
<1>3. ASSUME NEW f \in OutlivedUpdates PROVE f \in [Actor -> ActorObj \cup {NoActor}]
  <2>1. job # NoJob
    BY <1>3 DEF OutlivedUpdates
  <2>2. PICK a \in Actor, o \in ActorObj : f = [actorReq EXCEPT ![a] = o]
    BY <1>1, <1>3, <2>1 DEF OutlivedUpdates
  <2>3. QED
    BY <2>2 DEF Typed, TypeOK
<1>4. QED
  BY <1>2, <1>3

\* A process that ends leaves nothing that has a wrong type.
LEMMA DownTyped ==
    ASSUME Typed, Down, changes' \in 0..MaxChanges, incidents' \in 0..MaxIncidents
    PROVE  Typed'
<1>1. unseen' \in BOOLEAN
  BY DEF Down
<1>2. 0 \in 0..MaxCalls /\ 0 \in 0..ChanCap
  BY BoundAssumption
<1>3. (topic + recent <= calls)'
  BY DEF Typed, TypeOK, Counted, Down
<1>4. [a \in Actor |-> NoActor] \in [Actor -> ActorObj \cup {NoActor}]
  OBVIOUS
<1>5. {unseen, nilled, amiss, tidy}' \subseteq BOOLEAN
      /\ {born, reading, alive, lost}' \subseteq BOOLEAN
  BY <1>1 DEF Down, etcd, Typed, TypeOK
<1>6. job' = NoJob /\ Working'
  BY DEF Down, Working
<1>7. actionStream' = <<>> /\ actorStream' = <<>> /\ actionCache' = NoAction
      /\ actorCache' = [a \in Actor |-> NoActor]
  BY DEF Down
<1>8. actionReq' \in Action \cup {NoAction}
      /\ actorReq' \in [Actor -> ActorObj \cup {NoActor}]
  BY OutlivedTyped DEF Down, Typed, TypeOK
<1>9. TypeOK'
  BY <1>2, <1>4, <1>5, <1>6, <1>7, <1>8 DEF Typed, TypeOK, Down, etcd
<1>10. QED
  BY <1>3, <1>6, <1>9 DEF Typed, Counted

\* What the informers do.
LEMMA InformersTyped ==
    ASSUME Typed, Informs \/ LoseWatch
    PROVE  Typed'
<1> USE DEF Typed
<1>1. ASSUME ListActions PROVE Typed'
  <2>1. job' \in Job \cup {NoJob} /\ Working'
    BY <1>1, UnsharedJob DEF ListActions
  <2>2. QED
    BY <1>1, <2>1 DEF ListActions, TypeOK, Counted, etcd, requests, streams, monitor, budgets,
                      history
<1>2. ASSUME ListActors PROVE Typed'
  BY <1>2 DEF ListActors, TypeOK, Counted, Working, etcd, requests, streams, monitor, budgets,
              history
<1>3. ASSUME Connect PROVE Typed'
  BY <1>3 DEF Connect, TypeOK, Counted, Working, etcd, requests, streams, caches, monitor, budgets,
              history
<1>4. ASSUME InformAction PROVE Typed'
  <2>1. job' \in Job \cup {NoJob} /\ Working' /\ unseen' \in BOOLEAN
    BY <1>4, UnsharedJob, JobUntouched DEF InformAction, TypeOK
  <2>2. Head(actionStream) \in Action \cup {NoAction}
        /\ Tail(actionStream) \in Seq(Action \cup {NoAction})
    BY <1>4 DEF InformAction, TypeOK
  <2>3. \A o \in Action : [type |-> "remove", obj |-> o] \in Event
                          /\ [type |-> "create", obj |-> o] \in Event
                          /\ [type |-> "update", obj |-> o] \in Event
    BY DEF Event
  <2>4. ActionNews(Head(actionStream)) \in Event \cup {NoEvent}
    BY <2>2, <2>3 DEF ActionNews, TypeOK
  <2>5. QED
    BY <1>4, <2>1, <2>2, <2>4 DEF InformAction, TypeOK, Counted, etcd, requests, monitor, budgets,
                                  history
<1>5. ASSUME InformActor PROVE Typed'
  <2>1. Head(actorStream) \in ActorMsg /\ Tail(actorStream) \in Seq(ActorMsg)
    BY <1>5 DEF InformActor, TypeOK
  <2>2. PICK a \in Actor, new \in ActorObj \cup {NoActor} :
           a = Head(actorStream).actor /\ new = Head(actorStream).obj
    BY <2>1 DEF ActorMsg
  <2>3. [type |-> "actorRemove", actor |-> a] \in Event
        /\ [type |-> "actorCreate", actor |-> a] \in Event
    BY DEF Event
  <2>4. actorOut' \in Event \cup {NoEvent}
    BY <1>5, <2>2, <2>3 DEF InformActor
  <2>5. actorCache' \in [Actor -> ActorObj \cup {NoActor}]
    BY <1>5, <2>2 DEF InformActor, TypeOK
  <2>6. QED
    BY <1>5, <2>1, <2>4, <2>5
       DEF InformActor, TypeOK, Counted, Working, etcd, requests, monitor, budgets, history
<1>6. ASSUME Receive PROVE Typed'
  BY <1>6 DEF Receive, TypeOK, Counted, Working, etcd, requests, streams, caches, monitor, budgets,
              history
<1>7. ASSUME LoseWatch PROVE Typed'
  <2>1. changes' \in 0..MaxChanges /\ incidents' \in 0..MaxIncidents
    BY <1>7, IncidentTyped DEF LoseWatch, TypeOK
  <2>2. unseen' \in BOOLEAN /\ amiss' \in BOOLEAN /\ tidy' \in BOOLEAN
    BY <1>7 DEF LoseWatch, TypeOK
  <2>3. actionStream' \in Seq(Action \cup {NoAction}) /\ actorStream' \in Seq(ActorMsg)
    <3>1. <<>> \in Seq(Action \cup {NoAction}) /\ <<>> \in Seq(ActorMsg)
      OBVIOUS
    <3>2. actionStream' \in {<<>>, actionStream} /\ actorStream' \in {<<>>, actorStream}
      BY <1>7 DEF LoseWatch
    <3>3. QED
      BY <3>1, <3>2 DEF TypeOK
  <2>4. QED
    BY <1>7, <2>1, <2>2, <2>3 DEF LoseWatch, TypeOK, Counted, Working, etcd, requests, caches,
                                  monitor
<1>8. QED
  BY <1>1, <1>2, <1>3, <1>4, <1>5, <1>6, <1>7 DEF Informs

\* What a handler finds: a Status where it looks at one.
LEMMA KnownStatus ==
    ASSUME Typed, Known
    PROVE  actionCache \in Action /\ actionCache.status \in Status
  BY ActionWith DEF Typed, TypeOK, Known

\* A handler's job starts with the event taken; the types of all else are kept.
LEMMA TookTyped ==
    ASSUME Typed, Took, job' \in Job \cup {NoJob}, Working', actionCache' \in Action \cup {NoAction}
    PROVE  Typed'
  BY DEF Typed, TypeOK, Counted, Took, etcd, requests, streams, informers, monitor, budgets, history

\* What the loop does with the events of the informers.
LEMMA HandlersTyped ==
    ASSUME Typed, HandleActor \/ HandleActionCreate \/ HandleActionUpdate
                  \/ HandleActionRemove \/ NoTopic
    PROVE  Typed'
<1> USE DEF Typed
<1>0. hand # NoEvent => /\ hand \in Event
                        /\ hand.type \in {"create", "update", "remove"} => hand.obj \in Action
                        /\ hand.type \in {"actorCreate", "actorRemove"} => hand.actor \in Actor
  BY DEF TypeOK, Event
<1>1. ASSUME HandleActor PROVE Typed'
  <2>1. CASE ~Known
    BY <1>1, <2>1, JobUntouched, TookTyped DEF HandleActor, TypeOK
  <2>2. CASE Known
    <3>1. PICK a \in Actor : a = hand.actor
      BY <1>0, <1>1 DEF HandleActor
    <3>2. PICK s \in Status : s = actionCache.status
      BY <2>2, KnownStatus
    <3>3. [s EXCEPT !.actors = @ \cup {a}, !.toRun = @ \ {a}] \in Status
          /\ [s EXCEPT !.actors = @ \ {a}, !.toKill = @ \ {a}] \in Status
      BY DEF Status
    <3>4. PICK new \in Status : /\ actionCache' = [actionCache EXCEPT !.status = new]
                                /\ StartJob("event", actionCache', 0, {}, FALSE)
      BY <1>1, <2>2, <3>1, <3>2, <3>3 DEF HandleActor
    <3>5. actionCache' \in Action /\ actionCache'.status # NoStatus
      BY <2>2, <3>4, KnownStatus, ActionWith
    <3>6. job' \in Job /\ job'.kind = "event" /\ job'.obj = actionCache'
          /\ job'.toCreate = 0 /\ job'.shared = FALSE
      BY <3>4, <3>5, StartedJob
    <3>7. Working'
      BY <3>5, <3>6 DEF Working
    <3>8. QED
      BY <1>1, <3>5, <3>6, <3>7, TookTyped DEF HandleActor
  <2>3. QED
    BY <2>1, <2>2
<1>2. ASSUME HandleActionCreate PROVE Typed'
  <2>1. EmptyStatus \in Status
    BY DEF EmptyStatus, Status
  <2>2. hand.obj \in Action
    BY <1>0, <1>2 DEF HandleActionCreate
  <2>3. [hand.obj EXCEPT !.status = EmptyStatus] \in Action
        /\ [hand.obj EXCEPT !.status = EmptyStatus].status # NoStatus
    BY <2>2, <2>1, NoValueAssumption DEF Action
  <2>4. PICK o \in Action : o = [hand.obj EXCEPT !.status = EmptyStatus] /\ o.status # NoStatus
    BY <2>3
  <2>5. StartJob("event", o, 0, {}, FALSE)
    BY <1>2, <2>4 DEF HandleActionCreate
  <2>6. job' \in Job /\ job'.kind = "event" /\ job'.obj = o
        /\ job'.toCreate = 0 /\ job'.shared = FALSE
    BY <2>5, StartedJob
  <2>7. QED
    BY <1>2, <2>4, <2>6, TookTyped DEF HandleActionCreate, Working, TypeOK
<1>3. ASSUME HandleActionUpdate PROVE Typed'
  <2>1. StartJob("update", hand.obj, 0, CachedRunning, FALSE) /\ hand.obj \in Action
    BY <1>0, <1>3 DEF HandleActionUpdate
  <2>2. CachedRunning \in SUBSET Actor
    BY DEF CachedRunning
  <2>3. job' \in Job /\ job'.kind = "update" /\ job'.toCreate = 0 /\ job'.shared = FALSE
    BY <2>1, <2>2, StartedJob
  <2>4. QED
    BY <1>3, <2>3, TookTyped DEF HandleActionUpdate, Working, TypeOK
<1>4. ASSUME HandleActionRemove PROVE Typed'
  <2>1. StartJob("remove", hand.obj, 0, hand.obj.status.actors, FALSE) /\ hand.obj \in Action
    BY <1>0, <1>4 DEF HandleActionRemove
  <2>2. hand.obj.status \in Status
    BY <1>4, <2>1, ActionWith DEF HandleActionRemove, HandPanics
  <2>3. hand.obj.status.actors \in SUBSET Actor
    BY <2>2 DEF Status
  <2>4. job' \in Job /\ job'.kind = "remove" /\ job'.toCreate = 0 /\ job'.shared = FALSE
    BY <2>1, <2>3, StartedJob
  <2>5. QED
    BY <1>4, <2>4, TookTyped DEF HandleActionRemove, Working, TypeOK
<1>5. ASSUME NoTopic PROVE Typed'
  <2>1. changes' \in 0..MaxChanges /\ incidents' \in 0..MaxIncidents
    BY <1>5, IncidentTyped DEF NoTopic, TypeOK
  <2>2. QED
    BY <1>5, <2>1 DEF NoTopic, TypeOK, Counted, Working, etcd, requests, streams, informers,
                      caches, monitor
<1>6. QED
  BY <1>1, <1>2, <1>3, <1>4, <1>5

\* What the goroutine of calls and the routine do.
LEMMA RequestTyped ==
    ASSUME Typed, HandleRequest
    PROVE  Typed'
<1> USE DEF Typed
<1>1. evoke' \in 0..ChanCap /\ lost' \in BOOLEAN
  <2>1. evoke' \in 0..ChanCap
    BY BoundAssumption DEF HandleRequest, TypeOK
  <2>2. lost' \in {TRUE, lost}
    BY Zenon DEF HandleRequest
  <2>3. QED
    BY <2>1, <2>2 DEF TypeOK
<1>2. job' \in Job \cup {NoJob} /\ Working'
  <2>1. CASE UNCHANGED job
    BY <2>1, JobUntouched DEF HandleRequest, caches
  <2>2. CASE Known /\ StartJob("request", actionCache, 1, {}, TRUE)
    <3>1. actionCache \in Action /\ actionCache.status # NoStatus
      BY <2>2, KnownStatus, NoValueAssumption
    <3>2. job' \in Job /\ job'.kind = "request" /\ job'.obj = actionCache
      BY <2>2, <3>1, StartedJob
    <3>3. QED
      BY <3>1, <3>2 DEF Working, HandleRequest, caches
  <2>3. QED
    BY <2>1, <2>2 DEF HandleRequest
<1>3. QED
  BY <1>1, <1>2 DEF HandleRequest, TypeOK, Counted, etcd, requests, streams, informers, caches,
                    budgets, history

\* The routine counts actors: there are finitely many.
LEMMA ReplicasCounted ==
    ASSUME NEW S \in SUBSET Actor
    PROVE  Cardinality(S) \in Nat
  BY ActorAssumption, FS_Subset, FS_CardinalityType

\* The replicas it comes to want are a number.
LEMMA ScaledIsNat ==
    ASSUME Typed, NEW n \in Nat
    PROVE  Scaled(n) \in Nat
<1>1. recent \in Nat
  BY BoundAssumption DEF Typed, TypeOK
<1>2. recent \div PerReplica \in Nat
  BY <1>1, BoundAssumption
<1>3. Target \in Nat
  BY <1>2, BoundAssumption DEF Target
<1>4. QED
  BY <1>3 DEF Scaled

LEMMA RoutineTyped ==
    ASSUME Typed, Routine
    PROVE  Typed'
<1> USE DEF Typed
<1>1. changes' \in 0..MaxChanges /\ incidents' \in 0..MaxIncidents
  BY IncidentTyped DEF Routine, TypeOK, requests, budgets
<1>2. PICK s \in Status : s = actionCache.status
  BY KnownStatus DEF Routine
<1>3. s.desired \in Nat /\ s.actors \in SUBSET Actor /\ s.toRun \in SUBSET Actor
      /\ s.toKill \in SUBSET Actor
  BY DEF Status
<1>4. PICK desired \in Nat, surplus \in SUBSET CachedRunning : StartRoutine(desired, surplus)
  <2>1. Scaled(Cardinality(s.actors)) \in Nat
    BY <1>3, ReplicasCounted, ScaledIsNat
  <2>2. QED
    BY <1>2, <1>3, <2>1 DEF Routine
<1>5. CachedRunning \in SUBSET Actor /\ CachedBad \in SUBSET Actor
  BY DEF CachedRunning, CachedBad
<1>6. PICK run \in SUBSET Actor : run = CachedRunning
  BY <1>5
<1>7. PICK kill \in SUBSET Actor : kill = s.toKill \cup s.toRun \cup surplus \cup CachedBad
  BY <1>3, <1>4, <1>5
<1>8. PICK missing \in Nat :
         missing = IF desired > Cardinality(run) THEN desired - Cardinality(run) ELSE 0
  BY <1>4, ReplicasCounted
<1>9. PICK new \in Status :
         new = [desired |-> desired, actors |-> run, toRun |-> {}, toKill |-> kill]
  BY DEF Status
<1>10. PICK o \in Action : o = [actionCache EXCEPT !.status = new] /\ o.status # NoStatus
  <2>1. actionCache \in Action
    BY KnownStatus DEF Routine
  <2>2. [actionCache EXCEPT !.status = new] \in Action
        /\ [actionCache EXCEPT !.status = new].status # NoStatus
    BY <2>1, NoValueAssumption DEF Action
  <2>3. QED
    BY <2>2
<1>11. StartJob("routine", o, missing, kill, FALSE)
  BY <1>2, <1>4, <1>6, <1>7, <1>8, <1>9, <1>10 DEF StartRoutine
<1>12. job' \in Job /\ job'.kind = "routine" /\ job'.obj = o /\ ~job'.shared
  BY <1>11, StartedJob
<1>13. Working'
  BY <1>10, <1>12 DEF Working
<1>14. QED
  BY <1>1, <1>12, <1>13 DEF Routine, TypeOK, Counted, etcd, requests, streams, informers, caches,
                            monitor, history

\* What a job does on the way to its PUT.
LEMMA JobTyped ==
    ASSUME Typed, \/ JobCreates \/ JobFailsToCreate \/ JobDeletes \/ JobUpdates
                  \/ JobFailsOnActor \/ JobEnds \/ JobLooksUp \/ JobWrites \/ JobFailsToWrite
    PROVE  Typed'
<1> USE DEF Typed
<1>0. job # NoJob => job \in Job /\ job.obj \in Action /\ job.toCreate \in Nat
  BY DEF TypeOK, Job
<1>1. ASSUME JobCreates PROVE Typed'
  <2>1. job # NoJob /\ job \in Job /\ job.toCreate > 0 /\ job.toCreate \in Nat /\ job.obj \in Action
    BY <1>0, <1>1 DEF JobCreates
  <2>2. job.obj.status \in Status
    BY <2>1, ActionWith DEF Working
  <2>3. PICK a \in Fresh :
           /\ WriteActor(a, [phase |-> "starting", script |-> job.obj.script])
           /\ LET new == [job.obj.status EXCEPT !.toRun = @ \cup {a},
                              !.desired = @ + IF job.kind = "request" THEN 1 ELSE 0]
              IN  /\ job' = [job EXCEPT !.toCreate = @ - 1, !.obj.status = new]
                  /\ actionCache' = IF job.shared THEN [actionCache EXCEPT !.status = new]
                                                  ELSE actionCache
    BY <1>1 DEF JobCreates
  <2>4. a \in Actor /\ [phase |-> "starting", script |-> job.obj.script] \in ActorObj
    BY <2>1, ActionWith DEF Fresh, ActorObj, Phase
  <2>5. PICK one \in {0, 1} : one = IF job.kind = "request" THEN 1 ELSE 0
    OBVIOUS
  <2>6. PICK new \in Status :
           /\ new # NoStatus
           /\ new = [job.obj.status EXCEPT !.toRun = @ \cup {a}, !.desired = @ + one]
    <3>1. [job.obj.status EXCEPT !.toRun = @ \cup {a}, !.desired = @ + one] \in Status
      <4>1. PICK s \in Status : s = job.obj.status
        BY <2>2
      <4>2. s.toRun \cup {a} \in SUBSET Actor /\ s.desired + one \in Nat
        BY <2>4, <2>5 DEF Status
      <4>3. [s EXCEPT !.toRun = s.toRun \cup {a}, !.desired = s.desired + one] \in Status
        BY <4>2 DEF Status
      <4>4. QED
        BY <4>1, <4>3
    <3>2. QED
      BY <3>1, NoValueAssumption
  <2>7. job' = [job EXCEPT !.toCreate = @ - 1, !.obj.status = new]
        /\ actionCache' = IF job.shared THEN [actionCache EXCEPT !.status = new] ELSE actionCache
    BY <2>3, <2>5, <2>6
  <2>8. PICK o \in Action : o = [job.obj EXCEPT !.status = new] /\ o.status # NoStatus
    <3>1. [job.obj EXCEPT !.status = new] \in Action
          /\ [job.obj EXCEPT !.status = new].status # NoStatus
      BY <2>1, <2>6 DEF Action
    <3>2. QED
      BY <3>1
  <2>9. job' = [job EXCEPT !.toCreate = job.toCreate - 1, !.obj = o]
    BY <2>1, <2>7, <2>8 DEF Job
  <2>10. job' \in Job /\ job'.kind = job.kind /\ job'.obj = o /\ job'.shared = job.shared
    <3>1. job.toCreate - 1 \in Nat
      BY <2>1
    <3>2. QED
      BY <2>1, <2>9, <3>1 DEF Job
  <2>11. job.shared => actionCache' = o
    BY <2>1, <2>7, <2>8 DEF Working
  <2>12. Working'
    BY <2>1, <2>8, <2>10, <2>11 DEF Working
  <2>13. actionCache' \in Action \cup {NoAction}
    BY <2>7, <2>11 DEF TypeOK
  <2>14. actors' \in [Actor -> ActorObj \cup {NoActor}] /\ actorStream' \in Seq(ActorMsg)
    BY <2>3, <2>4, WriteActorTyped
  <2>15. revived' \subseteq Actor
    BY <1>1 DEF JobCreates, TypeOK
  <2>16. QED
    BY <1>1, <2>10, <2>12, <2>13, <2>14, <2>15
       DEF JobCreates, TypeOK, Counted, requests, informers, monitor, budgets
<1>2. ASSUME JobFailsToCreate PROVE Typed'
  <2>1. changes' \in 0..MaxChanges /\ incidents' \in 0..MaxIncidents
    BY <1>2, IncidentTyped DEF JobFailsToCreate, TypeOK
  <2>2. job' \in Job \cup {NoJob} /\ Working'
    BY <1>2, PartDone DEF JobFailsToCreate, caches, Working
  <2>3. QED
    BY <1>2, <2>1, <2>2 DEF JobFailsToCreate, TypeOK, Counted, etcd, requests, streams,
                            informers, caches, monitor, history
<1>3. ASSUME JobDeletes \/ JobUpdates PROVE Typed'
  <2>1. job # NoJob /\ actionCache' = actionCache
    BY <1>3 DEF JobDeletes, JobUpdates, caches
  <2>2. PICK a \in job.todo, o \in ActorObj \cup {NoActor} :
           /\ WriteActor(a, o) \/ UNCHANGED <<actors, actorStream>>
           /\ job' = [job EXCEPT !.todo = @ \ {a}]
    <3>1. [phase |-> "running", script |-> job.obj.script] \in ActorObj
      BY <1>0, <2>1, ActionWith DEF ActorObj, Phase
    <3>2. QED
      BY <1>3, <3>1 DEF JobDeletes, JobUpdates
  <2>3. a \in Actor
    BY <1>0, <2>1, <2>2 DEF Job
  <2>4. job' \in Job \cup {NoJob} /\ Working'
    BY <2>1, <2>2, <2>3, PartDone
  <2>5. actors' \in [Actor -> ActorObj \cup {NoActor}] /\ actorStream' \in Seq(ActorMsg)
    BY <2>2, <2>3, WriteActorTyped DEF TypeOK
  <2>6. QED
    BY <1>3, <2>4, <2>5
       DEF JobDeletes, JobUpdates, TypeOK, Counted, requests, informers, caches, monitor, budgets,
           history
<1>4. ASSUME JobFailsOnActor PROVE Typed'
  <2>1. changes' \in 0..MaxChanges /\ incidents' \in 0..MaxIncidents
    BY <1>4, IncidentTyped DEF JobFailsOnActor, TypeOK
  <2>2. job.todo \subseteq Actor
    BY <1>0, <1>4 DEF JobFailsOnActor, Job
  <2>3. job' \in Job \cup {NoJob} /\ Working'
    BY <1>4, <2>2, PartDone DEF JobFailsOnActor, caches
  <2>4. actorReq' \in [Actor -> ActorObj \cup {NoActor}]
    BY <1>4, OutlivedTyped DEF JobFailsOnActor, TypeOK
  <2>5. QED
    BY <1>4, <2>1, <2>3, <2>4
       DEF JobFailsOnActor, TypeOK, Counted, etcd, streams, informers, caches, monitor
<1>5. ASSUME JobEnds PROVE Typed'
  BY <1>5 DEF JobEnds, TypeOK, Counted, Working, etcd, requests, streams, informers, caches,
              monitor, budgets, history
<1>6. ASSUME JobLooksUp PROVE Typed'
  <2>1. job' \in Job \cup {NoJob} /\ Working'
    BY <1>6, PartDone DEF JobLooksUp, AtPut, caches, Working
  <2>2. QED
    BY <1>6, <2>1 DEF JobLooksUp, TypeOK, Counted, etcd, requests, streams, informers, caches,
                      monitor, budgets, history
<1>7. ASSUME JobWrites PROVE Typed'
  <2>1. job.obj \in Action \cup {NoAction}
    BY <1>0, <1>7 DEF JobWrites, AtPut
  <2>2. action' \in Action \cup {NoAction} /\ actionStream' \in Seq(Action \cup {NoAction})
        /\ unseen' \in BOOLEAN
    BY <1>7, <2>1, WriteActionTyped DEF JobWrites
  <2>3. amiss' \in BOOLEAN
    BY <1>7 DEF JobWrites
  <2>4. QED
    BY <1>7, <2>2, <2>3
       DEF JobWrites, TypeOK, Counted, Working, requests, informers, caches, monitor, budgets
<1>8. ASSUME JobFailsToWrite PROVE Typed'
  <2>1. changes' \in 0..MaxChanges /\ incidents' \in 0..MaxIncidents
    BY <1>8, IncidentTyped DEF JobFailsToWrite, TypeOK
  <2>2. actionReq' \in Action \cup {NoAction}
    BY <1>8, OutlivedTyped DEF JobFailsToWrite, TypeOK
  <2>3. QED
    BY <1>8, <2>1, <2>2
       DEF JobFailsToWrite, TypeOK, Counted, Working, etcd, streams, informers, caches, monitor
<1>9. QED
  BY <1>1, <1>2, <1>3, <1>4, <1>5, <1>6, <1>7, <1>8

\* What users, the gateway, cubelets and the clock do, and restarts.
LEMMA OthersTyped ==
    ASSUME Typed, \/ MonitorReads \/ MonitorEnds \/ MinutePasses \/ Call \/ CreateAction
                  \/ PostReads \/ ActionReqLands \/ DeleteAction \/ Start \/ Kill \/ Panics
                  \/ \E a \in Actor : \/ ActorRuns(a) \/ ActorReports(a) \/ ActorGoesBad(a)
                                      \/ ActorReqLands(a)
    PROVE  Typed'
<1> USE DEF Typed
<1>0. Incident \/ UNCHANGED budgets =>
        changes' \in 0..MaxChanges /\ incidents' \in 0..MaxIncidents
  BY IncidentTyped DEF TypeOK, requests, budgets
<1>1. ASSUME MonitorReads PROVE Typed'
  <2>1. evoke' \in 0..ChanCap /\ topic' \in 0..MaxCalls /\ recent' \in 0..MaxCalls /\ Counted'
    <3>1. MaxCalls \in Nat /\ ChanCap \in Nat
      BY BoundAssumption
    <3>2. evoke \in 0..ChanCap /\ topic \in 0..MaxCalls /\ recent \in 0..MaxCalls
          /\ calls \in 0..MaxCalls /\ topic + recent <= calls
      BY DEF TypeOK, Counted
    <3>3. topic > 0 /\ evoke < ChanCap /\ topic' = topic - 1 /\ evoke' = evoke + 1
          /\ recent' = recent + 1 /\ calls' = calls
      BY <1>1 DEF MonitorReads
    <3>4. QED
      BY <3>1, <3>2, <3>3 DEF Counted
  <2>2. QED
    BY <1>1, <2>1 DEF MonitorReads, TypeOK, Working, etcd, requests, streams, informers, caches,
                      budgets, history
<1>2. ASSUME MinutePasses PROVE Typed'
  <2>1. recent' \in 0..MaxCalls /\ Counted'
    BY <1>2, BoundAssumption DEF MinutePasses, TypeOK, Counted
  <2>2. changes' \in 0..MaxChanges /\ incidents' \in 0..MaxIncidents
    BY <1>0, <1>2 DEF MinutePasses
  <2>3. QED
    BY <1>2, <2>1, <2>2 DEF MinutePasses, TypeOK, Working, etcd, requests, streams, informers,
                            caches, history
<1>3. ASSUME Call PROVE Typed'
  <2>1. calls' \in 0..MaxCalls /\ topic' \in 0..MaxCalls /\ Counted'
    <3>1. calls < MaxCalls /\ calls' = calls + 1 /\ topic' = topic + 1 /\ recent' = recent
      BY <1>3 DEF Call
    <3>2. /\ calls \in 0..MaxCalls /\ topic \in 0..MaxCalls /\ recent \in 0..MaxCalls
          /\ MaxCalls \in Nat /\ topic + recent <= calls
      BY BoundAssumption DEF TypeOK, Counted
    <3>3. QED
      BY <3>1, <3>2 DEF Counted
  <2>2. changes' \in 0..MaxChanges /\ incidents' \in 0..MaxIncidents
    BY <1>0, <1>3 DEF Call, AtRest
  <2>3. QED
    BY <1>3, <2>1, <2>2
       DEF Call, TypeOK, Working, etcd, requests, streams, informers, caches, history
<1>4. ASSUME CreateAction PROVE Typed'
  <2>1. PICK s \in Script, i \in Invokes :
           WriteAction([script |-> s, invokes |-> i, status |-> NoStatus])
    BY <1>4, Zenon DEF CreateAction
  <2>2. [script |-> s, invokes |-> i, status |-> NoStatus] \in Action \cup {NoAction}
    BY DEF Action
  <2>3. action' \in Action \cup {NoAction} /\ actionStream' \in Seq(Action \cup {NoAction})
        /\ unseen' \in BOOLEAN
    BY <2>1, <2>2, WriteActionTyped
  <2>4. job' \in Job \cup {NoJob} /\ Working'
    BY <1>4, OutdatedJob DEF CreateAction, caches
  <2>5. QED
    BY <1>4, <2>3, <2>4
       DEF CreateAction, TypeOK, Counted, requests, informers, caches, monitor, budgets
<1>5. Change => changes' \in 0..MaxChanges /\ incidents' \in 0..MaxIncidents
  BY <1>0, BoundAssumption DEF Change, TypeOK
<1>6. ASSUME PostReads \/ ActionReqLands PROVE Typed'
  <2>1. CASE PostReads
    <3>1. actionReq' \in Action \cup {NoAction}
      <4>1. action \in Action
        BY <2>1 DEF PostReads, TypeOK
      <4>2. PICK s \in Script, i \in Invokes :
               actionReq' = [action EXCEPT !.script = s, !.invokes = i]
        BY <2>1 DEF PostReads
      <4>3. QED
        BY <4>1, <4>2, ActionWith
    <3>2. QED
      BY <1>5, <2>1, <3>1 DEF PostReads, TypeOK, Counted, Working, etcd, streams, informers,
                              caches, monitor, history
  <2>2. CASE ActionReqLands
    <3>1. action' \in Action \cup {NoAction} /\ actionStream' \in Seq(Action \cup {NoAction})
          /\ unseen' \in BOOLEAN
      BY <2>2, WriteActionTyped DEF ActionReqLands, TypeOK
    <3>2. job' \in Job \cup {NoJob} /\ Working'
      BY <2>2, OutdatedJob DEF ActionReqLands, caches
    <3>3. {nilled, amiss, tidy}' \subseteq BOOLEAN /\ actionReq' = NoAction
      BY <2>2 DEF ActionReqLands
    <3>4. QED
      BY <2>2, <3>1, <3>2, <3>3
         DEF ActionReqLands, TypeOK, Counted, informers, caches, monitor, budgets
  <2>3. QED
    BY <1>6, <2>1, <2>2
<1>7. ASSUME DeleteAction PROVE Typed'
  <2>1. action' \in Action \cup {NoAction} /\ actionStream' \in Seq(Action \cup {NoAction})
        /\ unseen' \in BOOLEAN
    BY <1>7, WriteActionTyped DEF DeleteAction
  <2>2. job' \in Job \cup {NoJob} /\ Working'
    BY <1>7, OutdatedJob DEF DeleteAction, caches
  <2>3. tidy' \in BOOLEAN
    BY <1>7 DEF DeleteAction
  <2>4. QED
    BY <1>5, <1>7, <2>1, <2>2, <2>3
       DEF DeleteAction, TypeOK, Counted, requests, informers, caches, monitor
<1>8. ASSUME Start PROVE Typed'
  BY <1>8 DEF Start, TypeOK, Counted, Working, etcd, requests, streams, informers, caches, monitor,
              budgets, history
<1>9. ASSUME Kill \/ Panics PROVE Typed'
  BY <1>0, <1>9, DownTyped DEF Kill, Panics
<1>10. ASSUME NEW a \in Actor, ActorRuns(a) \/ ActorReports(a) \/ ActorGoesBad(a) PROVE Typed'
  <2>1. changes' \in 0..MaxChanges /\ incidents' \in 0..MaxIncidents
    BY <1>0, <1>10 DEF ActorRuns, ActorReports, ActorGoesBad, AtRest
  <2>2. actors[a] \in ActorObj /\ {"running", "bad", actors[a].phase} \subseteq Phase
    BY <1>10 DEF ActorRuns, ActorReports, ActorGoesBad, PutActor, Live, TypeOK, ActorObj, Phase
  <2>3. PICK phase \in Phase : PutActor(a, phase)
    BY <1>10, <2>2 DEF ActorRuns, ActorReports, ActorGoesBad
  <2>4. [actors[a] EXCEPT !.phase = phase] \in ActorObj
    BY <2>2 DEF ActorObj
  <2>5. actorReq' \in [Actor -> ActorObj \cup {NoActor}]
    BY <2>3, <2>4 DEF PutActor, TypeOK
  <2>6. QED
    BY <2>1, <2>3, <2>5 DEF PutActor, TypeOK, Counted, Working, etcd, streams, informers,
                            caches, monitor, history
<1>11. ASSUME NEW a \in Actor, ActorReqLands(a) PROVE Typed'
  <2>1. actors' \in [Actor -> ActorObj \cup {NoActor}] /\ actorStream' \in Seq(ActorMsg)
    BY <1>11, WriteActorTyped DEF ActorReqLands, TypeOK
  <2>2. actorReq' \in [Actor -> ActorObj \cup {NoActor}] /\ revived' \subseteq Actor
        /\ tidy' \in BOOLEAN
    BY <1>11 DEF ActorReqLands, TypeOK
  <2>3. QED
    BY <1>11, <2>1, <2>2
       DEF ActorReqLands, TypeOK, Counted, Working, informers, caches, monitor, budgets
<1>12. ASSUME MonitorEnds PROVE Typed'
  BY <1>0, <1>12 DEF MonitorEnds, TypeOK, Counted, Working, etcd, requests, streams, informers,
                     caches, history
<1>13. QED
  BY <1>1, <1>2, <1>3, <1>4, <1>6, <1>7, <1>8, <1>9, <1>10, <1>11, <1>12

\* Every step keeps the types.
LEMMA StepTyped ==
    ASSUME Typed, [Next]_vars
    PROVE  Typed'
<1>1. CASE Next
  BY <1>1, InformersTyped, HandlersTyped, RequestTyped, RoutineTyped, JobTyped, OthersTyped
     DEF Next, Handles, JobSteps, Failures
<1>2. CASE UNCHANGED vars
  BY <1>2 DEF Typed, TypeOK, Counted, Working, vars, etcd, requests, streams, informers, caches,
              monitor, budgets, history
<1>3. QED
  BY <1>1, <1>2

LEMMA InitTyped == Init => Typed
<1> SUFFICES ASSUME Init PROVE Typed
  OBVIOUS
<1>1. [a \in Actor |-> NoActor] \in [Actor -> ActorObj \cup {NoActor}]
  OBVIOUS
<1>2. 0 \in 0..MaxCalls /\ 0 \in 0..ChanCap /\ 0 \in 0..MaxChanges /\ 0 \in 0..MaxIncidents
  BY BoundAssumption
<1>3. TypeOK
  <2>1. {unseen, nilled, amiss, tidy} \subseteq BOOLEAN
        /\ {born, reading, alive, lost} \subseteq BOOLEAN /\ revived \subseteq Actor
    BY DEF Init
  <2>2. actionStream \in Seq(Action \cup {NoAction}) /\ actorStream \in Seq(ActorMsg)
    BY DEF Init
  <2>3. {actors, actorReq, actorCache} \subseteq [Actor -> ActorObj \cup {NoActor}]
    BY <1>1 DEF Init
  <2>4. QED
    BY <1>2, <2>1, <2>2, <2>3 DEF Init, TypeOK
<1>4. Counted /\ Working
  BY DEF Init, Counted, Working
<1>5. QED
  BY <1>3, <1>4 DEF Typed

\* Every variable keeps its type, for any actors, scripts and bounds.
THEOREM BrainTyped == Spec => []TypeOK
<1>1. Typed /\ [Next]_vars => Typed'
  BY StepTyped
<1>2. Typed => TypeOK
  BY DEF Typed
<1>3. QED
  BY InitTyped, <1>1, <1>2, PTL DEF Spec

-----------------------------------------------------------------------------
(* Why a cached action has no Status *)

\* NilStatusHasCause rests on the order of what is written and told: a Status, once
\* written, is taken away only with the action, or by a POST that is recorded.
Bare(o) == o # NoAction /\ o.status = NoStatus
Full(o) == o # NoAction /\ o.status # NoStatus
Alike(o, p) == (Bare(o) <=> Bare(p)) /\ (Full(o) <=> Full(p))
ActorEvents == {"actorCreate", "actorRemove"}
EventJob == job # NoJob /\ job.kind = "event"

Off == ~alive => actionCache = NoAction /\ job = NoJob /\ actionInf = "list"
Unwatched == actionInf # "watch" => actionStream = <<>>
Unborn == ~born =>
    /\ action = NoAction /\ actionReq = NoAction
    /\ actionCache = NoAction /\ actionStream = <<>> /\ job = NoJob
    /\ actionOut = NoEvent /\ (hand = NoEvent \/ hand.type \in ActorEvents)
ActorOut == actorOut = NoEvent \/ actorOut.type \in ActorEvents

\* What is told without a Status is not told of an action that had one.
Older == unseen \/ nilled \/ \A j \in DOMAIN actionStream : Bare(actionStream[j]) =>
            ~Full(IF j = 1 THEN actionCache ELSE actionStream[j - 1])

\* The last the informer is told is the action; when it has heard all, its cache is
\* as the action is, or empty.
Ends == unseen \/
    IF actionStream # <<>> THEN actionStream[Len(actionStream)] = action
    ELSE /\ actionCache # NoAction => Alike(actionCache, action)
         /\ Bare(action) => actionCache # NoAction

Flow == Off /\ Unwatched /\ Unborn /\ ActorOut /\ Older /\ Ends

BrainInv == Typed /\ Flow /\ NilStatusHasCause

\* A step that does not write the action and takes nothing of its events, or only
\* an event for which a job is started.
LEMMA FlowKept ==
    ASSUME BrainInv, UNCHANGED <<action, born, alive, actionStream, actionOut, nilled>>,
           actionInf' = actionInf \/ (alive /\ actionStream = <<>>),
           actionCache' = actionCache \/ (Full(actionCache) /\ Full(actionCache')),
           hand' = hand \/ (hand' = NoEvent /\ (hand.type # "create" \/ unseen' \/ EventJob')),
           ActorOut', unseen => unseen', lost => lost', actionReq' = actionReq \/ born,
           job' # NoJob => job # NoJob \/ (alive /\ born),
           EventJob => EventJob' \/ unseen' \/ action = NoAction
    PROVE  Flow' /\ NilStatusHasCause'
<1> USE DEF BrainInv, Flow, Bare, Full
<1>1. Off'
  BY DEF Off
<1>2. Unwatched'
  BY DEF Unwatched
<1>3. Unborn'
  BY DEF Unborn
<1>4. Older'
  <2>1. ASSUME NEW j \in DOMAIN actionStream, Bare(actionStream'[j]), ~unseen', ~nilled'
        PROVE  ~Full(IF j = 1 THEN actionCache' ELSE actionStream'[j - 1])
    BY <2>1 DEF Older
  <2>2. QED
    BY <2>1 DEF Older
<1>5. Ends'
  BY DEF Ends, Alike
<1>6. NilStatusHasCause'
  BY DEF NilStatusHasCause, EventJob
<1>7. QED
  BY <1>1, <1>2, <1>3, <1>4, <1>5, <1>6

\* A write of the action: without a Status only while it has none, and with one when
\* a job that has to write it ends.
LEMMA FlowWritten ==
    ASSUME BrainInv, NEW o \in Action \cup {NoAction}, WriteAction(o),
           UNCHANGED <<alive, actionInf, actionOut, hand, actorOut, actionCache, lost>>, born',
           nilled => nilled', Bare(o) => ~Full(action) \/ nilled', job' # NoJob => job # NoJob,
           EventJob => EventJob' \/ ~Bare(o)
    PROVE  Flow' /\ NilStatusHasCause'
<1> USE DEF BrainInv, Flow
<1>1. actionStream \in Seq(Action \cup {NoAction})
  BY DEF Typed, TypeOK
<1>2. action' = o /\ unseen' = (unseen \/ actionInf # "watch")
  BY DEF WriteAction
<1>3. CASE actionInf # "watch"
  <2>1. actionStream = <<>> /\ actionStream' = <<>> /\ unseen'
    BY <1>2, <1>3 DEF Unwatched, WriteAction
  <2>2. QED
    BY <1>2, <2>1 DEF Off, Unwatched, Unborn, ActorOut, Older, Ends, NilStatusHasCause
<1>4. CASE actionInf = "watch"
  <2>1. actionStream' = Append(actionStream, o)
    BY <1>4 DEF WriteAction
  <2>2. PICK n \in Nat : n = Len(actionStream) /\ DOMAIN actionStream = 1..n
    BY <1>1
  <2>3. /\ DOMAIN actionStream' = 1..(n + 1) /\ actionStream'[n + 1] = o
        /\ \A i \in 1..n : actionStream'[i] = actionStream[i]
        /\ Len(actionStream') = n + 1 /\ (n = 0 <=> actionStream = <<>>)
    BY <1>1, <2>1, <2>2
  <2>4. actionStream' # <<>>
    BY <1>1, <2>1
  <2>5. Ends'
    BY <1>2, <2>3, <2>4 DEF Ends
  <2>6. Older'
    <3>1. ASSUME NEW j \in 1..(n + 1), Bare(actionStream'[j]), ~unseen, ~nilled'
          PROVE  ~Full(IF j = 1 THEN actionCache ELSE actionStream'[j - 1])
      <4>1. CASE j = n + 1
        <5>1. ~Full(action)
          BY <2>3, <3>1, <4>1
        <5>2. CASE n = 0
          BY <2>3, <3>1, <4>1, <5>1, <5>2 DEF Ends, Alike, Full
        <5>3. CASE n # 0
          <6>1. n \in 1..n /\ actionStream[n] = action
            BY <2>2, <2>3, <3>1, <5>3 DEF Ends
          <6>2. actionStream'[j - 1] = action /\ j # 1
            BY <2>2, <2>3, <4>1, <5>3, <6>1
          <6>3. QED
            BY <5>1, <6>2
        <5>4. QED
          BY <5>2, <5>3
      <4>2. CASE j \in 1..n
        <5>1. Bare(actionStream[j]) /\ (j # 1 => j - 1 \in 1..n)
          BY <2>2, <2>3, <3>1, <4>2
        <5>2. ~Full(IF j = 1 THEN actionCache ELSE actionStream[j - 1])
          BY <2>2, <3>1, <4>2, <5>1 DEF Older
        <5>3. QED
          BY <2>3, <5>1, <5>2
      <4>3. QED
        BY <2>2, <4>1, <4>2
    <3>2. QED
      BY <1>2, <2>3, <3>1 DEF Older
  <2>7. NilStatusHasCause'
    <3>1. CASE ~Bare(o)
      BY <1>2, <2>2, <2>3, <3>1 DEF NilStatusHasCause, Bare
    <3>2. CASE Bare(o)
      <4>1. SUFFICES ASSUME alive, Bare(actionCache)
                     PROVE  NilStatusHasCause'
        BY DEF NilStatusHasCause, Bare
      <4>2. \/ unseen \/ nilled \/ lost \/ EventJob
            \/ \E e \in {actionOut, hand} \ {NoEvent} : e.type = "create"
            \/ \E i \in 1..n : ~Bare(actionStream[i])
        <5>1. CASE action = NoAction /\ ~unseen
          <6>1. n # 0
            BY <2>3, <4>1, <5>1 DEF Ends, Alike, Bare
          <6>2. n \in 1..n /\ actionStream[n] = NoAction
            BY <2>2, <2>3, <5>1, <6>1 DEF Ends
          <6>3. QED
            BY <6>2 DEF Bare
        <5>2. CASE action # NoAction \/ unseen
          BY <2>2, <4>1, <5>2 DEF NilStatusHasCause, Bare, EventJob
        <5>3. QED
          BY <5>1, <5>2
      <4>3. \/ unseen' \/ nilled' \/ lost' \/ EventJob'
            \/ \E e \in {actionOut', hand'} \ {NoEvent} : e.type = "create"
            \/ \E i \in 1..n : ~Bare(actionStream'[i])
        BY <1>2, <2>3, <3>2, <4>2
      <4>4. QED
        BY <2>3, <4>3 DEF NilStatusHasCause, EventJob, Bare
    <3>3. QED
      BY <3>1, <3>2
  <2>8. QED
    BY <1>2, <1>4, <2>4, <2>5, <2>6, <2>7 DEF Off, Unwatched, Unborn, ActorOut
<1>5. QED
  BY <1>3, <1>4

\* The action informer.
LEMMA FlowInformed ==
    ASSUME BrainInv, ListActions \/ InformAction \/ Receive \/ Start
    PROVE  Flow' /\ NilStatusHasCause'
<1> USE DEF BrainInv, Flow
<1>0. Unshare => (job' = NoJob <=> job = NoJob) /\ (EventJob => EventJob')
  <2>1. SUFFICES ASSUME Unshare
                 PROVE  (job' = NoJob <=> job = NoJob) /\ (EventJob => EventJob')
    OBVIOUS
  <2>2. CASE job = NoJob
    BY <2>1, <2>2 DEF Unshare, EventJob
  <2>3. CASE job # NoJob
    <3>1. job \in Job /\ job' = [job EXCEPT !.shared = FALSE]
      BY <2>1, <2>3 DEF Unshare, Typed, TypeOK
    <3>2. job' # NoJob
      BY <3>1, JobGoesOn
    <3>3. job'.kind = job.kind
      BY <3>1 DEF Job
    <3>4. QED
      BY <2>3, <3>2, <3>3 DEF EventJob
  <2>4. QED
    BY <2>2, <2>3
<1>1. ASSUME ListActions PROVE Flow' /\ NilStatusHasCause'
  <2>1. /\ alive /\ actionStream = <<>> /\ actionInf' = "connect" /\ alive' = alive
        /\ actionCache' = IF action = NoAction THEN actionCache ELSE action
        /\ UNCHANGED <<action, born, actionReq, actionStream, actionOut, actorOut, hand, unseen,
                       nilled, lost>>
    BY <1>1 DEF ListActions, Unwatched, etcd, requests, streams, history
  <2>2. job' = NoJob <=> job = NoJob
    BY <1>0, <1>1 DEF ListActions
  <2>3. EventJob => EventJob'
    BY <1>0, <1>1 DEF ListActions
  <2>4. Off' /\ Unwatched' /\ Unborn' /\ ActorOut' /\ Older' /\ Ends'
    BY <2>1, <2>2 DEF Off, Unwatched, Unborn, ActorOut, Older, Ends, Alike, Bare, Full
  <2>5. Bare(action) /\ ~unseen => Bare(actionCache)
    BY <2>1 DEF Ends, Alike
  <2>6. NilStatusHasCause'
    BY <2>1, <2>3, <2>5 DEF NilStatusHasCause, Bare, EventJob
  <2>7. QED
    BY <2>4, <2>6
<1>2. ASSUME InformAction PROVE Flow' /\ NilStatusHasCause'
  <2>1. /\ alive /\ actionInf = "watch" /\ actionOut = NoEvent /\ actionStream # <<>>
        /\ actionStream' = Tail(actionStream)
        /\ actionOut' = ActionNews(Head(actionStream))
        /\ UNCHANGED <<action, born, actionReq, alive, actionInf, actorOut, hand, nilled, lost>>
        /\ unseen => unseen'
    BY <1>2 DEF InformAction, etcd, requests, history
  <2>2. (job' = NoJob <=> job = NoJob) /\ (EventJob => EventJob')
    BY <1>0, <1>2 DEF InformAction, EventJob
  <2>3. actionStream \in Seq(Action \cup {NoAction})
    BY DEF Typed, TypeOK
  <2>4. PICK n \in Nat : n = Len(actionStream) - 1 /\ DOMAIN actionStream = 1..(n + 1)
    BY <2>1, <2>3
  <2>5. /\ DOMAIN actionStream' = 1..n /\ Len(actionStream') = n
        /\ n = 0 <=> actionStream' = <<>>
        /\ \A i \in 1..n : actionStream'[i] = actionStream[i + 1]
    <3>1. Tail(actionStream) \in Seq(Action \cup {NoAction})
          /\ Len(Tail(actionStream)) = n
      BY <2>1, <2>3, <2>4
    <3>2. DOMAIN Tail(actionStream) = 1..n
          /\ \A i \in 1..n : Tail(actionStream)[i] = actionStream[i + 1]
      BY <2>1, <2>3, <2>4
    <3>3. n = 0 <=> Tail(actionStream) = <<>>
      BY <3>1
    <3>4. QED
      BY <2>1, <3>1, <3>2, <3>3, Zenon
  <2>6. Off' /\ Unwatched' /\ Unborn' /\ ActorOut'
    BY <2>1, <2>2 DEF Off, Unwatched, Unborn, ActorOut
  <2>7. unseen' \/ actionCache' = actionStream[1]
    BY <1>2, <2>1, <2>3 DEF InformAction
  <2>8. Ends'
    <3>1. CASE n = 0
      BY <2>1, <2>4, <2>5, <2>7, <3>1 DEF Ends, Alike, Bare
    <3>2. CASE n # 0
      <4>1. n \in 1..n /\ actionStream'[n] = actionStream[n + 1]
        BY <2>5, <3>2
      <4>2. QED
        BY <2>1, <2>4, <2>5, <3>2, <4>1 DEF Ends
    <3>3. QED
      BY <3>1, <3>2
  <2>9. Older'
    <3>1. ASSUME NEW j \in 1..n, Bare(actionStream'[j]), ~unseen', ~nilled
          PROVE  ~Full(IF j = 1 THEN actionCache' ELSE actionStream'[j - 1])
      <4>1. j + 1 \in 1..(n + 1) /\ j + 1 # 1 /\ Bare(actionStream[j + 1])
            /\ (j + 1) - 1 = j /\ (j # 1 => j - 1 \in 1..n /\ (j - 1) + 1 = j)
        BY <2>5, <3>1
      <4>2. ~Full(actionStream[j])
        BY <2>1, <2>4, <3>1, <4>1 DEF Older
      <4>3. QED
        BY <2>5, <2>7, <3>1, <4>1, <4>2
    <3>2. QED
      BY <2>1, <2>5, <3>1 DEF Older
  <2>10. NilStatusHasCause'
    <3>1. SUFFICES ASSUME Bare(actionStream[1]), ~unseen', ~nilled
                   PROVE  NilStatusHasCause'
      BY <2>1, <2>7 DEF NilStatusHasCause, Bare
    <3>2. CASE actionCache = NoAction
      <4>1. actionOut' = [type |-> "create", obj |-> actionStream[1]]
        BY <2>1, <2>3, <3>1, <3>2 DEF ActionNews, Bare
      <4>2. actionOut' \in Event
        <5>1. actionStream[1] \in Action
          BY <2>3, <2>4, <3>1 DEF Bare
        <5>2. QED
          BY <4>1, <5>1 DEF Event
      <4>3. actionOut' # NoEvent /\ actionOut'.type = "create"
        BY <4>1, <4>2, NoValueAssumption
      <4>4. QED
        BY <4>3 DEF NilStatusHasCause
    <3>3. CASE actionCache # NoAction
      <4>1. Bare(actionCache)
        <5>1. 1 \in DOMAIN actionStream
          BY <2>4
        <5>2. ~Full(actionCache)
          BY <2>1, <3>1, <5>1 DEF Older
        <5>3. QED
          BY <3>3, <5>2 DEF Bare, Full
      <4>2. \/ action = NoAction \/ unseen \/ lost \/ EventJob
            \/ hand # NoEvent /\ hand.type = "create"
            \/ \E i \in 1..(n + 1) : ~Bare(actionStream[i])
        BY <2>1, <2>4, <3>1, <4>1 DEF NilStatusHasCause, Bare, EventJob
      <4>3. ASSUME NEW i \in 1..(n + 1), ~Bare(actionStream[i])
            PROVE  i - 1 \in 1..n /\ ~Bare(actionStream'[i - 1])
        BY <2>5, <3>1, <4>3
      <4>4. \/ action' = NoAction \/ unseen' \/ lost' \/ EventJob'
            \/ hand' # NoEvent /\ hand'.type = "create"
            \/ \E i \in 1..n : ~Bare(actionStream'[i])
        BY <2>1, <2>2, <4>2, <4>3
      <4>5. QED
        BY <2>5, <4>4 DEF NilStatusHasCause, Bare, EventJob
    <3>4. QED
      BY <3>2, <3>3
  <2>11. QED
    BY <2>6, <2>8, <2>9, <2>10
<1>3. ASSUME Receive PROVE Flow' /\ NilStatusHasCause'
  <2>1. /\ UNCHANGED <<action, born, actionReq, alive, actionInf, actionStream, actionCache, job,
                       lost, unseen, nilled>>
        /\ hand = NoEvent
        /\ \/ /\ actionOut # NoEvent
              /\ hand' = actionOut /\ actionOut' = NoEvent /\ actorOut' = actorOut
           \/ /\ actorOut # NoEvent
              /\ hand' = actorOut /\ actorOut' = NoEvent /\ actionOut' = actionOut
    BY <1>3 DEF Receive, etcd, requests, streams, caches, history
  <2>2. Off' /\ Unwatched' /\ ActorOut' /\ Older' /\ Ends'
    BY <2>1 DEF Off, Unwatched, ActorOut, Older, Ends, Alike, Bare, Full
  <2>3. Unborn'
    BY <2>1 DEF Unborn, ActorOut
  <2>4. NilStatusHasCause'
    BY <2>1 DEF NilStatusHasCause
  <2>5. QED
    BY <2>2, <2>3, <2>4
<1>4. ASSUME Start PROVE Flow' /\ NilStatusHasCause'
  <2>1. /\ actionCache' = NoAction /\ alive'
        /\ UNCHANGED <<action, born, actionReq, actionInf, actionStream, actionCache, actionOut,
                       actorOut, hand, job, unseen, nilled>>
    BY <1>4 DEF Start, Off, etcd, requests, streams, informers, caches, history
  <2>2. QED
    BY <2>1 DEF Off, Unwatched, Unborn, ActorOut, Older, Ends, Alike, Bare, Full,
                NilStatusHasCause
<1>5. QED
  BY <1>1, <1>2, <1>3, <1>4

\* A process that ends forgets what it has read.
LEMMA FlowDown ==
    ASSUME BrainInv, Down
    PROVE  Flow' /\ NilStatusHasCause'
<1>1. /\ ~alive' /\ actionCache' = NoAction /\ job' = NoJob /\ actionInf' = "list"
      /\ actionStream' = <<>> /\ actionOut' = NoEvent /\ actorOut' = NoEvent /\ hand' = NoEvent
      /\ action' = action /\ born' = born
      /\ unseen' = (unseen \/ (action # NoAction /\ action.status = NoStatus))
      /\ actionReq' = actionReq \/ job # NoJob
  BY DEF Down, OutlivedPut, etcd
<1>2. Older' /\ Ends'
  <2>1. Older'
    BY <1>1 DEF Older
  <2>2. Bare(action)' => unseen'
    BY <1>1 DEF Bare
  <2>3. QED
    BY <1>1, <2>1, <2>2 DEF Ends
<1>3. Off' /\ Unwatched' /\ Unborn' /\ ActorOut'
  BY <1>1 DEF BrainInv, Flow, Off, Unwatched, Unborn, ActorOut
<1>4. NilStatusHasCause'
  BY <1>1 DEF NilStatusHasCause
<1>5. QED
  BY <1>2, <1>3, <1>4 DEF Flow

\* Every other step of the brain and of its informers.
LEMMA FlowWorks ==
    ASSUME BrainInv, Typed',
           \/ ListActors \/ Connect \/ InformActor \/ LoseWatch
           \/ HandleActor \/ HandleActionCreate \/ HandleActionUpdate \/ HandleActionRemove
           \/ NoTopic \/ HandleRequest \/ Routine \/ MonitorReads \/ MonitorEnds
           \/ MinutePasses
    PROVE  Flow' /\ NilStatusHasCause'
<1> USE DEF BrainInv, Flow
<1>0. /\ actionCache # NoAction => alive /\ born
      /\ hand # NoEvent /\ hand.type \notin ActorEvents => born
  BY DEF Off, Unborn
<1>1. ASSUME ListActors \/ Connect PROVE Flow' /\ NilStatusHasCause'
  <2>1. /\ actionInf' = actionInf \/ (alive /\ actionStream = <<>>)
        /\ UNCHANGED <<action, born, alive, actionStream, actionOut, actorOut, actionCache, hand,
                       job, lost, unseen, nilled, actionReq>>
    BY <1>1 DEF ListActors, Connect, Unwatched, etcd, requests, streams, caches, history
  <2>2. QED
    BY <2>1, FlowKept DEF ActorOut, EventJob
<1>2. ASSUME InformActor PROVE Flow' /\ NilStatusHasCause'
  <2>1. UNCHANGED <<action, born, alive, actionStream, actionInf, actionOut, actionCache, hand,
                    job, lost, unseen, nilled, actionReq>>
    BY <1>2 DEF InformActor, etcd, requests, history
  <2>2. ActorOut'
    BY <1>2 DEF InformActor, ActorOut, ActorEvents
  <2>3. QED
    BY <2>1, <2>2, FlowKept DEF EventJob
<1>3. ASSUME LoseWatch PROVE Flow' /\ NilStatusHasCause'
  <2>1. UNCHANGED <<action, born, alive, actionOut, actorOut, actionCache, hand, job, lost,
                    nilled, actionReq>>
        /\ alive
    BY <1>3 DEF LoseWatch, etcd, requests, caches
  <2>2. CASE UNCHANGED <<actionInf, actionStream, unseen>>
    BY <2>1, <2>2, FlowKept DEF ActorOut, EventJob
  <2>3. CASE /\ actionInf' = "list" /\ actionStream' = <<>>
             /\ unseen' = (unseen \/ actionStream # <<>>)
    <3>1. actionStream = <<>> => actionStream' = actionStream
      BY <2>3
    <3>2. Older' /\ Ends'
      BY <2>1, <2>3, <3>1 DEF Older, Ends, Alike, Bare, Full
    <3>3. Off' /\ Unwatched' /\ Unborn' /\ ActorOut'
      BY <2>1, <2>3 DEF Off, Unwatched, Unborn, ActorOut
    <3>4. NilStatusHasCause'
      BY <2>1, <2>3, <3>1 DEF NilStatusHasCause
    <3>5. QED
      BY <3>2, <3>3, <3>4
  <2>4. QED
    BY <1>3, <2>2, <2>3 DEF LoseWatch
<1>4. ASSUME Took, hand # NoEvent, Idle, born \/ job' = job, EventJob => EventJob',
             hand.type # "create" \/ EventJob',
             actionCache' = actionCache \/ (Full(actionCache) /\ Full(actionCache'))
      PROVE  Flow' /\ NilStatusHasCause'
  <2>1. /\ UNCHANGED <<action, born, alive, actionStream, actionInf, actionOut, actorOut, lost,
                       unseen, nilled, actionReq>>
        /\ hand' = NoEvent
    BY <1>4 DEF Took, etcd, requests, streams, informers, history
  <2>2. QED
    BY <1>4, <2>1, FlowKept DEF ActorOut, Idle
<1>5. ASSUME HandleActor \/ HandleActionCreate \/ HandleActionUpdate \/ HandleActionRemove
      PROVE  Flow' /\ NilStatusHasCause'
  <2>1. Took /\ hand # NoEvent /\ Idle
    BY <1>5 DEF HandleActor, HandleActionCreate, HandleActionUpdate, HandleActionRemove
  <2>2. ~EventJob
    BY <2>1 DEF Idle, EventJob
  <2>3. \A o, n, todo, shared :
           StartJob("event", o, n, todo, shared) /\ job' # NoJob => EventJob'
    BY DEF StartJob, EventJob
  <2>4. born \/ job' = job
    BY <1>0, <1>5, <2>1 DEF HandleActor, HandleActionCreate, HandleActionUpdate,
                            HandleActionRemove, Known, ActorEvents
  <2>5. ASSUME HandleActionCreate PROVE EventJob'
    <3>1. hand.obj \in Action
      BY <2>1, <2>5 DEF HandleActionCreate, Typed, TypeOK, Event
    <3>2. [hand.obj EXCEPT !.status = EmptyStatus] \in Action
      BY <3>1 DEF EmptyStatus, Status, Action
    <3>3. PICK o \in Action : StartJob("event", o, 0, {}, FALSE)
      BY <2>5, <3>2 DEF HandleActionCreate
    <3>4. QED
      BY <2>3, <3>3, StartedJob
  <2>6. actionCache' = actionCache \/ (Full(actionCache) /\ Full(actionCache'))
    <3>1. CASE HandleActor /\ Known
      <4>1. actionCache \in Action /\ actionCache.status \in Status
        BY <3>1, KnownStatus
      <4>2. PICK s \in Status : actionCache' = [actionCache EXCEPT !.status = s]
        <5>1. PICK a \in Actor : a = hand.actor
          BY <2>1, <3>1 DEF HandleActor, Typed, TypeOK, Event
        <5>2. PICK s \in Status : s = actionCache.status
          BY <4>1
        <5>3. [s EXCEPT !.actors = @ \cup {a}, !.toRun = @ \ {a}] \in Status
              /\ [s EXCEPT !.actors = @ \ {a}, !.toKill = @ \ {a}] \in Status
          BY DEF Status
        <5>4. QED
          BY <3>1, <5>1, <5>2, <5>3 DEF HandleActor
      <4>3. QED
        BY <4>1, <4>2, ActionWith, NoValueAssumption DEF Full
    <3>2. QED
      BY <1>5, <3>1 DEF HandleActor, HandleActionCreate, HandleActionUpdate, HandleActionRemove
  <2>7. QED
    BY <1>4, <1>5, <2>1, <2>2, <2>4, <2>5, <2>6
       DEF HandleActor, HandleActionUpdate, HandleActionRemove
<1>6. ASSUME NoTopic PROVE Flow' /\ NilStatusHasCause'
  <2>1. /\ UNCHANGED <<action, born, alive, actionStream, actionInf, actionOut, actorOut,
                       actionCache, job, lost, nilled, actionReq>>
        /\ hand' = NoEvent /\ unseen'
    BY <1>6 DEF NoTopic, etcd, requests, streams, informers, caches
  <2>2. QED
    BY <2>1, FlowKept DEF ActorOut, EventJob
<1>7. ASSUME HandleRequest \/ Routine PROVE Flow' /\ NilStatusHasCause'
  <2>1. /\ UNCHANGED <<action, born, alive, actionStream, actionInf, actionOut, actorOut,
                       actionCache, hand, unseen, nilled, actionReq>>
        /\ lost => lost'
        /\ ~EventJob
    BY <1>7 DEF HandleRequest, Routine, Idle, EventJob, etcd, requests, streams, informers, caches,
                history
  <2>2. job' # NoJob => job # NoJob \/ (alive /\ born)
    BY <1>0, <1>7 DEF HandleRequest, Routine, Known, Idle
  <2>3. QED
    BY <2>1, <2>2, FlowKept DEF ActorOut
<1>8. ASSUME MonitorReads \/ MonitorEnds \/ MinutePasses PROVE Flow' /\ NilStatusHasCause'
  <2>1. UNCHANGED <<action, born, alive, actionStream, actionInf, actionOut, actorOut,
                    actionCache, hand, job, lost, unseen, nilled, actionReq>>
    BY <1>8 DEF MonitorReads, MonitorEnds, MinutePasses, etcd, requests, streams, informers,
                caches, history
  <2>2. QED
    BY <2>1, FlowKept DEF ActorOut, EventJob
<1>9. QED
  BY <1>1, <1>2, <1>3, <1>5, <1>6, <1>7, <1>8

\* The steps of a job, and of everybody else.
LEMMA FlowRest ==
    ASSUME BrainInv, Typed',
           \/ JobCreates \/ JobFailsToCreate \/ JobDeletes \/ JobUpdates \/ JobFailsOnActor
           \/ JobEnds \/ JobLooksUp \/ JobWrites \/ JobFailsToWrite
           \/ Call \/ CreateAction \/ PostReads \/ ActionReqLands \/ DeleteAction
           \/ Kill \/ Panics
           \/ \E a \in Actor : \/ ActorRuns(a) \/ ActorReports(a) \/ ActorGoesBad(a)
                               \/ ActorReqLands(a)
    PROVE  Flow' /\ NilStatusHasCause'
<1> USE DEF BrainInv, Flow
<1>0. job # NoJob => /\ job \in Job /\ born
                     /\ job.kind \in {"request", "event", "routine"} => Full(job.obj)
  BY ActionWith DEF Typed, TypeOK, Working, Job, Full, Unborn
<1>1. ASSUME JobCreates PROVE Flow' /\ NilStatusHasCause'
  <2>1. /\ UNCHANGED <<action, born, alive, actionStream, actionInf, actionOut, actorOut, hand,
                       lost, unseen, nilled, actionReq>>
        /\ job # NoJob /\ job \in Job /\ job.kind \in {"request", "routine"}
    BY <1>0, <1>1 DEF JobCreates, requests, informers, Typed, Working
  <2>2. actionCache' = actionCache \/ (Full(actionCache) /\ Full(actionCache'))
    <3>1. CASE ~job.shared
      BY <1>1, <3>1 DEF JobCreates
    <3>2. CASE job.shared
      <4>1. Full(actionCache) /\ actionCache = job.obj /\ job.obj.status \in Status
        BY <1>0, <2>1, <3>2, ActionWith DEF Typed, TypeOK, Working, Full, Job
      <4>2. PICK a \in Actor, one \in {0, 1} : actionCache' =
               [actionCache EXCEPT !.status =
                  [job.obj.status EXCEPT !.toRun = @ \cup {a}, !.desired = @ + one]]
        BY <1>1, <3>2 DEF JobCreates, Fresh
      <4>3. PICK s \in Status : s = job.obj.status
        BY <4>1
      <4>4. s.toRun \cup {a} \in SUBSET Actor /\ s.desired + one \in Nat
        BY DEF Status
      <4>5. [s EXCEPT !.toRun = s.toRun \cup {a}, !.desired = s.desired + one] \in Status
        BY <4>4 DEF Status
      <4>6. PICK new \in Status : actionCache' = [actionCache EXCEPT !.status = new]
        BY <4>2, <4>3, <4>5
      <4>7. actionCache \in Action
        BY <4>1 DEF Typed, TypeOK, Full
      <4>8. QED
        BY <4>1, <4>6, <4>7, ActionWith DEF Full
    <3>3. QED
      BY <3>1, <3>2
  <2>3. QED
    BY <2>1, <2>2, FlowKept DEF ActorOut, EventJob
<1>2. ASSUME JobFailsToCreate \/ JobDeletes \/ JobUpdates \/ JobFailsOnActor \/ JobLooksUp
             \/ JobEnds \/ Call \/ PostReads
             \/ \E a \in Actor : \/ ActorRuns(a) \/ ActorReports(a) \/ ActorGoesBad(a)
                                 \/ ActorReqLands(a)
      PROVE  Flow' /\ NilStatusHasCause'
  <2>1. UNCHANGED <<action, born, alive, actionStream, actionInf, actionOut, actorOut,
                    actionCache, hand, lost, unseen, nilled>>
        /\ (actionReq' = actionReq \/ born)
    BY <1>2 DEF JobFailsToCreate, JobDeletes, JobUpdates, JobFailsOnActor, JobLooksUp, JobEnds,
                Call, PostReads, ActorRuns, ActorReports, ActorGoesBad, PutActor, ActorReqLands,
                Unborn, etcd, requests, streams, informers, caches, history
  <2>2. job' # NoJob => job # NoJob
    BY <1>2 DEF JobFailsToCreate, JobDeletes, JobUpdates, JobFailsOnActor, JobLooksUp, JobEnds,
                Call, PostReads, ActorRuns, ActorReports, ActorGoesBad, PutActor,
                ActorReqLands, AtPut
  <2>3. EventJob => EventJob' \/ action = NoAction
    <3>1. SUFFICES ASSUME EventJob, action # NoAction
                   PROVE  EventJob'
      OBVIOUS
    <3>2. job \in Job /\ job.toCreate = 0
      <4>1. job # NoJob /\ job.kind = "event" /\ ~(job.toCreate > 0)
        BY <3>1 DEF EventJob, Typed, Working
      <4>2. job \in Job
        BY <1>0, <4>1
      <4>3. job.toCreate \in Nat
        BY <4>2 DEF Job
      <4>4. QED
        BY <4>1, <4>2, <4>3
    <3>3. \/ job' = job
          \/ \E a \in Actor : job' = [job EXCEPT !.todo = @ \ {a}]
          \/ job' = [job EXCEPT !.found = TRUE]
      <4>1. job.todo \subseteq Actor
        BY <3>2 DEF Job
      <4>2. ~JobFailsToCreate /\ ~JobUpdates /\ ~JobEnds
        BY <3>1, <3>2 DEF JobFailsToCreate, JobUpdates, JobEnds, EventJob
      <4>3. CASE JobDeletes \/ JobFailsOnActor
        BY <4>1, <4>3 DEF JobDeletes, JobFailsOnActor
      <4>4. CASE JobLooksUp
        BY <3>1, <4>4 DEF JobLooksUp
      <4>5. CASE \/ Call \/ PostReads
                 \/ \E a \in Actor : \/ ActorRuns(a) \/ ActorReports(a) \/ ActorGoesBad(a)
                                     \/ ActorReqLands(a)
        BY <4>5 DEF Call, PostReads, ActorRuns, ActorReports, ActorGoesBad, PutActor,
                    ActorReqLands
      <4>6. QED
        BY <1>2, <4>2, <4>3, <4>4, <4>5
    <3>4. job' # NoJob
      BY <3>2, <3>3, JobGoesOn
    <3>5. job'.kind = job.kind
      BY <3>2, <3>3 DEF Job
    <3>6. QED
      BY <3>1, <3>4, <3>5 DEF EventJob
  <2>4. QED
    BY <2>1, <2>2, <2>3, FlowKept DEF ActorOut
<1>3. ASSUME JobFailsToWrite PROVE Flow' /\ NilStatusHasCause'
  <2>1. UNCHANGED <<action, born, alive, actionStream, actionInf, actionOut, actorOut,
                    actionCache, hand, lost, nilled>> /\ unseen' /\ job' = NoJob /\ born
    BY <1>0, <1>3 DEF AtPut, JobFailsToWrite, etcd, requests, streams, informers, caches
  <2>2. QED
    BY <2>1, FlowKept DEF ActorOut
<1>4. ASSUME JobWrites PROVE Flow' /\ NilStatusHasCause'
  <2>1. /\ job # NoJob /\ Full(job.obj) /\ job.obj \in Action \cup {NoAction} /\ born
        /\ WriteAction(job.obj) /\ job' = NoJob
        /\ UNCHANGED <<born, alive, actionInf, actionOut, hand, actorOut, actionCache, lost,
                       nilled>>
    BY <1>0, <1>4 DEF JobWrites, AtPut, requests, informers, caches, Job
  <2>2. ~Bare(job.obj)
    BY <2>1 DEF Bare, Full
  <2>3. QED
    BY <2>1, <2>2, FlowWritten
<1>5. Outdate => (job' # NoJob => job # NoJob) /\ (EventJob => EventJob')
  <2>1. SUFFICES ASSUME Outdate, job # NoJob
                 PROVE  EventJob => EventJob'
    BY DEF Outdate, EventJob
  <2>2. job \in Job /\ job' = [job EXCEPT !.stale = TRUE]
    BY <1>0, <2>1 DEF Outdate
  <2>3. job' # NoJob
    BY <2>2, JobGoesOn
  <2>4. job'.kind = job.kind
    BY <2>2 DEF Job
  <2>5. QED
    BY <2>3, <2>4 DEF EventJob
<1>6. ASSUME CreateAction PROVE Flow' /\ NilStatusHasCause'
  <2>1. PICK o \in Action \cup {NoAction} : WriteAction(o)
    BY <1>6 DEF CreateAction, Action
  <2>2. ~born /\ born' /\ Outdate /\ ~Full(action)
        /\ UNCHANGED <<alive, actionInf, actionOut, hand, actorOut, actionCache, lost, nilled>>
    BY <1>6 DEF CreateAction, Unborn, Full, requests, informers, caches
  <2>3. QED
    BY <1>5, <2>1, <2>2, FlowWritten
<1>7. ASSUME ActionReqLands \/ DeleteAction PROVE Flow' /\ NilStatusHasCause'
  <2>1. /\ born /\ born' = born /\ Outdate /\ (nilled => nilled')
        /\ UNCHANGED <<alive, actionInf, actionOut, hand, actorOut, actionCache, lost>>
    <3>1. action # NoAction \/ actionReq # NoAction
      BY <1>7 DEF ActionReqLands, DeleteAction
    <3>2. nilled => nilled'
      BY <1>7 DEF ActionReqLands, DeleteAction
    <3>3. QED
      BY <1>7, <3>1, <3>2 DEF ActionReqLands, DeleteAction, Unborn, requests, informers, caches
  <2>2. PICK o \in Action \cup {NoAction} : WriteAction(o) /\ (Bare(o) => ~Full(action) \/ nilled')
    BY <1>7 DEF ActionReqLands, DeleteAction, Bare, Full, Typed, TypeOK
  <2>3. QED
    BY <1>5, <2>1, <2>2, FlowWritten
<1>8. ASSUME Kill \/ Panics PROVE Flow' /\ NilStatusHasCause'
  BY <1>8, FlowDown DEF Kill, Panics
<1>9. QED
  BY <1>1, <1>2, <1>3, <1>4, <1>6, <1>7, <1>8

\* Every step keeps the invariant.
LEMMA BrainStep ==
    ASSUME BrainInv, [Next]_vars
    PROVE  BrainInv'
<1>1. Typed'
  BY StepTyped DEF BrainInv
<1>2. CASE Next
  BY <1>1, <1>2, FlowInformed, FlowWorks, FlowRest
     DEF Next, Informs, Handles, JobSteps, Failures, BrainInv
<1>3. CASE UNCHANGED vars
  BY <1>1, <1>3 DEF vars, etcd, requests, streams, informers, caches, monitor, budgets, history,
                    BrainInv, Flow, Off, Unwatched, Unborn, ActorOut, Older, Ends, Alike, Bare,
                    Full, NilStatusHasCause
<1>4. QED
  BY <1>2, <1>3

LEMMA InitBrain == Init => BrainInv
  BY InitTyped DEF BrainInv, Flow, Init, Off, Unwatched, Unborn, ActorOut, Older, Ends,
                   Alike, Bare, Full, NilStatusHasCause

\* A cached action without a Status has one of the causes NilStatusHasCause names,
\* for any actors, scripts and bounds.
THEOREM NilStatusCaused == Spec => []NilStatusHasCause
<1>1. BrainInv /\ [Next]_vars => BrainInv'
  BY BrainStep
<1>2. BrainInv => NilStatusHasCause
  BY DEF BrainInv
<1>3. QED
  BY InitBrain, <1>1, <1>2, PTL DEF Spec

-----------------------------------------------------------------------------
(* Why a call is dropped although no actor exists *)

Of(e, type) == e # NoEvent /\ e.type = type
Tells(e, type, a) == Of(e, type) /\ e.actor = a

Gone(a) == [actor |-> a, obj |-> NoActor]
Told(a) == \E i \in DOMAIN actorStream : actorStream[i] = Gone(a)

\* The informer's cache has the actor, or the loop will hear that it is gone.
Held(a) == \/ actorCache[a] # NoActor
           \/ Tells(actorOut, "actorRemove", a)
           \/ Tells(hand, "actorRemove", a)

\* That an actor is gone is the last the stream says of it, and what the cache
\* still has of one that is gone will be put right.
ActorUnwatched == actorInf # "watch" => actorStream = <<>>
ToldLast ==
    \A i \in DOMAIN actorStream : actorStream[i].actor \notin Live =>
       \E j \in DOMAIN actorStream : i <= j /\ actorStream[j] = Gone(actorStream[i].actor)
CacheTold ==
    ~amiss => /\ actorInf = "watch"
              /\ \A a \in Actor : actorCache[a] # NoActor => a \in Live \/ Told(a)

\* An actor is told of as running after it is cached, and before it is told of as gone.
Arrived ==
    \A a \in Actor :
       /\ Tells(actorOut, "actorCreate", a) => actorCache[a] # NoActor
       /\ Tells(hand, "actorCreate", a) => \/ actorCache[a] # NoActor
                                           \/ Tells(actorOut, "actorRemove", a)

ActorsTold == ActorUnwatched /\ ToldLast /\ CacheTold /\ Arrived

\* A cubelet looks an actor up; the API server writes one.
Reporting == \E a \in Actor : ActorRuns(a) \/ ActorReports(a) \/ ActorGoesBad(a)
Landing == \E a \in Actor : ActorReqLands(a)

\* The informer of actions tells of actions.
ActionOut == actionOut = NoEvent \/ actionOut.type \notin ActorEvents

LEMMA ActionOutStep ==
    ASSUME ActionOut, [Next]_vars
    PROVE  ActionOut'
<1>1. CASE InformAction
  BY <1>1 DEF InformAction, ActionNews, ActionOut, ActorEvents
<1>2. CASE actionOut' \in {actionOut, NoEvent}
  BY <1>2 DEF ActionOut
<1>3. ASSUME \/ ListActions \/ ListActors \/ Connect \/ InformActor \/ Receive \/ LoseWatch
             \/ Handles
             \/ NoTopic \/ Routine \/ MonitorReads \/ MonitorEnds \/ PostReads \/ MinutePasses
             \/ Call \/ Start \/ UNCHANGED vars
      PROVE  actionOut' \in {actionOut, NoEvent}
  BY <1>3 DEF ListActions, ListActors, Connect, InformActor, Receive, LoseWatch, Handles,
              HandleActor, HandleActionCreate, HandleActionUpdate, HandleActionRemove,
              HandleRequest, Panics, Down, Took, NoTopic, Routine, MonitorReads, MonitorEnds,
              PostReads, MinutePasses, Call, Start, requests, informers, vars
<1>4. ASSUME \/ JobSteps \/ JobFailsToCreate \/ JobFailsOnActor \/ JobFailsToWrite \/ Kill
             \/ CreateAction \/ ActionReqLands \/ DeleteAction
             \/ Reporting \/ Landing
      PROVE  actionOut' \in {actionOut, NoEvent}
  BY <1>4 DEF JobSteps, JobCreates, JobDeletes, JobUpdates, JobEnds, JobLooksUp, JobWrites,
              JobFailsToCreate, JobFailsOnActor, JobFailsToWrite, Kill, Down, CreateAction,
              ActionReqLands, DeleteAction, Reporting, ActorRuns, ActorReports, ActorGoesBad,
              PutActor, Landing, ActorReqLands, requests, informers
<1>5. QED
  BY <1>1, <1>2, <1>3, <1>4 DEF Next, Informs, Failures, Reporting, Landing

\* A step that leaves the actors and what is told of them alone.
LEMMA ActorsKept ==
    ASSUME ActorsTold, UNCHANGED <<actors, actorStream, actorCache, actorOut>>,
           hand' \in {hand, NoEvent}, actorInf' = actorInf \/ actorInf # "watch",
           ~amiss' => ~amiss
    PROVE  ActorsTold'
<1>1. ActorUnwatched' /\ ToldLast'
  BY DEF ActorsTold, ActorUnwatched, ToldLast, Live
<1>2. CacheTold'
  BY DEF ActorsTold, CacheTold, Told, Live
<1>3. Arrived'
  BY DEF ActorsTold, Arrived, Tells, Of
<1>4. QED
  BY <1>1, <1>2, <1>3 DEF ActorsTold

\* A write of an actor is told of, if anybody listens.
LEMMA ActorWritten ==
    ASSUME Typed, ActorsTold, NEW a \in Actor, NEW o \in ActorObj \cup {NoActor},
           WriteActor(a, o), UNCHANGED <<actorInf, actorCache, actorOut, hand, amiss>>
    PROVE  /\ ActorsTold'
           /\ Live' = IF o = NoActor THEN Live \ {a} ELSE Live \cup {a}
<1>1. Live' = IF o = NoActor THEN Live \ {a} ELSE Live \cup {a}
  BY DEF WriteActor, Live, Typed, TypeOK
<1>2. actorStream \in Seq(ActorMsg)
  BY DEF Typed, TypeOK
<1>3. PICK n \in Nat : n = Len(actorStream) /\ DOMAIN actorStream = 1..n
  BY <1>2
<1>4. PICK m : m = [actor |-> a, obj |-> o]
  OBVIOUS
<1>5. \/ actorStream' = actorStream
      \/ /\ actorInf = "watch" /\ DOMAIN actorStream' = 1..(n + 1) /\ actorStream'[n + 1] = m
         /\ \A i \in 1..n : actorStream'[i] = actorStream[i]
  <2>1. actorStream' = actorStream \/ (actorInf = "watch" /\ actorStream' = Append(actorStream, m))
    BY <1>4 DEF WriteActor
  <2>2. m \in ActorMsg
    BY <1>4 DEF ActorMsg
  <2>3. QED
    BY <1>2, <1>3, <2>1, <2>2
<1>6. o = NoActor /\ actorInf = "watch" =>
         /\ DOMAIN actorStream' = 1..(n + 1) /\ actorStream'[n + 1] = Gone(a)
         /\ \A i \in 1..n : actorStream'[i] = actorStream[i]
  <2>1. SUFFICES ASSUME o = NoActor, actorInf = "watch"
                 PROVE  /\ DOMAIN actorStream' = 1..(n + 1) /\ actorStream'[n + 1] = Gone(a)
                        /\ \A i \in 1..n : actorStream'[i] = actorStream[i]
    OBVIOUS
  <2>2. actorStream' = Append(actorStream, m) /\ m = Gone(a)
    BY <1>4, <2>1 DEF WriteActor, Gone
  <2>3. m \in ActorMsg
    BY <1>4 DEF ActorMsg
  <2>4. QED
    BY <1>2, <1>3, <2>2, <2>3
<1>7. /\ \A i \in 1..n : i \in DOMAIN actorStream' /\ actorStream'[i] = actorStream[i]
      /\ \A i \in DOMAIN actorStream' :
            i \in 1..n \/ (i = n + 1 /\ actorStream'[i] = m /\ actorInf = "watch")
  BY <1>3, <1>5
<1>8. ActorUnwatched'
  BY <1>5 DEF ActorsTold, ActorUnwatched
<1>9. ToldLast'
  <2>1. SUFFICES ASSUME NEW i \in DOMAIN actorStream', actorStream'[i].actor \notin Live'
                 PROVE  \E j \in DOMAIN actorStream' :
                           i <= j /\ actorStream'[j] = Gone(actorStream'[i].actor)
    BY DEF ToldLast, Gone
  <2>2. CASE actorStream'[i].actor = a
    <3>1. o = NoActor
      BY <1>1, <2>1, <2>2
    <3>2. actorInf = "watch"
      BY <1>3, <1>7, <2>1 DEF ActorsTold, ActorUnwatched
    <3>3. n + 1 \in DOMAIN actorStream' /\ actorStream'[n + 1] = Gone(a) /\ i <= n + 1
      BY <1>6, <1>7, <2>1, <3>1, <3>2
    <3>4. QED
      BY <2>2, <3>3
  <2>3. CASE actorStream'[i].actor # a
    <3>1. m.actor = a
      BY <1>4
    <3>2. i \in 1..n /\ actorStream'[i] = actorStream[i]
      BY <1>7, <2>1, <2>3, <3>1
    <3>3. actorStream[i].actor \notin Live
      BY <1>1, <2>1, <2>3, <3>2
    <3>4. PICK j \in 1..n : i <= j /\ actorStream[j] = Gone(actorStream[i].actor)
      BY <1>3, <3>2, <3>3 DEF ActorsTold, ToldLast
    <3>5. QED
      BY <1>7, <3>2, <3>4
  <2>4. QED
    BY <2>2, <2>3
<1>10. CacheTold'
  <2>1. SUFFICES ASSUME ~amiss
                 PROVE  /\ actorInf = "watch"
                        /\ \A b \in Actor : actorCache[b] # NoActor => b \in Live' \/ Told(b)'
    BY DEF CacheTold
  <2>2. actorInf = "watch" /\ \A b \in Actor : actorCache[b] # NoActor => b \in Live \/ Told(b)
    BY <2>1 DEF ActorsTold, CacheTold
  <2>3. \A b : Told(b) => Told(b)'
    BY <1>3, <1>7 DEF Told, Gone
  <2>4. a \notin Live' => Told(a)'
    <3>1. a \notin Live' => actorStream'[n + 1] = Gone(a) /\ n + 1 \in DOMAIN actorStream'
      BY <1>1, <1>6, <2>2
    <3>2. QED
      BY <3>1 DEF Told, Gone
  <2>5. QED
    BY <1>1, <2>2, <2>3, <2>4
<1>11. Arrived'
  BY DEF ActorsTold, Arrived, Tells, Of
<1>12. QED
  BY <1>1, <1>8, <1>9, <1>10, <1>11 DEF ActorsTold

\* The informer hears of an actor.
LEMMA ActorInformed ==
    ASSUME Typed, ActorsTold, InformActor
    PROVE  ActorsTold' /\ \A a \in Actor : Held(a) => Held(a)'
<1>1. /\ actorInf = "watch" /\ actorInf' = actorInf /\ actorOut = NoEvent
      /\ actorStream # <<>> /\ actorStream' = Tail(actorStream)
      /\ UNCHANGED <<actors, hand, amiss>>
  BY DEF InformActor, etcd, requests, history
<1>2. actorStream \in Seq(ActorMsg)
  BY DEF Typed, TypeOK
<1>3. PICK n \in Nat : n = Len(actorStream) - 1 /\ DOMAIN actorStream = 1..(n + 1)
  BY <1>1, <1>2
<1>4. /\ DOMAIN actorStream' = 1..n
      /\ \A i \in 1..n : actorStream'[i] = actorStream[i + 1]
  BY <1>1, <1>2, <1>3
<1>5. PICK m \in ActorMsg : m = Head(actorStream) /\ m = actorStream[1]
  BY <1>1, <1>2
<1>6. PICK a \in Actor, new \in ActorObj \cup {NoActor} : a = m.actor /\ new = m.obj
  BY DEF ActorMsg
<1>7. actorCache' = [actorCache EXCEPT ![a] =
         IF actorCache[a] = NoActor /\ new # NoActor /\ new.phase # "running" THEN NoActor ELSE new]
  BY <1>5, <1>6 DEF InformActor
<1>8. actorOut' =
         CASE new = NoActor /\ actorCache[a] # NoActor -> [type |-> "actorRemove", actor |-> a]
           [] new # NoActor /\ actorCache[a] = NoActor /\ new.phase = "running" ->
                 [type |-> "actorCreate", actor |-> a]
           [] OTHER -> NoEvent
  BY <1>5, <1>6 DEF InformActor
<1>9. /\ actorCache' \in [Actor -> ActorObj \cup {NoActor}]
      /\ actorCache \in [Actor -> ActorObj \cup {NoActor}]
  BY <1>7 DEF Typed, TypeOK
<1>10. /\ \A b \in Actor \ {a} : actorCache'[b] = actorCache[b]
       /\ actorCache'[a] # NoActor => new # NoActor
       /\ new # NoActor /\ actorCache'[a] = NoActor => actorCache[a] = NoActor
  BY <1>7, <1>9
<1>11. /\ [type |-> "actorRemove", actor |-> a] # NoEvent
       /\ [type |-> "actorCreate", actor |-> a] # NoEvent
  BY NoValueAssumption DEF Event
<1>12. /\ new = NoActor /\ actorCache[a] # NoActor => Tells(actorOut, "actorRemove", a)'
       /\ \A b : Tells(actorOut, "actorCreate", b)' => b = a /\ actorCache'[a] # NoActor
  BY <1>8, <1>9, <1>7, <1>11 DEF Tells, Of
<1>13. ActorUnwatched'
  BY <1>1 DEF ActorUnwatched
<1>14. ToldLast'
  <2>1. SUFFICES ASSUME NEW i \in 1..n, actorStream'[i].actor \notin Live
                 PROVE  \E j \in 1..n : i <= j /\ actorStream'[j] = Gone(actorStream'[i].actor)
    BY <1>1, <1>4 DEF ToldLast, Live, Gone
  <2>2. i + 1 \in 1..(n + 1) /\ actorStream'[i] = actorStream[i + 1]
    BY <1>4
  <2>3. PICK j \in 1..(n + 1) : i + 1 <= j /\ actorStream[j] = Gone(actorStream[i + 1].actor)
    BY <1>3, <2>1, <2>2 DEF ActorsTold, ToldLast
  <2>4. j - 1 \in 1..n /\ i <= j - 1 /\ actorStream'[j - 1] = actorStream[j]
    <3>1. j - 1 \in 1..n /\ i <= j - 1 /\ (j - 1) + 1 = j
      BY <2>3
    <3>2. QED
      BY <1>4, <3>1
  <2>5. QED
    BY <2>2, <2>3, <2>4
<1>15. CacheTold'
  <2>1. SUFFICES ASSUME ~amiss, NEW b \in Actor, actorCache'[b] # NoActor, b \notin Live
                 PROVE  Told(b)'
    BY <1>1 DEF CacheTold, Live
  <2>2. PICK j \in 1..(n + 1) : actorStream[j] = Gone(b) /\ j # 1
    <3>1. CASE b = a
      <4>1. new # NoActor /\ actorStream[1].actor = b /\ actorStream[1].obj = new
        BY <1>5, <1>6, <1>10, <2>1, <3>1
      <4>2. PICK j \in 1..(n + 1) : actorStream[j] = Gone(b)
        BY <1>3, <2>1, <4>1 DEF ActorsTold, ToldLast
      <4>3. actorStream[j].obj = NoActor
        BY <4>2 DEF Gone
      <4>4. QED
        BY <4>1, <4>2, <4>3
    <3>2. CASE b # a
      <4>1. PICK j \in 1..(n + 1) : actorStream[j] = Gone(b)
        BY <1>3, <1>10, <2>1, <3>2 DEF ActorsTold, CacheTold, Told
      <4>2. actorStream[j].actor = b
        BY <4>1 DEF Gone
      <4>3. QED
        BY <1>5, <1>6, <3>2, <4>1, <4>2
    <3>3. QED
      BY <3>1, <3>2
  <2>3. j - 1 \in 1..n /\ actorStream'[j - 1] = actorStream[j]
    <3>1. j - 1 \in 1..n /\ (j - 1) + 1 = j
      BY <2>2
    <3>2. QED
      BY <1>4, <3>1
  <2>4. QED
    BY <1>4, <2>2, <2>3 DEF Told, Gone
<1>16. Arrived'
  <2>1. SUFFICES ASSUME NEW b \in Actor
                 PROVE  /\ Tells(actorOut, "actorCreate", b)' => actorCache'[b] # NoActor
                        /\ Tells(hand, "actorCreate", b)' =>
                              actorCache'[b] # NoActor \/ Tells(actorOut, "actorRemove", b)'
    BY DEF Arrived, Tells, Of
  <2>2. Tells(hand, "actorCreate", b)' => actorCache[b] # NoActor
    BY <1>1 DEF ActorsTold, Arrived, Tells, Of
  <2>3. QED
    BY <1>10, <1>12, <2>2
<1>17. ASSUME NEW b \in Actor, Held(b)
       PROVE  Held(b)'
  <2>1. actorCache[b] # NoActor \/ Tells(hand, "actorRemove", b)
    BY <1>1, <1>17 DEF Held, Tells, Of
  <2>2. QED
    BY <1>1, <1>10, <1>12, <2>1 DEF Held, Tells, Of
<1>18. QED
  BY <1>13, <1>14, <1>15, <1>16, <1>17 DEF ActorsTold

\* A job's PUT that puts right what was amiss finds the informer and its cache right.
LEMMA PutRightTold ==
    ASSUME ActorsTold, JobWrites
    PROVE  ActorsTold'
<1>1. UNCHANGED <<actors, actorStream, actorInf, actorOut, hand, actorCache>>
  BY DEF JobWrites, WriteAction, requests, informers, caches
<1>2. ActorUnwatched' /\ ToldLast' /\ Arrived'
  BY <1>1 DEF ActorsTold, ActorUnwatched, ToldLast, Arrived, Tells, Of, Live
<1>3. CacheTold'
  <2>1. CASE ~amiss
    BY <1>1, <2>1 DEF ActorsTold, CacheTold, Told, Live
  <2>2. CASE amiss /\ ~amiss'
    <3>1. PutRight
      BY <2>2 DEF JobWrites
    <3>2. QED
      BY <1>1, <3>1 DEF PutRight, CacheTold, Told, Gone, Live
  <2>3. QED
    BY <2>1, <2>2 DEF CacheTold
<1>4. QED
  BY <1>2, <1>3 DEF ActorsTold

\* Which steps make or unmake an actor.
LEMMA LiveWritten ==
    ASSUME Typed, ActorsTold, JobUpdates \/ Landing
    PROVE  ActorsTold' /\ Live \subseteq Live' /\ (JobUpdates => Live' = Live)
<1>1. UNCHANGED <<actorInf, actorCache, actorOut, hand, amiss>>
  BY DEF JobUpdates, Landing, ActorReqLands, requests, informers, caches, history
<1>2. CASE UNCHANGED <<actors, actorStream>>
  BY <1>1, <1>2, ActorsKept DEF Live
<1>3. CASE \E a \in Actor, o \in ActorObj : WriteActor(a, o) /\ (JobUpdates => a \in Live)
  <2>1. PICK a \in Actor, o \in ActorObj : WriteActor(a, o) /\ (JobUpdates => a \in Live)
    BY <1>3
  <2>2. o # NoActor
    BY NoValueAssumption
  <2>3. QED
    BY <1>1, <2>1, <2>2, ActorWritten
<1>4. \/ UNCHANGED <<actors, actorStream>>
      \/ \E a \in Actor, o \in ActorObj : WriteActor(a, o) /\ (JobUpdates => a \in Live)
  <2>1. CASE JobUpdates
    <3>1. job # NoJob /\ job \in Job /\ job.obj \in Action
      BY <2>1 DEF JobUpdates, Typed, TypeOK, Job
    <3>2. [phase |-> "running", script |-> job.obj.script] \in ActorObj
      BY <3>1, ActionWith DEF ActorObj, Phase
    <3>3. job.todo \subseteq Actor
      BY <3>1 DEF Job
    <3>4. QED
      BY <2>1, <3>2, <3>3 DEF JobUpdates
  <2>2. CASE Landing
    <3>1. PICK a \in Actor : actorReq[a] # NoActor /\ WriteActor(a, actorReq[a])
      BY <2>2 DEF Landing, ActorReqLands
    <3>2. actorReq[a] \in ActorObj
      BY <3>1 DEF Typed, TypeOK
    <3>3. ~JobUpdates
      <4>1. PICK b \in Actor : /\ actorReq[b] # NoActor
                               /\ actorReq' = [actorReq EXCEPT ![b] = NoActor]
        BY <2>2 DEF Landing, ActorReqLands
      <4>2. actorReq'[b] = NoActor
        BY <4>1 DEF Typed, TypeOK
      <4>3. QED
        BY <4>1, <4>2 DEF JobUpdates, requests
    <3>4. QED
      BY <3>1, <3>2, <3>3
  <2>3. QED
    BY <2>1, <2>2
<1>5. QED
  BY <1>2, <1>3, <1>4

\* The fields of a job that goes on.
LEMMA Going ==
    ASSUME NEW j \in Job
    PROVE  /\ LET k == [j EXCEPT !.shared = FALSE]
              IN  /\ k # NoJob /\ ~k.shared /\ k.kind = j.kind /\ k.obj = j.obj
                  /\ k.toCreate = j.toCreate /\ k.todo = j.todo /\ k.found = j.found
                  /\ k.stale = j.stale
           /\ LET k == [j EXCEPT !.stale = TRUE]
              IN  /\ k # NoJob /\ k.stale /\ k.kind = j.kind /\ k.obj = j.obj
                  /\ k.toCreate = j.toCreate /\ k.todo = j.todo /\ k.found = j.found
                  /\ k.shared = j.shared
           /\ LET k == [j EXCEPT !.found = TRUE]
              IN  /\ k # NoJob /\ k.found /\ k.kind = j.kind /\ k.obj = j.obj
                  /\ k.toCreate = j.toCreate /\ k.todo = j.todo /\ k.shared = j.shared
                  /\ k.stale = j.stale
           /\ \A a \in Actor : LET k == [j EXCEPT !.todo = @ \ {a}]
              IN  /\ k # NoJob /\ k.todo = j.todo \ {a} /\ k.kind = j.kind /\ k.obj = j.obj
                  /\ k.toCreate = j.toCreate /\ k.found = j.found /\ k.shared = j.shared
                  /\ k.stale = j.stale
           /\ j.toCreate > 0 => LET k == [j EXCEPT !.toCreate = @ - 1]
              IN  /\ k # NoJob /\ k.toCreate = j.toCreate - 1 /\ k.kind = j.kind /\ k.obj = j.obj
                  /\ k.todo = j.todo /\ k.found = j.found /\ k.shared = j.shared
                  /\ k.stale = j.stale
<1>1. /\ [j EXCEPT !.shared = FALSE] # NoJob /\ [j EXCEPT !.stale = TRUE] # NoJob
      /\ [j EXCEPT !.found = TRUE] # NoJob /\ \A a \in Actor : [j EXCEPT !.todo = @ \ {a}] # NoJob
      /\ j.toCreate > 0 => [j EXCEPT !.toCreate = @ - 1] # NoJob
  BY JobGoesOn, NoValueAssumption
<1>2. QED
  BY <1>1 DEF Job

\* The fields of a new job.
LEMMA Starting ==
    ASSUME NEW kind, NEW obj, NEW n, NEW todo, NEW shared, StartJob(kind, obj, n, todo, shared)
    PROVE  /\ job'.kind = kind /\ job'.obj = obj /\ job'.toCreate = n /\ job'.todo = todo
           /\ job'.shared = shared /\ ~job'.found /\ job'.stale = (actionCache # action)
<1> DEFINE stale == actionCache # action
<1>1. job' = [kind |-> kind, obj |-> obj, toCreate |-> n, todo |-> todo,
              found |-> FALSE, shared |-> shared, stale |-> stale]
  BY DEF StartJob
<1>2. QED
  BY <1>1

\* A call's job, or the routine's, has created an actor.
LEMMA Created ==
    ASSUME Typed, ActorsTold, JobCreates
    PROVE  \E a \in Fresh :
             /\ ActorsTold' /\ Live' = Live \cup {a}
             /\ job # NoJob /\ job' # NoJob /\ job.toCreate \in Nat \ {0}
             /\ job'.toCreate = job.toCreate - 1
             /\ job'.kind = job.kind /\ job'.todo = job.todo /\ job'.found = job.found
             /\ job'.shared = job.shared /\ job'.stale = job.stale
             /\ job.obj \in Action /\ job.obj.status \in Status
             /\ job'.obj \in Action /\ job'.obj.status \in Status
             /\ job'.obj.status.actors = job.obj.status.actors
             /\ job'.obj.status.toRun = job.obj.status.toRun \cup {a}
             /\ actionCache' = IF job.shared THEN job'.obj ELSE actionCache
<1>1. job \in Job /\ job.obj \in Action /\ job.obj.status \in Status
      /\ job.toCreate \in Nat \ {0} /\ job # NoJob
  <2>1. job # NoJob /\ job.toCreate > 0
    BY DEF JobCreates
  <2>2. job \in Job /\ job.obj \in Action /\ job.toCreate \in Nat
    BY <2>1 DEF Typed, TypeOK, Job
  <2>3. job.obj.status # NoStatus
    BY <2>1 DEF Typed, Working
  <2>4. job.obj.status \in Status
    BY <2>2, <2>3 DEF Action
  <2>5. QED
    BY <2>1, <2>2, <2>4
<1>2. PICK a \in Fresh :
         /\ WriteActor(a, [phase |-> "starting", script |-> job.obj.script])
         /\ LET new == [job.obj.status EXCEPT !.toRun = @ \cup {a},
                            !.desired = @ + IF job.kind = "request" THEN 1 ELSE 0]
            IN  /\ job' = [job EXCEPT !.toCreate = @ - 1, !.obj.status = new]
                /\ actionCache' = IF job.shared THEN [actionCache EXCEPT !.status = new]
                                                ELSE actionCache
  BY DEF JobCreates
<1>3. PICK s \in Status : s = job.obj.status
  BY <1>1
<1>4. PICK n \in Nat : n = s.desired + IF job.kind = "request" THEN 1 ELSE 0
  BY DEF Status
<1>5. PICK new : new = [s EXCEPT !.toRun = s.toRun \cup {a}, !.desired = n]
  OBVIOUS
<1>6. new \in Status /\ new.actors = s.actors /\ new.toRun = s.toRun \cup {a}
  BY <1>5 DEF Status, Fresh
<1>7. job' = [job EXCEPT !.toCreate = job.toCreate - 1, !.obj.status = new]
      /\ actionCache' = IF job.shared THEN [actionCache EXCEPT !.status = new] ELSE actionCache
  BY <1>2, <1>3, <1>4, <1>5 DEF Status
<1>8. job'.toCreate = job.toCreate - 1 /\ job'.kind = job.kind /\ job'.todo = job.todo
      /\ job'.found = job.found /\ job'.shared = job.shared /\ job'.stale = job.stale
      /\ job'.obj = [job.obj EXCEPT !.status = new]
  BY <1>1, <1>7 DEF Job
<1>9. job'.obj.status = new
  BY <1>1, <1>8 DEF Action
<1>10. job.shared => actionCache = job.obj
  BY <1>1 DEF Typed, Working
<1>11. job' # NoJob /\ job'.obj \in Action
  <2>1. job'.obj \in Action
    BY <1>1, <1>6, <1>8, ActionWith
  <2>2. job.toCreate - 1 \in Nat
    BY <1>1
  <2>3. job' = [job EXCEPT !.toCreate = job.toCreate - 1, !.obj = job'.obj]
    BY <1>1, <1>7, <1>8 DEF Job
  <2>4. job' \in Job
    BY <1>1, <2>1, <2>2, <2>3 DEF Job
  <2>5. QED
    BY <2>1, <2>4, NoValueAssumption
<1>12. Live' = Live \cup {a} /\ ActorsTold'
  <2>1. PICK o \in ActorObj : o = [phase |-> "starting", script |-> job.obj.script]
    BY <1>1, ActionWith DEF ActorObj, Phase
  <2>2. o # NoActor /\ a \in Actor
    BY NoValueAssumption DEF Fresh
  <2>3. UNCHANGED <<actorInf, actorCache, actorOut, hand, amiss>>
    BY DEF JobCreates, informers
  <2>4. QED
    BY <1>2, <2>1, <2>2, <2>3, ActorWritten
<1>13. QED
  BY <1>1, <1>3, <1>6, <1>7, <1>8, <1>9, <1>10, <1>11, <1>12

\* A job has deleted one of the actors it has to.
LEMMA LiveUnmade ==
    ASSUME Typed, ActorsTold, JobDeletes
    PROVE  /\ ActorsTold'
           /\ \E a \in job.todo : Live' = Live \ {a} /\ job' = [job EXCEPT !.todo = @ \ {a}]
<1>1. PICK a \in job.todo :
         /\ IF a \in Live THEN WriteActor(a, NoActor) ELSE UNCHANGED <<actors, actorStream>>
         /\ job' = [job EXCEPT !.todo = @ \ {a}]
  BY DEF JobDeletes
<1>2. UNCHANGED <<actorInf, actorCache, actorOut, hand, amiss>>
  BY DEF JobDeletes, requests, informers, caches, history
<1>3. a \in Actor
  BY DEF JobDeletes, Typed, TypeOK, Job
<1>4. CASE a \in Live
  BY <1>1, <1>2, <1>3, <1>4, ActorWritten
<1>5. CASE a \notin Live
  <2>1. UNCHANGED <<actors, actorStream>>
    BY <1>1, <1>5
  <2>2. ActorsTold' /\ Live' = Live
    BY <1>2, <2>1, ActorsKept DEF Live
  <2>3. QED
    BY <1>1, <1>5, <2>2
<1>6. QED
  BY <1>4, <1>5

\* The steps that leave the actors alone.
LEMMA LiveKept ==
    ASSUME \/ ListActions \/ ListActors \/ Connect \/ InformAction \/ InformActor \/ Receive
           \/ Handles \/ Routine \/ JobEnds \/ JobLooksUp \/ JobWrites \/ MonitorReads
           \/ MonitorEnds \/ PostReads
           \/ LoseWatch \/ NoTopic \/ JobFailsToCreate \/ JobFailsOnActor \/ JobFailsToWrite
           \/ Kill \/ MinutePasses \/ Call \/ CreateAction \/ ActionReqLands \/ DeleteAction
           \/ Start
           \/ Reporting \/ UNCHANGED vars
    PROVE  Live' = Live
<1>1. actors' = actors
  BY DEF ListActions, ListActors, Connect, InformAction, InformActor, Receive, Handles,
         HandleActor, HandleActionCreate, HandleActionUpdate, HandleActionRemove, HandleRequest,
         Panics, Down, Took, Routine, JobEnds, JobLooksUp, JobWrites, MonitorReads, MonitorEnds,
         PostReads, LoseWatch, NoTopic, JobFailsToCreate, JobFailsOnActor, JobFailsToWrite, Kill,
         MinutePasses, Call, CreateAction, ActionReqLands, DeleteAction, Start, Reporting,
         ActorRuns, ActorReports, ActorGoesBad, PutActor, etcd, requests, vars
<1>2. QED
  BY <1>1 DEF Live

\* Only a deletion unmakes an actor.
LEMMA LiveGrows ==
    ASSUME Typed, ActorsTold, [Next]_vars, ~JobCreates, ~JobDeletes
    PROVE  Live \subseteq Live'
BY LiveKept, LiveWritten DEF Next, Informs, JobSteps, Failures, Reporting, Landing

\* Every step keeps what is said of the actors.
LEMMA ActorsToldStep ==
    ASSUME Typed, ActionOut, ActorsTold, [Next]_vars
    PROVE  ActorsTold'
<1>1. ASSUME \/ ListActions \/ Connect \/ InformAction \/ HandleActor \/ HandleActionCreate
             \/ HandleActionUpdate \/ HandleActionRemove \/ HandleRequest \/ Routine \/ JobEnds
             \/ JobLooksUp \/ MonitorReads \/ MonitorEnds \/ PostReads \/ NoTopic
             \/ JobFailsToCreate \/ JobFailsOnActor
             \/ JobFailsToWrite \/ MinutePasses \/ Call \/ CreateAction \/ ActionReqLands
             \/ DeleteAction \/ Start \/ Reporting \/ UNCHANGED vars
      PROVE  ActorsTold'
  <2>1. UNCHANGED <<actors, actorStream, actorCache>>
    BY <1>1 DEF ListActions, Connect, InformAction, HandleActor, HandleActionCreate,
                HandleActionUpdate, HandleActionRemove, HandleRequest, Routine, Took, JobEnds,
                JobLooksUp, MonitorReads, MonitorEnds, PostReads, NoTopic, JobFailsToCreate,
                JobFailsOnActor, JobFailsToWrite, MinutePasses, Call, CreateAction,
                ActionReqLands, DeleteAction, WriteAction, Start, Reporting, ActorRuns,
                ActorReports, ActorGoesBad, PutActor, etcd, requests, streams, caches, vars
  <2>2. actorOut' = actorOut
    BY <1>1 DEF ListActions, Connect, InformAction, HandleActor, HandleActionCreate,
                HandleActionUpdate, HandleActionRemove, HandleRequest, Routine, Took, JobEnds,
                JobLooksUp, MonitorReads, MonitorEnds, PostReads, NoTopic, JobFailsToCreate,
                JobFailsOnActor, JobFailsToWrite, MinutePasses, Call, CreateAction,
                ActionReqLands, DeleteAction, Start, Reporting, ActorRuns, ActorReports,
                ActorGoesBad, PutActor, requests, informers, vars
  <2>3. hand' \in {hand, NoEvent}
    BY <1>1 DEF ListActions, Connect, InformAction, HandleActor, HandleActionCreate,
                HandleActionUpdate, HandleActionRemove, HandleRequest, Routine, Took, JobEnds,
                JobLooksUp, MonitorReads, MonitorEnds, PostReads, NoTopic, JobFailsToCreate,
                JobFailsOnActor, JobFailsToWrite, MinutePasses, Call, CreateAction,
                ActionReqLands, DeleteAction, Start, Reporting, ActorRuns, ActorReports,
                ActorGoesBad, PutActor, vars
  <2>4. actorInf' = actorInf \/ actorInf # "watch"
    BY <1>1 DEF ListActions, Connect, InformAction, HandleActor, HandleActionCreate,
                HandleActionUpdate, HandleActionRemove, HandleRequest, Routine, Took, JobEnds,
                JobLooksUp, MonitorReads, MonitorEnds, PostReads, NoTopic, JobFailsToCreate,
                JobFailsOnActor, JobFailsToWrite, MinutePasses, Call, CreateAction,
                ActionReqLands, DeleteAction, Start, Reporting, ActorRuns, ActorReports,
                ActorGoesBad, PutActor, requests, informers, vars
  <2>5. ~amiss' => ~amiss
    BY <1>1 DEF ListActions, Connect, InformAction, HandleActor, HandleActionCreate,
                HandleActionUpdate, HandleActionRemove, HandleRequest, Routine, Took, JobEnds,
                JobLooksUp, MonitorReads, MonitorEnds, PostReads, NoTopic, JobFailsToCreate,
                JobFailsOnActor, JobFailsToWrite, MinutePasses, Call, CreateAction,
                ActionReqLands, DeleteAction, Start, Reporting, ActorRuns, ActorReports,
                ActorGoesBad, PutActor, history, vars
  <2>6. QED
    BY <2>1, <2>2, <2>3, <2>4, <2>5, ActorsKept
<1>2. ASSUME ListActors PROVE ActorsTold'
  <2>1. /\ UNCHANGED <<actors, actorStream, actorOut, hand, amiss>>
        /\ actorInf # "watch" /\ actorInf' # "watch"
        /\ \A a \in Actor : actorCache[a] # NoActor => actorCache'[a] # NoActor
    BY <1>2 DEF ListActors, etcd, requests, streams, history
  <2>2. QED
    BY <2>1 DEF ActorsTold, ActorUnwatched, ToldLast, CacheTold, Arrived, Tells, Of, Live
<1>3. ASSUME Receive PROVE ActorsTold'
  <2>1. UNCHANGED <<actors, actorStream, actorInf, actorCache, amiss>>
    BY <1>3 DEF Receive, etcd, requests, streams, caches, history
  <2>2. ActorUnwatched' /\ ToldLast' /\ CacheTold'
    BY <2>1 DEF ActorsTold, ActorUnwatched, ToldLast, CacheTold, Told, Live
  <2>3. Arrived'
    <3>1. SUFFICES ASSUME NEW a \in Actor
                   PROVE  /\ Tells(actorOut, "actorCreate", a)' => actorCache[a] # NoActor
                          /\ Tells(hand, "actorCreate", a)' => actorCache[a] # NoActor
      BY <2>1 DEF Arrived, Tells, Of
    <3>2. ~Tells(actionOut, "actorCreate", a)
      BY DEF ActionOut, ActorEvents, Tells, Of
    <3>3. \/ hand' = actionOut /\ actorOut' = actorOut
          \/ hand' = actorOut /\ actorOut' = NoEvent
      BY <1>3 DEF Receive
    <3>4. Tells(actorOut, "actorCreate", a) => actorCache[a] # NoActor
      BY DEF ActorsTold, Arrived
    <3>5. QED
      BY <3>2, <3>3, <3>4 DEF Tells, Of
  <2>4. QED
    BY <2>2, <2>3 DEF ActorsTold
<1>4. ASSUME LoseWatch PROVE ActorsTold'
  <2>1. UNCHANGED <<actors, actorCache, actorOut, hand>>
    BY <1>4 DEF LoseWatch, etcd, requests, caches
  <2>2. CASE UNCHANGED <<actorInf, actorStream, amiss>>
    BY <2>1, <2>2, ActorsKept
  <2>3. CASE actorInf' = "list" /\ actorStream' = <<>> /\ amiss'
    BY <2>1, <2>3 DEF ActorsTold, ActorUnwatched, ToldLast, CacheTold, Arrived, Tells, Of
  <2>4. QED
    BY <1>4, <2>2, <2>3 DEF LoseWatch
<1>5. ASSUME Kill \/ Panics PROVE ActorsTold'
  BY <1>5 DEF Kill, Panics, Down, ActorsTold, ActorUnwatched, ToldLast, CacheTold, Arrived, Tells,
              Of
<1>6. QED
  BY <1>1, <1>2, <1>3, <1>4, <1>5, ActorInformed, PutRightTold, LiveWritten, Created, LiveUnmade
     DEF Next, Informs, Handles, JobSteps, Failures, Reporting, Landing

\* What is held stays so until the loop has handled its removal, or the brain ends.
LEMMA HeldStep ==
    ASSUME Typed, ActorsTold, [Next]_vars, ~Panics, ~Kill, NEW a \in Actor, Held(a),
           ~(HandleActor /\ Tells(hand, "actorRemove", a))
    PROVE  Held(a)'
<1>1. CASE UNCHANGED <<actorCache, actorOut>> /\ (hand' = hand \/ ~Tells(hand, "actorRemove", a))
  BY <1>1 DEF Held, Tells, Of
<1>2. CASE ListActors
  BY <1>2 DEF ListActors, Held, Tells, Of
<1>3. CASE Receive
  BY <1>3 DEF Receive, caches, Held, Tells, Of
<1>4. ASSUME \/ ListActions \/ Connect \/ InformAction \/ LoseWatch \/ HandleRequest \/ Routine
             \/ MonitorReads \/ MonitorEnds \/ PostReads \/ MinutePasses \/ Call
             \/ CreateAction \/ ActionReqLands \/ DeleteAction
             \/ Start \/ UNCHANGED vars
      PROVE  UNCHANGED <<actorCache, actorOut, hand>>
  BY <1>4 DEF ListActions, Connect, InformAction, LoseWatch, HandleRequest, Routine,
              MonitorReads, MonitorEnds, PostReads, MinutePasses, Call, CreateAction,
              ActionReqLands, DeleteAction, Start, requests, informers, caches, vars
<1>5. ASSUME \/ JobSteps \/ JobFailsToCreate \/ JobFailsOnActor \/ JobFailsToWrite
             \/ Reporting \/ Landing
      PROVE  UNCHANGED <<actorCache, actorOut, hand>>
  BY <1>5 DEF JobSteps, JobCreates, JobDeletes, JobUpdates, JobEnds, JobLooksUp, JobWrites,
              JobFailsToCreate, JobFailsOnActor, JobFailsToWrite, Reporting, ActorRuns,
              ActorReports, ActorGoesBad, PutActor, Landing, ActorReqLands, requests, informers,
              caches
<1>6. ASSUME \/ HandleActor \/ HandleActionCreate \/ HandleActionUpdate
             \/ HandleActionRemove \/ NoTopic
      PROVE  UNCHANGED <<actorCache, actorOut>> /\ ~Tells(hand, "actorRemove", a)
  BY <1>6 DEF HandleActor, HandleActionCreate, HandleActionUpdate, HandleActionRemove, NoTopic,
              Took, requests, informers, caches, Tells, Of
<1>7. CASE InformActor
  BY <1>7, ActorInformed
<1>8. QED
  BY <1>1, <1>2, <1>3, <1>4, <1>5, <1>6, <1>7 DEF Next, Informs, Handles, Failures, Reporting,
                                                  Landing

\* An action that a job has found is there, or a user has written it since; a call's
\* job has one actor to create, from what the action is, and no other shares.
JobSound ==
    job # NoJob =>
       /\ job.found /\ action = NoAction => job.stale
       /\ job.kind = "request" => /\ job.toCreate <= 1
                                  /\ job.toCreate = 1 /\ ~job.stale => job.obj = action
       /\ job.shared => job.kind = "request"

\* What a step may do to a job that goes on, apart from creating an actor.
LEMMA JobGoes ==
    ASSUME Typed, [Next]_vars, ~JobCreates, job # NoJob, job' # NoJob
    PROVE  /\ job'.kind = job.kind /\ job'.obj = job.obj /\ job'.todo \subseteq job.todo
           /\ \/ job'.toCreate = job.toCreate
              \/ job.kind # "request" /\ job.toCreate > 0 /\ job'.toCreate = job.toCreate - 1
           /\ job'.shared => job.shared
           /\ job.stale => job'.stale
           /\ job'.found => job.found \/ action # NoAction
           /\ job'.stale \/ action' = action
<1>1. job \in Job /\ job.todo \subseteq Actor
  BY DEF Typed, TypeOK, Job
<1> DEFINE Same == /\ job'.kind = job.kind /\ job'.obj = job.obj /\ job'.todo \subseteq job.todo
                   /\ job'.toCreate = job.toCreate
                   /\ job'.shared => job.shared
                   /\ job.stale => job'.stale
<1>2. CASE job' = job /\ action' = action
  BY <1>2
<1>3. CASE ListActions \/ InformAction
  <2>1. action' = action /\ job' \in {job, [job EXCEPT !.shared = FALSE]}
    BY <1>3 DEF ListActions, InformAction, Unshare, etcd
  <2>2. CASE job' = job
    BY <2>1, <2>2
  <2>3. CASE job' = [job EXCEPT !.shared = FALSE]
    BY <1>1, <2>1, <2>3, Going
  <2>4. QED
    BY <2>1, <2>2, <2>3
<1>4. CASE CreateAction \/ ActionReqLands \/ DeleteAction
  <2>1. job' = [job EXCEPT !.stale = TRUE]
    BY <1>4 DEF CreateAction, ActionReqLands, DeleteAction, Outdate
  <2>2. Same /\ job'.stale /\ job'.found = job.found
    BY <1>1, <2>1, Going
  <2>3. QED
    BY <2>2
<1>5. CASE JobDeletes \/ JobUpdates \/ JobFailsOnActor
  <2>1. action' = action
    BY <1>5 DEF JobDeletes, JobUpdates, JobFailsOnActor, etcd, requests
  <2>2. PICK a \in job.todo : job' = [job EXCEPT !.todo = @ \ {a}]
    BY <1>5 DEF JobDeletes, JobUpdates, JobFailsOnActor
  <2>3. Same /\ job'.found = job.found
    BY <1>1, <2>2, Going
  <2>4. QED
    BY <2>1, <2>3
<1>6. CASE JobFailsToCreate
  <2>1. /\ action' = action /\ job.toCreate > 0 /\ job.kind # "request"
        /\ job' = [job EXCEPT !.toCreate = @ - 1]
    BY <1>6 DEF JobFailsToCreate, etcd, requests
  <2>2. QED
    BY <1>1, <2>1, Going
<1>7. CASE JobLooksUp
  <2>1. action' = action /\ action # NoAction /\ job' = [job EXCEPT !.found = TRUE]
    BY <1>7 DEF JobLooksUp, etcd, requests
  <2>2. QED
    BY <1>1, <2>1, Going
<1>8. ASSUME \/ ListActors \/ Connect \/ InformActor \/ Receive \/ LoseWatch \/ MonitorReads
             \/ MonitorEnds \/ PostReads
             \/ MinutePasses \/ Call \/ Start \/ UNCHANGED vars
             \/ Reporting \/ Landing
      PROVE  job' = job /\ action' = action
  BY <1>8 DEF ListActors, Connect, InformActor, Receive, LoseWatch, MonitorReads, MonitorEnds,
              PostReads, MinutePasses, Call, Start, Reporting, ActorRuns, ActorReports,
              ActorGoesBad, PutActor, Landing, ActorReqLands, etcd, requests, vars
<1>9. ~(Handles \/ Routine \/ NoTopic)
  BY DEF Handles, HandleActor, HandleActionCreate, HandleActionUpdate, HandleActionRemove,
         HandleRequest, Panics, Routine, NoTopic, Idle
<1>10. ~(Kill \/ JobEnds \/ JobWrites \/ JobFailsToWrite)
  BY DEF Kill, Down, JobEnds, JobWrites, JobFailsToWrite
<1>11. QED
  BY <1>2, <1>3, <1>4, <1>5, <1>6, <1>7, <1>8, <1>9, <1>10
     DEF Next, Informs, JobSteps, Failures, Reporting, Landing

\* Only the loop, a call or the routine begins a job.
LEMMA JobBegins ==
    ASSUME [Next]_vars, job = NoJob, job' # NoJob
    PROVE  \/ HandleActor \/ HandleActionCreate \/ HandleActionUpdate \/ HandleActionRemove
           \/ HandleRequest \/ Routine
<1>1. ~(JobSteps \/ JobFailsToCreate \/ JobFailsOnActor \/ JobFailsToWrite)
  BY DEF JobSteps, JobCreates, JobDeletes, JobUpdates, JobEnds, JobLooksUp, JobWrites, AtPut,
         JobFailsToCreate, JobFailsOnActor, JobFailsToWrite
<1>2. ~(Informs \/ LoseWatch \/ NoTopic \/ Kill \/ Panics)
  BY DEF Informs, ListActions, ListActors, Connect, InformAction, InformActor, Receive, Unshare,
         LoseWatch, NoTopic, Kill, Panics, Down
<1>3. ~(\/ MonitorReads \/ MonitorEnds \/ PostReads \/ MinutePasses \/ Call \/ CreateAction
        \/ ActionReqLands \/ DeleteAction \/ Start
        \/ UNCHANGED vars \/ Reporting \/ Landing)
  BY DEF MonitorReads, MonitorEnds, PostReads, MinutePasses, Call, CreateAction, ActionReqLands,
         DeleteAction, Outdate, Start, Reporting, ActorRuns, ActorReports, ActorGoesBad,
         PutActor, Landing, ActorReqLands, vars
<1>4. QED
  BY <1>1, <1>2, <1>3 DEF Next, Handles, Failures, Reporting, Landing

\* Every step keeps what is said of jobs.
LEMMA JobSoundStep ==
    ASSUME Typed, ActorsTold, JobSound, [Next]_vars
    PROVE  JobSound'
<1>1. SUFFICES ASSUME job' # NoJob
               PROVE  JobSound'
  BY DEF JobSound
<1>2. CASE job # NoJob /\ ~JobCreates
  <2>1. job.toCreate \in Nat
    BY <1>2 DEF Typed, TypeOK, Job
  <2>2. action' = NoAction /\ action # NoAction => job'.stale
    BY <1>1, <1>2, JobGoes
  <2>3. action = NoAction /\ job.stale => job'.stale
    BY <1>1, <1>2, JobGoes
  <2>4. QED
    BY <1>1, <1>2, <2>1, <2>2, <2>3, JobGoes DEF JobSound
<1>3. CASE JobCreates
  <2>1. PICK a : /\ job # NoJob /\ job.toCreate \in Nat \ {0} /\ job'.toCreate = job.toCreate - 1
                 /\ job'.kind = job.kind /\ job'.found = job.found
                 /\ job'.shared = job.shared /\ job'.stale = job.stale
    BY <1>3, Created
  <2>2. action' = action
    BY <1>3 DEF JobCreates
  <2>3. QED
    BY <2>1, <2>2 DEF JobSound
<1>4. CASE job = NoJob
  <2>1. PICK kind, obj, n, todo, shared :
           /\ StartJob(kind, obj, n, todo, shared)
           /\ kind = "request" => n = 1 /\ obj = actionCache
           /\ shared => kind = "request"
    BY <1>1, <1>4, JobBegins
       DEF HandleActor, HandleActionCreate, HandleActionUpdate, HandleActionRemove,
           HandleRequest, Routine, StartRoutine
  <2>2. action' = action
    BY <1>1, <1>4, JobBegins DEF HandleActor, HandleActionCreate, HandleActionUpdate,
                HandleActionRemove, HandleRequest, Routine, Took, etcd, requests
  <2>3. /\ job'.kind = kind /\ job'.obj = obj /\ job'.toCreate = n /\ job'.shared = shared
        /\ ~job'.found /\ job'.stale = (actionCache # action)
    BY <2>1, Starting
  <2>4. n = 1 => n <= 1
    OBVIOUS
  <2>5. QED
    BY <2>1, <2>2, <2>3, <2>4 DEF JobSound
<1>5. QED
  BY <1>2, <1>3, <1>4

\* How a job is left.
LEMMA JobLeaves ==
    ASSUME Typed, ActorsTold, [Next]_vars, job # NoJob, job' = NoJob
    PROVE  \/ JobFailsToCreate /\ job.kind = "request"
           \/ JobLooksUp /\ action = NoAction
           \/ JobEnds \/ JobWrites \/ JobFailsToWrite \/ Kill
<1>1. job \in Job /\ job.todo \subseteq Actor
  BY DEF Typed, TypeOK, Job
<1>2. ~(Handles \/ Routine \/ NoTopic)
  BY DEF Handles, HandleActor, HandleActionCreate, HandleActionUpdate, HandleActionRemove,
         HandleRequest, Panics, Routine, NoTopic, Idle
<1>3. ~(ListActions \/ InformAction \/ CreateAction \/ ActionReqLands \/ DeleteAction)
  BY <1>1, Going DEF ListActions, InformAction, Unshare, CreateAction, ActionReqLands, DeleteAction,
                     Outdate
<1>4. ~(JobDeletes \/ JobUpdates \/ JobFailsOnActor)
  BY <1>1, Going DEF JobDeletes, JobUpdates, JobFailsOnActor
<1>5. ~JobCreates
  BY Created
<1>6. JobFailsToCreate => job.kind = "request"
  BY <1>1, Going DEF JobFailsToCreate
<1>7. JobLooksUp => action = NoAction
  BY <1>1, Going DEF JobLooksUp
<1>8. ~(\/ ListActors \/ Connect \/ InformActor \/ Receive \/ LoseWatch \/ MonitorReads
        \/ MonitorEnds \/ PostReads
        \/ MinutePasses \/ Call \/ Start \/ UNCHANGED vars
        \/ Reporting \/ Landing)
  BY DEF ListActors, Connect, InformActor, Receive, LoseWatch, MonitorReads, MonitorEnds,
         PostReads, MinutePasses, Call, Start, Reporting, ActorRuns, ActorReports, ActorGoesBad,
         PutActor, Landing, ActorReqLands, vars
<1>9. QED
  BY <1>2, <1>3, <1>4, <1>5, <1>6, <1>7, <1>8 DEF Next, Informs, JobSteps, Failures, Reporting,
                                                  Landing

\* What the informer of actions has missed it does not come to see.
LEMMA UnseenStays ==
    ASSUME Typed, [Next]_vars
    PROVE  unseen => unseen'
<1>0. SUFFICES ASSUME unseen
               PROVE  unseen'
  OBVIOUS
<1>1. CASE unseen' = unseen
  BY <1>0, <1>1
<1>2. CASE CreateAction \/ ActionReqLands \/ DeleteAction \/ JobWrites
  BY <1>0, <1>2 DEF CreateAction, ActionReqLands, DeleteAction, JobWrites, WriteAction
<1>3. CASE LoseWatch \/ Panics \/ Kill \/ NoTopic \/ JobFailsToWrite
  BY <1>0, <1>3 DEF LoseWatch, Panics, Kill, Down, NoTopic, JobFailsToWrite
<1>4. ASSUME Informs \/ HandleActor \/ HandleActionCreate
             \/ HandleActionUpdate \/ HandleActionRemove \/ HandleRequest \/ Routine
      PROVE  unseen'
  BY <1>0, <1>4 DEF Informs, ListActions, ListActors, Connect, InformAction, InformActor,
                    Receive, HandleActor, HandleActionCreate, HandleActionUpdate,
                    HandleActionRemove, HandleRequest, Routine, Took, history
<1>5. ASSUME \/ MonitorReads \/ MonitorEnds \/ PostReads \/ MinutePasses \/ Call \/ Start
             \/ UNCHANGED vars
      PROVE  unseen' = unseen
  BY <1>5 DEF MonitorReads, MonitorEnds, PostReads, MinutePasses, Call, Start, history, vars
<1>6. ASSUME \/ JobCreates \/ JobDeletes \/ JobUpdates \/ JobEnds \/ JobLooksUp \/ JobFailsToCreate
             \/ JobFailsOnActor \/ Reporting \/ Landing
      PROVE  unseen' = unseen
  BY <1>6 DEF JobCreates, JobDeletes, JobUpdates, JobEnds, JobLooksUp, JobFailsToCreate,
              JobFailsOnActor, Reporting, ActorRuns, ActorReports, ActorGoesBad, PutActor,
              Landing, ActorReqLands, history
<1>7. QED
  BY <1>1, <1>2, <1>3, <1>4, <1>5, <1>6 DEF Next, Handles, JobSteps, Failures, Reporting, Landing

\* How the action and what is told of it change.
LEMMA ActionSteps ==
    ASSUME [Next]_vars
    PROVE  \/ UNCHANGED <<action, actionStream>>
           \/ InformAction
           \/ /\ LoseWatch /\ actionStream' = <<>> /\ action' = action
              /\ actionStream # <<>> => unseen'
           \/ CreateAction \/ ActionReqLands \/ DeleteAction \/ JobWrites
           \/ Panics \/ Kill
<1>1. ASSUME LoseWatch
      PROVE  \/ UNCHANGED <<action, actionStream>>
             \/ /\ LoseWatch /\ actionStream' = <<>> /\ action' = action
                /\ actionStream # <<>> => unseen'
  BY <1>1 DEF LoseWatch, etcd, requests
<1>2. ASSUME \/ ListActions \/ ListActors \/ Connect \/ InformActor \/ Receive \/ MonitorReads
             \/ MonitorEnds \/ PostReads
             \/ MinutePasses \/ Call \/ Start \/ UNCHANGED vars
      PROVE  UNCHANGED <<action, actionStream>>
  BY <1>2 DEF ListActions, ListActors, Connect, InformActor, Receive, MonitorReads, MonitorEnds,
              PostReads, MinutePasses, Call, Start, etcd, requests, streams, vars
<1>3. ASSUME \/ HandleActor \/ HandleActionCreate \/ HandleActionUpdate \/ HandleActionRemove
             \/ HandleRequest \/ NoTopic \/ Routine
      PROVE  UNCHANGED <<action, actionStream>>
  BY <1>3 DEF HandleActor, HandleActionCreate, HandleActionUpdate, HandleActionRemove,
              HandleRequest, NoTopic, Routine, Took, etcd, requests, streams
<1>4. ASSUME \/ JobCreates \/ JobDeletes \/ JobUpdates \/ JobEnds \/ JobLooksUp \/ JobFailsToCreate
             \/ JobFailsOnActor \/ JobFailsToWrite \/ Reporting \/ Landing
      PROVE  UNCHANGED <<action, actionStream>>
  BY <1>4 DEF JobCreates, JobDeletes, JobUpdates, JobEnds, JobLooksUp, JobFailsToCreate,
              JobFailsOnActor, JobFailsToWrite, Reporting, ActorRuns, ActorReports, ActorGoesBad,
              PutActor, Landing, ActorReqLands, etcd, requests, streams
<1>5. QED
  BY <1>1, <1>2, <1>3, <1>4 DEF Next, Informs, Handles, JobSteps, Failures, Reporting, Landing

\* Every write of the action is told of, or the informer has missed it.
LEMMA WriteTold ==
    ASSUME Typed, CreateAction \/ ActionReqLands \/ DeleteAction \/ JobWrites
    PROVE  /\ \/ actionInf = "watch" /\ actionStream' = Append(actionStream, action')
              \/ actionInf # "watch" /\ actionStream' = actionStream /\ unseen'
           /\ action' \in Action \cup {NoAction}
           /\ UNCHANGED <<actionCache, actorCache, actionOut, actorOut, hand, alive, actors>>
<1>1. CASE JobWrites
  BY <1>1 DEF JobWrites, AtPut, WriteAction, Typed, TypeOK, Job, requests, informers, caches
<1>2. CASE CreateAction
  <2>1. PICK s \in Script, i \in Invokes :
           WriteAction([script |-> s, invokes |-> i, status |-> NoStatus])
    BY <1>2 DEF CreateAction
  <2>2. [script |-> s, invokes |-> i, status |-> NoStatus] \in Action
    BY DEF Action
  <2>3. UNCHANGED <<actionCache, actorCache, actionOut, actorOut, hand, alive, actors>>
    BY <1>2 DEF CreateAction, requests, informers, caches
  <2>4. QED
    BY <2>1, <2>2, <2>3 DEF WriteAction
<1>3. CASE ActionReqLands
  BY <1>3 DEF ActionReqLands, WriteAction, Typed, TypeOK, informers, caches
<1>4. CASE DeleteAction
  BY <1>4 DEF DeleteAction, WriteAction, requests, informers, caches
<1>5. QED
  BY <1>1, <1>2, <1>3, <1>4

\* Which steps change the cached action.
LEMMA CacheSteps ==
    ASSUME [Next]_vars
    PROVE  \/ actionCache' = actionCache
           \/ ListActions \/ InformAction \/ (HandleActor /\ Known) \/ (JobCreates /\ job.shared)
           \/ Panics \/ Kill
<1>1. ASSUME \/ ListActors \/ Connect \/ InformActor \/ Receive \/ MonitorReads \/ MonitorEnds
             \/ PostReads \/ LoseWatch
             \/ MinutePasses \/ Call \/ Start \/ HandleActionCreate
             \/ HandleActionUpdate \/ HandleActionRemove \/ HandleRequest \/ NoTopic \/ Routine
             \/ UNCHANGED vars
      PROVE  actionCache' = actionCache
  BY <1>1 DEF ListActors, Connect, InformActor, Receive, MonitorReads, MonitorEnds, PostReads,
              LoseWatch, MinutePasses, Call, Start, HandleActionCreate, HandleActionUpdate,
              HandleActionRemove, HandleRequest, NoTopic, Routine, caches, vars
<1>2. ASSUME \/ JobDeletes \/ JobUpdates \/ JobEnds \/ JobLooksUp \/ JobFailsToCreate \/ JobWrites
             \/ JobFailsOnActor \/ JobFailsToWrite \/ Reporting \/ Landing
             \/ CreateAction \/ ActionReqLands \/ DeleteAction
      PROVE  actionCache' = actionCache
  BY <1>2 DEF JobDeletes, JobUpdates, JobEnds, JobLooksUp, JobFailsToCreate, JobWrites,
              JobFailsOnActor, JobFailsToWrite, Reporting, ActorRuns, ActorReports, ActorGoesBad,
              PutActor, Landing, ActorReqLands, CreateAction, ActionReqLands, DeleteAction,
              caches
<1>3. HandleActor => actionCache' = actionCache \/ Known
  BY DEF HandleActor
<1>4. JobCreates => actionCache' = actionCache \/ job.shared
  BY DEF JobCreates
<1>5. QED
  BY <1>1, <1>2, <1>3, <1>4 DEF Next, Informs, Handles, JobSteps, Failures, Reporting, Landing

\* The stream ends with what the API server has.
StreamEnds == actionStream # <<>> => actionStream[Len(actionStream)] = action

LEMMA StreamEndsStep ==
    ASSUME Typed, StreamEnds, Unwatched, [Next]_vars
    PROVE  StreamEnds'
<1>1. actionStream \in Seq(Action \cup {NoAction})
  BY DEF Typed, TypeOK
<1>2. CASE UNCHANGED <<action, actionStream>>
  BY <1>2 DEF StreamEnds
<1>3. CASE InformAction
  <2>1. actionStream # <<>> /\ actionStream' = Tail(actionStream) /\ action' = action
    BY <1>3 DEF InformAction, etcd, requests
  <2>2. QED
    BY <1>1, <2>1 DEF StreamEnds
<1>4. CASE CreateAction \/ ActionReqLands \/ DeleteAction \/ JobWrites
  <2>1. CASE actionStream' = Append(actionStream, action')
    BY <1>1, <1>4, <2>1, WriteTold DEF StreamEnds
  <2>2. CASE actionInf # "watch" /\ actionStream' = actionStream
    BY <2>2 DEF StreamEnds, Unwatched
  <2>3. QED
    BY <1>4, <2>1, <2>2, WriteTold
<1>5. CASE actionStream' = <<>>
  BY <1>5 DEF StreamEnds
<1>6. QED
  BY <1>2, <1>3, <1>4, <1>5, ActionSteps DEF Panics, Kill, Down

\* What the loop makes of an event of an actor.
LEMMA ActorHandled ==
    ASSUME Typed, HandleActor, Known
    PROVE  /\ job = NoJob /\ job' # NoJob /\ job'.kind = "event" /\ job'.obj = actionCache'
           /\ job'.stale = (actionCache # action)
           /\ actionCache \in Action /\ actionCache.status \in Status
           /\ actionCache' \in Action /\ actionCache'.status \in Status
           /\ \/ /\ Tells(hand, "actorCreate", hand.actor) /\ hand.actor \in Actor
                 /\ actionCache'.status.actors = actionCache.status.actors \cup {hand.actor}
                 /\ actionCache'.status.toRun \subseteq actionCache.status.toRun
              \/ /\ Tells(hand, "actorRemove", hand.actor) /\ hand.actor \in Actor
                 /\ actionCache'.status.actors = actionCache.status.actors \ {hand.actor}
                 /\ actionCache'.status.toRun \subseteq actionCache.status.toRun
<1>1. PICK a \in Actor : a = hand.actor
  BY DEF HandleActor, Typed, TypeOK, Event
<1>2. PICK s \in Status : s = actionCache.status /\ actionCache \in Action
  BY KnownStatus
<1>3. PICK born1 : born1 = [s EXCEPT !.actors = @ \cup {a}, !.toRun = @ \ {a}]
  OBVIOUS
<1>4. PICK died1 : died1 = [s EXCEPT !.actors = @ \ {a}, !.toKill = @ \ {a}]
  OBVIOUS
<1>5. /\ born1 \in Status /\ born1.actors = s.actors \cup {a} /\ born1.toRun \subseteq s.toRun
      /\ died1 \in Status /\ died1.actors = s.actors \ {a} /\ died1.toRun = s.toRun
  BY <1>3, <1>4 DEF Status
<1>6. PICK new \in {born1, died1} :
         /\ actionCache' = [actionCache EXCEPT !.status = new]
         /\ StartJob("event", actionCache', 0, {}, FALSE)
         /\ \/ Tells(hand, "actorCreate", a) /\ new = born1
            \/ Tells(hand, "actorRemove", a) /\ new = died1
  BY <1>1, <1>2, <1>3, <1>4 DEF HandleActor, Tells, Of
<1>7. actionCache' \in Action /\ actionCache'.status = new
  <2>1. PICK c \in Action : c = actionCache
    BY <1>2
  <2>2. [c EXCEPT !.status = new] \in Action /\ [c EXCEPT !.status = new].status = new
    <3>1. new \in Status
      BY <1>5
    <3>2. QED
      BY <3>1, ActionWith, Zenon
  <2>3. QED
    BY <1>6, <2>1, <2>2
<1>8. job' # NoJob
  BY <1>6, <1>7, StartedJob
<1>9. job'.kind = "event" /\ job'.obj = actionCache' /\ job'.stale = (actionCache # action)
  BY <1>6, Starting
<1>10. job = NoJob
  BY DEF HandleActor, Idle
<1>11. QED
  BY <1>1, <1>2, <1>5, <1>6, <1>7, <1>8, <1>9, <1>10

\* A job that will write what the cache has become.
Reports == job # NoJob /\ (job.kind = "event" \/ (job.kind = "request" /\ job.toCreate = 0))

\* Once all is told, the cache has what the API server has, or a job reports on it.
Agree ==
    ~unseen /\ actionStream = <<>> =>
       /\ actionCache # NoAction => actionCache = action \/ Reports
       /\ action = NoAction => actionCache = NoAction

LEMMA AgreeStep ==
    ASSUME Typed, ActorsTold, JobSound, StreamEnds, Agree, [Next]_vars
    PROVE  Agree'
<1>1. SUFFICES ASSUME ~unseen', actionStream' = <<>>, ~Panics, ~Kill
               PROVE  Agree'
  BY DEF Agree, Panics, Kill, Down
<1>2. ~unseen
  BY <1>1, UnseenStays
<1>3. actionStream \in Seq(Action \cup {NoAction})
  BY DEF Typed, TypeOK
<1>4. CASE InformAction
  <2>1. actionStream # <<>> /\ actionStream' = Tail(actionStream) /\ action' = action
        /\ actionCache' = Head(actionStream)
    BY <1>1, <1>4 DEF InformAction, etcd
  <2>2. Len(actionStream) = 1
    <3>1. Len(actionStream') = Len(actionStream) - 1 /\ Len(actionStream) \in Nat
      BY <1>3, <2>1
    <3>2. Len(actionStream') = 0
      BY <1>1
    <3>3. QED
      BY <3>1, <3>2
  <2>3. actionCache' = action
    BY <1>3, <2>1, <2>2 DEF StreamEnds
  <2>4. QED
    BY <2>1, <2>3 DEF Agree
<1>5. ~(CreateAction \/ ActionReqLands \/ DeleteAction \/ JobWrites)
  BY <1>1, <1>3, WriteTold
<1>6. CASE ~InformAction
  <2>1. action' = action /\ actionStream = <<>>
    BY <1>1, <1>5, <1>6, ActionSteps
  <2>2. /\ actionCache # NoAction => actionCache = action \/ Reports
        /\ action = NoAction => actionCache = NoAction
    BY <1>2, <2>1 DEF Agree
  <2>3. CASE ListActions
    BY <2>1, <2>2, <2>3 DEF ListActions, Agree
  <2>4. CASE HandleActor /\ Known
    <3>1. Reports'
      BY <2>4, ActorHandled DEF Reports
    <3>2. action # NoAction
      BY <2>2, <2>4 DEF Known
    <3>3. QED
      BY <2>1, <3>1, <3>2 DEF Agree
  <2>5. CASE JobCreates /\ job.shared
    <3>1. PICK a \in Fresh :
             /\ job # NoJob /\ job' # NoJob /\ job.toCreate \in Nat \ {0}
             /\ job'.toCreate = job.toCreate - 1
             /\ job'.kind = job.kind /\ job.obj \in Action
      BY <2>5, Created
    <3>2. job.kind = "request" /\ job.toCreate = 1
      BY <2>5, <3>1 DEF JobSound
    <3>3. Reports'
      BY <3>1, <3>2 DEF Reports
    <3>4. action # NoAction
      BY <2>2, <2>5, <3>1, NoValueAssumption DEF Typed, Working
    <3>5. QED
      BY <2>1, <3>3, <3>4 DEF Agree
  <2>6. CASE actionCache' = actionCache
    <3>1. SUFFICES ASSUME actionCache # NoAction, Reports
                   PROVE  Reports'
      BY <2>1, <2>2, <2>6 DEF Agree
    <3>2. action # NoAction /\ job # NoJob /\ job.toCreate \in Nat
      BY <2>2, <3>1 DEF Reports, Typed, TypeOK, Job
    <3>3. job.toCreate = 0 /\ job.kind \in {"event", "request"}
      BY <3>1, <3>2 DEF Reports, Typed, Working
    <3>4. ~JobCreates /\ ~JobFailsToCreate /\ ~JobEnds /\ ~JobFailsToWrite
      BY <1>1, <3>3 DEF JobCreates, JobFailsToCreate, JobEnds, JobFailsToWrite
    <3>5. job' # NoJob
      BY <1>1, <1>5, <3>2, <3>4, JobLeaves
    <3>6. job'.kind = job.kind /\ job'.toCreate = 0
      BY <3>2, <3>3, <3>4, <3>5, JobGoes
    <3>7. QED
      BY <3>1, <3>5, <3>6 DEF Reports
  <2>7. QED
    BY <1>1, <1>6, <2>3, <2>4, <2>5, <2>6, CacheSteps
<1>7. QED
  BY <1>4, <1>6

\* What is told of a deletion: nothing is cached, and what comes, if the action is
\* there all the same, will be told of as a creation.
Vanished == actionCache = NoAction /\ (action # NoAction => actionStream # <<>>)
CreateDue == Of(actionOut, "create") \/ Of(hand, "create")
Followed ==
    ~unseen =>
       /\ Of(actionOut, "remove") => Vanished
       /\ Of(hand, "remove") \/ (job # NoJob /\ job.kind = "remove") => CreateDue \/ Vanished

\* The informer finds nothing cached until it tells of a creation.
LEMMA VanishedInformed ==
    ASSUME Typed, StreamEnds, InformAction
    PROVE  /\ Head(actionStream) = NoAction => Vanished'
           /\ Head(actionStream) # NoAction /\ actionCache = NoAction => Of(actionOut, "create")'
           /\ Of(actionOut, "remove")' => Head(actionStream) = NoAction
<1>1. /\ actionStream # <<>> /\ actionStream' = Tail(actionStream) /\ action' = action
      /\ Head(actionStream) = NoAction => actionCache' = NoAction
      /\ actionOut' = ActionNews(Head(actionStream))
  BY DEF InformAction, Refused, etcd
<1>2. actionStream \in Seq(Action \cup {NoAction})
  BY DEF Typed, TypeOK
<1>3. Head(actionStream) = NoAction => Vanished'
  <2>1. SUFFICES ASSUME Head(actionStream) = NoAction, action # NoAction, actionStream' = <<>>
                 PROVE  FALSE
    BY <1>1 DEF Vanished
  <2>2. actionStream[Len(actionStream)] = action /\ actionStream[1] = NoAction
    BY <1>1, <1>2, <2>1 DEF StreamEnds
  <2>3. Len(actionStream) # 1
    BY <2>1, <2>2
  <2>4. Len(actionStream') = Len(actionStream) - 1 /\ Len(actionStream) \in Nat
    BY <1>1, <1>2
  <2>5. Len(actionStream') = 0
    BY <2>1
  <2>6. QED
    BY <2>3, <2>4, <2>5
<1>4. \A o \in Action : [type |-> "create", obj |-> o] # NoEvent
  BY NoValueAssumption DEF Event
<1>5. Head(actionStream) \in Action \cup {NoAction}
  BY <1>1, <1>2
<1>6. Head(actionStream) # NoAction /\ actionCache = NoAction =>
         actionOut' = [type |-> "create", obj |-> Head(actionStream)]
  BY <1>1 DEF ActionNews
<1>7. Of(actionOut, "remove")' => Head(actionStream) = NoAction
  BY <1>1 DEF ActionNews, Of
<1>8. QED
  BY <1>3, <1>4, <1>5, <1>6, <1>7 DEF Of

\* An action that has vanished from the cache comes back with the news that it was created.
LEMMA VanishedStep ==
    ASSUME Typed, ActorsTold, Unwatched, StreamEnds, [Next]_vars, ~unseen', ~Panics, ~Kill, Vanished
    PROVE  Vanished' \/ Of(actionOut, "create")'
<1>1. CASE InformAction
  BY <1>1, VanishedInformed DEF Vanished
<1>2. CASE ~InformAction
  <2>1. actionCache' = NoAction
    <3>1. CASE ListActions
      <4>1. actionStream = <<>>
        BY <3>1 DEF ListActions, Unwatched
      <4>2. QED
        BY <3>1, <4>1 DEF ListActions, Vanished
    <3>2. CASE JobCreates
      BY <3>2, Created, NoValueAssumption DEF Vanished, Typed, Working
    <3>3. QED
      BY <1>2, <3>1, <3>2, CacheSteps DEF Vanished, Known
  <2>2. action' # NoAction => actionStream' # <<>>
    <3>1. CASE CreateAction \/ ActionReqLands \/ DeleteAction \/ JobWrites
      <4>1. actionStream' = Append(actionStream, action') /\ action' \in Action \cup {NoAction}
        BY <3>1, WriteTold
      <4>2. actionStream \in Seq(Action \cup {NoAction})
        BY DEF Typed, TypeOK
      <4>3. QED
        BY <4>1, <4>2
    <3>2. QED
      BY <1>2, <3>1, ActionSteps DEF Vanished
  <2>3. QED
    BY <2>1, <2>2 DEF Vanished
<1>3. QED
  BY <1>1, <1>2

\* How the events of the informers get to the loop, and from there to a job.
LEMMA EventSteps ==
    ASSUME Typed, [Next]_vars, ~Panics, ~Kill
    PROVE  /\ \/ hand' = hand \/ Receive \/ NoTopic
              \/ /\ Idle /\ hand # NoEvent /\ hand' = NoEvent
                 /\ Of(hand, "create") => HandleActionCreate
                 /\ Of(hand, "remove") => HandleActionRemove
           /\ actionOut' = actionOut \/ (InformAction /\ actionOut = NoEvent) \/ Receive
<1>1. ASSUME \/ ListActions \/ ListActors \/ Connect \/ InformActor \/ MonitorReads
             \/ MonitorEnds \/ PostReads \/ LoseWatch
             \/ MinutePasses \/ Call \/ Start \/ HandleRequest \/ Routine \/ UNCHANGED vars
      PROVE  UNCHANGED <<hand, actionOut>>
  BY <1>1 DEF ListActions, ListActors, Connect, InformActor, MonitorReads, MonitorEnds,
              PostReads, LoseWatch, MinutePasses, Call, Start, HandleRequest, Routine, requests,
              informers, vars
<1>2. ASSUME \/ JobSteps \/ JobFailsToCreate \/ JobFailsOnActor \/ JobFailsToWrite
             \/ CreateAction \/ ActionReqLands \/ DeleteAction
             \/ Reporting \/ Landing
      PROVE  UNCHANGED <<hand, actionOut>>
  BY <1>2 DEF JobSteps, JobCreates, JobDeletes, JobUpdates, JobEnds, JobLooksUp, JobWrites,
              JobFailsToCreate, JobFailsOnActor, JobFailsToWrite, CreateAction, ActionReqLands,
              DeleteAction, Reporting, ActorRuns, ActorReports, ActorGoesBad, PutActor, Landing,
              ActorReqLands, requests, informers
<1>3. ASSUME \/ HandleActor \/ HandleActionCreate \/ HandleActionUpdate
             \/ HandleActionRemove \/ NoTopic
      PROVE  /\ Idle /\ hand # NoEvent /\ hand' = NoEvent /\ actionOut' = actionOut
             /\ Of(hand, "create") => HandleActionCreate \/ NoTopic
             /\ Of(hand, "remove") => HandleActionRemove
  BY <1>3 DEF HandleActor, HandleActionCreate, HandleActionUpdate, HandleActionRemove, NoTopic,
              Took, requests, informers, Of
<1>4. ASSUME InformAction PROVE actionOut = NoEvent /\ hand' = hand
  BY <1>4 DEF InformAction
<1>5. QED
  BY <1>1, <1>2, <1>3, <1>4 DEF Next, Informs, Handles, Failures, Reporting, Landing

\* A creation that is told of is handled, unless its topic fails.
LEMMA CreateDueStep ==
    ASSUME Typed, [Next]_vars, ~Panics, ~Kill, CreateDue, ~unseen'
    PROVE  CreateDue' \/ HandleActionCreate
<1>1. ~NoTopic
  BY DEF NoTopic
<1>2. CASE Receive
  BY <1>2 DEF Receive, CreateDue, Of
<1>3. Of(hand, "create") /\ ~Receive /\ ~HandleActionCreate => hand' = hand
  BY <1>1, EventSteps
<1>4. QED
  BY <1>1, <1>2, <1>3, EventSteps DEF CreateDue, Of, InformAction
\* So the removal the brain is busy with is followed by what undoes it.
LEMMA FollowedStep ==
    ASSUME Typed, ActorsTold, ActorOut, Unwatched, StreamEnds, Followed, [Next]_vars
    PROVE  Followed'
<1>1. SUFFICES ASSUME ~unseen', ~Panics, ~Kill
               PROVE  Followed'
  BY DEF Followed, Panics, Kill, Down, Of
<1>2. ~unseen
  BY <1>1, UnseenStays
<1>3. Vanished => Vanished' \/ Of(actionOut, "create")'
  BY <1>1, VanishedStep
<1>4. CreateDue => CreateDue' \/ HandleActionCreate
  BY <1>1, CreateDueStep
<1>5. Of(actionOut, "remove")' => Vanished'
  <2>1. SUFFICES ASSUME Of(actionOut, "remove")'
                 PROVE  Vanished'
    OBVIOUS
  <2>2. CASE InformAction
    BY <2>1, <2>2, VanishedInformed
  <2>3. CASE ~InformAction
    <3>1. actionOut' = actionOut
      BY <1>1, <2>1, <2>3, EventSteps DEF Receive, Of
    <3>2. Vanished
      BY <1>2, <2>1, <3>1 DEF Followed, Of
    <3>3. ~Of(actionOut, "create")'
      BY <2>1 DEF Of
    <3>4. QED
      BY <1>3, <3>2, <3>3
  <2>4. QED
    BY <2>2, <2>3
<1>6. Of(hand, "remove")' => CreateDue' \/ Vanished'
  <2>1. SUFFICES ASSUME Of(hand, "remove")'
                 PROVE  CreateDue' \/ Vanished'
    OBVIOUS
  <2>2. CASE Receive
    <3>1. Of(actionOut, "remove") /\ UNCHANGED <<action, actionStream, actionCache>>
      BY <2>1, <2>2 DEF Receive, Of, ActorOut, ActorEvents, etcd, requests, streams, caches
    <3>2. QED
      BY <1>2, <3>1 DEF Followed, Vanished
  <2>3. CASE ~Receive
    <3>1. hand' = hand /\ ~NoTopic
      BY <1>1, <2>1, <2>3, EventSteps DEF NoTopic, Of
    <3>2. CreateDue \/ Vanished
      BY <1>2, <2>1, <3>1 DEF Followed, Of
    <3>3. ~HandleActionCreate
      BY <2>1 DEF HandleActionCreate, Took, Of
    <3>4. QED
      BY <1>3, <1>4, <3>2, <3>3 DEF CreateDue
  <2>4. QED
    BY <2>2, <2>3
<1>7. (job' # NoJob /\ job'.kind = "remove") => CreateDue' \/ Vanished'
  <2>1. SUFFICES ASSUME job' # NoJob, job'.kind = "remove"
                 PROVE  CreateDue' \/ Vanished'
    OBVIOUS
  <2>2. CASE job # NoJob
    <3>1. job.kind = "remove"
      <4>1. CASE JobCreates
        BY <2>1, <4>1, Created
      <4>2. CASE ~JobCreates
        BY <2>1, <2>2, <4>2, JobGoes
      <4>3. QED
        BY <4>1, <4>2
    <3>2. CreateDue \/ Vanished
      BY <1>2, <2>2, <3>1 DEF Followed
    <3>3. ~HandleActionCreate
      BY <2>2 DEF HandleActionCreate, Idle
    <3>4. QED
      BY <1>3, <1>4, <3>2, <3>3 DEF CreateDue
  <2>3. CASE job = NoJob
    <3>1. HandleActionRemove
      <4>1. \A kind, obj, n, todo, shared : StartJob(kind, obj, n, todo, shared) => kind = "remove"
        BY <2>1, Starting
      <4>2. QED
        BY <2>1, <2>3, <4>1, JobBegins
           DEF HandleActor, HandleActionCreate, HandleActionUpdate, HandleRequest, Routine,
               StartRoutine
    <3>2. Of(hand, "remove") /\ hand' = NoEvent
      BY <3>1 DEF HandleActionRemove, Took, Of
    <3>3. CreateDue \/ Vanished
      BY <1>2, <3>2 DEF Followed
    <3>4. ~HandleActionCreate
      BY <3>2 DEF HandleActionCreate, Of
    <3>5. QED
      BY <1>3, <1>4, <3>3, <3>4 DEF CreateDue
  <2>4. QED
    BY <2>2, <2>3
<1>8. QED
  BY <1>5, <1>6, <1>7 DEF Followed, Of

\* An action that is cached stays so, or its removal is told of.
Cached == actionCache # NoAction

LEMMA CachedStep ==
    ASSUME Typed, ActorsTold, [Next]_vars, ~Panics, ~Kill, Cached
    PROVE  Cached' \/ Of(actionOut, "remove")'
<1>1. CASE actionCache' = actionCache
  BY <1>1 DEF Cached
<1>2. CASE ListActions
  BY <1>2 DEF ListActions, Cached
<1>3. CASE InformAction
  <2>1. /\ actionCache' \in {actionCache, Head(actionStream)}
        /\ actionOut' = ActionNews(Head(actionStream))
    BY <1>3 DEF InformAction
  <2>2. CASE actionCache' = NoAction
    <3>1. actionOut' = [type |-> "remove", obj |-> actionCache]
      BY <2>1, <2>2 DEF ActionNews, Cached
    <3>2. actionCache \in Action
      BY DEF Cached, Typed, TypeOK
    <3>3. [type |-> "remove", obj |-> actionCache] # NoEvent
      BY <3>2, NoValueAssumption DEF Event
    <3>4. QED
      BY <3>1, <3>3 DEF Of
  <2>3. QED
    BY <2>2 DEF Cached
<1>4. CASE HandleActor /\ Known
  BY <1>4, ActorHandled, NoValueAssumption DEF Cached
<1>5. CASE JobCreates /\ job.shared
  BY <1>5, Created, NoValueAssumption DEF Cached
<1>6. QED
  BY <1>1, <1>2, <1>3, <1>4, <1>5, CacheSteps

\* What is left of an action that was deleted and written again: the brain has still
\* to come across the deletion, or the creation after which the Status is empty.
Reset == \/ \E i \in DOMAIN actionStream : actionStream[i] = NoAction
         \/ Of(actionOut, "remove") \/ Of(hand, "remove")
         \/ CreateDue
         \/ actionCache = NoAction /\ actionStream # <<>>

\* Until the brain has emptied the Status, that is still to come.
LEMMA ResetStep ==
    ASSUME Typed, ActorsTold, Unwatched, StreamEnds, Followed, Reset, [Next]_vars, ~Panics, ~Kill,
           ~unseen', action' # NoAction, action # NoAction, ~HandleActionCreate
    PROVE  Reset'
<1>1. ~unseen
  BY UnseenStays
<1>2. CASE CreateDue \/ Vanished
  <2>1. CreateDue' \/ Vanished'
    BY <1>2, CreateDueStep, VanishedStep DEF CreateDue
  <2>2. QED
    BY <2>1 DEF Reset, Vanished
<1>3. CASE \E i \in DOMAIN actionStream : actionStream[i] = NoAction
  <2>1. actionStream \in Seq(Action \cup {NoAction})
    BY DEF Typed, TypeOK
  <2>2. PICK n \in Nat : /\ n = Len(actionStream) /\ DOMAIN actionStream = 1..n
                         /\ \E i \in 1..n : actionStream[i] = NoAction
    BY <1>3, <2>1
  <2>0. PICK i \in 1..n : actionStream[i] = NoAction
    BY <2>2
  <2>3. CASE InformAction
    <3>1. /\ actionStream' = Tail(actionStream) /\ actionStream # <<>>
      BY <2>3 DEF InformAction
    <3>2. CASE i = 1
      BY <2>0, <2>1, <2>2, <2>3, <3>1, <3>2, VanishedInformed DEF Reset, Vanished
    <3>3. CASE i # 1
      <4>1. i - 1 \in DOMAIN actionStream' /\ actionStream'[i - 1] = NoAction
        <5>1. /\ DOMAIN actionStream' = 1..(n - 1)
              /\ \A k \in 1..(n - 1) : actionStream'[k] = actionStream[k + 1]
          BY <2>1, <2>2, <3>1
        <5>2. i - 1 \in 1..(n - 1) /\ (i - 1) + 1 = i
          BY <2>2, <3>3
        <5>3. QED
          BY <2>0, <2>2, <5>1, <5>2
      <4>2. QED
        BY <4>1 DEF Reset
    <3>4. QED
      BY <3>2, <3>3
  <2>4. CASE CreateAction \/ ActionReqLands \/ DeleteAction \/ JobWrites
    <3>1. actionStream' = Append(actionStream, action') /\ action' \in Action \cup {NoAction}
      BY <2>4, WriteTold
    <3>2. i \in DOMAIN actionStream' /\ actionStream'[i] = NoAction
      BY <2>0, <2>1, <2>2, <3>1
    <3>3. QED
      BY <3>2 DEF Reset
  <2>5. CASE actionStream' = actionStream
    BY <1>3, <2>5 DEF Reset
  <2>6. QED
    BY <2>1, <2>2, <2>3, <2>4, <2>5, ActionSteps
<1>4. QED
  BY <1>1, <1>2, <1>3 DEF Reset, Followed, Vanished

\* The routine's Status names actors that the informer's cache has or had, and the new
\* ones, which it will not delete.
RoutineJob ==
    job # NoJob /\ job.kind = "routine" =>
       /\ \A a \in job.obj.status.actors : Held(a)
       /\ job.obj.status.toRun \subseteq Live \ job.todo
       /\ Cached \/ Of(actionOut, "remove") \/ Of(hand, "remove")

\* The routine's first Status.
LEMMA RoutineStarts ==
    ASSUME Typed, Routine
    PROVE  /\ job'.obj.status.actors = CachedRunning /\ job'.obj.status.toRun = {}
           /\ actionCache \in Action /\ Cached'
           /\ UNCHANGED <<actors, actorCache, actorOut, hand>>
<1>1. actionCache \in Action /\ Cached
  BY KnownStatus DEF Routine, Known, Cached
<1>2. PICK desired, missing, kill :
         StartJob("routine", [actionCache EXCEPT !.status =
            [desired |-> desired, actors |-> CachedRunning, toRun |-> {}, toKill |-> kill]],
            missing, kill, FALSE)
  BY DEF Routine, StartRoutine
<1>3. job'.obj = [actionCache EXCEPT !.status =
            [desired |-> desired, actors |-> CachedRunning, toRun |-> {}, toKill |-> kill]]
  BY <1>2, Starting
<1>4. job'.obj.status =
         [desired |-> desired, actors |-> CachedRunning, toRun |-> {}, toKill |-> kill]
  BY <1>1, <1>3 DEF Action
<1>5. QED
  BY <1>1, <1>4 DEF Routine, Cached, etcd, requests, informers, caches

LEMMA RoutineJobStep ==
    ASSUME Typed, Typed', ActorsTold, Flow, JobSound, RoutineJob, [Next]_vars
    PROVE  RoutineJob'
<1>1. SUFFICES ASSUME job' # NoJob, job'.kind = "routine"
               PROVE  RoutineJob'
  BY DEF RoutineJob
<1>2. ~Panics /\ ~Kill
  BY <1>1 DEF Panics, Kill, Down
<1>3. CASE job = NoJob
  <2>1. Routine
    <3>1. \A kind, obj, n, todo, shared : StartJob(kind, obj, n, todo, shared) => kind = "routine"
      BY <1>1, Starting
    <3>2. QED
      BY <1>1, <1>3, <3>1, JobBegins
         DEF HandleActor, HandleActionCreate, HandleActionUpdate, HandleActionRemove, HandleRequest
  <2>2. \A a \in CachedRunning : Held(a)'
    BY <2>1, RoutineStarts DEF CachedRunning, Held
  <2>3. QED
    BY <2>1, <2>2, RoutineStarts DEF RoutineJob, Held, Tells, Of
<1>4. CASE job # NoJob
  <2>1. job.kind = "routine" /\ job'.obj.status.actors = job.obj.status.actors
    <3>1. CASE JobCreates
      BY <1>1, <3>1, Created
    <3>2. CASE ~JobCreates
      BY <1>1, <1>4, <3>2, JobGoes
    <3>3. QED
      BY <3>1, <3>2
  <2>2. job.obj \in Action /\ job.obj.status \in Status /\ job.todo \subseteq Actor
    BY <1>4, <2>1, ActionWith DEF Typed, TypeOK, Working, Job
  <2>3. /\ \A a \in job.obj.status.actors : Held(a) /\ a \in Actor
        /\ job.obj.status.toRun \subseteq Live \ job.todo
        /\ Cached \/ Of(actionOut, "remove") \/ Of(hand, "remove")
    BY <1>4, <2>1, <2>2 DEF RoutineJob, Status
  <2>4. ~HandleActor /\ ~Idle
    BY <1>4 DEF HandleActor, Idle
  <2>5. \A a \in job'.obj.status.actors : Held(a)'
    BY <1>2, <2>1, <2>3, <2>4, HeldStep
  <2>6. job'.obj.status.toRun \subseteq Live' \ job'.todo
    <3>1. CASE JobCreates
      <4>1. PICK a \in Fresh : /\ Live' = Live \cup {a} /\ job'.todo = job.todo
                               /\ job'.obj.status.toRun = job.obj.status.toRun \cup {a}
        BY <3>1, Created
      <4>2. a \notin job.todo
        BY <1>4 DEF Fresh, Mentioned
      <4>3. QED
        BY <2>3, <4>1, <4>2
    <3>2. CASE JobDeletes
      <4>1. PICK a \in job.todo : Live' = Live \ {a} /\ job' = [job EXCEPT !.todo = @ \ {a}]
        BY <3>2, LiveUnmade
      <4>2. job'.todo \subseteq job.todo /\ job'.obj = job.obj
        <5>1. ~JobCreates
          BY <3>2 DEF JobCreates, JobDeletes
        <5>2. QED
          BY <1>1, <1>4, <5>1, JobGoes
      <4>3. QED
        BY <2>3, <4>1, <4>2
    <3>3. CASE ~JobCreates /\ ~JobDeletes
      <4>1. Live \subseteq Live'
        BY <3>3, LiveGrows
      <4>2. job'.todo \subseteq job.todo /\ job'.obj = job.obj
        BY <1>1, <1>4, <3>3, JobGoes
      <4>3. QED
        BY <2>3, <4>1, <4>2
    <3>4. QED
      BY <3>1, <3>2, <3>3
  <2>7. Cached' \/ Of(actionOut, "remove")' \/ Of(hand, "remove")'
    <3>1. CASE Cached
      BY <1>2, <3>1, CachedStep
    <3>2. CASE Of(actionOut, "remove")
      BY <1>2, <3>2, EventSteps DEF Receive, Of
    <3>3. CASE Of(hand, "remove")
      BY <1>2, <2>4, <3>3, EventSteps DEF Receive, NoTopic, Of
    <3>4. QED
      BY <2>3, <3>1, <3>2, <3>3
  <2>8. QED
    BY <2>5, <2>6, <2>7 DEF RoutineJob, Held, Tells, Of
<1>5. QED
  BY <1>3, <1>4

\* A Status whose actors exist, or whose removal the brain will hear of and then act upon.
Sound(s) == /\ s.toRun \subseteq Live
            /\ \A a \in s.actors : Held(a)
            /\ s.actors # {} => Cached

\* What will be the action's Status when the job has ended.
Puts == Reports \/ (job # NoJob /\ job.kind = "routine")
View == IF Puts THEN job.obj ELSE action

Trusted == /\ ~amiss /\ ~unseen /\ ~Reset /\ ~(Puts /\ job.stale)
           /\ action # NoAction /\ View.status # NoStatus

Named == Trusted => Sound(View.status)

\* Only a PUT of the routine puts right what was amiss.
LEMMA AmissStep ==
    ASSUME [Next]_vars, ~amiss'
    PROVE  ~amiss \/ JobWrites
<1>1. ASSUME \/ Informs \/ HandleActor \/ HandleActionCreate \/ HandleActionUpdate
             \/ HandleActionRemove \/ HandleRequest \/ Routine
      PROVE  amiss' = amiss
  BY <1>1 DEF Informs, ListActions, ListActors, Connect, InformAction, InformActor, Receive,
              HandleActor, HandleActionCreate, HandleActionUpdate, HandleActionRemove,
              HandleRequest, Routine, Took, history
<1>2. ASSUME \/ NoTopic \/ MonitorReads \/ MonitorEnds \/ PostReads \/ MinutePasses \/ Call
             \/ Start \/ CreateAction
             \/ DeleteAction \/ UNCHANGED vars
      PROVE  amiss' = amiss
  BY <1>2 DEF NoTopic, MonitorReads, MonitorEnds, PostReads, MinutePasses, Call, Start,
              CreateAction, ActionReqLands, DeleteAction, history, vars
<1>3. ASSUME \/ JobCreates \/ JobDeletes \/ JobUpdates \/ JobEnds \/ JobLooksUp \/ JobFailsToCreate
             \/ JobFailsOnActor \/ Reporting \/ Landing
      PROVE  amiss' = amiss
  BY <1>3 DEF JobCreates, JobDeletes, JobUpdates, JobEnds, JobLooksUp, JobFailsToCreate,
              JobFailsOnActor, Reporting, ActorRuns, ActorReports, ActorGoesBad, PutActor,
              Landing, ActorReqLands, history
<1>4. ~(Panics \/ Kill \/ JobFailsToWrite)
  BY DEF Panics, Kill, Down, JobFailsToWrite
<1>5. LoseWatch \/ ActionReqLands => ~amiss
  BY DEF LoseWatch, ActionReqLands
<1>6. QED
  BY <1>1, <1>2, <1>3, <1>4, <1>5 DEF Next, Handles, JobSteps, Failures, Reporting, Landing

\* A sound Status stays so: an actor that is deleted was not in toRun, and that one is
\* gone is not handled but by taking it from the Status.
LEMMA SoundStep ==
    ASSUME Typed, ActorsTold, Flow, [Next]_vars, ~Panics, ~Kill, ~Reset', ~HandleActor,
           NEW s \in Status, Sound(s), s.toRun \subseteq Live'
    PROVE  Sound(s)'
<1>1. \A a \in s.actors : a \in Actor /\ Held(a)
  BY DEF Status, Sound
<1>2. \A a \in s.actors : Held(a)'
  BY <1>1, HeldStep
<1>3. Cached => Cached'
  BY CachedStep DEF Reset
<1>4. QED
  BY <1>2, <1>3 DEF Sound, Held, Tells, Of, Cached, Live

\* The PUT of a job makes the job's Status the action's.
LEMMA NamedWritten ==
    ASSUME Typed, Typed', ActorsTold, Flow, JobSound, StreamEnds, Followed, RoutineJob, Named,
           [Next]_vars, JobWrites, ~Reset', ~amiss', ~unseen'
    PROVE  \E s \in Status : View'.status = s /\ Sound(s)'
<1>1. /\ job # NoJob /\ job.kind \in {"request", "event", "routine"} /\ job.toCreate = 0
      /\ job.found
      /\ action' = job.obj /\ job' = NoJob
      /\ amiss' = (job.stale \/ (amiss /\ ~PutRight))
  BY DEF JobWrites, AtPut, WriteAction
<1>2. View' = job.obj
  BY <1>1 DEF View, Puts, Reports
<1>3. ~job.stale /\ (~amiss \/ PutRight) /\ ~unseen /\ action # NoAction
  BY <1>1, UnseenStays DEF JobSound
<1>4. job.obj \in Action /\ job.obj.status \in Status
  BY <1>1, ActionWith DEF Typed, TypeOK, Working, Job
<1>5. ~Panics /\ ~Kill /\ ~HandleActor /\ ~HandleActionCreate
  BY <1>1 DEF Panics, Kill, Down, HandleActor, HandleActionCreate, Idle, JobWrites
<1>6. ~Reset
  <2>1. action' # NoAction
    BY <1>1, <1>4, ActionWith
  <2>2. QED
    BY <1>3, <1>5, <2>1, ResetStep DEF Flow
<1>7. Sound(job.obj.status)
  <2>1. CASE job.kind = "routine"
    BY <1>1, <1>6, <2>1 DEF RoutineJob, Sound, Reset
  <2>2. CASE job.kind # "routine"
    <3>1. Puts /\ View = job.obj
      BY <1>1, <2>2 DEF Puts, Reports, View
    <3>2. ~amiss
      BY <1>3, <2>2 DEF PutRight
    <3>3. job.obj.status # NoStatus
      BY <1>4, NoValueAssumption
    <3>4. QED
      BY <1>3, <1>6, <3>1, <3>2, <3>3 DEF Named, Trusted
  <2>3. QED
    BY <2>1, <2>2
<1>8. Live' = Live
  BY LiveKept
<1>9. PICK s \in Status : s = job.obj.status
  BY <1>4
<1>10. Sound(s)'
  BY <1>5, <1>7, <1>8, <1>9, SoundStep DEF Sound
<1>11. QED
  BY <1>2, <1>9, <1>10

\* A step that leaves the Status and which actors exist alone.
LEMMA NamedSame ==
    ASSUME Typed, ActorsTold, Flow, Named, [Next]_vars, ~Panics, ~Kill, ~Reset', Trusted,
           View'.status = View.status, Live \subseteq Live', ~HandleActor \/ ~Cached
    PROVE  Named'
<1>1. View \in Action /\ View.status \in Status
  <2>1. job # NoJob => job.obj \in Action
    BY DEF Typed, TypeOK, Job
  <2>2. View \in Action
    BY <2>1 DEF View, Puts, Reports, Trusted, Typed, TypeOK
  <2>3. QED
    BY <2>2, ActionWith DEF Trusted
<1>2. PICK s \in Status : s = View.status
  BY <1>1
<1>3. Sound(s)
  BY <1>2 DEF Named
<1>4. Sound(s)'
  <2>1. CASE HandleActor
    BY <1>3, <2>1 DEF Sound, Held
  <2>2. CASE ~HandleActor
    BY <1>3, <2>2, SoundStep DEF Sound
  <2>3. QED
    BY <2>1, <2>2
<1>5. QED
  BY <1>2, <1>4 DEF Named, Sound, Held, Tells, Of, Cached

\* A user's write outdates the job: the action has its Status still from an earlier PUT.
LEMMA NamedByUser ==
    ASSUME Typed, ActorsTold, Flow, StreamEnds, Followed, Named, [Next]_vars, ~Panics, ~Kill,
           Trusted', CreateAction \/ ActionReqLands \/ DeleteAction
    PROVE  Named'
<1>1. Outdate /\ ~amiss
  <2>1. ~amiss'
    BY DEF Trusted
  <2>2. CASE CreateAction \/ DeleteAction
    BY <2>1, <2>2 DEF CreateAction, DeleteAction
  <2>3. CASE ActionReqLands
    <3>1. Outdate /\ amiss' = (amiss \/ action = NoAction \/ action.status # actionReq.status)
      BY <2>3 DEF ActionReqLands
    <3>2. QED
      BY <2>1, <3>1
  <2>4. QED
    BY <2>2, <2>3
<1>2. ~Puts' /\ ~Puts
  <2>1. CASE job = NoJob
    BY <1>1, <2>1 DEF Outdate, Puts, Reports
  <2>2. CASE job # NoJob
    <3>1. job' = [job EXCEPT !.stale = TRUE] /\ job \in Job
      BY <1>1, <2>2 DEF Outdate, Typed, TypeOK
    <3>2. job' # NoJob /\ job'.stale /\ job'.kind = job.kind /\ job'.toCreate = job.toCreate
      BY <3>1, Going
    <3>3. Puts' = Puts
      BY <2>2, <3>2 DEF Puts, Reports
    <3>4. QED
      BY <3>2, <3>3 DEF Trusted
  <2>3. QED
    BY <2>1, <2>2
<1>3. View' = action' /\ View = action /\ action' # NoAction /\ action'.status # NoStatus
  BY <1>2 DEF View, Trusted
<1>4. ~CreateAction /\ ~DeleteAction
  <2>1. \A s, i : [script |-> s, invokes |-> i, status |-> NoStatus].status = NoStatus
    OBVIOUS
  <2>2. QED
    BY <1>3, <2>1 DEF CreateAction, DeleteAction, WriteAction
<1>5. action # NoAction /\ action'.status = action.status /\ actionReq' # actionReq
  BY <1>4 DEF ActionReqLands, WriteAction, Trusted
<1>6. ~Reset /\ ~unseen
  <2>1. ~HandleActionCreate
    BY <1>5 DEF HandleActionCreate, Took, requests
  <2>2. QED
    BY <1>3, <1>5, <2>1, ResetStep, UnseenStays DEF Trusted, Flow
<1>7. Live' = Live /\ ~HandleActor
  BY <1>5, LiveKept DEF HandleActor, Took, requests
<1>8. QED
  BY <1>1, <1>2, <1>3, <1>5, <1>6, <1>7, NamedSame DEF Trusted

\* An action that is seen to be created has nothing in its Status.
LEMMA NamedCreated ==
    ASSUME Typed, Typed', HandleActionCreate
    PROVE  Named'
<1>1. hand.obj \in Action
  BY DEF HandleActionCreate, Typed, TypeOK, Event
<1>2. EmptyStatus \in Status
  BY DEF EmptyStatus, Status
<1>3. PICK o \in Action : o = [hand.obj EXCEPT !.status = EmptyStatus] /\ o.status = EmptyStatus
  <2>1. PICK h \in Action : h = hand.obj
    BY <1>1
  <2>2. /\ [h EXCEPT !.status = EmptyStatus] \in Action
        /\ [h EXCEPT !.status = EmptyStatus].status = EmptyStatus
    BY <1>2, ActionWith
  <2>3. QED
    BY <2>1, <2>2
<1>4. job' # NoJob /\ job'.kind = "event" /\ job'.obj = o
  BY <1>3, StartedJob DEF HandleActionCreate
<1>5. View'.status = EmptyStatus
  BY <1>3, <1>4 DEF View, Puts, Reports
<1>6. QED
  BY <1>5 DEF Named, Sound, EmptyStatus

\* What the handlers start.
LEMMA NamedBegins ==
    ASSUME Typed, Typed', ActorsTold, Flow, Named, [Next]_vars, ~Panics, ~Kill,
           Trusted', ~amiss, ~unseen, ~Reset, action # NoAction, ~HandleActionCreate,
           job = NoJob, job' # NoJob, job'.kind # "routine", action' = action,
           Live \subseteq Live'
    PROVE  Named'
<1>2. View = action /\ ~Puts
  BY DEF View, Puts, Reports
<1>3. CASE ~Puts'
  <2>1. View' = action
    BY <1>3 DEF View
  <2>2. ~HandleActor \/ ~Cached
    BY <1>3, ActorHandled DEF Puts, Reports, HandleActor, HandPanics, Known, Cached
  <2>3. Trusted
    BY <1>2, <2>1 DEF Trusted
  <2>4. QED
    BY <1>2, <2>1, <2>2, <2>3, NamedSame DEF Trusted
<1>4. CASE Puts'
  <2>1. Reports' /\ ~job'.stale /\ View' = job'.obj
    BY <1>4 DEF Puts, Trusted, View
  <2>2. HandleActor
    <3>1. ~Routine
      BY Starting DEF Routine, StartRoutine
    <3>2. ~HandleActionUpdate /\ ~HandleActionRemove
      BY <2>1, Starting DEF HandleActionUpdate, HandleActionRemove, Reports
    <3>3. ~HandleRequest
      <4>1. HandleRequest => StartJob("request", actionCache, 1, {}, TRUE)
        BY DEF HandleRequest
      <4>2. HandleRequest => job'.kind = "request" /\ job'.toCreate = 1
        BY <4>1, Starting
      <4>3. QED
        BY <2>1, <4>2 DEF Reports
    <3>4. QED
      BY <3>1, <3>2, <3>3, JobBegins
  <2>4. CASE HandleActor
    <3>1. Known
      BY <2>4 DEF HandleActor
    <3>2. /\ job'.obj = actionCache' /\ job'.stale = (actionCache # action)
          /\ actionCache.status \in Status /\ actionCache'.status \in Status
          /\ \/ /\ Tells(hand, "actorCreate", hand.actor) /\ hand.actor \in Actor
                /\ actionCache'.status.actors = actionCache.status.actors \cup {hand.actor}
                /\ actionCache'.status.toRun \subseteq actionCache.status.toRun
             \/ /\ Tells(hand, "actorRemove", hand.actor) /\ hand.actor \in Actor
                /\ actionCache'.status.actors = actionCache.status.actors \ {hand.actor}
                /\ actionCache'.status.toRun \subseteq actionCache.status.toRun
      BY <2>4, <3>1, ActorHandled
    <3>3. Sound(actionCache.status)
      <4>1. View = actionCache /\ Trusted
        BY <1>2, <2>1, <3>2, NoValueAssumption DEF Trusted
      <4>2. QED
        BY <4>1 DEF Named
    <3>4. actionCache'.status.toRun \subseteq Live'
      BY <3>2, <3>3 DEF Sound
    <3>5. Cached'
      BY <2>4, <3>1, ActorHandled, NoValueAssumption, ActionWith DEF Cached
    <3>6. \A a \in actionCache.status.actors : a \in Actor /\ Held(a)
      BY <3>2, <3>3 DEF Sound, Status
    <3>7. \A a \in actionCache'.status.actors : Held(a)'
      <4>1. CASE Tells(hand, "actorCreate", hand.actor)
        <5>1. \A a \in actionCache.status.actors : Held(a)'
          BY <3>6, <4>1, HeldStep DEF Tells, Of
        <5>2. actorCache[hand.actor] # NoActor \/ Tells(actorOut, "actorRemove", hand.actor)
          BY <3>2, <4>1 DEF ActorsTold, Arrived, Tells, Of
        <5>3. UNCHANGED <<actorCache, actorOut>>
          BY <2>4 DEF HandleActor, Took, requests, informers
        <5>4. \A a : a = hand.actor => Held(a)'
          BY <5>2, <5>3 DEF Held, Tells, Of
        <5>5. QED
          BY <3>2, <4>1, <5>1, <5>4 DEF Tells, Of
      <4>2. CASE Tells(hand, "actorRemove", hand.actor)
        <5>1. \A a \in actionCache.status.actors \ {hand.actor} : Held(a)'
          BY <3>6, <4>2, HeldStep DEF Tells, Of
        <5>2. QED
          BY <3>2, <4>2, <5>1 DEF Tells, Of
      <4>3. QED
        BY <3>2, <4>1, <4>2
    <3>8. QED
      BY <2>1, <3>2, <3>4, <3>5, <3>7 DEF Named, Sound, Held, Tells, Of
  <2>3. QED
    BY <2>2, <2>4
<1>5. QED
  BY <1>3, <1>4

\* What a job goes on with.
LEMMA NamedGoes ==
    ASSUME Typed, Typed', ActorsTold, Flow, JobSound, Followed, Named, [Next]_vars, ~Panics, ~Kill,
           Trusted', ~amiss, ~unseen, ~Reset, action # NoAction,
           job # NoJob, job' # NoJob, job'.kind # "routine", action' = action
    PROVE  Named'
<1>1. /\ job \in Job /\ job.obj \in Action /\ job.toCreate \in Nat
      /\ job.toCreate > 0 => job.kind \in {"request", "routine"}
  BY DEF Typed, TypeOK, Working, Job
<1>2. ~HandleActor
  BY DEF HandleActor, Idle
<1>3. CASE JobCreates
  <2>1. PICK a \in Fresh :
           /\ Live' = Live \cup {a} /\ job.toCreate \in Nat \ {0}
           /\ job'.toCreate = job.toCreate - 1
           /\ job'.kind = job.kind /\ job'.stale = job.stale
           /\ job.obj.status \in Status /\ job'.obj.status.actors = job.obj.status.actors
           /\ job'.obj.status.toRun = job.obj.status.toRun \cup {a}
    BY <1>3, Created
  <2>2. job.kind = "request" /\ job.toCreate = 1
    BY <1>1, <2>1 DEF JobSound
  <2>3. Reports' /\ View' = job'.obj /\ ~job'.stale
    BY <2>1, <2>2 DEF Reports, View, Puts, Trusted
  <2>4. View = action /\ job.obj = action
    BY <2>1, <2>2, <2>3 DEF View, Puts, Reports, JobSound
  <2>5. PICK s \in Status : s = job.obj.status
    BY <2>1
  <2>6. Sound(s)
    BY <2>2, <2>4, <2>5, NoValueAssumption DEF Named, Trusted, Puts, Reports
  <2>7. Sound(s)'
    BY <1>2, <2>1, <2>6, SoundStep DEF Sound, Trusted
  <2>8. QED
    BY <2>1, <2>3, <2>5, <2>6, <2>7 DEF Named, Sound, Held, Tells, Of, Cached
<1>4. CASE ~JobCreates
  <2>1. job'.kind = job.kind /\ job'.obj = job.obj /\ job'.toCreate = job.toCreate
        /\ (job.stale => job'.stale)
    BY <1>1, <1>4, JobGoes
  <2>2. Puts' = Puts /\ View' = View
    BY <2>1 DEF Puts, Reports, View
  <2>3. Trusted
    BY <2>1, <2>2 DEF Trusted
  <2>4. ~JobDeletes
    BY <2>1 DEF JobDeletes, Deletes, Followed, Vanished, Reset
  <2>5. Live \subseteq Live'
    BY <1>4, <2>4, LiveGrows
  <2>6. QED
    BY <1>2, <2>2, <2>3, <2>5, NamedSame DEF Trusted
<1>5. QED
  BY <1>3, <1>4

\* How a job ends.
LEMMA NamedEnds ==
    ASSUME Typed, Typed', ActorsTold, Flow, JobSound, StreamEnds, Followed, RoutineJob, Named,
           [Next]_vars, Trusted', job # NoJob, job' = NoJob
    PROVE  Named'
<1>1. ~Panics /\ ~Kill /\ ~JobFailsToWrite
  BY DEF Panics, Kill, Down, Trusted, JobFailsToWrite
<1>2. CASE JobWrites
  <2>1. PICK s \in Status : View'.status = s /\ Sound(s)'
    BY <1>2, NamedWritten DEF Trusted
  <2>2. QED
    BY <2>1 DEF Named, Sound, Held, Tells, Of, Cached
<1>3. CASE ~JobWrites
  <2>1. (JobFailsToCreate /\ job.kind = "request") \/ JobLooksUp \/ JobEnds
    BY <1>1, <1>3, JobLeaves
  <2>2. action' = action
    BY <2>1 DEF JobFailsToCreate, JobLooksUp, JobEnds, etcd, requests
  <2>3. (JobFailsToCreate /\ job.kind = "request") \/ JobEnds
    BY <1>1, <1>3, <2>2, JobLeaves DEF Trusted
  <2>4. ~Puts /\ ~Puts' /\ View = action /\ View' = action
    BY <2>2, <2>3 DEF Puts, Reports, View, JobFailsToCreate, JobEnds
  <2>5. ~HandleActor /\ ~HandleActionCreate
    BY DEF HandleActor, HandleActionCreate, Idle
  <2>6. ~amiss /\ ~unseen /\ ~Reset
    BY <1>1, <1>3, <2>2, <2>5, AmissStep, UnseenStays, ResetStep DEF Trusted, Flow
  <2>7. Trusted
    BY <2>2, <2>4, <2>6 DEF Trusted
  <2>8. Live' = Live
    BY <2>3, LiveKept
  <2>9. QED
    BY <1>1, <2>4, <2>5, <2>7, <2>8, NamedSame DEF Trusted
<1>4. QED
  BY <1>2, <1>3

\* Every step keeps the Status sound that can be trusted.
LEMMA NamedStep ==
    ASSUME Typed, Typed', ActorsTold, Flow, JobSound, StreamEnds, Followed, RoutineJob, Named,
           [Next]_vars
    PROVE  Named'
<1>1. SUFFICES ASSUME Trusted' PROVE Named'
  BY DEF Named
<1>2. ~Panics /\ ~Kill
  BY <1>1 DEF Panics, Kill, Down, Trusted
<1>3. CASE CreateAction \/ ActionReqLands \/ DeleteAction
  BY <1>1, <1>2, <1>3, NamedByUser
<1>4. CASE job' # NoJob /\ job'.kind = "routine"
  <2>1. RoutineJob'
    BY RoutineJobStep
  <2>2. View' = job'.obj /\ ~Reset'
    BY <1>1, <1>4 DEF View, Puts, Trusted
  <2>3. QED
    BY <1>4, <2>1, <2>2 DEF RoutineJob, Named, Sound, Reset, Held, Tells, Of, Cached, Live
<1>5. CASE job # NoJob /\ job' = NoJob
  BY <1>1, <1>5, NamedEnds
<1>6. ASSUME ~(CreateAction \/ ActionReqLands \/ DeleteAction),
             ~(job' # NoJob /\ job'.kind = "routine"), ~(job # NoJob /\ job' = NoJob)
      PROVE  Named'
  <2>1. ~JobWrites
    BY <1>6 DEF JobWrites, AtPut
  <2>2. action' = action
    BY <1>2, <1>6, <2>1, ActionSteps DEF InformAction, etcd, requests
  <2>3. ~amiss /\ ~unseen /\ action # NoAction
    BY <1>1, <2>1, <2>2, AmissStep, UnseenStays DEF Trusted
  <2>4. CASE HandleActionCreate
    BY <2>4, NamedCreated
  <2>5. CASE ~HandleActionCreate
    <3>1. ~Reset
      BY <1>1, <1>2, <2>2, <2>3, <2>5, ResetStep DEF Trusted, Flow
    <3>2. CASE job # NoJob
      BY <1>1, <1>2, <1>6, <2>2, <2>3, <3>1, <3>2, NamedGoes
    <3>3. CASE job = NoJob
      <4>1. View = action /\ ~Puts
        BY <3>3 DEF View, Puts, Reports
      <4>2. Live \subseteq Live'
        <5>1. ~JobCreates /\ ~JobDeletes
          BY <3>3 DEF JobCreates, JobDeletes
        <5>2. QED
          BY <5>1, LiveGrows
      <4>3. CASE job' # NoJob
        BY <1>1, <1>2, <1>6, <2>2, <2>3, <2>5, <3>1, <3>3, <4>2, <4>3, NamedBegins
      <4>4. CASE job' = NoJob
        <5>1. View' = action
          BY <2>2, <4>4 DEF View, Puts, Reports
        <5>2. Trusted
          BY <1>1, <2>3, <3>1, <4>1, <5>1 DEF Trusted
        <5>3. ~HandleActor \/ ~Cached
          BY <4>4, ActorHandled DEF HandleActor, HandPanics, Known, Cached
        <5>4. QED
          BY <1>1, <1>2, <4>1, <4>2, <5>1, <5>2, <5>3, NamedSame DEF Trusted
      <4>5. QED
        BY <4>3, <4>4
    <3>4. QED
      BY <3>2, <3>3
  <2>6. QED
    BY <2>4, <2>5
<1>7. QED
  BY <1>3, <1>4, <1>5, <1>6

DropInv ==
    /\ BrainInv
    /\ ActionOut /\ ActorsTold /\ JobSound /\ StreamEnds /\ Agree /\ Followed /\ RoutineJob /\ Named

\* Together they are inductive.
LEMMA DropStep ==
    ASSUME DropInv, [Next]_vars
    PROVE  DropInv'
<1>1. BrainInv' /\ Typed'
  BY BrainStep DEF DropInv, BrainInv
<1>2. Typed /\ Flow /\ ActorOut /\ Unwatched
  BY DEF DropInv, BrainInv, Flow
<1>3. ActionOut' /\ ActorsTold' /\ JobSound' /\ StreamEnds'
  BY <1>2, ActionOutStep, ActorsToldStep, JobSoundStep, StreamEndsStep DEF DropInv
<1>4. Agree' /\ Followed' /\ RoutineJob'
  BY <1>1, <1>2, AgreeStep, FollowedStep, RoutineJobStep DEF DropInv
<1>5. Named'
  BY <1>1, <1>2, NamedStep DEF DropInv
<1>6. QED
  BY <1>1, <1>3, <1>4, <1>5 DEF DropInv

LEMMA InitDrop == Init => DropInv
<1>1. SUFFICES ASSUME Init PROVE DropInv
  OBVIOUS
<1>2. ActionOut /\ JobSound /\ StreamEnds /\ Agree /\ RoutineJob
  BY <1>1 DEF Init, ActionOut, JobSound, StreamEnds, Agree, RoutineJob
<1>3. ActorsTold
  BY <1>1 DEF Init, ActorsTold, ActorUnwatched, ToldLast, CacheTold, Arrived, Tells, Of
<1>4. Followed /\ Named
  BY <1>1 DEF Init, Followed, Of, Named, Trusted
<1>5. QED
  BY <1>1, <1>2, <1>3, <1>4, InitBrain DEF DropInv

\* A call is handled while no actor exists: if the brain has heard all there is to
\* hear, its Status is the action's and names no actor, so one is created.
LEMMA DropExplained ==
    ASSUME DropInv, [Next]_vars, HandleRequest, ~lost', job' = NoJob, Live = {}
    PROVE  Pending \/ amiss \/ unseen
<1>1. SUFFICES ASSUME ~Pending, ~amiss, ~unseen PROVE FALSE
  OBVIOUS
<1>2. /\ Typed /\ ActorsTold /\ Agree /\ Named
      /\ actionStream = <<>> /\ actorStream = <<>>
      /\ actionOut = NoEvent /\ actorOut = NoEvent /\ hand = NoEvent
  BY <1>1 DEF DropInv, BrainInv, Pending
<1>3. job = NoJob /\ Known
  BY DEF HandleRequest, Idle
<1>4. actionCache = action
  BY <1>1, <1>2, <1>3 DEF Agree, Reports, Known
<1>5. ~Reset
  BY <1>2, <1>4 DEF Reset, Of, CreateDue
<1>6. View = action /\ Trusted
  BY <1>1, <1>3, <1>4, <1>5 DEF View, Puts, Reports, Trusted, Known
<1>7. Sound(action.status)
  BY <1>2, <1>6 DEF Named
<1>8. action.status \in Status
  BY <1>3, <1>4, KnownStatus, <1>2
<1>9. action.status.toRun = {}
  BY <1>7 DEF Sound
<1>10. action.status.actors = {}
  <2>1. \A a \in action.status.actors : a \in Actor /\ actorCache[a] # NoActor
    BY <1>2, <1>7, <1>8 DEF Sound, Status, Held, Tells, Of
  <2>2. \A a \in Actor : actorCache[a] = NoActor
    BY <1>1, <1>2 DEF ActorsTold, CacheTold, Told
  <2>3. QED
    BY <2>1, <2>2
<1>11. StartJob("request", actionCache, 1, {}, TRUE)
  BY <1>3, <1>4, <1>9, <1>10 DEF HandleRequest, Known
<1>12. QED
  BY <1>2, <1>3, <1>11, KnownStatus, StartedJob

\* A call that is dropped with a live brain while no actor exists was handled with
\* a Status that is out of date, and the brain has news to come, or an event
\* or a write was lost, for any actors, scripts and bounds.
THEOREM DropsExplained == Spec => DropHasCause
<1>1. DropInv /\ [Next]_vars => DropInv'
  BY DropStep
<1>2. DropInv /\ [Next]_vars =>
        [HandleRequest /\ ~lost' /\ job' = NoJob /\ Live = {} => Pending \/ amiss \/ unseen]_vars
  BY DropExplained
<1>3. QED
  BY InitDrop, <1>1, <1>2, PTL DEF Spec, DropHasCause
=============================================================================
