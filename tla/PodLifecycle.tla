---------------------------- MODULE PodLifecycle ----------------------------
(***************************************************************************)
(* The life of a pod across the cluster: users create, rewrite and delete  *)
(* pods, the scheduler binds them, the cubelet of the bound node runs them *)
(* and reports back.  All of it goes through the API server of PodStore.   *)
(*                                                                         *)
(* Which node the scheduler picks is left open here (RRScheduler models    *)
(* the choice); there is always one to pick.                               *)
(***************************************************************************)
EXTENDS Cubelet

CONSTANTS
    MaxWrites,  \* how often users rewrite a pod's specification
    MaxDeletes  \* how often users delete a pod that is there, or is there again

ASSUME UserAssumption == MaxWrites \in Nat /\ MaxDeletes \in Nat

VARIABLES
    created,  \* the pods users have created
    writes,   \* the specifications users have rewritten so far, per pod
    deletes,  \* the deletions by users so far, per pod
    sched,    \* where tryWatchPod is: "list", "bind", "open", "watch"; "dead"
    toBind,   \* the objects it has read and not yet passed to SchedulePod
    boundLate \* history: the pods etcd was given by a PUT its scheduler had left

schedVars == <<sched, toBind, boundLate>>
userVars == <<created, writes, deletes>>
vars == <<storeVars, cubeletVars, schedVars, userVars>>

TypeOK ==
    /\ StoreTypeOK
    /\ CubeletTypeOK
    /\ created \subseteq Pod
    /\ writes \in [Pod -> 0..MaxWrites]
    /\ deletes \in [Pod -> 0..MaxDeletes]
    /\ sched \in {"list", "bind", "open", "watch", "dead"}
    /\ toBind \in [Pod -> PodObj \cup {NoPod}]
    /\ boundLate \subseteq Pod

Init ==
    /\ StoreInit
    /\ CubeletInit
    /\ created = {}
    /\ writes = [p \in Pod |-> 0]
    /\ deletes = [p \in Pod |-> 0]
    /\ sched = "list"
    /\ toBind = NoCopies
    /\ boundLate = {}

-----------------------------------------------------------------------------
(* Users, and the controllers that act like them *)

CreatePod(p, s) ==
    /\ p \notin created
    /\ created' = created \cup {p}
    /\ PostPod(p, [node |-> NoNode, spec |-> s, ip |-> FALSE])
    /\ UNCHANGED <<writes, deletes, cubeletVars, schedVars>>

DeletePod(p) ==
    /\ deletes[p] < MaxDeletes
    /\ DelPod(p)
    /\ deletes' = [deletes EXCEPT ![p] = @ + 1]
    /\ UNCHANGED <<created, writes, cubeletVars, schedVars>>

\* A PUT of what GetPod returned, with another specification.
RewritePod(p, s) ==
    /\ writes[p] < MaxWrites
    /\ store[p] # NoPod
    /\ PutPodFound(User, p, [store[p] EXCEPT !.spec = s])
    /\ writes' = [writes EXCEPT ![p] = @ + 1]
    /\ UNCHANGED <<created, deletes, cubeletVars, schedVars>>

Commit(r) ==
    /\ PutPodCommit(r)
    /\ boundLate' = IF r \in Late THEN boundLate \cup {request[r].pod} ELSE boundLate
    /\ UNCHANGED <<sched, toBind, cubeletVars, userVars>>

\* A PUT fails whose sender goes on as if it had not: the routine's are in
\* RoutinePushFails, all others only log the error.
PutFails(r) ==
    /\ Fault
    /\ \A n \in Node, p \in Pod : r = PushOf(n, p) => p \notin pushing[n]
    /\ DropPut(r)
    /\ UNCHANGED <<informer, podCache, podEvent, sync, bigLock, routine, pushing, docker,
                   silent, evicted, failed, schedVars, userVars>>

-----------------------------------------------------------------------------
(* The scheduler's pod goroutine: it waits for each of its PUTs, unless it gives one up *)

SchedFree == request[Sched] = NoReq

SchedList ==
    /\ sched = "list"
    /\ toBind' = store
    /\ sched' = "bind"
    /\ ListPods(SchedWatch, Pod)
    /\ UNCHANGED <<boundLate, cubeletVars, userVars>>

\* Mutant: whatever is read is scheduled.
NeedsNodeAlways(o) == TRUE

NeedsNode(o) == o.node = NoNode

\* SchedulePod: an object with a node is left alone; the others are sent back
\* whole, as they were read, with the node filled in.
SchedulePod(p) ==
    /\ SchedFree
    /\ toBind[p] # NoPod
    /\ toBind' = [toBind EXCEPT ![p] = NoPod]
    /\ \/ ~NeedsNode(toBind[p]) /\ UNCHANGED storeVars
       \/ /\ NeedsNode(toBind[p])
          /\ \/ \E n \in Node : PutPodFound(Sched, p, [toBind[p] EXCEPT !.node = n])
             \/ PutPodNotFound(Sched, p)
    /\ UNCHANGED <<sched, boundLate, cubeletVars, userVars>>

SchedListed ==
    /\ sched = "bind"
    /\ SchedFree
    /\ toBind = NoCopies
    /\ sched' = "open"
    /\ UNCHANGED <<toBind, boundLate, storeVars, cubeletVars, userVars>>

SchedWatchPods ==
    /\ sched = "open"
    /\ sched' = "watch"
    /\ OpenWatch(SchedWatch)
    /\ UNCHANGED <<toBind, boundLate, cubeletVars, userVars>>

SchedTurn ==
    /\ sched = "watch"
    /\ SchedFree
    /\ toBind = NoCopies
    /\ TakeEvent(SchedWatch)
    /\ LET e == Head(stream[SchedWatch]) IN toBind' = [toBind EXCEPT ![e.pod] = e.obj]
    /\ UNCHANGED <<sched, boundLate, cubeletVars, userVars>>

SchedClosed ==
    /\ sched = "watch"
    /\ SchedFree
    /\ toBind = NoCopies
    /\ SchedWatch \notin watching
    /\ sched' = "list"
    /\ UNCHANGED <<toBind, boundLate, storeVars, cubeletVars, userVars>>

SchedLosesWatch ==
    /\ SchedWatch \in watching
    /\ Fault
    /\ CloseWatch(SchedWatch)
    /\ UNCHANGED <<informer, podCache, podEvent, sync, bigLock, routine, pushing, docker,
                   silent, evicted, failed, schedVars, userVars>>

\* UpdatePod returns an error while the handler still runs: it is logged, and the
\* pod goroutine goes on.
SchedGivesUp ==
    /\ request[Sched] # NoReq
    /\ Fault
    /\ AbandonPut(Sched, LateOf(faults + 1))
    /\ UNCHANGED <<watching, stream, missed, informer, podCache, podEvent, sync, bigLock, routine,
                   pushing, docker, silent, evicted, failed, schedVars, userVars>>

\* The process ends, with what it has read; its PUT stays with the server.
KillScheduler ==
    /\ sched # "dead"
    /\ Fault
    /\ AbandonPut(Sched, LateOf(faults + 1))
    /\ watching' = watching \ {SchedWatch}
    /\ stream' = [stream EXCEPT ![SchedWatch] = <<>>]
    /\ missed' = missed \cup {<<SchedWatch, stream[SchedWatch][i].pod>> : i \in DOMAIN stream[SchedWatch]}
    /\ sched' = "dead"
    /\ toBind' = NoCopies
    /\ UNCHANGED <<boundLate, informer, podCache, podEvent, sync, bigLock, routine, pushing, docker,
                   silent, evicted, failed, userVars>>

RestartScheduler ==
    /\ sched = "dead"
    /\ sched' = "list"
    /\ UNCHANGED <<toBind, boundLate, storeVars, cubeletVars, userVars>>

SchedStep == SchedList \/ SchedListed \/ SchedWatchPods \/ SchedTurn \/ SchedClosed
             \/ \E p \in Pod : SchedulePod(p)
SchedFault == SchedLosesWatch \/ SchedGivesUp \/ KillScheduler \/ RestartScheduler

-----------------------------------------------------------------------------
OnNode(A) == A /\ UNCHANGED <<schedVars, userVars>>

Next ==
    \/ \E p \in Pod, s \in PodSpec : CreatePod(p, s) \/ RewritePod(p, s)
    \/ \E p \in Pod : DeletePod(p)
    \/ \E r \in Requester : Commit(r) \/ PutFails(r)
    \/ SchedStep
    \/ SchedFault
    \/ \E n \in Node : OnNode(CubeletStep(n) \/ CubeletFault(n))

\* The goroutines keep running, and a handler of the API server finishes.  A Go
\* mutex hands itself over to a waiter that has starved, hence SF for bigLock.
\* Nothing is assumed of users, of faults, of a restart, nor that the routine runs.
Fairness ==
    /\ \A r \in Requester : WF_vars(Commit(r))
    /\ WF_vars(SchedStep)
    /\ \A n \in Node :
        /\ WF_vars(OnNode(ListMyPods(n) \/ WatchMyPods(n) \/ WatchTurn(n) \/ WatchClosed(n)))
        /\ WF_vars(OnNode(Receive(n)))
        /\ SF_vars(OnNode(SyncWork(n)))
        /\ WF_vars(OnNode(SyncPush(n) \/ SyncPushed(n)))
        /\ WF_vars(OnNode(RoutineEnd(n)))
        /\ \A p \in Pod :
            WF_vars(OnNode(RoutinePush(n, p) \/ RoutinePushed(n, p) \/ RoutinePanics(n, p)))

Spec == Init /\ [][Next]_vars
FairSpec == Spec /\ Fairness

-----------------------------------------------------------------------------
(* Properties *)

\* What the cubelet of n will have seen last of p once it has read its stream.
LastKnown(n, p) == IF InStream(CubeletWatch(n), p) THEN LastInStream(CubeletWatch(n), p)
                                                   ELSE podCache[n][p]
Mine(n, o) == IF o # NoPod /\ o.node = n THEN o ELSE NoPod

InHand(n, p) == \E ev \in {podEvent[n], sync[n].ev} \ {NoEvent} : ev.pod = p

\* Docker on a node holds something of a pod only if a write to etcd once bound
\* the pod to that node: no stale list, foreign event or late answer makes a
\* cubelet run a pod the scheduler gave to another node only.
BoundBeforeRun ==
    \A n \in Node, p \in Pod : docker[n][p] # NoContainers => <<p, n>> \in boundTo

\* The scheduler, which overwrites whole objects it read some time ago, binds a
\* pod that no user rewrote to one node, whatever watches are lost, pods come back
\* and schedulers are restarted.  The one exception: a PUT that its scheduler had
\* given up, or did not live to see answered, was written to etcd after all.
OneNodePerPod ==
    \A p \in Pod : writes[p] = 0 /\ p \notin boundLate =>
        \A n1, n2 \in Node : {<<p, n1>>, <<p, n2>>} \subseteq boundTo => n1 = n2

\* An informer's cache, brought up to date with the events still queued for it,
\* agrees with etcd on every pod of its node, unless an event was lost to a
\* closed watch, the status routine evicted the pod, or the pod changed nodes.
CacheAgrees ==
    \A n \in Node, p \in Pod :
        /\ informer[n] \in {"open", "watch", "send"}
        /\ <<CubeletWatch(n), p>> \notin missed
        /\ <<n, p>> \notin evicted
        /\ p \notin moved
        => Mine(n, LastKnown(n, p)) = Mine(n, store[p])

\* Containers that run for a pod the cubelet no longer has in its cache or in
\* hand have been lost in one of four ways: ForceRemove, a failed docker call,
\* a DELETE the informer was not connected for, a binding that was overwritten.
OrphanHasCause ==
    \A n \in Node, p \in Pod :
        /\ informer[n] \in {"open", "watch", "send"}
        /\ Running(n, p)
        /\ podCache[n][p] = NoPod
        /\ ~InHand(n, p)
        => \/ <<n, p>> \in evicted \cup failed
           \/ <<CubeletWatch(n), p>> \in missed
           \/ p \in moved

\* A cached pod with no event in hand runs just the containers of the cached
\* specification, unless a list put it in the cache without an event ("we assume
\* that no new pod will be bound", podinformer.go) or docker failed.
CachedPodRuns ==
    \A n \in Node, p \in Pod :
        /\ podCache[n][p] # NoPod
        /\ ~InHand(n, p)
        /\ <<n, p>> \notin silent \cup failed
        => /\ docker[n][p].sandbox = "up"
           /\ docker[n][p].up = ContainersOf[podCache[n][p].spec]

\* A pod bound to a node comes to run there, unless it is deleted or moved first
\* or one of the named causes intervenes; in particular no order of the informer,
\* the pod loop and the routine makes them wait for each other forever.
BoundPodRuns ==
    \A n \in Node, p \in Pod :
        Mine(n, store[p]) # NoPod ~>
            \/ Running(n, p)
            \/ store[p] = NoPod
            \/ p \in moved
            \/ <<n, p>> \in silent \cup evicted \cup failed
            \/ <<CubeletWatch(n), p>> \in missed
            \/ ~Alive(n)

\* docs/Cubernetes验收报告.md:237: the cubelet watches the deletion of pods.  So the
\* containers of a pod that is deleted come to be removed, when nothing fails.
DeletedPodStops ==
    \A n \in Node, p \in Pod :
        store[p] = NoPod /\ Running(n, p) ~> ~Running(n, p) \/ store[p] # NoPod
=============================================================================
