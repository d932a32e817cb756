# Cubernetes in TLA+

TLA+ models of Cubernetes, a small Kubernetes in Go, with the TLC runs that
check them and TLAPS proofs about them. Paths are relative to the repository's
root, which is `src/` in `PROJECT.json`.

1. [The system](#1-the-system)
2. [Modules](#2-modules)
3. [Runs](#3-runs)
4. [Fairness](#4-fairness)
5. [Proofs](#5-proofs)
6. [Findings](#6-findings)
7. [What is not modelled](#7-what-is-not-modelled)
8. [Plan](#8-plan)

## 1. The system

All components meet in the API server, which stores objects as JSON in etcd.
They read and write whole objects over HTTP (`pkg/apiserver/crudobj`) and follow
changes over streams (`pkg/apiserver/watchobj`). Nothing in etcd is versioned:
no handler compares what it overwrites with what its client had read, and a handler
goes on when its client has an error or has ended, so a request that was given up may
still be carried out, after others that were sent later.

| component | state | operations | talks to |
|---|---|---|---|
| API server, REST (`cmd/apiserver/httpserver`) | none of its own but the cluster-IP allocator | Get, Post, Put, Delete and select of eleven kinds of objects; Put is a lookup and then a write | etcd |
| API server, watches (`watcher.go`) | one etcd watch per request | forwards PUT and DELETE events in etcd's order | every component below |
| API server, heartbeat (`cmd/apiserver/heartbeat`) | `connMap`: the connection of each node | one handler goroutine per connection, `checkHealth` every 5 s | cubelets over TCP; node objects in etcd |
| Cubelet (`pkg/cubelet`) | informer caches, `bigLock`, docker's containers, the heartbeat's `lostCnt` and `connected` | informers, pod/job/actor loops, pod and actor status routines | API server, docker, weave |
| Scheduler (`pkg/scheduler`) | the round-robin table | four goroutines: nodes, pods, jobs, actors | API server |
| Controller manager (`pkg/controllermanager`) | three informer caches, a lock per controller | ReplicaSet and AutoScaler controllers: an event loop and a routine each | API server |
| CubeProxy (`pkg/cubeproxy`) | three informer caches, iptables chains per service, nginx configuration per DNS | three event loops under one lock | API server, iptables, nginx |
| Gateway (`pkg/gateway`) | routes, `channelMap` of calls under way | HTTP handlers, a consumer of the return topic, ingress informer | API server, Kafka |
| Action brain (`pkg/actionbrain`) | two informer caches, time series of invocations | event loop, request loop, scaling routine under one lock | API server, Kafka |
| GPU job server (`cmd/gpujobserver`) | the job's phase | submit, poll, report | API server, ssh |
| Cuberoot, cubectl | one metadata file | start, stop and reset processes; user commands | API server |

### What is hard in it, and what makes it correct

* **Pods** (section 2.1). The same pod is written by users, the scheduler, the
  pod loop of its cubelet and the cubelet's status routine, each with a copy it
  read earlier. The informer lists, then watches, over a connection that may be
  lost at any moment; a list tells the pod loop nothing. Informer, pod loop and
  status routine share the cache and exclude each other with `bigLock`, an
  unbuffered channel and a mutex. Docker calls fail halfway. Correct means: a
  pod runs on the node it is bound to and on no other; the cache follows etcd;
  what runs follows the cache; a bound pod comes to run; a deleted one stops.
* **Round robin** (2.2). Four goroutines share a count and a slice without a
  lock. Correct means: no node twice, as many names as the count says, the
  nodes that are Ready, each used in its turn, and no panic.
* **Heartbeat** (2.3). Two goroutines per connection on one side, a handler per
  connection and a timer loop on the other, all of which close connections,
  while the cubelet reconnects. Correct means: one attempt to connect at a
  time; Ready only while someone watches the node; NotReady when the cubelet is
  gone, Ready when it beats.
* **ReplicaSets** (2.4) **and AutoScaler** (its part in a ReplicaSet). Handlers compute from
  a cache their last write has not reached yet; both controllers write whole ReplicaSets.
  Correct means: as many running pods as replicas in the end, no pod counted that is gone,
  the pods of a deleted ReplicaSet deleted, and no deadlock on the full event channels.
* **CubeProxy** (2.5). Mutexes held across sends to loops that wait for the
  proxy's lock, and loops that return with that lock held. Correct means: rules that
  lead to the pods that run, a lock that is unlocked, and a proxy that settles.
* **Action brain** (2.6). Statuses computed from a cache behind the last write, as in
  the ReplicaSet controller; a loop that skips its unlock. Correct means: an action
  that is called has an actor, as many actors as desired in the end, and none left of
  an action that is deleted.
* **Gateway** (2.7). Calls that time out while their answer is under way; a router that
  forgets nothing and panics on a route it knows. Correct means: a call ends once, with
  an answer only if the function replied; nothing is left of an answered call; routes
  follow ingresses.
* **GPU jobs** (2.8). One object that user, scheduler and the job's container write in
  turns. Correct means: phases go forward, the node stays, the job comes to its end.
* **Cluster IPs** (2.9). Handlers that test and set a map without a lock; a loop that
  looks at one address for ever. Correct means: no address twice.
* **Call graph** (2.10). Handlers that check a graph and write to it later. Correct
  means: no action comes to invoke itself.

The hazards behind these sentences are listed with their lines in
`PROJECT.json`.

## 2. Modules

```
PodStore                API server and etcd as the pods' clients see them
  Cubelet               the cubelets and docker
    PodLifecycle        users, the scheduler's pod goroutine, the composition
      MCPodLifecycle    constants for TLC
      PodLifecycle_proofs
RoundRobin              the scheduler's table and its goroutines
  RoundRobin_proofs
Heartbeat               one node's heartbeat, both ends
  Heartbeat_proofs
ReplicaSets             the controller manager's informers and ReplicaSet controller
  ReplicaSets_proofs
ActionBrain             serverless scaling: informers, loops, routine, monitor
  ActionBrain_proofs
Calls                   what the gateway promises its callers
  Gateway               ingresses, routes and calls; implements Calls
    Gateway_proofs
CubeProxy               one node's proxy: informers, loops, lock, rules
  CubeProxy_proofs
Jobs                    a GPU job through cubectl, scheduler, cubelet and container
ClusterIPs              the allocator in the API server
ActionGraph             the check of the actions' call graph in the API server
MCSeparate              CubeProxy, Jobs, ClusterIPs and ActionGraph for TLC
Separate_proofs         theorems about Jobs, ClusterIPs and ActionGraph
```

`MCSeparate` composes parts that do not interact in the code either: its `part`
says which of them moves in a behaviour, so that one run checks all four.

`PROJECT.json` maps each definition to its lines. Variables keep the code's
names where it has one (`podCache`, `podEvent`, `bigLock`, `NameOfNodes`,
`lostCnt`, `connMap`); the comments say which code each stands for. Definitions
whose comment starts with "Mutant" are not used by the specifications: each is
the definition below it with a plausible bug, with which TLC finds the
property that guards against the bug violated.

### 2.1 Pods: PodStore, Cubelet, PodLifecycle

`PodStore` holds `store` (etcd), and per client with a pod watch its
registration (`watching`) and the events queued for it (`stream`). `PutPod` is
two steps with a handler (`request`) between them, as other handlers run between
its `GetObj` and its `PutObj`; `DropPut` is etcd failing or the server dying
there. An event is queued for every registered client in the order of the
writes; `CloseWatch` loses what is queued.

A pod object is its node, its specification and whether it has an IP. A nil
status and an empty `NodeUID` are handled alike by every reader and are one
value. "Specification" is what `compare.go` compares: metadata and spec. Phases
are dropped, as neither scheduler nor cubelet decides anything by them, and so
are container images. Specifications without containers are excluded.

`Cubelet` has, per node, the informer (`informer`, `podCache`, `podEvent`), the
pod loop (`sync`), the status routine (`routine`: the copies `ListPods` returned;
`pushing`: those whose PUT is not answered), `bigLock`, and what docker holds of
each pod: a sandbox and its containers, each up or down. The docker daemon is
external; of it the model uses that names are unique and that `ListContainers`,
which the runtime calls without `All`, shows running containers only.

* `SyncWork` is everything `SyncPod` or `KillPod` do to docker. Other goroutines
  only read the same containers, under `bigLock`, so it is one step; its failures
  (`SyncWorkFails`) may stop anywhere inside. `computePodActions` always asks for
  a new sandbox because `toSandboxStatus` leaves the IP empty, so an update kills
  the pod and starts it again; a create finds an empty status and kills nothing.
* `SyncPush` and `RoutinePush` are the PUTs at the end; they hold `bigLock`.
* `RoutinePanics` is the nil dereference after an `InspectPod` that found no
  sandbox: it ends the cubelet. A docker error has the same effect there and in
  `GetPodStatus`; both are covered by `KillCubelet`, which may strike at any time.
* `updateActorsRoutine` takes `bigLock` as well, but only to wait for docker and
  HTTP, so it adds nothing but time and is left out.
* A PUT whose client has an error may still be in the server. The scheduler gives up
  PUTs (`SchedGivesUp`) and is killed and restarted (`KillScheduler`,
  `RestartScheduler`); its handler goes on as the requester `LateOf(i)`, to be committed
  or dropped at any later time, whatever the scheduler lists and binds meanwhile. A
  goroutine of a cubelet waits with its next PUT for the one before, which is a bound of
  the model: what it writes back is bound to its own node in any order.

`PodLifecycle` adds users, who create, rewrite and delete pods (controllers act
like them), and `tryWatchPod` with `SchedulePod`. Which node is chosen is left
open; there is always one. A selector no node matches, with which the code PUTs
the node "", is left out.

History variables (`boundTo`, `boundLate`, `moved`, `missed`, `silent`, `evicted`, `failed`)
record what the properties are conditional on. No guard reads them. `failed` is
cleared only when a later sync left nothing over.

### 2.2 RoundRobin

`AddNode`, `RemoveNode` and `Schedule` at the granularity of their accesses to the shared
fields: the count before the append, the shift of the array before the assignment of the
slice and before the count, `NumOfNodes` read twice by `Schedule`. A read of `NameOfNodes`
(bounds check and load) and a write of its header are single steps; a slice header torn
between pointer and length is not modelled. `Next` wraps from `Half - 1` to `-Half`, as the
int32 it is does with `Half` = 2^31; `Remainder` is Go's, with the sign of the dividend.
`NodeChanges` lets nodes become Ready or not, appear and disappear in any way, a Ready out
of nothing included: that is what the heartbeat's write after a deletion does.

History: `heard` (nodes whose last word was an event), `alone` (calls no change
of the table overlapped), `since` and `tally` (picks since the last change).

### 2.3 Heartbeat

One node: `updateHeartBeat` (`dialing`, `reading`), `maintainHealth` (`beating`),
`retryConnection` (`retrying`) and `closeConn` on the cubelet's side, `handle`,
`checkHealth` and `updateNodeReadyState` on the server's. Nodes do not interact:
map entries and etcd keys are per node. `dialing` holds the `lostCnt` each
`updateHeartBeat` read when it began, which `closeConn` compares later. A
connection is cut when nothing passes any more; either side then learns of it by
`TIMEOUT`, a failed write or TCP's keepalive. `TIMEOUT` is three intervals, so it
is taken to strike only connections that are cut or whose cubelet hangs. The
node object a cubelet sends never changes, so all its messages are equal and the
unread ones are one.

Each call of `handle` to etcd may fail: `LookupFails` and `PutReadyFails` end it before it
has deferred the NotReady, `PutNotReadyFails` is the deferred write, whose error is only
logged. A write that is reported as failed has been made or has not. `stranded` is history:
the latest write of the node is one that failed, and left it Ready.

### 2.4 ReplicaSets

One ReplicaSet and the pods that match its selector, stored in etcd as `set` and
`pods`; ReplicaSets meet nowhere but in pods that match two selectors. Of a pod the
module keeps the class `phase/pod_phase.go` gives its phase, of a ReplicaSet its
replica count and its Status without the time and without `RunningReplicas`, which
nobody reads.

* The informers are `setInf` and `podInf`, their caches `setCache`, `podCache` and
  `rmCache`, their channels to the controller `setChan` and `podChan`. `podHand` is a
  pod event between the check of `rmCache` and `informPod`, which `RecordRemove` can
  come between; `setOut` and `podOut` are events whose send may block.
* `job` is what the holder of `biglock` does: a handler of the event loop or the
  routine. A handler computes its status when it starts (`HandleSetCreate`, `-Update`,
  `-Remove`, `HandlePod`, `Routine`); each HTTP call it makes is a step (`Job...`), and
  informers, cubelets and users go on in between.
* A Go copy of a ReplicaSet shares its Status with the cache it was taken from, so
  pod handlers change the cached object before their PUT is answered, and an RsUpdate
  event changes under way. `shared` and `Unshare` follow that pointer. That appending
  to a shared slice may overwrite another slice's elements is not modelled.
* `SetPanics` and `PodPanics` are the nil dereferences of a Status that is not there
  yet. The process stays down until somebody starts it.
* The routine waits until a status is 30 seconds old. The model lets it run when
  nothing else is under way, and at any other time as an incident.
* Cubelets are `PodRuns`, `PodReports` and `PodGoesBad`. Each looks the pod up (`PutPod`)
  and its write is a later step (`PodPutLands`), which brings back a pod that was deleted
  in between; there is one PUT of a pod at a time. A pod starts in seconds, in which the
  manager's own write comes back to its cache; a pod that is faster is an incident.
* The AutoScaler is `ScaleReads`, its decision left open. `setReq` is its PUT of the
  ReplicaSet, or one of the manager's own that nobody waits for any more (`Outlived`);
  `SetPutLands` writes it at any later time.
* UIDs are unique in the code. The model uses one again when nothing knows it any more
  (`Forgotten`).

History: `unseen`, `missed`, `raced`, `revived` (pods that a PUT wrote after they were
deleted) and `tidy` name the causes in the properties.

### 2.5 CubeProxy

The proxy of one node with one service, the pods it may match and one DNS object.

* `inf`, `stream` and the caches are the three informers. Each holds its mutex from the
  change of its cache to the end of its send on an unbuffered channel: `out` is the
  event it is sending, so an informer with one in `out` neither goes on nor answers
  `ListServices`. `hand` is the event a loop has received and holds until it has
  `cp.lock` (`lock`); `step` and `copy` are what the holder does next.
* `Circle` is the wait in a circle that results: the pod loop has the lock and asks the
  service informer for its services, which sends to the service loop, which waits for
  the lock. `lock = "lost"` is a loop that returned from an error without unlocking.
* A service is the destinations its ports have and the pods its selector matches.
  `SelectPods` asks for the pods and makes the chains, in the order of the ports;
  `WriteBack` is the PUT of the copy it worked on. `chain` is `ServiceChainMap` with the
  rules; `left` are rules of an earlier process or of a deletion that stopped half way,
  which nobody will take away.
* The service informer gives an event of a changed service only if
  `ComputeServiceCriticalChange` finds a difference, for which the order of the ports is
  none (`Alike`): the cache then has the new order, and the chain keeps the older one.
* A pod may lose its address ("lost"): the informer ignores that, as a FIXME in it says, and
  the rules stay. A pod with other labels ("relabelled") is of no service the loop
  knows, and the rules stay too; in the model it does not get its old labels back.
* `nginx` is the container of the DNS object: "own" is the one of the name, "stray" one that
  was created and could not be started. `SyncDns` stops and removes a container, of which
  docker's failures are only logged; `AddDns` creates and starts one. `dnsFailed` is
  history: docker failed in one of these and left a container.
* DELETE events hold nothing but a UID, which is why the handlers of removed services
  meet an object without ports (`Bare`).

History: `untold` are the informers that changed a cache without telling their loop, or were
told of a change of a pod in vain (`InVain`).

### 2.6 ActionBrain

One action with its actors in etcd, the two informers, the event loop, the goroutine of
calls (`evoke` is its channel), the routine, and the monitor, which reads from `topic`
what the gateway reported and counts the calls of the last minute (`recent`). The
conventions are those of `ReplicaSets`: `job` is what the holder of `biglock` has still
to do, one HTTP call a step; a Go copy shares its Status with the cache (`shared`).

* `HandleRequest` is the cold start: one actor for an action that has none. It skips the
  unlock when the action is not cached (`lost`) and ends the process when the Status is
  nil.
* The routine creates and kills actors for the number the policy wants of the calls
  of the last minute (`Target`), capped by `MaxReplicas`, one up or down at a time (`Scaled`).
* `ToKill` shrinks only for an error text the client library does not produce, so an
  actor is deleted again in each round until its removal is seen; this is as in the code.

* A POST of the action's name reads the Status it will keep (`PostReads`), checks the call
  graph and writes later (`ActionReqLands`), over whatever has been written or deleted
  meanwhile. A cubelet's PUT of an actor is a lookup (`PutActor`) and a write
  (`ActorReqLands`), which brings back an actor that was deleted in between. `actionReq`
  and `actorReq` hold what is on its way, also the brain's own PUTs when it has ended
  (`OutlivedPut`, `OutlivedUpdates`). A POST of a new actor that is on its way when the
  brain ends is taken as lost.
* The informer refuses a change of `InvokeActions` (`Refused`): it keeps the object it has,
  Status included. `MonitorEnds` is a failed read, after which no call is counted or
  passed on.

As there, a UID serves again only when nobody knows it any more (`Fresh`).

History: `unseen`, `nilled` (a POST wrote the action without the Status it had by then),
`amiss`, `revived` and `tidy` name the causes in the properties. A Status is right
again (`PutRight`) when the routine has counted actors that the informer's cache has right.

### 2.7 Gateway and Calls

`Calls` is the abstract specification of what a caller sees: a call is let in or
refused, and ends once, answered, timed out or cut off by the end of the gateway; an
answer needs a reply of the function. `Gateway` is shown to implement it: `Outcomes`
maps the state of a call's goroutine to its outcome, and `Promise` is the INSTANCE.

* `handler` is the goroutine of each call, `channelMap` and `channel` its entry in the
  map and the buffered channel, `consumer` and `held` the goroutine that reads
  the return topic, `actionTopic` and `returnTopic` Kafka. `Garbage` is a message that
  does not parse, which stops the consumer.
* The informer of ingresses has its mutex, cache and `pathSet`; "stuck" is the return
  that leaves the mutex locked, which blocks the next event. The HTTP router panics on a
  route it has, which ends the gateway (`RouterPanics`).
* A function replies once and, as an incident, again, as Kafka may deliver its request
  again; replies to calls of an earlier gateway go to that one's topic.

### 2.8 Jobs

One GPU job, which cubectl creates and then marks as created when its files are there;
the scheduler's job goroutine with its list and watch; on each node the job informer,
the job loop, which creates and then starts a container, and gpujobserver in it with
its copy of the job, whose phases it writes. All PUTs write the whole object.

A PUT is looked up and written (`PutJob`) in one step as long as its sender waits for it,
as there is nobody then who deletes the job. A PUT whose sender gives it up (the scheduler
and the observer, after an error) or ends is kept in `late`, in the place of the incident
that parted them, and `WriteLate` writes it at any later time or never. `ObserverEnds` is an
observer that ends without `jobFail`: an index out of range on short output, or a killed
container.

`missed`, `broken` and `wroteLate` are history: a change that fell between a list and its
watch, an error that nobody makes good, and a late PUT that was written.

### 2.9 ClusterIPs

The POST of each service at the granularity of its accesses to the allocator's map: the
test of an address (`FindsFree`, `Spins`), its marking (`Mark`) and the write to etcd
(`StoreService`). `Spins` is the loop that counts `nextIP` up and looks at the same
address; the uint32 it counts may have any value while it does. `Outside` is every
address out of the range, on which the process ends. A new API server fills its map
from etcd and refuses to start with a service outside the range. `together` and
`edited` are history.

### 2.10 ActionGraph

The handlers of POST, PUT and DELETE of actions: a check of all stored actions and a
write of one, two steps with other requests between. Of several stored actions with one
name, `Nodes` lets any one be in the map, as the last one read is. `CheckLoop` states
what the removal of nodes comes to: something is left exactly if some names are all
invoked from among themselves. `NoCycle` speaks of paths instead, so that the check is
held against what it is for. `overlapped` and `renamed` are history.

## 3. Runs

| run | bounds | checks | distinct states |
|---|---|---|---|
| `pod_lifecycle` | 1 node, 1 pod, 2 specifications, 1 fault, 1 rewrite, 1 deletion | `TypeOK`, `CacheAgrees`, `OrphanHasCause`, `CachedPodRuns` | 3.8 million |
| `pod_two_nodes` | 2 nodes, 1 pod, 1 fault, 1 deletion | `BoundBeforeRun`, `OneNodePerPod` | 1.2 million |
| `pod_liveness` | 1 node, 2 pods, 1 fault, fair | `BoundPodRuns` | 442 thousand |
| `pod_deletion` | 1 node, 1 pod, no fault, 1 deletion, fair | `DeletedPodStops`, violated | |
| `round_robin` | 2 nodes, 2 callers, `Next` below 4, 6 calls, 2 changes | `TypeOK`, `TableConsistent`, `TableFollowsReady`, `PanicHasCause`, `UsesNodesInTurn` | 2.4 million |
| `heartbeat` | 3 connections, 2 faults, fair | `TypeOK`, `OneAttempt`, `ReadyIsBacked`, `GoneCubeletNotReady` | 174 thousand |
| `heartbeat_ready` | 2 connections, 1 fault, fair | `ConnectedBecomesReady`, violated | |
| `heartbeat_silent` | 2 connections, 2 faults, fair | `SilentBecomesNotReady`, violated | |
| `replica_sets` | 1 ReplicaSet of 1 or 2 replicas, 6 UIDs, channels of 1, 1 incident, 2 updates handled, fair | `TypeOK`, `NilStatusHasCause`, `GhostHasCause`, `Converges`, `RemovalCleans` | 695 thousand |
| `action_brain` | 3 actors, 2 scripts, 2 `InvokeActions`, 2 calls, channel of 1, 1 change, 1 incident, fair | `TypeOK`, `NilStatusHasCause`, `DropHasCause`, `Converges`, `RemovalCleans` | 760 thousand |
| `gateway` | 2 calls, 2 ingresses on one path with 2 methods, 3 writes of ingresses, 1 incident, fair | `AnsweredLeavesNothing`, `RoutesFollow`, `CallsKept` | 743 thousand |
| `separate_parts` | CubeProxy: 2 pods, 3 versions of a service with 1 or 2 ports, one of them reordered, 4 changes, 2 incidents, fair; Jobs: 2 nodes, 2 incidents, fair; ClusterIPs: 3 services, 2 addresses, 2 incidents; ActionGraph: 2 names, 3 UIDs, 2 requests | `TypeOK`, `RulesFollow`, `LockHolderMoves`, `ContainersHaveDns`, `Settles`; `JobsTypeOK`, `JobGoesForward`, `JobRuns`; `AddressesDiffer`; `ActionGraphTypeOK`, `NoCycle` | 988 thousand |

Deadlock is not checked in any of them: when users have used up their writes
everyone waits for events, and processes may stop for good.

What they show:

* A cubelet never starts a pod that was not bound to it, and the scheduler, which
  overwrites whole objects it read long ago, does not move a pod. `OneNodePerPod`
  excepts pods a user rewrote: a user's PUT can put an unbound copy over a bound
  one. It also excepts pods written by a PUT that the scheduler had left: it lists the
  pod unbound, binds it to another node, and the first PUT is written then.
* The cache, once the queued events are read, agrees with etcd, with three
  exceptions: an event lost with a connection, an eviction by `ForceRemove`, a pod
  whose binding was overwritten. Containers without a cache entry have one of
  these causes or a docker failure behind them. A cached pod runs just what its
  cached specification says unless a list brought it in or docker failed. The
  exceptions are the places where what runs may stay different from what etcd says.
* A bound pod comes to run under the same exceptions; informer, pod loop and
  status routine do not wait for each other in a circle.
* The round-robin table is right between changes, panics only in a race with a
  change or after the overflow of `Next`, and otherwise uses its nodes in turn. After
  the overflow it does not: of the numbers below one only those that `NumOfNodes` divides
  pick a node, always the first; three callers and `Half = 2` are enough to see it.
* The heartbeat has one attempt to connect at a time, no Ready that nobody will
  take back, and a cubelet that is gone becomes NotReady; the last two unless the latest
  write of the node failed in etcd, which nobody makes good.
* A ReplicaSet comes to have as many running pods as it asks for, although handlers
  overwrite each other's statuses, create pods twice and kill running ones: the routine
  counts pods by their labels and makes up for it. It cannot when the process is down, when
  the Status is nil, which it skips, when the cache holds a pod that is gone, or when it
  lacks one that a PUT has brought back, which `rmCache` hides. A Status stays nil when its
  first PUT failed or the creation was never seen, and the next pod event then ends the
  process; a pod stays in the cache when its deletion was lost with a watch, as lists only
  add, or when an event that had passed the check of `rmCache` put it back, or when a PUT
  did. All are shown to have no other cause.
* Two ways in which the manager never settles were met and are kept out. Two RsUpdate
  events under way at once write each other's replica count back and so trigger each
  other forever (`Rescaling`; `MaxRescales` cuts the loop, whose pods would grow
  without end). Pod events handled faster than writes come back to the cache can keep
  undoing each other's status; hence the incident in `PodRuns`.
* `RemovalCleans` is about a ReplicaSet deleted while its status is up to date. Pods
  that were still to run are not deleted with it: the handler looks at running ones only. Nor
  does a pod stay deleted whose status the cubelet had under way.
* When all is handled and nothing was missed, the rules of a service are for its ports,
  though perhaps in the order they had before, and lead to the pods that run and nowhere
  else (`RulesFollow`). A container has its DNS object unless docker failed
  (`ContainersHaveDns`). The lock is not lost but by a loop's return,
  and there is no wait in a circle but `Circle` (`LockHolderMoves`). The proxy settles
  unless it stops in one of these ways or two versions of a service, each written back
  over the other, keep bringing each other back (`Settles`).
* The brain's cached action has no Status only for the causes of a ReplicaSet's, and a
  call is dropped without an actor only while the cached Status is out of date
  (`NilStatusHasCause`, `DropHasCause`). A POST adds one: the Status it read may be nil, or
  an older one, when it writes. The number of actors becomes the desired one unless a
  Status was written over one it was not made from, which the routine puts
  right when it next runs, an actor came back whose informer gives no event of it
  (`Uncounted`), or the brain stops. An action deleted while all is settled
  leaves no actors but those that a PUT under way brings back; one deleted while actors
  start may.
* The gateway keeps `Calls`: no call is answered that no function replied to, none is
  answered twice, and all of them end. An answered call leaves nothing behind; one that
  timed out leaves its channel until a late reply takes it out of the map.
  `RoutesFollow` excepts ingresses a restarted gateway lists, of which nobody tells the
  router, and an informer whose mutex was left locked.
* A job's phases go forward and its node stays, although three programs write back old
  copies, because each of them waits for a phase or node that only its predecessor
  writes (`JobGoesForward`). What breaks this is a PUT that is written after its sender
  has given it up: a failed job is submitting again, or a job changes its node
  (`wroteLate`). A created job comes to its end, or `missed` and `broken` say what
  happened: a container that was created and not started before the cubelet ended
  holds the name for good.
* Two services have one address only when their posts overlapped or a PUT, which the
  allocator does not see, chose it: a restart does not hand out an address in use, nor
  does the counter that ran away. What the loop does instead is to spin for ever.
* The call graph has no cycle unless two writes overlapped or a PUT gave an action the
  name of another. Deletions between check and write do no harm.

Several properties have the form "unless one of these happened". The excuses are
history variables or states that stand for one event of the code each, none is true
initially, and each is as narrow as TLC allows: without it the property is violated.

Bounds and why they are enough:

* `MaxFaults` is a budget for lost connections, docker failures, stopped
  containers, failed PUTs and crashes together. One fault reaches each exception of
  the pod properties; two are needed, and given, where a property is about a cut
  followed by a hang or a crash.
* `MaxBacklog` bounds what a cubelet can repeat forever, the status routine and
  the pod loop's PUT: they wait while another client has an unread event (the
  routine also for its own). Other writers are bounded by their budgets, so streams
  still hold several events in a row, and every order of two writers is reached.
* One pod and one node suffice for the cache properties, as caches, docker and
  etcd are per pod; two nodes for those about bindings; two pods for liveness,
  as pods compete for the pod loop and the lock.
* `Half = 4` lets `Next` overflow within `MaxCalls = 6`; two changes let an
  event follow a list and a removal overlap a call.
* Three connections let a third be made while the ends of two are outstanding.
* `MaxIncidents` is one budget for failed requests, lost watches, pods that die, are
  deleted, report or start fast, kills, scaling, early routines and a deletion while
  something is under way. One suffices for each exception of the properties.
  `ChanCap = 1` lets both informers block. One or two replicas let a count rise
  and fall; six UIDs are as many as one incident makes the controller use at once. `Converges`
  holds for one incident: with two, a pod that dies in a gap of the pod watch is counted
  until its cubelet's next report, and the reports of the model are incidents too.
* `ActionBrain`: a change is allowed when all is quiet, a second one, or one while something
  is under way, is an incident, as are failures. `PerReplica = 1` makes two calls ask for
  two actors, as ten would in the code. Three actors leave one to create while two are
  known.
* `gateway`: three writes are what a route needs to be made, taken away and made again,
  with which the router panics.
* `separate_parts`: four changes let a service be created, changed while its pods start, and
  deleted; two incidents let a restart meet a failure. In Jobs two let a failed write be
  followed by a failed `jobFail`, or by the PUT that was given up. A
  late PUT comes when all streams are read and ends the behaviour of the job in TLC
  (`JobsPart`, `AllRead`), as the properties say nothing after it; the proofs have no such
  bound. `ClusterIPs` needs a
  third service to meet a counter that two others have moved; its and `ActionGraph`'s safety
  is proved for any number.

## 4. Fairness

Assumed: goroutines that can run do (WF on the steps of informers, loops,
handlers, `checkHealth`), handlers of the API server finish, and a goroutine
waiting for `bigLock` gets it, as a Go mutex hands itself to a waiter that has
starved (SF on `SyncWork`). In `Heartbeat`, messages go on being sent and read
on a connection, and each side comes to notice a cut, which is what `TIMEOUT` and
TCP's keepalive, on by default in Go, are for.

In `ReplicaSets`, a created pod comes to run, the controller's `select` and lock leave
out neither handlers nor routine for good (WF on `Handlers` and on `Routine`, which is
enabled for good once nothing is under way), and the API server writes what it has looked
up (WF on `SetPutLands` and on `PodPutLands` of each pod).

In `ActionBrain` the same holds of informers, handlers, HTTP calls and the monitor
together, of the routine, whose ticker goes on, of actors, which come to run, and of the
writes of the API server (`ActionReqLands`, `ActorReqLands`). In
`Gateway` the informer with its loop, the consumer and each call's goroutine go on, and
90 seconds pass. `CubeProxy` has one weak fairness for all its goroutines together
(`Works`); `Jobs` one for the scheduler's goroutine and one per cubelet and
container. `ClusterIPs` and `ActionGraph` assume none.

Not assumed: anything of users, faults, errors of etcd or restarts, that a PUT that was
given up is ever written (`WriteLate`), nor that the status routine
ever runs (it does not while the heartbeat is down).

## 5. Proofs

| theorem | module | states |
|---|---|---|
| `Typed` | `PodLifecycle_proofs` | `Spec => []TypeOK` |
| `RunsWhereBound` | `PodLifecycle_proofs` | `Spec => []BoundBeforeRun` |
| `BoundOnce` | `PodLifecycle_proofs` | `Spec => []OneNodePerPod` |
| `CacheFollows` | `PodLifecycle_proofs` | `Spec => []CacheAgrees` |
| `OrphansExplained` | `PodLifecycle_proofs` | `Spec => []OrphanHasCause` |
| `CacheRuns` | `PodLifecycle_proofs` | `Spec => []CachedPodRuns` |
| `RoundRobinTyped` | `RoundRobin_proofs` | `Spec => []TypeOK` |
| `Consistent` | `RoundRobin_proofs` | `Spec => []TableConsistent` |
| `PanicsExplained` | `RoundRobin_proofs` | `Spec => []PanicHasCause` |
| `NodesInTurn` | `RoundRobin_proofs` | `Spec => []UsesNodesInTurn` |
| `TableFollows` | `RoundRobin_proofs` | `Spec => []TableFollowsReady` |
| `Typed` | `Heartbeat_proofs` | `Spec => []TypeOK` |
| `ReadyBacked` | `Heartbeat_proofs` | `Spec => []ReadyIsBacked` |
| `AlwaysOneAttempt` | `Heartbeat_proofs` | `Spec => []OneAttempt` |
| `SetsTyped` | `ReplicaSets_proofs` | `Spec => []TypeOK` |
| `GhostsExplained` | `ReplicaSets_proofs` | `Spec => []GhostHasCause` |
| `NilStatusExplained` | `ReplicaSets_proofs` | `Spec => []NilStatusHasCause` |
| `BrainTyped` | `ActionBrain_proofs` | `Spec => []TypeOK` |
| `NilStatusCaused` | `ActionBrain_proofs` | `Spec => []NilStatusHasCause` |
| `DropsExplained` | `ActionBrain_proofs` | `Spec => DropHasCause` |
| `Typed` | `Gateway_proofs` | `GatewaySafe => []GatewayTypeOK` |
| `AnsweredClean` | `Gateway_proofs` | `GatewaySafe => []AnsweredLeavesNothing` |
| `RoutesFollowed` | `Gateway_proofs` | `GatewaySafe => []RoutesFollow` |
| `PromiseSafe` | `Gateway_proofs` | `GatewaySafe => Promise!CallsSafe` |
| `ProxyIsTyped` | `CubeProxy_proofs` | `Spec => []TypeOK` |
| `ContainersFollow` | `CubeProxy_proofs` | `Spec => []ContainersHaveDns` |
| `RulesFollowed` | `CubeProxy_proofs` | `Spec => []RulesFollow` |
| `HolderNeverStuck` | `CubeProxy_proofs` | `Spec => [](lock \in Loop /\ ~Circle => HolderReady \/ InformerReady)` |
| `JobsTyped` | `Separate_proofs` | `JobsSpec => []JobsTypeOK` |
| `Forward` | `Separate_proofs` | `JobsSpec => JobGoesForward` |
| `AddressesTyped` | `Separate_proofs` | `ClusterIPsSpec => []ClusterIPsTypeOK` |
| `Differ` | `Separate_proofs` | `ClusterIPsSpec => []AddressesDiffer` |
| `GraphTyped` | `Separate_proofs` | `ActionGraphSpec => []ActionGraphTypeOK` |
| `Acyclic` | `Separate_proofs` | `ActionGraphSpec => []NoCycle` |

They hold for every value of the constants that satisfies the assumptions of the modules:
bounds are naturals; the null values (`NoNode`, `NoPod`, `NoConn`, ...) are none of the
values they stand beside; every pod specification has a container; the nodes of
`RoundRobin`, the pods of `ReplicaSets`, the actors of `ActionBrain` and the names of
`ActionGraph` are finitely many, `Half` is at least one; a service of `CubeProxy` has ports,
each with a destination of its own, and a selector that matches something.

**Pods.** `CacheInv` holds the whole invariant, each part of which
needs those before it.

* `Typed` is not inductive alone: an informer at "send" hands its
  `podEvent` to the pod loop, which would be ill typed with `NoEvent`. `Handover`
  says that it holds an event then. The operators on streams, PUTs, containers
  and the pod loop have a lemma each; every action then needs one step.
* `RunsWhereBound`: docker holds something because the pod loop started it from
  an event; the event came from the cache or the stream, those from etcd. So
  `AllBound` says of every object that names a node, whether stored (`StoreBound`),
  queued (`StreamBound`), cached (`CacheBound`), or in an event in hand
  (`EventBound`), that etcd once held that binding. `boundTo` only grows,
  objects in transit are only copied, and `ForMe` is what ties a cache to its node.
* `BoundOnce`: two bindings need two writers that both hold the pod unbound. `AllMine`
  says that whatever a cubelet writes back is bound to that cubelet's node, so it binds
  nothing anew; the scheduler alone does, from an object without a node. `Single` says
  that while the pod is `Plain` - no user rewrote it, and no PUT wrote it that its scheduler
  had left - such an object is in one place at most - etcd with its event to the
  scheduler, the scheduler's list, or its PUT - and nowhere once the pod is bound. PUTs
  the scheduler has left are not counted: one that is written makes the pod no longer
  `Plain`, and one that is not changes nothing. `SchedOrder` is needed as well: before it
  watches, the scheduler has ended its list and has waited for its PUTs or given them up,
  and it has nothing in hand when it lists, so the list and the stream never both hold
  the pod.
* `CacheFollows`: neither it nor the next two are inductive, as they speak of the moments
  when nothing is queued. `Follows` speaks of the events between a cache and etcd: the last
  one of a pod tells what etcd holds (`LastStored`), of two in a row the second does not
  take the pod from the node (`EventsStay`), nor does the first what is cached
  (`FirstStays`), and without any, cache and etcd agree (`Settled`). The second and third
  are needed because the informer ignores an event of another node's pod, its own cached pod
  included.
* `OrphansExplained` and `CacheRuns`: `Runs` carries that over to docker. An event in hand
  of a pod no longer cached has a removal behind it (`ToldRemoved`), one of a cached pod
  tells its specification (`ToldCached`), and with nothing in hand docker runs what the
  cache says (`CachedRuns`, `RunsCached`). The event in the informer's hand counts before that
  of the loop.

**RoundRobin.**

* `Consistent`: `Table` gives the relation of names and count at each step of
  `AddNode` and `RemoveNode`: one more counted than named after the increment, a
  name repeated at the end after the shift, one more counted after the assignment.
* `PanicsExplained`: in `Calling`, a call that no change overlapped (`alone`) sees a table
  at rest that is not empty (`Undisturbed`); its number, for as many calls as `Next` can
  count, is positive, or `-Half`, which wraps when one is taken off (`Numbered`); so its index
  is below the count (`Indexed`).
* `NodesInTurn`: each number is taken by one call, so the picks of a node and the calls
  on their way to it (`Due`) are as many as numbers since `since` with its place as their
  remainder. `Turns` says so without counting: all places have as many, but those
  `Between` the place of the first number and of the next have one more. The next
  number moves the end of that range by one (`Residues`, `BetweenMoves`); when the range
  has gone round, every place has one more. `Counted` ties numbers to `since`
  and an undisturbed call's index to its number.
* `TableFollows`: `WillBe` is what the table will hold when the change under way is done.
  The last event of a node says what etcd has, and without one a node heard of is in
  `WillBe` if and only if it is Ready.

**Heartbeat.**

* `ReadyBacked`: `Backed` adds that a connection not yet made has no handler, so that
  `Dial` does not take a backing handler away. A handler leaves "loop" and "closing"
  only by writing NotReady, by failing to (`stranded`), or with the server, and a restart
  begins by writing NotReady; a Ready is made by a handler that is in "loop" then, or by
  one whose write was reported as failed (`stranded`); two handlers may back one Ready.
* `AlwaysOneAttempt`: a cubelet that runs is in exactly one of `Retries`, `Dials` and
  `Holds`, and `Dials` has to say that the dialing goroutine read the present `lostCnt`.
  `FirstToSee` says why `closeConn` starts no second retry: no open connection is ahead of
  `lostCnt`, and a goroutine whose connection has the present one finds it still open, so
  the first of reader and writer raises `lostCnt` and the second does nothing.

**ReplicaSets.**

* `SetsTyped`: `Shares` adds that an event that shares its Status with the cache finds an
  object there, `Working` that a job's object has a Status, and the cache's too if
  they share it. What a handler makes of the lists of a Status are lists of pods: for
  `Distinct`, a loop over the list that keeps or drops an element, that is shown at the
  least prefix for which it would fail (`LeastNat`, `LoopGoesOn`).
* `GhostsExplained`: a pod in `rmCache`, or about to be recorded there, is gone from etcd
  (`Removed`, `Recorded`) unless a PUT has written it again (`revived`), and not in the
  cache unless `raced`: an event passes the check of `rmCache` before the pod is recorded or
  not at all (`Passed`). A pod that is gone and still counted, and whose deletion does not
  go `Unheard`, has the message of it on its way or in hand (`Told`), and nothing after that
  message tells of a phase again (`ToldLast`), which would bring it back.
* `NilStatusExplained`: a user writes the object without a Status only where none is, and
  all others write one. `StreamFollows` says that what is without a Status in the stream
  comes after a deletion, or with the cache empty, and that the stream ends with what etcd
  has; so the informer makes a creation of it, and from there on `CreateUnderWay` says where
  the job that will give it one is: the event, its channel, the job, the answer in the
  stream.

**ActionBrain.**

* `BrainTyped`: `Typed` adds that calls are not counted before they are reported
  (`Counted`), and that a job that shares its Status with the cache has the cache's
  object, and only jobs with a Status create actors or end with a PUT (`Working`).
* `NilStatusCaused`: only POSTs write the action without a Status, the first one and those
  that had read none. The latter may come after a Status was written, which is `nilled`, or
  they change nothing about it. So what is told without a Status is told after something
  without one, or after nothing, the cache included (`Older`). The last that is told is the
  action; when all is heard, the cache is as the action is, or empty, and not empty when
  the action has no Status (`Ends`). With the states in which nothing is known or nobody
  listens (`Off`, `Unwatched`, `Unborn`) and the events the informers send (`ActorOut`),
  `Flow` and the property are inductive together.
* `DropsExplained`: a call that finds no actor to exist creates one if the Status it reads
  names none. `ActorsTold` says that whoever is cached exists or its end is still to be told
  of, after all else that is told of it; an actor of which that cannot be said any more has
  its removal in an informer's or the loop's hand (`Held`). `Agree` says that the cache has
  the action as etcd does, with nothing left to read, but for a job that will write what it
  has changed (`Reports`); a POST that puts back another Status than etcd has by then is
  `amiss`, and so is every write over one it was not made from. A cubelet only looks an
  actor up (`Reporting`); what the server writes of it (`Landing`) tells of an actor that
  exists. `Named` says of the Status that is going to be etcd's - the job's that ends with a
  PUT, the action's otherwise (`View`) - that its `toRun` exist and its `actors` are `Held`
  (`Sound`). It holds while that Status can be `Trusted`: nothing is amiss or unseen, the
  job is not stale, and no creation is to come after a deletion (`Reset`), which empties the
  Status. For the last, `Followed` says that a removal the brain is busy with leaves the
  cache empty or has such a creation after it, so a removal's job deletes no actor of a
  trusted Status. `RoutineJob` makes the routine's Status sound whatever was amiss before:
  it names what the informer has cached and what it creates itself, and it has the action
  cached, or the action's removal is in hand (`Cached`).

**Gateway.**

* `AnsweredClean` and `PromiseSafe`: `Clean` says that a call is in one place at most of
  the map, the consumer's hand and its channel, and in none when it is new or answered:
  the consumer takes it out of the map before it sends, and only what is in the map is
  taken. `Genuine` says that whatever is on the return topic, in hand or in a channel
  was replied to. Then each step of the gateway is one step of `Calls` or none;
  the fairness of `CallsSpec` is left to TLC, which checks all of `CallsKept`.
* `RoutesFollowed`: `LastSays` as above; an ingress with nothing queued is cached as it is
  stored (`CacheKnows`), and a cached one has its route or is in the event on its way to
  the router (`CacheRouted`), `unrouted` ones apart.

**CubeProxy.**

* `ProxyIsTyped`: `Holder` says what the holder of the lock has in hand at each step, as
  its event and copy become rules. Of the events, only a removed service is `Bare`.
* `ContainersFollow`: `DnsTold` follows the DNS object through informer and loop: a container
  or an event that will make one, of an object no longer cached, has the removal's event
  behind it. `ModifyDNS` takes down what `DNSMap` holds, so a container that runs must be
  in `dnsMap`; only docker's failures leave one that is not ("stray", `dnsFailed`).
* `RulesFollowed`: `SvcTold` does the same for the service: the newest event on its way, or
  or what the lock's holder makes rules of, is what the cache has, or differs from it in the
  order of its ports only (`Alike`, an equivalence, so that many changes without an event
  are one). Hence the rules are `MadeOf` the set of the destinations. For a pod that is not
  enough, as the pod loop changes the rules of what is cached now and `SelectPods` asks
  etcd. `PodsTold` says that each pod's last message tells its state (`Latest`), that it is
  cached or will be read whether a pod runs, of pods with their address and labels
  (`Steady`, `Known`), and that the cache has no address of a pod that never had one
  (`Fresh`). `RulesTold`: each pod the cached service selects is served as it should be, or
  gone, or `Due`: an event of it is on its way, or a message that will be one. A message
  will be one if it is of a `Steady` state and differs from the cache or from an earlier
  such message (`NewsIn`), and a change that is not in vain always leaves such a message.
* `HolderNeverStuck`: by `Holder` it is at a list, or has a copy to make rules of. At a list
  it waits for the informer's mutex, and in `ModifyPod` for a pod in the rule a failing
  deletion flushes: `RulesLead` says that only a deletion that failed leaves a rule without
  pods, and with it the lock.

**Jobs, ClusterIPs, ActionGraph.**

* `Forward`: a writer can only set the job back with an old copy. `SchedulerSound` says
  that the scheduler has at most one copy, waiting or in hand, that it chooses a node
  for, and that the job in etcd then still has none, so its PUT overwrites nothing.
  `NodeSound`: a cubelet is told of the job, and a container and an observer of it
  exist, only on the job's node, so there is one observer. `PhaseSound`: until that
  observer has its copy the phase is "created"; from then on it writes alone, and knows
  the phase in etcd or is ahead of it by one "running" whose PUT failed. A PUT that
  is written late may undo all of this but the types, so `JobsKept`, which is inductive,
  has `JobsInv` until then.
* `Differ`: `Marked` says that an address that a service has, or is about to write, is in
  the map while the server runs; `Apart`, that two services with a claim on one address
  are in `together`. Overlaps are recorded when a POST begins, before either could
  mark, so the step that matters is `Mark`.
* `Acyclic`: a cycle is a set of names each of which another of the set invokes. `Inv`
  says that the stored actions have no such set and, for each checked request, would
  have none after its write. A deletion keeps both (`Fewer`); a write makes the second
  the first, and without an overlap there is no other request to speak of; a check
  establishes it (`CheckSound`), for which names have to be distinct. A cyclic path then
  gives such a set at once, without induction.

**Only model-checked.**

* `LockHolderMoves`, which speaks of ENABLED. `HolderNeverStuck` proves what the holder's steps
  wait for; that nothing else keeps them from being enabled is TLC's part.
* The liveness properties, as fairness is out of the prover's reach: `BoundPodRuns`,
  `GoneCubeletNotReady`, `Converges`, `RemovalCleans`, `Settles`, `JobRuns`, and the
  liveness of `CallsKept`.

No module with theorems, nor any that it uses, declares a RECURSIVE operator.

## 6. Findings

Three things the report in `docs/` says of the system do not hold of the code.

1. *The cubelet handles the deletion of pods* (report, line 237). Without any
   fault: the status routine takes a copy of the pod, a user deletes it, the
   routine's PUT is answered 404 and `ForceRemove` drops the cache entry
   (`pkg/cubelet/cubelet.go:263`). The DELETE event arrives, finds no entry, and
   nothing is killed. Run `pod_deletion`.
2. *The master tracks the state of the workers by heartbeat* (line 108). The
   connection is cut, the cubelet reconnects and its new handler writes Ready; then
   the old handler notices and writes NotReady. The messages that follow equal the
   first one and write nothing. Run `heartbeat_ready`.
3. *A node that is silent for some time is taken for lost* (line 232).
   `checkHealth` closes a timed-out connection, the cubelet reconnects, and the
   entry it then deletes by UID is the new connection's. If the cubelet hangs
   before its next message, nobody times it out. Run `heartbeat_silent`.

## 7. What is not modelled

* Data races beyond those of `RoundRobin`: `ListPods` iterates the cache's map while
  the informer writes it; the Go runtime may stop the process, which `KillCubelet`
  covers at any moment.
* `StopAll`: typed watches are registered with it only when they failed
  (`pkg/apiserver/watchobj/pod.go:35`), so it closes nothing. Cubelets notice a lost
  API server by TCP, which is `LoseWatch`.
* The cubelet's actor half, whose informer, loop and routine repeat the pod half, and the
  scheduler's actor goroutine, which repeats its pod goroutine.
* `CubeProxy`: ports given by name, services without a selector, several services in one
  proxy (whose order in a pod's event is that of a Go map), and what nginx serves.
* `ActionBrain`: several actions. They meet in `biglock`, the channel of calls and the check of
  the call graph (`ActionGraph`) only.
* `UpdatePodStatus`, which nothing calls; phases and resource usage.
* The AutoScaler's informer, events, status and decisions; ReplicaSets whose selectors
  match the same pods, which count and kill each other's; slices shared by two copies of a
  status, which an append may overwrite.
* In `Jobs` the deletion of a job, its output and files; in `Gateway` parameters, bodies,
  and which action a route invokes.
* File transfer, command-line tools, weave, nginx, iptables, Kafka, ssh and the time
  series: input and output without control of their own.

## 8. Plan

In this order:

1. `AutoScaler` beside `ReplicaSets`: its informer, its ReplicaSet that is created again
   when it is removed, its status and decisions; two ReplicaSets on the same pods.
   Abstract specification `Replicas`: a target and a set of pods that moves towards it,
   which `ReplicaSets` implements where `Excused` does not hold.
2. Actors: `Binding` through scheduler and cubelet, composed with `ActionBrain`, whose
   `ActorRuns` stands for them. `Watching`: the watch library with cancel, close and
   `StopAll`.
3. `ActionBrain` with `Gateway`: the topic of calls as their interface.
4. An abstract specification of the pod's life (unbound, bound, running, gone) that
   `PodLifecycle` implements on the histories without exceptions, and one of a
   node's readiness for `Heartbeat`.

Theorems to come: the safety of the abstract specifications of 1 and 4, as `PromiseSafe`
proves that of `Calls`; and the steps that liveness rests on, such as that the routine of
`ActionBrain`, with nothing amiss, leaves the number of actors as desired. An induction over
naturals can be written with the least element of a non-empty set (`WFMin` with
`NatLessThanWellFounded`), which takes no operator as its parameter, as `ReplicaSets_proofs`
does.
