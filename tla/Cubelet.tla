------------------------------ MODULE Cubelet -------------------------------
(***************************************************************************)
(* The pod half of the cubelets: on each node a pod informer, the pod loop *)
(* (syncPodLoop) and the status routine (updatePodsRoutine), which share   *)
(* the informer's cache and exclude each other with bigLock, and the       *)
(* docker daemon they drive.                                               *)
(*                                                                         *)
(* docker[n][p] is what the daemon of n holds for p: its sandbox ("up",    *)
(* "down" = created or exited, "none") and its containers, up or down.     *)
(* The daemon is external; what is used of it is that names are unique, so *)
(* that creating an existing container fails, and that ListContainers,     *)
(* called without All, returns running containers only.                    *)
(*                                                                         *)
(* Docker calls that fail, lost connections and containers that stop by    *)
(* themselves draw on a budget of MaxFaults.  What a cubelet can repeat    *)
(* forever, its status routine and the PUTs of syncPodLoop, it does only   *)
(* while fewer than MaxBacklog events wait in any other client's stream,   *)
(* or the routine in its own: without that bound the streams grow forever. *)
(***************************************************************************)
EXTENDS PodStore

CONSTANT MaxBacklog

ASSUME BacklogAssumption == MaxBacklog \in Nat \ {0}

VARIABLES
    informer,  \* where tryListAndWatchPods is: "list", "open", "watch", "send"; "dead"
    podCache,
    podEvent,  \* the event the informer is sending on the unbuffered channel
    sync,      \* syncPodLoop: [pc : "idle", "lock", "push", "wait"] and its event
    bigLock,   \* the holder of bigLock: "free", "sync" or "routine"
    routine,   \* updatePodsRoutine: the copies of ListPods still to be pushed
    pushing,   \* ... and the pods whose push the API server has not answered
    docker,
    silent,    \* history: pods whose cache entry a list changed without an event
    evicted,   \* history: pods ForceRemove took from the cache
    failed,    \* history: pods of which a sync or a kill failed, or a container stopped,
               \* and no later sync found them without leftovers
    faults     \* faults so far

cubeletVars == <<informer, podCache, podEvent, sync, bigLock, routine, pushing,
                 docker, silent, evicted, failed, faults>>

NoEvent == [type |-> "none"]
PutEvent == [type : {"create", "update"}, pod : Pod, obj : PodObj]
PodEvent == PutEvent \cup [type : {"remove"}, pod : Pod, obj : {NoPod}]
Idle == [pc |-> "idle", ev |-> NoEvent]
NoCopies == [p \in Pod |-> NoPod]
Containers == [sandbox : {"none", "up", "down"}, up : SUBSET Container, down : SUBSET Container]
NoContainers == [sandbox |-> "none", up |-> {}, down |-> {}]
SyncState == {Idle} \cup [pc : {"lock"}, ev : PodEvent] \cup [pc : {"push", "wait"}, ev : PutEvent]

CubeletTypeOK ==
    /\ informer \in [Node -> {"list", "open", "watch", "send", "dead"}]
    /\ podCache \in [Node -> [Pod -> PodObj \cup {NoPod}]]
    /\ podEvent \in [Node -> PodEvent \cup {NoEvent}]
    /\ sync \in [Node -> SyncState]
    /\ bigLock \in [Node -> {"free", "sync", "routine"}]
    /\ routine \in [Node -> [Pod -> PodObj \cup {NoPod}]]
    /\ pushing \in [Node -> SUBSET Pod]
    /\ docker \in [Node -> [Pod -> Containers]]
    /\ silent \subseteq Node \X Pod
    /\ evicted \subseteq Node \X Pod
    /\ failed \subseteq Node \X Pod
    /\ faults \in 0..MaxFaults

CubeletInit ==
    /\ informer = [n \in Node |-> "list"]
    /\ podCache = [n \in Node |-> NoCopies]
    /\ podEvent = [n \in Node |-> NoEvent]
    /\ sync = [n \in Node |-> Idle]
    /\ bigLock = [n \in Node |-> "free"]
    /\ routine = [n \in Node |-> NoCopies]
    /\ pushing = [n \in Node |-> {}]
    /\ docker = [n \in Node |-> [p \in Pod |-> NoContainers]]
    /\ silent = {}
    /\ evicted = {}
    /\ failed = {}
    /\ faults = 0

Alive(n) == informer[n] # "dead"
Running(n, p) == docker[n][p].sandbox = "up" \/ docker[n][p].up # {}

KeepsUp(C) == \A c \in C : Len(stream[c]) < MaxBacklog

Fault == faults < MaxFaults /\ faults' = faults + 1

-----------------------------------------------------------------------------
(* The informer *)

MyPods(n) == {p \in Pod : store[p] # NoPod /\ store[p].node = n}

\* tryListAndWatchPods, first half: the pods of this node go to the cache and
\* nobody is informed; entries of pods that are gone stay.
ListMyPods(n) ==
    /\ informer[n] = "list"
    /\ ListPods(CubeletWatch(n), MyPods(n))
    /\ podCache' = [podCache EXCEPT ![n] =
                        [p \in Pod |-> IF p \in MyPods(n) THEN store[p] ELSE @[p]]]
    /\ silent' = silent \cup {<<n, p>> : p \in {q \in MyPods(n) :
                        podCache[n][q] = NoPod \/ podCache[n][q].spec # store[q].spec}}
    /\ evicted' = evicted \ ({n} \X MyPods(n))
    /\ informer' = [informer EXCEPT ![n] = "open"]
    /\ UNCHANGED <<podEvent, sync, bigLock, routine, pushing, docker, failed, faults>>

\* ... second half: WatchPods, some time after the list.
WatchMyPods(n) ==
    /\ informer[n] = "open"
    /\ OpenWatch(CubeletWatch(n))
    /\ informer' = [informer EXCEPT ![n] = "watch"]
    /\ UNCHANGED <<podCache, podEvent, sync, bigLock, routine, pushing, docker,
                   silent, evicted, failed, faults>>

\* informPod hands over an event, or finds nothing to tell.
Offer(n, type, p, o) ==
    /\ podEvent' = [podEvent EXCEPT ![n] = [type |-> type, pod |-> p, obj |-> o]]
    /\ informer' = [informer EXCEPT ![n] = "send"]
    /\ silent' = silent \ {<<n, p>>}
    /\ evicted' = evicted \ {<<n, p>>}

Quiet == UNCHANGED <<podEvent, informer, silent, evicted>>

\* Mutant: the spec comparison is forgotten.
SpecChangeNever(new, old) == FALSE

\* ComputeObjectMetaChange or ComputePodSpecChange.
SpecChange(new, old) == new.spec # old.spec

\* Mutants of InformDelete: nobody is told; the entry stays; the event carries the
\* watch's own event type, not the informer's.
InformDeleteSilent(n, p) == podCache' = [podCache EXCEPT ![n][p] = NoPod] /\ Quiet
InformDeleteKeeps(n, p) ==
    /\ IF podCache[n][p] # NoPod THEN Offer(n, "remove", p, NoPod) ELSE Quiet
    /\ UNCHANGED podCache
InformDeleteRaw(n, p) ==
    /\ podCache' = [podCache EXCEPT ![n][p] = NoPod]
    /\ IF podCache[n][p] # NoPod THEN Offer(n, "delete", p, NoPod) ELSE Quiet

InformDelete(n, p) ==
    /\ podCache' = [podCache EXCEPT ![n][p] = NoPod]
    /\ IF podCache[n][p] # NoPod THEN Offer(n, "remove", p, NoPod) ELSE Quiet

InformPut(n, p, o) ==
    /\ podCache' = [podCache EXCEPT ![n][p] = o]
    /\ \/ podCache[n][p] = NoPod /\ Offer(n, "create", p, o)
       \/ podCache[n][p] # NoPod /\ SpecChange(o, podCache[n][p]) /\ Offer(n, "update", p, o)
       \/ podCache[n][p] # NoPod /\ ~SpecChange(o, podCache[n][p]) /\ Quiet

\* Mutant: every pod is taken, as before the NodeUID of the status was compared.
ForMeAlways(n, o) == TRUE

\* The NodeUID of the status is this node's.
ForMe(n, o) == o.node = n

\* One turn of the watch loop: DELETE of any pod, PUT of a pod of this node;
\* a PUT of another node's pod is dropped, whatever the cache holds.
WatchTurn(n) ==
    /\ informer[n] = "watch"
    /\ TakeEvent(CubeletWatch(n))
    /\ LET e == Head(stream[CubeletWatch(n)]) IN
       \/ e.obj = NoPod /\ InformDelete(n, e.pod)
       \/ e.obj # NoPod /\ ForMe(n, e.obj) /\ InformPut(n, e.pod, e.obj)
       \/ e.obj # NoPod /\ ~ForMe(n, e.obj) /\ Quiet /\ UNCHANGED podCache
    /\ UNCHANGED <<sync, bigLock, routine, pushing, docker, failed, faults>>

\* The watch channel is closed: back to the list after ten seconds.
WatchClosed(n) ==
    /\ informer[n] = "watch"
    /\ CubeletWatch(n) \notin watching
    /\ informer' = [informer EXCEPT ![n] = "list"]
    /\ UNCHANGED <<podCache, podEvent, sync, bigLock, routine, pushing, docker,
                   silent, evicted, failed, faults, storeVars>>

LoseWatch(n) ==
    /\ CubeletWatch(n) \in watching
    /\ Fault
    /\ CloseWatch(CubeletWatch(n))
    /\ UNCHANGED <<informer, podCache, podEvent, sync, bigLock, routine, pushing, docker,
                   silent, evicted, failed>>

-----------------------------------------------------------------------------
(* The docker daemon and the pod runtime *)

\* KillPod, killPodByStatus: what ListContainers shows is stopped and removed,
\* so a sandbox or a container that is down stays, with its name.
Killed(d) == [sandbox |-> IF d.sandbox = "up" THEN "none" ELSE d.sandbox,
              up |-> {}, down |-> d.down]

\* ... when docker fails at some of it.  Only the sandbox's errors are returned.
KillFaults(d) ==
    {k \in [sandbox : IF d.sandbox = "up" THEN {"none", "up", "down"} ELSE {d.sandbox},
            up : SUBSET d.up,
            down : {d.down \cup w : w \in SUBSET d.up}] : k.up \cap k.down = {}}

KillOk(d, k) == d.sandbox # "up" \/ k.sandbox = "none"

\* SyncPod after the kill.  computePodActions always asks for a new sandbox, as
\* toSandboxStatus leaves the IP empty.  Creating what exists by name fails, and
\* the containers after it are not started.
Clash(k, spec) == ContainersOf[spec] \cap (k.up \cup k.down)

Started(k, spec) ==
    IF k.sandbox # "none" THEN {k}
    ELSE IF Clash(k, spec) = {}
         THEN {[k EXCEPT !.sandbox = "up", !.up = @ \cup ContainersOf[spec]]}
         ELSE {[k EXCEPT !.sandbox = "up", !.up = @ \cup c] :
                    c \in SUBSET (ContainersOf[spec] \ Clash(k, spec))}

StartFaults(k, spec) ==
    IF k.sandbox # "none" THEN {k}
    ELSE {[k EXCEPT !.sandbox = s] : s \in {"none", "down", "up"}} \cup
         {[k EXCEPT !.sandbox = "up", !.up = @ \cup c] :
                c \in SUBSET (ContainersOf[spec] \ Clash(k, spec))}

StartOk(k, spec) == k.sandbox = "none" /\ Clash(k, spec) = {}

\* A container has stopped by itself, or the sandbox and with it all of them.
Stopped(d) ==
    {[sandbox |-> d.sandbox, up |-> d.up \ {c}, down |-> d.down \cup {c}] : c \in d.up} \cup
    {[sandbox |-> "down", up |-> {}, down |-> d.up \cup d.down] : s \in {d.sandbox} \cap {"up"}}

DockerStop(n, p) ==
    /\ Fault
    /\ \E d \in Stopped(docker[n][p]) : docker' = [docker EXCEPT ![n][p] = d]
    /\ failed' = failed \cup {<<n, p>>}
    /\ UNCHANGED <<informer, podCache, podEvent, sync, bigLock, routine, pushing,
                   silent, evicted, storeVars>>

-----------------------------------------------------------------------------
(* syncPodLoop *)

Receive(n) ==
    /\ informer[n] = "send"
    /\ sync[n].pc = "idle"
    /\ sync' = [sync EXCEPT ![n] = [pc |-> "lock", ev |-> podEvent[n]]]
    /\ podEvent' = [podEvent EXCEPT ![n] = NoEvent]
    /\ informer' = [informer EXCEPT ![n] = "watch"]
    /\ UNCHANGED <<podCache, bigLock, routine, pushing, docker, silent, evicted, failed,
                   faults, storeVars>>

\* The docker part of a handler leaves d behind; it reports to the API server
\* next if push, and is done otherwise.
SyncLeaves(n, d, push, ok) ==
    LET p == sync[n].ev.pod IN
    /\ docker' = [docker EXCEPT ![n][p] = d]
    /\ failed' = IF ok THEN failed \ {<<n, p>>} ELSE failed \cup {<<n, p>>}
    /\ IF push THEN /\ sync' = [sync EXCEPT ![n].pc = "push"]
                    /\ bigLock' = [bigLock EXCEPT ![n] = "sync"]
               ELSE /\ sync' = [sync EXCEPT ![n] = Idle]
                    /\ UNCHANGED bigLock

\* What the kill leaves: an Update starts by killing the pod, a Create finds an
\* empty status and kills nothing.
Clearings(n, ev) ==
    IF ev.type = "create" THEN {docker[n][ev.pod]} ELSE {Killed(docker[n][ev.pod])}

SyncWork(n) ==
    /\ sync[n].pc = "lock"
    /\ bigLock[n] = "free"
    /\ UNCHANGED faults
    /\ \E k \in Clearings(n, sync[n].ev) :
        \/ sync[n].ev.type = "remove" /\ SyncLeaves(n, k, FALSE, TRUE)
        \/ /\ sync[n].ev.type # "remove"
           /\ \E d \in Started(k, sync[n].ev.obj.spec) :
                LET ok == StartOk(k, sync[n].ev.obj.spec)
                IN  SyncLeaves(n, d, ok, ok /\ k.up = {})
    /\ UNCHANGED <<informer, podCache, podEvent, routine, pushing, silent, evicted, storeVars>>

\* ... when docker fails somewhere: the kill, the sandbox, its IP, a container,
\* or the inspection at the end.
SyncWorkFails(n) ==
    /\ sync[n].pc = "lock"
    /\ bigLock[n] = "free"
    /\ Fault
    /\ \/ \E k \in KillFaults(docker[n][sync[n].ev.pod]) :
             IF sync[n].ev.type = "update" /\ KillOk(docker[n][sync[n].ev.pod], k)
             THEN \E d \in Started(k, sync[n].ev.obj.spec) : SyncLeaves(n, d, FALSE, FALSE)
             ELSE sync[n].ev.type # "create" /\ SyncLeaves(n, k, FALSE, FALSE)
       \/ /\ sync[n].ev.type # "remove"
          /\ \E k \in Clearings(n, sync[n].ev) :
               \E d \in StartFaults(k, sync[n].ev.obj.spec) : SyncLeaves(n, d, FALSE, FALSE)
    /\ UNCHANGED <<informer, podCache, podEvent, routine, pushing, silent, evicted, storeVars>>

\* Mutant: syncPodLoop ends its turn without unlocking.
SyncUnlockForgets(n) ==
    /\ sync' = [sync EXCEPT ![n] = Idle]
    /\ UNCHANGED <<informer, podCache, podEvent, bigLock, routine, pushing, docker, silent,
                   evicted, failed>>

SyncUnlock(n) ==
    /\ sync' = [sync EXCEPT ![n] = Idle]
    /\ bigLock' = [bigLock EXCEPT ![n] = "free"]
    /\ UNCHANGED <<informer, podCache, podEvent, routine, pushing, docker, silent, evicted,
                   failed>>

\* The UpdatePod at the end of SyncPod: the object of the event, with an IP.
SyncPush(n) ==
    LET p == sync[n].ev.pod IN
    /\ sync[n].pc = "push"
    /\ KeepsUp(Client \ {CubeletWatch(n)})
    /\ UNCHANGED faults
    /\ \/ /\ PutPodFound(SyncOf(n), p, [sync[n].ev.obj EXCEPT !.ip = TRUE])
          /\ sync' = [sync EXCEPT ![n].pc = "wait"]
          /\ UNCHANGED <<informer, podCache, podEvent, bigLock, routine, pushing, docker,
                         silent, evicted, failed>>
       \/ PutPodNotFound(SyncOf(n), p) /\ SyncUnlock(n)

SyncPushed(n) ==
    /\ sync[n].pc = "wait"
    /\ request[SyncOf(n)] = NoReq
    /\ SyncUnlock(n)
    /\ UNCHANGED <<faults, storeVars>>

\* The connection fails before or after the request got through.
SyncPushFails(n) ==
    /\ sync[n].pc \in {"push", "wait"}
    /\ Fault
    /\ SyncUnlock(n)
    /\ UNCHANGED storeVars

-----------------------------------------------------------------------------
(* updatePodsRoutine *)

\* Every seven seconds, while the heartbeat has a connection: copies of the
\* cached pods that have an IP, one goroutine each.
RoutineStart(n) ==
    LET withIP == {p \in Pod : podCache[n][p] # NoPod /\ podCache[n][p].ip} IN
    /\ Alive(n)
    /\ bigLock[n] = "free"
    /\ withIP # {}
    /\ KeepsUp(Client)
    /\ bigLock' = [bigLock EXCEPT ![n] = "routine"]
    /\ routine' = [routine EXCEPT ![n] = [p \in Pod |-> IF p \in withIP THEN podCache[n][p]
                                                                       ELSE NoPod]]
    /\ UNCHANGED <<informer, podCache, podEvent, sync, pushing, docker, silent, evicted,
                   failed, faults, storeVars>>

RoutineLeft(n, p) ==
    /\ routine' = [routine EXCEPT ![n][p] = NoPod]
    /\ pushing' = [pushing EXCEPT ![n] = @ \ {p}]
    /\ UNCHANGED <<informer, podEvent, sync, bigLock, docker, silent, failed>>

ForceRemove(n, p) ==
    /\ podCache' = [podCache EXCEPT ![n][p] = NoPod]
    /\ evicted' = IF podCache[n][p] = NoPod THEN evicted ELSE evicted \cup {<<n, p>>}

\* One goroutine: InspectPod finds the sandbox, then the copy, with its new
\* status, goes to the API server; any error takes the pod out of the cache.
RoutinePush(n, p) ==
    /\ routine[n][p] # NoPod
    /\ p \notin pushing[n]
    /\ docker[n][p].sandbox = "up"
    /\ UNCHANGED faults
    /\ \/ /\ PutPodFound(PushOf(n, p), p, routine[n][p])
          /\ pushing' = [pushing EXCEPT ![n] = @ \cup {p}]
          /\ UNCHANGED <<informer, podCache, podEvent, sync, bigLock, routine, docker,
                         silent, evicted, failed>>
       \/ PutPodNotFound(PushOf(n, p), p) /\ RoutineLeft(n, p) /\ ForceRemove(n, p)

RoutinePushed(n, p) ==
    /\ p \in pushing[n]
    /\ request[PushOf(n, p)] = NoReq
    /\ RoutineLeft(n, p)
    /\ UNCHANGED <<podCache, evicted, faults, storeVars>>

\* The PUT fails, or the answer is lost.
RoutinePushFails(n, p) ==
    /\ routine[n][p] # NoPod
    /\ docker[n][p].sandbox = "up"
    /\ Fault
    /\ RoutineLeft(n, p)
    /\ ForceRemove(n, p)
    /\ \/ UNCHANGED storeVars
       \/ p \in pushing[n] /\ DropPut(PushOf(n, p))

RoutineEnd(n) ==
    /\ bigLock[n] = "routine"
    /\ routine[n] = NoCopies
    /\ bigLock' = [bigLock EXCEPT ![n] = "free"]
    /\ UNCHANGED <<informer, podCache, podEvent, sync, routine, pushing, docker, silent,
                   evicted, failed, faults, storeVars>>

\* The process ends; the containers stay.  PUTs under way stay with the server.
Dies(n) ==
    /\ informer' = [informer EXCEPT ![n] = "dead"]
    /\ podCache' = [podCache EXCEPT ![n] = NoCopies]
    /\ podEvent' = [podEvent EXCEPT ![n] = NoEvent]
    /\ sync' = [sync EXCEPT ![n] = Idle]
    /\ bigLock' = [bigLock EXCEPT ![n] = "free"]
    /\ routine' = [routine EXCEPT ![n] = NoCopies]
    /\ pushing' = [pushing EXCEPT ![n] = {}]
    /\ failed' = failed \cup {<<n, ev.pod>> : ev \in {podEvent[n], sync[n].ev} \ {NoEvent}}
    /\ CloseWatch(CubeletWatch(n))
    /\ UNCHANGED <<docker, silent, evicted>>

\* A goroutine of the routine whose InspectPod finds no sandbox replaces the
\* status by one without ActualResourceUsage and dereferences that field.
RoutinePanics(n, p) ==
    /\ routine[n][p] # NoPod
    /\ p \notin pushing[n]
    /\ docker[n][p].sandbox # "up"
    /\ Dies(n)
    /\ UNCHANGED faults

\* Also what a docker error does in the routine's InspectPod (the same dereference)
\* and in the GetPodStatus of an update (SyncPod dereferences the nil status).
KillCubelet(n) ==
    /\ Alive(n)
    /\ Fault
    /\ Dies(n)

RestartCubelet(n) ==
    /\ ~Alive(n)
    /\ informer' = [informer EXCEPT ![n] = "list"]
    /\ UNCHANGED <<podCache, podEvent, sync, bigLock, routine, pushing, docker, silent,
                   evicted, failed, faults, storeVars>>

CubeletStep(n) ==
    \/ ListMyPods(n) \/ WatchMyPods(n) \/ WatchTurn(n) \/ WatchClosed(n)
    \/ Receive(n) \/ SyncWork(n) \/ SyncPush(n) \/ SyncPushed(n)
    \/ RoutineStart(n) \/ RoutineEnd(n)
    \/ \E p \in Pod : RoutinePush(n, p) \/ RoutinePushed(n, p) \/ RoutinePanics(n, p)

CubeletFault(n) ==
    \/ LoseWatch(n) \/ SyncWorkFails(n) \/ SyncPushFails(n) \/ KillCubelet(n)
    \/ RestartCubelet(n)
    \/ \E p \in Pod : DockerStop(n, p) \/ RoutinePushFails(n, p)
=============================================================================
