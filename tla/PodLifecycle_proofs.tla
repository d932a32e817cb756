------------------------ MODULE PodLifecycle_proofs -------------------------
(***************************************************************************)
(* The types of the pod lifecycle, the bindings of pods to nodes, and how  *)
(* the informers' caches agree with etcd and docker with the caches, for   *)
(* every set of pods, nodes and specifications and all bounds.             *)
(***************************************************************************)
EXTENDS PodLifecycle, TLAPS

-----------------------------------------------------------------------------
(* The store *)

\* What a store action leaves alone keeps its type; what it writes has one.
LEMMA NotifyType ==
    ASSUME StoreTypeOK, NEW p \in Pod, NEW o \in PodObj \cup {NoPod}, Notify(p, o)
    PROVE  stream' \in [Client -> Seq(Event)] /\ missed' \subseteq Client \X Pod
<1>1. [pod |-> p, obj |-> o] \in Event
    BY DEF Event
<1>2. \A c \in Client : Append(stream[c], [pod |-> p, obj |-> o]) \in Seq(Event)
    BY <1>1 DEF StoreTypeOK
<1>3. stream' \in [Client -> Seq(Event)]
    BY <1>2 DEF Notify, StoreTypeOK
<1>4. QED
    BY <1>3 DEF Notify, StoreTypeOK

LEMMA PutObjType ==
    ASSUME StoreTypeOK, NEW p \in Pod, NEW o \in PodObj, PutObj(p, o)
    PROVE  /\ store' \in [Pod -> PodObj \cup {NoPod}]
           /\ stream' \in [Client -> Seq(Event)]
           /\ boundTo' \subseteq Pod \X Node
           /\ moved' \subseteq Pod
           /\ missed' \subseteq Client \X Pod
<1>1. stream' \in [Client -> Seq(Event)] /\ missed' \subseteq Client \X Pod
    BY NotifyType DEF PutObj
<1>2. store' \in [Pod -> PodObj \cup {NoPod}] /\ moved' \subseteq Pod
    BY DEF PutObj, StoreTypeOK
<1>3. boundTo' \subseteq Pod \X Node
    BY DEF PutObj, StoreTypeOK, PodObj
<1>4. QED
    BY <1>1, <1>2, <1>3

LEMMA PostPodType ==
    ASSUME StoreTypeOK, NEW p \in Pod, NEW o \in PodObj, PostPod(p, o) PROVE StoreTypeOK'
    BY PutObjType DEF PostPod, StoreTypeOK

LEMMA DelPodType ==
    ASSUME StoreTypeOK, NEW p \in Pod, DelPod(p) PROVE StoreTypeOK'
<1>1. stream' \in [Client -> Seq(Event)] /\ missed' \subseteq Client \X Pod
    BY NotifyType DEF DelPod
<1>2. QED
    BY <1>1 DEF DelPod, StoreTypeOK

LEMMA PutPodFoundType ==
    ASSUME StoreTypeOK, NEW r \in Requester, NEW p \in Pod, NEW o \in PodObj, PutPodFound(r, p, o)
    PROVE  StoreTypeOK'
<1>1. [pod |-> p, obj |-> o] \in Put
    BY DEF Put
<1>2. QED
    BY <1>1 DEF PutPodFound, StoreTypeOK

LEMMA PutPodCommitType ==
    ASSUME StoreTypeOK, NEW r \in Requester, PutPodCommit(r) PROVE StoreTypeOK'
<1>1. request[r].pod \in Pod /\ request[r].obj \in PodObj
    BY DEF PutPodCommit, StoreTypeOK, Put
<1>2. QED
    BY <1>1, PutObjType DEF PutPodCommit, StoreTypeOK

LEMMA DropPutType ==
    ASSUME StoreTypeOK, NEW r \in Requester, DropPut(r) PROVE StoreTypeOK'
    BY DEF DropPut, StoreTypeOK

LEMMA AbandonPutType ==
    ASSUME StoreTypeOK, NEW r \in Requester, NEW late, AbandonPut(r, late)
    PROVE  /\ store' \in [Pod -> PodObj \cup {NoPod}]
           /\ request' \in [Requester -> Put \cup {NoReq}]
           /\ boundTo' \subseteq Pod \X Node
           /\ moved' \subseteq Pod
    BY DEF AbandonPut, StoreTypeOK

\* What is lost with the connection of a client.
LEMMA LostStreamType ==
    ASSUME StoreTypeOK, NEW c \in Client
    PROVE  {<<c, stream[c][i].pod>> : i \in DOMAIN stream[c]} \subseteq Client \X Pod
<1>1. \A i \in DOMAIN stream[c] : stream[c][i] \in Event
    BY DEF StoreTypeOK
<1>2. QED
    BY <1>1 DEF Event

LEMMA StreamType ==
    ASSUME StoreTypeOK, NEW c \in Client
    PROVE  /\ OpenWatch(c) => StoreTypeOK'
           /\ TakeEvent(c) => StoreTypeOK' /\ Head(stream[c]) \in Event
           /\ CloseWatch(c) => StoreTypeOK'
           /\ \A known \in SUBSET Pod : ListPods(c, known) => StoreTypeOK'
<1>1. OpenWatch(c) => StoreTypeOK'
    BY DEF OpenWatch, StoreTypeOK
<1>2. TakeEvent(c) => StoreTypeOK' /\ Head(stream[c]) \in Event
    BY DEF TakeEvent, StoreTypeOK
<1>3. ASSUME CloseWatch(c) PROVE StoreTypeOK'
  <2>1. {<<c, stream[c][i].pod>> : i \in DOMAIN stream[c]} \subseteq Client \X Pod
    BY LostStreamType
  <2>2. missed' \subseteq Client \X Pod
    BY <1>3, <2>1 DEF CloseWatch, StoreTypeOK
  <2>3. QED
    BY <1>3, <2>2 DEF CloseWatch, StoreTypeOK
<1>4. \A known \in SUBSET Pod : ListPods(c, known) => StoreTypeOK'
    BY DEF ListPods, StoreTypeOK
<1>5. QED
    BY <1>1, <1>2, <1>3, <1>4
-----------------------------------------------------------------------------
(* The cubelets *)

\* The pod informer of n.
LEMMA InformerType ==
    ASSUME StoreTypeOK, CubeletTypeOK, NEW n \in Node,
           ListMyPods(n) \/ WatchMyPods(n) \/ WatchTurn(n) \/ WatchClosed(n) \/ LoseWatch(n)
    PROVE  StoreTypeOK' /\ CubeletTypeOK'
<1> USE DEF CubeletTypeOK
<1>0. CubeletWatch(n) \in Client
    BY DEF Client
<1>1. CASE ListMyPods(n)
  <2>1. MyPods(n) \in SUBSET Pod /\ \A p \in MyPods(n) : store[p] \in PodObj
    BY DEF MyPods, StoreTypeOK
  <2>2. StoreTypeOK'
    BY <1>0, <1>1, <2>1, StreamType DEF ListMyPods
  <2>3. podCache' \in [Node -> [Pod -> PodObj \cup {NoPod}]]
    BY <1>1, <2>1 DEF ListMyPods
  <2>4. silent' \subseteq Node \X Pod /\ evicted' \subseteq Node \X Pod
    BY <1>1, <2>1 DEF ListMyPods
  <2>5. QED
    BY <1>1, <2>2, <2>3, <2>4 DEF ListMyPods
<1>2. CASE WatchMyPods(n)
    BY <1>0, <1>2, StreamType DEF WatchMyPods
<1>3. CASE WatchTurn(n)
  <2> DEFINE e == Head(stream[CubeletWatch(n)])
  <2>1. StoreTypeOK' /\ e \in Event
    BY <1>0, <1>3, StreamType DEF WatchTurn
  <2>2. e.pod \in Pod /\ e.obj \in PodObj \cup {NoPod}
    BY <2>1 DEF Event
  <2>3. ASSUME NEW type, NEW o, [type |-> type, pod |-> e.pod, obj |-> o] \in PodEvent,
               Offer(n, type, e.pod, o)
        PROVE  /\ podEvent' \in [Node -> PodEvent \cup {NoEvent}]
               /\ informer' \in [Node -> {"list", "open", "watch", "send", "dead"}]
               /\ silent' \subseteq Node \X Pod
               /\ evicted' \subseteq Node \X Pod
    BY <2>3 DEF Offer
  <2>4. ASSUME InformDelete(n, e.pod)
        PROVE  /\ podCache' \in [Node -> [Pod -> PodObj \cup {NoPod}]]
               /\ podEvent' \in [Node -> PodEvent \cup {NoEvent}]
               /\ informer' \in [Node -> {"list", "open", "watch", "send", "dead"}]
               /\ silent' \subseteq Node \X Pod
               /\ evicted' \subseteq Node \X Pod
    <3>1. [type |-> "remove", pod |-> e.pod, obj |-> NoPod] \in PodEvent
        BY <2>2 DEF PodEvent
    <3>2. podCache' \in [Node -> [Pod -> PodObj \cup {NoPod}]]
        BY <2>2, <2>4 DEF InformDelete
    <3>3. QED
        BY <2>3, <2>4, <3>1, <3>2 DEF InformDelete, Quiet
  <2>5. ASSUME e.obj \in PodObj, InformPut(n, e.pod, e.obj)
        PROVE  /\ podCache' \in [Node -> [Pod -> PodObj \cup {NoPod}]]
               /\ podEvent' \in [Node -> PodEvent \cup {NoEvent}]
               /\ informer' \in [Node -> {"list", "open", "watch", "send", "dead"}]
               /\ silent' \subseteq Node \X Pod
               /\ evicted' \subseteq Node \X Pod
    <3>1. \A type \in {"create", "update"} :
            [type |-> type, pod |-> e.pod, obj |-> e.obj] \in PodEvent
        BY <2>2, <2>5 DEF PodEvent, PutEvent
    <3>2. podCache' \in [Node -> [Pod -> PodObj \cup {NoPod}]]
        BY <2>2, <2>5 DEF InformPut
    <3>3. QED
        BY <2>3, <2>5, <3>1, <3>2 DEF InformPut, Quiet
  <2>6. /\ podCache' \in [Node -> [Pod -> PodObj \cup {NoPod}]]
        /\ podEvent' \in [Node -> PodEvent \cup {NoEvent}]
        /\ informer' \in [Node -> {"list", "open", "watch", "send", "dead"}]
        /\ silent' \subseteq Node \X Pod
        /\ evicted' \subseteq Node \X Pod
    <3> HIDE DEF e
    <3>1. \/ InformDelete(n, e.pod)
          \/ e.obj # NoPod /\ InformPut(n, e.pod, e.obj)
          \/ Quiet /\ UNCHANGED podCache
        BY <1>3 DEF WatchTurn, e
    <3>2. QED
        BY <2>2, <2>4, <2>5, <3>1 DEF Quiet
  <2>7. QED
    BY <1>3, <2>1, <2>6 DEF WatchTurn
<1>4. CASE WatchClosed(n)
    BY <1>4 DEF WatchClosed, storeVars, StoreTypeOK
<1>5. CASE LoseWatch(n)
    BY <1>0, <1>5, StreamType, FaultsAssumption DEF LoseWatch, Fault
<1>6. QED
    BY <1>1, <1>2, <1>3, <1>4, <1>5

\* What a kill, complete or not, leaves of the containers of a pod.
LEMMA KillType ==
    ASSUME NEW d \in Containers
    PROVE  Killed(d) \in Containers /\ KillFaults(d) \subseteq Containers
<1>1. d.sandbox \in {"none", "up", "down"} /\ d.up \subseteq Container /\ d.down \subseteq Container
    BY DEF Containers
<1>2. Killed(d) \in Containers
    BY <1>1 DEF Killed, Containers
<1>3. ASSUME NEW k \in KillFaults(d) PROVE k \in Containers
  <2>1. k \in [sandbox : IF d.sandbox = "up" THEN {"none", "up", "down"} ELSE {d.sandbox},
                   up : SUBSET d.up, down : {d.down \cup w : w \in SUBSET d.up}]
    BY <1>3 DEF KillFaults
  <2>2. k.sandbox \in {"none", "up", "down"} /\ k.up \subseteq Container /\ k.down \subseteq Container
    BY <1>1, <2>1
  <2>3. QED
    BY <2>1, <2>2 DEF Containers
<1>4. QED
    BY <1>2, <1>3

\* What a start, complete or not, leaves of them.
LEMMA StartType ==
    ASSUME NEW d \in Containers, NEW spec \in PodSpec
    PROVE  /\ Started(d, spec) \subseteq Containers
           /\ StartFaults(d, spec) \subseteq Containers
<1>1. ContainersOf[spec] \subseteq Container
    BY SpecAssumption
<1>2. d.sandbox \in {"none", "up", "down"} /\ d.up \subseteq Container /\ d.down \subseteq Container
    BY DEF Containers
<1>3. \A c \in SUBSET ContainersOf[spec] : [d EXCEPT !.sandbox = "up", !.up = @ \cup c] \in Containers
    BY <1>1, <1>2 DEF Containers
<1>4. Started(d, spec) \subseteq Containers
    BY <1>3 DEF Started
<1>5. \A s \in {"none", "down", "up"} : [d EXCEPT !.sandbox = s] \in Containers
    BY DEF Containers
<1>6. StartFaults(d, spec) \subseteq Containers
    BY <1>3, <1>5 DEF StartFaults
<1>7. QED
    BY <1>4, <1>6

LEMMA StopType ==
    ASSUME NEW d \in Containers, NEW k \in Stopped(d) PROVE k \in Containers
<1>1. d.up \subseteq Container /\ d.down \subseteq Container
    BY DEF Containers
<1>2. CASE k = [sandbox |-> "down", up |-> {}, down |-> d.up \cup d.down]
    BY <1>1, <1>2 DEF Containers
<1>3. CASE \E c \in d.up :
              k = [sandbox |-> d.sandbox, up |-> d.up \ {c}, down |-> d.down \cup {c}]
    BY <1>1, <1>3 DEF Containers
<1>4. QED
    BY <1>2, <1>3 DEF Stopped

\* The end of a handler's docker part, which passes on to the PUT or to idle.
LEMMA SyncLeavesType ==
    ASSUME CubeletTypeOK, NEW n \in Node, NEW d \in Containers, NEW push, NEW ok,
           sync[n].pc = "lock", push => sync[n].ev.type # "remove", SyncLeaves(n, d, push, ok)
    PROVE  /\ docker' \in [Node -> [Pod -> Containers]]
           /\ failed' \subseteq Node \X Pod
           /\ sync' \in [Node -> SyncState]
           /\ bigLock' \in [Node -> {"free", "sync", "routine"}]
<1>1. sync[n] \in SyncState
    BY DEF CubeletTypeOK
<1>2. sync[n] \in [pc : {"lock"}, ev : PodEvent]
    BY <1>1 DEF SyncState, Idle
<1>3. sync[n].ev.pod \in Pod
    BY <1>2 DEF PodEvent, PutEvent
<1>4. docker' \in [Node -> [Pod -> Containers]] /\ failed' \subseteq Node \X Pod
    BY <1>3 DEF SyncLeaves, CubeletTypeOK
<1>5. CASE push
  <2>1. sync[n].ev \in PutEvent
    BY <1>2, <1>5 DEF PodEvent
  <2>2. [sync[n] EXCEPT !.pc = "push"] \in SyncState
    BY <1>2, <2>1 DEF SyncState
  <2>3. QED
    BY <1>4, <1>5, <2>2 DEF SyncLeaves, CubeletTypeOK
<1>6. CASE ~push
    BY <1>4, <1>6 DEF SyncLeaves, CubeletTypeOK, SyncState
<1>7. QED
    BY <1>5, <1>6

\* syncPodLoop of n, and the containers that stop by themselves.
LEMMA SyncType ==
    ASSUME StoreTypeOK, CubeletTypeOK, NEW n \in Node, informer[n] = "send" => podEvent[n] # NoEvent,
           \/ Receive(n) \/ SyncWork(n) \/ SyncWorkFails(n) \/ SyncPush(n) \/ SyncPushed(n)
           \/ SyncPushFails(n) \/ \E p \in Pod : DockerStop(n, p)
    PROVE  StoreTypeOK' /\ CubeletTypeOK'
<1>1. CASE Receive(n)
  <2>1. podEvent[n] \in PodEvent
    BY <1>1 DEF Receive, CubeletTypeOK
  <2>2. [pc |-> "lock", ev |-> podEvent[n]] \in SyncState
    BY <2>1 DEF SyncState
  <2>3. QED
    BY <1>1, <2>2 DEF Receive, CubeletTypeOK, StoreTypeOK, storeVars
<1>2. ASSUME sync[n].pc = "lock"
      PROVE  /\ sync[n].ev \in PodEvent
             /\ sync[n].ev.type # "remove" => sync[n].ev.obj.spec \in PodSpec
             /\ docker[n][sync[n].ev.pod] \in Containers
             /\ Clearings(n, sync[n].ev) \subseteq Containers
  <2>1. sync[n] \in SyncState
    BY DEF CubeletTypeOK
  <2>2. sync[n].ev \in PodEvent
    BY <1>2, <2>1 DEF SyncState, Idle
  <2>3. sync[n].ev.type # "remove" => sync[n].ev.obj.spec \in PodSpec
    BY <2>2 DEF PodEvent, PutEvent, PodObj
  <2>4. docker[n][sync[n].ev.pod] \in Containers
    BY <2>2 DEF CubeletTypeOK, PodEvent, PutEvent
  <2>5. Killed(docker[n][sync[n].ev.pod]) \in Containers
    BY <2>4, KillType
  <2>6. QED
    BY <2>2, <2>3, <2>4, <2>5 DEF Clearings
<1>3. ASSUME NEW d \in Containers, NEW push, NEW ok,
             sync[n].pc = "lock", push => sync[n].ev.type # "remove", SyncLeaves(n, d, push, ok),
             UNCHANGED <<informer, podCache, podEvent, routine, pushing, silent, evicted, storeVars>>,
             faults' \in 0..MaxFaults
      PROVE  StoreTypeOK' /\ CubeletTypeOK'
    BY <1>3, SyncLeavesType DEF CubeletTypeOK, StoreTypeOK, storeVars
<1>4. CASE SyncWork(n)
  <2>1. sync[n].pc = "lock" /\ faults' \in 0..MaxFaults
    BY <1>4 DEF SyncWork, CubeletTypeOK
  <2>2. PICK k \in Clearings(n, sync[n].ev) :
            \/ sync[n].ev.type = "remove" /\ SyncLeaves(n, k, FALSE, TRUE)
            \/ /\ sync[n].ev.type # "remove"
               /\ \E d \in Started(k, sync[n].ev.obj.spec) :
                    LET ok == StartOk(k, sync[n].ev.obj.spec)
                    IN  SyncLeaves(n, d, ok, ok /\ k.up = {})
    BY <1>4 DEF SyncWork
  <2>3. k \in Containers
    BY <1>2, <2>1
  <2>4. CASE sync[n].ev.type = "remove" /\ SyncLeaves(n, k, FALSE, TRUE)
    BY <1>3, <1>4, <2>1, <2>3, <2>4 DEF SyncWork
  <2>5. CASE sync[n].ev.type # "remove"
    <3>1. Started(k, sync[n].ev.obj.spec) \subseteq Containers
        BY <1>2, <2>1, <2>3, <2>5, StartType
    <3> DEFINE ok == StartOk(k, sync[n].ev.obj.spec)
    <3>2. PICK d \in Started(k, sync[n].ev.obj.spec) : SyncLeaves(n, d, ok, ok /\ k.up = {})
        BY <2>2, <2>5
    <3> HIDE DEF ok
    <3>3. QED
        BY <1>3, <1>4, <2>1, <2>5, <3>1, <3>2 DEF SyncWork
  <2>6. QED
    BY <2>2, <2>4, <2>5
<1>5. CASE SyncWorkFails(n)
  <2>1. sync[n].pc = "lock" /\ faults' \in 0..MaxFaults
    BY <1>5, FaultsAssumption DEF SyncWorkFails, CubeletTypeOK, Fault
  <2>2. PICK d \in Containers : SyncLeaves(n, d, FALSE, FALSE)
    <3> DEFINE p == sync[n].ev.pod
               spec == sync[n].ev.obj.spec
    <3>1. ASSUME NEW k \in KillFaults(docker[n][p]),
                 IF sync[n].ev.type = "update" /\ KillOk(docker[n][p], k)
                 THEN \E d \in Started(k, spec) : SyncLeaves(n, d, FALSE, FALSE)
                 ELSE sync[n].ev.type # "create" /\ SyncLeaves(n, k, FALSE, FALSE)
          PROVE  \E d \in Containers : SyncLeaves(n, d, FALSE, FALSE)
      <4>1. k \in Containers
          BY <1>2, <2>1, KillType, <3>1
      <4>2. sync[n].ev.type = "update" => Started(k, spec) \subseteq Containers
          BY <1>2, <2>1, <4>1, StartType
      <4>3. QED
          BY <3>1, <4>1, <4>2
    <3>2. ASSUME sync[n].ev.type # "remove", NEW k \in Clearings(n, sync[n].ev),
                 NEW d \in StartFaults(k, spec), SyncLeaves(n, d, FALSE, FALSE)
          PROVE  \E e \in Containers : SyncLeaves(n, e, FALSE, FALSE)
      <4>1. k \in Containers /\ spec \in PodSpec
          BY <1>2, <2>1, <3>2
      <4>2. StartFaults(k, spec) \subseteq Containers
          BY <4>1, StartType
      <4>3. QED
          BY <3>2, <4>2
    <3>3. QED
        BY <1>5, <3>1, <3>2 DEF SyncWorkFails
  <2>3. QED
    BY <1>3, <1>5, <2>1, <2>2 DEF SyncWorkFails
<1>6. SyncUnlock(n) => /\ sync' \in [Node -> SyncState]
                       /\ bigLock' \in [Node -> {"free", "sync", "routine"}]
    BY DEF SyncUnlock, CubeletTypeOK, SyncState
<1>7. CASE SyncPush(n)
  <2>1. sync[n] \in SyncState /\ sync[n].pc = "push"
    BY <1>7 DEF SyncPush, CubeletTypeOK
  <2>2. sync[n] \in [pc : {"push", "wait"}, ev : PutEvent]
    BY <2>1 DEF SyncState, Idle
  <2>3. sync[n].ev.pod \in Pod /\ [sync[n].ev.obj EXCEPT !.ip = TRUE] \in PodObj
    BY <2>2 DEF PutEvent, PodObj
  <2>4. SyncOf(n) \in Requester
    BY DEF Requester
  <2>5. [sync[n] EXCEPT !.pc = "wait"] \in SyncState
    BY <2>2 DEF SyncState
  <2>6. CASE PutPodFound(SyncOf(n), sync[n].ev.pod, [sync[n].ev.obj EXCEPT !.ip = TRUE])
             /\ sync' = [sync EXCEPT ![n].pc = "wait"]
             /\ UNCHANGED <<informer, podCache, podEvent, bigLock, routine, pushing, docker,
                            silent, evicted, failed>>
    <3>1. StoreTypeOK'
        BY <2>3, <2>4, <2>6, PutPodFoundType
    <3>2. CubeletTypeOK'
        BY <1>7, <2>5, <2>6 DEF SyncPush, CubeletTypeOK
    <3>3. QED
        BY <3>1, <3>2
  <2>7. CASE PutPodNotFound(SyncOf(n), sync[n].ev.pod) /\ SyncUnlock(n)
    BY <1>6, <1>7, <2>7 DEF SyncPush, PutPodNotFound, SyncUnlock, CubeletTypeOK, StoreTypeOK, storeVars
  <2>8. QED
    BY <1>7, <2>6, <2>7 DEF SyncPush
<1>8. CASE SyncPushed(n)
    BY <1>6, <1>8 DEF SyncPushed, SyncUnlock, CubeletTypeOK, StoreTypeOK, storeVars
<1>9. CASE SyncPushFails(n)
    BY <1>6, <1>9, FaultsAssumption DEF SyncPushFails, SyncUnlock, Fault, CubeletTypeOK, StoreTypeOK,
       storeVars
<1>10. ASSUME NEW p \in Pod, DockerStop(n, p) PROVE StoreTypeOK' /\ CubeletTypeOK'
  <2>1. docker[n][p] \in Containers
    BY DEF CubeletTypeOK
  <2>2. \A d \in Stopped(docker[n][p]) : d \in Containers
    BY <2>1, StopType
  <2>3. docker' \in [Node -> [Pod -> Containers]]
    <3>1. PICK d \in Stopped(docker[n][p]) : docker' = [docker EXCEPT ![n][p] = d]
        BY <1>10 DEF DockerStop
    <3>2. QED
        BY <2>2, <3>1 DEF CubeletTypeOK
  <2>4. /\ failed' = failed \cup {<<n, p>>}
        /\ Fault
        /\ UNCHANGED <<informer, podCache, podEvent, sync, bigLock, routine, pushing,
                       silent, evicted, storeVars>>
    BY <1>10 DEF DockerStop
  <2>5. failed' \subseteq Node \X Pod /\ faults' \in 0..MaxFaults
    BY <2>4, FaultsAssumption DEF Fault, CubeletTypeOK
  <2>6. QED
    BY <2>3, <2>4, <2>5 DEF CubeletTypeOK, StoreTypeOK, storeVars
<1>11. QED
    BY <1>1, <1>4, <1>5, <1>7, <1>8, <1>9, <1>10

\* The status routine of n, and the end and the start of the process.
LEMMA RoutineType ==
    ASSUME StoreTypeOK, CubeletTypeOK, NEW n \in Node,
           \/ RoutineStart(n) \/ RoutineEnd(n) \/ KillCubelet(n) \/ RestartCubelet(n)
           \/ \E p \in Pod : \/ RoutinePush(n, p) \/ RoutinePushed(n, p)
                             \/ RoutinePushFails(n, p) \/ RoutinePanics(n, p)
    PROVE  StoreTypeOK' /\ CubeletTypeOK'
<1>1. CASE RoutineStart(n)
    BY <1>1 DEF RoutineStart, CubeletTypeOK, StoreTypeOK, storeVars
<1>2. CASE RoutineEnd(n)
    BY <1>2 DEF RoutineEnd, CubeletTypeOK, StoreTypeOK, storeVars
<1>3. CASE RestartCubelet(n)
    BY <1>3 DEF RestartCubelet, CubeletTypeOK, StoreTypeOK, storeVars
<1>4. ASSUME Dies(n), faults' \in 0..MaxFaults PROVE StoreTypeOK' /\ CubeletTypeOK'
  <2>1. StoreTypeOK'
    BY <1>4, StreamType DEF Dies, Client
  <2>2. podCache' \in [Node -> [Pod -> PodObj \cup {NoPod}]]
        /\ routine' \in [Node -> [Pod -> PodObj \cup {NoPod}]]
    BY <1>4 DEF Dies, CubeletTypeOK, NoCopies
  <2>3. sync' \in [Node -> SyncState]
    BY <1>4 DEF Dies, CubeletTypeOK, SyncState
  <2>4. failed' \subseteq Node \X Pod
    <3>1. \A ev \in {podEvent[n], sync[n].ev} \ {NoEvent} : ev.pod \in Pod
      <4>1. podEvent[n] # NoEvent => podEvent[n].pod \in Pod
          BY DEF CubeletTypeOK, PodEvent, PutEvent
      <4>2. sync[n].ev # NoEvent => sync[n].ev.pod \in Pod
        <5>1. sync[n] \in SyncState
            BY DEF CubeletTypeOK
        <5>2. QED
            BY <5>1 DEF SyncState, Idle, PodEvent, PutEvent
      <4>3. QED
          BY <4>1, <4>2
    <3>2. QED
        BY <1>4, <3>1 DEF Dies, CubeletTypeOK
  <2>5. QED
    BY <1>4, <2>1, <2>2, <2>3, <2>4 DEF Dies, CubeletTypeOK
<1>5. CASE KillCubelet(n)
    BY <1>4, <1>5, FaultsAssumption DEF KillCubelet, Fault, CubeletTypeOK
<1>6. ASSUME NEW p \in Pod, RoutinePanics(n, p) PROVE StoreTypeOK' /\ CubeletTypeOK'
    BY <1>4, <1>6 DEF RoutinePanics, CubeletTypeOK
<1>7. ASSUME NEW p \in Pod, RoutineLeft(n, p)
      PROVE  /\ routine' \in [Node -> [Pod -> PodObj \cup {NoPod}]]
             /\ pushing' \in [Node -> SUBSET Pod]
    BY <1>7 DEF RoutineLeft, CubeletTypeOK
<1>8. ASSUME NEW p \in Pod, ForceRemove(n, p)
      PROVE  podCache' \in [Node -> [Pod -> PodObj \cup {NoPod}]] /\ evicted' \subseteq Node \X Pod
    BY <1>8 DEF ForceRemove, CubeletTypeOK
<1>9. ASSUME NEW p \in Pod, RoutinePush(n, p) PROVE StoreTypeOK' /\ CubeletTypeOK'
  <2>1. CASE PutPodNotFound(PushOf(n, p), p) /\ RoutineLeft(n, p) /\ ForceRemove(n, p)
    <3>1. StoreTypeOK'
        BY <2>1 DEF PutPodNotFound, StoreTypeOK, storeVars
    <3>2. CubeletTypeOK'
        BY <1>7, <1>8, <1>9, <2>1 DEF RoutineLeft, RoutinePush, CubeletTypeOK
    <3>3. QED
        BY <3>1, <3>2
  <2>2. CASE /\ PutPodFound(PushOf(n, p), p, routine[n][p])
             /\ pushing' = [pushing EXCEPT ![n] = @ \cup {p}]
             /\ UNCHANGED <<informer, podCache, podEvent, sync, bigLock, routine, docker,
                            silent, evicted, failed>>
    <3>1. PushOf(n, p) \in Requester
        BY DEF Requester
    <3>2. routine[n][p] \in PodObj
        BY <1>9 DEF RoutinePush, CubeletTypeOK
    <3>3. StoreTypeOK'
        BY <2>2, <3>1, <3>2, PutPodFoundType
    <3>4. CubeletTypeOK'
        BY <1>9, <2>2 DEF RoutinePush, CubeletTypeOK
    <3>5. QED
        BY <3>3, <3>4
  <2>3. QED
    BY <1>9, <2>1, <2>2 DEF RoutinePush
<1>10. ASSUME NEW p \in Pod, RoutinePushed(n, p) PROVE StoreTypeOK' /\ CubeletTypeOK'
    BY <1>7, <1>10 DEF RoutinePushed, RoutineLeft, CubeletTypeOK, StoreTypeOK, storeVars
<1>11. ASSUME NEW p \in Pod, RoutinePushFails(n, p) PROVE StoreTypeOK' /\ CubeletTypeOK'
  <2>1. StoreTypeOK' /\ faults' \in 0..MaxFaults
    <3>1. PushOf(n, p) \in Requester
        BY DEF Requester
    <3>2. StoreTypeOK'
        BY <1>11, <3>1, DropPutType DEF RoutinePushFails, StoreTypeOK, storeVars
    <3>3. QED
        BY <1>11, <3>2, FaultsAssumption DEF RoutinePushFails, Fault, CubeletTypeOK
  <2>2. RoutineLeft(n, p) /\ ForceRemove(n, p)
    BY <1>11 DEF RoutinePushFails
  <2>3. QED
    BY <1>7, <1>8, <2>1, <2>2 DEF RoutineLeft, CubeletTypeOK
<1>12. QED
    BY <1>1, <1>2, <1>3, <1>5, <1>6, <1>9, <1>10, <1>11

-----------------------------------------------------------------------------
(* The cluster *)

\* An informer that is sending has an event to send.
Handover == \A n \in Node : informer[n] = "send" => podEvent[n] # NoEvent

LEMMA HandoverStep == ASSUME TypeOK, Handover, [Next]_vars PROVE Handover'
<1> SUFFICES ASSUME NEW m \in Node, informer'[m] = "send" PROVE podEvent'[m] # NoEvent
    BY DEF Handover
<1> USE DEF Handover
<1>1. CASE UNCHANGED <<informer, podEvent>>
    BY <1>1
<1>2. ASSUME NEW n \in Node, NEW s \in {"list", "open", "watch", "dead"},
             informer' = [informer EXCEPT ![n] = s], podEvent' = [podEvent EXCEPT ![n] = NoEvent]
      PROVE  podEvent'[m] # NoEvent
    BY <1>2 DEF TypeOK, CubeletTypeOK
<1>3. ASSUME NEW n \in Node, NEW s \in {"list", "open", "watch", "dead"},
             informer' = [informer EXCEPT ![n] = s], UNCHANGED podEvent
      PROVE  podEvent'[m] # NoEvent
    BY <1>3 DEF TypeOK, CubeletTypeOK
<1>4. ASSUME NEW n \in Node, WatchTurn(n) PROVE podEvent'[m] # NoEvent
  <2>1. ASSUME NEW type \in {"create", "update", "remove"}, NEW p, NEW o, Offer(n, type, p, o)
        PROVE  podEvent'[m] # NoEvent
    <3>1. [type |-> type, pod |-> p, obj |-> o].type # NoEvent.type
        BY <2>1 DEF NoEvent
    <3>2. [type |-> type, pod |-> p, obj |-> o] # NoEvent
        BY <3>1
    <3>3. QED
        BY <2>1, <3>2 DEF Offer, TypeOK, CubeletTypeOK
  <2>2. QED
    BY <1>1, <1>4, <2>1 DEF WatchTurn, InformDelete, InformPut, Quiet
<1>5. ASSUME NEW n \in Node, CubeletStep(n) \/ CubeletFault(n) PROVE podEvent'[m] # NoEvent
  <2>1. CASE ListMyPods(n) \/ WatchMyPods(n) \/ WatchClosed(n) \/ RestartCubelet(n)
    BY <1>3, <2>1 DEF ListMyPods, WatchMyPods, WatchClosed, RestartCubelet
  <2>2. CASE Receive(n)
    BY <1>2, <2>2 DEF Receive
  <2>3. CASE Dies(n)
    BY <1>2, <2>3 DEF Dies
  <2>4. CASE SyncWork(n) \/ SyncWorkFails(n) \/ SyncPush(n) \/ SyncPushed(n) \/ SyncPushFails(n)
             \/ LoseWatch(n) \/ RoutineStart(n) \/ RoutineEnd(n)
    BY <1>1, <2>4 DEF SyncWork, SyncWorkFails, SyncPush, SyncPushed, SyncPushFails, SyncUnlock,
       LoseWatch, RoutineStart, RoutineEnd
  <2>5. ASSUME NEW p \in Pod, \/ RoutinePush(n, p) \/ RoutinePushed(n, p)
                              \/ RoutinePushFails(n, p) \/ DockerStop(n, p)
        PROVE  UNCHANGED <<informer, podEvent>>
    BY <2>5 DEF RoutinePush, RoutinePushed, RoutinePushFails, RoutineLeft, ForceRemove, DockerStop
  <2>6. QED
    BY <1>1, <1>4, <1>5, <2>1, <2>2, <2>3, <2>4, <2>5
       DEF CubeletStep, CubeletFault, KillCubelet, RoutinePanics
<1>6. CASE SchedStep \/ SchedFault \/ \E r \in Requester : Commit(r) \/ PutFails(r)
    BY <1>1, <1>6 DEF PutFails, SchedStep, SchedList, SchedListed, SchedWatchPods, SchedTurn, SchedClosed,
       SchedulePod, SchedFault, SchedLosesWatch, SchedGivesUp, KillScheduler, RestartScheduler, Commit,
       cubeletVars
<1>7. CASE \/ \E p \in Pod, s \in PodSpec : CreatePod(p, s) \/ RewritePod(p, s)
           \/ \E p \in Pod : DeletePod(p)
    BY <1>1, <1>7 DEF CreatePod, RewritePod, DeletePod, cubeletVars
<1>8. CASE UNCHANGED vars
    BY <1>1, <1>8 DEF vars, cubeletVars
<1>9. QED
    BY <1>5, <1>6, <1>7, <1>8 DEF Next, OnNode

\* One step of any part keeps the types of all parts.
LEMMA TypeStep == ASSUME TypeOK, Handover, [Next]_vars PROVE TypeOK'
<1> USE DEF TypeOK
<1>1. ASSUME NEW n \in Node, OnNode(CubeletStep(n) \/ CubeletFault(n)) PROVE TypeOK'
  <2>1. StoreTypeOK' /\ CubeletTypeOK'
    <3>1. CubeletStep(n) \/ CubeletFault(n)
        BY <1>1 DEF OnNode
    <3>2. CASE \/ ListMyPods(n) \/ WatchMyPods(n) \/ WatchTurn(n) \/ WatchClosed(n) \/ LoseWatch(n)
        BY <3>2, InformerType
    <3>3. CASE \/ Receive(n) \/ SyncWork(n) \/ SyncWorkFails(n) \/ SyncPush(n) \/ SyncPushed(n)
               \/ SyncPushFails(n) \/ \E p \in Pod : DockerStop(n, p)
        BY <3>3, SyncType DEF Handover
    <3>4. CASE \/ RoutineStart(n) \/ RoutineEnd(n) \/ KillCubelet(n) \/ RestartCubelet(n)
               \/ \E p \in Pod : \/ RoutinePush(n, p) \/ RoutinePushed(n, p)
                                 \/ RoutinePushFails(n, p) \/ RoutinePanics(n, p)
        BY <3>4, RoutineType
    <3>5. QED
        BY <3>1, <3>2, <3>3, <3>4 DEF CubeletStep, CubeletFault
  <2>2. UNCHANGED <<created, writes, deletes, sched, toBind, boundLate>>
    BY <1>1 DEF OnNode, schedVars, userVars
  <2>3. QED
    BY <2>1, <2>2
<1>2. ASSUME NEW r \in Requester, Commit(r) PROVE TypeOK'
  <2>1. StoreTypeOK'
    BY <1>2, PutPodCommitType DEF Commit
  <2>2. boundLate' \subseteq Pod
    BY <1>2 DEF Commit, PutPodCommit, StoreTypeOK, Put
  <2>3. QED
    BY <1>2, <2>1, <2>2 DEF Commit, cubeletVars, userVars, CubeletTypeOK
<1>3. ASSUME StoreTypeOK', UNCHANGED cubeletVars, UNCHANGED schedVars,
             created' \subseteq Pod, writes' \in [Pod -> 0..MaxWrites],
             deletes' \in [Pod -> 0..MaxDeletes]
      PROVE  TypeOK'
    BY <1>3 DEF cubeletVars, schedVars, CubeletTypeOK
<1>4. ASSUME NEW p \in Pod, NEW s \in PodSpec, CreatePod(p, s) PROVE TypeOK'
  <2>1. [node |-> NoNode, spec |-> s, ip |-> FALSE] \in PodObj
    BY DEF PodObj
  <2>2. StoreTypeOK'
    BY <1>4, <2>1, PostPodType DEF CreatePod
  <2>3. QED
    BY <1>3, <1>4, <2>2 DEF CreatePod
<1>5. ASSUME NEW p \in Pod, NEW s \in PodSpec, RewritePod(p, s) PROVE TypeOK'
  <2>1. User \in Requester
    BY DEF Requester
  <2>2. [store[p] EXCEPT !.spec = s] \in PodObj
    BY <1>5 DEF RewritePod, StoreTypeOK, PodObj
  <2>3. StoreTypeOK'
    BY <1>5, <2>1, <2>2, PutPodFoundType DEF RewritePod
  <2>4. writes' \in [Pod -> 0..MaxWrites]
    BY <1>5, UserAssumption DEF RewritePod
  <2>5. QED
    BY <1>3, <1>5, <2>3, <2>4 DEF RewritePod
<1>6. ASSUME NEW p \in Pod, DeletePod(p) PROVE TypeOK'
  <2>1. StoreTypeOK'
    BY <1>6, DelPodType DEF DeletePod
  <2>2. deletes' \in [Pod -> 0..MaxDeletes]
    BY <1>6, UserAssumption DEF DeletePod
  <2>3. QED
    BY <1>3, <1>6, <2>1, <2>2 DEF DeletePod
<1>7. SchedWatch \in Client
    BY DEF Client
<1>8. ASSUME StoreTypeOK', UNCHANGED cubeletVars, UNCHANGED userVars,
             sched' \in {"list", "bind", "open", "watch", "dead"},
             toBind' \in [Pod -> PodObj \cup {NoPod}], UNCHANGED boundLate
      PROVE  TypeOK'
    BY <1>8 DEF cubeletVars, userVars, CubeletTypeOK
<1>9. CASE SchedList
  <2>1. StoreTypeOK'
    BY <1>7, <1>9, StreamType DEF SchedList
  <2>2. QED
    BY <1>8, <1>9, <2>1 DEF SchedList, StoreTypeOK
<1>10. CASE SchedListed \/ SchedClosed
    BY <1>8, <1>10 DEF SchedListed, SchedClosed, StoreTypeOK, storeVars
<1>11. CASE SchedWatchPods
    BY <1>7, <1>8, <1>11, StreamType DEF SchedWatchPods
<1>12. CASE SchedTurn
  <2>1. StoreTypeOK' /\ Head(stream[SchedWatch]) \in Event
    BY <1>7, <1>12, StreamType DEF SchedTurn
  <2>2. QED
    BY <1>8, <1>12, <2>1 DEF SchedTurn, Event
<1>13. ASSUME NEW p \in Pod, SchedulePod(p) PROVE TypeOK'
  <2>1. Sched \in Requester
    BY DEF Requester
  <2>2. toBind[p] \in PodObj
    BY <1>13 DEF SchedulePod
  <2>3. \A n \in Node : [toBind[p] EXCEPT !.node = n] \in PodObj
    BY <2>2 DEF PodObj
  <2>4. (\E n \in Node : PutPodFound(Sched, p, [toBind[p] EXCEPT !.node = n])) => StoreTypeOK'
    BY <2>1, <2>3, PutPodFoundType
  <2>5. StoreTypeOK'
    BY <1>13, <2>4 DEF SchedulePod, PutPodNotFound, StoreTypeOK, storeVars
  <2>6. QED
    BY <1>8, <1>13, <2>5 DEF SchedulePod
<1>14. CASE SchedLosesWatch
  <2>1. StoreTypeOK'
    BY <1>7, <1>14, StreamType DEF SchedLosesWatch
  <2>2. QED
    BY <1>14, <2>1, FaultsAssumption DEF SchedLosesWatch, Fault, CubeletTypeOK, schedVars, userVars
<1>15. ASSUME NEW r \in Requester, PutFails(r) PROVE TypeOK'
  <2>1. StoreTypeOK' /\ faults' \in 0..MaxFaults
    BY <1>15, DropPutType, FaultsAssumption DEF PutFails, Fault, CubeletTypeOK
  <2>2. QED
    BY <1>15, <2>1 DEF PutFails, CubeletTypeOK, schedVars, userVars
<1>16. CASE UNCHANGED vars
    BY <1>16 DEF vars, storeVars, cubeletVars, schedVars, userVars, StoreTypeOK, CubeletTypeOK
<1>17. CASE SchedGivesUp \/ KillScheduler
  <2>1. faults' \in 0..MaxFaults /\ AbandonPut(Sched, LateOf(faults + 1))
    BY <1>17, FaultsAssumption DEF SchedGivesUp, KillScheduler, Fault, CubeletTypeOK
  <2>2. StoreTypeOK'
    <3>0. /\ store' \in [Pod -> PodObj \cup {NoPod}]
          /\ request' \in [Requester -> Put \cup {NoReq}]
          /\ boundTo' \subseteq Pod \X Node
          /\ moved' \subseteq Pod
      <4>1. Sched \in Requester
          BY DEF Requester
      <4>2. QED
          BY <2>1, <4>1, AbandonPutType
    <3>1. CASE SchedGivesUp
        BY <3>0, <3>1 DEF SchedGivesUp, StoreTypeOK
    <3>2. CASE KillScheduler
      <4>1. stream' \in [Client -> Seq(Event)] /\ watching' \subseteq Client
        <5>1. /\ watching' = watching \ {SchedWatch}
              /\ stream' = [stream EXCEPT ![SchedWatch] = <<>>]
            BY <3>2 DEF KillScheduler
        <5>2. QED
            BY <1>7, <5>1 DEF StoreTypeOK
      <4>2. missed' \subseteq Client \X Pod
          BY <1>7, <3>2, LostStreamType DEF KillScheduler, StoreTypeOK
      <4>3. QED
          BY <3>0, <4>1, <4>2 DEF StoreTypeOK
    <3>3. QED
        BY <1>17, <3>1, <3>2
  <2>3. toBind' \in [Pod -> PodObj \cup {NoPod}]
    BY <1>17 DEF SchedGivesUp, KillScheduler, NoCopies, schedVars
  <2>4. QED
    BY <1>17, <2>1, <2>2, <2>3 DEF SchedGivesUp, KillScheduler, CubeletTypeOK, schedVars, userVars
<1>18. CASE RestartScheduler
    BY <1>8, <1>18 DEF RestartScheduler, StoreTypeOK, storeVars
<1>19. QED
    BY <1>1, <1>2, <1>4, <1>5, <1>6, <1>9, <1>10, <1>11, <1>12, <1>13, <1>14, <1>15, <1>16, <1>17,
       <1>18 DEF Next, SchedStep, SchedFault

LEMMA InitTyped == Init => TypeOK /\ Handover
<1> SUFFICES ASSUME Init PROVE TypeOK /\ Handover
    OBVIOUS
<1>1. StoreTypeOK
    BY DEF Init, StoreInit, StoreTypeOK
<1>2. CubeletTypeOK
    BY FaultsAssumption, BacklogAssumption DEF Init, CubeletInit, CubeletTypeOK, NoCopies, NoContainers, Containers,
       SyncState
<1>3. QED
    BY <1>1, <1>2, UserAssumption DEF Init, CubeletInit, TypeOK, Handover, NoCopies

\* The variables of the API server, the cubelets, the scheduler and the users keep
\* their types, so in particular no cubelet is ever handed an event of a type its
\* pod loop does not know, and no PUT carries anything but a whole pod object.
THEOREM Typed == Spec => []TypeOK
<1>1. TypeOK /\ Handover /\ [Next]_vars => TypeOK' /\ Handover'
    BY TypeStep, HandoverStep
<1>2. QED
    BY <1>1, InitTyped, PTL DEF Spec

-----------------------------------------------------------------------------
(* No pod runs where it was never bound *)

\* BoundBeforeRun is not inductive: what docker starts comes from the event in the
\* pod loop, that from the informer, that from its cache or its stream, and those
\* from etcd.  Every one of these places only holds pods once bound to the node.
Held(p, o) == o = NoPod \/ o.node = NoNode \/ <<p, o.node>> \in boundTo

StoreBound == \A p \in Pod : Held(p, store[p])
StreamBound ==
    \A c \in Client : \A i \in 1..Len(stream[c]) : Held(stream[c][i].pod, stream[c][i].obj)
CacheBound == \A n \in Node, p \in Pod : podCache[n][p] # NoPod => <<p, n>> \in boundTo
EventBound ==
    \A n \in Node : /\ podEvent[n] # NoEvent => <<podEvent[n].pod, n>> \in boundTo
                    /\ sync[n].ev # NoEvent => <<sync[n].ev.pod, n>> \in boundTo

AllBound == StoreBound /\ StreamBound /\ CacheBound /\ EventBound /\ BoundBeforeRun

\* What a step does to etcd, to the streams and to the history of bindings.
StoreMoves ==
    \/ \E p \in Pod, o \in PodObj : PutObj(p, o)
    \/ \E p \in Pod : DelPod(p)
    \/ /\ UNCHANGED <<store, boundTo>>
       /\ \/ UNCHANGED stream
          \/ \E c \in Client : stream' = [stream EXCEPT ![c] = <<>>]
          \/ \E c \in Client : stream[c] # <<>> /\ stream' = [stream EXCEPT ![c] = Tail(@)]

LEMMA StepMoves == ASSUME TypeOK, Handover, [Next]_vars PROVE StoreMoves
<1> USE DEF TypeOK
<1>0. SchedWatch \in Client /\ \A n \in Node : CubeletWatch(n) \in Client
    BY DEF Client
<1>1. ASSUME UNCHANGED storeVars PROVE StoreMoves
    BY <1>1 DEF StoreMoves, storeVars
<1>2. ASSUME NEW c \in Client, OpenWatch(c) \/ CloseWatch(c) \/ TakeEvent(c)
      PROVE  StoreMoves
    BY <1>2 DEF StoreMoves, OpenWatch, CloseWatch, TakeEvent
<1>3. ASSUME NEW r, NEW p, NEW o, PutPodFound(r, p, o) PROVE StoreMoves
    BY <1>3 DEF StoreMoves, PutPodFound
<1>4. ASSUME NEW c, NEW known, ListPods(c, known) PROVE StoreMoves
    BY <1>4 DEF StoreMoves, ListPods
<1>5. ASSUME NEW r, DropPut(r) PROVE StoreMoves
    BY <1>5 DEF StoreMoves, DropPut
<1>6. ASSUME NEW n \in Node, CubeletStep(n) \/ CubeletFault(n) PROVE StoreMoves
  <2>1. CASE ListMyPods(n) \/ WatchMyPods(n) \/ WatchTurn(n) \/ WatchClosed(n) \/ LoseWatch(n)
    BY <1>0, <1>1, <1>2, <1>4, <2>1
       DEF ListMyPods, WatchMyPods, WatchTurn, WatchClosed, LoseWatch
  <2>2. CASE \/ Receive(n) \/ SyncWork(n) \/ SyncWorkFails(n) \/ SyncPush(n) \/ SyncPushed(n)
             \/ SyncPushFails(n) \/ \E p \in Pod : DockerStop(n, p)
    BY <1>1, <1>3, <2>2 DEF Receive, SyncWork, SyncWorkFails, SyncPush, SyncPushed,
       SyncPushFails, DockerStop, PutPodNotFound, storeVars
  <2>3. CASE RoutineStart(n) \/ RoutineEnd(n) \/ RestartCubelet(n)
    BY <1>1, <2>3 DEF RoutineStart, RoutineEnd, RestartCubelet, storeVars
  <2>4. CASE Dies(n)
    BY <1>0, <1>2, <2>4 DEF Dies
  <2>5. ASSUME NEW p \in Pod, RoutinePush(n, p) \/ RoutinePushed(n, p) \/ RoutinePushFails(n, p)
        PROVE  StoreMoves
    BY <1>1, <1>3, <1>5, <2>5 DEF RoutinePush, RoutinePushed, RoutinePushFails, PutPodNotFound
  <2>6. QED
    BY <1>6, <2>1, <2>2, <2>3, <2>4, <2>5
       DEF CubeletStep, CubeletFault, KillCubelet, RoutinePanics
<1>7. ASSUME NEW r \in Requester, Commit(r) \/ PutFails(r) PROVE StoreMoves
  <2>1. Commit(r) => request[r].pod \in Pod /\ request[r].obj \in PodObj
    BY DEF Commit, PutPodCommit, StoreTypeOK, Put
  <2>2. QED
    BY <1>7, <1>5, <2>1 DEF Commit, PutPodCommit, PutFails, StoreMoves
<1>8. CASE SchedStep \/ SchedFault
  <2>1. CASE SchedGivesUp \/ KillScheduler
    BY <1>0, <2>1 DEF SchedGivesUp, KillScheduler, AbandonPut, StoreMoves
  <2>2. CASE SchedStep \/ SchedLosesWatch \/ RestartScheduler
    BY <1>0, <1>1, <1>2, <1>3, <1>4, <2>2 DEF SchedStep, SchedList, SchedListed, SchedWatchPods,
       SchedTurn, SchedClosed, SchedulePod, SchedLosesWatch, RestartScheduler, PutPodNotFound
  <2>3. QED
    BY <1>8, <2>1, <2>2 DEF SchedFault
<1>9. ASSUME NEW p \in Pod, NEW s \in PodSpec, CreatePod(p, s) \/ RewritePod(p, s)
      PROVE  StoreMoves
  <2>1. [node |-> NoNode, spec |-> s, ip |-> FALSE] \in PodObj
    BY DEF PodObj
  <2>2. QED
    BY <1>3, <1>9, <2>1 DEF CreatePod, RewritePod, PostPod, StoreMoves
<1>10. ASSUME NEW p \in Pod, DeletePod(p) PROVE StoreMoves
    BY <1>10 DEF DeletePod, StoreMoves
<1>11. CASE UNCHANGED vars
    BY <1>1, <1>11 DEF vars
<1>12. QED
    BY <1>6, <1>7, <1>8, <1>9, <1>10, <1>11 DEF Next, OnNode

\* The objects in etcd and those queued for the clients name nodes that were bound.
LEMMA StoreBoundStep ==
    ASSUME StoreTypeOK, StoreBound, StreamBound, StoreMoves
    PROVE  boundTo \subseteq boundTo' /\ StoreBound' /\ StreamBound'
<1>1. ASSUME NEW p \in Pod, NEW o \in PodObj \cup {NoPod}, Notify(p, o),
             boundTo \subseteq boundTo', Held(p, o)'
      PROVE  StreamBound'
  <2> SUFFICES ASSUME NEW c \in Client, NEW i \in 1..Len(stream'[c])
               PROVE  Held(stream[c][i].pod, stream[c][i].obj)'
    BY DEF StreamBound
  <2> DEFINE e == [pod |-> p, obj |-> o]
  <2>1. stream[c] \in Seq(Event)
    BY DEF StoreTypeOK
  <2>2. stream'[c] = IF c \in watching THEN Append(stream[c], e) ELSE stream[c]
    BY <1>1 DEF Notify
  <2>3. stream'[c][i] = e \/ (i \in 1..Len(stream[c]) /\ stream'[c][i] = stream[c][i])
    BY <2>1, <2>2
  <2>4. CASE stream'[c][i] = e
    BY <1>1, <2>4 DEF Held
  <2>5. CASE i \in 1..Len(stream[c]) /\ stream'[c][i] = stream[c][i]
    BY <1>1, <2>5 DEF StreamBound, Held
  <2>6. QED
    BY <2>3, <2>4, <2>5
<1>2. ASSUME NEW p \in Pod, NEW o \in PodObj, PutObj(p, o)
      PROVE  boundTo \subseteq boundTo' /\ StoreBound' /\ StreamBound'
  <2>1. boundTo \subseteq boundTo' /\ Held(p, o)'
    BY <1>2 DEF PutObj, Held
  <2>2. StoreBound'
    BY <1>2, <2>1 DEF PutObj, StoreBound, Held, StoreTypeOK
  <2>3. QED
    BY <1>1, <1>2, <2>1, <2>2 DEF PutObj
<1>3. ASSUME NEW p \in Pod, DelPod(p)
      PROVE  boundTo \subseteq boundTo' /\ StoreBound' /\ StreamBound'
    BY <1>1, <1>3 DEF DelPod, StoreBound, Held, StoreTypeOK
<1>4. ASSUME UNCHANGED <<store, boundTo>>, NEW c \in Client,
             \/ UNCHANGED stream
             \/ stream' = [stream EXCEPT ![c] = <<>>]
             \/ stream[c] # <<>> /\ stream' = [stream EXCEPT ![c] = Tail(@)]
      PROVE  boundTo \subseteq boundTo' /\ StoreBound' /\ StreamBound'
  <2>1. StoreBound'
    BY <1>4 DEF StoreBound, Held
  <2> SUFFICES ASSUME NEW d \in Client, NEW i \in 1..Len(stream'[d])
               PROVE  Held(stream[d][i].pod, stream[d][i].obj)'
    BY <1>4, <2>1 DEF StreamBound
  <2>2. stream[d] \in Seq(Event)
    BY DEF StoreTypeOK
  <2>3. \E j \in 1..Len(stream[d]) : stream'[d][i] = stream[d][j]
    <3>1. stream'[d] = stream[d] \/ stream'[d] = <<>>
          \/ (stream[d] # <<>> /\ stream'[d] = Tail(stream[d]))
        BY <1>4 DEF StoreTypeOK
    <3>2. CASE stream'[d] = stream[d] \/ stream'[d] = <<>>
        BY <2>2, <3>2
    <3>3. CASE stream[d] # <<>> /\ stream'[d] = Tail(stream[d])
        BY <2>2, <3>3
    <3>4. QED
        BY <3>1, <3>2, <3>3
  <2>4. QED
    BY <1>4, <2>3 DEF StreamBound, Held
<1>5. SchedWatch \in Client
    BY DEF Client
<1>6. QED
    BY <1>2, <1>3, <1>4, <1>5 DEF StoreMoves

\* The cache of an informer holds pods that were bound to its node.
LEMMA CacheBoundStep ==
    ASSUME TypeOK, AllBound, boundTo \subseteq boundTo', NEW n \in Node,
           CubeletStep(n) \/ CubeletFault(n)
    PROVE  CacheBound' /\ EventBound'
<1> USE DEF TypeOK, CubeletTypeOK
<1>1. ASSUME UNCHANGED podCache PROVE CacheBound'
    BY <1>1 DEF AllBound, CacheBound
<1>2. ASSUME NEW p \in Pod, podCache' = [podCache EXCEPT ![n][p] = NoPod] PROVE CacheBound'
    BY <1>2 DEF AllBound, CacheBound
<1>3. ASSUME UNCHANGED <<podEvent, sync>> PROVE EventBound'
    BY <1>3 DEF AllBound, EventBound
<1>4. CASE ListMyPods(n)
  <2>1. \A p \in MyPods(n) : <<p, n>> \in boundTo
    BY NodeAssumption DEF MyPods, AllBound, StoreBound, Held
  <2>2. CacheBound'
    BY <1>4, <2>1 DEF ListMyPods, AllBound, CacheBound
  <2>3. QED
    BY <1>3, <1>4, <2>2 DEF ListMyPods
<1>5. CASE WatchTurn(n)
  <2> DEFINE e == Head(stream[CubeletWatch(n)])
  <2>1. e \in Event /\ Held(e.pod, e.obj)
    <3>1. CubeletWatch(n) \in Client
        BY DEF Client
    <3>2. stream[CubeletWatch(n)] \in Seq(Event) /\ stream[CubeletWatch(n)] # <<>>
        BY <1>5, <3>1 DEF StoreTypeOK, WatchTurn, TakeEvent
    <3>3. 1 \in 1..Len(stream[CubeletWatch(n)]) /\ e = stream[CubeletWatch(n)][1] /\ e \in Event
        BY <3>2
    <3>4. QED
        BY <3>1, <3>3 DEF AllBound, StreamBound
  <2>2. e.pod \in Pod
    BY <2>1 DEF Event
  <2>3. \/ InformDelete(n, e.pod)
        \/ e.obj # NoPod /\ ForMe(n, e.obj) /\ InformPut(n, e.pod, e.obj)
        \/ Quiet /\ UNCHANGED podCache
    BY <1>5 DEF WatchTurn
  <2>4. UNCHANGED sync
    BY <1>5 DEF WatchTurn
  <2> HIDE DEF e
  <2>5. ASSUME NEW type, NEW p \in Pod, NEW o, Offer(n, type, p, o), <<p, n>> \in boundTo
        PROVE  EventBound'
    BY <2>4, <2>5 DEF Offer, AllBound, EventBound
  <2>6. CASE InformDelete(n, e.pod)
    <3>1. CacheBound'
        BY <1>2, <2>2, <2>6 DEF InformDelete
    <3>2. CASE podCache[n][e.pod] # NoPod
        BY <2>2, <2>5, <2>6, <3>1, <3>2 DEF InformDelete, AllBound, CacheBound
    <3>3. CASE podCache[n][e.pod] = NoPod
        BY <1>3, <2>4, <2>6, <3>1, <3>3 DEF InformDelete, Quiet
    <3>4. QED
        BY <3>2, <3>3
  <2>7. CASE e.obj # NoPod /\ ForMe(n, e.obj) /\ InformPut(n, e.pod, e.obj)
    <3>1. <<e.pod, n>> \in boundTo
        BY <2>1, <2>7, NodeAssumption DEF ForMe, Held
    <3>2. CacheBound'
        BY <2>7, <3>1 DEF InformPut, AllBound, CacheBound
    <3>3. EventBound'
        BY <1>3, <2>2, <2>4, <2>5, <2>7, <3>1 DEF InformPut, Quiet
    <3>4. QED
        BY <3>2, <3>3
  <2>8. CASE Quiet /\ UNCHANGED podCache
    BY <1>1, <1>3, <2>4, <2>8 DEF Quiet
  <2>9. QED
    BY <2>3, <2>6, <2>7, <2>8
<1>6. CASE Receive(n)
    BY <1>1, <1>6 DEF Receive, AllBound, EventBound
<1>7. ASSUME UNCHANGED <<podCache, podEvent>>,
             \/ \E pc : sync' = [sync EXCEPT ![n].pc = pc]
             \/ sync' = [sync EXCEPT ![n] = Idle]
             \/ UNCHANGED sync
      PROVE  CacheBound' /\ EventBound'
  <2> SUFFICES ASSUME NEW m \in Node
               PROVE  sync'[m].ev = NoEvent \/ sync'[m].ev = sync[m].ev
    BY <1>1, <1>7 DEF AllBound, EventBound
  <2>1. sync[n] \in SyncState
    OBVIOUS
  <2>2. sync[n] = [pc |-> sync[n].pc, ev |-> sync[n].ev]
    BY <2>1 DEF SyncState, Idle
  <2>3. ASSUME NEW pc, sync' = [sync EXCEPT ![n].pc = pc] PROVE sync'[m].ev = sync[m].ev
    <3>1. sync'[m] = sync[m] \/ sync'[m] = [sync[n] EXCEPT !.pc = pc]
        BY <2>3
    <3>2. [sync[n] EXCEPT !.pc = pc].ev = sync[n].ev
        BY <2>2
    <3>3. m # n => sync'[m] = sync[m]
        BY <2>3
    <3>4. QED
        BY <3>1, <3>2, <3>3
  <2>4. CASE sync' = [sync EXCEPT ![n] = Idle]
    BY <2>4 DEF Idle
  <2>5. QED
    BY <1>7, <2>3, <2>4
<1>8. CASE SyncWork(n) \/ SyncWorkFails(n)
    BY <1>7, <1>8 DEF SyncWork, SyncWorkFails, SyncLeaves
<1>9. CASE SyncPush(n) \/ SyncPushed(n) \/ SyncPushFails(n)
    BY <1>7, <1>9 DEF SyncPush, SyncPushed, SyncPushFails, SyncUnlock
<1>10. CASE WatchMyPods(n) \/ WatchClosed(n) \/ LoseWatch(n) \/ RoutineStart(n) \/ RoutineEnd(n)
            \/ RestartCubelet(n)
    BY <1>1, <1>3, <1>10 DEF WatchMyPods, WatchClosed, LoseWatch, RoutineStart, RoutineEnd,
       RestartCubelet
<1>11. CASE Dies(n)
    BY <1>11 DEF Dies, AllBound, CacheBound, EventBound, NoCopies, Idle
<1>12. ASSUME NEW p \in Pod, RoutinePush(n, p) \/ RoutinePushed(n, p) \/ RoutinePushFails(n, p)
              \/ DockerStop(n, p)
       PROVE  CacheBound' /\ EventBound'
    BY <1>1, <1>2, <1>3, <1>12 DEF RoutinePush, RoutinePushed, RoutinePushFails, RoutineLeft,
       ForceRemove, DockerStop
<1>13. QED
    BY <1>4, <1>5, <1>6, <1>8, <1>9, <1>10, <1>11, <1>12
       DEF CubeletStep, CubeletFault, KillCubelet, RoutinePanics

\* Docker is only ever told of the pod of the event in the pod loop.
LEMMA DockerBoundStep ==
    ASSUME TypeOK, AllBound, boundTo \subseteq boundTo', NEW n \in Node,
           CubeletStep(n) \/ CubeletFault(n)
    PROVE  BoundBeforeRun'
<1> USE DEF TypeOK, CubeletTypeOK
<1>1. ASSUME UNCHANGED docker PROVE BoundBeforeRun'
    BY <1>1 DEF AllBound, BoundBeforeRun
<1>2. ASSUME NEW p \in Pod, NEW d, docker' = [docker EXCEPT ![n][p] = d],
             d # NoContainers => <<p, n>> \in boundTo
      PROVE  BoundBeforeRun'
    BY <1>2 DEF AllBound, BoundBeforeRun
<1>3. ASSUME sync[n].pc = "lock"
      PROVE  sync[n].ev.pod \in Pod /\ <<sync[n].ev.pod, n>> \in boundTo
  <2>1. sync[n] \in SyncState
    OBVIOUS
  <2>2. sync[n].ev \in PodEvent
    BY <1>3, <2>1 DEF SyncState, Idle
  <2>3. sync[n].ev.pod \in Pod /\ sync[n].ev.type # "none"
    BY <2>2 DEF PodEvent, PutEvent
  <2>4. sync[n].ev # NoEvent
    BY <2>3 DEF NoEvent
  <2>5. QED
    BY <2>3, <2>4 DEF AllBound, EventBound
<1>4. CASE SyncWork(n) \/ SyncWorkFails(n)
  <2>1. sync[n].pc = "lock" /\ \E d : docker' = [docker EXCEPT ![n][sync[n].ev.pod] = d]
    BY <1>4 DEF SyncWork, SyncWorkFails, SyncLeaves
  <2>2. QED
    BY <1>2, <1>3, <2>1
<1>5. ASSUME NEW p \in Pod, DockerStop(n, p) PROVE BoundBeforeRun'
  <2>1. PICK d \in Stopped(docker[n][p]) : docker' = [docker EXCEPT ![n][p] = d]
    BY <1>5 DEF DockerStop
  <2>2. Stopped(docker[n][p]) # {} => docker[n][p] # NoContainers
    BY DEF Stopped, NoContainers
  <2>3. QED
    BY <1>2, <2>1, <2>2 DEF AllBound, BoundBeforeRun
<1>6. CASE \/ ListMyPods(n) \/ WatchMyPods(n) \/ WatchTurn(n) \/ WatchClosed(n) \/ LoseWatch(n)
           \/ Receive(n) \/ SyncPush(n) \/ SyncPushed(n) \/ SyncPushFails(n)
           \/ RoutineStart(n) \/ RoutineEnd(n) \/ RestartCubelet(n) \/ Dies(n)
    BY <1>1, <1>6 DEF ListMyPods, WatchMyPods, WatchTurn, WatchClosed, LoseWatch, Receive, SyncPush,
       SyncPushed, SyncPushFails, SyncUnlock, RoutineStart, RoutineEnd, RestartCubelet, Dies
<1>7. ASSUME NEW p \in Pod, RoutinePush(n, p) \/ RoutinePushed(n, p) \/ RoutinePushFails(n, p)
      PROVE  BoundBeforeRun'
    BY <1>1, <1>7 DEF RoutinePush, RoutinePushed, RoutinePushFails, RoutineLeft
<1>8. QED
    BY <1>4, <1>5, <1>6, <1>7 DEF CubeletStep, CubeletFault, KillCubelet, RoutinePanics

LEMMA BoundStep == ASSUME TypeOK, Handover, AllBound, [Next]_vars PROVE AllBound'
<1>1. boundTo \subseteq boundTo' /\ StoreBound' /\ StreamBound'
    BY StepMoves, StoreBoundStep DEF AllBound, TypeOK
<1>2. ASSUME UNCHANGED <<podCache, podEvent, sync, docker>>
      PROVE  CacheBound' /\ EventBound' /\ BoundBeforeRun'
    BY <1>1, <1>2 DEF AllBound, CacheBound, EventBound, BoundBeforeRun
<1>3. CacheBound' /\ EventBound' /\ BoundBeforeRun'
  <2>1. CASE \E n \in Node : OnNode(CubeletStep(n) \/ CubeletFault(n))
    BY <1>1, <2>1, CacheBoundStep, DockerBoundStep DEF OnNode
  <2>2. CASE SchedStep \/ SchedFault \/ \E r \in Requester : Commit(r) \/ PutFails(r)
    BY <1>2, <2>2 DEF PutFails, SchedStep, SchedList, SchedListed, SchedWatchPods, SchedTurn, SchedClosed,
       SchedulePod, SchedFault, SchedLosesWatch, SchedGivesUp, KillScheduler, RestartScheduler, Commit,
       cubeletVars
  <2>3. CASE \/ \E p \in Pod, s \in PodSpec : CreatePod(p, s) \/ RewritePod(p, s)
             \/ \E p \in Pod : DeletePod(p)
    BY <1>2, <2>3 DEF CreatePod, RewritePod, DeletePod, cubeletVars
  <2>4. CASE UNCHANGED vars
    BY <1>2, <2>4 DEF vars, cubeletVars
  <2>5. QED
    BY <2>1, <2>2, <2>3, <2>4 DEF Next
<1>4. QED
    BY <1>1, <1>3 DEF AllBound

LEMMA InitBound == Init => AllBound
<1> SUFFICES ASSUME Init PROVE AllBound
    OBVIOUS
<1>1. StoreBound /\ StreamBound
    BY DEF Init, StoreInit, StoreBound, StreamBound, Held
<1>2. CacheBound /\ EventBound /\ BoundBeforeRun
    BY DEF Init, CubeletInit, CacheBound, EventBound, BoundBeforeRun, NoCopies, Idle
<1>3. QED
    BY <1>1, <1>2 DEF AllBound

\* Whatever connections are lost, cubelets die and requests come late, a node runs
\* nothing of a pod that no write to etcd ever bound to it.
THEOREM RunsWhereBound == Spec => []BoundBeforeRun
<1>1. Init => TypeOK /\ Handover /\ AllBound
    BY InitTyped, InitBound
<1>2. TypeOK /\ Handover /\ AllBound /\ [Next]_vars => TypeOK' /\ Handover' /\ AllBound'
    BY TypeStep, HandoverStep, BoundStep
<1>3. AllBound => BoundBeforeRun
    BY DEF AllBound
<1>4. QED
    BY <1>1, <1>2, <1>3, PTL DEF Spec

-----------------------------------------------------------------------------
(* A pod that no user rewrites is bound to one node *)

\* OneNodePerPod is not inductive: it rests on the unbound object of a pod being in
\* one place at most of those on its way to a binding.
Unbound(o) == o # NoPod /\ o.node = NoNode
Asked(p) == request[Sched] # NoReq /\ request[Sched].pod = p
Bound(p) == \E n \in Node : <<p, n>> \in boundTo
OfPod(p, i) == i \in DOMAIN stream[SchedWatch] /\ stream[SchedWatch][i].pod = p
Queued(p, i) == OfPod(p, i) /\ Unbound(stream[SchedWatch][i].obj)

\* Only the scheduler gives a pod a new node: what a cubelet writes back is bound to
\* its own node already.
CacheMine == \A n \in Node, p \in Pod : podCache[n][p] # NoPod => podCache[n][p].node = n
EventMine ==
    \A n \in Node : podEvent[n] # NoEvent /\ podEvent[n].type # "remove" => podEvent[n].obj.node = n
SyncMine ==
    \A n \in Node : sync[n].ev # NoEvent /\ sync[n].ev.type # "remove" => sync[n].ev.obj.node = n
RoutineMine ==
    \A n \in Node, p \in Pod :
        routine[n][p] # NoPod => routine[n][p].node = n /\ <<p, n>> \in boundTo

\* The requesters that are no cubelet's goroutines.
Central == {User, Sched} \cup Late

Own(r, n) ==
    request[r] # NoReq => request[r].obj.node = n /\ <<request[r].pod, n>> \in boundTo

Writeback == \A n \in Node : Own(SyncOf(n), n) /\ \A p \in Pod : Own(PushOf(n, p), n)

AllMine == CacheMine /\ EventMine /\ SyncMine /\ RoutineMine /\ Writeback

\* The scheduler lists before it watches, and waits for its PUTs in between or gives
\* them up; it has nothing in hand when it starts.
SchedOrder ==
    /\ SchedWatch \notin watching => stream[SchedWatch] = <<>>
    /\ sched # "watch" => SchedWatch \notin watching
    /\ sched \in {"list", "dead"} => SchedFree /\ toBind = NoCopies
    /\ \A r \in Late : request[r] # NoReq => request[r].pod \in created
    /\ request[Sched] # NoReq => request[Sched].obj.node \in Node
    /\ request[User] # NoReq => writes[request[User].pod] # 0 /\ request[User].pod \in created

Fresh(p) ==
    p \notin created => /\ store[p] = NoPod /\ toBind[p] = NoPod
                        /\ ~Asked(p) /\ ~Bound(p)
                        /\ \A i : ~OfPod(p, i)

\* No user rewrote p, and no PUT wrote it that its scheduler had left.
Plain(p) == writes[p] = 0 /\ p \notin boundLate

Single(p) ==
    Plain(p) =>
        /\ Unbound(store[p]) => ~Bound(p)
        /\ Unbound(toBind[p]) => ~Bound(p) /\ ~Asked(p) /\ \A i : ~Queued(p, i)
        /\ Asked(p) => ~Bound(p) /\ \A i : ~Queued(p, i)
        /\ \A i : Queued(p, i) => ~Bound(p) /\ \A j : Queued(p, j) => i = j

OneBinder == \A p \in Pod : Fresh(p) /\ Single(p)

\* The names of requesters and clients are distinct.
LEMMA Names ==
    /\ User # Sched /\ User \notin Late /\ Sched \notin Late
    /\ \A n : SyncOf(n) \notin Central
    /\ \A n, p : PushOf(n, p) \notin Central
    /\ \A n, m, p : SyncOf(n) # PushOf(m, p)
    /\ \A n, m : SyncOf(n) = SyncOf(m) => n = m
    /\ \A n, m, p, q : PushOf(n, p) = PushOf(m, q) => n = m /\ p = q
    /\ \A n : CubeletWatch(n) # SchedWatch
    /\ \A n, m : CubeletWatch(n) = CubeletWatch(m) => n = m
<1>0. User[1] = "user" /\ Sched[1] = "sched" /\ \A r \in Late : r[1] = "late"
    BY DEF User, Sched, Late, LateOf
<1>1. User # Sched /\ User \notin Late /\ Sched \notin Late
    BY <1>0
<1>2. ASSUME NEW n PROVE SyncOf(n) \notin Central
  <2>1. SyncOf(n)[1] = "sync"
    BY DEF SyncOf
  <2>2. QED
    BY <1>0, <2>1 DEF Central
<1>3. ASSUME NEW n, NEW p PROVE PushOf(n, p) \notin Central
  <2>1. PushOf(n, p)[1] = "push"
    BY DEF PushOf
  <2>2. QED
    BY <1>0, <2>1 DEF Central
<1>4. ASSUME NEW n, NEW m, NEW p PROVE SyncOf(n) # PushOf(m, p)
  <2>1. SyncOf(n)[1] = "sync" /\ PushOf(m, p)[1] = "push"
    BY DEF SyncOf, PushOf
  <2>2. QED
    BY <2>1
<1>5. ASSUME NEW n, NEW m, SyncOf(n) = SyncOf(m) PROVE n = m
    BY <1>5 DEF SyncOf
<1>6. ASSUME NEW n, NEW m, NEW p, NEW q, PushOf(n, p) = PushOf(m, q) PROVE n = m /\ p = q
    BY <1>6 DEF PushOf
<1>7. ASSUME NEW n PROVE CubeletWatch(n) # SchedWatch
  <2>1. CubeletWatch(n)[1] = "cubelet" /\ SchedWatch[1] = "scheduler"
    BY DEF CubeletWatch, SchedWatch
  <2>2. QED
    BY <2>1
<1>8. ASSUME NEW n, NEW m, CubeletWatch(n) = CubeletWatch(m) PROVE n = m
    BY <1>8 DEF CubeletWatch
<1>9. QED
    BY <1>1, <1>2, <1>3, <1>4, <1>5, <1>6, <1>7, <1>8
-----------------------------------------------------------------------------
(* What the cubelets do to it *)

\* A cubelet leaves etcd, and all that waits to be bound, as they were.
LEMMA CubeletFrame ==
    ASSUME TypeOK, NEW n \in Node, CubeletStep(n) \/ CubeletFault(n)
    PROVE  /\ UNCHANGED <<store, boundTo>>
           /\ \A r \in Central : request'[r] = request[r]
           /\ stream'[SchedWatch] = stream[SchedWatch]
           /\ SchedWatch \in watching' <=> SchedWatch \in watching
<1> DEFINE Frame == /\ UNCHANGED <<store, boundTo>>
                    /\ \A r \in Central : request'[r] = request[r]
                    /\ stream'[SchedWatch] = stream[SchedWatch]
                    /\ SchedWatch \in watching' <=> SchedWatch \in watching
<1> SUFFICES Frame
    OBVIOUS
<1>0. /\ SchedWatch \in Client /\ CubeletWatch(n) \in Client /\ CubeletWatch(n) # SchedWatch
      /\ Central \subseteq Requester
    BY Names DEF Client, Requester, Central
<1>1. CASE UNCHANGED storeVars
    BY <1>1 DEF storeVars
<1>2. ASSUME \/ OpenWatch(CubeletWatch(n)) \/ CloseWatch(CubeletWatch(n))
             \/ TakeEvent(CubeletWatch(n)) \/ \E known : ListPods(CubeletWatch(n), known)
      PROVE  Frame
    BY <1>0, <1>2 DEF OpenWatch, CloseWatch, TakeEvent, ListPods, TypeOK, StoreTypeOK
<1>3. ASSUME NEW r \in Requester, r \notin Central,
             DropPut(r) \/ \E p, o : PutPodFound(r, p, o)
      PROVE  Frame
    BY <1>0, <1>3 DEF DropPut, PutPodFound, TypeOK, StoreTypeOK
<1> HIDE DEF Frame
<1>4. SyncOf(n) \in Requester /\ SyncOf(n) \notin Central
    BY Names DEF Requester
<1>5. CASE ListMyPods(n) \/ WatchMyPods(n) \/ WatchTurn(n) \/ WatchClosed(n) \/ LoseWatch(n)
    BY <1>1, <1>2, <1>5, <1>0 DEF ListMyPods, WatchMyPods, WatchTurn, WatchClosed, LoseWatch, Frame
<1>6. CASE Dies(n)
    BY <1>2, <1>6 DEF Dies
<1>7. CASE SyncPush(n)
    BY <1>1, <1>3, <1>4, <1>7 DEF SyncPush, PutPodNotFound, Frame
<1>8. ASSUME UNCHANGED storeVars PROVE Frame
    BY <1>8 DEF storeVars, Frame
<1>9. CASE \/ Receive(n) \/ SyncWork(n) \/ SyncWorkFails(n) \/ SyncPushed(n) \/ SyncPushFails(n)
           \/ RoutineStart(n) \/ RoutineEnd(n) \/ RestartCubelet(n) \/ \E p \in Pod : DockerStop(n, p)
    BY <1>8, <1>9 DEF Receive, SyncWork, SyncWorkFails, SyncPushed, SyncPushFails, RoutineStart,
       RoutineEnd, RestartCubelet, DockerStop
<1>10. ASSUME NEW p \in Pod, RoutinePush(n, p) \/ RoutinePushed(n, p) \/ RoutinePushFails(n, p)
       PROVE  Frame
  <2>1. PushOf(n, p) \in Requester /\ PushOf(n, p) \notin Central
    BY Names DEF Requester
  <2>2. QED
    BY <1>3, <1>8, <1>10, <2>1 DEF RoutinePush, RoutinePushed, RoutinePushFails, PutPodNotFound
<1>11. QED
    BY <1>5, <1>6, <1>7, <1>9, <1>10 DEF CubeletStep, CubeletFault, KillCubelet, RoutinePanics

\* The event in the pod loop stays there, or is done with.
LEMMA SyncEvent ==
    ASSUME TypeOK, NEW n \in Node, NEW m \in Node,
           \/ \E pc : sync' = [sync EXCEPT ![n].pc = pc]
           \/ sync' = [sync EXCEPT ![n] = Idle]
           \/ UNCHANGED sync
    PROVE  sync'[m].ev = NoEvent \/ sync'[m].ev = sync[m].ev
<1>1. sync[n] \in SyncState
    BY DEF TypeOK, CubeletTypeOK
<1>2. sync[n] = [pc |-> sync[n].pc, ev |-> sync[n].ev]
    BY <1>1 DEF SyncState, Idle
<1>3. ASSUME NEW pc, sync' = [sync EXCEPT ![n].pc = pc] PROVE sync'[m].ev = sync[m].ev
  <2>1. sync'[m] = IF m = n THEN [sync[n] EXCEPT !.pc = pc] ELSE sync[m]
    BY <1>3 DEF TypeOK, CubeletTypeOK
  <2>2. [sync[n] EXCEPT !.pc = pc].ev = sync[n].ev
    BY <1>2
  <2>3. QED
    BY <2>1, <2>2
<1>4. CASE sync' = [sync EXCEPT ![n] = Idle]
    BY <1>4 DEF Idle, TypeOK, CubeletTypeOK
<1>5. QED
    BY <1>3, <1>4

\* What a cubelet takes in, it takes because it is bound to it.
LEMMA MineStep ==
    ASSUME TypeOK, AllBound, AllMine, NEW n \in Node,
           CubeletStep(n) \/ CubeletFault(n), UNCHANGED boundTo
    PROVE  CacheMine' /\ EventMine' /\ SyncMine' /\ RoutineMine'
<1> USE DEF TypeOK, CubeletTypeOK, AllMine
<1>1. ASSUME UNCHANGED podCache PROVE CacheMine'
    BY <1>1 DEF CacheMine
<1>2. ASSUME UNCHANGED podEvent PROVE EventMine'
    BY <1>2 DEF EventMine
<1>3. ASSUME UNCHANGED sync PROVE SyncMine'
    BY <1>3 DEF SyncMine
<1>4. ASSUME UNCHANGED routine PROVE RoutineMine'
    BY <1>4 DEF RoutineMine
<1>5. ASSUME NEW p \in Pod, podCache' = [podCache EXCEPT ![n][p] = NoPod] PROVE CacheMine'
    BY <1>5 DEF CacheMine
<1>6. CASE ListMyPods(n)
  <2>1. CacheMine'
    BY <1>6 DEF ListMyPods, MyPods, CacheMine
  <2>2. QED
    BY <1>2, <1>3, <1>4, <1>6, <2>1 DEF ListMyPods
<1>7. CASE WatchTurn(n)
  <2> DEFINE e == Head(stream[CubeletWatch(n)])
  <2>1. e.pod \in Pod
    <3>1. CubeletWatch(n) \in Client
        BY DEF Client
    <3>2. e \in Event
        BY <1>7, <3>1, StreamType DEF WatchTurn
    <3>3. QED
        BY <3>2 DEF Event
  <2>2. \/ InformDelete(n, e.pod)
        \/ ForMe(n, e.obj) /\ InformPut(n, e.pod, e.obj)
        \/ Quiet /\ UNCHANGED podCache
    BY <1>7 DEF WatchTurn
  <2> HIDE DEF e
  <2>3. ASSUME NEW type, NEW o, Offer(n, type, e.pod, o), type # "remove" => o.node = n
        PROVE  EventMine'
    BY <2>3 DEF Offer, EventMine
  <2>4. ASSUME InformDelete(n, e.pod) PROVE CacheMine' /\ EventMine'
    BY <1>2, <1>5, <2>1, <2>3, <2>4 DEF InformDelete, Quiet
  <2>5. ASSUME ForMe(n, e.obj), InformPut(n, e.pod, e.obj) PROVE CacheMine' /\ EventMine'
    <3>1. CacheMine'
        BY <2>5 DEF InformPut, ForMe, CacheMine
    <3>2. EventMine'
        BY <1>2, <2>3, <2>5 DEF InformPut, ForMe, Quiet
    <3>3. QED
        BY <3>1, <3>2
  <2>6. ASSUME Quiet, UNCHANGED podCache PROVE CacheMine' /\ EventMine'
    BY <1>1, <1>2, <2>6 DEF Quiet
  <2>7. CacheMine' /\ EventMine'
    BY <2>2, <2>4, <2>5, <2>6
  <2>8. QED
    BY <1>3, <1>4, <1>7, <2>7 DEF WatchTurn
<1>8. CASE Receive(n)
    BY <1>1, <1>4, <1>8 DEF Receive, EventMine, SyncMine
<1>9. ASSUME UNCHANGED <<podCache, podEvent, routine>>,
             \/ \E pc : sync' = [sync EXCEPT ![n].pc = pc]
             \/ sync' = [sync EXCEPT ![n] = Idle]
      PROVE  CacheMine' /\ EventMine' /\ SyncMine' /\ RoutineMine'
    BY <1>1, <1>2, <1>4, <1>9, SyncEvent DEF SyncMine
<1>10. CASE SyncWork(n) \/ SyncWorkFails(n)
    BY <1>9, <1>10 DEF SyncWork, SyncWorkFails, SyncLeaves
<1>11. CASE SyncPush(n) \/ SyncPushed(n) \/ SyncPushFails(n)
    BY <1>9, <1>11 DEF SyncPush, SyncPushed, SyncPushFails, SyncUnlock
<1>12. CASE RoutineStart(n)
  <2>1. RoutineMine'
    BY <1>12 DEF RoutineStart, RoutineMine, CacheMine, AllBound, CacheBound
  <2>2. QED
    BY <1>1, <1>2, <1>3, <1>12, <2>1 DEF RoutineStart
<1>13. CASE WatchMyPods(n) \/ WatchClosed(n) \/ LoseWatch(n) \/ RoutineEnd(n) \/ RestartCubelet(n)
    BY <1>1, <1>2, <1>3, <1>4, <1>13
       DEF WatchMyPods, WatchClosed, LoseWatch, RoutineEnd, RestartCubelet
<1>14. CASE Dies(n)
    BY <1>14 DEF Dies, NoCopies, Idle, CacheMine, EventMine, SyncMine, RoutineMine
<1>15. ASSUME NEW p \in Pod, RoutinePush(n, p) \/ RoutinePushed(n, p) \/ RoutinePushFails(n, p)
       PROVE  CacheMine' /\ EventMine' /\ SyncMine' /\ RoutineMine'
  <2>1. RoutineLeft(n, p) => RoutineMine'
    BY DEF RoutineLeft, RoutineMine
  <2>2. QED
    BY <1>1, <1>2, <1>3, <1>4, <1>5, <1>15, <2>1
       DEF RoutinePush, RoutinePushed, RoutinePushFails, RoutineLeft, ForceRemove
<1>16. ASSUME NEW p \in Pod, DockerStop(n, p)
       PROVE  CacheMine' /\ EventMine' /\ SyncMine' /\ RoutineMine'
    BY <1>1, <1>2, <1>3, <1>4, <1>16 DEF DockerStop
<1>17. QED
    BY <1>6, <1>7, <1>8, <1>10, <1>11, <1>12, <1>13, <1>14, <1>15, <1>16
       DEF CubeletStep, CubeletFault, KillCubelet, RoutinePanics

LEMMA OwnNames ==
    \A n \in Node : SyncOf(n) \in Requester /\ \A p \in Pod : PushOf(n, p) \in Requester
    BY DEF Requester

\* What a cubelet sends to the API server names its own node.
LEMMA WritebackStep ==
    ASSUME TypeOK, AllBound, AllMine, NEW n \in Node,
           CubeletStep(n) \/ CubeletFault(n), UNCHANGED boundTo
    PROVE  Writeback'
<1> USE DEF TypeOK, AllMine
<1>1. ASSUME UNCHANGED request PROVE Writeback'
    BY <1>1 DEF Writeback, Own
<1>2. ASSUME NEW p \in Pod, NEW o, o.node = n, <<p, n>> \in boundTo,
             \/ PutPodFound(SyncOf(n), p, o)
             \/ \E q \in Pod : PutPodFound(PushOf(n, q), p, o)
      PROVE  Writeback'
  <2> DEFINE put == [pod |-> p, obj |-> o]
  <2>1. PICK r \in Requester :
            /\ request' = [request EXCEPT ![r] = put]
            /\ \A m \in Node : r = SyncOf(m) => m = n
            /\ \A m \in Node, q \in Pod : r = PushOf(m, q) => m = n
    <3>1. CASE PutPodFound(SyncOf(n), p, o)
      <4>1. /\ \A m \in Node : SyncOf(n) = SyncOf(m) => m = n
            /\ \A m \in Node, q \in Pod : SyncOf(n) # PushOf(m, q)
          BY Names
      <4>2. SyncOf(n) \in Requester /\ request' = [request EXCEPT ![SyncOf(n)] = put]
          BY <3>1, OwnNames DEF PutPodFound
      <4>3. QED
          BY <4>1, <4>2
    <3>2. ASSUME NEW q \in Pod, PutPodFound(PushOf(n, q), p, o)
          PROVE  \E r \in Requester :
                    /\ request' = [request EXCEPT ![r] = put]
                    /\ \A m \in Node : r = SyncOf(m) => m = n
                    /\ \A m \in Node, x \in Pod : r = PushOf(m, x) => m = n
      <4>1. /\ \A m \in Node, x \in Pod : PushOf(n, q) = PushOf(m, x) => m = n
            /\ \A m \in Node : PushOf(n, q) # SyncOf(m)
          BY Names
      <4>2. PushOf(n, q) \in Requester /\ request' = [request EXCEPT ![PushOf(n, q)] = put]
          BY <3>2, OwnNames DEF PutPodFound
      <4>3. QED
          BY <4>1, <4>2
    <3>3. QED
        BY <1>2, <3>1, <3>2
  <2>2. ASSUME NEW x \in Requester, NEW m \in Node, Own(x, m), x = r => m = n PROVE Own(x, m)'
    <3>1. request'[x] = IF x = r THEN put ELSE request[x]
        BY <2>1 DEF StoreTypeOK
    <3>2. QED
        BY <1>2, <2>2, <3>1 DEF Own
  <2>3. QED
    BY <2>1, <2>2, OwnNames DEF Writeback
<1>3. ASSUME NEW r \in Requester, DropPut(r) PROVE Writeback'
  <2>1. \A x \in Requester : request'[x] = NoReq \/ request'[x] = request[x]
    BY <1>3 DEF DropPut, StoreTypeOK
  <2>2. \A x \in Requester, m \in Node : Own(x, m) => Own(x, m)'
    BY <2>1 DEF Own
  <2>3. QED
    BY <2>2, OwnNames DEF Writeback
<1>4. CASE SyncPush(n)
  <2>1. sync[n] \in SyncState /\ sync[n].pc = "push"
    BY <1>4 DEF SyncPush, CubeletTypeOK
  <2>2. sync[n].ev \in PutEvent
    BY <2>1 DEF SyncState, Idle
  <2>3. /\ sync[n].ev.pod \in Pod /\ sync[n].ev.obj \in PodObj
        /\ sync[n].ev.type # "remove" /\ sync[n].ev.type # "none"
    BY <2>2 DEF PutEvent
  <2>4. sync[n].ev # NoEvent
    BY <2>3 DEF NoEvent
  <2>5. sync[n].ev.obj.node = n /\ <<sync[n].ev.pod, n>> \in boundTo
    BY <2>3, <2>4 DEF SyncMine, AllBound, EventBound
  <2>6. [sync[n].ev.obj EXCEPT !.ip = TRUE].node = n
    BY <2>3, <2>5 DEF PodObj
  <2>7. CASE PutPodFound(SyncOf(n), sync[n].ev.pod, [sync[n].ev.obj EXCEPT !.ip = TRUE])
    BY <1>2, <2>3, <2>5, <2>6, <2>7
  <2>8. CASE PutPodNotFound(SyncOf(n), sync[n].ev.pod)
    BY <1>1, <2>8 DEF PutPodNotFound, storeVars
  <2>9. QED
    BY <1>4, <2>7, <2>8 DEF SyncPush
<1>5. ASSUME NEW p \in Pod, RoutinePush(n, p) PROVE Writeback'
  <2>1. routine[n][p].node = n /\ <<p, n>> \in boundTo
    BY <1>5 DEF RoutinePush, RoutineMine
  <2>2. CASE PutPodFound(PushOf(n, p), p, routine[n][p])
    BY <1>2, <2>1, <2>2
  <2>3. CASE PutPodNotFound(PushOf(n, p), p)
    BY <1>1, <2>3 DEF PutPodNotFound, storeVars
  <2>4. QED
    BY <1>5, <2>2, <2>3 DEF RoutinePush
<1>6. ASSUME NEW p \in Pod, RoutinePushFails(n, p) PROVE Writeback'
  <2>1. PushOf(n, p) \in Requester
    BY DEF Requester
  <2>2. QED
    BY <1>1, <1>3, <1>6, <2>1 DEF RoutinePushFails, storeVars
<1>7. CASE \/ ListMyPods(n) \/ WatchMyPods(n) \/ WatchTurn(n) \/ WatchClosed(n) \/ LoseWatch(n)
           \/ Receive(n) \/ SyncWork(n) \/ SyncWorkFails(n) \/ SyncPushed(n) \/ SyncPushFails(n)
           \/ RoutineStart(n) \/ RoutineEnd(n) \/ RestartCubelet(n) \/ Dies(n)
           \/ \E p \in Pod : DockerStop(n, p) \/ RoutinePushed(n, p)
    BY <1>1, <1>7 DEF ListMyPods, WatchMyPods, WatchTurn, WatchClosed, LoseWatch, Receive, SyncWork,
       SyncWorkFails, SyncPushed, SyncPushFails, RoutineStart, RoutineEnd, RestartCubelet, Dies,
       DockerStop, RoutinePushed, ListPods, OpenWatch, TakeEvent, CloseWatch, storeVars
<1>8. QED
    BY <1>4, <1>5, <1>6, <1>7 DEF CubeletStep, CubeletFault, KillCubelet, RoutinePanics

-----------------------------------------------------------------------------
(* What the others do to it *)

LEMMA MineKept ==
    ASSUME AllMine, UNCHANGED <<podCache, podEvent, sync, routine>>, boundTo \subseteq boundTo',
           \A r \in Requester \ Central : request'[r] = NoReq \/ request'[r] = request[r]
    PROVE  AllMine'
<1>1. CacheMine' /\ EventMine' /\ SyncMine' /\ RoutineMine'
    BY DEF AllMine, CacheMine, EventMine, SyncMine, RoutineMine
<1>2. \A r \in Requester \ Central, n \in Node : Own(r, n) => Own(r, n)'
    BY DEF Own
<1>3. \A n \in Node : SyncOf(n) \in Requester \ Central
    BY OwnNames, Names
<1>4. \A n \in Node, p \in Pod : PushOf(n, p) \in Requester \ Central
    BY OwnNames, Names
<1>5. Writeback'
    BY <1>2, <1>3, <1>4 DEF AllMine, Writeback
<1>6. QED
    BY <1>1, <1>5 DEF AllMine

\* Every step keeps AllMine.
LEMMA AllMineStep ==
    ASSUME TypeOK, Handover, AllBound, AllMine, [Next]_vars PROVE AllMine'
<1> USE DEF TypeOK
<1>0. User \in Central /\ Sched \in Central /\ Central \subseteq Requester
    BY DEF Requester, Central
<1>1. boundTo \subseteq boundTo'
    BY StepMoves, StoreBoundStep DEF AllBound
<1>2. ASSUME UNCHANGED cubeletVars,
             \A r \in Requester \ Central : request'[r] = NoReq \/ request'[r] = request[r]
      PROVE  AllMine'
    BY <1>1, <1>2, MineKept DEF cubeletVars
<1>3. ASSUME UNCHANGED cubeletVars, UNCHANGED request PROVE AllMine'
    BY <1>2, <1>3
<1>4. ASSUME NEW n \in Node, OnNode(CubeletStep(n) \/ CubeletFault(n)) PROVE AllMine'
    BY <1>4, CubeletFrame, MineStep, WritebackStep DEF OnNode, AllMine
<1>5. ASSUME NEW r \in Requester, Commit(r) PROVE AllMine'
    BY <1>2, <1>5 DEF Commit, PutPodCommit, StoreTypeOK
<1>6. ASSUME NEW r \in Requester, PutFails(r) PROVE AllMine'
    BY <1>1, <1>6, MineKept DEF PutFails, DropPut, StoreTypeOK
<1>7. ASSUME UNCHANGED cubeletVars, NEW r \in {User, Sched}, NEW p, NEW o, PutPodFound(r, p, o)
      PROVE  AllMine'
    BY <1>0, <1>2, <1>7 DEF PutPodFound, StoreTypeOK
<1>8. ASSUME NEW p \in Pod, NEW s \in PodSpec, CreatePod(p, s) \/ RewritePod(p, s) PROVE AllMine'
    BY <1>3, <1>7, <1>8 DEF CreatePod, RewritePod, PostPod
<1>9. ASSUME NEW p \in Pod, DeletePod(p) PROVE AllMine'
    BY <1>3, <1>9 DEF DeletePod, DelPod
<1>10. ASSUME NEW p \in Pod, SchedulePod(p) PROVE AllMine'
    BY <1>3, <1>7, <1>10 DEF SchedulePod, PutPodNotFound, storeVars
<1>11. CASE SchedList \/ SchedListed \/ SchedWatchPods \/ SchedTurn \/ SchedClosed
    BY <1>3, <1>11 DEF SchedList, SchedListed, SchedWatchPods, SchedTurn, SchedClosed, ListPods,
       OpenWatch, TakeEvent, storeVars
<1>12. CASE SchedLosesWatch
    BY <1>1, <1>12, MineKept DEF SchedLosesWatch, CloseWatch
<1>13. CASE UNCHANGED vars
    BY <1>3, <1>13 DEF vars, storeVars
<1>14. CASE SchedGivesUp \/ KillScheduler
  <2>1. faults + 1 \in 1..MaxFaults
    BY <1>14, FaultsAssumption DEF SchedGivesUp, KillScheduler, Fault, CubeletTypeOK
  <2>2. LateOf(faults + 1) \in Central
    BY <2>1 DEF Central, Late
  <2>3. \A r \in Requester \ Central : request'[r] = request[r]
    BY <1>0, <1>14, <2>2 DEF SchedGivesUp, KillScheduler, AbandonPut, StoreTypeOK
  <2>4. QED
    BY <1>1, <1>14, <2>3, MineKept DEF SchedGivesUp, KillScheduler
<1>15. CASE RestartScheduler
    BY <1>3, <1>15 DEF RestartScheduler, storeVars
<1>16. QED
    BY <1>4, <1>5, <1>6, <1>8, <1>9, <1>10, <1>11, <1>12, <1>13, <1>14, <1>15
       DEF Next, SchedStep, SchedFault

\* A write adds its event at the end of the scheduler's stream, if it has one.
LEMMA QueuedNotify ==
    ASSUME StoreTypeOK, NEW q \in Pod, NEW o, Notify(q, o), NEW p, NEW i, OfPod(p, i)'
    PROVE  \/ OfPod(p, i) /\ stream'[SchedWatch][i] = stream[SchedWatch][i]
           \/ /\ p = q
              /\ SchedWatch \in watching
              /\ i = Len(stream[SchedWatch]) + 1
              /\ stream'[SchedWatch][i].obj = o
<1> DEFINE e == [pod |-> q, obj |-> o]
<1>1. SchedWatch \in Client
    BY DEF Client
<1>2. stream[SchedWatch] \in Seq(Event)
    BY <1>1 DEF StoreTypeOK
<1>3. stream'[SchedWatch] = IF SchedWatch \in watching THEN Append(stream[SchedWatch], e)
                                                       ELSE stream[SchedWatch]
    BY <1>1 DEF Notify
<1>4. CASE SchedWatch \notin watching
    BY <1>3, <1>4 DEF OfPod
<1>5. CASE SchedWatch \in watching
  <2>1. i \in 1..Len(stream[SchedWatch]) + 1
    BY <1>2, <1>3, <1>5 DEF OfPod
  <2>2. stream'[SchedWatch][i] = IF i = Len(stream[SchedWatch]) + 1 THEN e ELSE stream[SchedWatch][i]
    BY <1>2, <1>3, <1>5, <2>1
  <2>3. CASE i = Len(stream[SchedWatch]) + 1
    BY <1>5, <2>2, <2>3 DEF OfPod
  <2>4. CASE i \in 1..Len(stream[SchedWatch]) /\ i # Len(stream[SchedWatch]) + 1
    <3>1. stream'[SchedWatch][i] = stream[SchedWatch][i]
        BY <2>2, <2>4
    <3>2. i \in DOMAIN stream[SchedWatch]
        BY <1>2, <2>4
    <3>3. QED
        BY <3>1, <3>2 DEF OfPod
  <2>5. QED
    BY <1>2, <2>1, <2>3, <2>4
<1>6. QED
    BY <1>4, <1>5

\* Reading the head of the scheduler's stream moves all others up.
LEMMA QueuedTail ==
    ASSUME StoreTypeOK, TakeEvent(SchedWatch), NEW p, NEW i, OfPod(p, i)'
    PROVE  /\ i \in Nat \ {0}
           /\ OfPod(p, i + 1)
           /\ stream'[SchedWatch][i] = stream[SchedWatch][i + 1]
<1>1. SchedWatch \in Client
    BY DEF Client
<1>2. stream[SchedWatch] \in Seq(Event) /\ stream[SchedWatch] # <<>>
      /\ stream'[SchedWatch] = Tail(stream[SchedWatch])
    BY <1>1 DEF StoreTypeOK, TakeEvent
<1>3. i \in 1..(Len(stream[SchedWatch]) - 1)
    BY <1>2 DEF OfPod
<1>4. stream'[SchedWatch][i] = stream[SchedWatch][i + 1]
    BY <1>2, <1>3
<1>5. i + 1 \in DOMAIN stream[SchedWatch]
    BY <1>2, <1>3
<1>6. QED
    BY <1>3, <1>4, <1>5 DEF OfPod

-----------------------------------------------------------------------------
(* The scheduler *)

LEMMA OrderStep ==
    ASSUME TypeOK, SchedOrder, OneBinder, [Next]_vars PROVE SchedOrder'
<1> USE DEF TypeOK, StoreTypeOK, SchedFree
<1>0. SchedWatch \in Client /\ User \in Requester /\ Sched \in Requester /\ User # Sched
      /\ Late \subseteq Requester /\ User \notin Late /\ Sched \notin Late
      /\ Central = {User, Sched} \cup Late
    BY Names DEF Client, Requester, Central
<1>1. ASSUME NEW n \in Node, OnNode(CubeletStep(n) \/ CubeletFault(n)) PROVE SchedOrder'
    BY <1>0, <1>1, CubeletFrame DEF OnNode, schedVars, userVars, SchedOrder
<1>2. ASSUME UNCHANGED <<sched, toBind, created, writes, watching>>,
             SchedWatch \notin watching => stream'[SchedWatch] = stream[SchedWatch],
             \A r \in Central : request'[r] = NoReq \/ request'[r] = request[r]
      PROVE  SchedOrder'
    BY <1>0, <1>2 DEF SchedOrder
<1>3. ASSUME NEW r \in Requester, Commit(r) PROVE SchedOrder'
    BY <1>0, <1>2, <1>3 DEF Commit, PutPodCommit, PutObj, Notify, schedVars, userVars
<1>4. ASSUME NEW r \in Requester, PutFails(r) PROVE SchedOrder'
    BY <1>0, <1>2, <1>4 DEF PutFails, DropPut, schedVars, userVars
<1>5. ASSUME NEW p \in Pod, NEW s \in PodSpec, CreatePod(p, s) PROVE SchedOrder'
    BY <1>0, <1>5 DEF CreatePod, PostPod, PutObj, Notify, schedVars, SchedOrder
<1>6. ASSUME NEW p \in Pod, NEW s \in PodSpec, RewritePod(p, s) PROVE SchedOrder'
  <2>1. p \in created
    BY <1>6 DEF RewritePod, OneBinder, Fresh
  <2>2. /\ request'[User].pod = p /\ request'[Sched] = request[Sched]
        /\ \A r \in Late : request'[r] = request[r]
    BY <1>0, <1>6 DEF RewritePod, PutPodFound
  <2>3. writes'[p] # 0 /\ \A q \in Pod : writes[q] # 0 => writes'[q] # 0
    BY <1>6 DEF RewritePod
  <2>4. UNCHANGED <<watching, stream, sched, toBind, created>>
    BY <1>6 DEF RewritePod, PutPodFound, schedVars
  <2>5. QED
    BY <2>1, <2>2, <2>3, <2>4 DEF SchedOrder
<1>7. ASSUME NEW p \in Pod, DeletePod(p) PROVE SchedOrder'
    BY <1>0, <1>2, <1>7 DEF DeletePod, DelPod, Notify, schedVars
<1>8. CASE SchedList
    BY <1>8 DEF SchedList, ListPods, userVars, SchedOrder
<1>9. CASE SchedListed \/ SchedClosed
    BY <1>9 DEF SchedListed, SchedClosed, storeVars, userVars, SchedOrder
<1>10. CASE SchedWatchPods
    BY <1>0, <1>10 DEF SchedWatchPods, OpenWatch, userVars, SchedOrder
<1>11. CASE SchedTurn
    BY <1>0, <1>11 DEF SchedTurn, TakeEvent, userVars, SchedOrder
<1>12. ASSUME NEW p \in Pod, SchedulePod(p) PROVE SchedOrder'
  <2>1. ASSUME NEW n \in Node, PutPodFound(Sched, p, [toBind[p] EXCEPT !.node = n])
        PROVE  /\ request'[Sched].obj.node \in Node
               /\ \A r \in {User} \cup Late : request'[r] = request[r]
    <3>1. [toBind[p] EXCEPT !.node = n].node = n
        BY <1>12 DEF SchedulePod, PodObj
    <3>2. QED
        BY <1>0, <2>1, <3>1 DEF PutPodFound
  <2>2. request'[Sched] = request[Sched] \/ request'[Sched].obj.node \in Node
    BY <1>12, <2>1 DEF SchedulePod, PutPodNotFound, storeVars
  <2>3. /\ \A r \in {User} \cup Late : request'[r] = request[r]
        /\ UNCHANGED <<sched, created, writes, watching, stream>>
    BY <1>12, <2>1 DEF SchedulePod, PutPodFound, PutPodNotFound, storeVars, userVars
  <2>4. sched \notin {"list", "dead"}
    BY <1>12 DEF SchedulePod, SchedOrder, NoCopies
  <2>5. QED
    BY <2>2, <2>3, <2>4 DEF SchedOrder
<1>13. CASE SchedLosesWatch
    BY <1>0, <1>13 DEF SchedLosesWatch, CloseWatch, schedVars, userVars, SchedOrder
<1>14. CASE UNCHANGED vars
    BY <1>2, <1>14 DEF vars, storeVars, schedVars, userVars
<1>15. CASE SchedGivesUp \/ KillScheduler
  <2> DEFINE late == LateOf(faults + 1)
  <2>1. late \in Late
    <3>1. faults + 1 \in 1..MaxFaults
        BY <1>15, FaultsAssumption DEF SchedGivesUp, KillScheduler, Fault, CubeletTypeOK
    <3>2. QED
        BY <3>1 DEF Late
  <2> HIDE DEF late
  <2>2. request' = [request EXCEPT ![late] = request[Sched], ![Sched] = NoReq]
    BY <1>15 DEF SchedGivesUp, KillScheduler, AbandonPut, late
  <2>3. request'[Sched] = NoReq /\ request'[User] = request[User]
    BY <1>0, <2>1, <2>2
  <2>4. \A r \in Late : request'[r] \in {request[r], request[Sched]}
    BY <1>0, <2>1, <2>2
  <2>5. request[Sched] # NoReq => request[Sched].pod \in created
    <3>1. request[Sched] # NoReq => request[Sched].pod \in Pod
        BY <1>0 DEF Put
    <3>2. QED
        BY <3>1 DEF OneBinder, Fresh, Asked
  <2>6. \A r \in Late : request'[r] # NoReq => request'[r].pod \in created
    BY <2>4, <2>5 DEF SchedOrder
  <2>7. CASE SchedGivesUp
    BY <2>3, <2>6, <2>7 DEF SchedGivesUp, schedVars, userVars, SchedOrder
  <2>8. CASE KillScheduler
    BY <1>0, <2>3, <2>6, <2>8 DEF KillScheduler, userVars, SchedOrder
  <2>9. QED
    BY <1>15, <2>7, <2>8
<1>16. CASE RestartScheduler
    BY <1>16 DEF RestartScheduler, storeVars, userVars, SchedOrder
<1>17. QED
    BY <1>1, <1>3, <1>4, <1>5, <1>6, <1>7, <1>8, <1>9, <1>10, <1>11, <1>12, <1>13, <1>14, <1>15, <1>16
       DEF Next, SchedStep, SchedFault

\* A write to etcd.
LEMMA BinderCommit ==
    ASSUME TypeOK, AllMine, SchedOrder, OneBinder, NEW r \in Requester, Commit(r)
    PROVE  OneBinder'
<1>0. PICK q \in Pod, o \in PodObj :
        /\ request[r] # NoReq /\ request[r].pod = q /\ request[r].obj = o
        /\ PutObj(q, o) /\ request' = [request EXCEPT ![r] = NoReq]
        /\ UNCHANGED <<toBind, created, writes, watching>>
        /\ boundLate' = IF r \in Late THEN boundLate \cup {q} ELSE boundLate
    BY DEF Commit, PutPodCommit, userVars, TypeOK, StoreTypeOK, Put
<1>1. User \in Requester /\ Sched \in Requester
    BY DEF Requester
<1>2. \A p \in Pod : Asked(p)' => Asked(p) /\ r # Sched
    BY <1>0, <1>1 DEF Asked, TypeOK, StoreTypeOK
<1>3. ASSUME NEW p \in Pod, p # q
      PROVE  /\ store'[p] = store[p]
             /\ Bound(p)' <=> Bound(p)
             /\ \A i : OfPod(p, i)' => OfPod(p, i) /\ stream'[SchedWatch][i] = stream[SchedWatch][i]
    BY <1>0, <1>3, QueuedNotify DEF PutObj, Bound, TypeOK, StoreTypeOK
<1>4. ASSUME NEW p \in Pod, p # q PROVE Fresh(p)' /\ Single(p)'
  <2>1. Fresh(p) /\ Single(p) /\ (Plain(p)' => Plain(p))
    BY <1>0 DEF OneBinder, Plain
  <2>2. \A i : Queued(p, i)' => Queued(p, i)
    BY <1>3, <1>4 DEF Queued
  <2>3. Fresh(p)'
    BY <1>0, <1>2, <1>3, <1>4, <2>1 DEF Fresh
  <2>4. Single(p)'
    BY <1>0, <1>2, <1>3, <1>4, <2>1, <2>2 DEF Single
  <2>5. QED
    BY <2>3, <2>4
<1>5. Fresh(q) /\ Single(q)
    BY <1>0 DEF OneBinder
<1>6. q \in created
  <2>1. CASE r = User
    BY <1>0, <2>1 DEF SchedOrder
  <2>2. CASE r = Sched
    BY <1>0, <1>5, <2>2 DEF Fresh, Asked
  <2>3. CASE r \notin Central
    <3>1. \E n \in Node : Own(r, n)
        BY <2>3 DEF Requester, Central, AllMine, Writeback
    <3>2. QED
        BY <1>0, <1>5, <3>1 DEF Own, Fresh, Bound
  <2>4. CASE r \in Late
    BY <1>0, <2>4 DEF SchedOrder
  <2>5. QED
    BY <2>1, <2>2, <2>3, <2>4 DEF Central
<1>7. Fresh(q)'
    BY <1>0, <1>6 DEF Fresh
<1>8. ASSUME Plain(q), r \notin Late PROVE Single(q)'
  <2>1. r # User
    BY <1>0, <1>8 DEF SchedOrder, Plain
  <2>2. o.node \in Node
       <3>1. CASE r = Sched
        BY <1>0, <3>1 DEF SchedOrder
     <3>2. CASE r # Sched
        <4>1. \E n \in Node : Own(r, n)
            BY <1>8, <2>1, <3>2 DEF Requester, AllMine, Writeback
        <4>2. QED
            BY <1>0, <4>1 DEF Own
     <3>3. QED
        BY <3>1, <3>2
  <2>3. o.node # NoNode /\ store'[q] = o
    BY <1>0, <2>2, NodeAssumption DEF PutObj, TypeOK, StoreTypeOK
  <2>4. \A i : Queued(q, i)' => Queued(q, i)
    <3>1. TAKE i
    <3>2. HAVE Queued(q, i)'
    <3>3. \/ OfPod(q, i) /\ stream'[SchedWatch][i] = stream[SchedWatch][i]
          \/ stream'[SchedWatch][i].obj = o
        BY <1>0, <3>2, QueuedNotify DEF PutObj, Queued, TypeOK
    <3>4. QED
        BY <2>3, <3>2, <3>3 DEF Queued, Unbound
  <2>5. ~Unbound(store[q])'
    BY <2>3 DEF Unbound
  <2>6. CASE r = Sched
    <3>1. Asked(q)
        BY <1>0, <2>6 DEF Asked
    <3>2. ~Unbound(toBind[q]) /\ \A i : ~Queued(q, i)
        BY <1>5, <1>8, <3>1 DEF Single
    <3>3. ~Asked(q)'
        BY <1>0, <1>2, <2>6
    <3>4. ~Unbound(toBind[q])' /\ \A i : ~Queued(q, i)'
        BY <1>0, <2>4, <3>2 DEF Unbound
    <3>5. QED
        BY <2>5, <3>3, <3>4 DEF Single
  <2>7. CASE r # Sched
    <3>1. PICK n \in Node : Own(r, n)
        BY <1>8, <2>1, <2>7 DEF Requester, AllMine, Writeback
    <3>2. Bound(q)
        BY <1>0, <3>1 DEF Own, Bound
    <3>3. ~Unbound(toBind[q]) /\ ~Asked(q) /\ \A i : ~Queued(q, i)
        BY <1>5, <1>8, <3>2 DEF Single
    <3>4. ~Unbound(toBind[q])' /\ ~Asked(q)' /\ \A i : ~Queued(q, i)'
        BY <1>0, <1>2, <2>4, <3>3 DEF Unbound
    <3>5. QED
        BY <2>5, <3>4 DEF Single
  <2>8. QED
    BY <2>6, <2>7
<1>9. ~Plain(q) \/ r \in Late => Single(q)'
    BY <1>0 DEF Single, Plain
<1>10. QED
    BY <1>4, <1>7, <1>8, <1>9 DEF OneBinder

\* A pod of which nothing new waits keeps its invariant.
LEMMA BinderKept ==
    ASSUME NEW p \in Pod, Fresh(p), Single(p), UNCHANGED boundTo, created \subseteq created',
           Plain(p)' => Plain(p),
           store'[p] \in {store[p], NoPod}, toBind'[p] \in {toBind[p], NoPod}, Asked(p)' => Asked(p),
           \/ \A i : OfPod(p, i)' => OfPod(p, i) /\ stream'[SchedWatch][i] = stream[SchedWatch][i]
           \/ \A i : OfPod(p, i)' => /\ i \in Nat /\ OfPod(p, i + 1)
                                     /\ stream'[SchedWatch][i] = stream[SchedWatch][i + 1]
    PROVE  Fresh(p)' /\ Single(p)'
<1>1. Bound(p)' <=> Bound(p)
    BY DEF Bound
<1>2. Fresh(p)'
    BY <1>1 DEF Fresh
<1>3. (Unbound(store[p])' => Unbound(store[p])) /\ (Unbound(toBind[p])' => Unbound(toBind[p]))
    BY DEF Unbound
<1>4. ASSUME \A i : Queued(p, i)' => \E j : Queued(p, j),
             \A i, j : Queued(p, i)' /\ Queued(p, j)' /\ Plain(p) => i = j
      PROVE  Single(p)'
  <2>1. SUFFICES ASSUME Plain(p)'
        PROVE  /\ Unbound(store[p])' => ~Bound(p)'
               /\ Unbound(toBind[p])' => ~Bound(p)' /\ ~Asked(p)' /\ \A i : ~Queued(p, i)'
               /\ Asked(p)' => ~Bound(p)' /\ \A i : ~Queued(p, i)'
               /\ \A i : Queued(p, i)' => ~Bound(p)' /\ \A j : Queued(p, j)' => i = j
    BY DEF Single
  <2>2. /\ Unbound(store[p]) => ~Bound(p)
        /\ Unbound(toBind[p]) => ~Bound(p) /\ ~Asked(p) /\ \A i : ~Queued(p, i)
        /\ Asked(p) => ~Bound(p) /\ \A i : ~Queued(p, i)
        /\ \A i : Queued(p, i) => ~Bound(p)
    BY <2>1 DEF Single
  <2>3. \A i : Queued(p, i)' => ~Bound(p)' /\ \A j : Queued(p, j)' => i = j
    BY <1>1, <1>4, <2>1, <2>2
  <2>4. Unbound(toBind[p])' => ~Bound(p)' /\ ~Asked(p)' /\ \A i : ~Queued(p, i)'
    BY <1>1, <1>3, <1>4, <2>2
  <2>5. Asked(p)' => ~Bound(p)' /\ \A i : ~Queued(p, i)'
    BY <1>1, <1>4, <2>2
  <2>6. QED
    BY <1>1, <1>3, <2>2, <2>3, <2>4, <2>5
<1>5. Plain(p) => \A i, j : Queued(p, i) /\ Queued(p, j) => i = j
    BY DEF Single
<1>6. CASE \A i : Queued(p, i)' => Queued(p, i)
  <2>1. \A i : Queued(p, i)' => \E j : Queued(p, j)
    BY <1>6
  <2>2. \A i, j : Queued(p, i)' /\ Queued(p, j)' /\ Plain(p) => i = j
    BY <1>5, <1>6
  <2>3. QED
    BY <1>2, <1>4, <2>1, <2>2
<1>7. CASE \A i : Queued(p, i)' => i \in Nat /\ Queued(p, i + 1)
  <2>1. \A i, j : Queued(p, i)' /\ Queued(p, j)' /\ i + 1 = j + 1 => i = j
    BY <1>7
  <2>2. \A i : Queued(p, i)' => \E j : Queued(p, j)
    BY <1>7
  <2>3. \A i, j : Queued(p, i)' /\ Queued(p, j)' /\ Plain(p) => i = j
    BY <1>5, <1>7, <2>1
  <2>4. QED
    BY <1>2, <1>4, <2>2, <2>3
<1>8. \/ \A i : Queued(p, i)' => Queued(p, i)
      \/ \A i : Queued(p, i)' => i \in Nat /\ Queued(p, i + 1)
    BY DEF Queued
<1>9. QED
    BY <1>2, <1>6, <1>7, <1>8

\* The users' steps: a new pod has its one unbound object in etcd, and its one
\* event; a rewritten pod is no longer spoken of.
LEMMA BinderUsers ==
    ASSUME TypeOK, SchedOrder, OneBinder, NEW q \in Pod,
           DeletePod(q) \/ \E s \in PodSpec : CreatePod(q, s) \/ RewritePod(q, s)
    PROVE  OneBinder'
<1> USE DEF TypeOK, StoreTypeOK
<1> SUFFICES ASSUME NEW p \in Pod PROVE Fresh(p)' /\ Single(p)'
    BY DEF OneBinder
<1>0. Fresh(p) /\ Single(p)
    BY DEF OneBinder
<1>1. /\ Sched \in Requester /\ User \in Requester /\ User # Sched
      /\ boundLate' = boundLate
  <2>1. Sched \in Requester /\ User \in Requester /\ User # Sched
    BY Names DEF Requester
  <2>2. UNCHANGED schedVars
    BY DEF DeletePod, CreatePod, RewritePod
  <2>3. QED
    BY <2>1, <2>2 DEF schedVars
<1>2. ASSUME NEW s \in PodSpec, CreatePod(q, s) PROVE Fresh(p)' /\ Single(p)'
  <2> DEFINE o == [node |-> NoNode, spec |-> s, ip |-> FALSE]
  <2>1. /\ q \notin created /\ created' = created \cup {q}
        /\ store' = [store EXCEPT ![q] = o] /\ Notify(q, o)
        /\ UNCHANGED <<boundTo, request, watching, writes, toBind>>
    BY <1>2 DEF CreatePod, PostPod, PutObj, schedVars
  <2>2. \A i : OfPod(p, i)' =>
            \/ OfPod(p, i) /\ stream'[SchedWatch][i] = stream[SchedWatch][i]
            \/ p = q /\ i = Len(stream[SchedWatch]) + 1
    BY <2>1, QueuedNotify
  <2>3. CASE p # q
    BY <1>0, <1>1, <2>1, <2>2, <2>3, BinderKept DEF Asked, Plain
  <2>4. CASE p = q
    <3>1. toBind[p] = NoPod /\ ~Asked(p) /\ ~Bound(p) /\ \A i : ~OfPod(p, i)
        BY <1>0, <2>1, <2>4 DEF Fresh
    <3>2. toBind'[p] = NoPod /\ ~Asked(p)' /\ ~Bound(p)'
        BY <2>1, <3>1 DEF Asked, Bound
    <3>3. \A i : OfPod(p, i)' => i = Len(stream[SchedWatch]) + 1
        BY <2>2, <3>1
    <3>4. \A i, j : Queued(p, i)' /\ Queued(p, j)' => i = j
        BY <3>3 DEF Queued
    <3>5. QED
        BY <1>1, <2>1, <2>4, <3>2, <3>4 DEF Fresh, Single, Unbound, Plain
  <2>5. QED
    BY <2>3, <2>4
<1>3. ASSUME NEW s \in PodSpec, RewritePod(q, s) PROVE Fresh(p)' /\ Single(p)'
  <2>1. /\ UNCHANGED <<store, boundTo, stream, created, toBind>>
        /\ request'[Sched] = request[Sched]
        /\ writes' = [writes EXCEPT ![q] = @ + 1]
    BY <1>1, <1>3 DEF RewritePod, PutPodFound, schedVars
  <2>2. Plain(p)' => Plain(p)
    BY <1>1, <2>1 DEF Plain
  <2>3. QED
    BY <1>0, <2>1, <2>2, BinderKept DEF Asked, OfPod
<1>4. CASE DeletePod(q)
  <2>1. /\ store[q] # NoPod /\ store' = [store EXCEPT ![q] = NoPod] /\ Notify(q, NoPod)
        /\ UNCHANGED <<boundTo, request, watching, writes, created, toBind>>
    BY <1>4 DEF DeletePod, DelPod, schedVars
  <2>2. \A i : OfPod(p, i)' =>
            \/ OfPod(p, i) /\ stream'[SchedWatch][i] = stream[SchedWatch][i]
            \/ p = q /\ stream'[SchedWatch][i].obj = NoPod
    BY <2>1, QueuedNotify
  <2>3. CASE p # q
    BY <1>0, <1>1, <2>1, <2>2, <2>3, BinderKept DEF Asked, Plain
  <2>4. CASE p = q
    <3>1. p \in created
        BY <1>0, <2>1, <2>4 DEF Fresh
    <3>2. \A i : Queued(p, i)' => Queued(p, i)
        BY <2>2 DEF Queued, Unbound
    <3>3. ~Unbound(store[p])' /\ (Asked(p)' <=> Asked(p)) /\ (Bound(p)' <=> Bound(p))
        BY <2>1, <2>4 DEF Unbound, Asked, Bound
    <3>4. Single(p)'
        BY <1>0, <1>1, <2>1, <3>2, <3>3 DEF Single, Unbound, Plain
    <3>5. QED
        BY <2>1, <3>1, <3>4 DEF Fresh
  <2>5. QED
    BY <2>3, <2>4
<1>5. QED
    BY <1>2, <1>3, <1>4

\* The scheduler's steps hand the unbound object on, from etcd or the stream to
\* toBind, and from there to the request.
LEMMA BinderSched ==
    ASSUME TypeOK, SchedOrder, OneBinder, SchedStep \/ SchedFault PROVE OneBinder'
<1> USE DEF TypeOK, StoreTypeOK
<1> SUFFICES ASSUME NEW p \in Pod PROVE Fresh(p)' /\ Single(p)'
    BY DEF OneBinder
<1>0. Fresh(p) /\ Single(p)
    BY DEF OneBinder
<1>1. Sched \in Requester /\ SchedWatch \in Client /\ Sched \notin Late /\ Late \subseteq Requester
    BY Names DEF Requester, Client
<1> Plain(p)' <=> Plain(p)
  <2>1. UNCHANGED <<writes, boundLate>>
    BY DEF SchedStep, SchedFault, SchedList, SchedListed, SchedWatchPods, SchedTurn, SchedClosed,
       SchedulePod, SchedLosesWatch, SchedGivesUp, KillScheduler, RestartScheduler, schedVars, userVars
  <2>2. QED
    BY <2>1 DEF Plain
<1>2. CASE SchedList
  <2>1. toBind' = store /\ UNCHANGED <<store, boundTo, stream, request, created, writes>>
    BY <1>2 DEF SchedList, ListPods, userVars
  <2>2. ~Asked(p)' /\ \A i : ~OfPod(p, i)'
    BY <1>2, <2>1 DEF SchedList, SchedOrder, SchedFree, Asked, OfPod
  <2>3. (Bound(p)' <=> Bound(p)) /\ (Unbound(store[p])' <=> Unbound(store[p]))
        /\ (Unbound(toBind[p])' <=> Unbound(store[p]))
    BY <2>1 DEF Bound, Unbound
  <2>4. Fresh(p)'
    BY <1>0, <2>1, <2>2, <2>3 DEF Fresh
  <2>5. Single(p)'
    BY <1>0, <2>1, <2>2, <2>3 DEF Single, Queued
  <2>6. QED
    BY <2>4, <2>5
<1>3. CASE SchedListed \/ SchedClosed
    BY <1>0, <1>3, BinderKept DEF SchedListed, SchedClosed, storeVars, userVars, Asked, OfPod
<1>4. CASE SchedWatchPods \/ SchedLosesWatch
  <2>1. \A i : ~OfPod(p, i)'
    BY <1>1, <1>4 DEF SchedWatchPods, SchedLosesWatch, OpenWatch, CloseWatch, OfPod
  <2>2. QED
    BY <1>0, <1>4, <2>1, BinderKept
       DEF SchedWatchPods, SchedLosesWatch, OpenWatch, CloseWatch, schedVars, userVars, Asked
<1>5. CASE SchedTurn
  <2> DEFINE e == Head(stream[SchedWatch])
  <2>1. e \in Event /\ 1 \in DOMAIN stream[SchedWatch] /\ e = stream[SchedWatch][1]
    <3>1. stream[SchedWatch] \in Seq(Event) /\ stream[SchedWatch] # <<>>
        BY <1>1, <1>5 DEF SchedTurn, TakeEvent
    <3>2. QED
        BY <3>1
  <2>2. /\ TakeEvent(SchedWatch) /\ ~Asked(p) /\ toBind[p] = NoPod
        /\ toBind' = [toBind EXCEPT ![e.pod] = e.obj]
        /\ UNCHANGED <<store, boundTo, request, created, writes>>
    BY <1>5 DEF SchedTurn, SchedFree, TakeEvent, NoCopies, Asked, userVars
  <2>3. \A i : OfPod(p, i)' => /\ i \in Nat \ {0} /\ OfPod(p, i + 1)
                               /\ stream'[SchedWatch][i] = stream[SchedWatch][i + 1]
    BY <2>2, QueuedTail
  <2>4. CASE e.pod # p
    BY <1>0, <2>2, <2>3, <2>4, BinderKept DEF Asked
  <2>5. CASE e.pod = p
    <3>1. OfPod(p, 1)
        BY <2>1, <2>5 DEF OfPod
    <3>2. p \in created
        BY <1>0, <3>1 DEF Fresh
    <3>3. ~Asked(p)' /\ (Bound(p)' <=> Bound(p)) /\ toBind'[p] = e.obj
        BY <2>2, <2>5 DEF Asked, Bound
    <3>4. \A i : Queued(p, i)' => i \in Nat \ {0} /\ Queued(p, i + 1)
        BY <2>3 DEF Queued
    <3>5. CASE ~Unbound(e.obj)
      <4>1. ~Unbound(toBind[p])'
          BY <3>3, <3>5 DEF Unbound
      <4>2. \A i, j : Queued(p, i)' /\ Queued(p, j)' /\ i + 1 = j + 1 => i = j
          BY <3>4
      <4>3. Single(p)'
          BY <1>0, <2>2, <3>3, <3>4, <4>1, <4>2 DEF Single, Unbound
      <4>4. QED
          BY <2>2, <3>2, <4>3 DEF Fresh
    <3>6. CASE Unbound(e.obj)
      <4>1. Queued(p, 1)
          BY <2>1, <3>1, <3>6 DEF Queued
      <4>2. Plain(p) => ~Bound(p) /\ \A j : Queued(p, j) => 1 = j
          BY <1>0, <4>1 DEF Single
      <4>3. Plain(p) => \A i : ~Queued(p, i)'
        <5>1. \A i \in Nat \ {0} : i + 1 # 1
            OBVIOUS
        <5>2. QED
            BY <3>4, <4>2, <5>1
      <4>4. Single(p)'
          BY <2>2, <3>3, <4>2, <4>3 DEF Single
      <4>5. QED
          BY <2>2, <3>2, <4>4 DEF Fresh
    <3>7. QED
        BY <3>5, <3>6
  <2>6. QED
    BY <2>4, <2>5
<1>6. ASSUME NEW q \in Pod, SchedulePod(q) PROVE Fresh(p)' /\ Single(p)'
  <2>1. /\ toBind[q] # NoPod /\ toBind' = [toBind EXCEPT ![q] = NoPod] /\ ~Asked(p)
        /\ UNCHANGED <<store, boundTo, stream, created, writes>>
    BY <1>6 DEF SchedulePod, SchedFree, PutPodFound, PutPodNotFound, storeVars, userVars, Asked
  <2>2. CASE UNCHANGED request
    BY <1>0, <2>1, <2>2, BinderKept DEF Asked, OfPod
  <2>3. CASE NeedsNode(toBind[q]) /\ \E n \in Node : PutPodFound(Sched, q, [toBind[q] EXCEPT !.node = n])
    <3>1. request'[Sched].pod = q
        BY <1>1, <2>3 DEF PutPodFound
    <3>2. CASE p # q
        BY <1>0, <2>1, <3>1, <3>2, BinderKept DEF Asked, OfPod
    <3>3. CASE p = q
      <4>1. Unbound(toBind[p])
          BY <2>1, <2>3, <3>3 DEF Unbound, NeedsNode
      <4>2. p \in created
          BY <1>0, <2>1, <3>3 DEF Fresh
      <4>3. Plain(p) => ~Bound(p) /\ \A i : ~Queued(p, i)
          BY <1>0, <4>1 DEF Single
      <4>4. Plain(p) => ~Bound(p)' /\ \A i : ~Queued(p, i)'
          BY <2>1, <4>3 DEF Bound, Queued, OfPod, Unbound
      <4>5. ~Unbound(toBind[p])'
          BY <2>1, <3>3 DEF Unbound
      <4>6. QED
          BY <2>1, <4>2, <4>4, <4>5 DEF Fresh, Single
    <3>4. QED
        BY <3>2, <3>3
  <2>4. QED
    BY <1>6, <2>2, <2>3 DEF SchedulePod, PutPodNotFound, storeVars
<1>7. CASE SchedGivesUp
  <2>1. ~Asked(p)' /\ UNCHANGED <<store, boundTo, stream, toBind, created>>
    BY <1>1, <1>7 DEF SchedGivesUp, AbandonPut, Asked, schedVars, userVars
  <2>2. QED
    BY <1>0, <2>1, BinderKept DEF OfPod
<1>8. CASE KillScheduler
  <2>1. /\ ~Asked(p)' /\ toBind'[p] = NoPod /\ \A i : ~OfPod(p, i)'
        /\ UNCHANGED <<store, boundTo, created>>
    BY <1>1, <1>8 DEF KillScheduler, AbandonPut, Asked, OfPod, NoCopies, userVars
  <2>2. QED
    BY <1>0, <2>1, BinderKept
<1>9. CASE RestartScheduler
    BY <1>0, <1>9, BinderKept DEF RestartScheduler, storeVars, userVars, Asked, OfPod
<1>10. QED
    BY <1>2, <1>3, <1>4, <1>5, <1>6, <1>7, <1>8, <1>9 DEF SchedStep, SchedFault

\* Every step keeps the invariant.
LEMMA BinderStep ==
    ASSUME TypeOK, AllMine, SchedOrder, OneBinder, [Next]_vars PROVE OneBinder'
<1>0. \A p \in Pod : Fresh(p) /\ Single(p)
    BY DEF OneBinder
<1>1. ASSUME UNCHANGED <<store, boundTo, toBind, created, writes, boundLate>>,
             stream'[SchedWatch] = stream[SchedWatch],
             request'[Sched] = NoReq \/ request'[Sched] = request[Sched]
      PROVE  OneBinder'
    BY <1>0, <1>1, BinderKept DEF OneBinder, Asked, OfPod, Plain
<1>2. ASSUME NEW n \in Node, OnNode(CubeletStep(n) \/ CubeletFault(n)) PROVE OneBinder'
    BY <1>1, <1>2, CubeletFrame DEF OnNode, schedVars, userVars, Central
<1>3. ASSUME NEW r \in Requester, PutFails(r) PROVE OneBinder'
    BY <1>1, <1>3 DEF PutFails, DropPut, schedVars, userVars, TypeOK, StoreTypeOK, Requester
<1>4. CASE UNCHANGED vars
    BY <1>1, <1>4 DEF vars, storeVars, schedVars, userVars
<1>5. QED
    BY <1>2, <1>3, <1>4, BinderCommit, BinderUsers, BinderSched DEF Next

\* The first write that binds a pod finds it bound to no node; later ones name the
\* node it is bound to.
LEMMA OneNodeStep ==
    ASSUME TypeOK, Handover, AllBound, AllMine, SchedOrder, OneBinder, OneNodePerPod, [Next]_vars
    PROVE  OneNodePerPod'
<1> USE DEF TypeOK, StoreTypeOK
<1>0. /\ \A p \in Pod, n1, n2 \in Node :
            Plain(p) /\ <<p, n1>> \in boundTo /\ <<p, n2>> \in boundTo => n1 = n2
      /\ (\A p \in Pod, n1, n2 \in Node :
            Plain(p)' /\ <<p, n1>> \in boundTo' /\ <<p, n2>> \in boundTo' => n1 = n2)
         => OneNodePerPod'
    BY DEF OneNodePerPod, Plain
<1>1. ASSUME UNCHANGED boundTo, \A p \in Pod : Plain(p)' => Plain(p)
      PROVE  OneNodePerPod'
    BY <1>1 DEF OneNodePerPod, Plain
<1>2. ASSUME NEW n \in Node, OnNode(CubeletStep(n) \/ CubeletFault(n)) PROVE OneNodePerPod'
    BY <1>1, <1>2, CubeletFrame DEF OnNode, userVars, schedVars, Plain
<1>3. ASSUME NEW r \in Requester, Commit(r) PROVE OneNodePerPod'
  <2>1. PICK q \in Pod, o \in PodObj :
            /\ request[r] # NoReq /\ request[r].pod = q /\ request[r].obj = o
            /\ PutObj(q, o) /\ UNCHANGED writes
            /\ boundLate' = IF r \in Late THEN boundLate \cup {q} ELSE boundLate
    BY <1>3 DEF Commit, PutPodCommit, userVars, Put
  <2> \A p \in Pod : Plain(p)' => Plain(p)
    BY <2>1 DEF Plain
  <2>2. CASE r = User \/ r \in Late
    <3>1. ~Plain(q)'
        BY <2>1, <2>2 DEF SchedOrder, Plain
    <3>2. \A p \in Pod, n \in Node : p # q => (<<p, n>> \in boundTo' <=> <<p, n>> \in boundTo)
        BY <2>1 DEF PutObj
    <3>3. QED
        BY <1>0, <2>1, <3>1, <3>2
  <2>3. CASE r = Sched
    <3>1. Plain(q) => ~Bound(q)
        BY <2>1, <2>3 DEF Asked, OneBinder, Single
    <3>2. \A p \in Pod, n \in Node :
            <<p, n>> \in boundTo' <=> <<p, n>> \in boundTo \/ (p = q /\ n = o.node /\ n # NoNode)
        BY <2>1, NodeAssumption DEF PutObj
    <3>3. Plain(q) => \A n \in Node : <<q, n>> \notin boundTo
        BY <3>1 DEF Bound
    <3>4. ASSUME NEW p \in Pod, NEW n1 \in Node, NEW n2 \in Node, Plain(p)',
                 <<p, n1>> \in boundTo', <<p, n2>> \in boundTo'
          PROVE  n1 = n2
      <4>1. Plain(p)
          BY <2>1, <3>4
      <4>2. CASE p = q
        <5>1. n1 = o.node /\ n2 = o.node
            BY <3>2, <3>3, <3>4, <4>1, <4>2
        <5>2. QED
            BY <5>1
      <4>3. CASE p # q
        <5>1. <<p, n1>> \in boundTo /\ <<p, n2>> \in boundTo
            BY <3>2, <3>4, <4>3
        <5>2. QED
            BY <1>0, <4>1, <5>1
      <4>4. QED
          BY <4>2, <4>3
    <3>5. QED
        BY <1>0, <3>4
  <2>4. CASE r \notin Central
    <3>1. PICK n \in Node : Own(r, n)
        BY <2>4 DEF Requester, Central, AllMine, Writeback
    <3>2. boundTo' = boundTo
        BY <2>1, <3>1 DEF Own, PutObj
    <3>3. QED
        BY <1>1, <2>1, <3>2
  <2>5. QED
    BY <2>2, <2>3, <2>4 DEF Central
<1>4. ASSUME NEW r \in Requester, PutFails(r) PROVE OneNodePerPod'
    BY <1>1, <1>4 DEF PutFails, DropPut, schedVars, userVars, Plain
<1>5. CASE SchedStep \/ SchedFault
  <2>1. UNCHANGED <<boundTo, writes, boundLate>>
    BY <1>5 DEF SchedStep, SchedList, SchedListed, SchedWatchPods, SchedTurn, SchedClosed,
       SchedulePod, SchedFault, SchedLosesWatch, SchedGivesUp, KillScheduler, RestartScheduler,
       AbandonPut, ListPods, OpenWatch, TakeEvent, CloseWatch, PutPodFound, PutPodNotFound, storeVars,
       schedVars, userVars
  <2>2. QED
    BY <1>1, <2>1 DEF Plain
<1>6. ASSUME NEW p \in Pod, NEW s \in PodSpec, CreatePod(p, s) PROVE OneNodePerPod'
    BY <1>1, <1>6 DEF CreatePod, PostPod, PutObj, schedVars, Plain
<1>7. ASSUME NEW p \in Pod, NEW s \in PodSpec, RewritePod(p, s) PROVE OneNodePerPod'
  <2>1. \A q \in Pod : Plain(q)' => Plain(q)
    BY <1>7 DEF RewritePod, schedVars, Plain
  <2>2. QED
    BY <1>1, <1>7, <2>1 DEF RewritePod, PutPodFound
<1>8. ASSUME NEW p \in Pod, DeletePod(p) PROVE OneNodePerPod'
    BY <1>1, <1>8 DEF DeletePod, DelPod, schedVars, Plain
<1>9. CASE UNCHANGED vars
    BY <1>1, <1>9 DEF vars, storeVars, schedVars, userVars, Plain
<1>10. QED
    BY <1>2, <1>3, <1>4, <1>5, <1>6, <1>7, <1>8, <1>9 DEF Next

LEMMA InitMine == Init => AllMine
<1> SUFFICES ASSUME Init PROVE AllMine
    OBVIOUS
<1>1. CacheMine /\ EventMine /\ SyncMine /\ RoutineMine
    BY DEF Init, CubeletInit, NoCopies, Idle, CacheMine, EventMine, SyncMine, RoutineMine
<1>2. \A r \in Requester : request[r] = NoReq
    BY DEF Init, StoreInit
<1>3. QED
    BY <1>1, <1>2, OwnNames DEF AllMine, Writeback, Own

\* The scheduler overwrites whole objects it read some time ago, and lists again
\* whenever its watch is lost or it is restarted; and yet a pod that no user rewrites
\* is bound to one node, whoever dies, restarts or comes late, as long as no PUT is
\* written that its scheduler had given up or did not live to see answered.
THEOREM BoundOnce == Spec => []OneNodePerPod
<1> DEFINE IInv == /\ TypeOK /\ Handover /\ AllBound
                   /\ AllMine /\ SchedOrder /\ OneBinder /\ OneNodePerPod
<1>1. Init => IInv
  <2> SUFFICES ASSUME Init PROVE IInv
    OBVIOUS
  <2>1. TypeOK /\ Handover
    BY InitTyped
  <2>2. AllBound
    BY InitBound
  <2>3. AllMine
    BY InitMine
  <2>4. \A r \in Requester : request[r] = NoReq
    BY DEF Init, StoreInit
  <2>6. User \in Requester /\ Sched \in Requester /\ Late \subseteq Requester /\ SchedWatch \in Client
    BY DEF Requester, Client
  <2>7. SchedOrder
    BY <2>4, <2>6 DEF Init, StoreInit, SchedOrder, SchedFree
  <2>8. \A p \in Pod : /\ store[p] = NoPod /\ toBind[p] = NoPod /\ ~Asked(p) /\ ~Bound(p)
                       /\ \A i : ~OfPod(p, i)
    BY <2>4, <2>6 DEF Init, StoreInit, NoCopies, Asked, Bound, OfPod
  <2>9. OneBinder
    BY <2>8 DEF OneBinder, Fresh, Single, Queued, Unbound
  <2>10. OneNodePerPod
    BY DEF Init, StoreInit, OneNodePerPod
  <2>11. QED
    BY <2>1, <2>2, <2>3, <2>7, <2>9, <2>10
<1>2. IInv /\ [Next]_vars => IInv'
    BY TypeStep, HandoverStep, BoundStep, AllMineStep, OrderStep, BinderStep, OneNodeStep
<1>3. IInv => OneNodePerPod
    OBVIOUS
<1>4. QED
    BY <1>1, <1>2, <1>3, PTL DEF Spec

-----------------------------------------------------------------------------
(* The events of a pod in the stream of a client *)

At(c, p, i) == i \in DOMAIN stream[c] /\ stream[c][i].pod = p
FirstAt(c, p, i) == At(c, p, i) /\ \A j : At(c, p, j) => i <= j
LastAt(c, p, i) == At(c, p, i) /\ \A j : At(c, p, j) => j <= i

\* Event j of the pod is the one after event i.
Adjacent(c, p, i, j) ==
    /\ At(c, p, i) /\ At(c, p, j)
    /\ i < j
    /\ \A k : At(c, p, k) => k <= i \/ j <= k

LEMMA LastUnique ==
    ASSUME StoreTypeOK, NEW c \in Client, NEW p, NEW i, NEW j, LastAt(c, p, i), LastAt(c, p, j)
    PROVE  i = j
<1>1. stream[c] \in Seq(Event)
    BY DEF StoreTypeOK
<1>2. i \in Nat /\ j \in Nat /\ i <= j /\ j <= i
    BY <1>1 DEF LastAt, At
<1>3. QED
    BY <1>2

\* A write adds its event at the end of every open stream.
LEMMA AtNotify ==
    ASSUME StoreTypeOK, NEW q \in Pod, NEW o, Notify(q, o), NEW c \in Client
    PROVE  /\ c \notin watching => stream'[c] = stream[c]
           /\ c \in watching =>
                /\ Len(stream[c]) \in Nat
                /\ stream'[c][Len(stream[c]) + 1].obj = o
                /\ \A p, i : At(c, p, i)' <=> \/ At(c, p, i)
                                              \/ p = q /\ i = Len(stream[c]) + 1
                /\ \A p, i : At(c, p, i) => /\ i \in 1..Len(stream[c])
                                            /\ stream'[c][i] = stream[c][i]
<1> DEFINE e == [pod |-> q, obj |-> o]
           l == Len(stream[c]) + 1
<1>1. stream[c] \in Seq(Event)
    BY DEF StoreTypeOK
<1>2. stream'[c] = IF c \in watching THEN Append(stream[c], e) ELSE stream[c]
    BY DEF Notify
<1>3. ASSUME c \in watching
      PROVE  /\ l \in Nat \ {0} /\ l - 1 \in Nat
             /\ DOMAIN stream'[c] = 1..l /\ DOMAIN stream[c] = 1..(l - 1)
             /\ stream'[c][l] = e
             /\ \A i \in 1..(l - 1) : stream'[c][i] = stream[c][i]
    BY <1>1, <1>2, <1>3
<1>4. c \in watching => stream'[c][l].pod = q /\ stream'[c][l].obj = o
    BY <1>3
<1> HIDE DEF e, l
<1>5. ASSUME c \in watching, NEW p, NEW i
      PROVE  At(c, p, i)' <=> At(c, p, i) \/ (p = q /\ i = l)
  <2>1. (i \in 1..l <=> i \in 1..(l - 1) \/ i = l) /\ l \notin 1..(l - 1)
    BY <1>3, <1>5
  <2>2. CASE i \in 1..(l - 1)
    BY <1>3, <1>5, <2>1, <2>2 DEF At
  <2>3. CASE i = l
    BY <1>3, <1>4, <1>5, <2>1, <2>3 DEF At
  <2>4. CASE i \notin 1..l
    BY <1>3, <1>5, <2>1, <2>4 DEF At
  <2>5. QED
    BY <2>1, <2>2, <2>3, <2>4
<1>6. ASSUME c \in watching, NEW p, NEW i, At(c, p, i)
      PROVE  i \in 1..(l - 1) /\ stream'[c][i] = stream[c][i]
    BY <1>3, <1>6 DEF At
<1>7. l - 1 = Len(stream[c]) /\ l = Len(stream[c]) + 1
    BY <1>1 DEF l
<1>8. QED
    BY <1>2, <1>3, <1>4, <1>5, <1>6, <1>7

\* What that means for the first, the last and the adjacent events.
LEMMA NotifyOrder ==
    ASSUME StoreTypeOK, NEW q \in Pod, NEW o, Notify(q, o), NEW c \in Client, c \in watching
    PROVE  /\ \E i : LastAt(c, q, i)' /\ stream'[c][i].obj = o
           /\ InStream(c, q)'
           /\ \A p : p # q =>
                /\ InStream(c, p)' <=> InStream(c, p)
                /\ \A i : LastAt(c, p, i) => LastAt(c, p, i)' /\ stream'[c][i] = stream[c][i]
                /\ \A i : FirstAt(c, p, i)' => FirstAt(c, p, i) /\ stream'[c][i] = stream[c][i]
                /\ \A i, j : Adjacent(c, p, i, j)' =>
                        /\ Adjacent(c, p, i, j)
                        /\ stream'[c][i] = stream[c][i] /\ stream'[c][j] = stream[c][j]
           /\ \A i : FirstAt(c, q, i)' =>
                \/ FirstAt(c, q, i) /\ stream'[c][i] = stream[c][i]
                \/ ~InStream(c, q) /\ stream'[c][i].obj = o
           /\ \A i, j : Adjacent(c, q, i, j)' =>
                /\ stream'[c][i] = stream[c][i]
                /\ \/ Adjacent(c, q, i, j) /\ stream'[c][j] = stream[c][j]
                   \/ LastAt(c, q, i) /\ stream'[c][j].obj = o
<1>1. PICK l \in Nat :
      /\ stream'[c][l].obj = o
      /\ \A p, i : At(c, p, i)' <=> At(c, p, i) \/ (p = q /\ i = l)
      /\ \A p, i : At(c, p, i) => i \in Nat /\ i < l /\ stream'[c][i] = stream[c][i]
    BY AtNotify
<1>2. \A p : InStream(c, p) <=> \E i : At(c, p, i)
    BY DEF InStream, At
<1>3. \A p : InStream(c, p)' <=> \E i : At(c, p, i)'
    BY DEF InStream, At
<1>4. LastAt(c, q, l)' /\ InStream(c, q)'
    BY <1>1, <1>3 DEF LastAt
<1>5. ASSUME NEW p, p # q
      PROVE  /\ InStream(c, p)' <=> InStream(c, p)
             /\ \A i : LastAt(c, p, i) => LastAt(c, p, i)' /\ stream'[c][i] = stream[c][i]
             /\ \A i : FirstAt(c, p, i)' => FirstAt(c, p, i) /\ stream'[c][i] = stream[c][i]
             /\ \A i, j : Adjacent(c, p, i, j)' =>
                    /\ Adjacent(c, p, i, j)
                    /\ stream'[c][i] = stream[c][i] /\ stream'[c][j] = stream[c][j]
  <2>1. \A i : At(c, p, i)' <=> At(c, p, i)
    BY <1>1, <1>5
  <2>2. QED
    BY <1>1, <1>2, <1>3, <2>1 DEF LastAt, FirstAt, Adjacent
<1>6. ASSUME NEW i, FirstAt(c, q, i)'
      PROVE  \/ FirstAt(c, q, i) /\ stream'[c][i] = stream[c][i]
             \/ ~InStream(c, q) /\ stream'[c][i].obj = o
  <2>1. At(c, q, i) \/ i = l
    BY <1>1, <1>6 DEF FirstAt
  <2>2. CASE At(c, q, i)
    BY <1>1, <1>6, <2>2 DEF FirstAt
  <2>3. CASE i = l
    BY <1>1, <1>2, <1>6, <2>3 DEF FirstAt
  <2>4. QED
    BY <2>1, <2>2, <2>3
<1>7. ASSUME NEW i, NEW j, Adjacent(c, q, i, j)'
      PROVE  /\ stream'[c][i] = stream[c][i]
             /\ \/ Adjacent(c, q, i, j) /\ stream'[c][j] = stream[c][j]
                \/ LastAt(c, q, i) /\ stream'[c][j].obj = o
  <2>1. (At(c, q, i) \/ i = l) /\ (At(c, q, j) \/ j = l) /\ i < j
    BY <1>1, <1>7 DEF Adjacent
  <2>2. At(c, q, i)
    BY <1>1, <2>1
  <2>3. \A k : At(c, q, k) => k <= i \/ j <= k
    BY <1>1, <1>7 DEF Adjacent
  <2>4. CASE At(c, q, j)
    BY <1>1, <2>1, <2>2, <2>3, <2>4 DEF Adjacent
  <2>5. CASE j = l
    BY <1>1, <2>1, <2>2, <2>3, <2>5 DEF LastAt
  <2>6. QED
    BY <2>1, <2>4, <2>5
<1>8. QED
    BY <1>1, <1>4, <1>5, <1>6, <1>7

\* Reading the next event moves all others up.
LEMMA TakeOrder ==
    ASSUME StoreTypeOK, NEW c \in Client, TakeEvent(c), NEW e, e = Head(stream[c])
    PROVE  /\ e \in Event /\ FirstAt(c, e.pod, 1) /\ stream[c][1] = e
           /\ \A p : InStream(c, p)' => InStream(c, p)
           /\ \A p : p # e.pod /\ InStream(c, p) => InStream(c, p)'
           /\ LastAt(c, e.pod, 1) => ~InStream(c, e.pod)'
           /\ \A p, i : LastAt(c, p, i) /\ (i # 1 \/ p # e.pod) =>
                \E j : LastAt(c, p, j)' /\ stream'[c][j] = stream[c][i]
           /\ \A p, i : FirstAt(c, p, i)' /\ p # e.pod =>
                \E j : FirstAt(c, p, j) /\ stream'[c][i] = stream[c][j]
           /\ \A i : FirstAt(c, e.pod, i)' =>
                \E j : Adjacent(c, e.pod, 1, j) /\ stream'[c][i] = stream[c][j]
           /\ \A p, i, j : Adjacent(c, p, i, j)' =>
                \E k, l : /\ Adjacent(c, p, k, l)
                          /\ stream'[c][i] = stream[c][k] /\ stream'[c][j] = stream[c][l]
<1>1. stream[c] \in Seq(Event) /\ stream[c] # <<>> /\ stream'[c] = Tail(stream[c])
    BY DEF StoreTypeOK, TakeEvent
<1>2. e \in Event /\ stream[c][1] = e
    BY <1>1
<1>3. /\ Len(stream[c]) \in Nat \ {0}
      /\ DOMAIN stream[c] = 1..Len(stream[c])
      /\ DOMAIN stream'[c] = 1..(Len(stream[c]) - 1)
      /\ \A i \in 1..(Len(stream[c]) - 1) : stream'[c][i] = stream[c][i + 1]
    BY <1>1
<1>4. /\ \A p, i : At(c, p, i)' <=> i \in Nat \ {0} /\ At(c, p, i + 1)
      /\ \A p, i : At(c, p, i)' => stream'[c][i] = stream[c][i + 1]
      /\ \A p, i : At(c, p, i) => i \in Nat \ {0}
      /\ \A p : At(c, p, 1) <=> p = e.pod
    BY <1>2, <1>3 DEF At
<1>5. \A p : InStream(c, p) <=> \E i : At(c, p, i)
    BY DEF InStream, At
<1>6. \A p : InStream(c, p)' <=> \E i : At(c, p, i)'
    BY DEF InStream, At
<1>7. FirstAt(c, e.pod, 1)
    BY <1>4 DEF FirstAt
<1>8. ASSUME NEW p, NEW i, At(c, p, i), i # 1 \/ p # e.pod
      PROVE  i - 1 \in Nat \ {0} /\ At(c, p, i - 1)' /\ stream'[c][i - 1] = stream[c][i]
  <2>1. i \in Nat \ {0} /\ i # 1
    BY <1>4, <1>8
  <2>2. i - 1 \in Nat \ {0} /\ (i - 1) + 1 = i
    BY <2>1
  <2>3. QED
    BY <1>4, <1>8, <2>2
<1>9. \A p : InStream(c, p)' => InStream(c, p)
    BY <1>4, <1>5, <1>6
<1>10. \A p : p # e.pod /\ InStream(c, p) => InStream(c, p)'
    BY <1>5, <1>6, <1>8
<1>11. ASSUME LastAt(c, e.pod, 1), InStream(c, e.pod)' PROVE FALSE
  <2>1. PICK i : i \in Nat \ {0} /\ At(c, e.pod, i + 1)
    BY <1>4, <1>6, <1>11
  <2>2. i + 1 <= 1
    BY <1>11, <2>1 DEF LastAt
  <2>3. QED
    BY <2>1, <2>2
<1>12. ASSUME NEW p, NEW i, LastAt(c, p, i), i # 1 \/ p # e.pod
       PROVE  \E j : LastAt(c, p, j)' /\ stream'[c][j] = stream[c][i]
  <2>1. i - 1 \in Nat \ {0} /\ At(c, p, i - 1)' /\ stream'[c][i - 1] = stream[c][i]
    BY <1>8, <1>12 DEF LastAt
  <2>2. i \in Nat
    BY <1>4, <1>12 DEF LastAt
  <2>3. ASSUME NEW k, At(c, p, k)' PROVE k <= i - 1
    <3>1. k \in Nat /\ k + 1 <= i
        BY <1>4, <1>12, <2>3 DEF LastAt
    <3>2. QED
        BY <2>2, <3>1
  <2>4. LastAt(c, p, i - 1)'
    BY <2>1, <2>3 DEF LastAt
  <2>5. QED
    BY <2>1, <2>4
<1>13. ASSUME NEW p, NEW i, FirstAt(c, p, i)'
       PROVE  /\ i \in Nat \ {0} /\ At(c, p, i + 1) /\ stream'[c][i] = stream[c][i + 1]
              /\ \A k : At(c, p, k) => k \in Nat /\ (k = 1 \/ i + 1 <= k)
  <2>1. i \in Nat \ {0} /\ At(c, p, i + 1) /\ stream'[c][i] = stream[c][i + 1]
    BY <1>4, <1>13 DEF FirstAt
  <2>2. ASSUME NEW k, At(c, p, k), k # 1 PROVE i + 1 <= k
    <3>1. k \in Nat /\ k - 1 \in Nat /\ i <= k - 1
        BY <1>4, <1>8, <1>13, <2>2 DEF FirstAt
    <3>2. QED
        BY <2>1, <3>1
  <2>3. QED
    BY <1>4, <2>1, <2>2
<1>14. ASSUME NEW p, NEW i, FirstAt(c, p, i)', p # e.pod
       PROVE  \E j : FirstAt(c, p, j) /\ stream'[c][i] = stream[c][j]
    BY <1>4, <1>13, <1>14 DEF FirstAt
<1>15. ASSUME NEW i, FirstAt(c, e.pod, i)'
       PROVE  \E j : Adjacent(c, e.pod, 1, j) /\ stream'[c][i] = stream[c][j]
  <2>1. /\ i \in Nat \ {0} /\ At(c, e.pod, i + 1) /\ stream'[c][i] = stream[c][i + 1]
        /\ \A k : At(c, e.pod, k) => k \in Nat /\ (k = 1 \/ i + 1 <= k)
    BY <1>13, <1>15
  <2>2. Adjacent(c, e.pod, 1, i + 1)
    BY <1>7, <2>1 DEF Adjacent, FirstAt
  <2>3. QED
    BY <2>1, <2>2
<1>16. ASSUME NEW p, NEW i, NEW j, Adjacent(c, p, i, j)'
       PROVE  \E k, l : /\ Adjacent(c, p, k, l)
                        /\ stream'[c][i] = stream[c][k] /\ stream'[c][j] = stream[c][l]
  <2>1. /\ i \in Nat \ {0} /\ At(c, p, i + 1) /\ stream'[c][i] = stream[c][i + 1]
        /\ j \in Nat \ {0} /\ At(c, p, j + 1) /\ stream'[c][j] = stream[c][j + 1]
        /\ i < j
    BY <1>4, <1>16 DEF Adjacent
  <2>2. ASSUME NEW k, At(c, p, k) PROVE k <= i + 1 \/ j + 1 <= k
    <3>1. CASE k = 1
        BY <2>1, <3>1
    <3>2. CASE k # 1
      <4>1. k \in Nat /\ k - 1 \in Nat /\ (k - 1 <= i \/ j <= k - 1)
          BY <1>4, <1>8, <1>16, <2>2, <3>2 DEF Adjacent
      <4>2. QED
          BY <2>1, <4>1
    <3>3. QED
        BY <3>1, <3>2
  <2>3. Adjacent(c, p, i + 1, j + 1)
    BY <2>1, <2>2 DEF Adjacent
  <2>4. QED
    BY <2>1, <2>3
<1>17. QED
    BY <1>2, <1>7, <1>9, <1>10, <1>11, <1>12, <1>14, <1>15, <1>16

-----------------------------------------------------------------------------
(* The inductive invariant *)

\* Neither property is inductive.  The agreement of a cache with etcd rests on the
\* events between them: the last one tells what etcd holds, each one is about a pod
\* that stays where the one before it was, and the first one follows the cache.
Excused(n, p) == p \in moved \/ <<CubeletWatch(n), p>> \in missed
Stays(o, n) == o = NoPod \/ o.node = n
Reads(n) == informer[n] \in {"open", "watch", "send"}

WatchOrder(n) ==
    /\ CubeletWatch(n) \notin watching => stream[CubeletWatch(n)] = <<>>
    /\ informer[n] \in {"list", "open", "dead"} => CubeletWatch(n) \notin watching
    /\ podEvent[n] # NoEvent => informer[n] = "send"

LastStored(n, p) ==
    InStream(CubeletWatch(n), p) =>
        \E i : /\ LastAt(CubeletWatch(n), p, i)
               /\ stream[CubeletWatch(n)][i].obj = store[p]

EventsStay(n, p) ==
    p \notin moved =>
        \A i, j : /\ Adjacent(CubeletWatch(n), p, i, j)
                  /\ stream[CubeletWatch(n)][i].obj # NoPod
                  /\ stream[CubeletWatch(n)][i].obj.node = n
                  => Stays(stream[CubeletWatch(n)][j].obj, n)

FirstStays(n, p) ==
    podCache[n][p] # NoPod /\ ~Excused(n, p) =>
        \A i : FirstAt(CubeletWatch(n), p, i) => Stays(stream[CubeletWatch(n)][i].obj, n)

Settled(n, p) ==
    ~InStream(CubeletWatch(n), p) /\ ~Excused(n, p) =>
        IF podCache[n][p] # NoPod THEN podCache[n][p] = store[p]
        ELSE Reads(n) /\ <<n, p>> \notin evicted => Mine(n, store[p]) = NoPod

EvictedGone(n, p) == <<n, p>> \in evicted => podCache[n][p] = NoPod

Follows(n, p) ==
    LastStored(n, p) /\ EventsStay(n, p) /\ FirstStays(n, p) /\ Settled(n, p) /\ EvictedGone(n, p)

\* Docker follows the cache by way of the events in hand: what is cached and in hand
\* is told as it is cached, what is in hand and no longer cached has its removal in
\* hand too, and what the pod loop reports runs as its event says.
Carries(ev, p) == ev # NoEvent /\ ev.pod = p
Tells(ev, o) == ev.type # "remove" /\ ev.obj.spec = o.spec

ToldRemoved(n, p) ==
    podCache[n][p] = NoPod /\ <<n, p>> \notin evicted =>
        /\ Carries(podEvent[n], p) => podEvent[n].type = "remove"
        /\ Carries(sync[n].ev, p) /\ ~Carries(podEvent[n], p) => sync[n].ev.type = "remove"

ToldCached(n, p) ==
    podCache[n][p] # NoPod /\ <<n, p>> \notin silent =>
        /\ Carries(podEvent[n], p) => Tells(podEvent[n], podCache[n][p])
        /\ Carries(sync[n].ev, p) /\ ~Carries(podEvent[n], p) => Tells(sync[n].ev, podCache[n][p])

RunsAs(n, p, spec) == docker[n][p].sandbox = "up" /\ docker[n][p].up = ContainersOf[spec]

ReportsRunning(n, p) ==
    sync[n].pc \in {"push", "wait"} /\ sync[n].ev.pod = p /\ <<n, p>> \notin failed =>
        RunsAs(n, p, sync[n].ev.obj.spec)

CachedRuns(n, p) ==
    podCache[n][p] # NoPod /\ ~InHand(n, p) /\ <<n, p>> \notin silent \cup failed =>
        RunsAs(n, p, podCache[n][p].spec)

RunsCached(n, p) ==
    Running(n, p) /\ ~InHand(n, p) /\ ~Excused(n, p) /\ <<n, p>> \notin evicted \cup failed =>
        podCache[n][p] # NoPod \/ (~Reads(n) /\ Mine(n, store[p]) # NoPod)

Runs(n, p) ==
    /\ ToldRemoved(n, p) /\ ToldCached(n, p)
    /\ ReportsRunning(n, p) /\ CachedRuns(n, p) /\ RunsCached(n, p)

LEMMA HandCarries ==
    \A n, p : InHand(n, p) <=> Carries(podEvent[n], p) \/ Carries(sync[n].ev, p)
    BY DEF InHand, Carries

\* What is local to a node, and what the API server keeps for it, stays as it is.
NodeKept(n) ==
    /\ stream'[CubeletWatch(n)] = stream[CubeletWatch(n)]
    /\ CubeletWatch(n) \in watching' <=> CubeletWatch(n) \in watching
    /\ \A p \in Pod : <<CubeletWatch(n), p>> \in missed' <=> <<CubeletWatch(n), p>> \in missed
    /\ informer'[n] = informer[n]
    /\ podCache'[n] = podCache[n]
    /\ podEvent'[n] = podEvent[n]
    /\ sync'[n] = sync[n]
    /\ docker'[n] = docker[n]
    /\ \A p \in Pod : /\ <<n, p>> \in silent' <=> <<n, p>> \in silent
                      /\ <<n, p>> \in evicted' <=> <<n, p>> \in evicted
                      /\ <<n, p>> \in failed' <=> <<n, p>> \in failed

LEMMA KeptFollows ==
    ASSUME NEW n \in Node, NodeKept(n), UNCHANGED <<store, moved>>, NEW p \in Pod
    PROVE  /\ WatchOrder(n) => WatchOrder(n)'
           /\ Follows(n, p) => Follows(n, p)'
           /\ Runs(n, p) => Runs(n, p)'
<1> USE DEF NodeKept
<1>1. WatchOrder(n) => WatchOrder(n)'
    BY DEF WatchOrder
<1>2. /\ InStream(CubeletWatch(n), p)' <=> InStream(CubeletWatch(n), p)
      /\ Excused(n, p)' <=> Excused(n, p)
      /\ Reads(n)' <=> Reads(n)
      /\ InHand(n, p)' <=> InHand(n, p)
      /\ Running(n, p)' <=> Running(n, p)
    BY DEF InStream, Excused, Reads, InHand, Running
<1>3. /\ \A i : LastAt(CubeletWatch(n), p, i)' <=> LastAt(CubeletWatch(n), p, i)
      /\ \A i : FirstAt(CubeletWatch(n), p, i)' <=> FirstAt(CubeletWatch(n), p, i)
      /\ \A i, j : Adjacent(CubeletWatch(n), p, i, j)' <=> Adjacent(CubeletWatch(n), p, i, j)
    BY DEF LastAt, FirstAt, Adjacent, At
<1>4. /\ LastStored(n, p) => LastStored(n, p)'
      /\ EventsStay(n, p) => EventsStay(n, p)'
      /\ FirstStays(n, p) => FirstStays(n, p)'
    BY <1>2, <1>3 DEF LastStored, EventsStay, FirstStays, Stays
<1>5. /\ Settled(n, p) => Settled(n, p)'
      /\ EvictedGone(n, p) => EvictedGone(n, p)'
    BY <1>2 DEF Settled, EvictedGone, Mine
<1>6. /\ ToldRemoved(n, p) => ToldRemoved(n, p)'
      /\ ToldCached(n, p) => ToldCached(n, p)'
      /\ ReportsRunning(n, p) => ReportsRunning(n, p)'
    BY DEF ToldRemoved, ToldCached, ReportsRunning, RunsAs, Tells, Carries
<1>7. /\ CachedRuns(n, p) => CachedRuns(n, p)'
      /\ RunsCached(n, p) => RunsCached(n, p)'
    BY <1>2 DEF CachedRuns, RunsCached, RunsAs, Mine
<1>8. QED
    BY <1>1, <1>4, <1>5, <1>6, <1>7 DEF Follows, Runs

\* The server's side of it, for a step that is none of this client's.
ServedElsewhere(n) ==
    /\ stream'[CubeletWatch(n)] = stream[CubeletWatch(n)]
    /\ CubeletWatch(n) \in watching' <=> CubeletWatch(n) \in watching
    /\ \A p \in Pod : <<CubeletWatch(n), p>> \in missed' <=> <<CubeletWatch(n), p>> \in missed
    /\ UNCHANGED <<store, moved>>

LEMMA Served ==
    ASSUME StoreTypeOK, NEW n \in Node
    PROVE  /\ UNCHANGED storeVars => ServedElsewhere(n)
           /\ \A r, p, o : PutPodFound(r, p, o) \/ PutPodNotFound(r, p) => ServedElsewhere(n)
           /\ \A r : DropPut(r) => ServedElsewhere(n)
           /\ \A c \in Client \ {CubeletWatch(n)} :
                /\ OpenWatch(c) \/ CloseWatch(c) \/ TakeEvent(c) => ServedElsewhere(n)
                /\ \A known : ListPods(c, known) => ServedElsewhere(n)
<1>0. CubeletWatch(n) \in Client
    BY DEF Client
<1>1. UNCHANGED storeVars => ServedElsewhere(n)
    BY DEF storeVars, ServedElsewhere
<1>2. \A r, p, o : PutPodFound(r, p, o) \/ PutPodNotFound(r, p) => ServedElsewhere(n)
    BY <1>1 DEF PutPodFound, PutPodNotFound, ServedElsewhere
<1>3. \A r : DropPut(r) => ServedElsewhere(n)
    BY DEF DropPut, ServedElsewhere
<1>4. ASSUME NEW c \in Client \ {CubeletWatch(n)}, OpenWatch(c) \/ CloseWatch(c) \/ TakeEvent(c)
      PROVE  ServedElsewhere(n)
  <2>1. stream'[CubeletWatch(n)] = stream[CubeletWatch(n)] /\ UNCHANGED <<store, moved>>
    BY <1>0, <1>4 DEF OpenWatch, CloseWatch, TakeEvent, StoreTypeOK
  <2>2. CubeletWatch(n) \in watching' <=> CubeletWatch(n) \in watching
    BY <1>4 DEF OpenWatch, CloseWatch, TakeEvent
  <2>3. \A p \in Pod : <<CubeletWatch(n), p>> \in missed' <=> <<CubeletWatch(n), p>> \in missed
    BY <1>4 DEF OpenWatch, CloseWatch, TakeEvent
  <2>4. QED
    BY <2>1, <2>2, <2>3 DEF ServedElsewhere
<1>5. ASSUME NEW c \in Client \ {CubeletWatch(n)}, NEW known, ListPods(c, known)
      PROVE  ServedElsewhere(n)
    BY <1>5 DEF ListPods, ServedElsewhere
<1>6. QED
    BY <1>1, <1>2, <1>3, <1>4, <1>5

\* A step of one cubelet leaves the others as they are.
LEMMA OthersKept ==
    ASSUME TypeOK, NEW n \in Node, CubeletStep(n) \/ CubeletFault(n), NEW m \in Node, m # n
    PROVE  NodeKept(m) /\ UNCHANGED <<store, moved>>
<1> USE DEF TypeOK
<1>0. CubeletWatch(n) \in Client \ {CubeletWatch(m)}
    BY Names DEF Client
<1>1. ServedElsewhere(m)
  <2>1. CASE ListMyPods(n) \/ WatchMyPods(n) \/ WatchTurn(n) \/ WatchClosed(n) \/ LoseWatch(n) \/ Dies(n)
    BY <1>0, <2>1, Served DEF ListMyPods, WatchMyPods, WatchTurn, WatchClosed, LoseWatch, Dies
  <2>2. CASE \/ Receive(n) \/ SyncWork(n) \/ SyncWorkFails(n) \/ SyncPush(n) \/ SyncPushed(n)
             \/ SyncPushFails(n) \/ RoutineStart(n) \/ RoutineEnd(n) \/ RestartCubelet(n)
             \/ \E p \in Pod : DockerStop(n, p)
    BY <2>2, Served DEF Receive, SyncWork, SyncWorkFails, SyncPush, SyncPushed, SyncPushFails,
       RoutineStart, RoutineEnd, RestartCubelet, DockerStop
  <2>3. ASSUME NEW p \in Pod, RoutinePush(n, p) \/ RoutinePushed(n, p) \/ RoutinePushFails(n, p)
        PROVE  ServedElsewhere(m)
    BY <2>3, Served DEF RoutinePush, RoutinePushed, RoutinePushFails
  <2>4. QED
    BY <2>1, <2>2, <2>3 DEF CubeletStep, CubeletFault, KillCubelet, RoutinePanics
<1> DEFINE Local == /\ informer'[m] = informer[m]
                    /\ podCache'[m] = podCache[m]
                    /\ podEvent'[m] = podEvent[m]
                    /\ sync'[m] = sync[m]
                    /\ docker'[m] = docker[m]
                    /\ \A p \in Pod : /\ <<m, p>> \in silent' <=> <<m, p>> \in silent
                                      /\ <<m, p>> \in evicted' <=> <<m, p>> \in evicted
                                      /\ <<m, p>> \in failed' <=> <<m, p>> \in failed
<1>2. Local
  <2> USE DEF CubeletTypeOK
  <2>1. CASE ListMyPods(n) \/ WatchMyPods(n) \/ WatchClosed(n) \/ LoseWatch(n) \/ Dies(n)
    BY <2>1 DEF ListMyPods, WatchMyPods, WatchClosed, LoseWatch, Dies
  <2>2. CASE WatchTurn(n)
    BY <2>2 DEF WatchTurn, InformDelete, InformPut, Offer, Quiet
  <2>3. CASE Receive(n)
    BY <2>3 DEF Receive
  <2>4. CASE SyncWork(n) \/ SyncWorkFails(n)
    BY <2>4 DEF SyncWork, SyncWorkFails, SyncLeaves
  <2>5. CASE SyncPush(n) \/ SyncPushed(n) \/ SyncPushFails(n)
    BY <2>5 DEF SyncPush, SyncPushed, SyncPushFails, SyncUnlock
  <2>6. CASE RoutineStart(n) \/ RoutineEnd(n) \/ RestartCubelet(n)
    BY <2>6 DEF RoutineStart, RoutineEnd, RestartCubelet
  <2>7. ASSUME NEW p \in Pod, \/ RoutinePush(n, p) \/ RoutinePushed(n, p) \/ RoutinePushFails(n, p)
                              \/ DockerStop(n, p)
        PROVE  Local
    BY <2>7 DEF RoutinePush, RoutinePushed, RoutinePushFails, RoutineLeft, ForceRemove, DockerStop
  <2>8. QED
    BY <2>1, <2>2, <2>3, <2>4, <2>5, <2>6, <2>7
       DEF CubeletStep, CubeletFault, KillCubelet, RoutinePanics
<1>3. QED
    BY <1>1, <1>2 DEF NodeKept, ServedElsewhere

\* So do the scheduler, a rewrite and a PUT that fails, all cubelets.
LEMMA SchedKept ==
    ASSUME TypeOK, NEW m \in Node,
           \/ SchedStep \/ SchedFault \/ \E r \in Requester : PutFails(r)
           \/ \E p \in Pod, s \in PodSpec : RewritePod(p, s)
           \/ UNCHANGED vars
    PROVE  NodeKept(m) /\ UNCHANGED <<store, moved>>
<1> USE DEF TypeOK
<1>0. SchedWatch \in Client \ {CubeletWatch(m)}
    BY Names DEF Client
<1>1. ServedElsewhere(m)
  <2>1. CASE SchedStep \/ SchedLosesWatch \/ RestartScheduler
    BY <1>0, <2>1, Served DEF RestartScheduler, SchedStep, SchedList, SchedListed, SchedWatchPods, SchedTurn, SchedClosed,
       SchedulePod, SchedLosesWatch
  <2>2. CASE \/ \E r \in Requester : PutFails(r)
             \/ \E p \in Pod, s \in PodSpec : RewritePod(p, s)
             \/ UNCHANGED vars
    BY <2>2, Served DEF PutFails, RewritePod, vars
  <2>3. CASE SchedGivesUp
    BY <2>3 DEF SchedGivesUp, AbandonPut, ServedElsewhere
  <2>4. CASE KillScheduler
    <3>1. stream'[CubeletWatch(m)] = stream[CubeletWatch(m)] /\ UNCHANGED <<store, moved>>
        BY <1>0, <2>4 DEF KillScheduler, AbandonPut, StoreTypeOK, Client
    <3>2. CubeletWatch(m) \in watching' <=> CubeletWatch(m) \in watching
        BY <1>0, <2>4 DEF KillScheduler
    <3>3. \A p \in Pod : <<CubeletWatch(m), p>> \in missed' <=> <<CubeletWatch(m), p>> \in missed
        BY <1>0, <2>4 DEF KillScheduler
    <3>4. QED
        BY <3>1, <3>2, <3>3 DEF ServedElsewhere
  <2>5. QED
    BY <2>1, <2>2, <2>3, <2>4 DEF SchedFault
<1>2. UNCHANGED <<informer, podCache, podEvent, sync, docker, silent, evicted, failed>>
    BY DEF SchedStep, SchedList, SchedListed, SchedWatchPods, SchedTurn, SchedClosed, SchedulePod,
       SchedFault, SchedLosesWatch, SchedGivesUp, KillScheduler, RestartScheduler, PutFails, RewritePod,
       vars, cubeletVars
<1>3. QED
    BY <1>1, <1>2 DEF NodeKept, ServedElsewhere

-----------------------------------------------------------------------------
(* A write to etcd *)

Writes(q, o) ==
    /\ store' = [store EXCEPT ![q] = o]
    /\ Notify(q, o)
    /\ moved \subseteq moved'
    /\ store[q] # NoPod /\ o # NoPod /\ store[q].node \notin {NoNode, o.node} => q \in moved'
    /\ UNCHANGED <<watching, informer, podCache, podEvent, sync, docker, silent, evicted, failed>>

LEMMA WritersWrite ==
    ASSUME TypeOK,
           \/ \E r \in Requester : Commit(r)
           \/ \E p \in Pod : DeletePod(p) \/ \E s \in PodSpec : CreatePod(p, s)
    PROVE  \E q \in Pod, o \in PodObj \cup {NoPod} : Writes(q, o)
<1> USE DEF TypeOK, StoreTypeOK
<1>1. ASSUME NEW r \in Requester, Commit(r)
      PROVE  \E q \in Pod, o \in PodObj \cup {NoPod} : Writes(q, o)
  <2>1. request[r].pod \in Pod /\ request[r].obj \in PodObj
    BY <1>1 DEF Commit, PutPodCommit, Put
  <2>2. Writes(request[r].pod, request[r].obj)
    BY <1>1 DEF Commit, PutPodCommit, PutObj, Writes, cubeletVars
  <2>3. QED
    BY <2>1, <2>2
<1>2. ASSUME NEW p \in Pod, DeletePod(p)
      PROVE  \E q \in Pod, o \in PodObj \cup {NoPod} : Writes(q, o)
  <2>1. Writes(p, NoPod)
    BY <1>2 DEF DeletePod, DelPod, Writes, cubeletVars
  <2>2. QED
    BY <2>1
<1>3. ASSUME NEW p \in Pod, NEW s \in PodSpec, CreatePod(p, s)
      PROVE  \E q \in Pod, o \in PodObj \cup {NoPod} : Writes(q, o)
  <2> DEFINE o == [node |-> NoNode, spec |-> s, ip |-> FALSE]
  <2>1. o \in PodObj
    BY DEF PodObj
  <2>2. Writes(p, o)
    BY <1>3 DEF CreatePod, PostPod, PutObj, Writes, cubeletVars
  <2>3. QED
    BY <2>1, <2>2
<1>4. QED
    BY <1>1, <1>2, <1>3

LEMMA WriteKeeps ==
    ASSUME TypeOK, CacheMine, NEW n \in Node, NEW p \in Pod, WatchOrder(n), Follows(n, p), Runs(n, p),
           NEW q \in Pod, NEW o \in PodObj \cup {NoPod}, Writes(q, o)
    PROVE  WatchOrder(n)' /\ Follows(n, p)' /\ Runs(n, p)'
<1> USE DEF TypeOK
<1> DEFINE c == CubeletWatch(n)
<1>0. c \in Client
    BY DEF Client
<1>1. /\ store' = [store EXCEPT ![q] = o] /\ Notify(q, o) /\ moved \subseteq moved'
      /\ store[q] # NoPod /\ o # NoPod /\ store[q].node \notin {NoNode, o.node} => q \in moved'
      /\ UNCHANGED <<watching, informer, podCache, podEvent, sync, docker, silent, evicted, failed>>
    BY DEF Writes
<1>2. /\ c \notin watching => stream'[c] = stream[c] /\ <<c, q>> \in missed'
      /\ missed \subseteq missed'
      /\ c \in watching /\ <<c, p>> \in missed' => <<c, p>> \in missed
    BY <1>0, <1>1, AtNotify DEF Notify, StoreTypeOK
<1>3. WatchOrder(n)'
    BY <1>1, <1>2 DEF WatchOrder
<1>4. /\ Excused(n, p) => Excused(n, p)'
      /\ p = q /\ c \notin watching => Excused(n, p)'
    BY <1>1, <1>2 DEF Excused
<1>5. Follows(n, p)'
  <2>1. EvictedGone(n, p)'
    BY <1>1 DEF Follows, EvictedGone
  <2>2. p # q => store'[p] = store[p]
    BY <1>1 DEF StoreTypeOK
  <2>3. p = q => store'[p] = o
    BY <1>1 DEF StoreTypeOK
  <2>4. CASE c \notin watching
    <3>1. stream[c] = <<>> /\ stream'[c] = <<>>
        BY <1>2, <2>4 DEF WatchOrder
    <3>2. /\ ~InStream(c, p) /\ ~InStream(c, p)'
          /\ \A i : ~LastAt(c, p, i)' /\ ~FirstAt(c, p, i)'
          /\ \A i, j : ~Adjacent(c, p, i, j)'
        BY <3>1 DEF InStream, LastAt, FirstAt, Adjacent, At
    <3>3. LastStored(n, p)' /\ EventsStay(n, p)' /\ FirstStays(n, p)'
        BY <3>2 DEF LastStored, EventsStay, FirstStays
    <3>4. Settled(n, p)'
      <4>1. CASE p = q
          BY <1>4, <2>4, <4>1 DEF Settled
      <4>2. CASE p # q
          BY <1>1, <1>4, <2>2, <3>2, <4>2 DEF Follows, Settled, Reads, Mine
      <4>3. QED
          BY <4>1, <4>2
    <3>5. QED
        BY <2>1, <3>3, <3>4 DEF Follows
  <2>5. CASE c \in watching /\ p # q
    <3>1. /\ InStream(c, p)' <=> InStream(c, p)
          /\ \A i : LastAt(c, p, i) => LastAt(c, p, i)' /\ stream'[c][i] = stream[c][i]
          /\ \A i : FirstAt(c, p, i)' => FirstAt(c, p, i) /\ stream'[c][i] = stream[c][i]
          /\ \A i, j : Adjacent(c, p, i, j)' =>
                /\ Adjacent(c, p, i, j)
                /\ stream'[c][i] = stream[c][i] /\ stream'[c][j] = stream[c][j]
        BY <1>0, <1>1, <2>5, NotifyOrder
    <3>2. LastStored(n, p)'
        BY <2>2, <2>5, <3>1 DEF Follows, LastStored
    <3>3. EventsStay(n, p)'
        BY <1>1, <3>1 DEF Follows, EventsStay, Stays
    <3>4. FirstStays(n, p)'
        BY <1>1, <1>4, <3>1 DEF Follows, FirstStays, Stays
    <3>5. Settled(n, p)'
        BY <1>1, <1>4, <2>2, <2>5, <3>1 DEF Follows, Settled, Reads, Mine
    <3>6. QED
        BY <2>1, <3>2, <3>3, <3>4, <3>5 DEF Follows
  <2>6. CASE c \in watching /\ p = q
    <3>1. /\ \E i : LastAt(c, p, i)' /\ stream'[c][i].obj = o
          /\ InStream(c, p)'
          /\ \A i : FirstAt(c, p, i)' =>
                \/ FirstAt(c, p, i) /\ stream'[c][i] = stream[c][i]
                \/ ~InStream(c, p) /\ stream'[c][i].obj = o
          /\ \A i, j : Adjacent(c, p, i, j)' =>
                /\ stream'[c][i] = stream[c][i]
                /\ \/ Adjacent(c, p, i, j) /\ stream'[c][j] = stream[c][j]
                   \/ LastAt(c, p, i) /\ stream'[c][j].obj = o
        BY <1>0, <1>1, <2>6, NotifyOrder
    <3>2. LastStored(n, p)'
        BY <2>3, <2>6, <3>1 DEF LastStored
    <3>3. Settled(n, p)'
        BY <3>1 DEF Settled
    <3>4. store[p] # NoPod /\ store[p].node = n /\ ~Stays(o, n) => p \in moved'
        BY <1>1, <2>6, NodeAssumption DEF Stays
    <3>5. EventsStay(n, p)'
      <4>1. SUFFICES ASSUME p \notin moved', NEW i, NEW j, Adjacent(c, p, i, j)',
                            stream'[c][i].obj # NoPod, stream'[c][i].obj.node = n
                     PROVE  Stays(stream'[c][j].obj, n)
          BY DEF EventsStay, Stays
      <4>2. p \notin moved /\ stream'[c][i] = stream[c][i]
          BY <1>1, <3>1, <4>1
      <4>3. CASE Adjacent(c, p, i, j) /\ stream'[c][j] = stream[c][j]
          BY <4>1, <4>2, <4>3 DEF Follows, EventsStay
      <4>4. CASE LastAt(c, p, i) /\ stream'[c][j].obj = o
        <5>1. InStream(c, p)
            BY <4>4 DEF LastAt, At, InStream
        <5>2. PICK k : LastAt(c, p, k) /\ stream[c][k].obj = store[p]
            BY <5>1 DEF Follows, LastStored
        <5>3. k = i
            BY <1>0, <4>4, <5>2, LastUnique
        <5>4. QED
            BY <3>4, <4>1, <4>2, <4>4, <5>2, <5>3
      <4>5. QED
          BY <3>1, <4>1, <4>3, <4>4
    <3>6. FirstStays(n, p)'
      <4>1. SUFFICES ASSUME podCache[n][p] # NoPod, ~Excused(n, p)', NEW i, FirstAt(c, p, i)'
                     PROVE  Stays(stream'[c][i].obj, n)
          BY <1>1 DEF FirstStays, Stays
      <4>2. ~Excused(n, p) /\ p \notin moved'
          BY <1>4, <4>1 DEF Excused
      <4>3. CASE FirstAt(c, p, i) /\ stream'[c][i] = stream[c][i]
          BY <4>1, <4>2, <4>3 DEF Follows, FirstStays
      <4>4. CASE ~InStream(c, p) /\ stream'[c][i].obj = o
        <5>1. podCache[n][p] = store[p]
            BY <4>1, <4>2, <4>4 DEF Follows, Settled
        <5>2. store[p] # NoPod /\ store[p].node = n
            BY <4>1, <5>1 DEF CacheMine
        <5>3. QED
            BY <3>4, <4>2, <4>4, <5>2
      <4>5. QED
          BY <3>1, <4>1, <4>3, <4>4
    <3>7. QED
        BY <2>1, <3>2, <3>3, <3>5, <3>6 DEF Follows
  <2>7. QED
    BY <2>4, <2>5, <2>6
<1>6. Runs(n, p)'
  <2>1. ToldRemoved(n, p)' /\ ToldCached(n, p)' /\ ReportsRunning(n, p)'
    BY <1>1 DEF Runs, ToldRemoved, ToldCached, ReportsRunning, RunsAs, Tells, Carries
  <2>2. CachedRuns(n, p)'
    BY <1>1 DEF Runs, CachedRuns, RunsAs, InHand
  <2>3. RunsCached(n, p)'
    <3>1. Reads(n)' <=> Reads(n)
        BY <1>1 DEF Reads
    <3>2. CASE p # q
        <4>1. store'[p] = store[p]
            BY <1>1, <3>2 DEF StoreTypeOK
        <4>2. QED
            BY <1>1, <1>4, <3>1, <4>1 DEF Runs, RunsCached, Running, InHand, Mine
    <3>3. CASE p = q /\ c \notin watching
        BY <1>4, <3>3 DEF RunsCached
    <3>4. CASE p = q /\ c \in watching
      <4>1. Reads(n)
          BY <3>4 DEF WatchOrder, Reads, CubeletTypeOK
      <4>2. QED
          BY <1>1, <1>4, <4>1 DEF Runs, RunsCached, Running, InHand
    <3>5. QED
        BY <3>2, <3>3, <3>4
  <2>4. QED
    BY <2>1, <2>2, <2>3 DEF Runs
<1>7. QED
    BY <1>3, <1>5, <1>6

-----------------------------------------------------------------------------
(* A turn of the watch loop *)

\* What the event e does to the cache, and what the pod loop is told of it.
Caches(n, e) ==
    \/ e.obj = NoPod /\ podCache'[n][e.pod] = NoPod
    \/ e.obj # NoPod /\ e.obj.node = n /\ podCache'[n][e.pod] = e.obj
    \/ e.obj # NoPod /\ e.obj.node # n /\ podCache'[n][e.pod] = podCache[n][e.pod]

Informs(n, e) ==
    /\ \E type : /\ podEvent'[n] = [type |-> type, pod |-> e.pod, obj |-> e.obj]
                 /\ type = "remove" <=> e.obj = NoPod
    /\ podEvent'[n] # NoEvent
    /\ e.obj = NoPod \/ e.obj.node = n
    /\ e.obj = NoPod => podCache[n][e.pod] # NoPod
    /\ informer'[n] = "send"
    /\ <<n, e.pod>> \notin silent' /\ <<n, e.pod>> \notin evicted'

IsQuiet(n, e) ==
    /\ podEvent'[n] = podEvent[n]
    /\ informer'[n] = informer[n]
    /\ <<n, e.pod>> \in silent' <=> <<n, e.pod>> \in silent
    /\ <<n, e.pod>> \in evicted' <=> <<n, e.pod>> \in evicted
    /\ e.obj = NoPod => podCache[n][e.pod] = NoPod
    /\ e.obj # NoPod /\ e.obj.node = n =>
            podCache[n][e.pod] # NoPod /\ podCache[n][e.pod].spec = e.obj.spec

LEMMA TurnOf ==
    ASSUME TypeOK, NEW n \in Node, WatchTurn(n)
    PROVE  \E e \in Event :
            /\ e = Head(stream[CubeletWatch(n)]) /\ TakeEvent(CubeletWatch(n))
            /\ informer[n] = "watch"
            /\ UNCHANGED <<sync, docker, failed>>
            /\ \A p \in Pod : p # e.pod =>
                    /\ podCache'[n][p] = podCache[n][p]
                    /\ <<n, p>> \in silent' <=> <<n, p>> \in silent
                    /\ <<n, p>> \in evicted' <=> <<n, p>> \in evicted
            /\ Caches(n, e)
            /\ Informs(n, e) \/ IsQuiet(n, e)
<1> USE DEF TypeOK, CubeletTypeOK
<1>1. PICK e : e = Head(stream[CubeletWatch(n)])
    OBVIOUS
<1>2. e \in Event
    BY <1>1, StreamType DEF WatchTurn, Client
<1>3. e.pod \in Pod /\ e.obj \in PodObj \cup {NoPod}
    BY <1>2 DEF Event
<1>4. /\ informer[n] = "watch"
      /\ \/ e.obj = NoPod /\ InformDelete(n, e.pod)
         \/ e.obj # NoPod /\ ForMe(n, e.obj) /\ InformPut(n, e.pod, e.obj)
         \/ e.obj # NoPod /\ ~ForMe(n, e.obj) /\ Quiet /\ UNCHANGED podCache
    BY <1>1 DEF WatchTurn
<1>5. ASSUME NEW type \in {"create", "update", "remove"}, Offer(n, type, e.pod, e.obj),
             type = "remove" <=> e.obj = NoPod, e.obj = NoPod \/ e.obj.node = n,
             e.obj = NoPod => podCache[n][e.pod] # NoPod
      PROVE  Informs(n, e)
  <2>1. [type |-> type, pod |-> e.pod, obj |-> e.obj].type # NoEvent.type
    BY DEF NoEvent
  <2>2. [type |-> type, pod |-> e.pod, obj |-> e.obj] # NoEvent
    BY <2>1
  <2>3. QED
    BY <1>3, <1>5, <2>2 DEF Offer, Informs
<1>6. ASSUME NEW type, Offer(n, type, e.pod, e.obj)
      PROVE  \A p \in Pod : p # e.pod => /\ <<n, p>> \in silent' <=> <<n, p>> \in silent
                                         /\ <<n, p>> \in evicted' <=> <<n, p>> \in evicted
    BY <1>6 DEF Offer
<1>7. CASE e.obj = NoPod /\ InformDelete(n, e.pod)
  <2>1. /\ \A p \in Pod : p # e.pod => podCache'[n][p] = podCache[n][p]
        /\ podCache'[n][e.pod] = NoPod
    BY <1>3, <1>7 DEF InformDelete
  <2>2. Caches(n, e)
    BY <1>7, <2>1 DEF Caches
  <2>3. CASE podCache[n][e.pod] # NoPod
    <3>1. Offer(n, "remove", e.pod, e.obj)
        BY <1>7, <2>3 DEF InformDelete
    <3>2. QED
        BY <1>1, <1>2, <1>4, <1>5, <1>6, <1>7, <2>1, <2>2, <2>3, <3>1 DEF WatchTurn
  <2>4. CASE podCache[n][e.pod] = NoPod
    <3>1. IsQuiet(n, e)
        BY <1>7, <2>4 DEF InformDelete, Quiet, IsQuiet
    <3>2. QED
        BY <1>1, <1>2, <1>4, <1>7, <2>1, <2>2, <2>4, <3>1 DEF WatchTurn, InformDelete, Quiet
  <2>5. QED
    BY <2>3, <2>4
<1>8. CASE e.obj # NoPod /\ ForMe(n, e.obj) /\ InformPut(n, e.pod, e.obj)
  <2>1. /\ \A p \in Pod : p # e.pod => podCache'[n][p] = podCache[n][p]
        /\ podCache'[n][e.pod] = e.obj
    BY <1>3, <1>8 DEF InformPut
  <2>2. Caches(n, e) /\ e.obj.node = n
    BY <1>8, <2>1 DEF Caches, ForMe
  <2>3. CASE \E type \in {"create", "update"} : Offer(n, type, e.pod, e.obj)
    <3>1. Informs(n, e)
        BY <1>5, <1>8, <2>2, <2>3
    <3>2. QED
        BY <1>1, <1>2, <1>4, <1>6, <2>1, <2>2, <2>3, <3>1 DEF WatchTurn
  <2>4. CASE podCache[n][e.pod] # NoPod /\ ~SpecChange(e.obj, podCache[n][e.pod]) /\ Quiet
    <3>1. IsQuiet(n, e)
        BY <1>8, <2>4 DEF Quiet, IsQuiet, SpecChange
    <3>2. QED
        BY <1>1, <1>2, <1>4, <2>1, <2>2, <2>4, <3>1 DEF WatchTurn, Quiet
  <2>5. QED
    BY <1>8, <2>3, <2>4 DEF InformPut
<1>9. CASE e.obj # NoPod /\ ~ForMe(n, e.obj) /\ Quiet /\ UNCHANGED podCache
  <2>1. Caches(n, e) /\ IsQuiet(n, e)
    BY <1>9 DEF Caches, IsQuiet, Quiet, ForMe
  <2>2. QED
    BY <1>1, <1>2, <1>4, <1>9, <2>1 DEF WatchTurn, Quiet
<1>10. QED
    BY <1>4, <1>7, <1>8, <1>9

-----------------------------------------------------------------------------
(* The steps of the cubelet itself *)

Sound(n, p) == WatchOrder(n) /\ Follows(n, p) /\ Runs(n, p)

\* A client without events has no first, last or adjacent ones.
LEMMA NoEvents ==
    ASSUME NEW c, stream[c] = <<>>, NEW p
    PROVE  /\ ~InStream(c, p)
           /\ \A i : ~FirstAt(c, p, i) /\ ~LastAt(c, p, i)
           /\ \A i, j : ~Adjacent(c, p, i, j)
    BY DEF InStream, FirstAt, LastAt, Adjacent, At

\* A step that changes neither the stream nor the cache keeps the one following the other.
LEMMA FollowsKept ==
    ASSUME NEW n \in Node, NEW p \in Pod, Follows(n, p), UNCHANGED <<store, moved>>,
           stream'[CubeletWatch(n)] = stream[CubeletWatch(n)],
           <<CubeletWatch(n), p>> \in missed' <=> <<CubeletWatch(n), p>> \in missed,
           podCache'[n][p] = podCache[n][p], <<n, p>> \in evicted' <=> <<n, p>> \in evicted,
           Reads(n)' => Reads(n)
    PROVE  Follows(n, p)'
<1>1. /\ InStream(CubeletWatch(n), p)' <=> InStream(CubeletWatch(n), p)
      /\ Excused(n, p)' <=> Excused(n, p)
    BY DEF InStream, Excused
<1>2. /\ \A i : LastAt(CubeletWatch(n), p, i)' <=> LastAt(CubeletWatch(n), p, i)
      /\ \A i : FirstAt(CubeletWatch(n), p, i)' <=> FirstAt(CubeletWatch(n), p, i)
      /\ \A i, j : Adjacent(CubeletWatch(n), p, i, j)' <=> Adjacent(CubeletWatch(n), p, i, j)
    BY DEF LastAt, FirstAt, Adjacent, At
<1>3. LastStored(n, p)' /\ EventsStay(n, p)' /\ FirstStays(n, p)'
    BY <1>1, <1>2 DEF Follows, LastStored, EventsStay, FirstStays, Stays
<1>4. Settled(n, p)' /\ EvictedGone(n, p)'
    BY <1>1 DEF Follows, Settled, EvictedGone, Mine
<1>5. QED
    BY <1>3, <1>4 DEF Follows

\* The list: what it changes in the cache, it changes to what etcd holds.
LEMMA ListKeeps ==
    ASSUME TypeOK, CacheMine, NEW n \in Node, NEW p \in Pod, Sound(n, p), ListMyPods(n)
    PROVE  Sound(n, p)'
<1> USE DEF TypeOK, CubeletTypeOK, Sound
<1> DEFINE c == CubeletWatch(n)
           mine == p \in MyPods(n)
<1>1. /\ informer[n] = "list" /\ informer'[n] = "open"
      /\ missed' = missed \ ({c} \X MyPods(n))
      /\ UNCHANGED <<store, watching, stream, moved, podEvent, sync, docker, failed>>
    BY DEF ListMyPods, ListPods
<1>2. /\ mine => /\ podCache'[n][p] = store[p] /\ store[p] # NoPod /\ store[p].node = n
                 /\ <<n, p>> \notin evicted'
                 /\ <<n, p>> \notin silent' =>
                        /\ <<n, p>> \notin silent
                        /\ podCache[n][p] # NoPod /\ podCache[n][p].spec = store[p].spec
      /\ ~mine => /\ podCache'[n][p] = podCache[n][p]
                  /\ <<n, p>> \in evicted' <=> <<n, p>> \in evicted
                  /\ <<n, p>> \in silent' <=> <<n, p>> \in silent
                  /\ <<c, p>> \in missed' <=> <<c, p>> \in missed
                  /\ Mine(n, store[p]) = NoPod
  <2>1. /\ podCache' = [podCache EXCEPT ![n] =
                            [q \in Pod |-> IF q \in MyPods(n) THEN store[q] ELSE @[q]]]
        /\ silent' = silent \cup {<<n, q>> : q \in {r \in MyPods(n) :
                        podCache[n][r] = NoPod \/ podCache[n][r].spec # store[r].spec}}
        /\ evicted' = evicted \ ({n} \X MyPods(n))
    BY DEF ListMyPods
  <2>2. podCache'[n][p] = IF mine THEN store[p] ELSE podCache[n][p]
    BY <2>1
  <2>3. mine <=> store[p] # NoPod /\ store[p].node = n
    BY DEF MyPods
  <2>4. /\ <<n, p>> \in evicted' <=> <<n, p>> \in evicted /\ ~mine
        /\ <<c, p>> \in missed' <=> <<c, p>> \in missed /\ ~mine
        /\ <<n, p>> \in silent' <=>
                \/ <<n, p>> \in silent
                \/ mine /\ (podCache[n][p] = NoPod \/ podCache[n][p].spec # store[p].spec)
    BY <1>1, <2>1
  <2>5. QED
    BY <2>2, <2>3, <2>4 DEF Mine
<1> HIDE DEF mine
<1>3. WatchOrder(n)'
    BY <1>1 DEF WatchOrder
<1>4. stream[c] = <<>> /\ stream'[c] = <<>> /\ podEvent[n] = NoEvent
    BY <1>1 DEF WatchOrder
<1>5. Follows(n, p)'
  <2>0. /\ ~InStream(c, p)'
        /\ \A i : ~FirstAt(c, p, i)'
        /\ \A i, j : ~Adjacent(c, p, i, j)'
    BY <1>4 DEF InStream, FirstAt, Adjacent, At
  <2>1. LastStored(n, p)' /\ EventsStay(n, p)' /\ FirstStays(n, p)'
    BY <2>0 DEF LastStored, EventsStay, FirstStays
  <2>2. Settled(n, p)'
    <3>1. CASE mine
        BY <1>1, <1>2, <3>1 DEF Settled
    <3>2. CASE ~mine
      <4>1. ~InStream(c, p) /\ (Excused(n, p)' <=> Excused(n, p))
          BY <1>1, <1>2, <1>4, <3>2, NoEvents DEF Excused
      <4>2. QED
          BY <1>1, <1>2, <3>2, <4>1 DEF Follows, Settled, Mine
    <3>3. QED
        BY <3>1, <3>2
  <2>3. EvictedGone(n, p)'
    BY <1>2 DEF Follows, EvictedGone
  <2>4. QED
    BY <2>1, <2>2, <2>3 DEF Follows
<1>6. Runs(n, p)'
  <2>1. ToldRemoved(n, p)'
    BY <1>1, <1>2 DEF Runs, ToldRemoved, Carries
  <2>2. ToldCached(n, p)'
    BY <1>1, <1>2, <1>4 DEF Runs, ToldCached, Carries, Tells
  <2>3. ReportsRunning(n, p)'
    BY <1>1 DEF Runs, ReportsRunning, RunsAs
  <2>4. InHand(n, p)' <=> InHand(n, p)
    BY <1>1 DEF InHand
  <2>5. CachedRuns(n, p)'
    BY <1>1, <1>2, <2>4 DEF Runs, CachedRuns, RunsAs
  <2>6. RunsCached(n, p)'
    <3>1. CASE mine
        BY <1>2, <3>1 DEF RunsCached
    <3>2. CASE ~mine
        BY <1>1, <1>2, <2>4, <3>2 DEF Runs, RunsCached, Running, Excused
    <3>3. QED
        BY <3>1, <3>2
  <2>7. QED
    BY <2>1, <2>2, <2>3, <2>5, <2>6 DEF Runs
<1>7. QED
    BY <1>3, <1>5, <1>6

\* A new watch and a closed one, and a restart: nothing is queued then.
LEMMA ReopenKeeps ==
    ASSUME TypeOK, NEW n \in Node, NEW p \in Pod, Sound(n, p),
           WatchMyPods(n) \/ WatchClosed(n) \/ RestartCubelet(n)
    PROVE  Sound(n, p)'
<1> USE DEF TypeOK, CubeletTypeOK, Sound
<1> DEFINE c == CubeletWatch(n)
<1>0. c \in Client
    BY DEF Client
<1>1. /\ stream[c] = <<>> /\ stream'[c] = <<>>
      /\ podEvent[n] = NoEvent
      /\ UNCHANGED <<store, moved, missed, podCache, podEvent, sync, docker, silent, evicted, failed>>
  <2>1. c \notin watching \/ informer[n] = "open"
    BY DEF WatchMyPods, WatchClosed, RestartCubelet, Alive, WatchOrder
  <2>2. stream[c] = <<>> /\ podEvent[n] = NoEvent
    BY <2>1 DEF WatchMyPods, WatchClosed, RestartCubelet, Alive, WatchOrder
  <2>3. QED
    BY <1>0, <2>2 DEF WatchMyPods, WatchClosed, RestartCubelet, OpenWatch, storeVars, StoreTypeOK
<1>2. /\ WatchOrder(n)'
      /\ Reads(n)' => Reads(n)
  <2>1. CASE WatchMyPods(n)
    BY <1>1, <2>1 DEF WatchMyPods, OpenWatch, WatchOrder, Reads
  <2>2. CASE WatchClosed(n) \/ RestartCubelet(n)
    BY <1>1, <2>2 DEF WatchClosed, RestartCubelet, Alive, WatchOrder, Reads, storeVars
  <2>3. QED
    BY <2>1, <2>2
<1>3. Follows(n, p)'
    BY <1>1, <1>2, FollowsKept
<1>4. Runs(n, p)'
  <2>1. ToldRemoved(n, p)' /\ ToldCached(n, p)' /\ ReportsRunning(n, p)'
    BY <1>1 DEF Runs, ToldRemoved, ToldCached, ReportsRunning, RunsAs, Tells, Carries
  <2>2. CachedRuns(n, p)'
    BY <1>1 DEF Runs, CachedRuns, RunsAs, InHand
  <2>3. RunsCached(n, p)'
    BY <1>1, <1>2 DEF Runs, RunsCached, Running, InHand, Excused, Mine
  <2>4. QED
    BY <2>1, <2>2, <2>3 DEF Runs
<1>5. QED
    BY <1>2, <1>3, <1>4

\* A turn of the watch loop.
LEMMA TurnOrder ==
    ASSUME TypeOK, NEW n \in Node, WatchOrder(n), WatchTurn(n) PROVE WatchOrder(n)'
<1>1. PICK e \in Event : /\ TakeEvent(CubeletWatch(n)) /\ informer[n] = "watch"
                         /\ Informs(n, e) \/ IsQuiet(n, e)
    BY TurnOf
<1>2. stream[CubeletWatch(n)] # <<>> /\ UNCHANGED watching
    BY <1>1 DEF TakeEvent
<1>3. podEvent[n] = NoEvent
    BY <1>1 DEF WatchOrder
<1>4. QED
    BY <1>1, <1>2, <1>3 DEF WatchOrder, Informs, IsQuiet

LEMMA TurnFollows ==
    ASSUME TypeOK, NEW n \in Node, NEW p \in Pod, Follows(n, p), WatchTurn(n)
    PROVE  Follows(n, p)'
<1> USE DEF TypeOK
<1> DEFINE c == CubeletWatch(n)
<1>0. c \in Client
    BY DEF Client
<1>1. PICK e \in Event :
        /\ e = Head(stream[c]) /\ TakeEvent(c)
        /\ informer[n] = "watch"
        /\ \A q \in Pod : q # e.pod => /\ podCache'[n][q] = podCache[n][q]
                                       /\ <<n, q>> \in evicted' <=> <<n, q>> \in evicted
        /\ Caches(n, e)
        /\ Informs(n, e) \/ IsQuiet(n, e)
    BY TurnOf
<1>2. UNCHANGED <<store, moved, missed>>
    BY <1>1 DEF TakeEvent
<1>3. (Excused(n, p)' <=> Excused(n, p)) /\ Reads(n) /\ Reads(n)'
    BY <1>1, <1>2 DEF Excused, Reads, Informs, IsQuiet
<1>4. /\ FirstAt(c, e.pod, 1) /\ stream[c][1] = e
      /\ InStream(c, p)' => InStream(c, p)
      /\ p # e.pod /\ InStream(c, p) => InStream(c, p)'
      /\ LastAt(c, e.pod, 1) => ~InStream(c, e.pod)'
      /\ \A i : LastAt(c, p, i) /\ (i # 1 \/ p # e.pod) =>
            \E j : LastAt(c, p, j)' /\ stream'[c][j] = stream[c][i]
      /\ \A i : FirstAt(c, p, i)' /\ p # e.pod =>
            \E j : FirstAt(c, p, j) /\ stream'[c][i] = stream[c][j]
      /\ \A i : FirstAt(c, e.pod, i)' =>
            \E j : Adjacent(c, e.pod, 1, j) /\ stream'[c][i] = stream[c][j]
      /\ \A i, j : Adjacent(c, p, i, j)' =>
            \E k, l : /\ Adjacent(c, p, k, l)
                      /\ stream'[c][i] = stream[c][k] /\ stream'[c][j] = stream[c][l]
    BY <1>0, <1>1, TakeOrder
<1>5. LastStored(n, p)'
  <2>1. SUFFICES ASSUME InStream(c, p)'
                 PROVE  \E j : LastAt(c, p, j)' /\ stream'[c][j].obj = store[p]
    BY <1>2 DEF LastStored
  <2>2. PICK i : LastAt(c, p, i) /\ stream[c][i].obj = store[p]
    BY <1>4, <2>1 DEF Follows, LastStored
  <2>3. i # 1 \/ p # e.pod
    BY <1>4, <2>1, <2>2
  <2>4. QED
    BY <1>4, <2>2, <2>3
<1>6. EventsStay(n, p)'
    BY <1>2, <1>4 DEF Follows, EventsStay, Stays
<1>7. EvictedGone(n, p)'
    BY <1>1 DEF Follows, EvictedGone, Caches, Informs, IsQuiet
<1>8. FirstStays(n, p)' /\ Settled(n, p)'
  <2>1. CASE p # e.pod
    <3>1. podCache'[n][p] = podCache[n][p] /\ (<<n, p>> \in evicted' <=> <<n, p>> \in evicted)
        BY <1>1, <2>1
    <3>2. FirstStays(n, p)'
        BY <1>2, <1>3, <1>4, <2>1, <3>1 DEF Follows, FirstStays, Stays
    <3>3. Settled(n, p)'
        BY <1>2, <1>3, <1>4, <2>1, <3>1 DEF Follows, Settled, Mine
    <3>4. QED
        BY <3>2, <3>3
  <2>2. CASE p = e.pod
    <3>1. podCache'[n][p] # NoPod /\ ~Excused(n, p) => e.obj # NoPod /\ e.obj.node = n
          /\ podCache'[n][p] = e.obj
        BY <1>1, <1>4, <2>2 DEF Caches, Follows, FirstStays, Stays
    <3>2. FirstStays(n, p)'
      <4>1. SUFFICES ASSUME podCache'[n][p] # NoPod, ~Excused(n, p), NEW i, FirstAt(c, p, i)'
                     PROVE  Stays(stream'[c][i].obj, n)
          BY <1>3 DEF FirstStays, Stays
      <4>2. PICK j : Adjacent(c, p, 1, j) /\ stream'[c][i] = stream[c][j]
          BY <1>4, <2>2, <4>1
      <4>3. stream[c][1].obj # NoPod /\ stream[c][1].obj.node = n /\ p \notin moved
          BY <1>4, <3>1, <4>1 DEF Excused
      <4>4. QED
          BY <4>2, <4>3 DEF Follows, EventsStay
    <3>3. Settled(n, p)'
      <4>1. SUFFICES ASSUME ~InStream(c, p)', ~Excused(n, p)
                     PROVE  IF podCache'[n][p] # NoPod THEN podCache'[n][p] = store[p]
                            ELSE Mine(n, store[p]) = NoPod
          BY <1>2, <1>3 DEF Settled, Mine
      <4>2. InStream(c, p)
          BY <1>4, <2>2 DEF FirstAt, At, InStream
      <4>3. PICK i : LastAt(c, p, i) /\ stream[c][i].obj = store[p]
          BY <4>2 DEF Follows, LastStored
      <4>4. i = 1
        <5>1. ASSUME i # 1 PROVE FALSE
          <6>1. PICK j : LastAt(c, p, j)'
              BY <1>4, <4>3, <5>1
          <6>2. InStream(c, p)'
              BY <6>1 DEF LastAt, At, InStream
          <6>3. QED
              BY <4>1, <6>2
        <5>2. QED
            BY <5>1
      <4>5. store[p] = e.obj
          BY <1>4, <4>3, <4>4
      <4>6. CASE podCache'[n][p] # NoPod
          BY <3>1, <4>1, <4>5, <4>6
      <4>7. CASE podCache'[n][p] = NoPod
          BY <1>1, <2>2, <4>5, <4>7 DEF Caches, Mine
      <4>8. QED
          BY <4>6, <4>7
    <3>4. QED
        BY <3>2, <3>3
  <2>3. QED
    BY <2>1, <2>2
<1>9. QED
    BY <1>5, <1>6, <1>7, <1>8 DEF Follows

LEMMA TurnRuns ==
    ASSUME TypeOK, NEW n \in Node, NEW p \in Pod, WatchOrder(n), Runs(n, p), WatchTurn(n)
    PROVE  Runs(n, p)'
<1> USE DEF TypeOK
<1>1. PICK e \in Event :
        /\ TakeEvent(CubeletWatch(n))
        /\ informer[n] = "watch"
        /\ UNCHANGED <<sync, docker, failed>>
        /\ \A q \in Pod : q # e.pod => /\ podCache'[n][q] = podCache[n][q]
                                       /\ <<n, q>> \in silent' <=> <<n, q>> \in silent
                                       /\ <<n, q>> \in evicted' <=> <<n, q>> \in evicted
        /\ Caches(n, e)
        /\ Informs(n, e) \/ IsQuiet(n, e)
    BY TurnOf
<1>2. (Excused(n, p)' <=> Excused(n, p)) /\ Reads(n) /\ podEvent[n] = NoEvent
    BY <1>1 DEF Excused, Reads, TakeEvent, WatchOrder
<1>3. ReportsRunning(n, p)'
    BY <1>1 DEF Runs, ReportsRunning, RunsAs
<1>4. /\ InHand(n, p) <=> Carries(sync[n].ev, p)
      /\ InHand(n, p)' <=> Carries(podEvent'[n], p) \/ Carries(sync[n].ev, p)
    BY <1>1, <1>2, HandCarries DEF InHand, Carries
<1>5. CASE p # e.pod
  <2>1. ~Carries(podEvent'[n], p)
    <3>1. Informs(n, e) => podEvent'[n].pod = e.pod
        BY DEF Informs
    <3>2. IsQuiet(n, e) => podEvent'[n] = NoEvent
        BY <1>2 DEF IsQuiet
    <3>3. QED
        BY <1>1, <1>5, <3>1, <3>2 DEF Carries
  <2>2. /\ podCache'[n][p] = podCache[n][p]
        /\ <<n, p>> \in silent' <=> <<n, p>> \in silent
        /\ <<n, p>> \in evicted' <=> <<n, p>> \in evicted
    BY <1>1, <1>5
  <2>3. ToldRemoved(n, p)' /\ ToldCached(n, p)'
    BY <1>1, <1>2, <2>1, <2>2 DEF Runs, ToldRemoved, ToldCached, Carries, Tells
  <2>4. CachedRuns(n, p)' /\ RunsCached(n, p)'
    BY <1>1, <1>2, <1>4, <2>2 DEF Runs, CachedRuns, RunsCached, RunsAs, Running
  <2>5. QED
    BY <1>3, <2>3, <2>4 DEF Runs
<1>6. CASE p = e.pod /\ Informs(n, e)
  <2>1. Carries(podEvent'[n], p) /\ podEvent'[n].obj = e.obj
        /\ (podEvent'[n].type = "remove" <=> e.obj = NoPod)
    BY <1>6 DEF Informs, Carries
  <2>2. podCache'[n][p] = e.obj
    BY <1>1, <1>6 DEF Caches, Informs
  <2>3. ToldRemoved(n, p)' /\ ToldCached(n, p)'
    BY <2>1, <2>2 DEF ToldRemoved, ToldCached, Carries, Tells
  <2>4. CachedRuns(n, p)' /\ RunsCached(n, p)'
    BY <1>4, <2>1 DEF CachedRuns, RunsCached
  <2>5. QED
    BY <1>3, <2>3, <2>4 DEF Runs
<1>7. CASE p = e.pod /\ IsQuiet(n, e)
  <2>1. /\ podEvent'[n] = NoEvent
        /\ <<n, p>> \in silent' <=> <<n, p>> \in silent
        /\ <<n, p>> \in evicted' <=> <<n, p>> \in evicted
    BY <1>2, <1>7 DEF IsQuiet
  <2>2. \/ podCache'[n][p] = podCache[n][p]
        \/ podCache'[n][p] # NoPod /\ podCache[n][p] # NoPod
           /\ podCache'[n][p].spec = podCache[n][p].spec
    BY <1>1, <1>7 DEF Caches, IsQuiet
  <2>3. ToldRemoved(n, p)' /\ ToldCached(n, p)'
    BY <1>1, <1>2, <2>1, <2>2 DEF Runs, ToldRemoved, ToldCached, Carries, Tells
  <2>4. InHand(n, p)' <=> InHand(n, p)
    BY <1>4, <2>1 DEF Carries
  <2>5. CachedRuns(n, p)' /\ RunsCached(n, p)'
    BY <1>1, <1>2, <2>1, <2>2, <2>4 DEF Runs, CachedRuns, RunsCached, RunsAs, Running
  <2>6. QED
    BY <1>3, <2>3, <2>5 DEF Runs
<1>8. QED
    BY <1>1, <1>5, <1>6, <1>7

\* A lost watch: what was queued is missed.
LEMMA ClosedStream ==
    ASSUME StoreTypeOK, NEW n \in Node, NEW p \in Pod, CloseWatch(CubeletWatch(n))
    PROVE  /\ stream'[CubeletWatch(n)] = <<>>
           /\ CubeletWatch(n) \notin watching'
           /\ UNCHANGED <<store, moved>>
           /\ ~InStream(CubeletWatch(n), p)'
           /\ \A i : ~FirstAt(CubeletWatch(n), p, i)'
           /\ \A i, j : ~Adjacent(CubeletWatch(n), p, i, j)'
           /\ ~Excused(n, p)' => ~Excused(n, p) /\ ~InStream(CubeletWatch(n), p)
<1>1. CubeletWatch(n) \in Client
    BY DEF Client
<1>2. /\ stream'[CubeletWatch(n)] = <<>> /\ CubeletWatch(n) \notin watching'
      /\ UNCHANGED <<store, moved>>
    BY <1>1 DEF CloseWatch, StoreTypeOK
<1>3. missed \subseteq missed' /\ (InStream(CubeletWatch(n), p) => <<CubeletWatch(n), p>> \in missed')
    BY DEF CloseWatch, InStream
<1>4. QED
    BY <1>2, <1>3 DEF InStream, FirstAt, Adjacent, At, Excused

LEMMA LoseKeeps ==
    ASSUME TypeOK, NEW n \in Node, NEW p \in Pod, Sound(n, p), LoseWatch(n)
    PROVE  Sound(n, p)'
<1> USE DEF TypeOK, Sound
<1>1. /\ stream'[CubeletWatch(n)] = <<>> /\ CubeletWatch(n) \notin watching'
      /\ ~InStream(CubeletWatch(n), p)'
      /\ \A i : ~FirstAt(CubeletWatch(n), p, i)'
      /\ \A i, j : ~Adjacent(CubeletWatch(n), p, i, j)'
      /\ ~Excused(n, p)' => ~Excused(n, p) /\ ~InStream(CubeletWatch(n), p)
    BY ClosedStream DEF LoseWatch
<1>2. UNCHANGED <<store, informer, podCache, podEvent, sync, docker, silent, evicted, failed>>
    BY DEF LoseWatch, CloseWatch
<1>3. WatchOrder(n)'
    BY <1>1, <1>2 DEF WatchOrder
<1>4. LastStored(n, p)' /\ EventsStay(n, p)' /\ FirstStays(n, p)'
    BY <1>1 DEF LastStored, EventsStay, FirstStays
<1>5. Settled(n, p)' /\ EvictedGone(n, p)'
    BY <1>1, <1>2 DEF Follows, Settled, EvictedGone, Reads, Mine
<1>6. ToldRemoved(n, p)' /\ ToldCached(n, p)' /\ ReportsRunning(n, p)'
    BY <1>2 DEF Runs, ToldRemoved, ToldCached, ReportsRunning, RunsAs, Tells, Carries
<1>7. CachedRuns(n, p)' /\ RunsCached(n, p)'
    BY <1>1, <1>2 DEF Runs, CachedRuns, RunsCached, RunsAs, Running, InHand, Reads, Mine
<1>8. QED
    BY <1>3, <1>4, <1>5, <1>6, <1>7 DEF Follows, Runs

\* The process dies: the events in hand are accounted failed.
LEMMA DiesKeeps ==
    ASSUME TypeOK, CacheMine, NEW n \in Node, NEW p \in Pod, Sound(n, p), Dies(n)
    PROVE  Sound(n, p)'
<1> USE DEF TypeOK, CubeletTypeOK, Sound
<1>1. /\ stream'[CubeletWatch(n)] = <<>> /\ CubeletWatch(n) \notin watching'
      /\ ~InStream(CubeletWatch(n), p)'
      /\ \A i : ~FirstAt(CubeletWatch(n), p, i)'
      /\ \A i, j : ~Adjacent(CubeletWatch(n), p, i, j)'
      /\ ~Excused(n, p)' => ~Excused(n, p) /\ ~InStream(CubeletWatch(n), p)
    BY ClosedStream DEF Dies
<1>2. /\ UNCHANGED <<store, docker, silent, evicted>>
      /\ informer'[n] = "dead" /\ podCache'[n][p] = NoPod
      /\ podEvent'[n] = NoEvent /\ sync'[n] = Idle
      /\ failed \subseteq failed' /\ (InHand(n, p) => <<n, p>> \in failed')
    BY DEF Dies, CloseWatch, NoCopies, InHand
<1>3. sync'[n].ev = NoEvent /\ sync'[n].pc = "idle"
    BY <1>2 DEF Idle
<1>4. WatchOrder(n)'
    BY <1>1, <1>2 DEF WatchOrder
<1>5. LastStored(n, p)' /\ EventsStay(n, p)' /\ FirstStays(n, p)'
    BY <1>1 DEF LastStored, EventsStay, FirstStays
<1>6. Settled(n, p)' /\ EvictedGone(n, p)' /\ ~Reads(n)'
    BY <1>2 DEF Settled, EvictedGone, Reads
<1>7. ToldRemoved(n, p)' /\ ToldCached(n, p)' /\ ReportsRunning(n, p)' /\ CachedRuns(n, p)'
    BY <1>2, <1>3 DEF ToldRemoved, ToldCached, ReportsRunning, CachedRuns, Carries
<1>8. RunsCached(n, p)'
  <2>1. SUFFICES ASSUME Running(n, p), ~InHand(n, p), ~Excused(n, p), ~InStream(CubeletWatch(n), p),
                        <<n, p>> \notin evicted \cup failed
                 PROVE  Mine(n, store[p]) # NoPod
    BY <1>1, <1>2, <1>6 DEF RunsCached, Running, Mine
  <2>2. CASE podCache[n][p] # NoPod
    <3>1. store[p] # NoPod /\ store[p].node = n
        BY <2>1, <2>2 DEF Follows, Settled, CacheMine
    <3>2. QED
        BY <3>1 DEF Mine
  <2>3. CASE podCache[n][p] = NoPod
    BY <2>1, <2>3 DEF Runs, RunsCached
  <2>4. QED
    BY <2>2, <2>3
<1>9. QED
    BY <1>4, <1>5, <1>6, <1>7, <1>8 DEF Follows, Runs

\* ForceRemove, and an answer to the routine.
LEMMA EvictKeeps ==
    ASSUME TypeOK, NEW n \in Node, NEW p \in Pod, Sound(n, p), NEW q \in Pod, ServedElsewhere(n),
           ForceRemove(n, q) \/ UNCHANGED <<podCache, evicted>>,
           UNCHANGED <<informer, podEvent, sync, docker, silent, failed>>
    PROVE  Sound(n, p)'
<1> USE DEF TypeOK, CubeletTypeOK, Sound
<1> DEFINE c == CubeletWatch(n)
<1>1. CASE podCache'[n][p] = podCache[n][p] /\ (<<n, p>> \in evicted' <=> <<n, p>> \in evicted)
  <2>1. WatchOrder(n)'
    BY DEF WatchOrder, ServedElsewhere
  <2>2. Follows(n, p)'
    BY <1>1, FollowsKept DEF ServedElsewhere, Reads
  <2>3. ToldRemoved(n, p)' /\ ToldCached(n, p)' /\ ReportsRunning(n, p)'
    BY <1>1 DEF Runs, ToldRemoved, ToldCached, ReportsRunning, RunsAs, Tells, Carries
  <2>4. CachedRuns(n, p)' /\ RunsCached(n, p)'
    BY <1>1 DEF Runs, CachedRuns, RunsCached, RunsAs, Running, InHand, Reads, Mine, Excused,
       ServedElsewhere
  <2>5. QED
    BY <2>1, <2>2, <2>3, <2>4 DEF Runs
<1>2. CASE podCache'[n][p] = NoPod /\ <<n, p>> \in evicted'
  <2>1. WatchOrder(n)'
    BY DEF WatchOrder, ServedElsewhere
  <2>2. ToldRemoved(n, p)' /\ ToldCached(n, p)' /\ CachedRuns(n, p)' /\ RunsCached(n, p)'
    BY <1>2 DEF ToldRemoved, ToldCached, CachedRuns, RunsCached
  <2>3. ReportsRunning(n, p)'
    BY DEF Runs, ReportsRunning, RunsAs
  <2>4. FirstStays(n, p)' /\ Settled(n, p)' /\ EvictedGone(n, p)'
    BY <1>2 DEF FirstStays, Settled, EvictedGone
  <2>5. LastStored(n, p)' /\ EventsStay(n, p)'
    BY DEF ServedElsewhere, Follows, LastStored, EventsStay, Stays, LastAt, Adjacent, At, InStream
  <2>6. QED
    BY <2>1, <2>2, <2>3, <2>4, <2>5 DEF Follows, Runs
<1>3. \/ podCache'[n][p] = podCache[n][p] /\ (<<n, p>> \in evicted' <=> <<n, p>> \in evicted)
      \/ podCache'[n][p] = NoPod /\ <<n, p>> \in evicted'
    BY DEF ForceRemove
<1>4. QED
    BY <1>1, <1>2, <1>3

\* The pod loop receives the event.
LEMMA ReceiveKeeps ==
    ASSUME TypeOK, Handover, NEW n \in Node, NEW p \in Pod, Sound(n, p), Receive(n)
    PROVE  Sound(n, p)'
<1> USE DEF TypeOK, CubeletTypeOK, Sound
<1>1. ServedElsewhere(n)
    BY Served DEF Receive
<1>2. /\ informer[n] = "send" /\ informer'[n] = "watch"
      /\ sync'[n] = [pc |-> "lock", ev |-> podEvent[n]]
      /\ podEvent[n] # NoEvent /\ podEvent'[n] = NoEvent
      /\ UNCHANGED <<podCache, docker, silent, evicted, failed>>
    BY DEF Receive, Handover
<1>3. sync[n].ev = NoEvent
  <2>1. sync[n] \in SyncState /\ sync[n].pc = "idle"
    BY DEF Receive
  <2>2. QED
    BY <2>1 DEF SyncState, Idle
<1>4. sync'[n].ev = podEvent[n] /\ sync'[n].pc = "lock"
    BY <1>2
<1>5. WatchOrder(n)'
    BY <1>1, <1>2 DEF WatchOrder, ServedElsewhere
<1>6. Reads(n) /\ Reads(n)'
    BY <1>2 DEF Reads
<1>7. Follows(n, p)'
    BY <1>1, <1>2, <1>6, FollowsKept DEF ServedElsewhere
<1>8. InHand(n, p)' <=> InHand(n, p)
    BY <1>2, <1>3, <1>4 DEF InHand
<1>9. ToldRemoved(n, p)' /\ ToldCached(n, p)' /\ ReportsRunning(n, p)'
    BY <1>2, <1>3, <1>4 DEF Runs, ToldRemoved, ToldCached, ReportsRunning, Tells, Carries
<1>10. CachedRuns(n, p)' /\ RunsCached(n, p)'
    BY <1>1, <1>2, <1>6, <1>8 DEF Runs, CachedRuns, RunsCached, RunsAs, Running, Mine, Excused,
       ServedElsewhere
<1>11. QED
    BY <1>5, <1>7, <1>9, <1>10 DEF Runs

\* What the docker part of a handler leaves: the containers of the specification, and
\* a report to come; nothing that runs, after a removal; or the mark of a failure.
LEMMA WorkOf ==
    ASSUME TypeOK, NEW n \in Node, SyncWork(n) \/ SyncWorkFails(n)
    PROVE  \E ev \in PodEvent :
            /\ sync[n].ev = ev /\ ev # NoEvent /\ ev.pod \in Pod
            /\ ServedElsewhere(n)
            /\ UNCHANGED <<informer, podCache, podEvent, silent, evicted>>
            /\ \A p \in Pod : p # ev.pod => /\ docker'[n][p] = docker[n][p]
                                            /\ <<n, p>> \in failed' <=> <<n, p>> \in failed
            /\ \/ /\ sync'[n].pc = "push" /\ sync'[n].ev = ev
                  /\ <<n, ev.pod>> \in failed' \/ RunsAs(n, ev.pod, ev.obj.spec)'
               \/ sync'[n] = Idle /\ ev.type = "remove" /\ ~Running(n, ev.pod)'
               \/ sync'[n] = Idle /\ <<n, ev.pod>> \in failed'
<1> USE DEF TypeOK, CubeletTypeOK
<1>1. PICK ev : ev = sync[n].ev
    OBVIOUS
<1>2. sync[n].pc = "lock" /\ UNCHANGED <<informer, podCache, podEvent, silent, evicted>>
      /\ ServedElsewhere(n)
    BY Served DEF SyncWork, SyncWorkFails
<1>3. sync[n] \in SyncState
    OBVIOUS
<1>4. sync[n] \in [pc : {"lock"}, ev : PodEvent]
    BY <1>2, <1>3 DEF SyncState, Idle
<1>5. ev \in PodEvent /\ ev.pod \in Pod /\ ev.type # "none"
    BY <1>1, <1>4 DEF PodEvent, PutEvent
<1>6. ev # NoEvent
    BY <1>5 DEF NoEvent
<1>7. ASSUME NEW d, NEW push, NEW ok, SyncLeaves(n, d, push, ok)
      PROVE  /\ \A p \in Pod : p # ev.pod => /\ docker'[n][p] = docker[n][p]
                                             /\ <<n, p>> \in failed' <=> <<n, p>> \in failed
             /\ docker'[n][ev.pod] = d
             /\ ~ok => <<n, ev.pod>> \in failed'
             /\ push => sync'[n].pc = "push" /\ sync'[n].ev = ev
             /\ ~push => sync'[n] = Idle
  <2>1. /\ docker' = [docker EXCEPT ![n][ev.pod] = d]
        /\ failed' = IF ok THEN failed \ {<<n, ev.pod>>} ELSE failed \cup {<<n, ev.pod>>}
        /\ push => sync' = [sync EXCEPT ![n].pc = "push"]
        /\ ~push => sync' = [sync EXCEPT ![n] = Idle]
    BY <1>1, <1>7 DEF SyncLeaves
  <2>2. push => sync'[n].pc = "push" /\ sync'[n].ev = ev
    BY <1>1, <1>4, <2>1
  <2>3. /\ \A p \in Pod : p # ev.pod => docker'[n][p] = docker[n][p]
        /\ docker'[n][ev.pod] = d
    BY <1>5, <2>1
  <2>4. \A p \in Pod : p # ev.pod => (<<n, p>> \in failed' <=> <<n, p>> \in failed)
    BY <2>1
  <2>5. QED
    BY <2>1, <2>2, <2>3, <2>4
<1>8. \/ /\ ev.type = "remove"
         /\ \E k \in Clearings(n, ev) : SyncLeaves(n, k, FALSE, TRUE)
      \/ /\ ev.type # "remove"
         /\ \E k \in Clearings(n, ev) : \E d \in Started(k, ev.obj.spec) :
                SyncLeaves(n, d, StartOk(k, ev.obj.spec), StartOk(k, ev.obj.spec) /\ k.up = {})
      \/ \E d : SyncLeaves(n, d, FALSE, FALSE)
  <2>1. CASE SyncWork(n)
    BY <1>1, <2>1 DEF SyncWork
  <2>2. CASE SyncWorkFails(n)
    BY <2>2 DEF SyncWorkFails
  <2>3. QED
    BY <2>1, <2>2
<1>9. CASE \E d : SyncLeaves(n, d, FALSE, FALSE)
    BY <1>1, <1>2, <1>5, <1>6, <1>7, <1>9
<1>10. CASE ev.type = "remove" /\ \E k \in Clearings(n, ev) : SyncLeaves(n, k, FALSE, TRUE)
  <2>1. PICK k : k = Killed(docker[n][ev.pod]) /\ SyncLeaves(n, k, FALSE, TRUE)
    BY <1>10 DEF Clearings
  <2>2. k.sandbox # "up" /\ k.up = {}
    BY <2>1 DEF Killed
  <2>3. ~Running(n, ev.pod)'
    BY <1>7, <2>1, <2>2 DEF Running
  <2>4. QED
    BY <1>1, <1>2, <1>5, <1>6, <1>7, <1>10, <2>1, <2>3
<1>11. CASE /\ ev.type # "remove"
            /\ \E k \in Clearings(n, ev) : \E d \in Started(k, ev.obj.spec) :
                SyncLeaves(n, d, StartOk(k, ev.obj.spec), StartOk(k, ev.obj.spec) /\ k.up = {})
  <2>0. PICK k \in Clearings(n, ev) : \E d \in Started(k, ev.obj.spec) :
            SyncLeaves(n, d, StartOk(k, ev.obj.spec), StartOk(k, ev.obj.spec) /\ k.up = {})
    BY <1>11
  <2>1. PICK d \in Started(k, ev.obj.spec) :
            SyncLeaves(n, d, StartOk(k, ev.obj.spec), StartOk(k, ev.obj.spec) /\ k.up = {})
    BY <2>0
  <2>2. CASE ~StartOk(k, ev.obj.spec)
    BY <1>1, <1>2, <1>5, <1>6, <1>7, <2>1, <2>2
  <2>3. CASE StartOk(k, ev.obj.spec) /\ k.up # {}
    BY <1>1, <1>2, <1>5, <1>6, <1>7, <2>1, <2>3
  <2>4. CASE StartOk(k, ev.obj.spec) /\ k.up = {}
    <3>1. k \in Containers
        BY <1>5, KillType DEF Clearings
    <3>2. d = [k EXCEPT !.sandbox = "up", !.up = @ \cup ContainersOf[ev.obj.spec]]
        BY <2>1, <2>4 DEF Started, StartOk
    <3>3. d.sandbox = "up" /\ d.up = ContainersOf[ev.obj.spec]
        BY <2>4, <3>1, <3>2 DEF Containers
    <3>4. RunsAs(n, ev.pod, ev.obj.spec)'
        BY <1>7, <2>1, <3>3 DEF RunsAs
    <3>5. QED
        BY <1>1, <1>2, <1>5, <1>6, <1>7, <2>1, <2>4, <3>4
  <2>5. QED
    BY <2>2, <2>3, <2>4
<1>12. QED
    BY <1>8, <1>9, <1>10, <1>11

LEMMA WorkKeeps ==
    ASSUME TypeOK, NEW n \in Node, NEW p \in Pod, Sound(n, p), SyncWork(n) \/ SyncWorkFails(n)
    PROVE  Sound(n, p)'
<1> USE DEF Sound
<1>1. PICK ev \in PodEvent :
        /\ sync[n].ev = ev /\ ev # NoEvent /\ ev.pod \in Pod
        /\ ServedElsewhere(n)
        /\ UNCHANGED <<informer, podCache, podEvent, silent, evicted>>
        /\ \A q \in Pod : q # ev.pod => /\ docker'[n][q] = docker[n][q]
                                        /\ <<n, q>> \in failed' <=> <<n, q>> \in failed
        /\ \/ /\ sync'[n].pc = "push" /\ sync'[n].ev = ev
              /\ <<n, ev.pod>> \in failed' \/ RunsAs(n, ev.pod, ev.obj.spec)'
           \/ sync'[n] = Idle /\ ev.type = "remove" /\ ~Running(n, ev.pod)'
           \/ sync'[n] = Idle /\ <<n, ev.pod>> \in failed'
    BY WorkOf
<1>2. Idle.ev = NoEvent /\ Idle.pc = "idle"
    BY DEF Idle
<1>3. WatchOrder(n)'
    BY <1>1 DEF WatchOrder, ServedElsewhere
<1>4. Follows(n, p)'
    BY <1>1, FollowsKept DEF ServedElsewhere, Reads
<1>5. (Excused(n, p)' <=> Excused(n, p)) /\ (Reads(n)' <=> Reads(n))
    BY <1>1 DEF Excused, Reads, ServedElsewhere
<1>6. /\ InHand(n, p) <=> Carries(podEvent[n], p) \/ Carries(ev, p)
      /\ InHand(n, p)' <=> Carries(podEvent[n], p) \/ Carries(sync'[n].ev, p)
    BY <1>1 DEF InHand, Carries
<1>7. CASE p # ev.pod
  <2>1. ~Carries(ev, p) /\ ~Carries(sync'[n].ev, p)
    BY <1>1, <1>2, <1>7 DEF Carries
  <2>2. docker'[n][p] = docker[n][p] /\ (<<n, p>> \in failed' <=> <<n, p>> \in failed)
    BY <1>1, <1>7
  <2>3. ToldRemoved(n, p)' /\ ToldCached(n, p)'
    BY <1>1, <2>1 DEF Runs, ToldRemoved, ToldCached, Carries, Tells
  <2>4. ReportsRunning(n, p)'
    BY <1>1, <1>2, <1>7 DEF ReportsRunning
  <2>5. CachedRuns(n, p)' /\ RunsCached(n, p)'
    BY <1>1, <1>5, <1>6, <2>1, <2>2
       DEF Runs, CachedRuns, RunsCached, RunsAs, Running, Mine, ServedElsewhere
  <2>6. QED
    BY <1>3, <1>4, <2>3, <2>4, <2>5 DEF Runs
<1>8. CASE p = ev.pod /\ sync'[n].pc = "push" /\ sync'[n].ev = ev
           /\ (<<n, ev.pod>> \in failed' \/ RunsAs(n, ev.pod, ev.obj.spec)')
  <2>1. ToldRemoved(n, p)' /\ ToldCached(n, p)'
    BY <1>1, <1>8 DEF Runs, ToldRemoved, ToldCached, Carries, Tells
  <2>2. ReportsRunning(n, p)'
    BY <1>8 DEF ReportsRunning, RunsAs
  <2>3. InHand(n, p)'
    BY <1>1, <1>6, <1>8 DEF Carries
  <2>4. CachedRuns(n, p)' /\ RunsCached(n, p)'
    BY <2>3 DEF CachedRuns, RunsCached
  <2>5. QED
    BY <1>3, <1>4, <2>1, <2>2, <2>4 DEF Runs
<1>9. CASE p = ev.pod /\ sync'[n] = Idle
           /\ (<<n, ev.pod>> \in failed' \/ (ev.type = "remove" /\ ~Running(n, ev.pod)'))
  <2>1. ToldRemoved(n, p)' /\ ToldCached(n, p)'
    BY <1>1, <1>2, <1>9 DEF Runs, ToldRemoved, ToldCached, Carries, Tells
  <2>2. ReportsRunning(n, p)'
    BY <1>2, <1>9 DEF ReportsRunning
  <2>3. Carries(ev, p)
    BY <1>1, <1>9 DEF Carries
  <2>4. CachedRuns(n, p)'
    BY <1>1, <1>6, <1>9, <2>3 DEF Runs, CachedRuns, ToldCached, Tells
  <2>5. RunsCached(n, p)'
    BY <1>9 DEF RunsCached
  <2>6. QED
    BY <1>3, <1>4, <2>1, <2>2, <2>4, <2>5 DEF Runs
<1>10. QED
    BY <1>1, <1>7, <1>8, <1>9

\* The report, and the end of the turn.
LEMMA PushKeeps ==
    ASSUME TypeOK, NEW n \in Node, NEW p \in Pod, Sound(n, p),
           SyncPush(n) \/ SyncPushed(n) \/ SyncPushFails(n)
    PROVE  Sound(n, p)'
<1> USE DEF TypeOK, CubeletTypeOK, Sound
<1>1. /\ ServedElsewhere(n)
      /\ UNCHANGED <<informer, podCache, podEvent, docker, silent, evicted, failed>>
      /\ sync[n].pc \in {"push", "wait"}
    BY Served DEF SyncPush, SyncPushed, SyncPushFails, SyncUnlock
<1>2. sync[n] \in SyncState
    OBVIOUS
<1>3. sync[n] \in [pc : {"push", "wait"}, ev : PutEvent]
    BY <1>1, <1>2 DEF SyncState, Idle
<1>4. PICK ev \in PutEvent : ev = sync[n].ev
    BY <1>3
<1>5. ev.type # "remove" /\ ev # NoEvent
  <2>1. ev.type \in {"create", "update"}
    BY DEF PutEvent
  <2>2. QED
    BY <2>1 DEF NoEvent
<1>6. (sync'[n].pc = "wait" /\ sync'[n].ev = ev) \/ sync'[n] = Idle
    BY <1>3, <1>4 DEF SyncPush, SyncPushed, SyncPushFails, SyncUnlock
<1>7. Idle.ev = NoEvent /\ Idle.pc = "idle"
    BY DEF Idle
<1>8. WatchOrder(n)'
    BY <1>1 DEF WatchOrder, ServedElsewhere
<1>9. Follows(n, p)'
    BY <1>1, FollowsKept DEF ServedElsewhere, Reads
<1>10. (Excused(n, p)' <=> Excused(n, p)) /\ (Reads(n)' <=> Reads(n))
    BY <1>1 DEF Excused, Reads, ServedElsewhere
<1>11. ToldRemoved(n, p)' /\ ToldCached(n, p)'
    BY <1>1, <1>4, <1>6, <1>7 DEF Runs, ToldRemoved, ToldCached, Carries, Tells
<1>12. ReportsRunning(n, p)'
    BY <1>1, <1>4, <1>6, <1>7 DEF Runs, ReportsRunning, RunsAs
<1>13. /\ InHand(n, p) <=> Carries(podEvent[n], p) \/ Carries(ev, p)
       /\ InHand(n, p)' <=> Carries(podEvent[n], p) \/ Carries(sync'[n].ev, p)
    BY <1>1, <1>4 DEF InHand, Carries
<1>14. CachedRuns(n, p)' /\ RunsCached(n, p)'
  <2>1. CASE InHand(n, p)' <=> InHand(n, p)
    BY <1>1, <1>10, <2>1 DEF Runs, CachedRuns, RunsCached, RunsAs, Running, Mine, ServedElsewhere
  <2>2. CASE ~InHand(n, p)' /\ InHand(n, p)
    <3>1. ev.pod = p /\ Carries(sync[n].ev, p) /\ ~Carries(podEvent[n], p)
        BY <1>4, <1>13, <2>2 DEF Carries
    <3>2. CachedRuns(n, p)'
        BY <1>1, <1>4, <3>1 DEF Runs, CachedRuns, ToldCached, Tells, ReportsRunning, RunsAs
    <3>3. RunsCached(n, p)'
        BY <1>1, <1>4, <1>5, <3>1 DEF Runs, RunsCached, ToldRemoved
    <3>4. QED
        BY <3>2, <3>3
  <2>3. QED
    BY <1>6, <1>7, <1>13, <2>1, <2>2 DEF Carries
<1>15. QED
    BY <1>8, <1>9, <1>11, <1>12, <1>14 DEF Runs

\* A container that stops by itself.
LEMMA StopKeeps ==
    ASSUME TypeOK, NEW n \in Node, NEW p \in Pod, Sound(n, p), NEW q \in Pod, DockerStop(n, q)
    PROVE  Sound(n, p)'
<1> USE DEF TypeOK, CubeletTypeOK, Sound
<1>1. /\ ServedElsewhere(n)
      /\ UNCHANGED <<informer, podCache, podEvent, sync, silent, evicted>>
      /\ failed' = failed \cup {<<n, q>>}
      /\ p # q => docker'[n][p] = docker[n][p]
    BY Served DEF DockerStop
<1>2. <<n, p>> \in failed' \/ (docker'[n][p] = docker[n][p] /\ (<<n, p>> \in failed' <=> <<n, p>> \in failed))
    BY <1>1
<1>3. WatchOrder(n)'
    BY <1>1 DEF WatchOrder, ServedElsewhere
<1>4. Follows(n, p)'
    BY <1>1, FollowsKept DEF ServedElsewhere, Reads
<1>5. ToldRemoved(n, p)' /\ ToldCached(n, p)'
    BY <1>1 DEF Runs, ToldRemoved, ToldCached, Tells, Carries
<1>6. ReportsRunning(n, p)' /\ CachedRuns(n, p)' /\ RunsCached(n, p)'
    BY <1>1, <1>2 DEF Runs, ReportsRunning, CachedRuns, RunsCached, RunsAs, Running, InHand, Reads, Mine,
       Excused, ServedElsewhere
<1>7. QED
    BY <1>3, <1>4, <1>5, <1>6 DEF Runs

\* Every step of a cubelet keeps its own part.
LEMMA OwnKeeps ==
    ASSUME TypeOK, Handover, CacheMine, NEW n \in Node, NEW p \in Pod, Sound(n, p),
           CubeletStep(n) \/ CubeletFault(n)
    PROVE  Sound(n, p)'
<1> USE DEF TypeOK
<1>1. ASSUME ServedElsewhere(n), UNCHANGED <<informer, podCache, podEvent, sync, docker, silent, evicted, failed>>
      PROVE  Sound(n, p)'
    BY <1>1, EvictKeeps
<1>2. CASE RoutineStart(n) \/ RoutineEnd(n)
    BY <1>1, <1>2, Served DEF RoutineStart, RoutineEnd
<1>3. ASSUME NEW q \in Pod, RoutinePush(n, q) \/ RoutinePushed(n, q) \/ RoutinePushFails(n, q)
      PROVE  Sound(n, p)'
  <2>1. ServedElsewhere(n)
    BY <1>3, Served DEF RoutinePush, RoutinePushed, RoutinePushFails
  <2>2. /\ ForceRemove(n, q) \/ UNCHANGED <<podCache, evicted>>
        /\ UNCHANGED <<informer, podEvent, sync, docker, silent, failed>>
    BY <1>3 DEF RoutinePush, RoutinePushed, RoutinePushFails, RoutineLeft
  <2>3. QED
    BY <2>1, <2>2, EvictKeeps
<1>4. CASE WatchTurn(n)
    BY <1>4, TurnOrder, TurnFollows, TurnRuns DEF Sound
<1>5. QED
    BY <1>2, <1>3, <1>4, ListKeeps, ReopenKeeps, LoseKeeps, DiesKeeps, ReceiveKeeps, WorkKeeps,
       PushKeeps, StopKeeps DEF CubeletStep, CubeletFault, KillCubelet, RoutinePanics

-----------------------------------------------------------------------------
(* The theorems *)

AllSound == \A n \in Node, p \in Pod : Sound(n, p)

LEMMA SoundStep == ASSUME TypeOK, Handover, AllMine, AllSound, [Next]_vars PROVE AllSound'
<1> SUFFICES ASSUME NEW m \in Node, NEW p \in Pod PROVE Sound(m, p)'
    BY DEF AllSound
<1>0. Sound(m, p) /\ CacheMine
    BY DEF AllSound, AllMine
<1>1. ASSUME NodeKept(m), UNCHANGED <<store, moved>> PROVE Sound(m, p)'
    BY <1>0, <1>1, KeptFollows DEF Sound
<1>2. ASSUME NEW n \in Node, OnNode(CubeletStep(n) \/ CubeletFault(n)) PROVE Sound(m, p)'
  <2>1. CASE m = n
    BY <1>0, <1>2, <2>1, OwnKeeps DEF OnNode
  <2>2. CASE m # n
    BY <1>1, <1>2, <2>2, OthersKept DEF OnNode
  <2>3. QED
    BY <2>1, <2>2
<1>3. CASE \/ \E r \in Requester : Commit(r)
           \/ \E q \in Pod : DeletePod(q) \/ \E s \in PodSpec : CreatePod(q, s)
    BY <1>0, <1>3, WritersWrite, WriteKeeps DEF Sound
<1>4. CASE \/ SchedStep \/ SchedFault \/ \E r \in Requester : PutFails(r)
           \/ \E q \in Pod, s \in PodSpec : RewritePod(q, s)
           \/ UNCHANGED vars
    BY <1>1, <1>4, SchedKept
<1>5. QED
    BY <1>2, <1>3, <1>4 DEF Next

\* The invariant gives the properties.
LEMMA SoundGives ==
    ASSUME TypeOK, AllSound PROVE CacheAgrees /\ OrphanHasCause /\ CachedPodRuns
<1> USE DEF TypeOK
<1>1. ASSUME NEW n \in Node, NEW p \in Pod, Reads(n), ~Excused(n, p), <<n, p>> \notin evicted
      PROVE  Mine(n, LastKnown(n, p)) = Mine(n, store[p])
  <2> DEFINE c == CubeletWatch(n)
  <2>0. c \in Client /\ Follows(n, p)
    BY DEF Client, AllSound, Sound
  <2>1. CASE InStream(c, p)
    <3>1. PICK i : LastAt(c, p, i) /\ stream[c][i].obj = store[p]
        BY <2>0, <2>1 DEF Follows, LastStored
    <3> DEFINE at == {k \in DOMAIN stream[c] : stream[c][k].pod = p}
    <3>2. \A k : k \in at <=> At(c, p, k)
        BY DEF At
    <3>3. i \in at /\ \A j \in at : j <= i
        BY <3>1, <3>2 DEF LastAt
    <3>4. \A k \in at : (\A j \in at : j <= k) => k = i
        BY <2>0, <3>1, <3>2, LastUnique DEF LastAt
    <3> HIDE DEF at
    <3>5. (CHOOSE k \in at : \A j \in at : j <= k) = i
        BY <3>3, <3>4
    <3>6. LastInStream(c, p) = stream[c][i].obj
        BY <3>5 DEF LastInStream, at
    <3>7. QED
        BY <2>1, <3>1, <3>6 DEF LastKnown
  <2>2. CASE ~InStream(c, p)
    BY <1>1, <2>0, <2>2 DEF Follows, Settled, LastKnown, Mine
  <2>3. QED
    BY <2>1, <2>2
<1>2. CacheAgrees
    BY <1>1 DEF CacheAgrees, Reads, Excused
<1>3. OrphanHasCause
  <2>1. \A n \in Node, p \in Pod : RunsCached(n, p)
    BY DEF AllSound, Sound, Runs
  <2>2. QED
    BY <2>1 DEF OrphanHasCause, RunsCached, Reads, Excused
<1>4. CachedPodRuns
  <2>1. \A n \in Node, p \in Pod : CachedRuns(n, p)
    BY DEF AllSound, Sound, Runs
  <2>2. QED
    BY <2>1 DEF CachedPodRuns, CachedRuns, RunsAs
<1>5. QED
    BY <1>2, <1>3, <1>4

LEMMA InitSound == Init => AllSound
<1> SUFFICES ASSUME Init, NEW n \in Node, NEW p \in Pod PROVE Sound(n, p)
    BY DEF AllSound
<1>0. CubeletWatch(n) \in Client
    BY DEF Client
<1>1. /\ stream[CubeletWatch(n)] = <<>> /\ watching = {} /\ evicted = {}
      /\ informer[n] = "list" /\ podCache[n][p] = NoPod
      /\ podEvent[n] = NoEvent /\ sync[n] = Idle /\ docker[n][p] = NoContainers
    BY <1>0 DEF Init, StoreInit, CubeletInit, NoCopies
<1>2. WatchOrder(n)
    BY <1>1 DEF WatchOrder
<1>3. Follows(n, p)
    BY <1>1, NoEvents DEF Follows, LastStored, EventsStay, FirstStays, Settled, EvictedGone, Reads
<1>4. sync[n].ev = NoEvent /\ sync[n].pc = "idle" /\ ~Running(n, p)
    BY <1>1 DEF Idle, NoContainers, Running
<1>5. Runs(n, p)
    BY <1>1, <1>4 DEF Runs, ToldRemoved, ToldCached, ReportsRunning, CachedRuns, RunsCached, Carries
<1>6. QED
    BY <1>2, <1>3, <1>5 DEF Sound

CacheInv == TypeOK /\ Handover /\ AllBound /\ AllMine /\ AllSound

LEMMA CacheInductive ==
    /\ Init => CacheInv
    /\ CacheInv /\ [Next]_vars => CacheInv'
<1>1. Init => CacheInv
    BY InitTyped, InitBound, InitMine, InitSound DEF CacheInv
<1>2. CacheInv /\ [Next]_vars => CacheInv'
    BY TypeStep, HandoverStep, BoundStep, AllMineStep, SoundStep DEF CacheInv
<1>3. QED
    BY <1>1, <1>2

\* What an informer has cached, with the events still queued for it, is what etcd
\* holds for its node, but for lost events, evictions and pods that changed nodes.
THEOREM CacheFollows == Spec => []CacheAgrees
<1>1. CacheInv => CacheAgrees
    BY SoundGives DEF CacheInv
<1>2. QED
    BY <1>1, CacheInductive, PTL DEF Spec

\* A node runs what it no longer has cached only for one of the four named causes.
THEOREM OrphansExplained == Spec => []OrphanHasCause
<1>1. CacheInv => OrphanHasCause
    BY SoundGives DEF CacheInv
<1>2. QED
    BY <1>1, CacheInductive, PTL DEF Spec

\* What a node has cached and is done with, it runs as it is cached.
THEOREM CacheRuns == Spec => []CachedPodRuns
<1>1. CacheInv => CachedPodRuns
    BY SoundGives DEF CacheInv
<1>2. QED
    BY <1>1, CacheInductive, PTL DEF Spec
=============================================================================
