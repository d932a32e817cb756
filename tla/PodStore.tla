------------------------------ MODULE PodStore ------------------------------
(***************************************************************************)
(* The API server as the pod clients see it: the pods in etcd, the REST    *)
(* handlers that read and write them, and one watch stream per client.     *)
(*                                                                         *)
(* A pod object is reduced to what the clients act on: the node of its     *)
(* status, its specification, and whether its status has an IP.  An object *)
(* whose Status is nil and one whose NodeUID is "" are handled alike by    *)
(* every reader, so both are node = NoNode.                                *)
(*                                                                         *)
(* PutPod is two steps, as in the handler: GetObj (answer 404 when there   *)
(* is no such pod) and PutObj of the whole object the client sent.  Other  *)
(* handlers run between the two.                                           *)
(***************************************************************************)
EXTENDS Naturals, Sequences, FiniteSets

CONSTANTS
    Pod,        \* the UIDs of the pods users ever create
    Node,       \* the UIDs of the worker nodes
    PodSpec,    \* pod specifications
    Container,  \* container names
    ContainersOf, \* the containers a specification asks for
    MaxFaults,  \* how many failures; a bound
    NoPod, NoNode, NoReq

ASSUME FaultsAssumption == MaxFaults \in Nat
ASSUME NodeAssumption == NoNode \notin Node
ASSUME SpecAssumption == ContainersOf \in [PodSpec -> (SUBSET Container) \ {{}}]

PodObj == [node : Node \cup {NoNode}, spec : PodSpec, ip : BOOLEAN]

ASSUME NoPodAssumption == NoPod \notin PodObj

\* The goroutines that send PUT requests: cubectl, the scheduler's pod loop,
\* a cubelet's pod loop, and one goroutine per pod of its status routine.  LateOf(i)
\* stands for a scheduler that fault i parted from its PUT: the handler goes on.
User == <<"user">>
Sched == <<"sched">>
LateOf(i) == <<"late", i>>
SyncOf(n) == <<"sync", n>>
PushOf(n, p) == <<"push", n, p>>

Late == {LateOf(i) : i \in 1..MaxFaults}
Requester == {User, Sched} \cup Late \cup {SyncOf(n) : n \in Node}
                \cup {PushOf(n, p) : n \in Node, p \in Pod}

\* The clients with a pod watch: the scheduler and the informer of each cubelet.
SchedWatch == <<"scheduler">>
CubeletWatch(n) == <<"cubelet", n>>
Client == {SchedWatch} \cup {CubeletWatch(n) : n \in Node}

\* A DELETE event carries the UID only: obj = NoPod.
Event == [pod : Pod, obj : PodObj \cup {NoPod}]
Put == [pod : Pod, obj : PodObj]

VARIABLES
    store,     \* etcd: the stored object of each pod, or NoPod
    watching,  \* the clients whose watch is registered in etcd
    stream,    \* events etcd has queued for a client, in order
    request,   \* PutPod handlers between their GetObj and their PutObj
    boundTo,   \* history: the <<pod, node>> pairs etcd ever held
    moved,     \* history: the pods a write took from the node they were bound to
    missed     \* history: <<client, pod>> whose last change the client was not sent

storeVars == <<store, watching, stream, request, boundTo, moved, missed>>

StoreTypeOK ==
    /\ store \in [Pod -> PodObj \cup {NoPod}]
    /\ watching \subseteq Client
    /\ stream \in [Client -> Seq(Event)]
    /\ request \in [Requester -> Put \cup {NoReq}]
    /\ boundTo \subseteq Pod \X Node
    /\ moved \subseteq Pod
    /\ missed \subseteq Client \X Pod

StoreInit ==
    /\ store = [p \in Pod |-> NoPod]
    /\ watching = {}
    /\ stream = [c \in Client |-> <<>>]
    /\ request = [r \in Requester |-> NoReq]
    /\ boundTo = {}
    /\ moved = {}
    /\ missed = {}

-----------------------------------------------------------------------------
\* etcd tells every registered watcher, in the order of the writes.
Notify(p, o) ==
    /\ stream' = [c \in Client |->
                    IF c \in watching THEN Append(stream[c], [pod |-> p, obj |-> o])
                                      ELSE stream[c]]
    /\ missed' = missed \cup {<<c, p>> : c \in Client \ watching}

\* etcdrw.PutObj: a write of the whole object, whatever is there.
PutObj(p, o) ==
    /\ store' = [store EXCEPT ![p] = o]
    /\ boundTo' = IF o.node = NoNode THEN boundTo ELSE boundTo \cup {<<p, o.node>>}
    /\ moved' = IF store[p] # NoPod /\ store[p].node \notin {NoNode, o.node}
                THEN moved \cup {p} ELSE moved
    /\ Notify(p, o)

\* PostPod: a new UID.
PostPod(p, o) ==
    /\ PutObj(p, o)
    /\ UNCHANGED <<watching, request>>

\* DelPod: a DELETE event only if there was something to delete.
DelPod(p) ==
    /\ store[p] # NoPod
    /\ store' = [store EXCEPT ![p] = NoPod]
    /\ Notify(p, NoPod)
    /\ UNCHANGED <<watching, request, boundTo, moved>>

\* PutPod up to its GetObj: the pod is there, the PutObj is to come.
PutPodFound(r, p, o) ==
    /\ request[r] = NoReq
    /\ store[p] # NoPod
    /\ request' = [request EXCEPT ![r] = [pod |-> p, obj |-> o]]
    /\ UNCHANGED <<store, watching, stream, boundTo, moved, missed>>

\* PutPod answers 404.
PutPodNotFound(r, p) ==
    /\ request[r] = NoReq
    /\ store[p] = NoPod
    /\ UNCHANGED storeVars

\* The PutObj of PutPod.  Nothing has been checked since the GetObj.
PutPodCommit(r) ==
    /\ request[r] # NoReq
    /\ PutObj(request[r].pod, request[r].obj)
    /\ request' = [request EXCEPT ![r] = NoReq]
    /\ UNCHANGED watching

\* The PutObj never happens: etcd fails, or the API server dies.
DropPut(r) ==
    /\ request[r] # NoReq
    /\ request' = [request EXCEPT ![r] = NoReq]
    /\ UNCHANGED <<store, watching, stream, boundTo, moved, missed>>

\* The sender of a PUT gives it up, or ends; the handler knows nothing of it.
AbandonPut(r, late) ==
    /\ request' = [request EXCEPT ![late] = request[r], ![r] = NoReq]
    /\ UNCHANGED <<store, boundTo, moved>>

\* GetPods, by a client that takes over the pods in known.
ListPods(c, known) ==
    /\ missed' = missed \ ({c} \X known)
    /\ UNCHANGED <<store, watching, stream, request, boundTo, moved>>

\* The watch handler: etcd's watch starts with the writes after this step.
OpenWatch(c) ==
    /\ watching' = watching \cup {c}
    /\ stream' = [stream EXCEPT ![c] = <<>>]
    /\ UNCHANGED <<store, request, boundTo, moved, missed>>

\* The connection is lost, and with it the events not yet delivered.
CloseWatch(c) ==
    /\ watching' = watching \ {c}
    /\ stream' = [stream EXCEPT ![c] = <<>>]
    /\ missed' = missed \cup {<<c, stream[c][i].pod>> : i \in DOMAIN stream[c]}
    /\ UNCHANGED <<store, request, boundTo, moved>>

\* A client reads the next event of its watch.
TakeEvent(c) ==
    /\ stream[c] # <<>>
    /\ stream' = [stream EXCEPT ![c] = Tail(@)]
    /\ UNCHANGED <<store, watching, request, boundTo, moved, missed>>

\* The event of p that a client with a registered watch has still to read last;
\* what it read last if there is none.
LastInStream(c, p) ==
    LET at == {i \in DOMAIN stream[c] : stream[c][i].pod = p}
    IN  stream[c][CHOOSE i \in at : \A j \in at : j <= i].obj
InStream(c, p) == \E i \in DOMAIN stream[c] : stream[c][i].pod = p
=============================================================================
