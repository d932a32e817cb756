----------------------------- MODULE ReplicaSets -----------------------------
(***************************************************************************)
(* The controller manager's ReplicaSet part: the informers of pods and of  *)
(* ReplicaSets with their caches and channels, the ReplicaSet controller's *)
(* event loop and routine, and what they meet in the API server: one       *)
(* ReplicaSet and the pods that match its selector.  Cubelets, users and   *)
(* the AutoScaler are reduced to what they write.                          *)
(*                                                                         *)
(* Pod phases are classed as pkg/controllermanager/phase does: "created"   *)
(* is NotHandle, "running" is Running, "bad" is Bad.  LastUpdateTime is    *)
(* not kept: the routine finds 30 seconds passed when nothing is under way *)
(* any more, and at any other time as one of the incidents that happen     *)
(* MaxIncidents times.                                                     *)
(*                                                                         *)
(* A Go copy of a ReplicaSet shares its Status with the cache it was taken *)
(* from.  Event loop handlers write through that pointer; "shared" says    *)
(* that an RsUpdate event, or the job handling one, still points there.    *)
(***************************************************************************)
EXTENDS Naturals, SequencesExt, FiniteSetsExt

CONSTANTS
    Pod,          \* UIDs of pods; one that nobody knows any more is used again
    Replicas,     \* the replica counts users and the AutoScaler ask for
    ChanCap,      \* capacity of a controller's event channel (10 in the code)
    NoSet, NoStatus, NoEvent, NoJob, NoPod,
    MaxIncidents, \* budget: what the controller does not do by itself, see Incident
    MaxRescales   \* budget: RsUpdate events handled, which may go on for ever

ASSUME BoundAssumption ==
    /\ Replicas \subseteq Nat
    /\ ChanCap \in Nat \ {0}
    /\ {MaxIncidents, MaxRescales} \subseteq Nat

ASSUME PodAssumption == IsFiniteSet(Pod) /\ NoPod \notin Pod

Status == [toRun : Seq(Pod), toKill : Seq(Pod), running : Seq(Pod)]
SetObj == [replicas : Replicas, status : Status \cup {NoStatus}]
Phase == {"created", "running", "bad"}

\* What the watches send: a stored ReplicaSet or NoSet for DELETE; a pod's
\* phase or "gone".  What the informers tell the controller.
PodMsg == [pod : Pod, phase : {"running", "bad", "gone"}]
PodEvent == [type : {"create", "update", "killed"}, pod : Pod]
SetEvent == [type : {"create", "update", "remove"}, obj : SetObj, shared : BOOLEAN]

\* What the holder of biglock is doing: pods still to create, pods still to
\* delete, the pod whose removal is to be recorded, the object to PUT.
Job == [kind : {"create", "update", "remove", "pod", "routine"}, obj : SetObj,
        toCreate : Nat, kill : Seq(Pod), record : Pod \cup {NoPod},
        found : BOOLEAN, shared : BOOLEAN]

ASSUME NoValueAssumption ==
    /\ NoSet \notin SetObj /\ NoStatus \notin Status /\ NoJob \notin Job
    /\ NoEvent \notin PodMsg \cup PodEvent \cup SetEvent

VARIABLES
    set,        \* etcd: the ReplicaSet, or NoSet
    pods,       \* etcd: the phase of each pod, or "gone"
    alive,      \* the controller manager runs
    setInf, podInf,       \* informers: "list", "connect" or "watch"
    setStream, podStream, \* events the API server has sent and nobody read
    setCache, podCache, rmCache,
    podHand,    \* a pod event that passed the check of rmCache
    setOut, podOut,       \* an event the informer is sending to the channel
    setChan, podChan,
    job,        \* the holder of biglock, or NoJob
    setReq,     \* a PUT of the ReplicaSet, found and not yet written, that is the
                \* AutoScaler's or nobody's any more, or NoSet
    podReq,     \* PUTs of pods by cubelets and the scheduler, found and not yet
                \* written: the phase each carries, or "none"
    user,       \* what the user has done: "none", "created", "deleted"
    incidents, rescales,
    unseen,     \* history: a write of the ReplicaSet failed or was not sent
    missed,     \* history: pods whose deletion the informer was not told
    raced,      \* history: pods recorded as removed while their event was in hand
    revived,    \* history: pods that a PUT wrote again after they had been deleted
    tidy        \* history: all was settled when the ReplicaSet was deleted

etcd == <<set, pods>>
informers == <<setInf, podInf, podHand, setOut, podOut>>
streams == <<setStream, podStream>>
caches == <<setCache, podCache, rmCache>>
chans == <<setChan, podChan>>
budgets == <<user, incidents, rescales>>
history == <<unseen, missed, raced, revived, tidy>>
requests == <<setReq, podReq>>
manager == <<alive, informers, caches, chans, job>>
vars == <<etcd, streams, manager, requests, budgets, history>>

TypeOK ==
    /\ set \in SetObj \cup {NoSet}
    /\ pods \in [Pod -> Phase \cup {"gone"}]
    /\ alive \in BOOLEAN
    /\ {setInf, podInf} \subseteq {"list", "connect", "watch"}
    /\ setStream \in Seq(SetObj \cup {NoSet})
    /\ podStream \in Seq(PodMsg)
    /\ setCache \in SetObj \cup {NoSet}
    /\ podCache \in [Pod -> {"none", "running", "bad"}]
    /\ rmCache \subseteq Pod
    /\ podHand \in PodMsg \cup {NoEvent}
    /\ setOut \in SetEvent \cup {NoEvent}
    /\ podOut \in PodEvent \cup {NoEvent}
    /\ setChan \in Seq(SetEvent) /\ Len(setChan) <= ChanCap
    /\ podChan \in Seq(PodEvent) /\ Len(podChan) <= ChanCap
    /\ job \in Job \cup {NoJob}
    /\ setReq \in SetObj \cup {NoSet}
    /\ podReq \in [Pod -> Phase \cup {"none"}]
    /\ user \in {"none", "created", "deleted"}
    /\ incidents \in 0..MaxIncidents /\ rescales \in 0..MaxRescales
    /\ unseen \in BOOLEAN /\ tidy \in BOOLEAN
    /\ missed \subseteq Pod /\ raced \subseteq Pod /\ revived \subseteq Pod

\* One budget for failed requests, lost watches, pods that fail or are deleted or
\* start fast, kills, reports, scaling and early routines.
Incident ==
    /\ incidents < MaxIncidents
    /\ incidents' = incidents + 1
    /\ UNCHANGED <<user, rescales>>

-----------------------------------------------------------------------------
(* The API server.                                                         *)

\* A write of the ReplicaSet: o, or NoSet for its deletion.
WriteSet(o) ==
    /\ set' = o
    /\ setStream' = IF setInf = "watch" THEN Append(setStream, o) ELSE setStream
    /\ unseen' = (unseen \/ setInf # "watch"
                    \/ (o # NoSet /\ set # NoSet /\ o.status = NoStatus))

\* A write of a pod.  Its first phase is one the pod informer drops unread.
WritePod(p, phase) ==
    /\ pods' = [pods EXCEPT ![p] = phase]
    /\ podStream' = IF podInf = "watch" /\ phase # "created"
                    THEN Append(podStream, [pod |-> p, phase |-> phase])
                    ELSE podStream
    /\ missed' = IF podInf # "watch" /\ phase = "gone" THEN missed \cup {p} ELSE missed

-----------------------------------------------------------------------------
(* The ReplicaSet informer.                                                *)

\* The cache drops a status: copies that pointed to it keep their own.
Unshare ==
    /\ setChan' = [i \in DOMAIN setChan |->
                     IF setChan[i].shared
                     THEN [setChan[i] EXCEPT !.obj.status = setCache.status, !.shared = FALSE]
                     ELSE setChan[i]]
    /\ job' = IF job = NoJob THEN NoJob ELSE [job EXCEPT !.shared = FALSE]

ListSets ==
    /\ alive /\ setInf = "list"
    /\ setInf' = "connect"
    /\ IF set = NoSet THEN UNCHANGED <<setCache, setChan, job>>
                      ELSE setCache' = set /\ Unshare
    /\ UNCHANGED <<etcd, streams, alive, podInf, podHand, setOut, podOut, podCache,
                   rmCache, podChan, requests, budgets, history>>

WatchSets ==
    /\ alive /\ setInf = "connect"
    /\ setInf' = "watch"
    /\ UNCHANGED <<etcd, streams, alive, podInf, podHand, setOut, podOut, caches,
                   chans, job, requests, budgets, history>>

\* informReplicaSet: what the event does to the cache, and what is told of it.
SetNews(o) ==
    CASE o = NoSet /\ setCache = NoSet -> NoEvent
      [] o = NoSet /\ setCache # NoSet ->
            [type |-> "remove", obj |-> setCache, shared |-> FALSE]
      [] o # NoSet /\ setCache = NoSet ->
            [type |-> "create", obj |-> o, shared |-> FALSE]
      [] OTHER -> IF o.replicas # setCache.replicas
                  THEN [type |-> "update", obj |-> o, shared |-> TRUE]
                  ELSE NoEvent

\* Mutant: the cache takes only objects whose replica count is new.
InformSetIfChanged ==
    /\ alive /\ setInf = "watch" /\ setOut = NoEvent /\ setStream # <<>>
    /\ setStream' = Tail(setStream)
    /\ setCache' = IF Head(setStream) # NoSet /\ setCache # NoSet
                      /\ SetNews(Head(setStream)) = NoEvent
                   THEN setCache ELSE Head(setStream)
    /\ setOut' = SetNews(Head(setStream))
    /\ Unshare
    /\ UNCHANGED <<etcd, podStream, alive, setInf, podInf, podHand, podOut, podCache,
                   rmCache, podChan, requests, budgets, history>>

InformSet ==
    /\ alive /\ setInf = "watch" /\ setOut = NoEvent /\ setStream # <<>>
    /\ setStream' = Tail(setStream)
    /\ setCache' = Head(setStream)
    /\ setOut' = SetNews(Head(setStream))
    /\ Unshare
    /\ UNCHANGED <<etcd, podStream, alive, setInf, podInf, podHand, podOut, podCache,
                   rmCache, podChan, requests, budgets, history>>

SendSet ==
    /\ alive /\ setOut # NoEvent /\ Len(setChan) < ChanCap
    /\ setChan' = Append(setChan, setOut)
    /\ setOut' = NoEvent
    /\ UNCHANGED <<etcd, streams, alive, setInf, podInf, podHand, podOut, caches,
                   podChan, job, requests, budgets, history>>

LoseSetWatch ==
    /\ alive /\ setInf = "watch" /\ setOut = NoEvent
    /\ Incident
    /\ setInf' = "list"
    /\ setStream' = <<>>
    /\ unseen' = (unseen \/ setStream # <<>>)
    /\ tidy' = FALSE
    /\ UNCHANGED <<etcd, podStream, alive, podInf, podHand, setOut, podOut, caches,
                   chans, job, requests, missed, raced, revived>>

-----------------------------------------------------------------------------
(* The pod informer.                                                       *)

ListPods ==
    /\ alive /\ podInf = "list"
    /\ podInf' = "connect"
    /\ podCache' = [p \in Pod |-> IF pods[p] \in {"running", "bad"} THEN pods[p]
                                                                   ELSE podCache[p]]
    /\ UNCHANGED <<etcd, streams, alive, setInf, podHand, setOut, podOut, setCache,
                   rmCache, chans, job, requests, budgets, history>>

WatchPods ==
    /\ alive /\ podInf = "connect"
    /\ podInf' = "watch"
    /\ UNCHANGED <<etcd, streams, alive, setInf, podHand, setOut, podOut, caches,
                   chans, job, requests, budgets, history>>

ReceivePod ==
    /\ alive /\ podInf = "watch" /\ podHand = NoEvent /\ podOut = NoEvent
    /\ podStream # <<>>
    /\ podStream' = Tail(podStream)
    /\ podHand' = IF Head(podStream).pod \in rmCache THEN NoEvent ELSE Head(podStream)
    /\ UNCHANGED <<etcd, setStream, alive, setInf, podInf, setOut, podOut, caches,
                   chans, job, requests, budgets, history>>

\* informPod: the event to send for a pod that was old and is now new.
PodNews(p, old, new) ==
    CASE old = "running" /\ new # "running" -> [type |-> "killed", pod |-> p]
      [] old = "bad" /\ new = "gone"        -> [type |-> "killed", pod |-> p]
      [] old = "running" /\ new = "running" -> [type |-> "update", pod |-> p]
      [] old # "running" /\ new = "running" -> [type |-> "create", pod |-> p]
      [] OTHER                              -> NoEvent

\* A pod enters the cache when it runs and leaves it when it no longer does;
\* one that was listed as bad stays as it is.
CachedPhase(old, new) ==
    CASE new = "running"               -> "running"
      [] new = "bad" /\ old = "bad"    -> "bad"
      [] OTHER                         -> "none"

InformPod ==
    /\ alive /\ podHand # NoEvent
    /\ LET p == podHand.pod IN
       /\ podCache' = [podCache EXCEPT ![p] = CachedPhase(@, podHand.phase)]
       /\ podOut' = PodNews(p, podCache[p], podHand.phase)
    /\ podHand' = NoEvent
    /\ UNCHANGED <<etcd, streams, alive, setInf, podInf, setOut, setCache, rmCache,
                   chans, job, requests, budgets, history>>

\* Mutant: an event is queued in a full channel, too.
SendPodAnyway ==
    /\ alive /\ podOut # NoEvent
    /\ podChan' = Append(podChan, podOut)
    /\ podOut' = NoEvent
    /\ UNCHANGED <<etcd, streams, alive, setInf, podInf, podHand, setOut, caches,
                   setChan, job, requests, budgets, history>>

SendPod ==
    /\ alive /\ podOut # NoEvent /\ Len(podChan) < ChanCap
    /\ podChan' = Append(podChan, podOut)
    /\ podOut' = NoEvent
    /\ UNCHANGED <<etcd, streams, alive, setInf, podInf, podHand, setOut, caches,
                   setChan, job, requests, budgets, history>>

LosePodWatch ==
    /\ alive /\ podInf = "watch" /\ podHand = NoEvent /\ podOut = NoEvent
    /\ Incident
    /\ podInf' = "list"
    /\ podStream' = <<>>
    /\ missed' = missed \cup {m.pod : m \in {x \in ToSet(podStream) : x.phase = "gone"}}
    /\ tidy' = FALSE
    /\ UNCHANGED <<etcd, setStream, alive, setInf, podHand, setOut, podOut, caches,
                   chans, job, requests, unseen, raced, revived>>

-----------------------------------------------------------------------------
(* The ReplicaSet controller.  Who holds biglock has a job; its HTTP calls *)
(* are steps of their own, between which everyone else goes on.            *)

EmptyStatus == [toRun |-> <<>>, toKill |-> <<>>, running |-> <<>>]
Idle == alive /\ job = NoJob

\* Copies of one UID at most: utils.RemoveDuplication keeps the first.  kept[n] is
\* what it has kept of the first n.
Distinct(seq) ==
    LET kept[n \in 0..Len(seq)] ==
          IF n = 0 THEN <<>>
          ELSE IF seq[n] \in ToSet(kept[n - 1]) THEN kept[n - 1]
          ELSE Append(kept[n - 1], seq[n])
    IN  kept[Len(seq)]

StartJob(kind, obj, n, kill, shared) ==
    job' = [kind |-> kind, obj |-> obj, toCreate |-> n, kill |-> kill,
            record |-> NoPod, found |-> FALSE, shared |-> shared]

\* The PUT under way in the job, where its sender may give up on it.
Outlived == IF job # NoJob /\ job.found THEN {job.obj} ELSE {}

\* The process ends, by a nil dereference or because somebody stops it.  A PUT
\* that has found the ReplicaSet may still write it, or never arrive.
Down ==
    /\ alive' = FALSE
    /\ setInf' = "list" /\ podInf' = "list"
    /\ podHand' = NoEvent /\ setOut' = NoEvent /\ podOut' = NoEvent
    /\ setStream' = <<>> /\ podStream' = <<>>
    /\ setCache' = NoSet /\ rmCache' = {}
    /\ podCache' = [p \in Pod |-> "none"]
    /\ setChan' = <<>> /\ podChan' = <<>>
    /\ job' = NoJob
    /\ setReq' \in {setReq, NoSet} \cup Outlived
    /\ UNCHANGED podReq
    /\ unseen' = (unseen \/ (set # NoSet /\ set.status = NoStatus))
    /\ tidy' = FALSE
    /\ missed' = {} /\ raced' = {}
    /\ UNCHANGED <<etcd, revived>>

\* An event's object as the handler sees it: a shared Status is the cache's.
Seen(e) == IF e.shared THEN [e.obj EXCEPT !.status = setCache.status] ELSE e.obj

HandleSetCreate ==
    /\ Idle /\ setChan # <<>> /\ Head(setChan).type = "create"
    /\ setChan' = Tail(setChan)
    /\ LET o == Head(setChan).obj IN
       StartJob("create", [o EXCEPT !.status = EmptyStatus], o.replicas, <<>>, FALSE)
    /\ UNCHANGED <<etcd, streams, alive, informers, caches, podChan, requests,
                   budgets, history>>

\* Only the pods listed as running are counted.  Those it kills stay listed
\* as running; toKill is written through the shared Status at once.
HandleSetUpdate ==
    /\ Idle /\ setChan # <<>> /\ Head(setChan).type = "update"
    /\ Seen(Head(setChan)).status # NoStatus
    /\ rescales < MaxRescales /\ rescales' = rescales + 1
    /\ setChan' = Tail(setChan)
    /\ LET o == Seen(Head(setChan))
           up == o.replicas > Len(o.status.running)
           surplus == SubSeq(o.status.running, 1, Len(o.status.running) - o.replicas)
           new == IF up THEN o ELSE [o EXCEPT !.status.toKill = @ \o surplus]
           shared == Head(setChan).shared
       IN /\ StartJob("update", new,
                      IF up THEN o.replicas - Len(o.status.running) ELSE 0,
                      IF up THEN <<>> ELSE surplus, shared)
          /\ setCache' = IF shared THEN [setCache EXCEPT !.status = new.status]
                                   ELSE setCache
    /\ UNCHANGED <<etcd, streams, alive, informers, podCache, rmCache, podChan,
                   requests, user, incidents, history>>

\* Mutant: the pods that were to run are deleted, not those that do.
HandleSetRemoveToRun ==
    /\ Idle /\ setChan # <<>> /\ Head(setChan).type = "remove"
    /\ Head(setChan).obj.status # NoStatus
    /\ setChan' = Tail(setChan)
    /\ LET o == Head(setChan).obj IN StartJob("remove", o, 0, o.status.toRun, FALSE)
    /\ UNCHANGED <<etcd, streams, alive, informers, caches, podChan, requests,
                   budgets, history>>

HandleSetRemove ==
    /\ Idle /\ setChan # <<>> /\ Head(setChan).type = "remove"
    /\ Head(setChan).obj.status # NoStatus
    /\ setChan' = Tail(setChan)
    /\ LET o == Head(setChan).obj IN StartJob("remove", o, 0, o.status.running, FALSE)
    /\ UNCHANGED <<etcd, streams, alive, informers, caches, podChan, requests,
                   budgets, history>>

\* RsUpdate and RsRemove with a nil Status are nil dereferences.
SetPanics ==
    /\ Idle /\ setChan # <<>> /\ Head(setChan).type # "create"
    /\ Seen(Head(setChan)).status = NoStatus
    /\ Down
    /\ UNCHANGED budgets

\* The status after a pod event; the same status where the handler writes none.
AfterPod(e, s) ==
    CASE e.type = "create" ->
            [s EXCEPT !.running = Append(@, e.pod), !.toRun = RemoveFirst(@, e.pod)]
      [] e.type = "update" /\ e.pod \notin ToSet(s.running) ->
            [s EXCEPT !.running = Append(@, e.pod)]
      [] e.type = "killed" ->
            [s EXCEPT !.running = RemoveFirst(@, e.pod), !.toKill = RemoveFirst(@, e.pod)]
      [] OTHER -> s

\* handlePodCreate, handlePodUpdate, handlePodKilled, through the cached Status.
HandlePod ==
    /\ Idle /\ podChan # <<>>
    /\ setCache # NoSet => setCache.status # NoStatus
    /\ podChan' = Tail(podChan)
    /\ LET e == Head(podChan)
           new == [setCache EXCEPT !.status = AfterPod(e, @)]
       IN IF setCache = NoSet \/ (e.type = "update" /\ new = setCache)
          THEN UNCHANGED <<setCache, job>>
          ELSE setCache' = new /\ StartJob("pod", new, 0, <<>>, FALSE)
    /\ UNCHANGED <<etcd, streams, alive, informers, podCache, rmCache, setChan,
                   requests, budgets, history>>

PodPanics ==
    /\ Idle /\ podChan # <<>> /\ setCache # NoSet
    /\ setCache.status = NoStatus
    /\ Down
    /\ UNCHANGED budgets

\* Nothing is on its way and no new pod is still to start.
Settled ==
    /\ Idle /\ setReq = NoSet
    /\ setInf = "watch" /\ podInf = "watch"
    /\ setStream = <<>> /\ podStream = <<>>
    /\ podHand = NoEvent /\ setOut = NoEvent /\ podOut = NoEvent
    /\ setChan = <<>> /\ podChan = <<>>
    /\ \A p \in Pod : pods[p] # "created"

\* Mutant: the pods that run are taken from the Status, as the handlers do.
RoutineOfListed(o, runnings, bads) ==
    LET listed == o.status.running
        surplus == IF Len(listed) > o.replicas THEN Len(listed) - o.replicas ELSE 0
        missing == IF o.replicas > Len(listed) THEN o.replicas - Len(listed) ELSE 0
        kill == Distinct(o.status.toKill \o o.status.toRun
                           \o SubSeq(listed, 1, surplus) \o bads)
        new == [toRun |-> <<>>, toKill |-> kill, running |-> listed]
    IN StartJob("routine", [o EXCEPT !.status = new], missing, kill, FALSE)

\* checkAndUpdateReplicaSetStatus.  runnings and bads are in the order of a map;
\* pods still in PodUIDsToRun are killed with those in PodUIDsToKill.
RoutineOf(o, runnings, bads) ==
    LET surplus == IF Len(runnings) > o.replicas THEN Len(runnings) - o.replicas ELSE 0
        missing == IF o.replicas > Len(runnings) THEN o.replicas - Len(runnings) ELSE 0
        kill == Distinct(o.status.toKill \o o.status.toRun
                           \o SubSeq(runnings, 1, surplus) \o bads)
        new == [toRun |-> <<>>, toKill |-> kill, running |-> runnings]
    IN StartJob("routine", [o EXCEPT !.status = new], missing, kill, FALSE)

CachedIn(phase) == {p \in Pod : podCache[p] = phase}

Routine ==
    /\ Idle /\ setCache # NoSet
    /\ setCache.status # NoStatus
    /\ \/ Settled /\ UNCHANGED <<budgets, tidy>>
       \/ ~Settled /\ Incident /\ tidy' = FALSE
    /\ \E runnings \in SetToSeqs(CachedIn("running")), bads \in SetToSeqs(CachedIn("bad")) :
          RoutineOf(setCache, runnings, bads)
    /\ UNCHANGED <<etcd, streams, alive, informers, caches, chans, requests,
                   unseen, missed, raced, revived>>

StatusRefs(o) ==
    IF o = NoSet \/ o.status = NoStatus THEN {}
    ELSE ToSet(o.status.toRun \o o.status.toKill \o o.status.running)

\* The pods somebody still knows by their UID.
Known ==
    (UNION ({StatusRefs(o) : o \in {set, setCache, setReq} \cup ToSet(setStream)
                                 \cup {e.obj : e \in ToSet(setChan)}}
            \cup {{m.pod : m \in ToSet(podStream)}, {e.pod : e \in ToSet(podChan)},
                  {p \in Pod : podReq[p] # "none" \/ podCache[p] # "none"}}))
      \cup (IF podHand = NoEvent THEN {} ELSE {podHand.pod})
      \cup (IF podOut = NoEvent THEN {} ELSE {podOut.pod})
      \cup (IF setOut = NoEvent THEN {} ELSE StatusRefs(setOut.obj))
      \cup (IF job = NoJob THEN {} ELSE StatusRefs(job.obj) \cup ToSet(job.kill)
                                          \cup {job.record})

\* UIDs are unique in the code.  Here a forgotten one may serve again, and
\* then nothing recorded of it matters any more.
Forgotten == {p \in Pod : pods[p] = "gone"} \ Known

\* CreatePod; the handlers list the new UID in PodUIDsToRun.
JobCreatesPod ==
    /\ job # NoJob /\ job.toCreate > 0 /\ Forgotten # {}
    /\ LET p == CHOOSE q \in Forgotten : TRUE
           new == [job EXCEPT !.toCreate = @ - 1, !.obj.status.toRun = Append(@, p)]
       IN /\ pods' = [pods EXCEPT ![p] = "created"]
          /\ job' = new
          /\ setCache' = IF job.shared THEN [setCache EXCEPT !.status = new.obj.status]
                                       ELSE setCache
          /\ rmCache' = rmCache \ {p}
          /\ missed' = missed \ {p}
          /\ raced' = raced \ {p}
          /\ revived' = revived \ {p}
    /\ UNCHANGED <<set, streams, alive, informers, podCache, chans, requests,
                   budgets, unseen, tidy>>

JobFailsToCreate ==
    /\ job # NoJob /\ job.toCreate > 0
    /\ Incident
    /\ job' = [job EXCEPT !.toCreate = @ - 1]
    /\ UNCHANGED <<etcd, streams, alive, informers, caches, chans, requests, history>>

\* DeletePod.  A pod that is not there is dropped from PodUIDsToKill by the
\* routine; one that was there is recorded by all but handleReplicaSetRemove.
JobDeletesPod ==
    /\ job # NoJob /\ job.toCreate = 0 /\ job.record = NoPod /\ job.kill # <<>>
    /\ LET p == Head(job.kill) IN
       IF pods[p] \in Phase
       THEN /\ WritePod(p, "gone")
            /\ job' = [job EXCEPT !.kill = Tail(@),
                                  !.record = IF job.kind = "remove" THEN NoPod ELSE p]
       ELSE /\ job' = [job EXCEPT !.kill = Tail(@),
                                  !.obj.status.toKill = IF job.kind = "routine"
                                                        THEN RemoveFirst(@, p) ELSE @]
            /\ UNCHANGED <<pods, podStream, missed>>
    /\ UNCHANGED <<set, setStream, alive, informers, caches, chans, requests,
                   budgets, unseen, raced, revived, tidy>>

JobFailsToDelete ==
    /\ job # NoJob /\ job.toCreate = 0 /\ job.record = NoPod /\ job.kill # <<>>
    /\ Incident
    /\ job' = [job EXCEPT !.kill = Tail(@)]
    /\ tidy' = FALSE
    /\ UNCHANGED <<etcd, streams, alive, informers, caches, chans, requests,
                   unseen, missed, raced, revived>>

\* Mutant: the pod stays in the cache.
JobRecordsOnly ==
    /\ job # NoJob /\ job.record # NoPod
    /\ rmCache' = rmCache \cup {job.record}
    /\ job' = [job EXCEPT !.record = NoPod]
    /\ UNCHANGED <<etcd, streams, alive, informers, setCache, podCache, chans, requests,
                   budgets, history>>

\* RecordRemove, while the informer may hold an event of the pod.
JobRecordsRemove ==
    /\ job # NoJob /\ job.record # NoPod
    /\ LET p == job.record IN
       /\ rmCache' = rmCache \cup {p}
       /\ podCache' = [podCache EXCEPT ![p] = "none"]
       /\ raced' = IF podHand # NoEvent /\ podHand.pod = p THEN raced \cup {p} ELSE raced
    /\ job' = [job EXCEPT !.record = NoPod]
    /\ UNCHANGED <<etcd, streams, alive, informers, setCache, chans, requests,
                   budgets, unseen, missed, revived, tidy>>

JobAtPut == job # NoJob /\ job.toCreate = 0 /\ job.kill = <<>> /\ job.record = NoPod

JobEndsRemove ==
    /\ JobAtPut /\ job.kind = "remove"
    /\ job' = NoJob
    /\ UNCHANGED <<etcd, streams, alive, informers, caches, chans, requests,
                   budgets, history>>

\* UpdateReplicaSet: the handler looks the object up, answers 404 or writes.
JobLooksUp ==
    /\ JobAtPut /\ job.kind # "remove" /\ ~job.found
    /\ job' = IF set = NoSet THEN NoJob ELSE [job EXCEPT !.found = TRUE]
    /\ UNCHANGED <<etcd, streams, alive, informers, caches, chans, requests,
                   budgets, history>>

JobWrites ==
    /\ JobAtPut /\ job.found
    /\ WriteSet(job.obj)
    /\ job' = NoJob
    /\ UNCHANGED <<pods, podStream, alive, informers, caches, chans, requests,
                   budgets, missed, raced, revived, tidy>>

\* An error, whether or not the API server has found the ReplicaSet and writes on.
JobFailsToWrite ==
    /\ JobAtPut /\ job.kind # "remove"
    /\ Incident
    /\ job' = NoJob
    /\ setReq' \in {setReq} \cup Outlived
    /\ unseen' = (unseen \/ job.kind = "create")
    /\ UNCHANGED <<etcd, streams, alive, informers, caches, chans, podReq,
                   missed, raced, revived, tidy>>

-----------------------------------------------------------------------------
(* Everyone else.                                                          *)

\* checkAndUpdateAutoScalerStatus: a copy of the cached object, Status
\* included, with another count.  When and how far to scale is left open.
ScaleReads ==
    /\ alive /\ setReq = NoSet
    /\ Incident
    /\ setCache # NoSet /\ set # NoSet /\ CachedIn("running") # {}
    /\ \E n \in Replicas \ {setCache.replicas} :
          setReq' = [setCache EXCEPT !.replicas = n]
    /\ UNCHANGED <<etcd, streams, manager, podReq, history>>

SetPutLands ==
    /\ setReq # NoSet
    /\ WriteSet(setReq)
    /\ setReq' = NoSet
    /\ UNCHANGED <<pods, podStream, manager, podReq, budgets, missed, raced, revived, tidy>>

CreateSet ==
    /\ user = "none" /\ user' = "created"
    /\ \E n \in Replicas : WriteSet([replicas |-> n, status |-> NoStatus])
    /\ UNCHANGED <<pods, podStream, manager, requests, incidents, rescales,
                   missed, raced, revived, tidy>>

Live == {p \in Pod : pods[p] \in Phase}

\* Once, while all is settled or, as an incident, at any other time.
DeleteSet ==
    /\ set # NoSet
    /\ \/ Settled /\ user = "created" /\ user' = "deleted" /\ UNCHANGED <<incidents, rescales>>
       \/ ~Settled /\ Incident
    /\ WriteSet(NoSet)
    /\ tidy' = /\ Settled /\ setCache = set /\ set.status # NoStatus
                /\ Live = ToSet(set.status.running)
    /\ UNCHANGED <<pods, podStream, manager, requests, missed, raced, revived>>

\* A PUT of a pod: PutPod looks it up and writes it later, whoever deletes it in
\* between.  There is one PUT of a pod at a time.
PutPod(p, phase) ==
    /\ pods[p] \in Phase /\ podReq[p] = "none"
    /\ podReq' = [podReq EXCEPT ![p] = phase]
    /\ UNCHANGED <<etcd, streams, manager, setReq, history>>

PodPutLands(p) ==
    /\ podReq[p] # "none"
    /\ podReq' = [podReq EXCEPT ![p] = "none"]
    /\ WritePod(p, podReq[p])
    /\ revived' = IF pods[p] = "gone" THEN revived \cup {p} ELSE revived
    /\ tidy' = (tidy /\ podReq[p] # "bad")
    /\ UNCHANGED <<set, setStream, manager, setReq, budgets, unseen, raced>>

\* The cubelet's status routine, for a pod that has been scheduled and started,
\* or whose containers run again.  Starting takes seconds, in which the manager
\* writes and reads again what it is writing now; a faster start is an incident.
PodRuns(p) ==
    /\ pods[p] \in {"created", "bad"}
    /\ \/ job = NoJob /\ setStream = <<>> /\ UNCHANGED budgets
       \/ Incident
    /\ PutPod(p, "running")

\* A PUT that changes nothing the controller reads is still an event.
PodReports(p) == Incident /\ PutPod(p, pods[p])

PodGoesBad(p) ==
    /\ pods[p] \in {"created", "running"}
    /\ Incident
    /\ PutPod(p, "bad")

UserDeletesPod(p) ==
    /\ pods[p] \in Phase
    /\ Incident
    /\ WritePod(p, "gone")
    /\ UNCHANGED <<set, setStream, manager, requests, unseen, raced, revived, tidy>>

Start ==
    /\ ~alive
    /\ alive' = TRUE
    /\ UNCHANGED <<etcd, streams, informers, caches, chans, job, requests, budgets,
                   history>>

Kill == alive /\ Incident /\ Down

-----------------------------------------------------------------------------
\* The manager has listed nothing and watches; restarts begin with a list.
Init ==
    /\ set = NoSet /\ pods = [p \in Pod |-> "gone"]
    /\ alive = TRUE
    /\ setInf = "watch" /\ podInf = "watch"
    /\ setStream = <<>> /\ podStream = <<>>
    /\ setCache = NoSet /\ podCache = [p \in Pod |-> "none"] /\ rmCache = {}
    /\ podHand = NoEvent /\ setOut = NoEvent /\ podOut = NoEvent
    /\ setChan = <<>> /\ podChan = <<>>
    /\ job = NoJob
    /\ setReq = NoSet /\ podReq = [p \in Pod |-> "none"]
    /\ user = "none" /\ incidents = 0 /\ rescales = 0
    /\ unseen = FALSE /\ missed = {} /\ raced = {} /\ revived = {} /\ tidy = FALSE

Informers ==
    \/ ListSets \/ WatchSets \/ InformSet \/ SendSet
    \/ ListPods \/ WatchPods \/ ReceivePod \/ InformPod \/ SendPod

Handlers ==
    \/ HandleSetCreate \/ HandleSetUpdate \/ HandleSetRemove \/ HandlePod
    \/ SetPanics \/ PodPanics

JobSteps ==
    \/ JobCreatesPod \/ JobDeletesPod \/ JobRecordsRemove \/ JobEndsRemove
    \/ JobLooksUp \/ JobWrites

Failures ==
    \/ LoseSetWatch \/ LosePodWatch
    \/ JobFailsToCreate \/ JobFailsToDelete \/ JobFailsToWrite
    \/ Kill
    \/ \E p \in Pod : PodGoesBad(p) \/ PodReports(p) \/ UserDeletesPod(p)

Next ==
    \/ Informers \/ Handlers \/ JobSteps \/ Routine \/ Failures
    \/ ScaleReads \/ SetPutLands \/ CreateSet \/ DeleteSet \/ Start
    \/ \E p \in Pod : PodRuns(p) \/ PodPutLands(p)

Spec == Init /\ [][Next]_vars

\* Goroutines that can go on do; the API server answers; pods that were created
\* come to run or are found bad.  Nothing is assumed of users, faults, restarts.
FairSpec ==
    /\ Spec
    /\ WF_vars(ListSets) /\ WF_vars(WatchSets) /\ WF_vars(InformSet) /\ WF_vars(SendSet)
    /\ WF_vars(ListPods) /\ WF_vars(WatchPods) /\ WF_vars(ReceivePod)
    /\ WF_vars(InformPod) /\ WF_vars(SendPod)
    /\ WF_vars(Handlers) /\ WF_vars(JobSteps) /\ WF_vars(Routine) /\ WF_vars(SetPutLands)
    /\ \A p \in Pod : WF_vars(PodRuns(p)) /\ WF_vars(PodPutLands(p))

-----------------------------------------------------------------------------
\* A cached ReplicaSet without a Status, which the routine skips and which ends
\* the process at the next pod event, has a cause: its creation is still to be
\* handled, the PUT that gives it a Status is on its way, it is deleted already,
\* or a write of it failed or was not sent to the informer.
NilStatusHasCause ==
    alive /\ setCache # NoSet /\ setCache.status = NoStatus =>
        \/ set = NoSet \/ unseen
        \/ setOut # NoEvent /\ setOut.type = "create"
        \/ \E e \in ToSet(setChan) : e.type = "create"
        \/ job # NoJob /\ job.kind = "create"
        \/ \E o \in ToSet(setStream) : o = NoSet \/ o.status # NoStatus

\* Pods whose deletion the cache may not hear of: it was not told, or the informer
\* held an event of the pod that had passed the check of rmCache, or the pod had come
\* back after it was recorded there.
Unheard == missed \cup raced \cup (revived \cap rmCache)

\* When all is settled, a pod the cache counts but etcd no longer has is such a one.
GhostHasCause ==
    Settled => \A p \in Pod :
        podCache[p] # "none" /\ pods[p] = "gone" => p \in Unheard

\* What the controller cannot make up for: it is down, has no Status of the
\* ReplicaSet, counts a pod that is gone, or does not count one that has come back.
Excused ==
    \/ ~alive \/ set = NoSet \/ setCache = NoSet
    \/ setCache # NoSet /\ setCache.status = NoStatus
    \/ \E p \in Unheard : podCache[p] # "none" /\ pods[p] = "gone"
    \/ \E p \in revived : podCache[p] = "none" /\ pods[p] \in Phase

\* A change of the replica count on its way to the controller or in its hands.
Rescaling ==
    \/ setOut # NoEvent /\ setOut.type = "update"
    \/ \E e \in ToSet(setChan) : e.type = "update"
    \/ job # NoJob /\ job.kind = "update"

AsManyAsWanted == set # NoSet /\ Cardinality({p \in Pod : pods[p] = "running"}) = set.replicas

\* Otherwise a ReplicaSet comes to have as many running pods as it asks for and
\* keeps them, in spite of statuses that overwrite each other, failed requests,
\* and pods that die, start late or start fast; unless counts go on changing.
Converges == []<>Excused \/ []<>Rescaling \/ <>[]AsManyAsWanted

\* The pods of a ReplicaSet that is deleted while all is settled are deleted,
\* but for those a PUT under way writes back, unless something fails on the way.
RemovalCleans == tidy ~> (~tidy \/ Live \subseteq revived)
=============================================================================
