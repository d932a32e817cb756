--------------------------- MODULE Separate_proofs --------------------------
(***************************************************************************)
(* Three small components that share no state.                             *)
(*   - A job goes forward until a PUT is written that its sender had left, *)
(*     for any nodes and any number of incidents.                          *)
(*   - Two services share an address only for causes AddressesDiffer       *)
(*     names, for any range of addresses, any services and any number of   *)
(*     crashes.                                                            *)
(*   - The call graph has no cycle but for the causes NoCycle names, for   *)
(*     any finite set of names, any actions and any requests.              *)
(***************************************************************************)
EXTENDS Jobs, ClusterIPs, ActionGraph, FiniteSetTheorems, TLAPS

-----------------------------------------------------------------------------
(* Jobs *)

\* The job as it is when the scheduler has to choose its node.
Ready == [phase |-> "created", node |-> NoNode]

\* The scheduler has at most one copy that it will choose a node for, or has
\* chosen one for, and while it has one the job in etcd has no node.
SchedulerSound ==
    /\ scheduler = "list" => schedHand = NoJob
    /\ scheduler # "watch" => schedStream = <<>>
    /\ schedHand # NoJob =>
          /\ job = Ready /\ schedHand.phase = "created"
          /\ \A i \in DOMAIN schedStream : ~ToSchedule(schedStream[i])
    /\ \A i \in DOMAIN schedStream : ToSchedule(schedStream[i]) =>
          /\ job = Ready
          /\ \A k \in DOMAIN schedStream : ToSchedule(schedStream[k]) => k = i

\* A cubelet and a container have to do with the job only on its node.
NodeSound ==
    /\ job # NoJob => /\ job.phase = "creating" => job.node = NoNode
                      /\ job.phase \notin {"creating", "created"} => job.node # NoNode
    /\ \A n \in Node :
          /\ \A i \in DOMAIN jobStream[n] : Mine(jobStream[n][i], n) => job # NoJob /\ job.node = n
          /\ jobOut[n] # "none" => job # NoJob /\ job.node = n
          /\ jobOut[n] = "made" => container[n] = "created"
          /\ container[n] # "none" => job # NoJob /\ job.node = n
          /\ observer[n] # NoJob => observer[n].node = n /\ container[n] # "none"

\* Before its observer knows it the job's phase is "created"; then the observer
\* knows its phase, or is ahead by a "running" whose PUT failed.
PhaseSound ==
    \A n \in Node :
       /\ job # NoJob /\ job.node = n /\ observer[n] = NoJob => job.phase = "created"
       /\ Observing(n) => \/ observer[n].phase = job.phase
                          \/ observer[n].phase = "running" /\ job.phase = "waiting"

JobsInv == JobsTypeOK /\ SchedulerSound /\ NodeSound /\ PhaseSound

\* A PUT that its sender had left may undo all of it but the types.
JobsKept == JobsTypeOK /\ (wroteLate \/ JobsInv)

USE JobsAssumption

-----------------------------------------------------------------------------
LEMMA JobRecord ==
    ASSUME NEW j \in Job
    PROVE  /\ j.phase \in Phase /\ j.node \in Node \cup {NoNode} /\ j # NoJob
           /\ ToSchedule(j) <=> j = Ready
           /\ \A p \in Phase : /\ [j EXCEPT !.phase = p] \in Job
                               /\ [j EXCEPT !.phase = p].phase = p
                               /\ [j EXCEPT !.phase = p].node = j.node
           /\ \A n \in Node \cup {NoNode} : /\ [j EXCEPT !.node = n] \in Job
                                            /\ [j EXCEPT !.node = n].phase = j.phase
                                            /\ [j EXCEPT !.node = n].node = n
  BY DEF Job, ToSchedule, Ready

LEMMA TailSound ==
    ASSUME NEW s \in Seq(Job), s # <<>>
    PROVE  /\ Head(s) = s[1] /\ 1 \in DOMAIN s /\ s[1] \in Job
           /\ Tail(s) \in Seq(Job)
           /\ \A i \in DOMAIN Tail(s) : i + 1 \in DOMAIN s /\ i + 1 # 1 /\ Tail(s)[i] = s[i + 1]
           /\ \A i, k \in DOMAIN Tail(s) : i + 1 = k + 1 => i = k
  OBVIOUS

LEMMA AppendSound ==
    ASSUME NEW s \in Seq(Job), NEW j \in Job
    PROVE  /\ Append(s, j) \in Seq(Job)
           /\ \A i \in DOMAIN Append(s, j) : \/ i \in DOMAIN s /\ Append(s, j)[i] = s[i]
                                             \/ i = Len(s) + 1 /\ Append(s, j)[i] = j
  OBVIOUS

LEMMA EmptySound == <<>> \in Seq(Job) /\ DOMAIN (<<>>) = {}
  OBVIOUS

LEMMA PutTyped ==
    ASSUME JobsTypeOK, NEW j \in Job, PutJob(j)
    PROVE  /\ job' \in Job /\ schedStream' \in Seq(Job) /\ jobStream' \in [Node -> Seq(Job)]
           /\ missed' \in BOOLEAN
  BY AppendSound DEF PutJob, JobsTypeOK

\* What a PUT adds to the streams is the job that is written.
LEMMA PutStreams ==
    ASSUME JobsTypeOK, NEW j \in Job, PutJob(j)
    PROVE  /\ \A i \in DOMAIN schedStream' :
                 \/ i \in DOMAIN schedStream /\ schedStream'[i] = schedStream[i]
                 \/ i = Len(schedStream) + 1 /\ schedStream'[i] = j
           /\ scheduler # "watch" => schedStream' = schedStream
           /\ \A n \in Node : \A i \in DOMAIN jobStream'[n] :
                 \/ i \in DOMAIN jobStream[n] /\ jobStream'[n][i] = jobStream[n][i]
                 \/ jobStream'[n][i] = j
  BY AppendSound DEF PutJob, JobsTypeOK

LEMMA JobIncidentTyped ==
    ASSUME jobIncidents \in 0..MaxJobIncidents, JobIncident
    PROVE  jobIncidents' \in 0..MaxJobIncidents
  BY DEF JobIncident

LEMMA PartFromTyped ==
    ASSUME JobsTypeOK, NEW puts \in SUBSET (Job \cup {NoJob}), PartFrom(puts)
    PROVE  /\ late' \in [1..MaxJobIncidents -> Job \cup {NoJob}] /\ UNCHANGED wroteLate
           /\ jobIncidents' \in 0..MaxJobIncidents
  BY JobIncidentTyped DEF PartFrom, JobsTypeOK

-----------------------------------------------------------------------------
(* The types.                                                              *)

LEMMA ChosenTyped ==
    ASSUME JobsTypeOK, NEW j \in Job, NEW choice \in Node \cup {NoNode}, Chosen(j, choice)
    PROVE  schedHand' \in Job \cup {NoJob} /\ jobIncidents' \in 0..MaxJobIncidents
<1>0. jobIncidents \in 0..MaxJobIncidents
  BY DEF JobsTypeOK
<1>1. [j EXCEPT !.node = choice] \in Job
  BY JobRecord
<1> QED BY <1>0, <1>1, JobIncidentTyped DEF Chosen

LEMMA SchedulerTypes ==
    ASSUME JobsTypeOK,
           \/ CreateJob \/ SchedulerSteps \/ LoseScheduler
           \/ \E i \in 1..MaxJobIncidents : WriteLate(i)
    PROVE  JobsTypeOK'
<1> USE DEF lateVars, cubeletVars, observerVars
<1>1. CASE CreateJob
  <2>1. PICK j \in Job : PutJob(j)
    <3>1. [phase |-> "creating", node |-> NoNode] \in Job /\ "created" \in Phase
      BY DEF Job, Phase
    <3>2. job # NoJob => [job EXCEPT !.phase = "created"] \in Job
      BY <3>1, JobRecord DEF JobsTypeOK
    <3> QED BY <1>1, <3>1, <3>2 DEF CreateJob
  <2> QED BY <1>1, <2>1, PutTyped DEF CreateJob, JobsTypeOK
<1>2. CASE ListJobsToSchedule
  <2>1. schedHand' \in Job \cup {NoJob} /\ jobIncidents' \in 0..MaxJobIncidents
    <3>1. CASE job = NoJob
      BY <1>2, <3>1 DEF ListJobsToSchedule, JobsTypeOK
    <3>2. CASE job # NoJob
      BY <1>2, <3>2, ChosenTyped DEF ListJobsToSchedule, JobsTypeOK
    <3> QED BY <3>1, <3>2
  <2> QED BY <1>2, <2>1 DEF ListJobsToSchedule, JobsTypeOK, InfState
<1>3. CASE ConnectScheduler
  BY <1>3 DEF ConnectScheduler, JobsTypeOK, InfState
<1>4. CASE ScheduleJob
  <2>1. schedHand' \in Job \cup {NoJob} /\ jobIncidents' \in 0..MaxJobIncidents
    <3>1. Head(schedStream) \in Job
      BY <1>4, TailSound DEF ScheduleJob, JobsTypeOK
    <3> QED BY <1>4, <3>1, ChosenTyped DEF ScheduleJob
  <2>2. schedStream' \in Seq(Job)
    BY <1>4, TailSound DEF ScheduleJob, JobsTypeOK
  <2> QED BY <1>4, <2>1, <2>2 DEF ScheduleJob, JobsTypeOK
<1>5. CASE SendJobScheduleInfoBack
  <2>1. schedHand \in Job
    BY <1>5 DEF SendJobScheduleInfoBack, JobsTypeOK
  <2>2. CASE PutJob(schedHand) /\ UNCHANGED <<broken, lateVars, jobIncidents>>
    BY <1>5, <2>1, <2>2, PutTyped DEF SendJobScheduleInfoBack, JobsTypeOK
  <2>3. CASE /\ PartFrom({schedHand}) /\ broken' = TRUE
             /\ UNCHANGED <<job, schedStream, jobStream, missed>>
    BY <1>5, <2>1, <2>3, PartFromTyped DEF SendJobScheduleInfoBack, JobsTypeOK
  <2> QED BY <1>5, <2>2, <2>3 DEF SendJobScheduleInfoBack
<1>6. CASE LoseScheduler
  <2>1. {schedHand} \in SUBSET (Job \cup {NoJob})
    BY DEF JobsTypeOK
  <2> QED BY <1>6, <2>1, PartFromTyped, EmptySound DEF LoseScheduler, JobsTypeOK, InfState
<1>7. ASSUME NEW i \in 1..MaxJobIncidents, WriteLate(i) PROVE JobsTypeOK'
  <2>1. late[i] \in Job
    BY <1>7 DEF WriteLate, JobsTypeOK
  <2>2. late' \in [1..MaxJobIncidents -> Job \cup {NoJob}]
    BY <1>7 DEF WriteLate, JobsTypeOK
  <2> QED BY <1>7, <2>1, <2>2, PutTyped DEF WriteLate, JobsTypeOK
<1> QED BY <1>1, <1>2, <1>3, <1>4, <1>5, <1>6, <1>7 DEF SchedulerSteps

LEMMA CubeletTypes ==
    ASSUME JobsTypeOK, NEW n \in Node,
           \/ CubeletSteps(n) \/ AddGPUJobFails(n) \/ LoseJobWatch(n) \/ RestartCubelet(n)
    PROVE  JobsTypeOK'
<1> USE DEF lateVars, schedulerVars, observerVars, JobsTypeOK
<1>1. CASE ListJobs(n) \/ ConnectJobs(n)
  BY <1>1 DEF ListJobs, ConnectJobs, InfState
<1>2. CASE InformJob(n)
  <2>1. Tail(jobStream[n]) \in Seq(Job)
    BY <1>2, TailSound DEF InformJob
  <2> QED BY <1>2, <2>1 DEF InformJob
<1>3. CASE CreateContainer(n)
  <2>1. \A m \in Node : observer[m] # NoJob => container'[m] = container[m]
    BY <1>3 DEF CreateContainer
  <2> QED BY <1>3, <2>1 DEF CreateContainer
<1>4. CASE StartContainer(n)
  <2>1. \A m \in Node : container'[m] \in {container[m], "running"}
    BY <1>4 DEF StartContainer
  <2> QED BY <1>4, <2>1 DEF StartContainer
<1>5. CASE AddGPUJobFails(n)
  BY <1>5, JobIncidentTyped DEF AddGPUJobFails
<1>6. CASE LoseJobWatch(n)
  <2>1. jobStream' \in [Node -> Seq(Job)] /\ jobInf' \in [Node -> InfState]
    BY <1>6, EmptySound DEF LoseJobWatch, InfState
  <2> QED BY <1>6, <2>1, JobIncidentTyped DEF LoseJobWatch
<1>7. CASE RestartCubelet(n)
  <2>1. jobStream' \in [Node -> Seq(Job)] /\ jobInf' \in [Node -> InfState]
    BY <1>7, EmptySound DEF RestartCubelet, InfState
  <2>2. /\ jobOut' \in [Node -> {"none", "told", "made"}] /\ jobCache' \in [Node -> BOOLEAN]
        /\ broken' \in BOOLEAN
    BY <1>7 DEF RestartCubelet
  <2> QED BY <1>7, <2>1, <2>2, JobIncidentTyped DEF RestartCubelet
<1> QED BY <1>1, <1>2, <1>3, <1>4, <1>5, <1>6, <1>7 DEF CubeletSteps

LEMMA ObserverTypes ==
    ASSUME JobsTypeOK, NEW n \in Node,
           \/ GetJob(n) \/ JobFail(n) \/ ObserverFails(n) \/ ObserverEnds(n)
           \/ \E p \in Phase : WritePhase(n, p) \/ WritePhaseFails(n, p)
    PROVE  JobsTypeOK'
<1> USE DEF lateVars, schedulerVars, cubeletVars, observerVars
<1>0. /\ "failed" \in Phase
      /\ observer[n] # NoJob => \A p \in Phase : [observer[n] EXCEPT !.phase = p] \in Job
  <2>1. observer[n] # NoJob => observer[n] \in Job
    BY DEF JobsTypeOK
  <2> QED BY <2>1, JobRecord DEF Phase
<1>1. CASE GetJob(n)
  <2>1. CASE observer' = [observer EXCEPT ![n] = job] /\ UNCHANGED <<container, broken, jobIncidents>>
    <3>1. /\ observer' \in [Node -> Job \cup {NoJob}]
          /\ \A m \in Node : observer'[m] = IF m = n THEN job ELSE observer[m]
      BY <2>1 DEF JobsTypeOK
    <3>2. n \notin failing /\ container[n] = "running"
      BY <1>1 DEF GetJob, JobsTypeOK
    <3> QED BY <1>1, <2>1, <3>1, <3>2 DEF GetJob, JobsTypeOK
  <2>2. CASE /\ JobIncident /\ broken' = TRUE
             /\ container' = [container EXCEPT ![n] = "exited"] /\ UNCHANGED observer
    <3>1. /\ container' \in [Node -> {"none", "created", "running", "exited"}]
          /\ \A m \in Node : container'[m] = IF m = n THEN "exited" ELSE container[m]
      BY <2>2 DEF JobsTypeOK
    <3> QED BY <1>1, <2>2, <3>1, JobIncidentTyped DEF GetJob, JobsTypeOK
  <2> QED BY <1>1, <2>1, <2>2 DEF GetJob
<1>2. CASE JobFail(n)
  <2>1. observer[n] # NoJob /\ [observer[n] EXCEPT !.phase = "failed"] \in Job
    BY <1>0, <1>2 DEF JobFail, JobsTypeOK
  <2>2. CASE PutJob([observer[n] EXCEPT !.phase = "failed"]) /\ UNCHANGED <<broken, lateVars, jobIncidents>>
    BY <1>2, <2>1, <2>2, PutTyped DEF JobFail, JobsTypeOK
  <2>3. CASE /\ PartFrom({[observer[n] EXCEPT !.phase = "failed"]}) /\ broken' = TRUE
             /\ UNCHANGED <<job, schedStream, jobStream, missed>>
    BY <1>2, <2>1, <2>3, PartFromTyped DEF JobFail, JobsTypeOK
  <2> QED BY <1>2, <2>2, <2>3 DEF JobFail
<1>3. CASE ObserverFails(n)
  BY <1>3, JobIncidentTyped DEF ObserverFails, Observing, JobsTypeOK
<1>4. CASE ObserverEnds(n)
  <2>1. observer[n] # NoJob => PutsOf(n) \in SUBSET Job
    BY <1>0 DEF PutsOf
  <2>2. (IF observer[n] = NoJob THEN {} ELSE PutsOf(n)) \in SUBSET (Job \cup {NoJob})
    BY <2>1
  <2> QED BY <1>4, <2>2, PartFromTyped DEF ObserverEnds, JobsTypeOK
<1>5. ASSUME NEW p \in Phase, WritePhase(n, p) \/ WritePhaseFails(n, p) PROVE JobsTypeOK'
  <2> DEFINE j == [observer[n] EXCEPT !.phase = p]
  <2>1. observer[n] # NoJob /\ container[n] = "running" /\ observer[n] \in Job /\ j \in Job /\ j # NoJob
    BY <1>0, <1>5, JobRecord DEF WritePhase, WritePhaseFails, Observing, JobsTypeOK
  <2>2. observer' = [observer EXCEPT ![n] = j]
    BY <1>5, <2>1 DEF WritePhase, WritePhaseFails, JobsTypeOK
  <2> HIDE DEF j
  <2>3. /\ observer' \in [Node -> Job \cup {NoJob}]
        /\ \A m \in Node : observer'[m] = IF m = n THEN j ELSE observer[m]
    BY <2>1, <2>2 DEF JobsTypeOK
  <2>4. CASE WritePhase(n, p)
    <3>1. PutJob(j)
      BY <2>4 DEF WritePhase, j
    <3>2. \A m \in Node : container'[m] # container[m] => container'[m] = "exited"
      BY <2>4 DEF WritePhase, JobsTypeOK
    <3>3. container' \in [Node -> {"none", "created", "running", "exited"}]
      BY <2>4 DEF WritePhase, JobsTypeOK
    <3> QED BY <2>1, <2>3, <2>4, <3>1, <3>2, <3>3, PutTyped DEF WritePhase, JobsTypeOK
  <2>5. CASE WritePhaseFails(n, p)
    <3>1. /\ job' \in Job \cup {NoJob} /\ schedStream' \in Seq(Job)
          /\ jobStream' \in [Node -> Seq(Job)] /\ missed' \in BOOLEAN
          /\ late' \in [1..MaxJobIncidents -> Job \cup {NoJob}] /\ wroteLate' \in BOOLEAN
          /\ jobIncidents' \in 0..MaxJobIncidents
      <4>1. CASE PutJob(j) /\ JobIncident /\ UNCHANGED lateVars
        BY <2>1, <4>1, PutTyped, JobIncidentTyped DEF JobsTypeOK
      <4>2. CASE PartFrom({j}) /\ UNCHANGED <<job, schedStream, jobStream, missed>>
        BY <2>1, <4>2, PartFromTyped DEF JobsTypeOK
      <4> QED BY <2>5, <4>1, <4>2 DEF WritePhaseFails, j
    <3> QED BY <2>1, <2>3, <2>5, <3>1 DEF WritePhaseFails, JobsTypeOK
  <2> QED BY <1>5, <2>4, <2>5
<1> QED BY <1>1, <1>2, <1>3, <1>4, <1>5

\* Every step keeps the types, whoever's PUT it writes.
LEMMA JobsTypeStep == ASSUME JobsTypeOK, [JobsNext]_jobsVars PROVE JobsTypeOK'
<1>1. CASE UNCHANGED jobsVars
  BY <1>1 DEF jobsVars, schedulerVars, cubeletVars, observerVars, lateVars, JobsTypeOK
<1> QED BY <1>1, SchedulerTypes, CubeletTypes, ObserverTypes DEF JobsNext, ObserverSteps
-----------------------------------------------------------------------------
(* Steps that write the job.                                               *)

\* A PUT keeps the scheduler sound when it writes a job that needs no node, or the
\* first or only one that does.
LEMMA PutScheduler ==
    ASSUME JobsTypeOK, SchedulerSound, NEW j \in Job, PutJob(j), UNCHANGED scheduler,
           \A i \in DOMAIN schedStream : ~ToSchedule(schedStream[i]), schedHand' = NoJob
    PROVE  SchedulerSound'
<1>1. job' = j
  BY DEF PutJob
<1>2. \A i \in DOMAIN schedStream' :
         ToSchedule(schedStream'[i]) => i = Len(schedStream) + 1 /\ schedStream'[i] = j
  BY PutStreams
<1>3. scheduler' # "watch" => schedStream' = <<>>
  BY PutStreams DEF SchedulerSound
<1> QED BY <1>1, <1>2, <1>3, JobRecord DEF SchedulerSound

\* With every other thing unchanged the job keeps its node or gets one.
LEMMA PutNodes ==
    ASSUME JobsTypeOK, NodeSound, NEW j \in Job, PutJob(j),
           job # NoJob => job.node \in {NoNode, j.node},
           j.phase = "creating" => j.node = NoNode,
           j.phase \notin {"creating", "created"} => j.node # NoNode
    PROVE  /\ job' # NoJob /\ job' = j
           /\ job'.phase = "creating" => job'.node = NoNode
           /\ job'.phase \notin {"creating", "created"} => job'.node # NoNode
           /\ \A n \in Node : job # NoJob /\ job.node = n => job'.node = n
           /\ \A n \in Node : \A i \in DOMAIN jobStream'[n] :
                 Mine(jobStream'[n][i], n) => job'.node = n
<1>1. job' = j /\ j # NoJob
  BY JobRecord DEF PutJob
<1>2. \A n \in Node : job # NoJob /\ job.node = n => j.node = n
  OBVIOUS
<1>3. ASSUME NEW n \in Node, NEW i \in DOMAIN jobStream'[n], Mine(jobStream'[n][i], n)
      PROVE  j.node = n
  <2>1. CASE i \in DOMAIN jobStream[n] /\ jobStream'[n][i] = jobStream[n][i]
    BY <1>2, <1>3, <2>1 DEF NodeSound
  <2>2. CASE jobStream'[n][i] = j
    BY <1>3, <2>2 DEF Mine
  <2> QED BY <2>1, <2>2, PutStreams
<1> QED BY <1>1, <1>2, <1>3

LEMMA CreateKeeps ==
    ASSUME JobsInv, CreateJob, JobsTypeOK'
    PROVE  JobsInv'
<1> USE DEF JobsInv
<1>1. PICK j \in Job : /\ PutJob(j) /\ j.node = NoNode
                       /\ \/ job = NoJob /\ j.phase = "creating"
                          \/ job # NoJob /\ job.phase = "creating" /\ j.phase = "created"
  <2>1. CASE job = NoJob /\ PutJob([phase |-> "creating", node |-> NoNode])
    BY <2>1 DEF Job, Phase
  <2>2. CASE job # NoJob /\ job.phase = "creating" /\ PutJob([job EXCEPT !.phase = "created"])
    <3> DEFINE j == [job EXCEPT !.phase = "created"]
    <3>1. job \in Job /\ job.node = NoNode /\ "created" \in Phase
      BY <2>2 DEF NodeSound, JobsTypeOK, Phase
    <3>2. j \in Job /\ j.phase = "created" /\ j.node = NoNode
      BY <3>1, JobRecord
    <3> QED BY <2>2, <3>2
  <2> QED BY <2>1, <2>2 DEF CreateJob
<1>2. UNCHANGED <<scheduler, schedHand, jobInf, jobOut, jobCache, container, observer, failing,
                  broken, jobIncidents>>
  BY DEF CreateJob, observerVars
<1>3. job # Ready
  BY <1>1 DEF Ready, Job, Phase
<1>5. SchedulerSound'
  BY <1>1, <1>2, <1>3, PutScheduler DEF SchedulerSound
<1>6. NodeSound'
  BY <1>1, <1>2, PutNodes DEF NodeSound
<1>7. PhaseSound'
  <2>1. \A n \in Node : ~(job # NoJob /\ job.node = n)
    BY <1>1 DEF NodeSound
  <2>3. \A n \in Node : observer[n] = NoJob
    BY <2>1 DEF NodeSound
  <2>2. job'.node = NoNode /\ observer' = observer
    BY <1>1, <1>2 DEF PutJob
  <2> QED BY <2>3, <2>2 DEF PhaseSound, Observing
<1> QED BY <1>5, <1>6, <1>7

LEMMA SendKeeps ==
    ASSUME JobsInv, SendJobScheduleInfoBack, JobsTypeOK'
    PROVE  JobsInv'
<1> USE DEF JobsInv
<1>1. /\ schedHand \in Job /\ schedHand.phase = "created" /\ schedHand' = NoJob
      /\ job = Ready /\ \A i \in DOMAIN schedStream : ~ToSchedule(schedStream[i])
      /\ UNCHANGED <<scheduler, jobInf, jobOut, jobCache, container, observer, failing>>
  BY DEF SendJobScheduleInfoBack, SchedulerSound, JobsTypeOK, observerVars
<1>2. CASE PutJob(schedHand)
  <2>2. SchedulerSound'
    BY <1>1, <1>2, PutScheduler
  <2>3. NodeSound'
    BY <1>1, <1>2, PutNodes DEF NodeSound, Ready
  <2>4. PhaseSound'
    <3>1. \A n \in Node : observer[n] = NoJob
      BY <1>1 DEF NodeSound, Ready
    <3> QED BY <1>1, <1>2, <3>1 DEF PhaseSound, Observing, PutJob
  <2> QED BY <2>2, <2>3, <2>4
<1>3. CASE UNCHANGED <<job, schedStream, jobStream, missed>>
  <2>2. SchedulerSound'
    BY <1>1, <1>3 DEF SchedulerSound, ToSchedule
  <2>3. NodeSound' /\ PhaseSound'
    BY <1>1, <1>3 DEF NodeSound, PhaseSound, Observing, Mine
  <2> QED BY <2>2, <2>3
<1> QED BY <1>2, <1>3 DEF SendJobScheduleInfoBack

\* What an observer knows when it writes.
LEMMA Observed ==
    ASSUME JobsInv, NEW n \in Node, observer[n] # NoJob
    PROVE  /\ observer[n] \in Job /\ observer[n].node = n /\ job \in Job /\ job.node = n
           /\ job # Ready /\ schedHand = NoJob
           /\ \A i \in DOMAIN schedStream : ~ToSchedule(schedStream[i])
           /\ \A m \in Node : m # n => observer[m] = NoJob
<1>1. observer[n] \in Job /\ observer[n].node = n /\ job \in Job /\ job.node = n
  BY DEF JobsInv, JobsTypeOK, NodeSound
<1>2. job # Ready
  BY <1>1 DEF Ready
<1> QED BY <1>1, <1>2 DEF JobsInv, SchedulerSound, NodeSound

\* A write of an observer, with its new state.
LEMMA ObserverPut ==
    ASSUME JobsInv, NEW n \in Node, observer[n] # NoJob, container[n] = "running",
           NEW p \in Phase \ {"creating", "created"},
           \/ PutJob([observer[n] EXCEPT !.phase = p])
           \/ UNCHANGED <<job, schedStream, jobStream, missed>>,
           UNCHANGED <<scheduler, schedHand, jobInf, jobOut, jobCache>>,
           NEW o \in {observer[n], [observer[n] EXCEPT !.phase = p]},
           observer' = [observer EXCEPT ![n] = o],
           failing' = failing \/ failing' = failing \cup {n},
           NEW c \in {"running", "exited"}, container' = [container EXCEPT ![n] = c],
           JobsTypeOK',
           Observing(n)' => \/ observer'[n].phase = job'.phase
                            \/ observer'[n].phase = "running" /\ job'.phase = "waiting"
    PROVE  JobsInv'
<1> USE DEF JobsInv
<1> DEFINE j == [observer[n] EXCEPT !.phase = p]
<1>0. /\ observer[n] \in Job /\ j \in Job /\ j.phase = p /\ j.node = n
      /\ j # NoJob /\ ~ToSchedule(j) /\ p \notin {"creating", "created"}
  BY Observed, JobRecord DEF ToSchedule
<1>1. /\ o \in Job /\ o.node = n /\ o # NoJob
      /\ \A m \in Node : /\ observer'[m] = IF m = n THEN o ELSE observer[m]
                         /\ container'[m] = IF m = n THEN c ELSE container[m]
      /\ observer' \in [Node -> Job \cup {NoJob}]
      /\ container' \in [Node -> {"none", "created", "running", "exited"}]
  <2>1. o \in Job /\ o.node = n
    BY <1>0, Observed
  <2> QED BY <2>1 DEF JobsTypeOK
<1>3. job' \in Job /\ job'.node = n
  BY <1>0, Observed DEF PutJob
<1>4. SchedulerSound'
  <2>1. \A i \in DOMAIN schedStream' : ~ToSchedule(schedStream'[i])
    BY <1>0, Observed, PutStreams
  <2>2. scheduler' # "watch" => schedStream' = <<>>
    BY <1>0, PutStreams DEF SchedulerSound
  <2> QED BY <2>1, <2>2, Observed DEF SchedulerSound
<1>5. NodeSound'
  <2>1. /\ job'.phase = "creating" => job'.node = NoNode
        /\ job'.phase \notin {"creating", "created"} => job'.node # NoNode
    BY <1>0, <1>3, Observed DEF PutJob, NodeSound
  <2>2. ASSUME NEW m \in Node
        PROVE  \A i \in DOMAIN jobStream'[m] : Mine(jobStream'[m][i], m) => job'.node = m
    <3>1. \A i \in DOMAIN jobStream'[m] :
             \/ i \in DOMAIN jobStream[m] /\ jobStream'[m][i] = jobStream[m][i]
             \/ jobStream'[m][i] = j
      BY <1>0, PutStreams
    <3>2. ASSUME NEW i \in DOMAIN jobStream[m], Mine(jobStream[m][i], m)
          PROVE  m = n
      BY <3>2, Observed DEF NodeSound
    <3>3. ~Mine(j, m)
      BY <1>0 DEF Mine
    <3> QED BY <1>3, <3>1, <3>2, <3>3
  <2>3. ASSUME NEW m \in Node
        PROVE  /\ observer'[m] # NoJob => observer'[m].node = m /\ container'[m] # "none"
               /\ container'[m] # "none" => container[m] # "none"
    BY <1>1 DEF NodeSound
  <2> QED BY <1>3, <2>1, <2>2, <2>3, JobRecord, Observed DEF NodeSound
<1>6. PhaseSound'
  <2>1. observer'[n] # NoJob /\ \A m \in Node : m # n => observer'[m] = NoJob
    BY <1>1, Observed
  <2> QED BY <1>3, <2>1 DEF PhaseSound, Observing
<1> QED BY <1>4, <1>5, <1>6

LEMMA ObserverKeeps ==
    ASSUME JobsInv, JobsTypeOK', NEW n \in Node, NEW p \in Phase,
           \/ WritePhase(n, p) \/ WritePhaseFails(n, p) \/ ObserverFails(n) \/ JobFail(n)
           \/ ObserverEnds(n) /\ observer[n] # NoJob
    PROVE  JobsInv'
<1> DEFINE j == [observer[n] EXCEPT !.phase = p]
<1>0. /\ jobIncidents \in 0..MaxJobIncidents /\ broken \in BOOLEAN
      /\ observer \in [Node -> Job \cup {NoJob}]
      /\ container \in [Node -> {"none", "created", "running", "exited"}]
  BY DEF JobsInv, JobsTypeOK
<1>1. CASE WritePhase(n, p) \/ WritePhaseFails(n, p)
  <2>1. /\ Observing(n) /\ container[n] = "running" /\ observer[n] # NoJob
        /\ Advances(observer[n].phase, p) /\ p \in Phase \ {"creating", "created"}
        /\ observer[n] \in Job
    BY <1>0, <1>1 DEF WritePhase, WritePhaseFails, Observing, Advances
  <2>2. observer' = [observer EXCEPT ![n] = j] /\ j.phase = p
    BY <1>0, <1>1, <2>1, JobRecord DEF WritePhase, WritePhaseFails
  <2>3. observer'[n] = j
    BY <1>0, <2>2
  <2>4. CASE WritePhase(n, p)
    <3>1. PICK c \in {"running", "exited"} : container' = [container EXCEPT ![n] = c]
      BY <1>0, <2>1, <2>4 DEF WritePhase
    <3>2. PutJob(j) /\ job' = j
      BY <2>4 DEF WritePhase, PutJob
    <3> QED BY <1>0, <2>1, <2>2, <2>3, <2>4, <3>1, <3>2, ObserverPut DEF WritePhase
  <2>5. CASE WritePhaseFails(n, p)
    <3>1. container' = [container EXCEPT ![n] = "running"] /\ UNCHANGED container
      BY <1>0, <2>1, <2>5 DEF WritePhaseFails
    <3>2. Observing(n)' => p = "running" /\ observer[n].phase = "waiting" /\ job.phase = "waiting"
      BY <2>1, <2>5 DEF WritePhaseFails, Observing, Advances, JobsInv, PhaseSound
    <3>3. job' = j \/ job' = job
      BY <2>5 DEF WritePhaseFails, PutJob
    <3>4. Observing(n)' => \/ observer'[n].phase = job'.phase
                           \/ observer'[n].phase = "running" /\ job'.phase = "waiting"
      BY <2>2, <2>3, <3>2, <3>3
    <3> QED BY <1>0, <2>1, <2>2, <2>5, <3>1, <3>4, ObserverPut DEF WritePhaseFails
  <2> QED BY <1>1, <2>4, <2>5
<1>2. CASE ObserverFails(n) \/ JobFail(n) \/ (ObserverEnds(n) /\ observer[n] # NoJob)
  <2>1. observer[n] # NoJob /\ container[n] = "running" /\ observer' = [observer EXCEPT ![n] = @]
        /\ "failed" \in Phase \ {"creating", "created"}
    BY <1>0, <1>2 DEF ObserverFails, JobFail, ObserverEnds, Observing, observerVars, JobsInv,
                      JobsTypeOK, Phase
  <2>2. ~Observing(n)'
    BY <1>0, <1>2 DEF ObserverFails, JobFail, ObserverEnds, Observing, observerVars
  <2>3. CASE ObserverFails(n)
    <3>1. /\ container' = [container EXCEPT ![n] = "running"]
          /\ UNCHANGED <<job, schedStream, jobStream, missed, scheduler, schedHand,
                         jobInf, jobOut, jobCache>>
          /\ failing' = failing \cup {n}
      BY <1>0, <2>1, <2>3 DEF ObserverFails, schedulerVars, cubeletVars
    <3> QED BY <1>0, <2>1, <2>2, <3>1, ObserverPut
  <2>4. CASE JobFail(n)
    <3>1. /\ container' = [container EXCEPT ![n] = "exited"]
          /\ UNCHANGED <<scheduler, schedHand, jobInf, jobOut, jobCache, failing>>
          /\ \/ PutJob([observer[n] EXCEPT !.phase = "failed"])
             \/ UNCHANGED <<job, schedStream, jobStream, missed>>
      BY <1>0, <2>4 DEF JobFail, observerVars
    <3> QED BY <2>1, <2>2, <3>1, ObserverPut
  <2>5. CASE ObserverEnds(n)
    <3>1. /\ container' = [container EXCEPT ![n] = "exited"]
          /\ UNCHANGED <<job, schedStream, jobStream, missed, scheduler, schedHand,
                         jobInf, jobOut, jobCache, failing>>
      BY <2>5 DEF ObserverEnds, schedulerVars, observerVars
    <3> QED BY <2>1, <2>2, <3>1, ObserverPut
  <2> QED BY <1>2, <2>3, <2>4, <2>5
<1> QED BY <1>1, <1>2

-----------------------------------------------------------------------------
(* Steps that leave the job alone.                                         *)

LEMMA SchedulerKeeps ==
    ASSUME JobsInv, JobsTypeOK', ListJobsToSchedule \/ ConnectScheduler \/ ScheduleJob \/ LoseScheduler
    PROVE  JobsInv'
<1> USE DEF JobsInv
<1>0. UNCHANGED <<job, jobInf, jobStream, jobOut, jobCache, container, observer, failing, missed,
                  broken>>
  BY DEF ListJobsToSchedule, ConnectScheduler, ScheduleJob, LoseScheduler, cubeletVars, observerVars
<1>1. NodeSound' /\ PhaseSound'
  BY <1>0 DEF NodeSound, PhaseSound, Observing, Mine
<1>2. ASSUME NEW j \in Job, NEW choice \in Node \cup {NoNode}, Chosen(j, choice)
      PROVE  schedHand' # NoJob => ToSchedule(j) /\ schedHand'.phase = "created"
  <2>1. CASE ~ToSchedule(j)
    BY <1>2, <2>1 DEF Chosen
  <2>2. CASE ToSchedule(j) /\ choice \in Node /\ schedHand' = [j EXCEPT !.node = choice]
             /\ UNCHANGED jobIncidents
    <3>1. j.phase = "created"
      BY <2>2 DEF ToSchedule
    <3> QED BY <2>2, <3>1, JobRecord
  <2>3. CASE ToSchedule(j) /\ choice = NoNode /\ schedHand' = j /\ JobIncident
    <3>1. j.phase = "created"
      BY <2>3 DEF ToSchedule
    <3> QED BY <2>3, <3>1
  <2> QED BY <1>2, <2>1, <2>2, <2>3 DEF Chosen
<1>3. CASE ListJobsToSchedule
  <2>1. schedHand' # NoJob => job = Ready /\ schedHand'.phase = "created"
    <3>1. CASE job = NoJob
      BY <1>3, <3>1 DEF ListJobsToSchedule, JobsTypeOK
    <3>2. CASE job # NoJob
      <4>1. PICK choice \in Node \cup {NoNode} : Chosen(job, choice)
        BY <1>3, <3>2 DEF ListJobsToSchedule
      <4> QED BY <1>2, <3>2, <4>1, JobRecord DEF JobsTypeOK
    <3> QED BY <3>1, <3>2
  <2>2. schedStream = <<>> /\ schedStream' = <<>> /\ scheduler' = "connect"
    BY <1>3 DEF ListJobsToSchedule, SchedulerSound
  <2> QED BY <1>0, <1>1, <2>1, <2>2, EmptySound DEF SchedulerSound
<1>4. CASE ConnectScheduler
  BY <1>0, <1>1, <1>4 DEF ConnectScheduler, SchedulerSound, ToSchedule
<1>5. CASE ScheduleJob
  <2>1. /\ schedStream # <<>> /\ schedStream' = Tail(schedStream) /\ schedHand = NoJob
        /\ scheduler = "watch" /\ scheduler' = scheduler /\ schedStream \in Seq(Job)
    BY <1>5 DEF ScheduleJob, JobsTypeOK
  <2>2. PICK choice \in Node \cup {NoNode} : Chosen(Head(schedStream), choice)
    BY <1>5 DEF ScheduleJob
  <2>3. schedHand' # NoJob => ToSchedule(schedStream[1]) /\ schedHand'.phase = "created"
    BY <1>2, <2>1, <2>2, TailSound
  <2>5. ASSUME schedHand' # NoJob
        PROVE  job = Ready /\ \A i \in DOMAIN schedStream' : ~ToSchedule(schedStream'[i])
    BY <2>1, <2>3, <2>5, TailSound DEF SchedulerSound
  <2>6. ASSUME NEW i \in DOMAIN schedStream', ToSchedule(schedStream'[i])
        PROVE  job = Ready /\ \A k \in DOMAIN schedStream' : ToSchedule(schedStream'[k]) => k = i
    BY <2>1, <2>6, TailSound DEF SchedulerSound
  <2>7. SchedulerSound'
    BY <1>0, <2>1, <2>3, <2>5, <2>6 DEF SchedulerSound
  <2> QED BY <1>1, <2>7
<1>6. CASE LoseScheduler
  <2>1. scheduler' = "list" /\ schedStream' = <<>> /\ schedHand' = NoJob
    BY <1>6 DEF LoseScheduler
  <2> QED BY <1>0, <1>1, <2>1, EmptySound DEF SchedulerSound
<1> QED BY <1>3, <1>4, <1>5, <1>6

\* A cubelet's step, which changes what concerns its node only.
LEMMA CubeletStep ==
    ASSUME JobsInv, JobsTypeOK', NEW n \in Node,
           UNCHANGED <<job, scheduler, schedStream, schedHand, observer, failing, missed>>,
           NEW s \in Seq(Job), jobStream' = [jobStream EXCEPT ![n] = s],
           \A i \in DOMAIN s : Mine(s[i], n) => job # NoJob /\ job.node = n,
           NEW c \in {"none", "created", "running", "exited"},
           container' = [container EXCEPT ![n] = c],
           NEW o \in {"none", "told", "made"}, jobOut' = [jobOut EXCEPT ![n] = o],
           o # "none" => job # NoJob /\ job.node = n, o = "made" => c = "created",
           c # "none" => job # NoJob /\ job.node = n, observer[n] # NoJob => c = container[n]
    PROVE  JobsInv'
<1> USE DEF JobsInv
<1>1. \A m \in Node : /\ jobStream'[m] = IF m = n THEN s ELSE jobStream[m]
                      /\ jobOut'[m] = IF m = n THEN o ELSE jobOut[m]
                      /\ container'[m] = IF m = n THEN c ELSE container[m]
                      /\ observer[m] # NoJob => container'[m] = container[m]
  BY DEF JobsTypeOK
<1>3. SchedulerSound'
  BY DEF SchedulerSound, ToSchedule
<1>4. NodeSound'
  BY <1>1 DEF NodeSound
<1>5. PhaseSound'
  BY <1>1 DEF PhaseSound, Observing
<1> QED BY <1>3, <1>4, <1>5

LEMMA CubeletKeeps ==
    ASSUME JobsInv, JobsTypeOK', NEW n \in Node,
           \/ CubeletSteps(n) \/ AddGPUJobFails(n) \/ LoseJobWatch(n) \/ RestartCubelet(n)
    PROVE  JobsInv'
<1> DEFINE Same == UNCHANGED <<job, scheduler, schedStream, schedHand, observer, failing, missed>>
           Streams(s) == jobStream' = [jobStream EXCEPT ![n] = s]
           Out(o) == jobOut' = [jobOut EXCEPT ![n] = o]
           Holds(c) == container' = [container EXCEPT ![n] = c]
           Here == job # NoJob /\ job.node = n
<1>0. /\ jobStream \in [Node -> Seq(Job)] /\ jobOut \in [Node -> {"none", "told", "made"}]
      /\ container \in [Node -> {"none", "created", "running", "exited"}]
  BY DEF JobsInv, JobsTypeOK
<1>1. /\ \A i \in DOMAIN jobStream[n] : Mine(jobStream[n][i], n) => Here
      /\ jobOut[n] # "none" => Here
      /\ jobOut[n] = "made" => container[n] = "created"
      /\ container[n] # "none" => Here
      /\ observer[n] # NoJob => container[n] \in {"running", "exited"}
  BY DEF JobsInv, NodeSound, JobsTypeOK
<1>2. /\ UNCHANGED jobStream => Streams(jobStream[n])
      /\ UNCHANGED jobOut => Out(jobOut[n])
      /\ UNCHANGED container => Holds(container[n])
  BY <1>0
<1>3. jobStream[n] \in Seq(Job)
  BY <1>0
<1>4. CASE ListJobs(n)
  <2>1. Same /\ UNCHANGED <<jobStream, container>>
    BY <1>0, <1>4 DEF ListJobs, schedulerVars, observerVars
  <2>2. PICK o \in {"none", "told"} : Out(o) /\ (o # "none" => Here)
    BY <1>0, <1>4 DEF ListJobs, Mine
  <2> QED BY <1>0, <1>1, <1>2, <1>3, <2>1, <2>2, CubeletStep
<1>5. CASE ConnectJobs(n)
  <2>1. Same /\ UNCHANGED <<jobStream, jobOut, container>>
    BY <1>0, <1>5 DEF ConnectJobs, schedulerVars, observerVars
  <2> QED BY <1>0, <1>1, <1>2, <1>3, <2>1, CubeletStep
<1>6. CASE InformJob(n)
  <2>1. Same /\ UNCHANGED <<jobInf, jobCache, container>> /\ Streams(Tail(jobStream[n]))
    BY <1>0, <1>6 DEF InformJob, schedulerVars, observerVars
  <2>2. jobStream[n] # <<>> /\ Head(jobStream[n]) = jobStream[n][1]
    BY <1>3, <1>6, TailSound DEF InformJob
  <2>3. PICK o \in {"none", "told"} : Out(o) /\ (o # "none" => Mine(jobStream[n][1], n))
    BY <1>0, <1>6, <2>2 DEF InformJob
  <2>4. Tail(jobStream[n]) \in Seq(Job) /\ 1 \in DOMAIN jobStream[n]
        /\ \A i \in DOMAIN Tail(jobStream[n]) : Mine(Tail(jobStream[n])[i], n) => Here
    BY <1>1, <1>3, <2>2, TailSound
  <2> QED BY <1>0, <1>1, <1>2, <2>1, <2>3, <2>4, CubeletStep
<1>7. CASE CreateContainer(n)
  <2>1. Same /\ UNCHANGED jobStream /\ Here
    BY <1>0, <1>1, <1>7 DEF CreateContainer, schedulerVars, observerVars
  <2>2. CASE container[n] = "none"
    <3>1. Holds("created") /\ Out("made") /\ observer[n] = NoJob
      BY <1>0, <1>1, <1>7, <2>2 DEF CreateContainer
    <3> QED BY <1>0, <1>1, <1>2, <1>3, <2>1, <3>1, CubeletStep
  <2>3. CASE container[n] # "none"
    <3>1. Holds(container[n]) /\ Out("none")
      BY <1>0, <1>7, <2>3 DEF CreateContainer
    <3> QED BY <1>0, <1>1, <1>2, <1>3, <2>1, <3>1, CubeletStep
  <2> QED BY <2>2, <2>3
<1>8. CASE StartContainer(n)
  <2>1. Same /\ UNCHANGED jobStream /\ Here /\ observer[n] = NoJob
    BY <1>0, <1>1, <1>8 DEF StartContainer, schedulerVars, observerVars
  <2>2. Holds("running") /\ Out("none")
    BY <1>8 DEF StartContainer
  <2> QED BY <1>0, <1>1, <1>2, <1>3, <2>1, <2>2, CubeletStep
<1>9. CASE AddGPUJobFails(n)
  <2>1. Same /\ UNCHANGED <<jobStream, container>> /\ Out("none")
    BY <1>0, <1>9 DEF AddGPUJobFails, schedulerVars, observerVars
  <2> QED BY <1>0, <1>1, <1>2, <1>3, <2>1, CubeletStep
<1>10. CASE LoseJobWatch(n)
  <2>1. Same /\ UNCHANGED <<jobOut, container>> /\ Streams(<<>>)
    BY <1>0, <1>10 DEF LoseJobWatch, schedulerVars, observerVars
  <2>2. jobOut[n] = "none"
    BY <1>10 DEF LoseJobWatch
  <2> QED BY <1>0, <1>1, <1>2, <2>1, <2>2, EmptySound, CubeletStep
<1>11. CASE RestartCubelet(n)
  <2>1. Same /\ UNCHANGED container /\ Streams(<<>>) /\ Out("none")
    BY <1>0, <1>11 DEF RestartCubelet, schedulerVars, observerVars
  <2> QED BY <1>0, <1>1, <1>2, <2>1, EmptySound, CubeletStep
<1> QED BY <1>4, <1>5, <1>6, <1>7, <1>8, <1>9, <1>10, <1>11 DEF CubeletSteps

\* An observer begins with the job as it is, "created" and on its node.
LEMMA GetKeeps ==
    ASSUME JobsInv, JobsTypeOK', NEW n \in Node, GetJob(n)
    PROVE  JobsInv'
<1> USE DEF JobsInv
<1>0. UNCHANGED <<job, scheduler, schedStream, schedHand, jobInf, jobStream, jobOut, jobCache,
                  failing, missed>>
  BY DEF GetJob, schedulerVars
<1>1. container[n] = "running" /\ observer[n] = NoJob /\ job \in Job /\ job.node = n
  BY DEF GetJob, NodeSound, JobsTypeOK
<1>2. SchedulerSound'
  BY <1>0 DEF SchedulerSound, ToSchedule
<1>3. CASE observer' = [observer EXCEPT ![n] = job] /\ UNCHANGED <<container, broken, jobIncidents>>
  <2>1. \A m \in Node : observer'[m] = IF m = n THEN job ELSE observer[m]
    BY <1>3 DEF JobsTypeOK
  <2>3. NodeSound'
    BY <1>0, <1>1, <1>3, <2>1, JobRecord DEF NodeSound, Mine
  <2>4. PhaseSound'
    BY <1>0, <1>1, <1>3, <2>1 DEF PhaseSound, Observing
  <2> QED BY <1>2, <2>3, <2>4
<1>4. CASE /\ JobIncident /\ broken' = TRUE
           /\ container' = [container EXCEPT ![n] = "exited"] /\ UNCHANGED observer
  <2>1. \A m \in Node : container'[m] = IF m = n THEN "exited" ELSE container[m]
    BY <1>4 DEF JobsTypeOK
  <2>3. NodeSound'
    BY <1>0, <1>1, <1>4, <2>1 DEF NodeSound, Mine
  <2>4. PhaseSound'
    BY <1>0, <1>1, <1>4, <2>1 DEF PhaseSound, Observing
  <2> QED BY <1>2, <2>3, <2>4
<1> QED BY <1>3, <1>4 DEF GetJob

\* The end of a container whose observer has no copy yet.
LEMMA ObserverEndKeeps ==
    ASSUME JobsInv, JobsTypeOK', NEW n \in Node, ObserverEnds(n), observer[n] = NoJob
    PROVE  JobsInv'
<1> USE DEF JobsInv
<1>0. /\ UNCHANGED <<job, scheduler, schedStream, schedHand, jobInf, jobStream, jobOut, jobCache,
                     observer, failing, missed>>
      /\ container[n] = "running"
      /\ \A m \in Node : container'[m] = IF m = n THEN "exited" ELSE container[m]
  BY DEF ObserverEnds, schedulerVars, observerVars, JobsTypeOK
<1>1. SchedulerSound'
  BY <1>0 DEF SchedulerSound, ToSchedule
<1>2. NodeSound'
  BY <1>0 DEF NodeSound, Mine
<1>3. PhaseSound'
  BY <1>0 DEF PhaseSound, Observing
<1> QED BY <1>1, <1>2, <1>3

-----------------------------------------------------------------------------
\* Without a PUT written late every step keeps the invariant.
LEMMA JobsStep ==
    ASSUME JobsInv, [JobsNext]_jobsVars, ~wroteLate'
    PROVE  JobsInv'
<1> USE JobsTypeStep DEF JobsInv
<1>1. CASE CreateJob \/ SchedulerSteps \/ LoseScheduler
  BY <1>1, CreateKeeps, SendKeeps, SchedulerKeeps DEF SchedulerSteps
<1>2. ASSUME NEW n \in Node,
             \/ CubeletSteps(n) \/ AddGPUJobFails(n) \/ LoseJobWatch(n) \/ RestartCubelet(n)
      PROVE  JobsInv'
  BY <1>2, CubeletKeeps
<1>3. ASSUME NEW n \in Node, GetJob(n) PROVE JobsInv'
  BY <1>3, GetKeeps
<1>4. ASSUME NEW n \in Node, JobFail(n) \/ ObserverFails(n) \/ ObserverEnds(n) PROVE JobsInv'
  <2>1. "failed" \in Phase
    BY DEF Phase
  <2> QED BY <1>4, <2>1, ObserverKeeps, ObserverEndKeeps
<1>5. ASSUME NEW n \in Node, NEW p \in Phase, WritePhase(n, p) \/ WritePhaseFails(n, p) PROVE JobsInv'
  BY <1>5, ObserverKeeps
<1>6. ASSUME NEW i \in 1..MaxJobIncidents, WriteLate(i) PROVE JobsInv'
  BY <1>6 DEF WriteLate
<1>7. CASE UNCHANGED jobsVars
  BY <1>7 DEF jobsVars, schedulerVars, cubeletVars, observerVars,
              SchedulerSound, NodeSound, PhaseSound, ToSchedule, Mine, Observing
<1> QED BY <1>1, <1>2, <1>3, <1>4, <1>5, <1>6, <1>7 DEF JobsNext, ObserverSteps

\* What is written late stays written.
LEMMA WroteLateStays ==
    ASSUME JobsTypeOK, [JobsNext]_jobsVars
    PROVE  wroteLate => wroteLate'
<1> USE DEF lateVars, PartFrom
<1>1. CASE CreateJob \/ SchedulerSteps \/ LoseScheduler
  BY <1>1 DEF CreateJob, SchedulerSteps, LoseScheduler, ListJobsToSchedule, ConnectScheduler,
              ScheduleJob, SendJobScheduleInfoBack
<1>2. ASSUME NEW n \in Node,
             \/ CubeletSteps(n) \/ AddGPUJobFails(n) \/ LoseJobWatch(n) \/ RestartCubelet(n)
      PROVE  UNCHANGED wroteLate
  BY <1>2 DEF CubeletSteps, ListJobs, ConnectJobs, InformJob, CreateContainer, StartContainer,
              AddGPUJobFails, LoseJobWatch, RestartCubelet
<1>3. ASSUME NEW n \in Node,
             \/ GetJob(n) \/ JobFail(n) \/ ObserverFails(n) \/ ObserverEnds(n)
             \/ \E p \in Phase : WritePhase(n, p) \/ WritePhaseFails(n, p)
      PROVE  UNCHANGED wroteLate
  BY <1>3 DEF GetJob, JobFail, ObserverFails, ObserverEnds, WritePhase, WritePhaseFails
<1>4. ASSUME NEW i \in 1..MaxJobIncidents, WriteLate(i) PROVE wroteLate'
  BY <1>4 DEF WriteLate
<1>5. CASE UNCHANGED jobsVars
  BY <1>5 DEF jobsVars
<1> QED BY <1>1, <1>2, <1>3, <1>4, <1>5 DEF JobsNext, ObserverSteps

LEMMA KeptStep == JobsKept /\ [JobsNext]_jobsVars => JobsKept'
<1> SUFFICES ASSUME JobsKept, [JobsNext]_jobsVars PROVE JobsKept'
  OBVIOUS
<1>1. JobsTypeOK'
  BY JobsTypeStep DEF JobsKept
<1>2. CASE wroteLate
  BY <1>1, <1>2, WroteLateStays DEF JobsKept
<1>3. CASE JobsInv
  BY <1>1, <1>3, JobsStep DEF JobsKept
<1> QED BY <1>2, <1>3 DEF JobsKept

LEMMA JobsStart == JobsInit => JobsInv
<1> SUFFICES ASSUME JobsInit PROVE JobsInv
  OBVIOUS
<1>1. JobsTypeOK
  <2>1. /\ job \in Job \cup {NoJob} /\ scheduler \in InfState /\ schedStream \in Seq(Job)
        /\ schedHand \in Job \cup {NoJob} /\ missed \in BOOLEAN /\ broken \in BOOLEAN
    BY EmptySound DEF JobsInit, InfState
  <2>2. jobStream \in [Node -> Seq(Job)] /\ observer \in [Node -> Job \cup {NoJob}]
    BY EmptySound DEF JobsInit
  <2>3. /\ jobInf \in [Node -> InfState] /\ jobOut \in [Node -> {"none", "told", "made"}]
        /\ jobCache \in [Node -> BOOLEAN] /\ failing \subseteq Node
        /\ container \in [Node -> {"none", "created", "running", "exited"}]
    BY DEF JobsInit, InfState
  <2>4. \A n \in Node : observer[n] = NoJob
    BY DEF JobsInit
  <2>5. jobIncidents \in 0..MaxJobIncidents /\ failing = {}
    BY DEF JobsInit
  <2>6. wroteLate \in BOOLEAN /\ late \in [1..MaxJobIncidents -> Job \cup {NoJob}]
    <3>1. NoJob \in Job \cup {NoJob}
      OBVIOUS
    <3>2. late = [i \in 1..MaxJobIncidents |-> NoJob] /\ wroteLate = FALSE
      BY DEF JobsInit
    <3> QED BY <3>1, <3>2
  <2> QED BY <2>1, <2>2, <2>3, <2>4, <2>5, <2>6 DEF JobsTypeOK
<1>2. SchedulerSound /\ NodeSound /\ PhaseSound
  BY EmptySound DEF JobsInit, SchedulerSound, NodeSound, PhaseSound, Observing
<1> QED BY <1>1, <1>2 DEF JobsInv

\* A PUT of the scheduler finds the job as it was, one of an observer finds it in
\* the phase that the observer knows or one before.
LEMMA StepForward ==
    ASSUME JobsInv, JobsNext, ~wroteLate', job' # job, job # NoJob
    PROVE  Later(job.phase, job'.phase) /\ job.node \in {NoNode, job'.node}
<1>1. job \in Job
  BY DEF JobsInv, JobsTypeOK
<1>2. CASE CreateJob
  <2>1. job.phase = "creating" /\ job' = [job EXCEPT !.phase = "created"] /\ "created" \in Phase
    BY <1>2 DEF CreateJob, PutJob, Phase
  <2>2. job'.phase = "created" /\ job'.node = job.node
    BY <1>1, <2>1, JobRecord
  <2> QED BY <2>1, <2>2 DEF Later
<1>3. CASE SendJobScheduleInfoBack
  <2>1. schedHand # NoJob /\ job' = schedHand
    BY <1>3 DEF SendJobScheduleInfoBack, PutJob
  <2>2. job = Ready /\ job'.phase = "created"
    BY <2>1 DEF JobsInv, SchedulerSound
  <2> QED BY <2>2 DEF Ready, Later
<1>4. ASSUME NEW n \in Node, NEW p \in Phase, WritePhase(n, p) \/ WritePhaseFails(n, p)
      PROVE  Later(job.phase, job'.phase) /\ job.node \in {NoNode, job'.node}
  <2>1. Observing(n) /\ observer[n] # NoJob /\ Advances(observer[n].phase, p)
        /\ job' = [observer[n] EXCEPT !.phase = p]
    BY <1>4 DEF WritePhase, WritePhaseFails, PutJob, Observing
  <2>2. job'.phase = p /\ job'.node = job.node
    BY <2>1, Observed, JobRecord
  <2>3. \/ observer[n].phase = job.phase
        \/ observer[n].phase = "running" /\ job.phase = "waiting"
    BY <2>1 DEF JobsInv, PhaseSound
  <2> QED BY <2>1, <2>2, <2>3 DEF Later, Advances
<1>5. ASSUME NEW n \in Node, JobFail(n)
      PROVE  Later(job.phase, job'.phase) /\ job.node \in {NoNode, job'.node}
  <2>1. observer[n] # NoJob /\ job' = [observer[n] EXCEPT !.phase = "failed"] /\ "failed" \in Phase
    BY <1>5 DEF JobFail, PutJob, JobsInv, JobsTypeOK, Phase
  <2>2. job'.phase = "failed" /\ job'.node = job.node
    BY <2>1, Observed, JobRecord
  <2> QED BY <2>2 DEF Later
<1> QED BY <1>2, <1>3, <1>4, <1>5 DEF JobsNext, SchedulerSteps, LoseScheduler, ListJobsToSchedule,
           ConnectScheduler, ScheduleJob, CubeletSteps, ListJobs, ConnectJobs, InformJob,
           CreateContainer, StartContainer, ObserverSteps, GetJob, AddGPUJobFails, LoseJobWatch,
           RestartCubelet, ObserverFails, ObserverEnds, WriteLate

LEMMA JobsInvariant == JobsSpec => []JobsKept
<1>1. JobsInit => JobsKept
  BY JobsStart DEF JobsKept, JobsInv
<1> QED BY <1>1, KeptStep, PTL DEF JobsSpec

\* Type correctness: jobs, streams and containers are well typed, and gpujobserver has a
\* copy of the job only in a container that was started.
THEOREM JobsTyped == JobsSpec => []JobsTypeOK
<1>1. JobsKept => JobsTypeOK
  BY DEF JobsKept
<1> QED BY <1>1, JobsInvariant, PTL

\* A job's phase only goes forward and its node stays once chosen, whatever copies of
\* their own the scheduler, cubectl and gpujobserver write back, until a PUT is written
\* whose sender had given it up or ended: that one, and nothing else, is excepted.
THEOREM Forward == JobsSpec => JobGoesForward
<1>1. JobsKept /\ [JobsNext]_jobsVars
      => [job # NoJob => \/ Later(job.phase, job'.phase) /\ job.node \in {NoNode, job'.node}
                         \/ wroteLate']_job
  <2> SUFFICES ASSUME JobsKept, JobsNext, job' # job, job # NoJob, ~wroteLate'
               PROVE  Later(job.phase, job'.phase) /\ job.node \in {NoNode, job'.node}
    BY DEF jobsVars
  <2>1. JobsInv
    BY WroteLateStays DEF JobsKept
  <2> QED BY <2>1, StepForward
<1> QED BY <1>1, JobsInvariant, PTL DEF JobsSpec, JobGoesForward

-----------------------------------------------------------------------------
(* Cluster IPs *)

\* Service t holds address a: its POST has marked it, or etcd has it.
Claims(t, a) ==
    \/ posting[t] = "put" /\ toAllocate[t] = a
    \/ services[t] = a /\ t \notin edited

\* An address that is held is marked as taken, and only while the API server
\* serves does a POST go on.
Marked ==
    /\ \A t \in Service, a \in Address : serving /\ Claims(t, a) => a \in mp
    /\ \A s \in Service : posting[s] \in {"find", "mark", "put"} => serving
    /\ \A s \in Service \ edited : services[s] \in Address \cup {NoAddress}

\* Two allocations at once are remembered, and only they lead to one address.
Apart ==
    \A s, t \in Service : s # t =>
       /\ Allocating(s) /\ Allocating(t) => {s, t} \in together
       /\ \A a \in Address :
             /\ posting[s] = "mark" /\ toAllocate[s] = a /\ Claims(t, a) => {s, t} \in together
             /\ Claims(s, a) /\ Claims(t, a) => {s, t} \in together

AddressInv == ClusterIPsTypeOK /\ Marked /\ Apart

\* The addresses are numbers, and Outside is none of the range.
LEMMA Addresses == Outside \in Nat /\ Outside \notin Address /\ Address \subseteq 0..Outside
                   /\ NoAddress \notin 0..Outside
  BY ClusterIPsAssumption DEF Address, Outside

\* An incident stays within its budget.
LEMMA AddressIncidentTyped ==
    ASSUME serviceIncidents \in 0..MaxServiceIncidents, ServiceIncident
    PROVE  serviceIncidents' \in 0..MaxServiceIncidents
  BY ClusterIPsAssumption DEF ServiceIncident

\* A server that ends keeps the invariant.
LEMMA EndKeeps ==
    ASSUME AddressInv, ServerEnds, serviceIncidents' \in 0..MaxServiceIncidents
    PROVE  AddressInv'
<1> USE DEF AddressInv, ServerEnds
<1>1. ClusterIPsTypeOK'
  BY Addresses, 0 \in 0..Outside DEF ClusterIPsTypeOK
<1>2. \A s \in Service : posting'[s] \notin {"find", "mark", "put"}
  BY DEF ClusterIPsTypeOK
<1>3. \A t \in Service, a \in Address : Claims(t, a)' => Claims(t, a)
  BY <1>2 DEF Claims
<1>4. Marked'
  BY <1>2 DEF Marked
<1>5. Apart'
  BY <1>2, <1>3 DEF Apart, Allocating
<1> QED
  BY <1>1, <1>4, <1>5

\* A POST that comes in keeps the invariant: a free address is claimed by nobody.
LEMMA PostKeeps ==
    ASSUME AddressInv, NEW s \in Service, PostService(s)
    PROVE  AddressInv'
<1> USE DEF AddressInv
<1>1. ClusterIPsTypeOK'
  BY Addresses DEF ClusterIPsTypeOK, PostService, Allocating
<1>2. \A t \in Service, a \in Address : Claims(t, a)' <=> Claims(t, a)
  BY DEF ClusterIPsTypeOK, PostService, Claims
<1>3. Marked'
  BY <1>2 DEF ClusterIPsTypeOK, PostService, Marked
<1>4. posting'[s] = "mark" => toAllocate'[s] \notin mp /\ serving
  BY DEF PostService, ClusterIPsTypeOK
<1>5. \A t \in Service : t # s => posting'[t] = posting[t] /\ toAllocate'[t] = toAllocate[t]
  BY DEF PostService, ClusterIPsTypeOK
<1>6. /\ together \subseteq together'
      /\ \A t \in Service : Allocating(t) => {s, t} \in together' /\ {t, s} \in together'
  BY DEF PostService
<1>7. Apart'
  BY <1>2, <1>4, <1>5, <1>6 DEF Apart, Marked, Allocating
<1> QED
  BY <1>1, <1>3, <1>7

\* The steps of an allocation keep the invariant.
LEMMA AllocationKeeps ==
    ASSUME AddressInv, NEW s \in Service, FindsFree(s) \/ Spins(s) \/ Mark(s)
    PROVE  AddressInv'
<1> USE DEF AddressInv
<1>1. ClusterIPsTypeOK'
  <2>1. nextIP' \in 0..Outside
    BY Addresses DEF ClusterIPsTypeOK, FindsFree, Spins, Mark
  <2> QED
    BY <2>1 DEF ClusterIPsTypeOK, FindsFree, Spins, Mark
<1>2. CASE FindsFree(s)
  <2>1. \A t \in Service, a \in Address : Claims(t, a)' <=> Claims(t, a)
    BY <1>2 DEF ClusterIPsTypeOK, FindsFree, Claims
  <2>2. Marked'
    BY <1>2, <2>1 DEF ClusterIPsTypeOK, FindsFree, Marked
  <2>3. Apart'
    <3>1. \A t \in Service : Allocating(t)' => Allocating(t)
      BY <1>2 DEF FindsFree, Allocating, ClusterIPsTypeOK
    <3>2. \A t \in Service : posting'[t] = "mark" => t = s \/ posting[t] = "mark"
      BY <1>2 DEF FindsFree, ClusterIPsTypeOK
    <3>3. toAllocate[s] \notin mp /\ serving
      BY <1>2 DEF FindsFree, Marked
    <3> QED
      BY <1>2, <2>1, <3>1, <3>2, <3>3 DEF Apart, Marked, FindsFree
  <2> QED
    BY <1>1, <2>2, <2>3
<1>3. CASE Spins(s)
  BY <1>1, <1>3 DEF Spins, Marked, Apart, Claims, Allocating
<1>4. CASE Mark(s)
  <2>1. \A t \in Service, a \in Address :
           Claims(t, a)' <=> Claims(t, a) \/ (t = s /\ a = toAllocate[s])
    BY <1>4 DEF ClusterIPsTypeOK, Mark, Claims
  <2>2. Marked'
    BY <1>4, <2>1 DEF ClusterIPsTypeOK, Mark, Marked
  <2>3. \A t \in Service : /\ Allocating(t)' => Allocating(t)
                           /\ posting'[t] = "mark" => posting[t] = "mark" /\ t # s
    BY <1>4 DEF Mark, Allocating, ClusterIPsTypeOK
  <2>4. posting[s] = "mark"
    BY <1>4 DEF Mark
  <2>5. \A t \in Service : {s, t} = {t, s}
    OBVIOUS
  <2>6. Apart'
    BY <1>4, <2>1, <2>3, <2>4, <2>5 DEF Apart, Allocating, Mark
  <2> QED
    BY <1>1, <2>2, <2>6
<1> QED
  BY <1>2, <1>3, <1>4

\* Writes to etcd keep the invariant: they hand claims on or drop them.
LEMMA WriteKeeps ==
    ASSUME AddressInv, NEW s \in Service, StoreService(s) \/ PutService(s) \/ DelService(s)
    PROVE  AddressInv'
<1> USE DEF AddressInv
<1>1. serviceIncidents' \in 0..MaxServiceIncidents
  BY AddressIncidentTyped DEF ClusterIPsTypeOK, StoreService, PutService, DelService
<1>2. services' \in [Service -> 0..Outside \cup {NoAddress}]
  BY DEF ClusterIPsTypeOK, StoreService, PutService, DelService
<1>3. ClusterIPsTypeOK'
  BY <1>1, <1>2 DEF ClusterIPsTypeOK, StoreService, PutService, DelService
<1>4. \A t \in Service, a \in Address : Claims(t, a)' => Claims(t, a)
  BY Addresses DEF ClusterIPsTypeOK, StoreService, PutService, DelService, Claims
<1>5. \A t \in Service : posting'[t] \in {"find", "mark", "put"} => posting'[t] = posting[t]
  BY DEF ClusterIPsTypeOK, StoreService, PutService, DelService
<1>6. \A t \in Service \ edited' : services'[t] \in Address \cup {NoAddress}
  BY DEF ClusterIPsTypeOK, StoreService, PutService, DelService, Marked
<1>7. UNCHANGED <<serving, toAllocate, mp, together>>
  BY DEF StoreService, PutService, DelService
<1>8. Marked'
  BY <1>4, <1>5, <1>6, <1>7 DEF Marked
<1>9. Apart'
  BY <1>4, <1>5, <1>7 DEF Apart, Allocating
<1> QED
  BY <1>3, <1>8, <1>9

\* An API server that starts marks all addresses that are held.
LEMMA StartKeeps ==
    ASSUME AddressInv, StartApiServer
    PROVE  AddressInv'
<1> USE DEF AddressInv, StartApiServer
<1>1. ClusterIPsTypeOK'
  <2>1. mp' \subseteq Address
    BY ClusterIPsAssumption DEF ClusterIPsTypeOK, Address, Outside
  <2> QED
    BY <2>1 DEF ClusterIPsTypeOK
<1>2. \A t \in Service, a \in Address : Claims(t, a) => services[t] = a
  BY DEF Claims, Marked
<1>3. Marked'
  BY <1>2, Addresses DEF Marked, Claims
<1>4. Apart'
  BY DEF Apart, Claims, Allocating
<1> QED
  BY <1>1, <1>3, <1>4

\* Every step keeps the invariant.
LEMMA AddressStep ==
    ASSUME AddressInv, [ClusterIPsNext]_clusterIPsVars
    PROVE  AddressInv'
<1>1. CASE KillApiServer
  BY <1>1, EndKeeps, AddressIncidentTyped DEF KillApiServer, AddressInv, ClusterIPsTypeOK
<1>2. CASE StartApiServer
  BY <1>2, StartKeeps
<1>3. ASSUME NEW s \in Service, FindsOutside(s) PROVE AddressInv'
  BY <1>3, EndKeeps DEF FindsOutside, AddressInv, ClusterIPsTypeOK
<1>4. ASSUME NEW s \in Service, NEW t \in Service, MapRace(s, t) PROVE AddressInv'
  BY <1>4, EndKeeps DEF MapRace, AddressInv, ClusterIPsTypeOK
<1>5. CASE UNCHANGED clusterIPsVars
  BY <1>5 DEF clusterIPsVars, AddressInv, ClusterIPsTypeOK, Marked, Apart, Claims, Allocating
<1> QED
  BY <1>1, <1>2, <1>3, <1>4, <1>5, PostKeeps, AllocationKeeps, WriteKeeps DEF ClusterIPsNext

\* The invariant holds at first, and every step keeps it.
LEMMA AddressInvariant == ClusterIPsSpec => []AddressInv
<1>1. ClusterIPsInit => AddressInv
  <2> SUFFICES ASSUME ClusterIPsInit PROVE AddressInv
    OBVIOUS
  <2> USE DEF ClusterIPsInit
  <2>1. 0 \in 0..Outside /\ 0 \in 0..MaxServiceIncidents
    BY Addresses, ClusterIPsAssumption
  <2>2. ClusterIPsTypeOK
    BY <2>1 DEF ClusterIPsTypeOK
  <2>3. \A t \in Service, a \in Address : ~Claims(t, a)
    BY Addresses DEF Claims
  <2>4. Marked /\ Apart
    BY <2>3 DEF Marked, Apart, Allocating
  <2> QED
    BY <2>2, <2>4 DEF AddressInv
<1> QED
  BY <1>1, AddressStep, PTL DEF ClusterIPsSpec

\* The allocator is well typed: an address that is given out lies in the range.
THEOREM AddressesTyped == ClusterIPsSpec => []ClusterIPsTypeOK
  BY AddressInvariant, PTL DEF AddressInv

\* Two services share an address only if their POSTs ran in the allocator at once or
\* a PUT set the address of one of them; restarts, runaway counters and deletions of
\* services are no causes.
THEOREM Differ == ClusterIPsSpec => []AddressesDiffer
<1>1. AddressInv => AddressesDiffer
  <2> SUFFICES ASSUME AddressInv, NEW s \in Service, NEW t \in Service, s # t,
                      services[s] = services[t], services[s] # NoAddress,
                      s \notin edited, t \notin edited
               PROVE  {s, t} \in together
    BY DEF AddressesDiffer
  <2>1. services[s] \in Address
    BY DEF AddressInv, Marked
  <2>2. Claims(s, services[s]) /\ Claims(t, services[s])
    BY DEF Claims
  <2> QED
    BY <2>1, <2>2 DEF AddressInv, Apart
<1> QED
  BY <1>1, AddressInvariant, PTL

-----------------------------------------------------------------------------
(* The call graph *)

\* Distinct names, and no set of names each of which another of the set invokes;
\* of acts rather than of the variable, to speak of what a request will write.
Leads(acts, m, n) ==
    \E u \in Uid : acts[u] # NoAction /\ acts[u].name = m /\ n \in acts[u].invokes
Closed(acts, S) == S # {} /\ \A n \in S : \E m \in S : Leads(acts, m, n)
Sound(acts) ==
    /\ \A u, v \in Uid : acts[u] # NoAction /\ acts[v] # NoAction /\ acts[u].name = acts[v].name
                         => u = v
    /\ \A S \in SUBSET Name : ~Closed(acts, S)

Done(acts, w) == [acts EXCEPT ![w.uid] = w.action]

WellTyped ==
    /\ actions \in [Uid -> Action \cup {NoAction}]
    /\ checked \in [Request -> Write \cup {NoWrite}]
    /\ overlapped \in BOOLEAN /\ renamed \in BOOLEAN

\* The actions are sound, and would be if one request did its write now.
GraphInv ==
    /\ WellTyped
    /\ overlapped \/ renamed \/ Sound(actions)
    /\ overlapped \/ renamed
       \/ \A r \in Request : checked[r] # NoWrite => Sound(Done(actions, checked[r]))

\* Fewer actions are as sound.
LEMMA Fewer ==
    ASSUME NEW acts, NEW less, Sound(acts),
           \A u \in Uid : less[u] # NoAction => less[u] = acts[u]
    PROVE  Sound(less)
<1>1. ASSUME NEW u \in Uid, NEW v \in Uid, less[u] # NoAction, less[v] # NoAction,
             less[u].name = less[v].name
      PROVE  u = v
  <2>1. less[u] = acts[u] /\ less[v] = acts[v]
    BY <1>1
  <2> QED BY <1>1, <2>1 DEF Sound
<1>2. ASSUME NEW S \in SUBSET Name, Closed(less, S)
      PROVE  FALSE
  <2>1. ASSUME NEW m, NEW n, Leads(less, m, n)
        PROVE  Leads(acts, m, n)
    BY <2>1 DEF Leads
  <2>2. Closed(acts, S)
    BY <1>2, <2>1 DEF Closed
  <2> QED BY <2>2 DEF Sound
<1> QED BY <1>1, <1>2 DEF Sound

\* What a handler has checked: if the actions are sound, and no other action has
\* the name, they are sound after its write.
LEMMA CheckSound ==
    ASSUME WellTyped, Sound(actions), NEW u \in Uid, NEW a \in Action, NEW others \in SUBSET Stored,
           NEW nodes \in Nodes(others), ~CheckLoop(With(nodes, a)),
           \A v \in Stored : v = u \/ (v \in others /\ actions[v].name # a.name)
    PROVE  Sound([actions EXCEPT ![u] = a])
<1> DEFINE acts == [actions EXCEPT ![u] = a]
<1>1. /\ \A v \in Uid : acts[v] = IF v = u THEN a ELSE actions[v]
      /\ a # NoAction /\ a.name \in Name /\ a.invokes \in SUBSET Name
  BY ActionGraphAssumption DEF WellTyped, Action
<1>2. ASSUME NEW v \in Uid, NEW w \in Uid, acts[v] # NoAction, acts[w] # NoAction,
             acts[v].name = acts[w].name
      PROVE  v = w
  <2>1. \A x \in Uid : acts[x] # NoAction /\ x # u => x \in Stored /\ actions[x].name # a.name
    BY <1>1 DEF Stored
  <2>2. CASE v # u /\ w # u
    <3>1. acts[v] = actions[v] /\ acts[w] = actions[w]
      BY <1>1, <2>2
    <3> QED BY <1>2, <3>1 DEF Sound
  <2> QED BY <1>1, <1>2, <2>1, <2>2
<1>3. ASSUME NEW S \in SUBSET Name, Closed(acts, S)
      PROVE  FALSE
  <2> DEFINE all == With(nodes, a)
  <2>1. /\ nodes \in [{actions[v].name : v \in others} -> SUBSET Name]
        /\ DOMAIN all = {actions[v].name : v \in others} \cup {a.name}
        /\ \A n \in DOMAIN all : all[n] = IF n = a.name THEN a.invokes ELSE nodes[n]
    BY DEF Nodes, With
  <2>2. ASSUME NEW m \in Name, NEW n \in Name, Leads(acts, m, n)
        PROVE  m \in DOMAIN all /\ n \in all[m]
    <3>1. PICK v \in Uid : acts[v] # NoAction /\ acts[v].name = m /\ n \in acts[v].invokes
      BY <2>2 DEF Leads
    <3>2. CASE v = u
      BY <1>1, <2>1, <3>1, <3>2
    <3>3. CASE v # u
      <4>1. acts[v] = actions[v] /\ v \in others /\ m # a.name
        BY <1>1, <3>1, <3>3 DEF Stored
      <4>2. m \in DOMAIN nodes /\ m \in DOMAIN all /\ all[m] = nodes[m]
        BY <2>1, <3>1, <4>1
      <4>3. PICK w \in others : actions[w].name = m /\ actions[w].invokes = nodes[m]
        BY <4>2 DEF Nodes
      <4>4. v = w
        BY <3>1, <4>1, <4>3 DEF Sound, Stored
      <4> QED BY <3>1, <4>1, <4>2, <4>3, <4>4
    <3> QED BY <3>2, <3>3
  <2>3. S # {} /\ \A n \in S : \E m \in S \cap DOMAIN all : n \in all[m]
    BY <1>3, <2>2 DEF Closed
  <2> QED BY <2>3 DEF CheckLoop
<1> QED BY <1>2, <1>3 DEF Sound

\* A check leaves GraphInv, when the name it writes is nobody else's.
LEMMA ChecksKeep ==
    ASSUME GraphInv, NEW r \in Request, NEW u \in Uid, NEW a \in Action, NEW others \in SUBSET Stored,
           Checks(r, u, a, others), renamed' \in BOOLEAN, renamed => renamed',
           ~renamed' /\ ~overlapped /\ Sound(actions)
           => \A v \in Stored : v = u \/ (v \in others /\ actions[v].name # a.name)
    PROVE  GraphInv'
<1> DEFINE w == [uid |-> u, action |-> a]
<1>1. /\ w \in Write /\ checked' = [checked EXCEPT ![r] = w]
      /\ actions' = actions /\ overlapped' = overlapped
  BY DEF Checks, Write
<1>2. WellTyped'
  BY <1>1 DEF GraphInv, WellTyped
<1>3. ASSUME ~overlapped', ~renamed'
      PROVE  /\ Sound(actions')
             /\ \A q \in Request : checked'[q] # NoWrite => Sound(Done(actions', checked'[q]))
  <2>1. Sound(actions) /\ \A q \in Request : checked[q] # NoWrite => Sound(Done(actions, checked[q]))
    BY <1>1, <1>3 DEF GraphInv
  <2>2. PICK nodes \in Nodes(others) : ~CheckLoop(With(nodes, a))
    BY DEF Checks
  <2>3. Sound(Done(actions, w))
    <3>1. Sound([actions EXCEPT ![u] = a])
      BY <1>1, <1>3, <2>1, <2>2, CheckSound DEF GraphInv
    <3> QED BY <3>1 DEF Done
  <2>4. \A q \in Request : checked'[q] = IF q = r THEN w ELSE checked[q]
    BY <1>1 DEF GraphInv, WellTyped
  <2> QED BY <1>1, <2>1, <2>3, <2>4
<1> QED BY <1>2, <1>3 DEF GraphInv

LEMMA GraphStep == GraphInv /\ [ActionGraphNext]_actionGraphVars => GraphInv'
<1> SUFFICES ASSUME GraphInv, [ActionGraphNext]_actionGraphVars PROVE GraphInv'
  OBVIOUS
<1>0. Stored \subseteq Uid /\ \A n : Named(n) \subseteq Stored
  BY DEF Stored, Named
<1>1. ASSUME NEW r \in Request, PostAction(r) PROVE GraphInv'
  <2>1. PICK a \in Action : /\ \E u \in IF Named(a.name) = {} THEN NewUid ELSE Named(a.name) :
                                 Checks(r, u, a, Stored \ Named(a.name))
                            /\ UNCHANGED renamed
    BY <1>1 DEF PostAction
  <2>2. PICK u \in IF Named(a.name) = {} THEN NewUid ELSE Named(a.name) :
           Checks(r, u, a, Stored \ Named(a.name))
    BY <2>1
  <2>3. u \in Uid
    BY <1>0, <2>2 DEF NewUid
  <2>4. ASSUME Sound(actions), NEW v \in Stored
        PROVE  v = u \/ (v \in Stored \ Named(a.name) /\ actions[v].name # a.name)
    BY <1>0, <2>2, <2>3, <2>4 DEF Named, Stored, Sound
  <2> QED BY <2>1, <2>2, <2>3, <2>4, ChecksKeep DEF GraphInv, WellTyped
<1>2. ASSUME NEW r \in Request, PutAction(r) PROVE GraphInv'
  <2>1. PICK u \in Stored, a \in Action :
           /\ Checks(r, u, a, Stored \ {u})
           /\ renamed' = (renamed \/ Named(a.name) \ {u} # {})
    BY <1>2 DEF PutAction
  <2>2. ASSUME ~renamed', NEW v \in Stored
        PROVE  v = u \/ (v \in Stored \ {u} /\ actions[v].name # a.name)
    BY <2>1, <2>2 DEF Named
  <2> QED BY <1>0, <2>1, <2>2, ChecksKeep DEF GraphInv, WellTyped
<1>3. ASSUME NEW r \in Request, WriteAction(r) PROVE GraphInv'
  <2> DEFINE w == checked[r]
  <2>1. /\ w \in Write /\ w # NoWrite /\ w.uid \in Uid /\ w.action \in Action
        /\ actions' = Done(actions, w) /\ checked' = [checked EXCEPT ![r] = NoWrite]
        /\ overlapped' = (overlapped \/ \E q \in Request \ {r} : checked[q] # NoWrite)
        /\ renamed' = renamed
    BY <1>3 DEF WriteAction, GraphInv, WellTyped, Write, Done
  <2>2. WellTyped'
    BY <2>1 DEF GraphInv, WellTyped, Done
  <2>3. ASSUME ~overlapped', ~renamed'
        PROVE  /\ Sound(actions')
               /\ \A q \in Request : checked'[q] = NoWrite
    BY <2>1, <2>3 DEF GraphInv, WellTyped
  <2>4. \/ overlapped' \/ renamed'
        \/ Sound(actions') /\ \A q \in Request : checked'[q] = NoWrite
    BY <2>3
  <2> QED BY <2>2, <2>4 DEF GraphInv, Sound, Closed, Leads, Done
<1>4. ASSUME NEW r \in Request, LoseRequest(r) PROVE GraphInv'
  <2>1. /\ checked' = [checked EXCEPT ![r] = NoWrite]
        /\ actions' = actions /\ overlapped' = overlapped /\ renamed' = renamed
    BY <1>4 DEF LoseRequest
  <2>2. \A q \in Request : checked'[q] = NoWrite \/ checked'[q] = checked[q]
    BY <2>1 DEF GraphInv, WellTyped
  <2>3. WellTyped'
    BY <2>1 DEF GraphInv, WellTyped
  <2>4. \A q \in Request : checked'[q] # NoWrite /\ Sound(Done(actions, checked[q]))
                           => Sound(Done(actions', checked'[q]))
    BY <2>1, <2>2
  <2>5. \/ overlapped' \/ renamed'
        \/ /\ Sound(actions')
           /\ \A q \in Request : checked'[q] # NoWrite => Sound(Done(actions', checked'[q]))
    BY <2>1, <2>2, <2>4 DEF GraphInv
  <2> QED BY <2>3, <2>5 DEF GraphInv
<1>5. ASSUME NEW u \in Uid, DelAction(u) PROVE GraphInv'
  <2>1. /\ actions' = [actions EXCEPT ![u] = NoAction]
        /\ checked' = checked /\ overlapped' = overlapped /\ renamed' = renamed
    BY <1>5 DEF DelAction
  <2>2. WellTyped'
    BY <2>1 DEF GraphInv, WellTyped
  <2>3. \A v \in Uid : actions'[v] # NoAction => actions'[v] = actions[v]
    BY <2>1 DEF GraphInv, WellTyped
  <2>4. Sound(actions) => Sound(actions')
    BY <2>3, Fewer
  <2>5. ASSUME NEW r \in Request, checked[r] # NoWrite, Sound(Done(actions, checked[r]))
        PROVE  Sound(Done(actions', checked[r]))
    <3>1. checked[r].uid \in Uid
      BY <2>5 DEF GraphInv, WellTyped, Write
    <3>2. \A v \in Uid : Done(actions', checked[r])[v] # NoAction
                         => Done(actions', checked[r])[v] = Done(actions, checked[r])[v]
      BY <2>1, <2>3, <3>1 DEF GraphInv, WellTyped, Done
    <3> QED BY <2>5, <3>2, Fewer
  <2>6. \/ overlapped' \/ renamed'
        \/ /\ Sound(actions')
           /\ \A r \in Request : checked'[r] # NoWrite => Sound(Done(actions', checked'[r]))
    BY <2>1, <2>4, <2>5 DEF GraphInv
  <2> QED BY <2>2, <2>6 DEF GraphInv
<1>6. CASE UNCHANGED actionGraphVars
  BY <1>6 DEF actionGraphVars, GraphInv, WellTyped, Sound, Closed, Leads, Done
<1> QED BY <1>1, <1>2, <1>3, <1>4, <1>5, <1>6 DEF ActionGraphNext

LEMMA GraphStart == ActionGraphInit => GraphInv
<1> SUFFICES ASSUME ActionGraphInit PROVE GraphInv
  OBVIOUS
<1>1. WellTyped
  BY DEF ActionGraphInit, WellTyped
<1>2. Sound(actions)
  BY DEF ActionGraphInit, Sound, Closed, Leads
<1>3. \A r \in Request : checked[r] = NoWrite
  BY DEF ActionGraphInit
<1> QED BY <1>1, <1>2, <1>3 DEF GraphInv

LEMMA GraphInvariant == ActionGraphSpec => []GraphInv
  BY GraphStart, GraphStep, PTL DEF ActionGraphSpec

\* Type correctness, and one action for each name unless the causes came.
THEOREM GraphTyped == ActionGraphSpec => []ActionGraphTypeOK
<1>1. GraphInv => ActionGraphTypeOK
  BY DEF GraphInv, WellTyped, ActionGraphTypeOK, Sound, Stored
<1> QED BY <1>1, GraphInvariant, PTL

\* No action comes to invoke itself unless two writes overlapped or a PUT gave an
\* action another's name: the names of a cyclic path would be a closed set.
THEOREM Acyclic == ActionGraphSpec => []NoCycle
<1>1. GraphInv => NoCycle
  <2> SUFFICES ASSUME GraphInv, ~overlapped, ~renamed,
                      NEW k \in 1..Cardinality(Name), NEW path \in [0..k -> Name],
                      path[0] = path[k], \A i \in 1..k : Invokes(path[i - 1], path[i])
               PROVE  FALSE
    BY DEF NoCycle
  <2>1. k \in Nat /\ k >= 1
    BY ActionGraphAssumption, FS_CardinalityType
  <2> DEFINE S == {path[i] : i \in 0..k}
  <2>2. S \in SUBSET Name /\ S # {}
    BY <2>1
  <2>3. ASSUME NEW i \in 0..k PROVE \E m \in S : Leads(actions, m, path[i])
    <3> DEFINE j == IF i = 0 THEN k ELSE i
    <3>1. j \in 1..k /\ j - 1 \in 0..k /\ path[j] = path[i]
      BY <2>1
    <3>2. Invokes(path[j - 1], path[j])
      BY <3>1
    <3>3. Leads(actions, path[j - 1], path[j])
      BY <3>2 DEF Invokes, Named, Stored, Leads
    <3> QED BY <3>1, <3>3
  <2>4. Closed(actions, S)
    BY <2>2, <2>3 DEF Closed
  <2> QED BY <2>2, <2>4 DEF GraphInv, Sound
<1> QED BY <1>1, GraphInvariant, PTL
=============================================================================
