--------------------------------- MODULE Jobs ---------------------------------
(***************************************************************************)
(* GPU jobs: cubectl creates one and uploads its files, the scheduler's    *)
(* job goroutine binds it to a node, the cubelet of the node starts a      *)
(* container, and gpujobserver in it submits the job to slurm and writes   *)
(* its phases.  Everybody writes the whole object, from a copy.            *)
(*                                                                         *)
(* One job, which is not deleted, so that a PUT always finds it: its       *)
(* write is all of it that counts.  A PUT whose sender has given it up or  *)
(* has ended stays with the API server and is written later or never.  Of  *)
(* slurm there is only what gpujobserver reads; output and files are left  *)
(* out.                                                                    *)
(***************************************************************************)
EXTENDS Naturals, Sequences

CONSTANTS Node, NoNode, NoJob, MaxJobIncidents

Phase == {"creating", "created", "submitting", "waiting", "running", "succeeded", "failed"}
Job == [phase : Phase, node : Node \cup {NoNode}]

ASSUME JobsAssumption == NoNode \notin Node /\ NoJob \notin Job /\ MaxJobIncidents \in Nat

VARIABLES
    job,
    scheduler,    \* "list", "connect" or "watch"
    schedStream, schedHand,
    jobInf,       \* of each node's cubelet, as the scheduler
    jobStream,
    jobOut,       \* what was told of the job: "none", "told", "made" (a container)
    jobCache,     \* the job was started from a list
    container,    \* on each node: "none", "created", "running" or "exited"
    observer,     \* of each container: the copy of gpujobserver
    failing,      \* nodes whose gpujobserver is in jobFail
    missed,       \* history: a change that mattered came between a list and its watch
    broken,       \* history: an error that is perhaps never made good
    late,         \* PutGpuJob handlers whose sender incident i parted from them
    wroteLate,    \* history: one of them has written
    jobIncidents

schedulerVars == <<scheduler, schedStream, schedHand>>
cubeletVars == <<jobInf, jobStream, jobOut, jobCache, container>>
observerVars == <<observer, failing>>
lateVars == <<late, wroteLate>>
jobsVars == <<job, schedulerVars, cubeletVars, observerVars, missed, broken, lateVars, jobIncidents>>

InfState == {"list", "connect", "watch"}

JobsTypeOK ==
    /\ job \in Job \cup {NoJob}
    /\ scheduler \in InfState /\ schedStream \in Seq(Job) /\ schedHand \in Job \cup {NoJob}
    /\ jobInf \in [Node -> InfState] /\ jobStream \in [Node -> Seq(Job)]
    /\ jobOut \in [Node -> {"none", "told", "made"}] /\ jobCache \in [Node -> BOOLEAN]
    /\ container \in [Node -> {"none", "created", "running", "exited"}]
    /\ observer \in [Node -> Job \cup {NoJob}] /\ failing \subseteq Node
    /\ \A n \in Node : observer[n] # NoJob => container[n] \in {"running", "exited"}
    /\ \A n \in failing : observer[n] # NoJob
    /\ missed \in BOOLEAN /\ broken \in BOOLEAN
    /\ late \in [1..MaxJobIncidents -> Job \cup {NoJob}] /\ wroteLate \in BOOLEAN
    /\ jobIncidents \in 0..MaxJobIncidents

JobIncident == jobIncidents < MaxJobIncidents /\ jobIncidents' = jobIncidents + 1

\* The sender of one of the PUTs does not learn what became of it, or there was none.
PartFrom(puts) ==
    /\ JobIncident
    /\ \E j \in puts \cup {NoJob} : late' = [late EXCEPT ![jobIncidents + 1] = j]
    /\ UNCHANGED wroteLate

-----------------------------------------------------------------------------
(* The API server.                                                         *)

\* Mutant of ToSchedule: the node is not looked at.
ToScheduleAll(j) == j.phase = "created"

ToSchedule(j) == j.node = NoNode /\ j.phase = "created"

Mine(j, n) == j.phase = "created" /\ j.node = n

PutJob(j) ==
    /\ job' = j
    /\ schedStream' = IF scheduler = "watch" THEN Append(schedStream, j) ELSE schedStream
    /\ jobStream' = [n \in Node |-> IF jobInf[n] = "watch" THEN Append(jobStream[n], j)
                                                           ELSE jobStream[n]]
    /\ missed' = \/ missed
                 \/ scheduler = "connect" /\ ToSchedule(j)
                 \/ \E n \in Node : jobInf[n] = "connect" /\ Mine(j, n)

\* cubectl: CreateGpuJob, PostJobFile, UpdateGpuJob.
CreateJob ==
    /\ \/ job = NoJob /\ PutJob([phase |-> "creating", node |-> NoNode])
       \/ job # NoJob /\ job.phase = "creating" /\ PutJob([job EXCEPT !.phase = "created"])
    /\ UNCHANGED <<scheduler, schedHand, jobInf, jobOut, jobCache, container, observerVars, broken,
                   lateVars, jobIncidents>>

-----------------------------------------------------------------------------
(* The scheduler.                                                          *)

\* Schedule, or its error, after which the job is bound to the node "".
Chosen(j, choice) ==
    IF ~ToSchedule(j) THEN schedHand' = NoJob /\ UNCHANGED jobIncidents
    ELSE \/ choice \in Node /\ schedHand' = [j EXCEPT !.node = choice] /\ UNCHANGED jobIncidents
         \/ choice = NoNode /\ schedHand' = j /\ JobIncident

\* Mutant of ListJobsToSchedule: the jobs of the list are not scheduled.
ListJobsUnread ==
    /\ scheduler = "list" /\ schedHand = NoJob
    /\ scheduler' = "connect"
    /\ UNCHANGED <<job, schedStream, schedHand, cubeletVars, observerVars, missed, broken,
                   lateVars, jobIncidents>>

\* tryWatchJob ends its list before it connects.
ListJobsToSchedule ==
    /\ scheduler = "list" /\ schedHand = NoJob
    /\ scheduler' = "connect"
    /\ IF job = NoJob THEN UNCHANGED <<schedHand, jobIncidents>>
       ELSE \E choice \in Node \cup {NoNode} : Chosen(job, choice)
    /\ UNCHANGED <<job, schedStream, cubeletVars, observerVars, missed, broken, lateVars>>

ConnectScheduler ==
    /\ scheduler = "connect" /\ schedHand = NoJob
    /\ scheduler' = "watch"
    /\ UNCHANGED <<job, schedStream, schedHand, cubeletVars, observerVars, missed, broken,
                   lateVars, jobIncidents>>

ScheduleJob ==
    /\ scheduler = "watch" /\ schedHand = NoJob /\ schedStream # <<>>
    /\ schedStream' = Tail(schedStream)
    /\ \E choice \in Node \cup {NoNode} : Chosen(Head(schedStream), choice)
    /\ UNCHANGED <<job, scheduler, cubeletVars, observerVars, missed, broken, lateVars>>

\* UpdateGpuJob; its error is only logged, and the handler may still be at work.
SendJobScheduleInfoBack ==
    /\ schedHand # NoJob
    /\ schedHand' = NoJob
    /\ \/ PutJob(schedHand) /\ UNCHANGED <<broken, lateVars, jobIncidents>>
       \/ /\ PartFrom({schedHand}) /\ broken' = TRUE
          /\ UNCHANGED <<job, schedStream, jobStream, missed>>
    /\ UNCHANGED <<scheduler, jobInf, jobOut, jobCache, container, observerVars>>

\* The watch is lost, or the scheduler ends, with a PUT under way or not, and is
\* started again.
LoseScheduler ==
    /\ scheduler # "list" /\ PartFrom({schedHand})
    /\ scheduler' = "list" /\ schedStream' = <<>> /\ schedHand' = NoJob
    /\ UNCHANGED <<job, cubeletVars, observerVars, missed, broken>>

-----------------------------------------------------------------------------
(* The cubelet of node n.                                                  *)

\* The informer goes on when the loop has handled what it was told; the code lets
\* it go on a little earlier.  A job that the list has told of enters jobCache.
ListJobs(n) ==
    /\ jobInf[n] = "list" /\ jobOut[n] = "none"
    /\ jobInf' = [jobInf EXCEPT ![n] = "connect"]
    /\ LET tell == job # NoJob /\ Mine(job, n)
       IN  /\ jobOut' = [jobOut EXCEPT ![n] = IF tell /\ ~jobCache[n] THEN "told" ELSE "none"]
           /\ jobCache' = [jobCache EXCEPT ![n] = @ \/ tell]
    /\ UNCHANGED <<job, schedulerVars, jobStream, container, observerVars, missed, broken,
                   lateVars, jobIncidents>>

ConnectJobs(n) ==
    /\ jobInf[n] = "connect" /\ jobOut[n] = "none"
    /\ jobInf' = [jobInf EXCEPT ![n] = "watch"]
    /\ UNCHANGED <<job, schedulerVars, jobStream, jobOut, jobCache, container, observerVars,
                   missed, broken, lateVars, jobIncidents>>

\* An event does not enter jobCache: the next list tells of the job again.
InformJob(n) ==
    /\ jobInf[n] = "watch" /\ jobOut[n] = "none" /\ jobStream[n] # <<>>
    /\ jobStream' = [jobStream EXCEPT ![n] = Tail(@)]
    /\ jobOut' = [jobOut EXCEPT ![n] = IF Mine(Head(jobStream[n]), n) /\ ~jobCache[n]
                                         THEN "told" ELSE "none"]
    /\ UNCHANGED <<job, schedulerVars, jobInf, jobCache, container, observerVars, missed, broken,
                   lateVars, jobIncidents>>

\* Mutant of CreateContainer: the container's name is not the job's.
CreateContainerAgain(n) ==
    /\ jobOut[n] = "told"
    /\ container' = [container EXCEPT ![n] = "created"]
    /\ jobOut' = [jobOut EXCEPT ![n] = "made"]
    /\ UNCHANGED <<job, schedulerVars, jobInf, jobStream, jobCache, observerVars, missed, broken,
                   lateVars, jobIncidents>>

\* AddGPUJob: the name of the container is the job's, so docker makes only one.
CreateContainer(n) ==
    /\ jobOut[n] = "told"
    /\ container' = [container EXCEPT ![n] = IF @ = "none" THEN "created" ELSE @]
    /\ jobOut' = [jobOut EXCEPT ![n] = IF container[n] = "none" THEN "made" ELSE "none"]
    /\ UNCHANGED <<job, schedulerVars, jobInf, jobStream, jobCache, observerVars, missed, broken,
                   lateVars, jobIncidents>>

StartContainer(n) ==
    /\ jobOut[n] = "made"
    /\ container' = [container EXCEPT ![n] = "running"]
    /\ jobOut' = [jobOut EXCEPT ![n] = "none"]
    /\ UNCHANGED <<job, schedulerVars, jobInf, jobStream, jobCache, observerVars, missed, broken,
                   lateVars, jobIncidents>>

\* Docker or the registry fails: the event has been handled.
AddGPUJobFails(n) ==
    /\ jobOut[n] # "none" /\ JobIncident
    /\ jobOut' = [jobOut EXCEPT ![n] = "none"]
    /\ broken' = TRUE
    /\ UNCHANGED <<job, schedulerVars, jobInf, jobStream, jobCache, container, observerVars,
                   missed, lateVars>>

LoseJobWatch(n) ==
    /\ jobInf[n] = "watch" /\ jobOut[n] = "none" /\ JobIncident
    /\ jobInf' = [jobInf EXCEPT ![n] = "list"]
    /\ jobStream' = [jobStream EXCEPT ![n] = <<>>]
    /\ UNCHANGED <<job, schedulerVars, jobOut, jobCache, container, observerVars, missed, broken,
                   lateVars>>

\* The cubelet starts again.  A container that it created and had not started
\* keeps the name: nobody will start it.
RestartCubelet(n) ==
    /\ JobIncident
    /\ jobInf' = [jobInf EXCEPT ![n] = "list"]
    /\ jobStream' = [jobStream EXCEPT ![n] = <<>>]
    /\ jobOut' = [jobOut EXCEPT ![n] = "none"]
    /\ jobCache' = [jobCache EXCEPT ![n] = FALSE]
    /\ broken' = (broken \/ container[n] = "created")
    /\ UNCHANGED <<job, schedulerVars, container, observerVars, missed, lateVars>>

-----------------------------------------------------------------------------
(* gpujobserver in the container of node n.                                *)

\* GetGpuJob.  When it fails jobFail writes a job without a UID, to no effect.
GetJob(n) ==
    /\ container[n] = "running" /\ observer[n] = NoJob
    /\ \/ /\ observer' = [observer EXCEPT ![n] = job]
          /\ UNCHANGED <<container, broken, jobIncidents>>
       \/ /\ JobIncident /\ broken' = TRUE
          /\ container' = [container EXCEPT ![n] = "exited"] /\ UNCHANGED observer
    /\ UNCHANGED <<job, schedulerVars, jobInf, jobStream, jobOut, jobCache, failing, missed,
                   lateVars>>

\* squeue need not be asked while the job runs.
Advances(p, q) == <<p, q>> \in {<<"created", "submitting">>, <<"submitting", "waiting">>,
                                <<"waiting", "running">>, <<"waiting", "succeeded">>,
                                <<"running", "succeeded">>}

Observing(n) == container[n] = "running" /\ observer[n] # NoJob /\ n \notin failing

\* The next phase is written.  The last PUT ends the process.
WritePhase(n, p) ==
    /\ Observing(n) /\ Advances(observer[n].phase, p)
    /\ observer' = [observer EXCEPT ![n].phase = p]
    /\ PutJob([observer[n] EXCEPT !.phase = p])
    /\ container' = [container EXCEPT ![n] = IF p = "succeeded" THEN "exited" ELSE @]
    /\ UNCHANGED <<scheduler, schedHand, jobInf, jobOut, jobCache, failing, broken, lateVars,
                   jobIncidents>>

\* The PUT, done, not done or still to be done, returns an error, which for
\* "running" is only logged.
WritePhaseFails(n, p) ==
    /\ Observing(n) /\ Advances(observer[n].phase, p)
    /\ observer' = [observer EXCEPT ![n].phase = p]
    /\ failing' = IF p = "running" THEN failing ELSE failing \cup {n}
    /\ \/ PutJob([observer[n] EXCEPT !.phase = p]) /\ JobIncident /\ UNCHANGED lateVars
       \/ /\ PartFrom({[observer[n] EXCEPT !.phase = p]})
          /\ UNCHANGED <<job, schedStream, jobStream, missed>>
    /\ UNCHANGED <<scheduler, schedHand, jobInf, jobOut, jobCache, container, broken>>

\* The file server, ssh or slurm fails with an error.
ObserverFails(n) ==
    /\ Observing(n) /\ JobIncident
    /\ failing' = failing \cup {n}
    /\ UNCHANGED <<job, schedulerVars, cubeletVars, observer, missed, broken, lateVars>>

\* The PUT that gpujobserver may be waiting for.
PutsOf(n) ==
    IF n \in failing THEN {[observer[n] EXCEPT !.phase = "failed"]}
    ELSE {[observer[n] EXCEPT !.phase = p] : p \in {q \in Phase : Advances(observer[n].phase, q)}}

\* The process ends without jobFail: an index panic on output of fewer lines than it
\* expects, or the container is killed, perhaps in the middle of a PUT.
ObserverEnds(n) ==
    /\ container[n] = "running"
    /\ container' = [container EXCEPT ![n] = "exited"]
    /\ PartFrom(IF observer[n] = NoJob THEN {} ELSE PutsOf(n))
    /\ broken' = TRUE
    /\ UNCHANGED <<job, schedulerVars, jobInf, jobStream, jobOut, jobCache, observerVars, missed>>

\* jobFail: an error of its PUT is only logged.
JobFail(n) ==
    /\ n \in failing /\ container[n] = "running"
    /\ container' = [container EXCEPT ![n] = "exited"]
    /\ \/ /\ PutJob([observer[n] EXCEPT !.phase = "failed"])
          /\ UNCHANGED <<broken, lateVars, jobIncidents>>
       \/ /\ PartFrom({[observer[n] EXCEPT !.phase = "failed"]}) /\ broken' = TRUE
          /\ UNCHANGED <<job, schedStream, jobStream, missed>>
    /\ UNCHANGED <<scheduler, schedHand, jobInf, jobOut, jobCache, observerVars>>

-----------------------------------------------------------------------------
\* A handler writes that nobody waits for any more.
WriteLate(i) ==
    /\ late[i] # NoJob /\ PutJob(late[i])
    /\ late' = [late EXCEPT ![i] = NoJob] /\ wroteLate' = TRUE
    /\ UNCHANGED <<scheduler, schedHand, jobInf, jobOut, jobCache, container, observerVars, broken,
                   jobIncidents>>

JobsInit ==
    /\ job = NoJob
    /\ scheduler = "list" /\ schedStream = <<>> /\ schedHand = NoJob
    /\ jobInf = [n \in Node |-> "list"] /\ jobStream = [n \in Node |-> <<>>]
    /\ jobOut = [n \in Node |-> "none"] /\ jobCache = [n \in Node |-> FALSE]
    /\ container = [n \in Node |-> "none"]
    /\ observer = [n \in Node |-> NoJob] /\ failing = {}
    /\ missed = FALSE /\ broken = FALSE /\ jobIncidents = 0
    /\ late = [i \in 1..MaxJobIncidents |-> NoJob] /\ wroteLate = FALSE

SchedulerSteps ==
    ListJobsToSchedule \/ ConnectScheduler \/ ScheduleJob \/ SendJobScheduleInfoBack
CubeletSteps(n) ==
    ListJobs(n) \/ ConnectJobs(n) \/ InformJob(n) \/ CreateContainer(n) \/ StartContainer(n)
ObserverSteps(n) == GetJob(n) \/ JobFail(n) \/ \E p \in Phase : WritePhase(n, p)

JobsNext ==
    \/ CreateJob \/ SchedulerSteps \/ LoseScheduler
    \/ \E n \in Node :
          \/ CubeletSteps(n) \/ ObserverSteps(n)
          \/ AddGPUJobFails(n) \/ LoseJobWatch(n) \/ RestartCubelet(n)
          \/ ObserverFails(n) \/ ObserverEnds(n) \/ \E p \in Phase : WritePhaseFails(n, p)
    \/ \E i \in 1..MaxJobIncidents : WriteLate(i)

\* Each process goes on while it can; a handler without a sender may never end.
JobsSpec ==
    /\ JobsInit /\ [][JobsNext]_jobsVars
    /\ WF_jobsVars(SchedulerSteps)
    /\ \A n \in Node : WF_jobsVars(CubeletSteps(n)) /\ WF_jobsVars(ObserverSteps(n))

-----------------------------------------------------------------------------
JobIn(phases) == job # NoJob /\ job.phase \in phases

Later(p, q) == p = q \/ q = "failed" \/ <<p, q>> = <<"creating", "created">> \/ Advances(p, q)

\* The job's phase only goes forward and its node, once chosen, stays, although
\* the scheduler, cubectl and gpujobserver all write back copies of their own and
\* fail and start again; as long as no PUT is written whose sender had given it up
\* or ended, which sets back what was written since.
JobGoesForward ==
    [][job # NoJob => \/ Later(job.phase, job'.phase) /\ job.node \in {NoNode, job'.node}
                      \/ wroteLate']_job

\* A created job is not under way for ever, unless a change fell between a list
\* and its watch, an error came that is not made good, or a PUT was written late.
JobRuns ==
    []<>(~JobIn({"created", "submitting", "waiting", "running"}) \/ missed \/ broken \/ wroteLate)
=============================================================================
