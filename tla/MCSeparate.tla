----------------------------- MODULE MCSeparate -----------------------------
(* CubeProxy, GPU jobs, cluster IPs and the call graph for TLC.  They      *)
(* share no state, so one run checks them side by side: one of them,       *)
(* chosen at the start, moves.                                             *)
EXTENDS CubeProxy, Jobs, ClusterIPs, ActionGraph

CONSTANTS p1, p2, d1, d2

VARIABLE part

MCConfig == {[dests |-> <<d1>>, sel |-> {p1, p2}],
             [dests |-> <<d1, d2>>, sel |-> {p1}],
             [dests |-> <<d2, d1>>, sel |-> {p1}]}

separateVars == <<vars, jobsVars, clusterIPsVars, actionGraphVars, part>>

SeparateInit ==
    /\ Init /\ JobsInit /\ ClusterIPsInit /\ ActionGraphInit
    /\ part \in {"cubeProxy", "jobs", "clusterIPs", "actionGraph"}

\* Bounds: the run of the job ends with a PUT that its sender had left, which comes
\* when everybody has read what there is.
JobsPart == part = "jobs" /\ ~wroteLate
AllRead == schedStream = <<>> /\ \A n \in Node : jobStream[n] = <<>>

SeparateNext ==
    /\ \/ part = "cubeProxy" /\ Next
          /\ UNCHANGED <<jobsVars, clusterIPsVars, actionGraphVars>>
       \/ JobsPart /\ JobsNext /\ (wroteLate' => AllRead)
          /\ UNCHANGED <<vars, clusterIPsVars, actionGraphVars>>
       \/ part = "clusterIPs" /\ ClusterIPsNext /\ UNCHANGED <<vars, jobsVars, actionGraphVars>>
       \/ part = "actionGraph" /\ ActionGraphNext /\ UNCHANGED <<vars, jobsVars, clusterIPsVars>>
    /\ UNCHANGED part

\* The fairness of FairSpec and of JobsSpec, for the one that moves.
SeparateSpec ==
    /\ SeparateInit /\ [][SeparateNext]_separateVars
    /\ WF_vars(part = "cubeProxy" /\ Works)
    /\ WF_jobsVars(JobsPart /\ SchedulerSteps)
    /\ \A n \in Node : /\ WF_jobsVars(JobsPart /\ CubeletSteps(n))
                       /\ WF_jobsVars(JobsPart /\ ObserverSteps(n))
=============================================================================
