----------------------------- MODULE ClusterIPs -----------------------------
(***************************************************************************)
(* Cluster IPs: the allocator inside the API server, which the handlers of *)
(* POST call without a lock, and which a new API server fills from etcd.   *)
(*                                                                         *)
(* A service stands for its POST.  Addresses count from the base of the    *)
(* range; Outside stands for all addresses that are not in it.             *)
(***************************************************************************)
EXTENDS Naturals

CONSTANTS Service, LastAddress, NoAddress, MaxServiceIncidents

Address == 0..LastAddress
Outside == LastAddress + 1

ASSUME ClusterIPsAssumption ==
    LastAddress \in Nat /\ NoAddress \notin 0..Outside /\ MaxServiceIncidents \in Nat

VARIABLES
    serving,   \* the API server runs and has its allocator
    services,  \* etcd: the address of each service, or NoAddress
    posting,   \* of each service's POST: "none", "find", "mark", "put" or "done"
    toAllocate,
    mp,        \* addresses that are taken
    nextIP,
    together,  \* history: pairs whose allocations overlapped
    edited,    \* history: services that a PUT gave another address
    serviceIncidents

clusterIPsVars == <<serving, services, posting, toAllocate, mp, nextIP, together, edited,
                    serviceIncidents>>

ClusterIPsTypeOK ==
    /\ serving \in BOOLEAN
    /\ services \in [Service -> 0..Outside \cup {NoAddress}]
    /\ posting \in [Service -> {"none", "find", "mark", "put", "done"}]
    /\ toAllocate \in [Service -> 0..Outside]
    /\ mp \subseteq Address /\ nextIP \in 0..Outside
    /\ together \subseteq SUBSET Service /\ edited \subseteq Service
    /\ serviceIncidents \in 0..MaxServiceIncidents
    /\ \A s \in Service : posting[s] \in {"mark", "put"} => toAllocate[s] \in Address

ServiceIncident ==
    serviceIncidents < MaxServiceIncidents /\ serviceIncidents' = serviceIncidents + 1

Allocating(s) == posting[s] \in {"find", "mark"}

\* The address of the POST is looked up, or replaced by the next one if it is
\* taken, out of range or missing.
PostService(s) ==
    /\ serving /\ posting[s] = "none"
    /\ \/ /\ posting' = [posting EXCEPT ![s] = "mark"]
          /\ \E ip \in Address \ mp : toAllocate' = [toAllocate EXCEPT ![s] = ip]
       \/ /\ posting' = [posting EXCEPT ![s] = "find"]
          /\ toAllocate' = [toAllocate EXCEPT ![s] = nextIP]
    /\ together' = together \cup {{s, t} : t \in {t \in Service : Allocating(t)}}
    /\ UNCHANGED <<serving, services, mp, nextIP, edited, serviceIncidents>>

\* The allocator is lost; a POST that is under way is never answered.
ServerEnds ==
    /\ serving' = FALSE
    /\ posting' = [s \in Service |-> IF posting[s] = "none" THEN "none" ELSE "done"]
    /\ mp' = {} /\ nextIP' = 0
    /\ UNCHANGED <<services, toAllocate, together, edited>>

FindsFree(s) ==
    /\ posting[s] = "find" /\ toAllocate[s] \in Address \ mp
    /\ posting' = [posting EXCEPT ![s] = "mark"]
    /\ nextIP' = IF nextIP = Outside THEN nextIP ELSE nextIP + 1
    /\ UNCHANGED <<serving, services, toAllocate, mp, together, edited, serviceIncidents>>

\* The loop counts nextIP up, and looks at the same address for ever: nextIP
\* goes through all numbers of 32 bits.
Spins(s) ==
    /\ posting[s] = "find" /\ toAllocate[s] \in mp
    /\ nextIP' \in 0..Outside
    /\ UNCHANGED <<serving, services, posting, toAllocate, mp, together, edited,
                   serviceIncidents>>

\* log.Fatal.
FindsOutside(s) ==
    /\ posting[s] = "find" /\ toAllocate[s] = Outside
    /\ ServerEnds
    /\ UNCHANGED serviceIncidents

Mark(s) ==
    /\ posting[s] = "mark"
    /\ posting' = [posting EXCEPT ![s] = "put"]
    /\ mp' = mp \cup {toAllocate[s]}
    /\ UNCHANGED <<serving, services, toAllocate, nextIP, together, edited, serviceIncidents>>

\* The runtime may see two goroutines use the map at once.
MapRace(s, t) ==
    /\ s # t /\ Allocating(s) /\ Allocating(t)
    /\ ServerEnds
    /\ UNCHANGED serviceIncidents

\* PutObj; when it fails the address stays taken.
StoreService(s) ==
    /\ posting[s] = "put"
    /\ posting' = [posting EXCEPT ![s] = "done"]
    /\ \/ services' = [services EXCEPT ![s] = toAllocate[s]] /\ UNCHANGED serviceIncidents
       \/ UNCHANGED services /\ ServiceIncident
    /\ UNCHANGED <<serving, toAllocate, mp, nextIP, together, edited>>

\* PutService takes any address and tells the allocator nothing.
PutService(s) ==
    /\ serving /\ services[s] # NoAddress /\ ServiceIncident
    /\ \E ip \in 0..Outside \ {services[s]} :
          services' = [services EXCEPT ![s] = ip]
    /\ edited' = edited \cup {s}
    /\ UNCHANGED <<serving, posting, toAllocate, mp, nextIP, together>>

\* DelService: DeAllocateClusterIP is never called.
DelService(s) ==
    /\ serving /\ services[s] # NoAddress
    /\ services' = [services EXCEPT ![s] = NoAddress]
    /\ UNCHANGED <<serving, posting, toAllocate, mp, nextIP, together, edited, serviceIncidents>>

KillApiServer == serving /\ ServiceIncident /\ ServerEnds

\* Mutant of StartApiServer: the services in etcd are not read.
StartApiServerEmpty ==
    /\ ~serving
    /\ serving' = TRUE
    /\ UNCHANGED <<services, posting, toAllocate, mp, nextIP, together, edited, serviceIncidents>>

\* NewClusterIPAllocator, which refuses a service outside its range.
StartApiServer ==
    /\ ~serving /\ \A s \in Service : services[s] # Outside
    /\ serving' = TRUE
    /\ mp' = {services[s] : s \in Service} \ {NoAddress}
    /\ UNCHANGED <<services, posting, toAllocate, nextIP, together, edited, serviceIncidents>>

ClusterIPsInit ==
    /\ serving = FALSE
    /\ services = [s \in Service |-> NoAddress] /\ posting = [s \in Service |-> "none"]
    /\ toAllocate = [s \in Service |-> 0]
    /\ mp = {} /\ nextIP = 0
    /\ together = {} /\ edited = {} /\ serviceIncidents = 0

ClusterIPsNext ==
    \/ KillApiServer \/ StartApiServer
    \/ \E s \in Service :
          \/ PostService(s) \/ FindsFree(s) \/ Spins(s) \/ FindsOutside(s) \/ Mark(s)
          \/ StoreService(s) \/ PutService(s) \/ DelService(s)
          \/ \E t \in Service : MapRace(s, t)

ClusterIPsSpec == ClusterIPsInit /\ [][ClusterIPsNext]_clusterIPsVars

\* Two services have the same address only if their allocations overlapped or a
\* PUT gave one of them its address: neither a restart of the API server nor a
\* counter that ran away or went round hands out an address again.
AddressesDiffer ==
    \A s, t \in Service :
        s # t /\ services[s] = services[t] /\ services[s] # NoAddress
        => {s, t} \in together \/ s \in edited \/ t \in edited
=============================================================================
