------------------------------ MODULE CubeProxy ------------------------------
(***************************************************************************)
(* CubeProxy of one node: three informers (services, pods, DNS) that hold  *)
(* their mutex while they send on an unbuffered channel, three loops that  *)
(* share the proxy's lock, the iptables chains of one service and the      *)
(* nginx container of one DNS object.                                      *)
(*                                                                         *)
(* A service is what its rules are made of: the destinations (cluster IP,  *)
(* protocol, port) it is reached at, one per port and in this order, and   *)
(* the pods its selector matches.  A pod may lose its address and get it   *)
(* back, or lose the labels that selectors match.  Ports are given by      *)
(* number; iptables obeys, except that it deletes no chain another one     *)
(* jumps to.  Proxies of other nodes are not modelled.                     *)
(***************************************************************************)
EXTENDS Naturals, Sequences, FiniteSets

CONSTANTS
    Pod, Dest,
    Config,       \* the services users ask for
    NoService, NoEvent, NoChain,
    MaxChanges,   \* budget: what users and cubelets change, and incidents
    MaxIncidents  \* budget: lost watches, failed requests, kills of the process

Selection == [dests : Seq(Dest), sel : SUBSET Pod]

ASSUME ConfigAssumption ==
    /\ Config \subseteq Selection
    /\ \A c \in Config : /\ c.dests # <<>> /\ c.sel # {}
                         /\ \A i, j \in DOMAIN c.dests : c.dests[i] = c.dests[j] => i = j

ASSUME BoundAssumption == {MaxChanges, MaxIncidents} \subseteq Nat

Loop == {"service", "pod", "dns"}
Rule == [dest : Dest, to : SUBSET Pod]

\* "new": no Status yet; "pending": a Status without an address; "lost": without the
\* address it had; "relabelled": it runs, with labels that no selector matches.
PodState == {"new", "pending", "running", "lost", "relabelled", "failed", "gone"}
DnsState == {"none", "first", "second"}

\* What a DELETE event holds of a service: its UID.
Bare == [dests |-> <<>>, sel |-> {}]

ServiceEvent == [type : {"create", "update", "remove"}, obj : Config \cup {Bare}]
PodEvent == [type : {"create", "update", "relabel", "remove"}, obj : Pod]
DnsEvent == [type : {"create", "update", "remove"}, obj : DnsState]
Event == ServiceEvent \cup PodEvent \cup DnsEvent

ASSUME NoValueAssumption ==
    NoService \notin Selection /\ NoEvent \notin Event /\ NoChain \notin Seq(Rule)

VARIABLES
    svc, pods, dns,  \* etcd
    born,            \* which of "service" and "dns" a user has created
    stream,          \* per informer: what its watch has sent and it has not read
    alive,           \* the process runs
    inf,             \* per informer: "list", "connect" or "watch"
    svcCache, podCache, dnsCache,
    out,             \* the event an informer sends, with its mutex held
    hand,            \* the event a loop has received
    lock,            \* the loop that has cp.lock, "free", or "lost" by a return
    step, copy,      \* what the lock's holder does next, and its service
    chain,           \* ServiceChainMap and the rules it stands for, or NoChain
    left,            \* per destination: where rules of an earlier process lead
    dnsMap,          \* DNSMap has an entry of the DNS
    nginx,           \* the container of its host's name: "none", "own" (DNSMap's) or "stray"
    dnsFailed,       \* history: docker failed to remove or to start that container
    changes, incidents,
    untold           \* history: informers that took or missed something silently, or in vain

etcd == <<svc, pods, dns, born>>
caches == <<svcCache, podCache, dnsCache>>
holder == <<lock, step, copy>>
kernel == <<chain, left, dnsMap, nginx, dnsFailed>>
budgets == <<changes, incidents>>
vars == <<etcd, stream, alive, inf, caches, out, hand, holder, kernel, budgets, untold>>

TypeOK ==
    /\ svc \in Config \cup {NoService} /\ pods \in [Pod -> PodState] /\ dns \in DnsState
    /\ born \subseteq {"service", "dns"}
    /\ stream["service"] \in Seq(Config \cup {NoService})
    /\ stream["pod"] \in Seq([pod : Pod, state : PodState])
    /\ stream["dns"] \in Seq(DnsState)
    /\ alive \in BOOLEAN
    /\ inf \in [Loop -> {"list", "connect", "watch"}]
    /\ svcCache \in Config \cup {NoService}
    /\ podCache \in [Pod -> {"none", "pending", "running", "relabelled", "failed"}]
    /\ dnsCache \in DnsState
    /\ out["service"] \in ServiceEvent \cup {NoEvent}
    /\ out["pod"] \in PodEvent \cup {NoEvent}
    /\ out["dns"] \in DnsEvent \cup {NoEvent}
    /\ hand["service"] \in ServiceEvent \cup {NoEvent}
    /\ hand["pod"] \in PodEvent \cup {NoEvent}
    /\ hand["dns"] \in DnsEvent \cup {NoEvent}
    /\ lock \in Loop \cup {"free", "lost"}
    /\ step \in {"none", "list", "select", "lookup", "write"}
    /\ copy \in Config \cup {NoService}
    /\ chain \in Seq(Rule) \cup {NoChain}
    /\ left \in [Dest -> SUBSET Pod]
    /\ dnsMap \in BOOLEAN /\ nginx \in {"none", "own", "stray"} /\ dnsFailed \in BOOLEAN
    /\ changes \in 0..MaxChanges /\ incidents \in 0..MaxIncidents
    /\ untold \subseteq Loop

InBudget == changes + incidents < MaxChanges
Incident == InBudget /\ incidents < MaxIncidents /\ incidents' = incidents + 1 /\ UNCHANGED changes
Change == InBudget /\ changes' = changes + 1 /\ UNCHANGED incidents

\* The API server writes and tells the informer l, if it watches.
Send(l, m) ==
    stream' = IF inf[l] = "watch" THEN [stream EXCEPT ![l] = Append(@, m)] ELSE stream

Tell(l, m) ==
    /\ Send(l, m)
    /\ untold' = IF inf[l] = "watch" THEN untold ELSE untold \cup {l}

-----------------------------------------------------------------------------
(* Informers.                                                              *)

\* What is listed goes to the cache, and nobody is told.
ListServices ==
    /\ alive /\ inf["service"] = "list"
    /\ inf' = [inf EXCEPT !["service"] = "connect"]
    /\ svcCache' = IF svc = NoService THEN svcCache ELSE svc
    /\ untold' = IF svcCache' = svcCache THEN untold ELSE untold \cup {"service"}
    /\ UNCHANGED <<etcd, stream, alive, podCache, dnsCache, out, hand, holder, kernel, budgets>>

ListedPods == [p \in Pod |-> CASE pods[p] \in {"new", "gone"} -> podCache[p]
                                [] pods[p] = "lost" -> "pending"
                                [] OTHER -> pods[p]]

ListPods ==
    /\ alive /\ inf["pod"] = "list"
    /\ inf' = [inf EXCEPT !["pod"] = "connect"]
    /\ podCache' = ListedPods
    /\ untold' = IF podCache' = podCache THEN untold ELSE untold \cup {"pod"}
    /\ UNCHANGED <<etcd, stream, alive, svcCache, dnsCache, out, hand, holder, kernel, budgets>>

ListDns ==
    /\ alive /\ inf["dns"] = "list"
    /\ inf' = [inf EXCEPT !["dns"] = "connect"]
    /\ dnsCache' = IF dns = "none" THEN dnsCache ELSE dns
    /\ untold' = IF dnsCache' = dnsCache THEN untold ELSE untold \cup {"dns"}
    /\ UNCHANGED <<etcd, stream, alive, svcCache, podCache, out, hand, holder, kernel, budgets>>

Connect(l) ==
    /\ alive /\ inf[l] = "connect"
    /\ inf' = [inf EXCEPT ![l] = "watch"]
    /\ UNCHANGED <<etcd, stream, alive, caches, out, hand, holder, kernel, budgets, untold>>

\* The next event of a watch, read by an informer that is not sending.
Read(l) ==
    /\ alive /\ inf[l] = "watch" /\ out[l] = NoEvent /\ stream[l] # <<>>
    /\ stream' = [stream EXCEPT ![l] = Tail(@)]
    /\ UNCHANGED <<etcd, alive, inf, hand, holder, kernel, budgets, untold>>

News(new, old, none, removed) ==
    CASE new = none /\ old # none -> [type |-> "remove", obj |-> removed]
      [] new # none /\ old = none -> [type |-> "create", obj |-> new]
      [] new # none /\ old # none /\ new # old -> [type |-> "update", obj |-> new]
      [] OTHER -> NoEvent

\* Mutant: every PUT of a known service is an update.
InformServiceAlways ==
    /\ Read("service")
    /\ svcCache' = Head(stream["service"])
    /\ out' = [out EXCEPT !["service"] =
                 IF svcCache' = NoService THEN News(NoService, svcCache, NoService, Bare)
                 ELSE [type |-> IF svcCache = NoService THEN "create" ELSE "update",
                       obj |-> svcCache']]
    /\ UNCHANGED <<podCache, dnsCache>>

DestsOf(c) == {c.dests[i] : i \in DOMAIN c.dests}

\* ComputeServiceCriticalChange is false of the two: it looks for each port of the old
\* one among as many of the new one, in any order.
Alike(new, old) ==
    \/ new = old
    \/ NoService \notin {new, old} /\ new.sel = old.sel /\ DestsOf(new) = DestsOf(old)

InformService ==
    /\ Read("service")
    /\ svcCache' = Head(stream["service"])
    /\ out' = [out EXCEPT !["service"] = IF Alike(svcCache', svcCache) THEN NoEvent
                                        ELSE News(svcCache', svcCache, NoService, Bare)]
    /\ UNCHANGED <<podCache, dnsCache>>

\* Mutant: only a first address is news, not whether the pod runs.
InformPodAddress ==
    /\ Read("pod")
    /\ LET p == Head(stream["pod"]).pod
           state == Head(stream["pod"]).state
           old == podCache[p]
       IN  /\ podCache' = [podCache EXCEPT ![p] = IF state \in {"new", "pending", "lost"} THEN old
                                                  ELSE IF state = "gone" THEN "none" ELSE state]
           /\ out' = [out EXCEPT !["pod"] =
                        IF old \in {"none", "pending"} /\ state \in {"running", "failed"}
                        THEN [type |-> "create", obj |-> p] ELSE NoEvent]
    /\ UNCHANGED <<svcCache, dnsCache>>

\* Mutant: a deleted pod stays in the cache.
InformPodKeeps ==
    /\ Read("pod")
    /\ podCache' = [podCache EXCEPT ![Head(stream["pod"]).pod] = Head(stream["pod"]).state]
    /\ out' = [out EXCEPT !["pod"] = [type |-> "update", obj |-> Head(stream["pod"]).pod]]
    /\ UNCHANGED <<svcCache, dnsCache>>

\* ComputePodNetworkChange; a pod without an address is ignored, even if it had one.
InformPod ==
    /\ Read("pod")
    /\ LET p == Head(stream["pod"]).pod
           state == Head(stream["pod"]).state
           old == podCache[p]
           new == CASE state = "gone" -> "none"
                    [] state \in {"new", "pending", "lost"} -> old
                    [] OTHER -> state
           type == IF new = "relabelled" THEN "relabel" ELSE News(new, old, "none", p).type
       IN  /\ podCache' = [podCache EXCEPT ![p] = new]
           /\ out' = [out EXCEPT !["pod"] =
                        IF new = old THEN NoEvent ELSE [type |-> type, obj |-> p]]
    /\ UNCHANGED <<svcCache, dnsCache>>

InformDns ==
    /\ Read("dns")
    /\ dnsCache' = Head(stream["dns"])
    /\ out' = [out EXCEPT !["dns"] = News(dnsCache', dnsCache, "none", "none")]
    /\ UNCHANGED <<svcCache, podCache>>

Lose(l) ==
    /\ alive /\ inf[l] = "watch" /\ out[l] = NoEvent
    /\ Incident
    /\ inf' = [inf EXCEPT ![l] = "list"]
    /\ stream' = [stream EXCEPT ![l] = <<>>]
    /\ untold' = IF stream[l] = <<>> THEN untold ELSE untold \cup {l}
    /\ UNCHANGED <<etcd, alive, caches, out, hand, holder, kernel>>

-----------------------------------------------------------------------------
(* The process and the lock.                                               *)

\* The channels have no buffer: the informer sends when the loop receives.
Receive(l) ==
    /\ out[l] # NoEvent /\ hand[l] = NoEvent
    /\ hand' = [hand EXCEPT ![l] = out[l]]
    /\ out' = [out EXCEPT ![l] = NoEvent]
    /\ UNCHANGED <<etcd, stream, alive, inf, caches, holder, kernel, budgets, untold>>

\* The kernel keeps these of the process's rules.  The newest rule of a
\* destination that leads anywhere takes its packets.
Leave(rules) ==
    left' = [d \in Dest |->
               IF \E r \in rules : r.dest = d /\ r.to # {}
               THEN (CHOOSE r \in rules : r.dest = d /\ r.to # {}).to ELSE left[d]]

Rules == IF chain = NoChain THEN {} ELSE {chain[i] : i \in DOMAIN chain}

\* The process ends: by log.Fatal, by a panic, or because somebody stops it.
\* Its rules and containers stay.  A PUT still under way is taken as lost.
Down(rules) ==
    /\ alive' = FALSE
    /\ Leave(rules) /\ chain' = NoChain
    /\ dnsMap' = FALSE
    /\ inf' = [l \in Loop |-> "list"]
    /\ stream' = [l \in Loop |-> <<>>]
    /\ svcCache' = NoService /\ dnsCache' = "none"
    /\ podCache' = [p \in Pod |-> "none"]
    /\ out' = [l \in Loop |-> NoEvent] /\ hand' = [l \in Loop |-> NoEvent]
    /\ lock' = "free" /\ step' = "none" /\ copy' = NoService
    /\ untold' = Loop
    /\ nginx' = IF nginx = "none" THEN "none" ELSE "stray"
    /\ UNCHANGED <<etcd, dnsFailed>>

\* The holder's event is done.
Unlock ==
    /\ hand' = [hand EXCEPT ![lock] = NoEvent]
    /\ lock' = "free" /\ step' = "none" /\ copy' = NoService

\* The holder l returns from its loop, the lock still locked.
Return(l) ==
    /\ lock' = "lost" /\ step' = "none" /\ copy' = NoService
    /\ UNCHANGED hand

Goto(l, s, c) ==
    /\ lock' = l /\ step' = s /\ copy' = c
    /\ UNCHANGED hand

-----------------------------------------------------------------------------
(* DeleteService, of the chains made for the ports of an earlier copy, by  *)
(* the ports of c.                                                         *)

Differs(c, i) == ~(i \in DOMAIN chain /\ chain[i].dest = c.dests[i])

\* ServiceChainUid has no such index, or the jump is not found and the chain
\* it jumps to is flushed but cannot be deleted.
DeletePanics(c) == chain # NoChain /\ \E i \in DOMAIN c.dests : Differs(c, i)

\* A pod's chain is flushed but cannot be deleted: the service's jumps to it.
DeleteFails(c) == chain # NoChain /\ ~DeletePanics(c) /\ Len(c.dests) < Len(chain)

Deletes(c) == ~DeletePanics(c) /\ ~DeleteFails(c)

\* The rules that are left by a panic at the first difference.
LeftByPanic(c) ==
    LET k == CHOOSE i \in DOMAIN c.dests :
                Differs(c, i) /\ \A j \in 1..(i - 1) : ~Differs(c, j)
    IN  {IF i = k THEN [chain[i] EXCEPT !.to = {}] ELSE chain[i] :
            i \in {j \in DOMAIN chain : j >= k}}

\* The rules that are left by a failure, the chain of p being flushed.
LeftByFailure(c, p) ==
    LET rest == SubSeq(chain, Len(c.dests) + 1, Len(chain))
    IN  [rest EXCEPT ![1].to = @ \ {p}]

-----------------------------------------------------------------------------
(* Loops.                                                                  *)

\* syncService, up to its first request.  AddService deletes what there is.
SyncService ==
    /\ hand["service"] # NoEvent /\ lock = "free"
    /\ LET c == hand["service"].obj
           removes == hand["service"].type = "remove"
       IN  \/ /\ DeletePanics(c)
              /\ Down(LeftByPanic(c))
           \/ /\ DeleteFails(c)
              /\ \E p \in chain[Len(c.dests) + 1].to : chain' = LeftByFailure(c, p)
              /\ Return("service")
              /\ UNCHANGED <<etcd, stream, alive, inf, caches, out, left, dnsMap, nginx, dnsFailed,
                             untold>>
           \/ /\ Deletes(c)
              /\ chain' = NoChain
              /\ IF removes
                 THEN hand' = [hand EXCEPT !["service"] = NoEvent] /\ UNCHANGED holder
                 ELSE Goto("service", "select", c)
              /\ UNCHANGED <<etcd, stream, alive, inf, caches, out, left, dnsMap, nginx, dnsFailed,
                             untold>>
    /\ UNCHANGED budgets

SyncPod ==
    /\ hand["pod"] # NoEvent /\ lock = "free"
    /\ Goto("pod", "list", NoService)
    /\ UNCHANGED <<etcd, stream, alive, inf, caches, out, kernel, budgets, untold>>

\* Mutant: it returns early, without unlocking, for a pod no service selects.
ModifyPodReturns ==
    /\ lock = "pod" /\ step = "list" /\ out["service"] = NoEvent
    /\ IF svcCache # NoService /\ hand["pod"].obj \in svcCache.sel /\ Deletes(svcCache)
       THEN chain' = NoChain /\ Goto("pod", "select", svcCache)
       ELSE step' = "none" /\ UNCHANGED <<hand, lock, copy, chain>>
    /\ UNCHANGED <<etcd, stream, alive, inf, caches, out, left, dnsMap, nginx, dnsFailed,
                   untold, budgets>>

\* ModifyPod: ListServices waits for the informer's mutex.  A removed pod has
\* no labels in its event, and one with other labels not those that count: neither
\* matches a selector, and the rules that lead to it stay.
ModifyPod ==
    /\ lock = "pod" /\ step = "list" /\ out["service"] = NoEvent
    /\ LET matches == /\ svcCache # NoService
                      /\ hand["pod"].type \notin {"remove", "relabel"}
                      /\ hand["pod"].obj \in svcCache.sel
       IN  \/ /\ ~matches
              /\ Unlock
              /\ UNCHANGED <<etcd, stream, alive, inf, caches, out, kernel, untold>>
           \/ /\ matches /\ Deletes(svcCache)
              /\ chain' = NoChain
              /\ Goto("pod", "select", svcCache)
              /\ UNCHANGED <<etcd, stream, alive, inf, caches, out, left, dnsMap, nginx, dnsFailed,
                             untold>>
           \/ /\ matches /\ DeletePanics(svcCache)
              /\ Down(LeftByPanic(svcCache))
           \/ /\ matches /\ DeleteFails(svcCache)
              /\ \E p \in chain[Len(svcCache.dests) + 1].to :
                    LET rest == LeftByFailure(svcCache, p)
                    IN  Down({rest[i] : i \in DOMAIN rest})
    /\ UNCHANGED budgets

Running(c) == {p \in c.sel : pods[p] = "running"}

\* No other service is on its way to a loop.
NothingOlder ==
    svcCache = svc /\ \A e \in {out["service"], hand["service"]} \ {NoEvent} : e.obj = svc

\* AddService: SelectPods, and the chains for the pods that run.
SelectPods ==
    /\ step = "select"
    /\ IF Running(copy) = {}
       THEN Unlock /\ UNCHANGED chain
       ELSE /\ chain' = [i \in DOMAIN copy.dests |->
                            [dest |-> copy.dests[i], to |-> Running(copy)]]
            /\ step' = "lookup" /\ UNCHANGED <<hand, lock, copy>>
    /\ untold' = untold \ {l \in Loop : \/ l = "service" /\ copy = svc /\ NothingOlder
                                        \/ l = "pod" /\ podCache = ListedPods}
    /\ UNCHANGED <<etcd, stream, alive, inf, caches, out, left, dnsMap, nginx, dnsFailed,
                   budgets>>

SelectFails ==
    /\ step = "select"
    /\ Incident
    /\ IF lock = "service"
       THEN /\ Return("service")
            /\ UNCHANGED <<etcd, stream, alive, inf, caches, out, kernel, untold>>
       ELSE Down(Rules)

\* UpdateService: the API server looks the service up; if the answer is an
\* error, not found or another, the process ends.
LookUp ==
    /\ step = "lookup" /\ svc # NoService
    /\ step' = "write"
    /\ UNCHANGED <<etcd, stream, alive, inf, caches, out, hand, lock, copy, kernel, budgets,
                   untold>>

NotUpdated ==
    /\ step = "lookup"
    /\ \/ svc = NoService /\ UNCHANGED budgets
       \/ Incident
    /\ Down(Rules)

\* It writes the holder's copy, whatever has become of the service.
WriteBack ==
    /\ step = "write"
    /\ svc' = copy
    /\ Tell("service", copy)
    /\ Unlock
    /\ UNCHANGED <<pods, dns, born, alive, inf, caches, out, kernel, budgets>>

\* Mutant: a deleted DNS object's container goes on.
SyncDnsKeeps ==
    /\ hand["dns"] # NoEvent /\ lock = "free"
    /\ IF hand["dns"].type # "remove"
       THEN Goto("dns", "list", NoService)
       ELSE hand' = [hand EXCEPT !["dns"] = NoEvent] /\ UNCHANGED holder
    /\ UNCHANGED <<etcd, stream, alive, inf, caches, out, kernel, budgets, untold>>

\* syncDNS: DeleteDNS, whose entry in DNSMap stays, and with it the container when
\* docker fails to stop or remove it, which is only logged; ModifyDNS ignores its error.
SyncDns ==
    /\ hand["dns"] # NoEvent /\ lock = "free"
    /\ LET type == hand["dns"].type
           removes == dnsMap /\ type # "create" /\ nginx = "own"
       IN  /\ \/ /\ nginx' = IF removes THEN "none" ELSE nginx
                 /\ dnsFailed' = (dnsFailed /\ ~removes) /\ UNCHANGED budgets
              \/ removes /\ Incident /\ dnsFailed' = TRUE /\ UNCHANGED nginx
           /\ IF type # "remove" THEN Goto("dns", "list", NoService)
              ELSE IF dnsMap THEN hand' = [hand EXCEPT !["dns"] = NoEvent] /\ UNCHANGED holder
              ELSE Return("dns")
    /\ UNCHANGED <<etcd, stream, alive, inf, caches, out, chain, left, dnsMap, untold>>

\* AddDNS does nothing for a service it does not know, or when docker fails, as
\* it does when a container has that name; one that was created and could not be
\* started keeps it, and DNSMap does not lead to it.
AddDns ==
    /\ lock = "dns" /\ step = "list" /\ out["service"] = NoEvent
    /\ \/ /\ svcCache # NoService /\ nginx = "none"
          /\ nginx' = "own" /\ dnsMap' = TRUE /\ UNCHANGED <<dnsFailed, budgets>>
       \/ /\ svcCache = NoService \/ nginx # "none"
          /\ UNCHANGED <<nginx, dnsMap, dnsFailed, budgets>>
       \/ /\ svcCache # NoService /\ nginx = "none" /\ Incident
          /\ \/ UNCHANGED <<nginx, dnsFailed>>
             \/ nginx' = "stray" /\ dnsFailed' = TRUE
          /\ UNCHANGED dnsMap
    /\ Unlock
    /\ UNCHANGED <<etcd, stream, alive, inf, caches, out, chain, left, untold>>

\* InitProxyRuntime keeps the SERVICE chain it finds, AddAllExistService makes
\* no rules, for no pod is listed yet, and the informers start with a list.
Start ==
    /\ ~alive
    /\ alive' = TRUE
    /\ UNCHANGED <<etcd, stream, inf, caches, out, hand, holder, kernel, budgets, untold>>

Kill == alive /\ Incident /\ Down(Rules)

-----------------------------------------------------------------------------
(* Users and cubelets.                                                     *)

ChangeService ==
    /\ Change
    /\ \/ svc = NoService /\ "service" \notin born /\ svc' \in Config
       \/ svc # NoService /\ svc' \in (Config \cup {NoService}) \ {svc}
    /\ born' = born \cup {"service"}
    /\ Tell("service", svc')
    /\ UNCHANGED <<pods, dns, alive, inf, caches, out, hand, holder, kernel>>

ChangeDns ==
    /\ Change
    /\ \/ dns = "none" /\ "dns" \notin born /\ dns' = "first"
       \/ dns # "none" /\ dns' \in DnsState \ {dns}
    /\ born' = born \cup {"dns"}
    /\ Tell("dns", dns')
    /\ UNCHANGED <<svc, pods, alive, inf, caches, out, hand, holder, kernel>>

NextState(s) == CASE s = "new"     -> {"pending", "running", "gone"}
                  [] s = "pending" -> {"running", "gone"}
                  [] s = "running" -> {"failed", "lost", "relabelled", "gone"}
                  [] s = "failed"  -> {"running", "lost", "gone"}
                  [] s = "lost"    -> {"running", "gone"}
                  [] s = "relabelled" -> {"gone"}
                  [] s = "gone"    -> {}

\* The rules stay as they are: the informer ignores the address that is lost, for which
\* there is a FIXME, and the same address when it is back; and with other labels the
\* pod is of no service the loop knows.
InVain(old, new) == new \in {"lost", "relabelled"} \/ <<old, new>> = <<"lost", "running">>

ChangePod(p) ==
    /\ Change
    /\ \E s \in NextState(pods[p]) :
          /\ pods' = [pods EXCEPT ![p] = s]
          /\ Send("pod", [pod |-> p, state |-> s])
          /\ untold' = IF inf["pod"] = "watch" /\ ~InVain(pods[p], s)
                       THEN untold ELSE untold \cup {"pod"}
    /\ UNCHANGED <<svc, dns, born, alive, inf, caches, out, hand, holder, kernel>>

-----------------------------------------------------------------------------
\* The proxy watches an empty cluster; a restart finds one that has run without it.
Init ==
    /\ svc = NoService /\ dns = "none" /\ born = {}
    /\ pods = [p \in Pod |-> "new"]
    /\ stream = [l \in Loop |-> <<>>]
    /\ alive = TRUE
    /\ inf = [l \in Loop |-> "watch"]
    /\ svcCache = NoService /\ dnsCache = "none" /\ podCache = [p \in Pod |-> "none"]
    /\ out = [l \in Loop |-> NoEvent] /\ hand = [l \in Loop |-> NoEvent]
    /\ lock = "free" /\ step = "none" /\ copy = NoService
    /\ chain = NoChain /\ left = [d \in Dest |-> {}]
    /\ dnsMap = FALSE /\ nginx = "none" /\ dnsFailed = FALSE
    /\ changes = 0 /\ incidents = 0
    /\ untold = {}

Lists == ListServices \/ ListPods \/ ListDns
Informs == InformService \/ InformPod \/ InformDns
HolderSteps == ModifyPod \/ SelectPods \/ LookUp \/ NotUpdated \/ WriteBack \/ AddDns
Loops == SyncService \/ SyncPod \/ SyncDns

Works ==
    \/ Lists \/ Informs \/ HolderSteps \/ Loops
    \/ \E l \in Loop : Connect(l) \/ Receive(l)

Next ==
    \/ Works \/ Start \/ Kill \/ SelectFails
    \/ \E l \in Loop : Lose(l)
    \/ ChangeService \/ ChangeDns
    \/ \E p \in Pod : ChangePod(p)

Spec == Init /\ [][Next]_vars

\* While some goroutine of the proxy can go on, one of them does.
FairSpec == Spec /\ WF_vars(Works)

-----------------------------------------------------------------------------
Settled ==
    /\ alive /\ lock = "free"
    /\ \A l \in Loop : /\ inf[l] = "watch" /\ stream[l] = <<>>
                       /\ out[l] = NoEvent /\ hand[l] = NoEvent

\* syncService waits for the lock, the service informer for syncService, and the
\* lock's holder for the informer's mutex.
Circle ==
    /\ lock \in {"pod", "dns"} /\ step = "list"
    /\ out["service"] # NoEvent /\ hand["service"] # NoEvent

\* When all is settled, and the informers were told all that happened since the
\* rules were last made and not in vain, the service has exactly its own rules, though
\* its ports may be in an older order, and they lead to exactly the pods that run,
\* except that a pod that was deleted may stay.
RulesFollow ==
    Settled /\ svc # NoService /\ untold \cap {"service", "pod"} = {} =>
        LET ends(r) == {p \in r.to : pods[p] # "gone"}
        IN  /\ \A r \in Rules : ends(r) = Running(svc)
            /\ chain # NoChain => {r.dest : r \in Rules} = DestsOf(svc)
            /\ chain = NoChain => Running(svc) = {}

\* The lock's holder waits for nobody but the service informer, and only in the
\* circle does that one wait for a loop that waits for the lock.
LockHolderMoves == lock \in Loop /\ ~Circle =>
    \/ ENABLED HolderSteps
    \/ hand["service"] = NoEvent /\ out["service"] # NoEvent

\* A DNS object that was deleted before the eyes of the proxy has no container, and
\* DNSMap leads to the one of an object that is there, or else deleting it stops the
\* proxy; but for a container that docker failed to remove or to start.
ContainersHaveDns ==
    Settled /\ "dns" \notin untold /\ ~dnsFailed =>
        nginx # "stray" /\ (nginx = "own" => dns # "none")

\* The proxy is down, or stopped by a lock that nobody will unlock.
Stopped == ~alive \/ lock = "lost" \/ Circle

\* The proxy writes back a copy older than what etcd has.
Overwrites == step = "write" /\ svc # copy

\* All that happens is handled in the end, unless the proxy stops, or undoes a
\* user's change of the service, which two versions of it may do to each other
\* for ever: each PUT is an event that leads to a PUT of the version before.
Settles == []<>Stopped \/ []<>Overwrites \/ <>[]Settled
=============================================================================
