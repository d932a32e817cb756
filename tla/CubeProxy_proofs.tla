-------------------------- MODULE CubeProxy_proofs --------------------------
(***************************************************************************)
(* The proxy's types, its DNS containers, the rules of its service and the *)
(* lock's holder, for every set of pods, destinations and services and all *)
(* bounds.                                                                 *)
(***************************************************************************)
EXTENDS CubeProxy, SequenceTheorems, TLAPS

-----------------------------------------------------------------------------
(* Types                                                                   *)

\* The streams and the events are functions of the informers and the loops, and
\* only the event of a removed service has no selector.
PodMessage == [pod : Pod, state : PodState]
Message == Config \cup {NoService} \cup PodMessage \cup DnsState

StreamsTyped ==
    /\ stream["service"] \in Seq(Config \cup {NoService})
    /\ stream["pod"] \in Seq(PodMessage)
    /\ stream["dns"] \in Seq(DnsState)
    /\ stream \in [Loop -> Seq(Message)]

EventFor(l, e) ==
    \/ e = NoEvent
    \/ l = "service" /\ e \in ServiceEvent /\ (e.type = "remove" <=> e.obj = Bare)
    \/ l = "pod" /\ e \in PodEvent
    \/ l = "dns" /\ e \in DnsEvent

EventsTyped(h) ==
    h \in [Loop -> Event \cup {NoEvent}] /\ \A l \in Loop : EventFor(l, h[l])

\* The lock's holder has an event in hand, and a copy of a service while it makes
\* that one's rules.
Holder ==
    /\ lock \in {"free", "lost"} => step = "none"
    /\ lock = "service" => /\ hand["service"] # NoEvent /\ hand["service"].type # "remove"
                           /\ step \in {"select", "lookup", "write"}
                           /\ copy = hand["service"].obj
    /\ lock = "pod" => hand["pod"] # NoEvent /\ step \in {"list", "select", "lookup", "write"}
    /\ lock = "dns" => hand["dns"] # NoEvent /\ hand["dns"].type # "remove" /\ step = "list"
    /\ step \in {"select", "lookup", "write"} => copy \in Config

HolderTyped ==
    /\ lock \in Loop \cup {"free", "lost"}
    /\ step \in {"none", "list", "select", "lookup", "write"}
    /\ copy \in Config \cup {NoService}
    /\ Holder

EtcdTyped ==
    svc \in Config \cup {NoService} /\ pods \in [Pod -> PodState] /\ dns \in DnsState
    /\ born \subseteq {"service", "dns"}

\* What the informer may have of a pod.
Entry == {"none", "pending", "running", "relabelled", "failed"}

CachesTyped ==
    /\ svcCache \in Config \cup {NoService}
    /\ podCache \in [Pod -> Entry]
    /\ dnsCache \in DnsState

KernelTyped ==
    /\ chain \in Seq(Rule) \cup {NoChain} /\ left \in [Dest -> SUBSET Pod]
    /\ dnsMap \in BOOLEAN /\ nginx \in {"none", "own", "stray"} /\ dnsFailed \in BOOLEAN

InfTyped == alive \in BOOLEAN /\ inf \in [Loop -> {"list", "connect", "watch"}]

BudgetsTyped == changes \in 0..MaxChanges /\ incidents \in 0..MaxIncidents

ProxyTyped ==
    /\ EtcdTyped /\ StreamsTyped /\ InfTyped /\ CachesTyped
    /\ EventsTyped(out) /\ EventsTyped(hand) /\ HolderTyped
    /\ KernelTyped /\ BudgetsTyped /\ untold \subseteq Loop

LEMMA BareIsNone == Bare \notin Config /\ NoService \notin Config
  BY ConfigAssumption, NoValueAssumption DEF Bare

\* Steps that a budget allows.
LEMMA BudgetTyped ==
    ASSUME BudgetsTyped, Change \/ Incident \/ UNCHANGED budgets
    PROVE  BudgetsTyped'
<1>1. MaxChanges \in Nat /\ MaxIncidents \in Nat
  BY BoundAssumption
<1>2. QED
  BY <1>1 DEF BudgetsTyped, Change, Incident, InBudget, budgets

LEMMA MessageTypes ==
    /\ Seq(Config \cup {NoService}) \subseteq Seq(Message)
    /\ Seq(PodMessage) \subseteq Seq(Message)
    /\ Seq(DnsState) \subseteq Seq(Message)
<1>1. \A S, T : S \subseteq T => Seq(S) \subseteq Seq(T)
  OBVIOUS
<1>2. QED
  BY <1>1 DEF Message

\* What the API server tells keeps the streams' types.
LEMMA SendTyped ==
    ASSUME StreamsTyped, NEW l \in Loop, NEW m, Send(l, m),
           \/ l = "service" /\ m \in Config \cup {NoService}
           \/ l = "pod" /\ m \in PodMessage
           \/ l = "dns" /\ m \in DnsState
    PROVE  StreamsTyped'
<1>1. m \in Message
  BY DEF Message
<1>2. Append(stream[l], m) \in Seq(Message)
  BY <1>1 DEF StreamsTyped
<1>3. stream' \in [Loop -> Seq(Message)]
  BY <1>2 DEF Send, StreamsTyped
<1>4. /\ l = "service" => Append(stream[l], m) \in Seq(Config \cup {NoService})
      /\ l = "pod" => Append(stream[l], m) \in Seq(PodMessage)
      /\ l = "dns" => Append(stream[l], m) \in Seq(DnsState)
  BY DEF StreamsTyped
<1>5. \A k \in Loop : stream'[k] = stream[k] \/ (k = l /\ stream'[k] = Append(stream[l], m))
  BY DEF Send, StreamsTyped
<1>6. /\ stream'["service"] \in Seq(Config \cup {NoService})
      /\ stream'["pod"] \in Seq(PodMessage)
      /\ stream'["dns"] \in Seq(DnsState)
  BY <1>4, <1>5 DEF StreamsTyped, Loop
<1>7. QED
  BY <1>3, <1>6 DEF StreamsTyped

LEMMA TellTyped ==
    ASSUME StreamsTyped, untold \subseteq Loop, NEW l \in Loop, NEW m, Tell(l, m),
           \/ l = "service" /\ m \in Config \cup {NoService}
           \/ l = "pod" /\ m \in PodMessage
           \/ l = "dns" /\ m \in DnsState
    PROVE  StreamsTyped' /\ untold' \subseteq Loop
  BY SendTyped DEF Tell

\* So does what an informer reads or loses of one.
LEMMA CutTyped ==
    ASSUME StreamsTyped, NEW l \in Loop,
           \/ stream[l] # <<>> /\ stream' = [stream EXCEPT ![l] = Tail(@)]
           \/ stream' = [stream EXCEPT ![l] = <<>>]
    PROVE  StreamsTyped'
<1>1. \/ stream[l] # <<>> /\ stream'[l] = Tail(stream[l])
      \/ stream'[l] = <<>>
  BY DEF StreamsTyped
<1>2. ASSUME NEW S, stream[l] \in Seq(S) PROVE stream'[l] \in Seq(S)
  <2>1. CASE stream[l] # <<>> /\ stream'[l] = Tail(stream[l])
    BY <1>2, <2>1
  <2>2. CASE stream'[l] = <<>>
    BY <2>2
  <2>3. QED
    BY <1>1, <2>1, <2>2
<1>3. \A k \in Loop : k # l => stream'[k] = stream[k]
  BY DEF StreamsTyped
<1>4. stream' \in [Loop -> Seq(Message)]
  BY <1>2, <1>3 DEF StreamsTyped
<1>5. QED
  BY <1>2, <1>3, <1>4 DEF StreamsTyped, Loop

\* An event of the right kind may take the place of another.
LEMMA EventTyped ==
    ASSUME NEW h, EventsTyped(h), NEW l \in Loop, NEW e, EventFor(l, e)
    PROVE  EventsTyped([h EXCEPT ![l] = e])
<1>1. e \in Event \cup {NoEvent}
  BY DEF EventFor, Event
<1>2. QED
  BY <1>1 DEF EventsTyped

\* What the types of the events say of each loop's.
LEMMA EventFields ==
    ASSUME NEW h, EventsTyped(h)
    PROVE  /\ h["service"] \in ServiceEvent \cup {NoEvent}
           /\ h["pod"] \in PodEvent \cup {NoEvent}
           /\ h["dns"] \in DnsEvent \cup {NoEvent}
           /\ h["service"] # NoEvent /\ h["service"].type # "remove" => h["service"].obj \in Config
           /\ h["pod"] # NoEvent => h["pod"].obj \in Pod
<1>1. /\ h["service"] \in ServiceEvent \cup {NoEvent}
      /\ h["pod"] \in PodEvent \cup {NoEvent}
      /\ h["dns"] \in DnsEvent \cup {NoEvent}
      /\ h["service"] # NoEvent /\ h["service"].type # "remove" => h["service"].obj # Bare
  BY DEF EventsTyped, EventFor, Loop
<1>2. QED
  BY <1>1 DEF ServiceEvent, PodEvent

LEMMA ProxyTypes == ProxyTyped => TypeOK
<1>1. ASSUME ProxyTyped PROVE TypeOK
  <2>1. /\ out["service"] \in ServiceEvent \cup {NoEvent}
        /\ out["pod"] \in PodEvent \cup {NoEvent} /\ out["dns"] \in DnsEvent \cup {NoEvent}
        /\ hand["service"] \in ServiceEvent \cup {NoEvent}
        /\ hand["pod"] \in PodEvent \cup {NoEvent} /\ hand["dns"] \in DnsEvent \cup {NoEvent}
    BY <1>1, EventFields DEF ProxyTyped
  <2>2. QED
    BY <1>1, <2>1 DEF TypeOK, ProxyTyped, EtcdTyped, StreamsTyped, InfTyped, CachesTyped,
                      HolderTyped, KernelTyped, BudgetsTyped, PodMessage, Entry
<1>2. QED
  BY <1>1

\* The rules of the process, and what is left of them.
LEMMA RulesTyped ==
    ASSUME KernelTyped
    PROVE  Rules \subseteq Rule
  BY NoValueAssumption DEF KernelTyped, Rules

LEMMA FlushedTyped ==
    ASSUME NEW r \in Rule, NEW to \in SUBSET Pod
    PROVE  [r EXCEPT !.to = to] \in Rule
  BY DEF Rule

LEMMA PanicTyped ==
    ASSUME KernelTyped, NEW c, chain # NoChain
    PROVE  LeftByPanic(c) \subseteq Rule
<1>1. chain \in Seq(Rule)
  BY DEF KernelTyped
<1>2. ASSUME NEW i \in DOMAIN chain
      PROVE  chain[i] \in Rule /\ [chain[i] EXCEPT !.to = {}] \in Rule
  <2>1. chain[i] \in Rule
    BY <1>1
  <2>2. QED
    BY <2>1, FlushedTyped
<1>3. QED
  BY <1>2 DEF LeftByPanic

LEMMA FailureTyped ==
    ASSUME KernelTyped, NEW c, c.dests \in Seq(Dest), NEW p \in Pod, DeleteFails(c)
    PROVE  /\ LeftByFailure(c, p) \in Seq(Rule)
           /\ {LeftByFailure(c, p)[i] : i \in DOMAIN LeftByFailure(c, p)} \subseteq Rule
<1>1. chain \in Seq(Rule) /\ c.dests \in Seq(Dest) /\ Len(c.dests) < Len(chain)
  BY DEF KernelTyped, DeleteFails
<1>2. PICK n \in Nat, m \in Nat : n = Len(c.dests) /\ m = Len(chain) /\ n < m
  BY <1>1
<1>3. PICK rest : rest = SubSeq(chain, n + 1, m)
  OBVIOUS
<1>4. \A i \in (n + 1)..m : chain[i] \in Rule
  BY <1>1, <1>2
<1>5. rest \in Seq(Rule) /\ Len(rest) = m - n
  <2>1. n + 1 \in Int /\ m \in Int /\ n + 1 <= m
    BY <1>2
  <2>2. /\ SubSeq(chain, n + 1, m) \in Seq(Rule)
        /\ Len(SubSeq(chain, n + 1, m)) = IF n + 1 <= m THEN m - (n + 1) + 1 ELSE 0
    BY <1>4, <2>1, SubSeqProperties
  <2>3. rest \in Seq(Rule) /\ Len(rest) = m - (n + 1) + 1
    BY <1>3, <2>1, <2>2
  <2>4. m - (n + 1) + 1 = m - n
    BY <1>2
  <2>5. QED
    BY <2>3, <2>4
<1>6. 1 \in DOMAIN rest /\ rest[1] \in Rule
  BY <1>2, <1>5
<1>7. PICK r : r = rest[1]
  OBVIOUS
<1>8. PICK x : x = [r EXCEPT !.to = r.to \ {p}]
  OBVIOUS
<1>9. r.to \ {p} \in SUBSET Pod
  BY <1>6, <1>7 DEF Rule
<1>10. x \in Rule
  BY <1>6, <1>7, <1>8, <1>9, FlushedTyped
<1>11. LeftByFailure(c, p) = [rest EXCEPT ![1] = x]
  BY <1>2, <1>3, <1>7, <1>8 DEF LeftByFailure
<1>12. [rest EXCEPT ![1] = x] \in Seq(Rule)
  BY <1>5, <1>6, <1>10
<1>13. LeftByFailure(c, p) \in Seq(Rule)
  BY <1>11, <1>12
<1>14. \A i \in DOMAIN LeftByFailure(c, p) : LeftByFailure(c, p)[i] \in Rule
  BY <1>13
<1>15. QED
  BY <1>13, <1>14

\* A rule DeleteService fails at leads to pods.
LEMMA FailureAt ==
    ASSUME KernelTyped, NEW c, c.dests \in Seq(Dest), DeleteFails(c)
    PROVE  chain[Len(c.dests) + 1].to \subseteq Pod
<1>1. chain \in Seq(Rule) /\ Len(c.dests) \in Nat /\ Len(c.dests) < Len(chain)
  BY DEF KernelTyped, DeleteFails
<1>2. PICK n \in Nat : n = Len(c.dests) /\ n < Len(chain)
  BY <1>1
<1>3. chain[n + 1] \in Rule
  BY <1>1, <1>2
<1>4. QED
  BY <1>2, <1>3 DEF Rule

LEMMA LeaveTyped ==
    ASSUME KernelTyped, NEW rules \in SUBSET Rule, Leave(rules)
    PROVE  left' \in [Dest -> SUBSET Pod]
<1>1. ASSUME NEW d \in Dest, \E r \in rules : r.dest = d /\ r.to # {}
      PROVE  (CHOOSE r \in rules : r.dest = d /\ r.to # {}).to \in SUBSET Pod
  <2>1. (CHOOSE r \in rules : r.dest = d /\ r.to # {}) \in Rule
    BY <1>1
  <2>2. QED
    BY <2>1 DEF Rule
<1>2. QED
  BY <1>1 DEF Leave, KernelTyped

\* A process that ends keeps the types.
LEMMA ProxyDownTyped ==
    ASSUME ProxyTyped, NEW rules \in SUBSET Rule, Down(rules), BudgetsTyped'
    PROVE  ProxyTyped'
<1> USE DEF ProxyTyped, Down
<1>1. KernelTyped'
  BY LeaveTyped DEF KernelTyped
<1>2. EventsTyped([l \in Loop |-> NoEvent])
  BY DEF EventsTyped, EventFor
<1>3. EventsTyped(out)' /\ EventsTyped(hand)'
  BY <1>2
<1>4. StreamsTyped'
  BY DEF StreamsTyped, Loop
<1>5. InfTyped' /\ CachesTyped'
  BY DEF InfTyped, CachesTyped, DnsState, Entry
<1>6. HolderTyped'
  BY DEF HolderTyped, Holder, Loop
<1>7. EtcdTyped' /\ untold' \subseteq Loop
  BY DEF EtcdTyped, etcd
<1>8. QED
  BY <1>1, <1>3, <1>4, <1>5, <1>6, <1>7

\* What a step leaves alone stays typed.
LEMMA SameTyped ==
    ASSUME ProxyTyped
    PROVE  /\ UNCHANGED etcd => EtcdTyped'
           /\ UNCHANGED stream => StreamsTyped'
           /\ UNCHANGED <<alive, inf>> => InfTyped'
           /\ UNCHANGED caches => CachesTyped'
           /\ UNCHANGED out => EventsTyped(out')
           /\ UNCHANGED hand => EventsTyped(hand')
           /\ UNCHANGED <<hand, holder>> => HolderTyped'
           /\ UNCHANGED kernel => KernelTyped'
           /\ UNCHANGED budgets => BudgetsTyped'
<1> USE DEF ProxyTyped
<1>1. UNCHANGED etcd => EtcdTyped'
  BY DEF EtcdTyped, etcd
<1>2. UNCHANGED stream => StreamsTyped'
  BY DEF StreamsTyped
<1>3. UNCHANGED <<alive, inf>> => InfTyped'
  BY DEF InfTyped
<1>4. UNCHANGED caches => CachesTyped'
  BY DEF CachesTyped, caches
<1>5. UNCHANGED out => EventsTyped(out')
  OBVIOUS
<1>6. UNCHANGED hand => EventsTyped(hand')
  OBVIOUS
<1>7. UNCHANGED <<hand, holder>> => HolderTyped'
  BY DEF HolderTyped, Holder, holder
<1>8. UNCHANGED kernel => KernelTyped'
  BY DEF KernelTyped, kernel
<1>9. UNCHANGED budgets => BudgetsTyped'
  BY DEF BudgetsTyped, budgets
<1>10. QED
  BY <1>1, <1>2, <1>3, <1>4, <1>5, <1>6, <1>7, <1>8, <1>9

\* The parts together.
LEMMA PartsTyped ==
    ASSUME EtcdTyped', StreamsTyped', InfTyped', CachesTyped', EventsTyped(out'),
           EventsTyped(hand'), HolderTyped', KernelTyped', BudgetsTyped', untold' \subseteq Loop
    PROVE  ProxyTyped'
  BY DEF ProxyTyped, EventsTyped, EventFor

LEMMA ListsTyped ==
    ASSUME ProxyTyped, Lists
    PROVE  ProxyTyped'
<1> USE DEF ProxyTyped
<1>1. /\ UNCHANGED <<etcd, stream, alive, out, hand, holder, kernel, budgets>>
      /\ \E l \in Loop : inf' = [inf EXCEPT ![l] = "connect"]
      /\ untold' \subseteq Loop
  BY DEF Lists, ListServices, ListPods, ListDns, Loop
<1>2. InfTyped'
  BY <1>1 DEF InfTyped
<1>3. CachesTyped'
  <2>1. CASE ListServices
    BY <2>1 DEF ListServices, CachesTyped, EtcdTyped
  <2>2. CASE ListPods
    BY <2>2 DEF ListPods, ListedPods, CachesTyped, EtcdTyped, PodState, Entry
  <2>3. CASE ListDns
    BY <2>3 DEF ListDns, CachesTyped, EtcdTyped
  <2>4. QED
    BY <2>1, <2>2, <2>3 DEF Lists
<1>4. QED
  BY <1>1, <1>2, <1>3, SameTyped, PartsTyped

LEMMA ConnectTyped ==
    ASSUME ProxyTyped, NEW l \in Loop, Connect(l)
    PROVE  ProxyTyped'
<1>1. InfTyped' /\ untold' \subseteq Loop
  BY DEF ProxyTyped, InfTyped, Connect
<1>2. QED
  BY <1>1, SameTyped, PartsTyped DEF Connect

LEMMA InformServiceTyped ==
    ASSUME ProxyTyped, InformService
    PROVE  ProxyTyped'
<1> USE DEF ProxyTyped
<1>1. svcCache \in Config \cup {NoService} /\ Head(stream["service"]) \in Config \cup {NoService}
  BY DEF InformService, Read, StreamsTyped, CachesTyped
<1>2. PICK e : e = IF Alike(svcCache', svcCache) THEN NoEvent
                   ELSE News(svcCache', svcCache, NoService, Bare)
  OBVIOUS
<1>3. EventFor("service", e)
  BY <1>1, <1>2, BareIsNone DEF InformService, News, EventFor, ServiceEvent
<1>4. out' = [out EXCEPT !["service"] = e]
  BY <1>2 DEF InformService
<1>5. EventsTyped(out')
  BY <1>3, <1>4, EventTyped DEF Loop
<1>6. CachesTyped'
  BY <1>1 DEF InformService, CachesTyped
<1>7. StreamsTyped' /\ untold' \subseteq Loop
  BY CutTyped DEF InformService, Read, Loop
<1>8. QED
  BY <1>5, <1>6, <1>7, SameTyped, PartsTyped DEF InformService, Read

LEMMA InformDnsTyped ==
    ASSUME ProxyTyped, InformDns
    PROVE  ProxyTyped'
<1> USE DEF ProxyTyped
<1>1. dnsCache \in DnsState /\ Head(stream["dns"]) \in DnsState
  BY DEF InformDns, Read, StreamsTyped, CachesTyped
<1>2. PICK e : e = News(dnsCache', dnsCache, "none", "none")
  OBVIOUS
<1>3. EventFor("dns", e)
  BY <1>1, <1>2 DEF InformDns, News, EventFor, DnsEvent, DnsState
<1>4. out' = [out EXCEPT !["dns"] = e]
  BY <1>2 DEF InformDns
<1>5. EventsTyped(out')
  BY <1>3, <1>4, EventTyped DEF Loop
<1>6. CachesTyped'
  BY <1>1 DEF InformDns, CachesTyped
<1>7. StreamsTyped' /\ untold' \subseteq Loop
  BY CutTyped DEF InformDns, Read, Loop
<1>8. QED
  BY <1>5, <1>6, <1>7, SameTyped, PartsTyped DEF InformDns, Read

\* What InformPod makes of the first message: the pod's entry and the event.
Cached(state, old) ==
    CASE state = "gone" -> "none"
      [] state \in {"new", "pending", "lost"} -> old
      [] OTHER -> state

NewsType(new, old) ==
    CASE new = "relabelled" -> "relabel"
      [] new = "none" -> "remove"
      [] new # "relabelled" /\ new # "none" /\ old = "none" -> "create"
      [] OTHER -> "update"

PodNews(p, state, new, e) ==
    /\ [pod |-> p, state |-> state] = Head(stream["pod"])
    /\ new = Cached(state, podCache[p])
    /\ podCache' = [podCache EXCEPT ![p] = new]
    /\ e = IF new = podCache[p] THEN NoEvent
           ELSE [type |-> NewsType(new, podCache[p]), obj |-> p]
    /\ out' = [out EXCEPT !["pod"] = e]

LEMMA CachedTyped ==
    ASSUME NEW state \in PodState, NEW old \in Entry
    PROVE  Cached(state, old) \in Entry
  BY DEF Cached, PodState, Entry

LEMMA NewsTyped ==
    ASSUME NEW new, NEW old, NEW p \in Pod
    PROVE  /\ [type |-> NewsType(new, old), obj |-> p] \in PodEvent
           /\ [type |-> NewsType(new, old), obj |-> p] # NoEvent
<1>1. NewsType(new, old) \in {"create", "update", "relabel", "remove"}
  BY DEF NewsType
<1>2. [type |-> NewsType(new, old), obj |-> p] \in PodEvent
  BY <1>1 DEF PodEvent
<1>3. QED
  BY <1>2, NoValueAssumption DEF Event

LEMMA InformPodSays ==
    ASSUME ProxyTyped, InformPod
    PROVE  \E p \in Pod, state \in PodState : \E new \in Entry : \E e : PodNews(p, state, new, e)
<1> USE DEF ProxyTyped
<1>1. PICK m \in PodMessage : m = Head(stream["pod"])
  BY DEF InformPod, Read, StreamsTyped
<1>2. PICK p \in Pod, state \in PodState : p = m.pod /\ state = m.state
  BY DEF PodMessage
<1>3. PICK old \in Entry : old = podCache[p]
  BY DEF CachesTyped
<1>4. PICK new \in Entry : new = Cached(state, old)
  BY CachedTyped
<1>5. PICK type : type = IF new = "relabelled" THEN "relabel" ELSE News(new, old, "none", p).type
  OBVIOUS
<1>6. new # old => type = NewsType(new, old)
  BY <1>5 DEF News, NewsType
<1>7. PICK e : e = IF new = old THEN NoEvent ELSE [type |-> type, obj |-> p]
  OBVIOUS
<1>8. e = IF new = old THEN NoEvent ELSE [type |-> NewsType(new, old), obj |-> p]
  BY <1>6, <1>7
<1>9. /\ podCache' = [podCache EXCEPT ![p] = new]
      /\ out' = [out EXCEPT !["pod"] = e]
  BY <1>1, <1>2, <1>3, <1>4, <1>5, <1>7 DEF InformPod, Cached
<1>10. m = [pod |-> p, state |-> state]
  BY <1>1, <1>2 DEF PodMessage
<1>11. PodNews(p, state, new, e)
  BY <1>1, <1>3, <1>4, <1>8, <1>9, <1>10 DEF PodNews
<1>12. QED
  BY <1>11

LEMMA InformPodTyped ==
    ASSUME ProxyTyped, InformPod
    PROVE  ProxyTyped'
<1> USE DEF ProxyTyped
<1>0. PICK p \in Pod, state \in PodState, new \in Entry : \E e : PodNews(p, state, new, e)
  BY InformPodSays
<1>1. PICK e : PodNews(p, state, new, e)
  BY <1>0
<1>2. EventFor("pod", e)
  BY <1>1, NewsTyped DEF PodNews, EventFor
<1>3. EventsTyped(out')
  BY <1>1, <1>2, EventTyped DEF PodNews, Loop
<1>4. CachesTyped'
  BY <1>1 DEF PodNews, InformPod, CachesTyped
<1>5. StreamsTyped' /\ untold' \subseteq Loop
  BY CutTyped DEF InformPod, Read, Loop
<1>6. QED
  BY <1>3, <1>4, <1>5, SameTyped, PartsTyped DEF InformPod, Read

LEMMA LoseTyped ==
    ASSUME ProxyTyped, NEW l \in Loop, Lose(l)
    PROVE  ProxyTyped'
<1>1. StreamsTyped' /\ InfTyped' /\ BudgetsTyped' /\ untold' \subseteq Loop
  BY CutTyped, BudgetTyped DEF ProxyTyped, InfTyped, Lose
<1>2. QED
  BY <1>1, SameTyped, PartsTyped DEF Lose

LEMMA ReceiveTyped ==
    ASSUME ProxyTyped, NEW l \in Loop, Receive(l)
    PROVE  ProxyTyped'
<1>1. EventFor(l, out[l]) /\ EventFor(l, NoEvent)
  BY DEF ProxyTyped, EventsTyped, EventFor
<1>2. EventsTyped(hand') /\ EventsTyped(out')
  BY <1>1, EventTyped DEF ProxyTyped, Receive
<1>3. HolderTyped'
  BY DEF ProxyTyped, HolderTyped, Holder, Receive, EventsTyped, Loop, holder
<1>4. untold' \subseteq Loop
  BY DEF ProxyTyped, Receive
<1>5. QED
  BY <1>2, <1>3, <1>4, SameTyped, PartsTyped DEF Receive


\* A loop that takes or drops the lock.
LEMMA UnlockTyped ==
    ASSUME ProxyTyped, Unlock, lock \in Loop
    PROVE  HolderTyped' /\ EventsTyped(hand')
<1>1. EventFor(lock, NoEvent)
  BY DEF EventFor
<1>2. EventsTyped(hand')
  BY <1>1, EventTyped DEF ProxyTyped, Unlock
<1>3. HolderTyped'
  BY DEF Unlock, HolderTyped, Holder, Loop
<1>4. QED
  BY <1>2, <1>3

LEMMA ReturnTyped ==
    ASSUME ProxyTyped, NEW l \in Loop, Return(l)
    PROVE  HolderTyped' /\ EventsTyped(hand')
<1>1. HolderTyped'
  BY DEF Return, HolderTyped, Holder, Loop
<1>2. QED
  BY <1>1 DEF ProxyTyped, Return

LEMMA LeftByPanicTyped ==
    ASSUME ProxyTyped, NEW c, DeletePanics(c)
    PROVE  LeftByPanic(c) \in SUBSET Rule
  BY PanicTyped DEF ProxyTyped, DeletePanics

LEMMA NoChainTyped ==
    ASSUME ProxyTyped, chain' = NoChain, UNCHANGED <<left, dnsMap, nginx, dnsFailed>>
    PROVE  KernelTyped'
  BY DEF ProxyTyped, KernelTyped

\* Only a service that is there, or a bare one, reaches the service loop.
LEMMA HandService ==
    ASSUME ProxyTyped, hand["service"] # NoEvent
    PROVE  /\ hand["service"] \in ServiceEvent
           /\ hand["service"].obj \in Config \/ hand["service"].obj = Bare
           /\ hand["service"].type # "remove" => hand["service"].obj \in Config
<1>1. hand["service"] \in ServiceEvent
  BY EventFields DEF ProxyTyped
<1>2. QED
  BY <1>1, EventFields DEF ProxyTyped, ServiceEvent

\* What a failing deletion leaves is typed, also by the ports of nothing.
LEMMA FailureLeaves ==
    ASSUME ProxyTyped, NEW c, c \in Config \/ c = Bare, DeleteFails(c),
           NEW p \in chain[Len(c.dests) + 1].to
    PROVE  /\ LeftByFailure(c, p) \in Seq(Rule)
           /\ {LeftByFailure(c, p)[i] : i \in DOMAIN LeftByFailure(c, p)} \in SUBSET Rule
<1>1. c.dests \in Seq(Dest)
  <2>1. CASE c \in Config
    BY <2>1, ConfigAssumption DEF Selection
  <2>2. CASE c = Bare
    BY <2>2 DEF Bare
  <2>3. QED
    BY <2>1, <2>2
<1>2. KernelTyped
  BY DEF ProxyTyped
<1>3. p \in Pod
  BY <1>1, <1>2, FailureAt
<1>4. QED
  BY <1>1, <1>2, <1>3, FailureTyped

LEMMA SyncServiceTyped ==
    ASSUME ProxyTyped, SyncService
    PROVE  ProxyTyped'
<1>1. PICK c : c = hand["service"].obj
  OBVIOUS
<1>2. c \in Config \/ c = Bare
  BY <1>1, HandService DEF SyncService
<1>3. BudgetsTyped'
  BY SameTyped DEF SyncService
<1>4. CASE DeletePanics(c) /\ Down(LeftByPanic(c))
  BY <1>3, <1>4, LeftByPanicTyped, ProxyDownTyped
<1>5. ASSUME DeleteFails(c), NEW p \in chain[Len(c.dests) + 1].to, chain' = LeftByFailure(c, p),
             Return("service"),
             UNCHANGED <<etcd, stream, alive, inf, caches, out, left, dnsMap, nginx,
                            dnsFailed, untold>>
      PROVE  ProxyTyped'
  <2>1. chain' \in Seq(Rule)
    BY <1>2, <1>5, FailureLeaves
  <2>2. KernelTyped'
    BY <1>5, <2>1 DEF ProxyTyped, KernelTyped
  <2>3. HolderTyped' /\ EventsTyped(hand')
    BY <1>5, ReturnTyped DEF Loop
  <2>4. untold' \subseteq Loop
    BY <1>5 DEF ProxyTyped
  <2>5. QED
    BY <1>3, <1>5, <2>2, <2>3, <2>4, SameTyped, PartsTyped
<1>6. ASSUME chain' = NoChain, hand["service"].type = "remove",
             hand' = [hand EXCEPT !["service"] = NoEvent], UNCHANGED holder,
             UNCHANGED <<etcd, stream, alive, inf, caches, out, left, dnsMap, nginx,
                            dnsFailed, untold>>
      PROVE  ProxyTyped'
  <2>1. EventsTyped(hand')
    BY <1>6, EventTyped DEF ProxyTyped, EventFor, Loop
  <2>2. HolderTyped'
    BY <1>6 DEF SyncService, ProxyTyped, HolderTyped, Holder, holder, Loop
  <2>3. KernelTyped' /\ untold' \subseteq Loop
    BY <1>6, NoChainTyped DEF ProxyTyped
  <2>4. QED
    BY <1>3, <1>6, <2>1, <2>2, <2>3, SameTyped, PartsTyped
<1>7. ASSUME chain' = NoChain, hand["service"].type # "remove", Goto("service", "select", c),
             UNCHANGED <<etcd, stream, alive, inf, caches, out, left, dnsMap, nginx,
                            dnsFailed, untold>>
      PROVE  ProxyTyped'
  <2>1. EventsTyped(hand')
    BY <1>7 DEF ProxyTyped, Goto
  <2>2. c \in Config
    BY <1>1, <1>7, HandService DEF SyncService
  <2>3. HolderTyped'
    BY <1>1, <1>7, <2>2 DEF SyncService, HolderTyped, Holder, Goto, Loop
  <2>4. KernelTyped' /\ untold' \subseteq Loop
    BY <1>7, NoChainTyped DEF ProxyTyped
  <2>5. QED
    BY <1>3, <1>7, <2>1, <2>3, <2>4, SameTyped, PartsTyped
<1>8. QED
  BY <1>1, <1>4, <1>5, <1>6, <1>7 DEF SyncService

LEMMA SyncPodTyped ==
    ASSUME ProxyTyped, SyncPod
    PROVE  ProxyTyped'
<1>1. EventsTyped(hand') /\ untold' \subseteq Loop
  BY DEF ProxyTyped, SyncPod, Goto
<1>2. HolderTyped'
  BY DEF SyncPod, HolderTyped, Holder, Goto, Loop
<1>3. QED
  BY <1>1, <1>2, SameTyped, PartsTyped DEF SyncPod

LEMMA ModifyPodTyped ==
    ASSUME ProxyTyped, ModifyPod
    PROVE  ProxyTyped'
<1>1. BudgetsTyped'
  BY SameTyped DEF ModifyPod
<1>2. CASE /\ Unlock
           /\ UNCHANGED <<etcd, stream, alive, inf, caches, out, kernel, untold>>
  <2>1. HolderTyped' /\ EventsTyped(hand') /\ untold' \subseteq Loop
    BY <1>2, UnlockTyped DEF ModifyPod, Loop, ProxyTyped
  <2>2. QED
    BY <1>1, <1>2, <2>1, SameTyped, PartsTyped
<1>3. CASE /\ svcCache # NoService /\ chain' = NoChain /\ Goto("pod", "select", svcCache)
           /\ UNCHANGED <<etcd, stream, alive, inf, caches, out, left, dnsMap, nginx,
                            dnsFailed, untold>>
  <2>1. EventsTyped(hand') /\ untold' \subseteq Loop /\ svcCache \in Config
    BY <1>3 DEF ProxyTyped, Goto, CachesTyped
  <2>2. HolderTyped'
    BY <1>3, <2>1 DEF ModifyPod, ProxyTyped, HolderTyped, Holder, Goto, Loop
  <2>3. KernelTyped'
    BY <1>3, NoChainTyped
  <2>4. QED
    BY <1>1, <1>3, <2>1, <2>2, <2>3, SameTyped, PartsTyped
<1>4. CASE DeletePanics(svcCache) /\ Down(LeftByPanic(svcCache))
  BY <1>1, <1>4, LeftByPanicTyped, ProxyDownTyped
<1>5. ASSUME svcCache # NoService, DeleteFails(svcCache),
             NEW p \in chain[Len(svcCache.dests) + 1].to,
             Down({LeftByFailure(svcCache, p)[i] : i \in DOMAIN LeftByFailure(svcCache, p)})
      PROVE  ProxyTyped'
  <2>1. svcCache \in Config
    BY <1>5 DEF ProxyTyped, CachesTyped
  <2>2. {LeftByFailure(svcCache, p)[i] : i \in DOMAIN LeftByFailure(svcCache, p)} \in SUBSET Rule
    BY <1>5, <2>1, FailureLeaves
  <2>3. QED
    BY <1>1, <1>5, <2>2, ProxyDownTyped
<1>6. QED
  BY <1>2, <1>3, <1>4, <1>5 DEF ModifyPod

\* The rules AddService makes.
Made(c) == [i \in DOMAIN c.dests |-> [dest |-> c.dests[i], to |-> Running(c)]]

LEMMA MadeTyped ==
    ASSUME NEW c \in Config
    PROVE  Made(c) \in Seq(Rule)
<1>1. c.dests \in Seq(Dest) /\ Running(c) \in SUBSET Pod
  BY ConfigAssumption DEF Selection, Running
<1>2. PICK n \in Nat : DOMAIN c.dests = 1..n
  BY <1>1
<1>3. \A i \in 1..n : [dest |-> c.dests[i], to |-> Running(c)] \in Rule
  BY <1>1, <1>2 DEF Rule
<1>4. Made(c) \in [1..n -> Rule]
  BY <1>2, <1>3 DEF Made
<1>5. QED
  BY <1>4

LEMMA SelectPodsTyped ==
    ASSUME ProxyTyped, SelectPods
    PROVE  ProxyTyped'
<1>1. copy \in Config /\ lock \in Loop
  BY DEF SelectPods, ProxyTyped, HolderTyped, Holder
<1>2. untold' \subseteq Loop
  BY DEF SelectPods, ProxyTyped
<1>3. CASE Unlock /\ UNCHANGED chain
  <2>1. HolderTyped' /\ EventsTyped(hand')
    BY <1>1, <1>3, UnlockTyped
  <2>2. QED
    BY <1>2, <1>3, <2>1, SameTyped, PartsTyped DEF SelectPods, kernel
<1>4. CASE chain' = Made(copy) /\ step' = "lookup" /\ UNCHANGED <<hand, lock, copy>>
  <2>1. KernelTyped'
    BY <1>1, <1>4, MadeTyped DEF SelectPods, ProxyTyped, KernelTyped
  <2>2. HolderTyped' /\ EventsTyped(hand')
    BY <1>4 DEF SelectPods, ProxyTyped, HolderTyped, Holder, Loop
  <2>3. QED
    BY <1>2, <1>4, <2>1, <2>2, SameTyped, PartsTyped DEF SelectPods
<1>5. QED
  BY <1>3, <1>4 DEF SelectPods, Made

LEMMA SelectFailsTyped ==
    ASSUME ProxyTyped, SelectFails
    PROVE  ProxyTyped'
<1>1. BudgetsTyped'
  BY BudgetTyped DEF ProxyTyped, SelectFails
<1>2. CASE /\ Return("service")
           /\ UNCHANGED <<etcd, stream, alive, inf, caches, out, kernel, untold>>
  <2>1. HolderTyped' /\ EventsTyped(hand') /\ untold' \subseteq Loop
    BY <1>2, ReturnTyped DEF Loop, ProxyTyped
  <2>2. QED
    BY <1>1, <1>2, <2>1, SameTyped, PartsTyped
<1>3. CASE Down(Rules)
  BY <1>1, <1>3, RulesTyped, ProxyDownTyped DEF ProxyTyped
<1>4. QED
  BY <1>2, <1>3 DEF SelectFails

LEMMA LookUpTyped ==
    ASSUME ProxyTyped, LookUp
    PROVE  ProxyTyped'
<1>1. HolderTyped' /\ EventsTyped(hand') /\ untold' \subseteq Loop
  BY DEF LookUp, ProxyTyped, HolderTyped, Holder, Loop
<1>2. QED
  BY <1>1, SameTyped, PartsTyped DEF LookUp

LEMMA EndTyped ==
    ASSUME ProxyTyped, NotUpdated \/ Kill
    PROVE  ProxyTyped'
<1>1. BudgetsTyped' /\ Down(Rules)
  BY BudgetTyped DEF ProxyTyped, NotUpdated, Kill
<1>2. QED
  BY <1>1, RulesTyped, ProxyDownTyped DEF ProxyTyped

LEMMA WriteBackTyped ==
    ASSUME ProxyTyped, WriteBack
    PROVE  ProxyTyped'
<1>1. copy \in Config /\ lock \in Loop
  BY DEF WriteBack, ProxyTyped, HolderTyped, Holder
<1>2. StreamsTyped' /\ untold' \subseteq Loop
  BY <1>1, TellTyped DEF ProxyTyped, WriteBack, Loop
<1>3. HolderTyped' /\ EventsTyped(hand')
  BY <1>1, UnlockTyped DEF WriteBack
<1>4. EtcdTyped'
  BY <1>1 DEF WriteBack, ProxyTyped, EtcdTyped
<1>5. QED
  BY <1>2, <1>3, <1>4, SameTyped, PartsTyped DEF WriteBack

LEMMA SyncDnsTyped ==
    ASSUME ProxyTyped, SyncDns
    PROVE  ProxyTyped'
<1>0. BudgetsTyped'
  <2>1. Incident \/ UNCHANGED budgets
    BY DEF SyncDns
  <2>2. QED
    BY <2>1, BudgetTyped DEF ProxyTyped
<1>1. KernelTyped' /\ untold' \subseteq Loop
  BY DEF SyncDns, ProxyTyped, KernelTyped
<1>2. HolderTyped' /\ EventsTyped(hand')
  <2>1. CASE hand["dns"].type # "remove" /\ Goto("dns", "list", NoService)
    BY <2>1 DEF SyncDns, ProxyTyped, HolderTyped, Holder, Goto, Loop
  <2>2. CASE hand' = [hand EXCEPT !["dns"] = NoEvent] /\ UNCHANGED holder
    <3>1. EventsTyped(hand')
      BY <2>2, EventTyped DEF ProxyTyped, EventFor, Loop
    <3>2. HolderTyped'
      BY <2>2 DEF SyncDns, ProxyTyped, HolderTyped, Holder, holder, Loop
    <3>3. QED
      BY <3>1, <3>2
  <2>3. CASE Return("dns")
    BY <2>3, ReturnTyped DEF Loop
  <2>4. QED
    BY <2>1, <2>2, <2>3 DEF SyncDns
<1>3. QED
  BY <1>0, <1>1, <1>2, SameTyped, PartsTyped DEF SyncDns

LEMMA AddDnsTyped ==
    ASSUME ProxyTyped, AddDns
    PROVE  ProxyTyped'
<1>1. KernelTyped' /\ untold' \subseteq Loop
  BY DEF AddDns, ProxyTyped, KernelTyped
<1>2. HolderTyped' /\ EventsTyped(hand')
  BY UnlockTyped DEF AddDns, Loop
<1>3. BudgetsTyped'
  <2>1. Incident \/ UNCHANGED budgets
    BY DEF AddDns
  <2>2. QED
    BY <2>1, BudgetTyped DEF ProxyTyped
<1>4. QED
  BY <1>1, <1>2, <1>3, SameTyped, PartsTyped DEF AddDns

LEMMA StartTyped ==
    ASSUME ProxyTyped, Start
    PROVE  ProxyTyped'
<1>1. InfTyped' /\ untold' \subseteq Loop
  BY DEF ProxyTyped, InfTyped, Start
<1>2. QED
  BY <1>1, SameTyped, PartsTyped DEF Start

LEMMA ChangeServiceTyped ==
    ASSUME ProxyTyped, ChangeService
    PROVE  ProxyTyped'
<1>1. svc' \in Config \cup {NoService}
  BY DEF ChangeService
<1>2. StreamsTyped' /\ untold' \subseteq Loop
  BY <1>1, TellTyped DEF ProxyTyped, ChangeService, Loop
<1>3. EtcdTyped' /\ BudgetsTyped'
  BY <1>1, BudgetTyped DEF ChangeService, ProxyTyped, EtcdTyped
<1>4. QED
  BY <1>2, <1>3, SameTyped, PartsTyped DEF ChangeService

LEMMA ChangeDnsTyped ==
    ASSUME ProxyTyped, ChangeDns
    PROVE  ProxyTyped'
<1>1. dns' \in DnsState
  BY DEF ChangeDns, DnsState
<1>2. StreamsTyped' /\ untold' \subseteq Loop
  BY <1>1, TellTyped DEF ProxyTyped, ChangeDns, Loop
<1>3. EtcdTyped' /\ BudgetsTyped'
  BY <1>1, BudgetTyped DEF ChangeDns, ProxyTyped, EtcdTyped
<1>4. QED
  BY <1>2, <1>3, SameTyped, PartsTyped DEF ChangeDns

LEMMA NextStates == \A s \in PodState : NextState(s) \subseteq PodState
  BY DEF PodState, NextState

LEMMA ChangePodTyped ==
    ASSUME ProxyTyped, NEW p \in Pod, ChangePod(p)
    PROVE  ProxyTyped'
<1>1. pods[p] \in PodState
  BY DEF ProxyTyped, EtcdTyped
<1>2. PICK s \in PodState : /\ pods' = [pods EXCEPT ![p] = s]
                            /\ Send("pod", [pod |-> p, state |-> s])
  BY <1>1, NextStates DEF ChangePod
<1>3. [pod |-> p, state |-> s] \in PodMessage
  BY DEF PodMessage
<1>4. StreamsTyped' /\ untold' \subseteq Loop
  BY <1>2, <1>3, SendTyped DEF ProxyTyped, ChangePod, Loop
<1>5. EtcdTyped' /\ BudgetsTyped'
  BY <1>2, BudgetTyped DEF ChangePod, ProxyTyped, EtcdTyped
<1>6. QED
  BY <1>4, <1>5, SameTyped, PartsTyped DEF ChangePod

LEMMA ProxyStutters ==
    ASSUME ProxyTyped, UNCHANGED vars
    PROVE  ProxyTyped'
<1>1. untold' \subseteq Loop
  BY DEF vars, ProxyTyped
<1>2. QED
  BY <1>1, SameTyped, PartsTyped DEF vars

LEMMA ProxyStarts == Init => ProxyTyped
<1>1. ASSUME Init PROVE ProxyTyped
  <2> USE <1>1 DEF Init
  <2>1. EtcdTyped /\ InfTyped /\ CachesTyped /\ HolderTyped /\ KernelTyped
    BY DEF EtcdTyped, InfTyped, CachesTyped, HolderTyped, Holder, KernelTyped, PodState, DnsState,
           Loop, Entry
  <2>2. StreamsTyped
    BY DEF StreamsTyped, Loop
  <2>3. EventsTyped(out) /\ EventsTyped(hand)
    BY DEF EventsTyped, EventFor
  <2>4. BudgetsTyped
    BY BoundAssumption DEF BudgetsTyped
  <2>5. QED
    BY <2>1, <2>2, <2>3, <2>4 DEF ProxyTyped
<1>2. QED
  BY <1>1

LEMMA ProxyStaysTyped ==
    ASSUME ProxyTyped, [Next]_vars
    PROVE  ProxyTyped'
<1>1. CASE Lists
  BY <1>1, ListsTyped
<1>2. CASE Informs
  BY <1>2, InformServiceTyped, InformPodTyped, InformDnsTyped DEF Informs
<1>3. CASE HolderSteps
  BY <1>3, ModifyPodTyped, SelectPodsTyped, LookUpTyped, EndTyped, WriteBackTyped, AddDnsTyped
  DEF HolderSteps
<1>4. CASE Loops
  BY <1>4, SyncServiceTyped, SyncPodTyped, SyncDnsTyped DEF Loops
<1>5. CASE \E l \in Loop : Connect(l) \/ Receive(l) \/ Lose(l)
  BY <1>5, ConnectTyped, ReceiveTyped, LoseTyped
<1>6. CASE Start \/ Kill \/ SelectFails
  BY <1>6, StartTyped, EndTyped, SelectFailsTyped
<1>7. CASE ChangeService \/ ChangeDns \/ \E p \in Pod : ChangePod(p)
  BY <1>7, ChangeServiceTyped, ChangeDnsTyped, ChangePodTyped
<1>8. CASE UNCHANGED vars
  BY <1>8, ProxyStutters
<1>9. QED
  BY <1>1, <1>2, <1>3, <1>4, <1>5, <1>6, <1>7, <1>8 DEF Next, Works

\* Every state of the proxy is well typed: the sends and locks of informers and
\* loops never leave a loop with an event that is not its own, the lock with a
\* holder that has nothing in hand, or a rule that leads to no pod's address.
THEOREM ProxyIsTyped == Spec => []TypeOK
<1>1. Init => ProxyTyped
  BY ProxyStarts
<1>2. ProxyTyped /\ [Next]_vars => ProxyTyped'
  BY ProxyStaysTyped
<1>3. ProxyTyped => TypeOK
  BY ProxyTypes
<1>4. QED
  BY <1>1, <1>2, <1>3, PTL DEF Spec

-----------------------------------------------------------------------------
(* The end of a stream                                                     *)

\* An informer that does not watch has nothing to read, and the last message of a
\* stream is what etcd holds.
Ends(s, x) == s # <<>> => s[Len(s)] = x

Watching == \A l \in Loop : inf[l] # "watch" => stream[l] = <<>>

StreamsEnd == Watching /\ Ends(stream["service"], svc) /\ Ends(stream["dns"], dns)

LEMMA AppendEnds ==
    ASSUME NEW S, NEW s \in Seq(S), NEW x \in S
    PROVE  Ends(Append(s, x), x) /\ Append(s, x) # <<>>
  BY DEF Ends

LEMMA TailEnds ==
    ASSUME NEW S, NEW s \in Seq(S), s # <<>>, NEW x, Ends(s, x)
    PROVE  Ends(Tail(s), x) /\ (Tail(s) = <<>> => Head(s) = x)
<1>1. /\ Len(s) \in Nat /\ Len(s) > 0 /\ Len(Tail(s)) = Len(s) - 1
      /\ Tail(s) \in Seq(S) /\ Head(s) = s[1]
      /\ \A i \in 1..Len(Tail(s)) : Tail(s)[i] = s[i + 1]
  BY HeadTailProperties
<1>2. ASSUME Tail(s) # <<>> PROVE Tail(s)[Len(Tail(s))] = s[Len(s)]
  <2>1. Len(Tail(s)) \in 1..Len(Tail(s))
    BY <1>1, <1>2
  <2>2. PICK n \in Nat : n = Len(s)
    BY <1>1
  <2>3. Len(Tail(s)) = n - 1 /\ n - 1 \in 1..Len(Tail(s)) /\ (n - 1) + 1 = n
    BY <1>1, <2>1, <2>2
  <2>4. Tail(s)[n - 1] = s[(n - 1) + 1]
    BY <1>1, <2>3
  <2>5. QED
    BY <2>2, <2>3, <2>4
<1>3. ASSUME Tail(s) = <<>> PROVE Head(s) = s[Len(s)]
  <2>1. Len(Tail(s)) = 0
    BY <1>3, EmptySeq, Zenon
  <2>2. Len(s) \in Nat /\ Len(s) - 1 = 0
    BY <1>1, <2>1, Zenon
  <2>3. Len(s) = 1
    BY <2>2
  <2>4. QED
    BY <1>1, <2>3, Zenon
<1>4. QED
  BY <1>2, <1>3 DEF Ends

\* A message that is told is the last one, if the informer watches.
LEMMA SendLast ==
    ASSUME ProxyTyped, StreamsEnd, NEW l \in Loop, NEW m \in Message, Send(l, m), UNCHANGED inf
    PROVE  /\ Watching'
           /\ Ends(stream'[l], m)
           /\ inf[l] = "watch" => stream'[l] = Append(stream[l], m) /\ stream'[l] # <<>>
           /\ \A k \in Loop : k # l => stream'[k] = stream[k]
<1>1. stream \in [Loop -> Seq(Message)]
  BY DEF ProxyTyped, StreamsTyped
<1>2. PICK s \in Seq(Message) : s = stream[l]
  BY <1>1
<1>3. Ends(Append(s, m), m) /\ Append(s, m) # <<>>
  BY AppendEnds
<1>4. CASE inf[l] = "watch"
  <2>1. stream' = [stream EXCEPT ![l] = Append(s, m)]
    BY <1>2, <1>4 DEF Send
  <2>2. QED
    BY <1>1, <1>2, <1>3, <1>4, <2>1 DEF StreamsEnd, Watching
<1>5. CASE inf[l] # "watch"
  <2>1. stream' = stream /\ stream[l] = <<>>
    BY <1>5 DEF Send, StreamsEnd, Watching
  <2>2. QED
    BY <1>5, <2>1 DEF StreamsEnd, Watching, Ends
<1>6. QED
  BY <1>4, <1>5

LEMMA TellLast ==
    ASSUME ProxyTyped, StreamsEnd, NEW l \in Loop, NEW m \in Message, Tell(l, m), UNCHANGED inf
    PROVE  /\ Watching'
           /\ Ends(stream'[l], m)
           /\ l \notin untold' => stream'[l] = Append(stream[l], m) /\ stream'[l] # <<>>
           /\ untold \subseteq untold' /\ untold' \subseteq untold \cup {l}
           /\ \A k \in Loop : k # l => stream'[k] = stream[k]
<1>1. Send(l, m) /\ untold' = IF inf[l] = "watch" THEN untold ELSE untold \cup {l}
  BY DEF Tell
<1>2. l \notin untold' => inf[l] = "watch"
  BY <1>1
<1>3. QED
  BY <1>1, <1>2, SendLast

\* What an informer reads of a stream is its first message.
LEMMA ReadLast ==
    ASSUME ProxyTyped, StreamsEnd, NEW l \in Loop, Read(l)
    PROVE  /\ StreamsEnd'
           /\ l = "service" /\ stream'[l] = <<>> => Head(stream[l]) = svc
           /\ l = "dns" /\ stream'[l] = <<>> => Head(stream[l]) = dns
           /\ \A k \in Loop : k # l => stream'[k] = stream[k]
<1>1. /\ stream \in [Loop -> Seq(Message)] /\ stream[l] # <<>> /\ inf[l] = "watch"
      /\ stream' = [stream EXCEPT ![l] = Tail(@)] /\ UNCHANGED <<inf, svc, dns>>
  BY DEF ProxyTyped, StreamsTyped, Read, etcd
<1>2. \A k \in Loop : k # l => stream'[k] = stream[k]
  BY <1>1
<1>3. PICK s \in Seq(Message) : s = stream[l]
  BY <1>1
<1>4. stream'[l] = Tail(s)
  BY <1>1, <1>3
<1>5. ASSUME NEW x, Ends(s, x)
      PROVE  Ends(Tail(s), x) /\ (Tail(s) = <<>> => Head(s) = x)
  BY <1>1, <1>3, <1>5, TailEnds
<1>6. Watching'
  BY <1>1, <1>2 DEF StreamsEnd, Watching
<1>7. /\ l = "service" => Ends(s, svc)
      /\ l = "dns" => Ends(s, dns)
  BY <1>3 DEF StreamsEnd
<1>8. /\ Ends(stream'["service"], svc) /\ Ends(stream'["dns"], dns)
      /\ l = "service" /\ stream'[l] = <<>> => Head(stream[l]) = svc
      /\ l = "dns" /\ stream'[l] = <<>> => Head(stream[l]) = dns
  BY <1>2, <1>3, <1>4, <1>5, <1>7 DEF StreamsEnd, Loop
<1>9. QED
  BY <1>1, <1>2, <1>6, <1>8 DEF StreamsEnd

LEMMA LoseLast ==
    ASSUME ProxyTyped, StreamsEnd, NEW l \in Loop, Lose(l)
    PROVE  StreamsEnd'
<1>1. \A k \in Loop : stream'[k] = stream[k] \/ stream'[k] = <<>>
  BY DEF ProxyTyped, StreamsTyped, Lose
<1>2. \A k \in Loop : k # l => inf'[k] = inf[k] /\ stream'[k] = stream[k]
  BY DEF ProxyTyped, StreamsTyped, InfTyped, Lose
<1>3. stream'[l] = <<>>
  BY DEF ProxyTyped, StreamsTyped, Lose
<1>4. QED
  BY <1>1, <1>2, <1>3 DEF Lose, StreamsEnd, Watching, Ends, Loop, etcd

LEMMA EndsKept ==
    ASSUME ProxyTyped, StreamsEnd, UNCHANGED <<stream, svc, dns>>,
           \A l \in Loop : inf[l] = "watch" => inf'[l] = "watch"
    PROVE  StreamsEnd'
  BY DEF StreamsEnd, Watching, Ends

\* What Down leaves.
LEMMA DownEnds ==
    ASSUME NEW rules, Down(rules)
    PROVE  StreamsEnd' /\ untold' = Loop
<1>1. stream' = [l \in Loop |-> <<>>] /\ untold' = Loop
  BY DEF Down
<1>2. \A l \in Loop : stream'[l] = <<>>
  BY <1>1
<1>3. stream'["service"] = <<>> /\ stream'["dns"] = <<>>
  BY <1>2 DEF Loop
<1>4. QED
  BY <1>1, <1>2, <1>3 DEF StreamsEnd, Watching, Ends

LEMMA MessageKinds ==
    /\ Config \cup {NoService} \subseteq Message /\ DnsState \subseteq Message
    /\ PodMessage \subseteq Message
  BY DEF Message

LEMMA ChangeEnds ==
    ASSUME ProxyTyped, StreamsEnd,
           ChangeService \/ ChangeDns \/ WriteBack \/ \E p \in Pod : ChangePod(p)
    PROVE  StreamsEnd'
<1>1. CASE ChangeService
  <2>1. svc' \in Message /\ Tell("service", svc') /\ UNCHANGED <<inf, dns>>
    BY <1>1, MessageKinds DEF ChangeService
  <2>2. QED
    BY <2>1, TellLast DEF StreamsEnd, Loop
<1>2. CASE ChangeDns
  <2>1. dns' \in Message /\ Tell("dns", dns') /\ UNCHANGED <<inf, svc>>
    BY <1>2, MessageKinds DEF ChangeDns, DnsState
  <2>2. QED
    BY <2>1, TellLast DEF StreamsEnd, Loop
<1>3. CASE WriteBack
  <2>1. svc' \in Message /\ Tell("service", svc') /\ UNCHANGED <<inf, dns>>
    BY <1>3, MessageKinds DEF WriteBack, ProxyTyped, HolderTyped, Holder
  <2>2. QED
    BY <2>1, TellLast DEF StreamsEnd, Loop
<1>4. ASSUME NEW p \in Pod, ChangePod(p) PROVE StreamsEnd'
  <2>1. pods[p] \in PodState
    BY DEF ProxyTyped, EtcdTyped
  <2>2. PICK s \in PodState : Send("pod", [pod |-> p, state |-> s])
    BY <1>4, <2>1, NextStates DEF ChangePod
  <2>3. [pod |-> p, state |-> s] \in Message
    BY MessageKinds DEF PodMessage
  <2>4. QED
    BY <1>4, <2>2, <2>3, SendLast DEF ChangePod, StreamsEnd, Loop
<1>5. QED
  BY <1>1, <1>2, <1>3, <1>4

LEMMA StreamsStayEnded ==
    ASSUME ProxyTyped, StreamsEnd, [Next]_vars
    PROVE  StreamsEnd'
<1>1. CASE Lists
  <2>1. /\ UNCHANGED <<etcd, stream>>
        /\ \E l \in Loop : inf[l] = "list" /\ inf' = [inf EXCEPT ![l] = "connect"]
    BY <1>1 DEF Lists, ListServices, ListPods, ListDns, Loop
  <2>2. \A l \in Loop : inf[l] = "watch" => inf'[l] = "watch"
    BY <2>1 DEF ProxyTyped, InfTyped
  <2>3. QED
    BY <2>1, <2>2, EndsKept DEF etcd
<1>2. CASE Informs
  BY <1>2, ReadLast DEF Informs, InformService, InformPod, InformDns, Loop
<1>3. CASE \E l \in Loop : Lose(l)
  BY <1>3, LoseLast
<1>4. CASE ChangeService \/ ChangeDns \/ WriteBack \/ \E p \in Pod : ChangePod(p)
  BY <1>4, ChangeEnds
<1>5. CASE \E l \in Loop : Connect(l)
  <2>1. \A l \in Loop : inf[l] = "watch" => inf'[l] = "watch"
    BY <1>5 DEF Connect, ProxyTyped, InfTyped
  <2>2. QED
    BY <1>5, <2>1, EndsKept DEF Connect, etcd
<1>6. CASE \E rules : Down(rules)
  BY <1>6, DownEnds
<1>7. CASE UNCHANGED <<etcd, stream, inf>>
  BY <1>7, EndsKept DEF etcd
<1>8. CASE \/ Start \/ SyncPod \/ SelectPods \/ LookUp \/ SyncDns \/ AddDns
           \/ \E l \in Loop : Receive(l)
  BY <1>7, <1>8 DEF Start, SyncPod, SelectPods, LookUp, SyncDns, AddDns, Receive
<1>9. CASE NotUpdated \/ Kill \/ SelectFails
  BY <1>6, <1>7, <1>9 DEF NotUpdated, Kill, SelectFails
<1>10. CASE SyncService
  BY <1>6, <1>7, <1>10 DEF SyncService
<1>11. CASE ModifyPod
  BY <1>6, <1>7, <1>11 DEF ModifyPod
<1>12. CASE UNCHANGED vars
  BY <1>7, <1>12 DEF vars
<1>13. QED
  BY <1>1, <1>2, <1>3, <1>4, <1>5, <1>8, <1>9, <1>10, <1>11, <1>12
  DEF Next, Works, HolderSteps, Loops

-----------------------------------------------------------------------------
(* DNS                                                                     *)

\* Unless the informer took something silently: only docker's failures leave a
\* container DNSMap does not lead to; what is created is in the cache; a container
\* that docker did not keep, or an event that will make one, of an object that is
\* gone has the event of its removal behind it; and the cache holds what etcd does
\* when all is read.
Makes(e) == e # NoEvent /\ e.type \in {"create", "update"}
Removes(e) == e # NoEvent /\ e.type = "remove"

DnsTold ==
    \/ "dns" \in untold
    \/ /\ (nginx = "own" => dnsMap) /\ (nginx = "stray" => dnsFailed)
       /\ Makes(out["dns"]) => dnsCache # "none"
       /\ dnsCache = "none" /\ ((nginx = "own" /\ ~dnsFailed) \/ Makes(hand["dns"])) =>
             Removes(out["dns"]) \/ Removes(hand["dns"])
       /\ stream["dns"] = <<>> => dnsCache = dns

ProxyInv == ProxyTyped /\ StreamsEnd

LEMMA DnsKept ==
    ASSUME DnsTold, "dns" \in untold => "dns" \in untold',
           UNCHANGED <<nginx, dnsFailed, dnsMap, dnsCache, dns>>, out'["dns"] = out["dns"],
           hand'["dns"] = hand["dns"], stream'["dns"] = stream["dns"]
    PROVE  DnsTold'
  BY DEF DnsTold, Makes, Removes

LEMMA ListsDns ==
    ASSUME ProxyInv, DnsTold, Lists
    PROVE  DnsTold'
<1>1. CASE ListServices \/ ListPods
  BY <1>1, DnsKept DEF ListServices, ListPods, etcd, kernel
<1>2. CASE ListDns /\ dnsCache' = dnsCache
  BY <1>2, DnsKept DEF ListDns, etcd, kernel
<1>3. CASE ListDns /\ dnsCache' # dnsCache
  BY <1>3 DEF ListDns, DnsTold
<1>4. QED
  BY <1>1, <1>2, <1>3 DEF Lists

LEMMA InformDnsTells ==
    ASSUME ProxyInv, DnsTold, InformDns
    PROVE  DnsTold'
<1> USE DEF ProxyInv
<1>1. Read("dns") /\ UNCHANGED <<hand, nginx, dnsFailed, dnsMap, dns, untold>>
  BY DEF InformDns, Read, kernel, etcd
<1>2. out["dns"] = NoEvent
  BY DEF InformDns, Read
<1>3. PICK e : e = News(dnsCache', dnsCache, "none", "none")
  OBVIOUS
<1>4. out'["dns"] = e
  BY <1>3 DEF InformDns, ProxyTyped, EventsTyped, Loop
<1>5. stream'["dns"] = <<>> => dnsCache' = dns
  BY <1>1, ReadLast DEF InformDns, Loop
<1>6. Makes(e) => dnsCache' # "none"
  BY <1>3 DEF News, Makes
<1>7. dnsCache' = "none" /\ dnsCache # "none" => Removes(e)
  <2>1. dnsCache' = "none" /\ dnsCache # "none" => e = [type |-> "remove", obj |-> "none"]
    BY <1>3 DEF News
  <2>2. [type |-> "remove", obj |-> "none"] # NoEvent
    BY NoValueAssumption DEF Event, DnsEvent, DnsState
  <2>3. QED
    BY <2>1, <2>2 DEF Removes
<1>8. QED
  BY <1>1, <1>2, <1>4, <1>5, <1>6, <1>7 DEF DnsTold, Makes, Removes

LEMMA InformsDns ==
    ASSUME ProxyInv, DnsTold, Informs
    PROVE  DnsTold'
<1> USE DEF ProxyInv
<1>1. CASE InformService
  <2>1. out'["dns"] = out["dns"] /\ stream'["dns"] = stream["dns"]
    BY <1>1 DEF InformService, Read, ProxyTyped, EventsTyped, StreamsTyped, Loop
  <2>2. QED
    BY <1>1, <2>1, DnsKept DEF InformService, Read, kernel, etcd
<1>2. CASE InformPod
  <2>1. stream'["dns"] = stream["dns"] /\ \E e : out' = [out EXCEPT !["pod"] = e]
    BY <1>2, InformPodSays DEF PodNews, InformPod, Read, ProxyTyped, StreamsTyped, Loop
  <2>2. out'["dns"] = out["dns"]
    BY <2>1 DEF ProxyTyped, EventsTyped, Loop
  <2>3. QED
    BY <1>2, <2>1, <2>2, DnsKept DEF InformPod, Read, kernel, etcd
<1>3. QED
  BY <1>1, <1>2, InformDnsTells DEF Informs

LEMMA LoseDns ==
    ASSUME ProxyInv, DnsTold, NEW l \in Loop, Lose(l)
    PROVE  DnsTold'
<1>1. CASE l # "dns" \/ stream[l] = <<>>
  <2>1. stream'["dns"] = stream["dns"] /\ ("dns" \in untold => "dns" \in untold')
    BY <1>1 DEF Lose, ProxyInv, ProxyTyped, StreamsTyped, Loop
  <2>2. QED
    BY <2>1, DnsKept DEF Lose, etcd, caches, kernel
<1>2. CASE l = "dns" /\ stream[l] # <<>>
  BY <1>2 DEF Lose, DnsTold
<1>3. QED
  BY <1>1, <1>2

LEMMA ReceiveDns ==
    ASSUME ProxyInv, DnsTold, NEW l \in Loop, Receive(l)
    PROVE  DnsTold'
<1>1. CASE l = "dns"
  <2>1. hand["dns"] = NoEvent /\ hand'["dns"] = out["dns"] /\ out'["dns"] = NoEvent
    BY <1>1 DEF Receive, ProxyInv, ProxyTyped, EventsTyped
  <2>2. QED
    BY <2>1 DEF Receive, DnsTold, Makes, Removes, caches, kernel, etcd
<1>2. CASE l # "dns"
  <2>1. hand'["dns"] = hand["dns"] /\ out'["dns"] = out["dns"]
    BY <1>2 DEF Receive, ProxyInv, ProxyTyped, EventsTyped, Loop
  <2>2. QED
    BY <2>1, DnsKept DEF Receive, caches, kernel, etcd
<1>3. QED
  BY <1>1, <1>2

LEMMA SyncDnsTells ==
    ASSUME ProxyInv, DnsTold, SyncDns
    PROVE  DnsTold'
<1> USE DEF ProxyInv
<1>1. UNCHANGED <<out, dnsCache, dnsMap, dns, stream, untold>>
  BY DEF SyncDns, caches, etcd
<1>2. PICK removes \in BOOLEAN :
         /\ removes <=> dnsMap /\ hand["dns"].type # "create" /\ nginx = "own"
         /\ \/ /\ nginx' = IF removes THEN "none" ELSE nginx
               /\ dnsFailed' = (dnsFailed /\ ~removes)
            \/ removes /\ dnsFailed' = TRUE /\ nginx' = nginx
  BY DEF SyncDns
<1>3. /\ nginx' = "own" => nginx = "own"
      /\ nginx' = "stray" => nginx = "stray" /\ ~removes
      /\ nginx' = "own" /\ ~dnsFailed' => nginx = "own" /\ ~removes /\ ~dnsFailed
  BY <1>2 DEF ProxyTyped, KernelTyped
<1>4. nginx' = "stray" /\ dnsFailed => dnsFailed'
  BY <1>2, <1>3 DEF ProxyTyped, KernelTyped
<1>5. CASE hand["dns"].type # "remove" /\ UNCHANGED hand
  BY <1>1, <1>3, <1>4, <1>5 DEF DnsTold, Makes, Removes
<1>6. CASE hand["dns"].type = "remove"
  <2>1. dnsMap => hand'["dns"] = NoEvent
    BY <1>6 DEF SyncDns, ProxyTyped, EventsTyped, Loop
  <2>2. ~dnsMap => hand'["dns"] = hand["dns"]
    BY <1>6 DEF SyncDns, Return
  <2>3. "dns" \in untold \/ ~(nginx' = "own" /\ ~dnsFailed')
    BY <1>2, <1>3, <1>6 DEF DnsTold
  <2>4. ~Makes(hand'["dns"])
    BY <1>6, <2>1, <2>2 DEF Makes
  <2>5. QED
    BY <1>1, <1>3, <1>4, <2>3, <2>4 DEF DnsTold
<1>7. QED
  BY <1>5, <1>6 DEF SyncDns, Goto

LEMMA AddDnsTells ==
    ASSUME ProxyInv, DnsTold, AddDns
    PROVE  DnsTold'
<1>1. UNCHANGED <<out, dnsCache, dns, stream, untold>>
  BY DEF AddDns, caches, etcd
<1>2. hand'["dns"] = NoEvent /\ hand["dns"] # NoEvent /\ hand["dns"].type # "remove"
  BY DEF AddDns, Unlock, ProxyInv, ProxyTyped, EventsTyped, HolderTyped, Holder, Loop
<1>3. Makes(hand["dns"]) /\ ~Removes(hand["dns"]) /\ ~Makes(hand'["dns"])
  <2>1. hand["dns"].type \in {"create", "update", "remove"}
    BY <1>2, EventFields DEF ProxyInv, ProxyTyped, DnsEvent
  <2>2. QED
    BY <1>2, <2>1 DEF Makes, Removes
<1>4. \/ nginx' = "own" /\ dnsMap' /\ UNCHANGED dnsFailed
      \/ UNCHANGED <<nginx, dnsMap, dnsFailed>>
      \/ nginx' = "stray" /\ dnsFailed' /\ UNCHANGED dnsMap
  BY DEF AddDns
<1>5. QED
  BY <1>1, <1>3, <1>4 DEF DnsTold

LEMMA ChangeDnsTells ==
    ASSUME ProxyInv, DnsTold, ChangeDns
    PROVE  DnsTold'
<1>1. dns' \in Message
  BY MessageKinds DEF ChangeDns, DnsState
<1>2. \/ "dns" \in untold'
      \/ stream'["dns"] # <<>> /\ "dns" \notin untold
  BY <1>1, TellLast DEF ChangeDns, ProxyInv, Loop, Tell
<1>3. QED
  BY <1>2 DEF ChangeDns, DnsTold, Makes, Removes, caches, kernel

\* What the writers of other objects tell.
LEMMA TellsOther ==
    ASSUME ProxyInv, DnsTold, ChangeService \/ WriteBack \/ \E p \in Pod : ChangePod(p)
    PROVE  DnsTold'
<1>1. /\ \E l \in {"service", "pod"} : \E m : Send(l, m)
      /\ "dns" \in untold => "dns" \in untold'
  BY DEF ChangeService, WriteBack, ChangePod, Tell
<1>2. stream'["dns"] = stream["dns"] /\ ("dns" \in untold => "dns" \in untold')
  BY <1>1 DEF Send, ProxyInv, ProxyTyped, StreamsTyped, Loop
<1>3. hand'["dns"] = hand["dns"]
  BY DEF ChangeService, WriteBack, ChangePod, Unlock, ProxyInv, ProxyTyped, EventsTyped,
         HolderTyped, Holder, Loop
<1>4. QED
  BY <1>2, <1>3, DnsKept DEF ChangeService, WriteBack, ChangePod, caches, kernel

LEMMA DnsStaysTold ==
    ASSUME ProxyInv, DnsTold, [Next]_vars
    PROVE  DnsTold'
<1> USE DEF ProxyInv
<1>1. CASE \E rules : Down(rules)
  <2>1. untold' = Loop
    BY <1>1 DEF Down
  <2>2. QED
    BY <2>1 DEF DnsTold, Loop
<1>2. CASE UNCHANGED <<nginx, dnsFailed, dnsMap, etcd, caches, out, stream, untold>>
           /\ hand'["dns"] = hand["dns"]
  BY <1>2, DnsKept DEF caches, etcd
<1>3. CASE \/ Start \/ SyncPod \/ LookUp \/ UNCHANGED vars \/ \E l \in Loop : Connect(l)
  BY <1>2, <1>3 DEF Start, SyncPod, Goto, LookUp, vars, kernel, Connect
<1>4. CASE NotUpdated \/ Kill \/ SelectFails
  BY <1>1, <1>2, <1>4 DEF NotUpdated, Kill, SelectFails, Return, kernel
<1>5. CASE SyncService
  <2>1. ASSUME hand' = [hand EXCEPT !["service"] = NoEvent]
        PROVE  hand'["dns"] = hand["dns"]
    BY <2>1 DEF ProxyTyped, EventsTyped, Loop
  <2>2. QED
    BY <1>1, <1>2, <1>5, <2>1 DEF SyncService, Return, Goto
<1>6. ASSUME Unlock, lock \in {"service", "pod"} PROVE hand'["dns"] = hand["dns"]
  BY <1>6 DEF Unlock, ProxyTyped, EventsTyped, Loop
<1>7. CASE ModifyPod
  BY <1>1, <1>2, <1>6, <1>7 DEF ModifyPod, Goto, kernel
<1>8. CASE SelectPods
  <2>1. lock \in {"service", "pod"}
    BY <1>8 DEF SelectPods, ProxyTyped, HolderTyped, Holder, Loop
  <2>2. hand'["dns"] = hand["dns"]
    BY <1>6, <1>8, <2>1 DEF SelectPods
  <2>3. "dns" \in untold => "dns" \in untold'
    BY <1>8 DEF SelectPods
  <2>4. QED
    BY <1>8, <2>2, <2>3, DnsKept DEF SelectPods, etcd, caches
<1>9. QED
  BY <1>3, <1>4, <1>5, <1>7, <1>8, ListsDns, InformsDns, LoseDns, ReceiveDns, SyncDnsTells,
     AddDnsTells, ChangeDnsTells, TellsOther
  DEF Next, Works, HolderSteps, Loops

LEMMA DnsStarts == Init => StreamsEnd /\ DnsTold
  BY DEF Init, StreamsEnd, Watching, Ends, DnsTold, Makes, Removes, Loop

\* When all is settled, the proxy saw every change of the DNS object, and docker
\* removed the last container it was asked to and started those it created, there is
\* a container only of an object that exists, and DNSMap leads to it: whatever order
\* of creations, changes and deletions the informer hands to a loop that is busy, and
\* although AddDNS does nothing for a name that is taken.
THEOREM ContainersFollow == Spec => []ContainersHaveDns
<1>1. Init => ProxyInv /\ DnsTold
  BY ProxyStarts, DnsStarts DEF ProxyInv
<1>2. ProxyInv /\ DnsTold /\ [Next]_vars => ProxyInv' /\ DnsTold'
  BY ProxyStaysTyped, StreamsStayEnded, DnsStaysTold DEF ProxyInv
<1>3. ProxyInv /\ DnsTold => ContainersHaveDns
  BY DEF DnsTold, ContainersHaveDns, Settled, Loop, Removes
<1>4. QED
  BY <1>1, <1>2, <1>3, PTL DEF Spec

-----------------------------------------------------------------------------
(* What reaches the holder of a service                                    *)

\* Unless the informer took something silently, or the rules were made of a
\* service that was on its way: the newest event on its way, or the holder's copy
\* when there is none, is what the cache holds, or was before its ports were put in
\* another order; and the cache holds what etcd does when all is read.
Means(e) == IF e.type = "remove" THEN NoService ELSE e.obj

SvcTold ==
    \/ "service" \in untold
    \/ /\ stream["service"] = <<>> => svcCache = svc
       /\ out["service"] # NoEvent => Means(out["service"]) = svcCache
       /\ out["service"] = NoEvent /\ hand["service"] # NoEvent =>
             Alike(svcCache, Means(hand["service"]))
       /\ out["service"] = NoEvent /\ hand["service"] = NoEvent /\ step = "select" =>
             Alike(svcCache, copy)

\* What gives no event is a step of an equivalence.
LEMMA AlikeAgain ==
    ASSUME NEW a, NEW b, NEW c, Alike(b, a), Alike(c, b)
    PROVE  Alike(c, a)
  BY DEF Alike

LEMMA AlikeSame == \A c : Alike(c, c)
  BY DEF Alike

LEMMA SvcKept ==
    ASSUME SvcTold, "service" \in untold => "service" \in untold',
           UNCHANGED <<svcCache, svc>>, out'["service"] = out["service"],
           hand'["service"] = hand["service"], stream'["service"] = stream["service"],
           step' = "select" => step = "select" /\ copy' = copy
    PROVE  SvcTold'
  BY DEF SvcTold, Means

LEMMA ListsService ==
    ASSUME ProxyInv, SvcTold, Lists
    PROVE  SvcTold'
<1>1. CASE ListPods \/ ListDns
  BY <1>1, SvcKept DEF ListPods, ListDns, etcd, holder
<1>2. CASE ListServices /\ svcCache' = svcCache
  BY <1>2, SvcKept DEF ListServices, etcd, holder
<1>3. CASE ListServices /\ svcCache' # svcCache
  BY <1>3 DEF ListServices, SvcTold
<1>4. QED
  BY <1>1, <1>2, <1>3 DEF Lists

\* Where InformService has no event the service is like the one before.
LEMMA NoNewsAlike ==
    ASSUME ProxyTyped, InformService,
           NoEvent = IF Alike(svcCache', svcCache) THEN NoEvent
                     ELSE News(svcCache', svcCache, NoService, Bare)
    PROVE  Alike(svcCache', svcCache)
<1>1. svcCache' \in Config \cup {NoService} /\ svcCache \in Config \cup {NoService}
  BY DEF InformService, Read, ProxyTyped, StreamsTyped, CachesTyped
<1>2. svcCache' # svcCache => News(svcCache', svcCache, NoService, Bare) \in ServiceEvent
  BY <1>1 DEF News, ServiceEvent
<1>3. svcCache' # svcCache => News(svcCache', svcCache, NoService, Bare) # NoEvent
  BY <1>2, NoValueAssumption DEF Event
<1>4. QED
  BY <1>3, AlikeSame

LEMMA InformServiceTells ==
    ASSUME ProxyInv, SvcTold, InformService
    PROVE  SvcTold'
<1> USE DEF ProxyInv
<1>1. Read("service") /\ UNCHANGED <<hand, holder, svc, untold>>
  BY DEF InformService, Read, etcd
<1>2. out["service"] = NoEvent
  BY DEF InformService, Read
<1>3. PICK e : e = IF Alike(svcCache', svcCache) THEN NoEvent
                   ELSE News(svcCache', svcCache, NoService, Bare)
  OBVIOUS
<1>4. out'["service"] = e
  BY <1>3 DEF InformService, ProxyTyped, EventsTyped, Loop
<1>5. stream'["service"] = <<>> => svcCache' = svc
  BY <1>1, ReadLast DEF InformService, Loop
<1>6. e # NoEvent => Means(e) = svcCache'
  BY <1>3 DEF News, Means
<1>7. e = NoEvent => Alike(svcCache', svcCache)
  BY <1>3, NoNewsAlike
<1>8. CASE e = NoEvent
  <2>1. \A c : Alike(svcCache, c) => Alike(svcCache', c)
    BY <1>7, <1>8, AlikeAgain
  <2>2. UNCHANGED <<hand, holder>> /\ out'["service"] = NoEvent
    BY <1>1, <1>4, <1>8
  <2>3. QED
    BY <1>1, <1>2, <1>5, <2>1, <2>2 DEF SvcTold, Means, holder
<1>9. CASE e # NoEvent
  BY <1>1, <1>4, <1>5, <1>6, <1>9 DEF SvcTold
<1>10. QED
  BY <1>8, <1>9

LEMMA InformsService ==
    ASSUME ProxyInv, SvcTold, Informs
    PROVE  SvcTold'
<1> USE DEF ProxyInv
<1>1. CASE InformDns
  <2>1. out'["service"] = out["service"] /\ stream'["service"] = stream["service"]
    BY <1>1 DEF InformDns, Read, ProxyTyped, EventsTyped, StreamsTyped, Loop
  <2>2. QED
    BY <1>1, <2>1, SvcKept DEF InformDns, Read, holder, etcd
<1>2. CASE InformPod
  <2>1. stream'["service"] = stream["service"] /\ \E e : out' = [out EXCEPT !["pod"] = e]
    BY <1>2, InformPodSays DEF PodNews, InformPod, Read, ProxyTyped, StreamsTyped, Loop
  <2>2. out'["service"] = out["service"]
    BY <2>1 DEF ProxyTyped, EventsTyped, Loop
  <2>3. QED
    BY <1>2, <2>1, <2>2, SvcKept DEF InformPod, Read, holder, etcd
<1>3. QED
  BY <1>1, <1>2, InformServiceTells DEF Informs

LEMMA LoseService ==
    ASSUME ProxyInv, SvcTold, NEW l \in Loop, Lose(l)
    PROVE  SvcTold'
<1>1. CASE l # "service" \/ stream[l] = <<>>
  <2>1. stream'["service"] = stream["service"] /\ ("service" \in untold => "service" \in untold')
    BY <1>1 DEF Lose, ProxyInv, ProxyTyped, StreamsTyped, Loop
  <2>2. QED
    BY <2>1, SvcKept DEF Lose, etcd, caches, holder
<1>2. CASE l = "service" /\ stream[l] # <<>>
  BY <1>2 DEF Lose, SvcTold
<1>3. QED
  BY <1>1, <1>2

LEMMA ReceiveService ==
    ASSUME ProxyInv, SvcTold, NEW l \in Loop, Receive(l)
    PROVE  SvcTold'
<1>1. CASE l = "service"
  <2>1. hand["service"] = NoEvent /\ hand'["service"] = out["service"] /\ out'["service"] = NoEvent
        /\ out["service"] # NoEvent
    BY <1>1 DEF Receive, ProxyInv, ProxyTyped, EventsTyped
  <2>2. Alike(svcCache, svcCache)
    BY AlikeSame
  <2>3. UNCHANGED <<svcCache, svc, stream, untold>>
    BY DEF Receive, caches, etcd
  <2>4. QED
    BY <2>1, <2>2, <2>3 DEF SvcTold, Means
<1>2. CASE l # "service"
  <2>1. hand'["service"] = hand["service"] /\ out'["service"] = out["service"]
    BY <1>2 DEF Receive, ProxyInv, ProxyTyped, EventsTyped, Loop
  <2>2. QED
    BY <2>1, SvcKept DEF Receive, caches, holder, etcd
<1>3. QED
  BY <1>1, <1>2

LEMMA SyncServiceTells ==
    ASSUME ProxyInv, SvcTold, SyncService
    PROVE  SvcTold'
<1> USE DEF ProxyInv
<1>1. CASE \E rules : Down(rules)
  <2>1. untold' = Loop
    BY <1>1 DEF Down
  <2>2. QED
    BY <2>1 DEF SvcTold, Loop
<1>2. CASE Return("service") /\ UNCHANGED <<etcd, stream, caches, out, untold>>
  BY <1>2, SvcKept DEF Return, etcd, caches
<1>3. CASE /\ hand' = [hand EXCEPT !["service"] = NoEvent] /\ UNCHANGED holder
           /\ UNCHANGED <<etcd, stream, caches, out, untold>>
  <2>1. step' = "none" /\ hand'["service"] = NoEvent
    BY <1>3 DEF SyncService, ProxyTyped, HolderTyped, Holder, EventsTyped, holder, Loop
  <2>2. QED
    BY <1>3, <2>1 DEF SvcTold, etcd, caches
<1>4. CASE /\ Goto("service", "select", hand["service"].obj)
           /\ UNCHANGED <<etcd, stream, caches, out, untold>>
           /\ hand["service"].type # "remove"
  BY <1>4 DEF SyncService, SvcTold, Means, Goto, etcd, caches
<1>5. QED
  BY <1>1, <1>2, <1>3, <1>4 DEF SyncService

LEMMA ModifyPodTells ==
    ASSUME ProxyInv, SvcTold, ModifyPod
    PROVE  SvcTold'
<1> USE DEF ProxyInv
<1>1. CASE \E rules : Down(rules)
  <2>1. untold' = Loop
    BY <1>1 DEF Down
  <2>2. QED
    BY <2>1 DEF SvcTold, Loop
<1>2. CASE Unlock /\ UNCHANGED <<etcd, stream, caches, out, untold>>
  <2>1. hand'["service"] = hand["service"] /\ step' = "none"
    BY <1>2 DEF ModifyPod, Unlock, ProxyTyped, EventsTyped, Loop
  <2>2. QED
    BY <1>2, <2>1, SvcKept DEF etcd, caches
<1>3. CASE /\ Goto("pod", "select", svcCache)
           /\ UNCHANGED <<etcd, stream, caches, out, untold>>
  BY <1>3, AlikeSame DEF SvcTold, Goto, etcd, caches
<1>4. QED
  BY <1>1, <1>2, <1>3 DEF ModifyPod

\* SelectPods makes the rules of what etcd holds, when nothing older is on its way.
LEMMA SelectPodsTells ==
    ASSUME ProxyInv, SvcTold, SelectPods
    PROVE  SvcTold'
<1> USE DEF ProxyInv
<1>1. /\ copy \in Config /\ step' # "select" /\ UNCHANGED <<svcCache, svc, out, stream>>
      /\ hand'["service"] \in {hand["service"], NoEvent}
  BY DEF SelectPods, Unlock, ProxyTyped, HolderTyped, Holder, EventsTyped, etcd, caches, Loop
<1>2. CASE "service" \in untold'
  BY <1>2 DEF SvcTold
<1>3. CASE "service" \notin untold /\ "service" \notin untold'
  BY <1>1, <1>3 DEF SvcTold
<1>4. CASE "service" \in untold /\ "service" \notin untold'
  <2>1. copy = svc /\ NothingOlder
    BY <1>4 DEF SelectPods
  <2>2. svcCache = svc /\ \A e \in {out["service"], hand["service"]} : e # NoEvent => e.obj = svc
    BY <2>1 DEF NothingOlder
  <2>3. /\ EventFor("service", out["service"]) /\ EventFor("service", hand["service"])
        /\ svc # Bare
    BY <1>1, <2>1, BareIsNone DEF ProxyTyped, EventsTyped, Loop
  <2>4. \A e \in {out["service"], hand["service"]} : e # NoEvent => Means(e) = svc
    BY <2>2, <2>3 DEF EventFor, Means
  <2>5. QED
    BY <1>1, <2>2, <2>4, AlikeSame DEF SvcTold
<1>5. QED
  BY <1>2, <1>3, <1>4

\* After a write that is told there is something to read.
LEMMA WritesService ==
    ASSUME ProxyInv, SvcTold, WriteBack \/ ChangeService
    PROVE  SvcTold'
<1> USE DEF ProxyInv
<1>1. svc' \in Message /\ Tell("service", svc') /\ UNCHANGED <<inf, svcCache, out>>
  BY MessageKinds DEF WriteBack, ChangeService, ProxyTyped, HolderTyped, Holder, caches
<1>2. \/ "service" \in untold'
      \/ "service" \notin untold /\ stream'["service"] # <<>>
  BY <1>1, TellLast DEF Tell, Loop
<1>3. \/ hand'["service"] \in {hand["service"], NoEvent} /\ step' = "none"
      \/ UNCHANGED <<hand, step, copy>>
  BY DEF WriteBack, ChangeService, Unlock, ProxyTyped, HolderTyped, Holder, EventsTyped, holder,
         Loop
<1>4. QED
  BY <1>1, <1>2, <1>3 DEF SvcTold

LEMMA OthersTell ==
    ASSUME ProxyInv, SvcTold, ChangeDns \/ \E p \in Pod : ChangePod(p)
    PROVE  SvcTold'
<1>1. /\ \E l \in {"dns", "pod"} : \E m : Send(l, m)
      /\ "service" \in untold => "service" \in untold'
  BY DEF ChangeDns, ChangePod, Tell
<1>2. stream'["service"] = stream["service"] /\ ("service" \in untold => "service" \in untold')
  BY <1>1 DEF Send, ProxyInv, ProxyTyped, StreamsTyped, Loop
<1>3. QED
  BY <1>2, SvcKept DEF ChangeDns, ChangePod, caches, holder

LEMMA ServiceStaysTold ==
    ASSUME ProxyInv, SvcTold, [Next]_vars
    PROVE  SvcTold'
<1> USE DEF ProxyInv
<1>1. CASE \E rules : Down(rules)
  <2>1. untold' = Loop
    BY <1>1 DEF Down
  <2>2. QED
    BY <2>1 DEF SvcTold, Loop
<1>2. CASE /\ UNCHANGED <<etcd, caches, out, stream, untold>> /\ hand'["service"] = hand["service"]
           /\ step' = "select" => step = "select" /\ copy' = copy
  BY <1>2, SvcKept DEF caches, etcd
<1>3. CASE \/ Start \/ SyncPod \/ LookUp \/ UNCHANGED vars \/ \E l \in Loop : Connect(l)
  BY <1>2, <1>3 DEF Start, SyncPod, Goto, LookUp, vars, holder, Connect
<1>4. CASE NotUpdated \/ Kill \/ SelectFails
  BY <1>1, <1>2, <1>4 DEF NotUpdated, Kill, SelectFails, Return
<1>5. CASE SyncDns
  <2>1. hand'["service"] = hand["service"]
    BY <1>5 DEF SyncDns, Goto, Return, ProxyTyped, EventsTyped, Loop
  <2>2. step' # "select"
    BY <1>5 DEF SyncDns, Goto, Return, holder, ProxyTyped, HolderTyped, Holder
  <2>3. QED
    BY <1>2, <1>5, <2>1, <2>2 DEF SyncDns
<1>6. CASE AddDns
  <2>1. hand'["service"] = hand["service"] /\ step' = "none"
    BY <1>6 DEF AddDns, Unlock, ProxyTyped, EventsTyped, Loop
  <2>2. QED
    BY <1>2, <1>6, <2>1 DEF AddDns
<1>7. QED
  BY <1>3, <1>4, <1>5, <1>6, ListsService, InformsService, LoseService, ReceiveService,
     SyncServiceTells, ModifyPodTells, SelectPodsTells, WritesService, OthersTell
  DEF Next, Works, HolderSteps, Loops

-----------------------------------------------------------------------------
(* The messages of pods                                                    *)

Steady == {"running", "failed"}

\* What no pod has been that never had an address.
Addressed == Steady \cup {"relabelled"}

\* Of messages s, pods as etcd has them (now) and the cache: the last message of a
\* pod is its state; the cache knows no address of a pod that never had one; and,
\* unless the informer missed something, it knows or will read whether a pod runs.
Latest(s, now) ==
    \A i \in 1..Len(s) : \/ s[i].state = now[s[i].pod]
                         \/ \E k \in 1..Len(s) : /\ k > i /\ s[k].pod = s[i].pod
                                                 /\ s[k].state = now[s[i].pod]
Fresh(s, now, cache) ==
    \A p \in Pod : now[p] \in {"new", "pending"} =>
        /\ cache[p] \in {"none", "pending"}
        /\ \A i \in 1..Len(s) : s[i].pod = p => s[i].state \notin Addressed

Known(s, now, cache) ==
    \A p \in Pod : now[p] \in Steady =>
        \/ cache[p] = now[p]
        \/ \E i \in 1..Len(s) : s[i].pod = p /\ s[i].state = now[p]

PodsTold ==
    /\ Latest(stream["pod"], pods) /\ Fresh(stream["pod"], pods, podCache)
    /\ "pod" \in untold \/ Known(stream["pod"], pods, podCache)

\* What the informer makes of a state, and a message that will be an event.
NewsIn(s, p, c) ==
    \E i \in 1..Len(s) :
        /\ s[i].pod = p /\ s[i].state \in Steady
        /\ \/ c # s[i].state
           \/ \E j \in 1..Len(s) : /\ j < i /\ s[j].pod = p /\ s[j].state \in Steady
                                   /\ s[j].state # s[i].state

LEMMA AppendSays ==
    ASSUME NEW s \in Seq(PodMessage), NEW m \in PodMessage
    PROVE  /\ Len(s) \in Nat /\ Len(Append(s, m)) = Len(s) + 1
           /\ \A i \in 1..Len(s) : Append(s, m)[i] = s[i]
           /\ Append(s, m)[Len(s) + 1] = m
  OBVIOUS

LEMMA TailSays ==
    ASSUME NEW s \in Seq(PodMessage), s # <<>>
    PROVE  /\ Len(s) \in Nat /\ Len(s) >= 1 /\ Len(Tail(s)) = Len(s) - 1
           /\ \A i \in 1..Len(Tail(s)) : Tail(s)[i] = s[i + 1]
           /\ Head(s) = s[1]
  BY HeadTailProperties

\* A message at n + 1 of s is at n of its tail.
LEMMA TailAt ==
    ASSUME NEW s \in Seq(PodMessage), s # <<>>, NEW n \in 1..Len(s), n # 1
    PROVE  n - 1 \in 1..Len(Tail(s)) /\ Tail(s)[n - 1] = s[n]
<1>1. PICK k \in Nat : k = n - 1
  OBVIOUS
<1>2. k \in 1..Len(Tail(s))
  BY <1>1, TailSays
<1>3. Tail(s)[k] = s[k + 1] /\ k + 1 = n
  BY <1>1, <1>2, TailSays
<1>4. QED
  BY <1>1, <1>2, <1>3

LEMMA AppendLatest ==
    ASSUME NEW s \in Seq(PodMessage), NEW now \in [Pod -> PodState], Latest(s, now),
           NEW p \in Pod, NEW x \in PodState
    PROVE  Latest(Append(s, [pod |-> p, state |-> x]), [now EXCEPT ![p] = x])
<1>1. PICK m \in PodMessage : m = [pod |-> p, state |-> x]
  BY DEF PodMessage
<1>2. PICK t : t = Append(s, m)
  OBVIOUS
<1>3. PICK n \in Nat : n = Len(s)
  OBVIOUS
<1>4. /\ Len(t) = n + 1 /\ \A i \in 1..n : t[i] = s[i]
      /\ t[n + 1] = m
  BY <1>2, <1>3, AppendSays
<1>5. PICK then : then = [now EXCEPT ![p] = x]
  OBVIOUS
<1>6. \A i \in 1..n : s[i] \in PodMessage
  BY <1>3
<1>7. ASSUME NEW i \in 1..Len(t)
      PROVE  \/ t[i].state = then[t[i].pod]
             \/ \E k \in 1..Len(t) : /\ k > i /\ t[k].pod = t[i].pod
                                     /\ t[k].state = then[t[i].pod]
  <2>1. CASE i = n + 1
    BY <1>1, <1>4, <1>5, <2>1
  <2>2. CASE i # n + 1 /\ t[i].pod = p
    <3>1. n + 1 \in 1..Len(t) /\ n + 1 > i
      BY <1>4, <2>2
    <3>2. t[n + 1].pod = p /\ t[n + 1].state = then[p]
      BY <1>1, <1>4, <1>5
    <3>3. QED
      BY <2>2, <3>1, <3>2
  <2>3. CASE i # n + 1 /\ t[i].pod # p
    <3>1. i \in 1..n /\ t[i] = s[i] /\ s[i].pod \in Pod
      BY <1>4, <1>6, <2>3 DEF PodMessage
    <3>2. then[t[i].pod] = now[s[i].pod]
      BY <1>5, <2>3, <3>1
    <3>3. CASE s[i].state = now[s[i].pod]
      BY <3>1, <3>2, <3>3
    <3>4. CASE s[i].state # now[s[i].pod]
      <4>1. PICK k \in 1..n : k > i /\ s[k].pod = s[i].pod /\ s[k].state = now[s[i].pod]
        BY <1>3, <3>1, <3>4 DEF Latest
      <4>2. k \in 1..Len(t) /\ t[k] = s[k]
        BY <1>4
      <4>3. QED
        BY <3>1, <3>2, <4>1, <4>2
    <3>5. QED
      BY <3>3, <3>4
  <2>4. QED
    BY <2>1, <2>2, <2>3
<1>8. Latest(t, then)
  BY <1>7 DEF Latest
<1>9. QED
  BY <1>1, <1>2, <1>5, <1>8

LEMMA AppendFresh ==
    ASSUME NEW s \in Seq(PodMessage), NEW now \in [Pod -> PodState], NEW cache,
           Fresh(s, now, cache), NEW p \in Pod, NEW x \in NextState(now[p])
    PROVE  Fresh(Append(s, [pod |-> p, state |-> x]), [now EXCEPT ![p] = x], cache)
<1>1. x \in PodState /\ now[p] \in PodState
  BY NextStates
<1>2. PICK m \in PodMessage : m = [pod |-> p, state |-> x]
  BY <1>1 DEF PodMessage
<1>0. PICK n \in Nat : n = Len(s)
  BY AppendSays
<1>3. PICK t : n = Len(s) /\ t = Append(s, m)
  BY <1>0
<1>4. /\ Len(t) = n + 1 /\ \A i \in 1..n : t[i] = s[i]
      /\ t[n + 1] = m
  BY <1>3, AppendSays
<1>5. x \in {"new", "pending"} => now[p] \in {"new", "pending"} /\ x \notin Addressed
  BY <1>1 DEF NextState, PodState, Addressed, Steady
<1>6. ASSUME NEW q \in Pod, [now EXCEPT ![p] = x][q] \in {"new", "pending"}
      PROVE  /\ cache[q] \in {"none", "pending"}
             /\ \A i \in 1..Len(t) : t[i].pod = q => t[i].state \notin Addressed
  <2>1. now[q] \in {"new", "pending"}
    BY <1>5, <1>6
  <2>2. /\ cache[q] \in {"none", "pending"}
        /\ \A i \in 1..n : s[i].pod = q => s[i].state \notin Addressed
    BY <1>3, <2>1 DEF Fresh
  <2>3. m.pod = q => m.state \notin Addressed
    BY <1>2, <1>5, <1>6
  <2>4. \A i \in 1..Len(t) : i \in 1..n \/ i = n + 1
    BY <1>4
  <2>5. QED
    BY <1>4, <2>2, <2>3, <2>4
<1>7. QED
  BY <1>2, <1>3, <1>6 DEF Fresh

LEMMA AppendKnown ==
    ASSUME NEW s \in Seq(PodMessage), NEW now \in [Pod -> PodState], NEW cache,
           Known(s, now, cache), NEW p \in Pod, NEW x \in PodState
    PROVE  Known(Append(s, [pod |-> p, state |-> x]), [now EXCEPT ![p] = x], cache)
<1>1. PICK m \in PodMessage : m = [pod |-> p, state |-> x]
  BY DEF PodMessage
<1>0. PICK n \in Nat : n = Len(s)
  BY AppendSays
<1>2. PICK t : n = Len(s) /\ t = Append(s, m)
  BY <1>0
<1>3. /\ Len(t) = n + 1 /\ \A i \in 1..n : t[i] = s[i]
      /\ t[n + 1] = m
  BY <1>2, AppendSays
<1>4. ASSUME NEW q \in Pod, [now EXCEPT ![p] = x][q] \in Steady
      PROVE  \/ cache[q] = [now EXCEPT ![p] = x][q]
             \/ \E i \in 1..Len(t) : t[i].pod = q /\ t[i].state = [now EXCEPT ![p] = x][q]
  <2>1. CASE q = p
    <3>1. n + 1 \in 1..Len(t) /\ t[n + 1].pod = q /\ t[n + 1].state = x
      BY <1>1, <1>3, <2>1
    <3>2. QED
      BY <2>1, <3>1
  <2>2. CASE q # p
    <3>1. [now EXCEPT ![p] = x][q] = now[q]
      BY <2>2
    <3>2. \A i \in 1..n : i \in 1..Len(t)
      BY <1>3
    <3>3. QED
      BY <1>2, <1>3, <1>4, <3>1, <3>2 DEF Known
  <2>3. QED
    BY <2>1, <2>2
<1>5. QED
  BY <1>1, <1>2, <1>4 DEF Known

LEMMA TailLatest ==
    ASSUME NEW s \in Seq(PodMessage), s # <<>>, NEW now, Latest(s, now)
    PROVE  Latest(Tail(s), now)
<1>1. PICK t : t = Tail(s)
  OBVIOUS
<1>2. ASSUME NEW i \in 1..Len(t), t[i].state # now[t[i].pod]
      PROVE  \E k \in 1..Len(t) : k > i /\ t[k].pod = t[i].pod /\ t[k].state = now[t[i].pod]
  <2>1. i + 1 \in 1..Len(s) /\ t[i] = s[i + 1]
    BY <1>1, TailSays
  <2>2. PICK k \in 1..Len(s) : k > i + 1 /\ s[k].pod = t[i].pod /\ s[k].state = now[t[i].pod]
    BY <1>2, <2>1 DEF Latest
  <2>3. k # 1 /\ k - 1 > i
    BY <2>2
  <2>4. k - 1 \in 1..Len(t) /\ t[k - 1] = s[k]
    BY <1>1, <2>3, TailAt
  <2>5. QED
    BY <2>2, <2>3, <2>4
<1>3. QED
  BY <1>1, <1>2 DEF Latest

LEMMA TailFresh ==
    ASSUME NEW s \in Seq(PodMessage), s # <<>>, NEW now, NEW cache \in [Pod -> Entry],
           Fresh(s, now, cache), NEW p \in Pod, Head(s).pod = p
    PROVE  Fresh(Tail(s), now, [cache EXCEPT ![p] = Cached(Head(s).state, cache[p])])
<1>1. PICK t : t = Tail(s)
  OBVIOUS
<1>2. PICK x : x = Cached(Head(s).state, cache[p])
  OBVIOUS
<1>3. ASSUME NEW q \in Pod, now[q] \in {"new", "pending"}
      PROVE  /\ [cache EXCEPT ![p] = x][q] \in {"none", "pending"}
             /\ \A i \in 1..Len(t) : t[i].pod = q => t[i].state \notin Addressed
  <2>1. /\ cache[q] \in {"none", "pending"}
        /\ \A i \in 1..Len(s) : s[i].pod = q => s[i].state \notin Addressed
    BY <1>3 DEF Fresh
  <2>2. \A i \in 1..Len(t) : i + 1 \in 1..Len(s) /\ t[i] = s[i + 1]
    BY <1>1, TailSays
  <2>3. 1 \in 1..Len(s) /\ Head(s) = s[1] /\ Head(s) \in PodMessage
    BY TailSays
  <2>4. p = q => Head(s).state \notin Addressed
    BY <2>1, <2>3
  <2>5. p = q => x \in {"none", "pending"}
    BY <1>2, <2>1, <2>3, <2>4 DEF Cached, PodMessage, PodState, Addressed, Steady
  <2>6. [cache EXCEPT ![p] = x][q] \in {"none", "pending"}
    BY <2>1, <2>5
  <2>7. QED
    BY <2>1, <2>2, <2>6
<1>4. QED
  BY <1>1, <1>2, <1>3 DEF Fresh

LEMMA TailKnown ==
    ASSUME NEW s \in Seq(PodMessage), s # <<>>, NEW now, NEW cache \in [Pod -> Entry],
           Latest(s, now), Known(s, now, cache), NEW p \in Pod, Head(s).pod = p
    PROVE  Known(Tail(s), now, [cache EXCEPT ![p] = Cached(Head(s).state, cache[p])])
<1>1. PICK t : t = Tail(s)
  OBVIOUS
<1>2. PICK x : x = Cached(Head(s).state, cache[p])
  OBVIOUS
<1>3. 1 \in 1..Len(s) /\ Head(s) = s[1] /\ s[1].pod = p
  BY TailSays
<1>4. ASSUME NEW q \in Pod, now[q] \in Steady
      PROVE  \/ [cache EXCEPT ![p] = x][q] = now[q]
             \/ \E i \in 1..Len(t) : t[i].pod = q /\ t[i].state = now[q]
  <2>1. ASSUME NEW i \in 1..Len(s), i # 1, s[i].pod = q, s[i].state = now[q]
        PROVE  \E k \in 1..Len(t) : t[k].pod = q /\ t[k].state = now[q]
    <3>1. i - 1 \in 1..Len(t) /\ t[i - 1] = s[i]
      BY <1>1, <2>1, TailAt
    <3>2. QED
      BY <2>1, <3>1
  <2>2. CASE q = p /\ s[1].state = now[q]
    <3>1. x = now[q]
      BY <1>2, <1>3, <1>4, <2>2 DEF Cached, Steady
    <3>2. QED
      BY <2>2, <3>1
  <2>3. CASE q = p /\ s[1].state # now[q]
    <3>1. PICK k \in 1..Len(s) : k > 1 /\ s[k].pod = p /\ s[k].state = now[p]
      BY <1>3, <2>3 DEF Latest
    <3>2. QED
      BY <2>1, <2>3, <3>1
  <2>4. CASE q # p
    <3>1. [cache EXCEPT ![p] = x][q] = cache[q]
      BY <2>4
    <3>2. CASE cache[q] = now[q]
      BY <3>1, <3>2
    <3>3. CASE cache[q] # now[q]
      <4>1. PICK i \in 1..Len(s) : s[i].pod = q /\ s[i].state = now[q]
        BY <1>4, <3>3 DEF Known
      <4>2. QED
        BY <1>3, <2>1, <2>4, <4>1
    <3>4. QED
      BY <3>2, <3>3
  <2>5. QED
    BY <2>2, <2>3, <2>4
<1>5. QED
  BY <1>1, <1>2, <1>4 DEF Known

\* News stay news when more is told; what is read of a pod becomes an event, or
\* what follows is still news.
LEMMA AppendNews ==
    ASSUME NEW s \in Seq(PodMessage), NEW m \in PodMessage, NEW p, NEW c, NewsIn(s, p, c)
    PROVE  NewsIn(Append(s, m), p, c)
<1>1. PICK t : t = Append(s, m)
  OBVIOUS
<1>2. \A i \in 1..Len(s) : i \in 1..Len(t) /\ t[i] = s[i]
  BY <1>1, AppendSays
<1>3. PICK i \in 1..Len(s) :
         /\ s[i].pod = p /\ s[i].state \in Steady
         /\ \/ c # s[i].state
            \/ \E j \in 1..Len(s) : /\ j < i /\ s[j].pod = p /\ s[j].state \in Steady
                                    /\ s[j].state # s[i].state
  BY DEF NewsIn
<1>4. i \in 1..Len(t) /\ t[i] = s[i]
  BY <1>2
<1>5. CASE c # s[i].state
  BY <1>1, <1>3, <1>4, <1>5 DEF NewsIn
<1>6. ASSUME NEW j \in 1..Len(s), j < i, s[j].pod = p, s[j].state \in Steady,
             s[j].state # s[i].state
      PROVE  NewsIn(t, p, c)
  <2>1. j \in 1..Len(t) /\ t[j] = s[j]
    BY <1>2
  <2>2. QED
    BY <1>3, <1>4, <1>6, <2>1 DEF NewsIn
<1>7. QED
  BY <1>1, <1>3, <1>5, <1>6

\* A pod that comes to run or fails, and has not just its address back, is news: to
\* a cache that knows no address of it, or that knows or will read of another state first.
LEMMA AppendIsNews ==
    ASSUME NEW s \in Seq(PodMessage), NEW now \in [Pod -> PodState], NEW cache \in [Pod -> Entry],
           Fresh(s, now, cache), Known(s, now, cache),
           NEW p \in Pod, NEW x \in NextState(now[p]), x \in Steady, now[p] # "lost"
    PROVE  NewsIn(Append(s, [pod |-> p, state |-> x]), p, cache[p])
<1>1. x \in PodState /\ now[p] \in {"new", "pending"} \cup Steady /\ now[p] # x
  BY NextStates DEF NextState, PodState, Steady
<1>2. PICK m \in PodMessage : m = [pod |-> p, state |-> x]
  BY <1>1 DEF PodMessage
<1>0. PICK n \in Nat : n = Len(s)
  BY AppendSays
<1>3. PICK t : n = Len(s) /\ t = Append(s, m)
  BY <1>0
<1>4. /\ Len(t) = n + 1 /\ \A i \in 1..n : t[i] = s[i]
      /\ t[n + 1] = m
  BY <1>3, AppendSays
<1>5. n + 1 \in 1..Len(t) /\ t[n + 1].pod = p /\ t[n + 1].state = x
  BY <1>2, <1>4
<1>6. CASE cache[p] # x
  BY <1>2, <1>3, <1>5, <1>6 DEF NewsIn
<1>7. CASE cache[p] = x
  <2>1. now[p] \in Steady
    BY <1>1, <1>7 DEF Fresh, Steady
  <2>2. PICK j \in 1..n : s[j].pod = p /\ s[j].state = now[p]
    BY <1>1, <1>3, <1>7, <2>1 DEF Known
  <2>3. j \in 1..Len(t) /\ j < n + 1 /\ t[j].pod = p /\ t[j].state \in Steady /\ t[j].state # x
    BY <1>1, <1>4, <2>1, <2>2
  <2>4. NewsIn(t, p, cache[p])
    BY <1>5, <2>3 DEF NewsIn
  <2>5. QED
    BY <1>2, <1>3, <2>4
<1>8. QED
  BY <1>6, <1>7

LEMMA TailNewsOther ==
    ASSUME NEW s \in Seq(PodMessage), s # <<>>, NEW p, NEW c, NewsIn(s, p, c), Head(s).pod # p
    PROVE  NewsIn(Tail(s), p, c)
<1>1. PICK t : t = Tail(s)
  OBVIOUS
<1>2. Head(s) = s[1]
  BY TailSays
<1>3. PICK i \in 1..Len(s) :
         /\ s[i].pod = p /\ s[i].state \in Steady
         /\ \/ c # s[i].state
            \/ \E j \in 1..Len(s) : /\ j < i /\ s[j].pod = p /\ s[j].state \in Steady
                                    /\ s[j].state # s[i].state
  BY DEF NewsIn
<1>4. i # 1
  BY <1>2, <1>3
<1>5. i - 1 \in 1..Len(t) /\ t[i - 1] = s[i]
  BY <1>1, <1>4, TailAt
<1>6. CASE c # s[i].state
  BY <1>1, <1>3, <1>5, <1>6 DEF NewsIn
<1>7. ASSUME NEW j \in 1..Len(s), j < i, s[j].pod = p, s[j].state \in Steady,
             s[j].state # s[i].state
      PROVE  NewsIn(t, p, c)
  <2>1. j # 1
    BY <1>2, <1>7
  <2>2. j - 1 \in 1..Len(t) /\ t[j - 1] = s[j] /\ j - 1 < i - 1
    BY <1>1, <1>7, <2>1, TailAt
  <2>3. QED
    BY <1>3, <1>5, <1>7, <2>2 DEF NewsIn
<1>8. QED
  BY <1>1, <1>3, <1>6, <1>7

LEMMA TailNews ==
    ASSUME NEW s \in Seq(PodMessage), s # <<>>, NEW p, NEW c, NewsIn(s, p, c), Head(s).pod = p
    PROVE  \/ NewsIn(Tail(s), p, Cached(Head(s).state, c))
           \/ Head(s).state \in Steady /\ Head(s).state # c
<1>1. PICK t, x : t = Tail(s) /\ x = Head(s).state
  OBVIOUS
<1>2. Head(s) = s[1] /\ s[1].state = x /\ x \in PodState
  <2>1. Head(s) \in PodMessage
    BY HeadTailProperties
  <2>2. QED
    BY <1>1, <2>1, TailSays DEF PodMessage
<1>3. PICK i \in 1..Len(s) :
         /\ s[i].pod = p /\ s[i].state \in Steady
         /\ \/ c # s[i].state
            \/ \E j \in 1..Len(s) : /\ j < i /\ s[j].pod = p /\ s[j].state \in Steady
                                    /\ s[j].state # s[i].state
  BY DEF NewsIn
<1>4. CASE i = 1
  BY <1>1, <1>2, <1>3, <1>4
<1>5. ASSUME i # 1, ~(x \in Steady /\ x # c)
      PROVE  NewsIn(t, p, Cached(x, c))
  <2>1. i - 1 \in 1..Len(t) /\ t[i - 1] = s[i]
    BY <1>1, <1>5, TailAt
  <2>2. CASE Cached(x, c) # s[i].state
    BY <1>3, <2>1, <2>2 DEF NewsIn
  <2>3. ASSUME Cached(x, c) = s[i].state
        PROVE  c = s[i].state /\ (x \in Steady => x = s[i].state)
    BY <1>2, <1>3, <1>5, <2>3 DEF Cached, Steady, PodState
  <2>4. CASE Cached(x, c) = s[i].state
    <3>1. PICK j \in 1..Len(s) : /\ j < i /\ s[j].pod = p /\ s[j].state \in Steady
                                 /\ s[j].state # s[i].state
      BY <1>3, <2>3, <2>4
    <3>2. j # 1
      BY <1>2, <2>3, <2>4, <3>1
    <3>3. j - 1 \in 1..Len(t) /\ t[j - 1] = s[j] /\ j - 1 < i - 1
      BY <1>1, <3>1, <3>2, TailAt
    <3>4. QED
      BY <1>3, <2>1, <3>1, <3>3 DEF NewsIn
  <2>5. QED
    BY <2>2, <2>4
<1>6. QED
  BY <1>1, <1>4, <1>5

LEMMA PodsKept ==
    ASSUME PodsTold, UNCHANGED <<pods, podCache>>, stream'["pod"] = stream["pod"],
           "pod" \in untold => "pod" \in untold'
    PROVE  PodsTold'
  BY DEF PodsTold, Latest, Fresh, Known

LEMMA NoMessages ==
    ASSUME NEW s, s = <<>>, NEW now
    PROVE  Latest(s, now)
<1>1. Len(s) = 0
  BY EmptySeq, Zenon
<1>2. QED
  BY <1>1 DEF Latest

LEMMA EmptyFresh ==
    ASSUME NEW s, s = <<>>, NEW now, NEW cache,
           \A p \in Pod : now[p] \in {"new", "pending"} => cache[p] \in {"none", "pending"}
    PROVE  Fresh(s, now, cache)
<1>1. Len(s) = 0
  BY EmptySeq, Zenon
<1>2. QED
  BY <1>1 DEF Fresh

LEMMA DownTold ==
    ASSUME NEW rules, Down(rules)
    PROVE  PodsTold'
<1>1. stream'["pod"] = <<>> /\ "pod" \in untold' /\ \A p \in Pod : podCache'[p] = "none"
  BY DEF Down, Loop
<1>2. Latest(stream'["pod"], pods') /\ Fresh(stream'["pod"], pods', podCache')
  BY <1>1, NoMessages, EmptyFresh
<1>3. QED
  BY <1>1, <1>2 DEF PodsTold

LEMMA ListsPods ==
    ASSUME ProxyInv, PodsTold, Lists
    PROVE  PodsTold'
<1>1. CASE ListServices \/ ListDns
  BY <1>1, PodsKept DEF ListServices, ListDns, etcd
<1>2. CASE ListPods /\ podCache' = podCache
  BY <1>2, PodsKept DEF ListPods, etcd
<1>3. CASE ListPods /\ podCache' # podCache
  <2>1. stream'["pod"] = <<>> /\ UNCHANGED pods /\ "pod" \in untold'
    BY <1>3 DEF ListPods, ProxyInv, StreamsEnd, Watching, Loop, etcd
  <2>2. ASSUME NEW p \in Pod, pods[p] \in {"new", "pending"}
        PROVE  podCache'[p] \in {"none", "pending"}
    BY <1>3, <2>2 DEF ListPods, ListedPods, PodsTold, Fresh
  <2>3. Latest(stream'["pod"], pods') /\ Fresh(stream'["pod"], pods', podCache')
    BY <2>1, <2>2, NoMessages, EmptyFresh
  <2>4. QED
    BY <2>1, <2>3 DEF PodsTold
<1>4. QED
  BY <1>1, <1>2, <1>3 DEF Lists

LEMMA InformPodTells ==
    ASSUME ProxyInv, PodsTold, InformPod
    PROVE  PodsTold'
<1> USE DEF ProxyInv
<1>0. PICK p \in Pod, state \in PodState, new \in Entry : \E e : PodNews(p, state, new, e)
  BY InformPodSays
<1>1. PICK e : PodNews(p, state, new, e)
  BY <1>0
<1>2. PICK s \in Seq(PodMessage) : s = stream["pod"]
  BY DEF ProxyTyped, StreamsTyped
<1>3. Head(s).pod = p /\ Head(s).state = state /\ s # <<>> /\ new = Cached(state, podCache[p])
  BY <1>1, <1>2 DEF PodNews, Cached, InformPod, Read
<1>4. PICK cache \in [Pod -> Entry], after \in [Pod -> Entry] :
         cache = podCache /\ after = podCache'
  BY InformPodTyped DEF ProxyTyped, CachesTyped, Entry
<1>5. after = [cache EXCEPT ![p] = Cached(Head(s).state, cache[p])]
  BY <1>1, <1>3, <1>4 DEF PodNews
<1>6. Latest(s, pods) /\ Fresh(s, pods, cache) /\ ("pod" \in untold \/ Known(s, pods, cache))
  BY <1>2, <1>4 DEF PodsTold
<1>7. /\ Latest(Tail(s), pods) /\ Fresh(Tail(s), pods, after)
      /\ "pod" \in untold \/ Known(Tail(s), pods, after)
  BY <1>3, <1>5, <1>6, TailLatest, TailFresh, TailKnown
<1>8. stream'["pod"] = Tail(s) /\ UNCHANGED <<pods, untold>>
  BY <1>2 DEF InformPod, Read, ProxyTyped, StreamsTyped, etcd, Loop
<1>9. QED
  BY <1>4, <1>7, <1>8 DEF PodsTold

LEMMA LosePods ==
    ASSUME ProxyInv, PodsTold, NEW l \in Loop, Lose(l)
    PROVE  PodsTold'
<1> USE DEF ProxyInv
<1>1. UNCHANGED <<pods, podCache>>
  BY DEF Lose, etcd, caches
<1>2. CASE l # "pod" \/ stream[l] = <<>>
  <2>1. stream'["pod"] = stream["pod"] /\ ("pod" \in untold => "pod" \in untold')
    BY <1>2 DEF Lose, ProxyTyped, StreamsTyped, Loop
  <2>2. QED
    BY <1>1, <2>1, PodsKept
<1>3. CASE l = "pod" /\ stream[l] # <<>>
  <2>1. stream'["pod"] = <<>> /\ "pod" \in untold'
    BY <1>3 DEF Lose, ProxyTyped, StreamsTyped, Loop
  <2>2. \A p \in Pod : pods[p] \in {"new", "pending"} => podCache[p] \in {"none", "pending"}
    BY DEF PodsTold, Fresh
  <2>3. Latest(stream'["pod"], pods) /\ Fresh(stream'["pod"], pods, podCache)
    BY <2>1, <2>2, NoMessages, EmptyFresh
  <2>4. QED
    BY <1>1, <2>1, <2>3 DEF PodsTold
<1>4. QED
  BY <1>2, <1>3

\* A change of a pod that an informer is told of, or is not.
LEMMA ChangePodSays ==
    ASSUME ProxyInv, NEW p \in Pod, ChangePod(p)
    PROVE  \E x \in NextState(pods[p]) :
               /\ x \in PodState /\ pods' = [pods EXCEPT ![p] = x]
               /\ \/ stream'["pod"] = Append(stream["pod"], [pod |-> p, state |-> x])
                  \/ stream'["pod"] = stream["pod"] /\ stream["pod"] = <<>> /\ "pod" \in untold'
               /\ untold \subseteq untold' /\ untold' \subseteq untold \cup {"pod"}
               /\ stream'["service"] = stream["service"]
               /\ InVain(pods[p], x) => "pod" \in untold'
<1> USE DEF ProxyInv
<1>1. pods[p] \in PodState
  BY DEF ProxyTyped, EtcdTyped
<1>2. PICK x \in NextState(pods[p]) :
         /\ pods' = [pods EXCEPT ![p] = x] /\ Send("pod", [pod |-> p, state |-> x])
         /\ untold' = IF inf["pod"] = "watch" /\ ~InVain(pods[p], x)
                      THEN untold ELSE untold \cup {"pod"}
  BY DEF ChangePod
<1>3. x \in PodState
  BY <1>1, NextStates
<1>4. [pod |-> p, state |-> x] \in Message
  BY <1>3, MessageKinds DEF PodMessage
<1>5. CASE inf["pod"] = "watch"
  BY <1>2, <1>3, <1>5 DEF Send, ProxyTyped, StreamsTyped, Loop
<1>6. CASE inf["pod"] # "watch"
  BY <1>2, <1>3, <1>6 DEF Send, StreamsEnd, Watching, Loop
<1>7. QED
  BY <1>5, <1>6

LEMMA ChangePodTells ==
    ASSUME ProxyInv, PodsTold, NEW p \in Pod, ChangePod(p)
    PROVE  PodsTold'
<1>1. PICK x \in NextState(pods[p]) :
               /\ x \in PodState /\ pods' = [pods EXCEPT ![p] = x]
               /\ \/ stream'["pod"] = Append(stream["pod"], [pod |-> p, state |-> x])
                  \/ stream'["pod"] = stream["pod"] /\ stream["pod"] = <<>> /\ "pod" \in untold'
               /\ untold \subseteq untold' /\ untold' \subseteq untold \cup {"pod"}
  BY ChangePodSays
<1>2. PICK s \in Seq(PodMessage), now \in [Pod -> PodState] : s = stream["pod"] /\ now = pods
  BY DEF ProxyInv, ProxyTyped, StreamsTyped, EtcdTyped
<1>3. PICK cache : cache = podCache /\ cache = podCache'
  BY DEF ChangePod, caches
<1>4. Latest(s, now) /\ Fresh(s, now, cache) /\ ("pod" \in untold \/ Known(s, now, cache))
  BY <1>2, <1>3 DEF PodsTold
<1>5. PICK then : then = [now EXCEPT ![p] = x]
  OBVIOUS
<1>6. pods' = then /\ x \in NextState(now[p])
  BY <1>1, <1>2, <1>5
<1>7. CASE stream'["pod"] = Append(stream["pod"], [pod |-> p, state |-> x])
  <2>1. PICK t : t = Append(s, [pod |-> p, state |-> x])
    OBVIOUS
  <2>2. Latest(t, then) /\ Fresh(t, then, cache) /\ ("pod" \in untold \/ Known(t, then, cache))
    BY <1>1, <1>4, <1>5, <1>6, <2>1, AppendLatest, AppendFresh, AppendKnown
  <2>3. QED
    BY <1>1, <1>2, <1>3, <1>6, <1>7, <2>1, <2>2 DEF PodsTold
<1>8. CASE stream'["pod"] = stream["pod"] /\ stream["pod"] = <<>> /\ "pod" \in untold'
  <2>1. Fresh(Append(s, [pod |-> p, state |-> x]), then, cache)
    BY <1>4, <1>5, <1>6, AppendFresh
  <2>2. \A q \in Pod : then[q] \in {"new", "pending"} => cache[q] \in {"none", "pending"}
    BY <2>1 DEF Fresh
  <2>3. Latest(s, then) /\ Fresh(s, then, cache)
    BY <1>2, <1>8, <2>2, NoMessages, EmptyFresh
  <2>4. QED
    BY <1>2, <1>3, <1>6, <1>8, <2>3 DEF PodsTold
<1>9. QED
  BY <1>1, <1>7, <1>8

\* SelectPods takes the pods as told when the cache holds what a list would say.
LEMMA SelectPodsKnows ==
    ASSUME ProxyInv, PodsTold, SelectPods
    PROVE  PodsTold'
<1>1. UNCHANGED <<pods, podCache, stream>>
  BY DEF SelectPods, etcd, caches
<1>2. CASE "pod" \in untold => "pod" \in untold'
  BY <1>1, <1>2, PodsKept
<1>3. CASE "pod" \in untold /\ "pod" \notin untold'
  <2>1. podCache = ListedPods
    BY <1>3 DEF SelectPods
  <2>2. \A p \in Pod : pods[p] \in Steady => podCache[p] = pods[p]
    BY <2>1 DEF ListedPods, Steady
  <2>3. Known(stream["pod"], pods, podCache)
    BY <2>2 DEF Known
  <2>4. Latest(stream["pod"], pods) /\ Fresh(stream["pod"], pods, podCache)
    BY DEF PodsTold
  <2>5. QED
    BY <1>1, <2>3, <2>4 DEF PodsTold
<1>4. QED
  BY <1>2, <1>3

LEMMA PodsStayTold ==
    ASSUME ProxyInv, PodsTold, [Next]_vars
    PROVE  PodsTold'
<1> USE DEF ProxyInv
<1>1. CASE \E rules : Down(rules)
  BY <1>1, DownTold
<1>2. CASE UNCHANGED <<pods, podCache, untold>> /\ stream'["pod"] = stream["pod"]
  BY <1>2, PodsKept
<1>3. CASE \/ Start \/ SyncPod \/ LookUp \/ SyncDns \/ AddDns \/ UNCHANGED vars
           \/ \E l \in Loop : Connect(l) \/ Receive(l)
  BY <1>2, <1>3 DEF Start, SyncPod, LookUp, SyncDns, AddDns, vars, etcd, caches, Connect, Receive
<1>4. CASE NotUpdated \/ Kill \/ SelectFails
  BY <1>1, <1>2, <1>4 DEF NotUpdated, Kill, SelectFails, etcd, caches
<1>5. CASE SyncService \/ ModifyPod
  BY <1>1, <1>2, <1>5 DEF SyncService, ModifyPod, etcd, caches
<1>6. CASE InformService \/ InformDns
  <2>1. stream'["pod"] = stream["pod"]
    BY <1>6 DEF InformService, InformDns, Read, ProxyTyped, StreamsTyped, Loop
  <2>2. QED
    BY <1>2, <1>6, <2>1 DEF InformService, InformDns, Read, etcd
<1>7. CASE WriteBack \/ ChangeService \/ ChangeDns
  <2>1. PICK l \in {"service", "dns"} : \E m : Tell(l, m)
    BY <1>7 DEF WriteBack, ChangeService, ChangeDns
  <2>2. stream'["pod"] = stream["pod"] /\ ("pod" \in untold => "pod" \in untold')
    BY <2>1 DEF Tell, Send, ProxyTyped, StreamsTyped, Loop
  <2>3. QED
    BY <1>7, <2>2, PodsKept DEF WriteBack, ChangeService, ChangeDns, caches
<1>8. QED
  BY <1>3, <1>4, <1>5, <1>6, <1>7, ListsPods, InformPodTells, LosePods, ChangePodTells,
     SelectPodsKnows
  DEF Next, Works, Informs, HolderSteps, Loops

-----------------------------------------------------------------------------
(* The rules                                                               *)

\* A pod is due when an event of it is on its way that the pod loop has not made
\* rules for, or a message that will be one.
Serves == lock = "pod" /\ step \in {"lookup", "write"}

Due(p) ==
    \/ Makes(out["pod"]) /\ out["pod"].obj = p
    \/ Makes(hand["pod"]) /\ hand["pod"].obj = p /\ ~Serves
    \/ NewsIn(stream["pod"], p, podCache[p])

\* No service is on its way to the rules.
Current ==
    /\ out["service"] = NoEvent /\ step # "select"
    /\ hand["service"] = NoEvent \/ (lock = "service" /\ step \in {"lookup", "write"})

MadeOf(c) ==
    chain # NoChain => /\ {chain[i].dest : i \in DOMAIN chain} = DestsOf(c)
                       /\ \A i \in DOMAIN chain : chain[i].to \subseteq c.sel

Served(p) ==
    IF chain = NoChain THEN pods[p] # "running"
    ELSE \A i \in DOMAIN chain : p \in chain[i].to <=> pods[p] = "running"

Told == "service" \notin untold /\ "pod" \notin untold

\* The rules are those of the cached service, and lead to a pod of it if it runs,
\* unless that pod is due or gone.
RulesTold ==
    /\ step = "select" => chain = NoChain
    /\ Told /\ Current /\ svcCache # NoService =>
          /\ MadeOf(svcCache)
          /\ \A p \in svcCache.sel : pods[p] = "gone" \/ Served(p) \/ Due(p)

CubeProxyInv == ProxyInv /\ SvcTold /\ PodsTold /\ RulesTold

LEMMA Selects ==
    ASSUME ProxyTyped, svcCache # NoService
    PROVE  svcCache \in Config /\ svcCache.sel \subseteq Pod
  BY ConfigAssumption DEF ProxyTyped, CachesTyped, Selection

LEMMA DueKept ==
    ASSUME out'["pod"] = out["pod"], hand'["pod"] = hand["pod"], stream'["pod"] = stream["pod"],
           UNCHANGED podCache, Serves' => Serves
    PROVE  \A p \in Pod : Due(p) => Due(p)'
  BY DEF Due, Makes, NewsIn

LEMMA RulesKept ==
    ASSUME ProxyTyped, RulesTold, Told' => Told, UNCHANGED <<chain, pods>>,
           svcCache' = svcCache \/ Alike(svcCache', svcCache), Current' => Current,
           step' = "select" => step = "select",
           \A p \in Pod : Due(p) => Due(p)'
    PROVE  RulesTold'
<1>1. svcCache # NoService => svcCache.sel \subseteq Pod
  BY Selects
<1>2. ASSUME Told', Current', svcCache' # NoService
      PROVE  /\ MadeOf(svcCache)'
             /\ \A p \in svcCache'.sel : pods[p]' = "gone" \/ Served(p)' \/ Due(p)'
  <2>0. /\ svcCache # NoService /\ svcCache'.sel = svcCache.sel
        /\ DestsOf(svcCache') = DestsOf(svcCache)
    BY <1>2 DEF Alike
  <2>1. /\ MadeOf(svcCache)
        /\ \A p \in svcCache.sel : pods[p] = "gone" \/ Served(p) \/ Due(p)
    BY <1>2, <2>0 DEF RulesTold
  <2>2. MadeOf(svcCache)'
    <3>1. PICK old, new : old = svcCache /\ new = svcCache' /\ new.sel = old.sel
                          /\ DestsOf(new) = DestsOf(old)
      BY <2>0
    <3>2. chain # NoChain => /\ {chain[i].dest : i \in DOMAIN chain} = DestsOf(new)
                             /\ \A i \in DOMAIN chain : chain[i].to \subseteq new.sel
      BY <2>1, <3>1 DEF MadeOf
    <3>3. chain' # NoChain => /\ {chain'[i].dest : i \in DOMAIN chain'} = DestsOf(new)
                              /\ \A i \in DOMAIN chain' : chain'[i].to \subseteq new.sel
      BY <3>2
    <3>4. QED
      BY <3>1, <3>3 DEF MadeOf, DestsOf
  <2>3. \A p \in svcCache.sel : Served(p) => Served(p)'
    BY DEF Served
  <2>4. QED
    BY <1>1, <1>2, <2>0, <2>1, <2>2, <2>3
<1>3. step' = "select" => chain' = NoChain
  BY DEF RulesTold
<1>4. QED
  BY <1>2, <1>3 DEF RulesTold

\* What does not reach the rules yet.
LEMMA NotCurrent ==
    ASSUME ~Told' \/ ~Current' \/ svcCache' = NoService, step' = "select" => chain' = NoChain
    PROVE  RulesTold'
  BY DEF RulesTold

LEMMA DownRules ==
    ASSUME NEW rules, Down(rules)
    PROVE  RulesTold'
  BY DEF Down, RulesTold, Told, Loop

LEMMA ListsRules ==
    ASSUME CubeProxyInv, Lists
    PROVE  RulesTold'
<1> USE DEF CubeProxyInv, ProxyInv
<1>1. UNCHANGED <<stream, pods, out, hand, holder, chain>> /\ untold \subseteq untold'
  BY DEF Lists, ListServices, ListPods, ListDns, etcd, kernel
<1>2. CASE UNCHANGED <<svcCache, podCache>>
  <2>1. \A p \in Pod : Due(p) => Due(p)'
    BY <1>1, <1>2, DueKept DEF Serves, holder
  <2>2. (Current' => Current) /\ (Told' => Told) /\ step' = step
    BY <1>1 DEF Current, Told, holder
  <2>3. QED
    BY <1>1, <1>2, <2>1, <2>2, RulesKept
<1>3. CASE ~UNCHANGED <<svcCache, podCache>>
  <2>1. ~Told'
    BY <1>3 DEF Lists, ListServices, ListPods, ListDns, Told
  <2>2. QED
    BY <1>1, <2>1, NotCurrent DEF RulesTold, holder
<1>4. QED
  BY <1>2, <1>3

LEMMA InformServiceRules ==
    ASSUME CubeProxyInv, InformService
    PROVE  RulesTold'
<1> USE DEF CubeProxyInv, ProxyInv
<1>1. UNCHANGED <<pods, hand, holder, chain, podCache, untold>>
  BY DEF InformService, Read, etcd, kernel
<1>2. PICK e : e = IF Alike(svcCache', svcCache) THEN NoEvent
                   ELSE News(svcCache', svcCache, NoService, Bare)
  OBVIOUS
<1>3. out' = [out EXCEPT !["service"] = e]
  BY <1>2 DEF InformService
<1>4. out'["service"] = e /\ out'["pod"] = out["pod"] /\ stream'["pod"] = stream["pod"]
  BY <1>3 DEF InformService, Read, ProxyTyped, EventsTyped, StreamsTyped, Loop
<1>5. e = NoEvent => Alike(svcCache', svcCache)
  BY <1>2, NoNewsAlike
<1>6. CASE e # NoEvent
  BY <1>1, <1>4, <1>6, NotCurrent DEF Current, RulesTold, holder
<1>7. CASE e = NoEvent
  <2>1. \A p \in Pod : Due(p) => Due(p)'
    BY <1>1, <1>4, DueKept DEF Serves, holder
  <2>2. (Current' => Current) /\ (Told' => Told) /\ step' = step
    BY <1>1, <1>4 DEF Current, Told, holder, InformService, Read
  <2>3. QED
    BY <1>1, <1>5, <1>7, <2>1, <2>2, RulesKept
<1>8. QED
  BY <1>6, <1>7

\* The pod of a message that is news is due by its event, or by what follows.
LEMMA InformPodRules ==
    ASSUME CubeProxyInv, InformPod
    PROVE  RulesTold'
<1> USE DEF CubeProxyInv, ProxyInv
<1>0. PICK p \in Pod, state \in PodState, new \in Entry : \E e : PodNews(p, state, new, e)
  BY InformPodSays
<1>1. PICK e : PodNews(p, state, new, e)
  BY <1>0
<1>2. PICK s \in Seq(PodMessage) : s = stream["pod"]
  BY DEF ProxyTyped, StreamsTyped
<1>3. Head(s).pod = p /\ Head(s).state = state /\ s # <<>> /\ new = Cached(state, podCache[p])
  BY <1>1, <1>2 DEF PodNews, Cached, InformPod, Read
<1>4. stream'["pod"] = Tail(s)
  BY <1>2 DEF InformPod, Read, ProxyTyped, StreamsTyped, Loop
<1>5. UNCHANGED <<pods, hand, holder, chain, svcCache, untold>> /\ out["pod"] = NoEvent
  BY DEF InformPod, Read, etcd, kernel
<1>6. out'["pod"] = e /\ out'["service"] = out["service"]
  BY <1>1 DEF PodNews, ProxyTyped, EventsTyped, Loop
<1>7. podCache'[p] = new /\ \A q \in Pod : q # p => podCache'[q] = podCache[q]
  BY <1>1 DEF PodNews, ProxyTyped, CachesTyped
<1>8. ASSUME NEW q \in Pod, NewsIn(s, q, podCache[q])
      PROVE  NewsIn(Tail(s), q, podCache'[q]) \/ (Makes(e) /\ e.obj = q)
  <2>1. CASE q # p
    <3>1. NewsIn(Tail(s), q, podCache[q])
      BY <1>3, <1>8, <2>1, TailNewsOther
    <3>2. QED
      BY <1>7, <2>1, <3>1
  <2>2. CASE q = p
    <3>1. \/ NewsIn(Tail(s), q, Cached(state, podCache[q]))
          \/ state \in Steady /\ state # podCache[q]
      BY <1>3, <1>8, <2>2, TailNews
    <3>2. state \in Steady => new = state
      BY <1>3 DEF Cached, Steady
    <3>3. ASSUME state \in Steady, state # podCache[q] PROVE Makes(e) /\ e.obj = q
      <4>1. new # podCache[p] /\ NewsType(new, podCache[p]) \in {"create", "update"}
        BY <2>2, <3>2, <3>3 DEF NewsType, Steady
      <4>2. e = [type |-> NewsType(new, podCache[p]), obj |-> p] /\ e # NoEvent
        BY <1>1, <4>1, NewsTyped DEF PodNews
      <4>3. QED
        BY <2>2, <4>1, <4>2 DEF Makes
    <3>4. QED
      BY <1>3, <1>7, <2>2, <3>1, <3>3
  <2>3. QED
    BY <2>1, <2>2
<1>9. ASSUME NEW q \in Pod, Due(q) PROVE Due(q)'
  <2>1. CASE Makes(hand["pod"]) /\ hand["pod"].obj = q /\ ~Serves
    BY <1>5, <2>1 DEF Due, Serves, holder
  <2>2. CASE NewsIn(s, q, podCache[q])
    BY <1>4, <1>6, <1>8, <2>2 DEF Due
  <2>3. QED
    BY <1>2, <1>5, <1>9, <2>1, <2>2 DEF Due, Makes
<1>10. (Current' => Current) /\ (Told' => Told) /\ step' = step
  BY <1>5, <1>6 DEF Current, Told, holder
<1>11. QED
  BY <1>5, <1>9, <1>10, RulesKept

LEMMA InformsRules ==
    ASSUME CubeProxyInv, Informs
    PROVE  RulesTold'
<1> USE DEF CubeProxyInv, ProxyInv
<1>1. CASE InformDns
  <2>1. /\ out'["service"] = out["service"] /\ out'["pod"] = out["pod"]
        /\ stream'["pod"] = stream["pod"]
    BY <1>1 DEF InformDns, Read, ProxyTyped, EventsTyped, StreamsTyped, Loop
  <2>2. UNCHANGED <<svcCache, chain, pods, podCache, hand, holder, untold>>
    BY <1>1 DEF InformDns, Read, etcd, kernel
  <2>3. \A p \in Pod : Due(p) => Due(p)'
    BY <2>1, <2>2, DueKept DEF Serves, holder
  <2>4. (Current' => Current) /\ (Told' => Told) /\ step' = step
    BY <2>1, <2>2 DEF Current, Told, holder
  <2>5. QED
    BY <2>2, <2>3, <2>4, RulesKept
<1>2. QED
  BY <1>1, InformServiceRules, InformPodRules DEF Informs

LEMMA LoseRules ==
    ASSUME CubeProxyInv, NEW l \in Loop, Lose(l)
    PROVE  RulesTold'
<1> USE DEF CubeProxyInv, ProxyInv
<1>1. UNCHANGED <<svcCache, podCache, chain, pods, out, hand, holder>> /\ untold \subseteq untold'
  BY DEF Lose, etcd, caches, kernel
<1>2. CASE l # "pod" \/ stream[l] = <<>>
  <2>1. stream'["pod"] = stream["pod"]
    BY <1>2 DEF Lose, ProxyTyped, StreamsTyped, Loop
  <2>2. \A p \in Pod : Due(p) => Due(p)'
    BY <1>1, <2>1, DueKept DEF Serves, holder
  <2>3. (Current' => Current) /\ (Told' => Told) /\ step' = step
    BY <1>1 DEF Current, Told, holder
  <2>4. QED
    BY <1>1, <2>2, <2>3, RulesKept
<1>3. CASE l = "pod" /\ stream[l] # <<>>
  <2>1. ~Told'
    BY <1>3 DEF Lose, Told
  <2>2. QED
    BY <1>1, <2>1, NotCurrent DEF RulesTold, holder
<1>4. QED
  BY <1>2, <1>3

LEMMA ReceiveRules ==
    ASSUME CubeProxyInv, NEW l \in Loop, Receive(l)
    PROVE  RulesTold'
<1> USE DEF CubeProxyInv, ProxyInv
<1>1. UNCHANGED <<svcCache, podCache, chain, pods, stream, holder, untold>>
  BY DEF Receive, etcd, caches, kernel
<1>2. /\ hand[l] = NoEvent /\ out[l] # NoEvent /\ hand'[l] = out[l] /\ out'[l] = NoEvent
      /\ \A k \in Loop : k # l => hand'[k] = hand[k] /\ out'[k] = out[k]
  BY DEF Receive, ProxyTyped, EventsTyped
<1>3. lock # l
  BY <1>2 DEF ProxyTyped, HolderTyped, Holder, Loop
<1>4. CASE l = "service"
  <2>1. ~Current'
    BY <1>1, <1>2, <1>3, <1>4 DEF Current, holder
  <2>2. QED
    BY <1>1, <2>1, NotCurrent DEF RulesTold, holder
<1>5. CASE l # "service"
  <2>1. out'["service"] = out["service"] /\ hand'["service"] = hand["service"]
    BY <1>2, <1>5 DEF Loop
  <2>2. (Current' => Current) /\ (Told' => Told) /\ step' = step
    BY <1>1, <2>1 DEF Current, Told, holder
  <2>3. \A p \in Pod : Due(p) => Due(p)'
    <3>1. CASE l = "pod"
      BY <1>1, <1>2, <1>3, <3>1 DEF Due, Makes, Serves, holder
    <3>2. CASE l = "dns"
      BY <1>1, <1>2, <3>2, DueKept DEF Serves, holder, Loop
    <3>3. QED
      BY <1>5, <3>1, <3>2 DEF Loop
  <2>4. QED
    BY <1>1, <2>2, <2>3, RulesKept
<1>6. QED
  BY <1>4, <1>5

\* A removal leaves no cached service; another event has the rules made again.
LEMMA SyncServiceRules ==
    ASSUME CubeProxyInv, SyncService
    PROVE  RulesTold'
<1> USE DEF CubeProxyInv, ProxyInv
<1>1. CASE \E rules : Down(rules)
  BY <1>1, DownRules
<1>2. CASE Return("service")
  <2>1. hand'["service"] # NoEvent /\ step' = "none"
    BY <1>2 DEF SyncService, Return
  <2>2. ~Current'
    BY <2>1 DEF Current
  <2>3. QED
    BY <2>1, <2>2, NotCurrent
<1>3. CASE /\ hand["service"].type = "remove" /\ UNCHANGED <<holder, caches, out, untold>>
           /\ hand' = [hand EXCEPT !["service"] = NoEvent]
  <2>1. step' = "none"
    BY <1>3 DEF SyncService, ProxyTyped, HolderTyped, Holder, holder
  <2>2. ~Told' \/ ~Current' \/ svcCache' = NoService
    BY <1>3 DEF SyncService, SvcTold, Means, Alike, Told, Current, caches
  <2>3. QED
    BY <2>1, <2>2, NotCurrent
<1>4. CASE Goto("service", "select", hand["service"].obj) /\ chain' = NoChain
  BY <1>4, NotCurrent DEF Goto, Current
<1>5. QED
  BY <1>1, <1>2, <1>3, <1>4 DEF SyncService

\* A pod whose event changes no rules is not one of the cached service.
LEMMA ModifyPodRules ==
    ASSUME CubeProxyInv, ModifyPod
    PROVE  RulesTold'
<1> USE DEF CubeProxyInv, ProxyInv
<1>1. CASE \E rules : Down(rules)
  BY <1>1, DownRules
<1>2. CASE Goto("pod", "select", svcCache) /\ chain' = NoChain
  BY <1>2, NotCurrent DEF Goto, Current
<1>3. CASE /\ ~(/\ svcCache # NoService
                /\ hand["pod"].type \notin {"remove", "relabel"}
                /\ hand["pod"].obj \in svcCache.sel)
           /\ Unlock
           /\ UNCHANGED <<etcd, stream, alive, inf, caches, out, kernel, untold>>
  <2>1. UNCHANGED <<svcCache, podCache, chain, pods, stream, out, untold>> /\ lock = "pod"
    BY <1>3 DEF ModifyPod, etcd, caches, kernel
  <2>2. step' = "none" /\ hand'["service"] = hand["service"] /\ ~Serves'
    BY <1>3, <2>1 DEF Unlock, Serves, ProxyTyped, EventsTyped, Loop
  <2>3. (Current' => Current) /\ (Told' => Told)
    BY <2>1, <2>2, <1>3 DEF ModifyPod, Current, Told, Unlock
  <2>4. ASSUME svcCache # NoService, NEW p \in svcCache.sel, Due(p) PROVE Due(p)'
    BY <1>3, <2>1, <2>4 DEF Due, Makes, NewsIn
  <2>5. ASSUME Told', Current', svcCache' # NoService
        PROVE  /\ MadeOf(svcCache)'
               /\ \A p \in svcCache.sel : pods[p]' = "gone" \/ Served(p)' \/ Due(p)'
    <3>1. /\ MadeOf(svcCache)
          /\ \A p \in svcCache.sel : pods[p] = "gone" \/ Served(p) \/ Due(p)
      BY <2>1, <2>3, <2>5 DEF RulesTold
    <3>2. MadeOf(svcCache)' /\ \A p \in svcCache.sel : Served(p) => Served(p)'
      BY <2>1, <3>1 DEF MadeOf, Served
    <3>3. QED
      BY <2>1, <2>4, <2>5, <3>1, <3>2
  <2>6. QED
    BY <2>1, <2>2, <2>5 DEF RulesTold
<1>4. QED
  BY <1>1, <1>2, <1>3 DEF ModifyPod

\* The rules SelectPods makes lead to the pods that run, whatever is due; it makes
\* them of the cached service, or an event of a newer one is on its way.
LEMMA SelectPodsMakes ==
    ASSUME CubeProxyInv, SelectPods
    PROVE  /\ copy \in Config
           /\ chain' = NoChain \/ chain' = Made(copy)
           /\ chain' = NoChain <=> Running(copy) = {}
<1>1. copy \in Config
  BY DEF CubeProxyInv, ProxyInv, ProxyTyped, HolderTyped, Holder, SelectPods
<1>2. Made(copy) # NoChain
  BY <1>1, MadeTyped, NoValueAssumption
<1>3. chain = NoChain
  BY DEF CubeProxyInv, RulesTold, SelectPods
<1>4. QED
  BY <1>1, <1>2, <1>3 DEF SelectPods, Made

LEMMA SelectPodsRules ==
    ASSUME CubeProxyInv, SelectPods
    PROVE  RulesTold'
<1> USE DEF CubeProxyInv, ProxyInv
<1>1. UNCHANGED <<svc, svcCache, pods, out>>
  BY DEF SelectPods, etcd, caches
<1>2. copy \in Config /\ lock \in {"service", "pod"} /\ step' # "select"
  BY DEF SelectPods, ProxyTyped, HolderTyped, Holder, Unlock, Loop
<1>3. ASSUME Told', Current', svcCache' # NoService
      PROVE  Alike(svcCache, copy)
  <2>1. CASE "service" \in untold
    BY <1>3, <2>1, AlikeSame DEF SelectPods, NothingOlder, Told
  <2>2. CASE "service" \notin untold /\ lock = "service"
    BY <1>1, <1>3, <2>2 DEF SvcTold, Means, Current, ProxyTyped, HolderTyped, Holder
  <2>3. CASE "service" \notin untold /\ lock = "pod"
    <3>1. hand'["service"] = hand["service"] /\ lock' # "service"
      BY <2>3 DEF SelectPods, Unlock, ProxyTyped, EventsTyped, Loop
    <3>2. hand["service"] = NoEvent /\ out["service"] = NoEvent
      BY <1>1, <1>3, <3>1 DEF Current
    <3>3. QED
      BY <2>3, <3>2 DEF SvcTold, SelectPods
  <2>4. QED
    BY <1>2, <2>1, <2>2, <2>3
<1>4. MadeOf(copy)'
  <2>1. CASE chain' = NoChain
    BY <2>1 DEF MadeOf
  <2>2. CASE chain' = Made(copy)
    <3>1. copy.dests \in Seq(Dest)
      BY <1>2, ConfigAssumption DEF Selection
    <3>2. /\ DOMAIN Made(copy) = DOMAIN copy.dests
          /\ \A i \in DOMAIN copy.dests : /\ Made(copy)[i].dest = copy.dests[i]
                                          /\ Made(copy)[i].to = Running(copy)
      BY DEF Made
    <3>4. {Made(copy)[i].dest : i \in DOMAIN Made(copy)} = DestsOf(copy)
      BY <3>2 DEF DestsOf
    <3>5. Running(copy) \subseteq copy.sel
      BY DEF Running
    <3>6. PICK c : c = copy
      OBVIOUS
    <3>7. PICK made : made = Made(copy)
      OBVIOUS
    <3>8. /\ {made[i].dest : i \in DOMAIN made} = DestsOf(c)
          /\ \A i \in DOMAIN made : made[i].to \subseteq c.sel
      BY <3>2, <3>4, <3>5, <3>6, <3>7
    <3>9. UNCHANGED copy \/ chain' = NoChain
      BY DEF SelectPods, CubeProxyInv, RulesTold
    <3>10. QED
      BY <2>2, <3>6, <3>7, <3>8, <3>9 DEF MadeOf, DestsOf
  <2>3. QED
    BY <2>1, <2>2, SelectPodsMakes
<1>5. ASSUME NEW p \in copy.sel PROVE Served(p)'
  <2>1. p \in Running(copy) <=> pods[p] = "running"
    BY <1>5 DEF Running
  <2>2. CASE chain' = NoChain
    BY <1>1, <2>1, <2>2, SelectPodsMakes DEF Served
  <2>3. CASE chain' # NoChain
    <3>1. chain' = Made(copy)
      BY <2>3, SelectPodsMakes
    <3>2. \A i \in DOMAIN chain' : chain'[i].to = Running(copy)
      BY <3>1 DEF Made
    <3>3. QED
      BY <1>1, <2>1, <2>3, <3>2 DEF Served
  <2>4. QED
    BY <2>2, <2>3
<1>6. UNCHANGED copy \/ chain' = NoChain
  BY DEF SelectPods, RulesTold
<1>7. ASSUME Told', Current', svcCache' # NoService
      PROVE  /\ MadeOf(svcCache)'
             /\ \A p \in svcCache'.sel : pods[p]' = "gone" \/ Served(p)' \/ Due(p)'
  <2>1. /\ svcCache' = svcCache /\ svcCache.sel = copy.sel /\ DestsOf(svcCache) = DestsOf(copy)
        /\ MadeOf(copy)'
    BY <1>1, <1>3, <1>4, <1>7 DEF Alike
  <2>2. CASE chain' = NoChain
    BY <1>5, <2>1, <2>2 DEF MadeOf
  <2>3. CASE chain' # NoChain
    <3>1. copy' = copy
      BY <1>6, <2>3
    <3>2. PICK c, d : c = copy /\ d = svcCache /\ d.sel = c.sel /\ DestsOf(d) = DestsOf(c)
      BY <2>1
    <3>3. {chain'[i].dest : i \in DOMAIN chain'} = DestsOf(c)
          /\ \A i \in DOMAIN chain' : chain'[i].to \subseteq c.sel
      BY <2>1, <2>3, <3>1, <3>2 DEF MadeOf, DestsOf
    <3>4. MadeOf(svcCache)'
      BY <2>1, <3>2, <3>3 DEF MadeOf, DestsOf
    <3>5. QED
      BY <1>5, <2>1, <3>4
  <2>4. QED
    BY <2>2, <2>3
<1>8. QED
  BY <1>2, <1>7 DEF RulesTold

\* What leaves rules, services and pods alone, and at most ends what the holder does.
LEMMA RulesStay ==
    ASSUME CubeProxyInv, UNCHANGED <<svcCache, podCache, chain, pods, out>>,
           untold \subseteq untold', stream'["pod"] = stream["pod"],
           step' # "select", step # "select",
           hand'["service"] = hand["service"] \/ (lock = "service" /\ step \in {"lookup", "write"}),
           hand'["pod"] = hand["pod"] \/ Serves,
           Serves' => Serves,
           lock' = "service" => lock = "service" /\ step \in {"lookup", "write"}
    PROVE  RulesTold'
<1> USE DEF CubeProxyInv, ProxyInv
<1>1. \A p \in Pod : Due(p) => Due(p)'
  BY DEF Due, Makes, NewsIn
<1>2. Current' => Current
  BY DEF Current
<1>3. Told' => Told
  BY DEF Told
<1>4. QED
  BY <1>1, <1>2, <1>3, RulesKept

LEMMA HolderRules ==
    ASSUME CubeProxyInv, SyncPod \/ LookUp \/ SyncDns \/ AddDns
    PROVE  RulesTold'
<1> USE DEF CubeProxyInv, ProxyInv
<1>1. UNCHANGED <<svcCache, podCache, chain, pods, out, stream, untold>>
  BY DEF SyncPod, LookUp, SyncDns, AddDns, etcd, caches, kernel
<1>2. hand'["service"] = hand["service"] /\ hand'["pod"] = hand["pod"]
  BY DEF SyncPod, LookUp, SyncDns, AddDns, Goto, Return, Unlock, ProxyTyped, EventsTyped, Loop
<1>3. step # "select" /\ step' # "select"
  BY DEF SyncPod, LookUp, SyncDns, AddDns, Goto, Return, Unlock, ProxyTyped, HolderTyped, Holder,
         holder
<1>4. Serves' => Serves
  BY DEF SyncPod, LookUp, SyncDns, AddDns, Goto, Return, Unlock, Serves, holder
<1>5. lock' = "service" => lock = "service" /\ step \in {"lookup", "write"}
  BY DEF SyncPod, LookUp, SyncDns, AddDns, Goto, Return, Unlock, holder
<1>6. QED
  BY <1>1, <1>2, <1>3, <1>4, <1>5, RulesStay

LEMMA WriteBackRules ==
    ASSUME CubeProxyInv, WriteBack
    PROVE  RulesTold'
<1> USE DEF CubeProxyInv, ProxyInv
<1>1. stream'["pod"] = stream["pod"] /\ untold \subseteq untold'
  BY DEF WriteBack, Tell, Send, ProxyTyped, StreamsTyped, Loop
<1>2. lock \in {"service", "pod"} /\ step = "write" /\ step' = "none" /\ lock' = "free"
  BY DEF WriteBack, Unlock, ProxyTyped, HolderTyped, Holder, Loop
<1>3. \A l \in Loop : l # lock => hand'[l] = hand[l]
  BY DEF WriteBack, Unlock, ProxyTyped, EventsTyped
<1>4. QED
  BY <1>1, <1>2, <1>3, RulesStay DEF WriteBack, caches, kernel, Serves, Loop

LEMMA SelectFailsRules ==
    ASSUME CubeProxyInv, SelectFails
    PROVE  RulesTold'
<1>1. CASE \E rules : Down(rules)
  BY <1>1, DownRules
<1>2. CASE lock = "service" /\ Return("service")
  <2>1. hand'["service"] # NoEvent /\ lock' = "lost" /\ step' = "none"
    BY <1>2 DEF SelectFails, Return, CubeProxyInv, ProxyInv, ProxyTyped, HolderTyped, Holder
  <2>2. QED
    BY <2>1, NotCurrent DEF Current
<1>3. QED
  BY <1>1, <1>2 DEF SelectFails

\* A write that concerns no pod, and steps that concern neither rules nor events.
LEMMA AsideRules ==
    ASSUME CubeProxyInv, UNCHANGED <<svcCache, podCache, chain, pods, out, hand, holder>>,
           untold \subseteq untold', stream'["pod"] = stream["pod"]
    PROVE  RulesTold'
<1>1. \A p \in Pod : Due(p) => Due(p)'
  BY DueKept DEF Serves, holder
<1>2. (Current' => Current) /\ (Told' => Told) /\ step' = step
  BY DEF Current, Told, holder
<1>3. QED
  BY <1>1, <1>2, RulesKept DEF CubeProxyInv, ProxyInv

\* A pod that comes to run or ceases to is due.
LEMMA ChangePodRules ==
    ASSUME CubeProxyInv, NEW p \in Pod, ChangePod(p)
    PROVE  RulesTold'
<1> USE DEF CubeProxyInv, ProxyInv
<1>1. PICK x \in NextState(pods[p]) :
               /\ x \in PodState /\ pods' = [pods EXCEPT ![p] = x]
               /\ \/ stream'["pod"] = Append(stream["pod"], [pod |-> p, state |-> x])
                  \/ stream'["pod"] = stream["pod"] /\ stream["pod"] = <<>> /\ "pod" \in untold'
               /\ untold \subseteq untold' /\ untold' \subseteq untold \cup {"pod"}
               /\ InVain(pods[p], x) => "pod" \in untold'
  BY ChangePodSays
<1>2. UNCHANGED <<svcCache, podCache, chain, out, hand, holder>>
  BY DEF ChangePod, caches, kernel
<1>3. CASE ~Told'
  BY <1>2, <1>3, NotCurrent DEF RulesTold, holder
<1>4. CASE Told'
  <2>1. PICK s \in Seq(PodMessage), now \in [Pod -> PodState], cache \in [Pod -> Entry] :
           s = stream["pod"] /\ now = pods /\ cache = podCache
    BY DEF ProxyTyped, StreamsTyped, EtcdTyped, CachesTyped, Entry
  <2>2. PICK m \in PodMessage : m = [pod |-> p, state |-> x]
    BY <1>1 DEF PodMessage
  <2>3. Told /\ stream'["pod"] = Append(s, m)
    BY <1>1, <1>4, <2>1, <2>2 DEF Told
  <2>4. Fresh(s, now, cache) /\ Known(s, now, cache)
    BY <2>1, <2>3 DEF PodsTold, Told
  <2>0. x \notin {"lost", "relabelled"} /\ (x = "running" => pods[p] # "lost")
    BY <1>1, <1>4 DEF InVain, Told
  <2>5. ASSUME NEW q \in Pod, Due(q) PROVE Due(q)'
    <3>1. NewsIn(s, q, cache[q]) => NewsIn(Append(s, m), q, cache[q])
      BY AppendNews
    <3>2. QED
      BY <1>2, <2>1, <2>3, <2>5, <3>1 DEF Due, Makes, Serves, holder
  <2>6. x \in Steady => Due(p)'
    <3>0. x \in Steady => pods[p] # "lost"
      BY <1>1, <2>0 DEF NextState, Steady
    <3>1. x \in Steady => NewsIn(Append(s, m), p, cache[p])
      BY <1>1, <2>1, <2>2, <2>4, <3>0, AppendIsNews
    <3>2. QED
      BY <1>2, <2>1, <2>3, <3>1 DEF Due
  <2>7. pods[p] \in PodState /\ pods'[p] = x /\ \A q \in Pod : q # p => pods'[q] = pods[q]
    BY <1>1, <2>1
  <2>8. x \notin Steady /\ x # "gone" => pods[p] # "running" /\ x # "running"
    BY <1>1, <2>0, <2>7 DEF NextState, PodState, Steady
  <2>9. ASSUME NEW q \in Pod, pods[q] = "gone" \/ Served(q) \/ Due(q)
        PROVE  pods'[q] = "gone" \/ Served(q)' \/ Due(q)'
    <3>1. CASE q # p
      <4>1. Served(q) => Served(q)'
        BY <1>2, <2>7, <3>1 DEF Served
      <4>2. QED
        BY <2>5, <2>7, <2>9, <3>1, <4>1
    <3>2. CASE q = p /\ x \in Steady
      BY <2>6, <3>2
    <3>3. CASE q = p /\ x = "gone"
      BY <2>7, <3>3
    <3>4. CASE q = p /\ x \notin Steady /\ x # "gone"
      <4>1. pods[p] # "gone"
        BY <1>1 DEF NextState
      <4>2. Served(p) => Served(p)'
        BY <1>2, <2>7, <2>8, <3>4 DEF Served
      <4>3. QED
        BY <2>5, <2>9, <3>4, <4>1, <4>2
    <3>5. QED
      BY <3>1, <3>2, <3>3, <3>4
  <2>10. ASSUME Current', svcCache' # NoService
         PROVE  /\ MadeOf(svcCache)'
                /\ \A q \in svcCache.sel : pods'[q] = "gone" \/ Served(q)' \/ Due(q)'
    <3>1. Current /\ svcCache # NoService
      BY <1>2, <2>10 DEF Current, holder
    <3>2. /\ MadeOf(svcCache)
          /\ \A q \in svcCache.sel : pods[q] = "gone" \/ Served(q) \/ Due(q)
      BY <2>3, <3>1 DEF RulesTold
    <3>3. svcCache.sel \subseteq Pod
      BY <3>1, Selects
    <3>4. MadeOf(svcCache)'
      BY <1>2, <3>2 DEF MadeOf
    <3>5. QED
      BY <2>9, <3>2, <3>3, <3>4
  <2>11. QED
    BY <1>2, <2>10 DEF RulesTold, holder
<1>5. QED
  BY <1>3, <1>4

LEMMA RulesStayTold ==
    ASSUME CubeProxyInv, [Next]_vars
    PROVE  RulesTold'
<1>1. CASE Start \/ ChangeService \/ ChangeDns \/ UNCHANGED vars \/ \E l \in Loop : Connect(l)
  <2>1. UNCHANGED <<svcCache, podCache, chain, pods, out, hand, holder>>
    BY <1>1 DEF Start, ChangeService, ChangeDns, vars, Connect, etcd, caches, kernel
  <2>2. untold \subseteq untold' /\ stream'["pod"] = stream["pod"]
    BY <1>1 DEF Start, ChangeService, ChangeDns, vars, Connect, Tell, Send, CubeProxyInv, ProxyInv,
                ProxyTyped, StreamsTyped, Loop
  <2>3. QED
    BY <2>1, <2>2, AsideRules
<1>2. CASE NotUpdated \/ Kill
  BY <1>2, DownRules DEF NotUpdated, Kill
<1>3. QED
  BY <1>1, <1>2, ListsRules, InformsRules, LoseRules, ReceiveRules, SyncServiceRules,
     ModifyPodRules, SelectPodsRules, SelectFailsRules, HolderRules, WriteBackRules, ChangePodRules
  DEF Next, Works, HolderSteps, Loops

LEMMA RulesStart == Init => SvcTold /\ PodsTold /\ RulesTold
<1>1. ASSUME Init PROVE SvcTold /\ PodsTold /\ RulesTold
  <2>1. SvcTold /\ RulesTold
    BY <1>1 DEF Init, SvcTold, RulesTold, Loop
  <2>2. stream["pod"] = <<>> /\ \A p \in Pod : podCache[p] = "none" /\ pods[p] = "new"
    BY <1>1 DEF Init, Loop
  <2>3. Latest(stream["pod"], pods) /\ Fresh(stream["pod"], pods, podCache)
    BY <2>2, NoMessages, EmptyFresh
  <2>4. Known(stream["pod"], pods, podCache)
    BY <2>2 DEF Known, Steady
  <2>5. QED
    BY <2>1, <2>3, <2>4 DEF PodsTold
<1>2. QED
  BY <1>1

\* When all is settled nothing is due, and the cached service is the stored one.
LEMMA SettledRules == CubeProxyInv => RulesFollow
<1>1. ASSUME CubeProxyInv, Settled, svc # NoService, untold \cap {"service", "pod"} = {}
      PROVE  LET ends(r) == {p \in r.to : pods[p] # "gone"}
             IN  /\ \A r \in Rules : ends(r) = Running(svc)
                 /\ chain # NoChain => {r.dest : r \in Rules} = DestsOf(svc)
                 /\ chain = NoChain => Running(svc) = {}
  <2>1. /\ Told /\ lock = "free" /\ step = "none"
        /\ \A l \in Loop : stream[l] = <<>> /\ out[l] = NoEvent /\ hand[l] = NoEvent
    BY <1>1 DEF Told, Settled, CubeProxyInv, ProxyInv, ProxyTyped, HolderTyped, Holder
  <2>2. Current
    BY <2>1 DEF Current, Loop
  <2>3. svcCache = svc
    BY <1>1, <2>1 DEF CubeProxyInv, SvcTold, Told, Loop
  <2>4. \A p : ~Due(p)
    <3>1. Len(stream["pod"]) = 0
      BY <2>1, EmptySeq, Zenon DEF Loop
    <3>2. QED
      BY <2>1, <3>1 DEF Due, Makes, NewsIn, Loop
  <2>5. /\ MadeOf(svc)
        /\ \A p \in svc.sel : pods[p] = "gone" \/ Served(p)
    BY <1>1, <2>1, <2>2, <2>3, <2>4 DEF CubeProxyInv, RulesTold
  <2>6. chain = NoChain => Rules = {} /\ Running(svc) = {}
    BY <2>5 DEF Served, Running, Rules
  <2>7. ASSUME chain # NoChain, NEW i \in DOMAIN chain
        PROVE  {p \in chain[i].to : pods[p] # "gone"} = Running(svc)
    <3>1. chain[i].to \subseteq svc.sel
      BY <2>5, <2>7 DEF MadeOf
    <3>2. \A p \in svc.sel : pods[p] = "gone" \/ (p \in chain[i].to <=> pods[p] = "running")
      BY <2>5, <2>7 DEF Served
    <3>3. QED
      BY <3>1, <3>2 DEF Running
  <2>8. chain # NoChain => Rules = {chain[i] : i \in DOMAIN chain}
    BY DEF Rules
  <2>9. \A r \in Rules : {p \in r.to : pods[p] # "gone"} = Running(svc)
    BY <2>6, <2>7, <2>8
  <2>10. chain # NoChain => {r.dest : r \in Rules} = DestsOf(svc)
    BY <2>5, <2>8 DEF MadeOf
  <2>11. QED
    BY <2>6, <2>9, <2>10
<1>2. QED
  BY <1>1 DEF RulesFollow

\* When all is settled and, since the rules were last made, the informers missed
\* nothing and no pod lost its address, had it back or lost its labels, the service
\* has exactly its own rules, perhaps in an older order of its ports, and they lead to
\* exactly the pods that run: whatever order the loops take the lock in, whatever the
\* API server holds when SelectPods asks, and although each PUT of a copy comes back
\* as an event.
THEOREM RulesFollowed == Spec => []RulesFollow
<1>1. Init => CubeProxyInv
  BY ProxyStarts, DnsStarts, RulesStart DEF CubeProxyInv, ProxyInv
<1>2. CubeProxyInv /\ [Next]_vars => CubeProxyInv'
  BY ProxyStaysTyped, StreamsStayEnded, ServiceStaysTold, PodsStayTold, RulesStayTold
  DEF CubeProxyInv, ProxyInv
<1>3. CubeProxyInv => RulesFollow
  BY SettledRules
<1>4. QED
  BY <1>1, <1>2, <1>3, PTL DEF Spec

-----------------------------------------------------------------------------
(* What the lock's holder can go on with                                   *)

\* Every rule leads to a pod, unless a loop has failed to delete the rules and left
\* the lock locked.
RulesLead == lock # "lost" /\ chain # NoChain => \A i \in DOMAIN chain : chain[i].to # {}

\* Nothing is done to the rules, and a lost lock stays lost.
LEMMA RulesUntouched ==
    ASSUME RulesLead, chain' = chain, lock = "lost" => lock' = "lost"
    PROVE  RulesLead'
  BY DEF RulesLead

LEMMA RulesStayLed ==
    ASSUME ProxyTyped, RulesLead, [Next]_vars
    PROVE  RulesLead'
<1>1. CASE Kill \/ NotUpdated
  BY <1>1 DEF Kill, NotUpdated, Down, RulesLead
<1>2. CASE SyncService
  BY <1>2 DEF SyncService, Down, Return, RulesLead
<1>3. CASE ModifyPod
  <2>1. \/ chain' = NoChain
        \/ chain' = chain /\ lock # "lost"
    BY <1>3 DEF ModifyPod, Down, kernel
  <2>2. QED
    BY <2>1, RulesUntouched DEF RulesLead
<1>4. CASE SelectPods
  <2>1. lock # "lost"
    BY <1>4 DEF SelectPods, ProxyTyped, HolderTyped, Holder
  <2>2. CASE Running(copy) = {}
    BY <1>4, <2>1, <2>2, RulesUntouched DEF SelectPods
  <2>3. CASE Running(copy) # {}
    <3>1. chain' = [i \in DOMAIN copy.dests |-> [dest |-> copy.dests[i], to |-> Running(copy)]]
      BY <1>4, <2>3 DEF SelectPods
    <3>2. QED
      BY <2>3, <3>1 DEF RulesLead
  <2>4. QED
    BY <2>2, <2>3
<1>5. CASE SelectFails
  <2>1. lock # "lost"
    BY <1>5 DEF SelectFails, ProxyTyped, HolderTyped, Holder
  <2>2. chain' = NoChain \/ chain' = chain
    BY <1>5 DEF SelectFails, Down, kernel
  <2>3. QED
    BY <2>1, <2>2, RulesUntouched DEF RulesLead
<1>6. CASE SyncPod \/ SyncDns \/ AddDns \/ LookUp \/ WriteBack
  <2>1. chain' = chain
    BY <1>6 DEF SyncPod, SyncDns, AddDns, LookUp, WriteBack, kernel
  <2>2. lock # "lost"
    BY <1>6 DEF SyncPod, SyncDns, AddDns, LookUp, WriteBack, ProxyTyped, HolderTyped, Holder
  <2>3. QED
    BY <2>1, <2>2, RulesUntouched
<1>7. CASE \/ Lists \/ Informs \/ Start \/ ChangeService \/ ChangeDns \/ UNCHANGED vars
           \/ \E l \in Loop : Connect(l) \/ Receive(l) \/ Lose(l)
           \/ \E p \in Pod : ChangePod(p)
  <2>1. chain' = chain /\ lock' = lock
    BY <1>7 DEF Lists, ListServices, ListPods, ListDns, Informs, InformService, InformPod, InformDns,
                Read, Start, ChangeService, ChangeDns, Connect, Receive, Lose, ChangePod, kernel, holder,
                vars
  <2>2. QED
    BY <2>1, RulesUntouched
<1>8. QED
  BY <1>1, <1>2, <1>3, <1>4, <1>5, <1>6, <1>7 DEF Next, Works, HolderSteps, Loops

\* What one of the holder's steps waits for is there: the mutex of the service informer,
\* where a list is asked for, and a pod whose rule a failing deletion has flushed.
HolderReady ==
    \/ /\ lock \in {"pod", "dns"} /\ step = "list" /\ out["service"] = NoEvent
       /\ lock = "pod" /\ svcCache # NoService /\ DeleteFails(svcCache) =>
             chain[Len(svcCache.dests) + 1].to # {}
    \/ step \in {"select", "lookup", "write"} /\ copy \in Config

\* The informer that has the mutex gets rid of its event.
InformerReady == hand["service"] = NoEvent /\ out["service"] # NoEvent

LEMMA HolderIsReady ==
    ASSUME ProxyTyped, RulesLead, lock \in Loop, ~Circle
    PROVE  HolderReady \/ InformerReady
<1>1. step \in {"list", "select", "lookup", "write"} /\ (step = "list" => lock \in {"pod", "dns"})
      /\ (step # "list" => copy \in Config)
  BY DEF ProxyTyped, HolderTyped, Holder, Loop
<1>2. CASE step # "list"
  BY <1>1, <1>2 DEF HolderReady
<1>3. CASE step = "list" /\ out["service"] # NoEvent
  BY <1>1, <1>3 DEF Circle, InformerReady
<1>4. CASE step = "list" /\ out["service"] = NoEvent
  <2>1. ASSUME svcCache # NoService, DeleteFails(svcCache)
        PROVE  chain[Len(svcCache.dests) + 1].to # {}
    <3>1. chain \in Seq(Rule) /\ svcCache.dests \in Seq(Dest) /\ Len(svcCache.dests) < Len(chain)
      BY <2>1, ConfigAssumption DEF ProxyTyped, KernelTyped, CachesTyped, Selection, DeleteFails
    <3>2. PICK n \in Nat : n = Len(svcCache.dests) /\ n < Len(chain)
      BY <3>1
    <3>3. n + 1 \in DOMAIN chain
      BY <3>1, <3>2
    <3>4. chain # NoChain /\ lock # "lost"
      BY <2>1 DEF DeleteFails, Loop
    <3>5. QED
      BY <3>2, <3>3, <3>4 DEF RulesLead
  <2>2. QED
    BY <1>1, <1>4, <2>1 DEF HolderReady
<1>5. QED
  BY <1>1, <1>2, <1>3, <1>4

\* Whoever holds the lock has a step whose conditions hold, or the service informer can
\* hand over its event, except in the circle.  That such a step is enabled, which
\* LockHolderMoves adds, is not for the prover.
THEOREM HolderNeverStuck == Spec => [](lock \in Loop /\ ~Circle => HolderReady \/ InformerReady)
<1>1. Init => ProxyTyped /\ RulesLead
  BY ProxyStarts DEF Init, RulesLead
<1>2. ProxyTyped /\ RulesLead /\ [Next]_vars => (ProxyTyped /\ RulesLead)'
  BY ProxyStaysTyped, RulesStayLed
<1>3. ProxyTyped /\ RulesLead => (lock \in Loop /\ ~Circle => HolderReady \/ InformerReady)
  BY HolderIsReady
<1>4. QED
  BY <1>1, <1>2, <1>3, PTL DEF Spec
=============================================================================
