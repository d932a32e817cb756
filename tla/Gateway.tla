------------------------------- MODULE Gateway -------------------------------
(***************************************************************************)
(* The gateway.  Ingresses become routes of its HTTP server; a call of a   *)
(* route is written to the topic of an action and waits for the reply on   *)
(* the gateway's return topic, at most 90 seconds.                         *)
(*                                                                         *)
(* A call stands for its request, with the RequestUID, and for the         *)
(* goroutine that handles it.  What a call tells the monitor is the input  *)
(* of ActionBrain; parameters, bodies and which action a route invokes are *)
(* left out, and so are the methods the router does not support.           *)
(***************************************************************************)
EXTENDS Naturals, Sequences

CONSTANTS
    Call, Ingress, Path, Method,
    NoCall, Garbage, NoRoute, NoMethod, NoIngressEvent,
    MaxIngressWrites, MaxGatewayIncidents

Route == Path \X Method
IngressMsg == [ingress : Ingress, route : Route \cup {NoRoute}]
IngressEvent == [type : {"create", "update"}, route : Route] \cup [type : {"remove"}, route : {NoRoute}]

ASSUME GatewayAssumption ==
    /\ NoCall \notin Call /\ Garbage \notin Call /\ NoCall # Garbage
    /\ NoRoute \notin Route /\ NoMethod \notin Method /\ NoIngressEvent \notin IngressEvent
    /\ MaxIngressWrites \in Nat /\ MaxGatewayIncidents \in Nat

VARIABLES
    gatewayUp,
    ingresses,       \* etcd: the route of each ingress, or NoRoute
    ingressStream,
    ingressInf,      \* "list", "connect", "watch"; "stuck": its mutex is never unlocked
    ingressCache, pathSet,
    ingressOut,      \* the event the informer is sending, its mutex held
    routes,
    unrouted,        \* history: ingresses that were listed, or whose event was missed
    handler,
    channelMap,      \* calls that are in it
    channel,         \* calls whose channel holds a response
    actionTopic,     \* requests not yet taken by a function
    returnTopic,
    consumer,        \* "read", "send" or "stopped"
    held,            \* the response the consumer is sending, or NoCall
    functionReplied, \* calls that a function has replied to
    former,          \* calls of a gateway that has ended
    ingressWrites, gatewayIncidents

ingressVars == <<ingresses, ingressStream, ingressInf, ingressCache, pathSet, ingressOut, routes,
                 unrouted, ingressWrites>>
callingVars == <<handler, channelMap, channel, actionTopic, returnTopic, consumer, held,
                 functionReplied, former>>
gatewayVars == <<gatewayUp, ingressVars, callingVars, gatewayIncidents>>

HandlerState == {"none", "write", "wait", "answered", "failed", "timed out", "cut"}

GatewayTypeOK ==
    /\ gatewayUp \in BOOLEAN /\ unrouted \subseteq Ingress
    /\ ingresses \in [Ingress -> Route \cup {NoRoute}]
    /\ ingressStream \in Seq(IngressMsg)
    /\ ingressInf \in {"list", "connect", "watch", "stuck"}
    /\ ingressCache \in [Ingress -> Route \cup {NoRoute}]
    /\ pathSet \in [Path -> Method \cup {NoMethod}]
    /\ ingressOut \in IngressEvent \cup {NoIngressEvent}
    /\ routes \subseteq Route
    /\ handler \in [Call -> HandlerState]
    /\ channelMap \subseteq Call /\ channel \subseteq Call /\ actionTopic \subseteq Call
    /\ returnTopic \in Seq(Call \cup {Garbage})
    /\ consumer \in {"read", "send", "stopped"}
    /\ held \in Call \cup {NoCall} /\ (consumer = "send" <=> held # NoCall)
    /\ functionReplied \subseteq Call /\ former \subseteq Call
    /\ ingressWrites \in 0..MaxIngressWrites /\ gatewayIncidents \in 0..MaxGatewayIncidents

GatewayIncident ==
    gatewayIncidents < MaxGatewayIncidents /\ gatewayIncidents' = gatewayIncidents + 1

-----------------------------------------------------------------------------
(* Calls.                                                                  *)

\* A call of a route.  It is refused for a parameter with two values or a body
\* that is not JSON; otherwise its channel enters the map.
Begin(c) ==
    /\ gatewayUp /\ routes # {} /\ handler[c] = "none"
    /\ \/ handler' = [handler EXCEPT ![c] = "failed"] /\ UNCHANGED channelMap
       \/ handler' = [handler EXCEPT ![c] = "write"] /\ channelMap' = channelMap \cup {c}
    /\ UNCHANGED <<gatewayUp, ingressVars, channel, actionTopic, returnTopic, consumer, held,
                   functionReplied, former, gatewayIncidents>>

Write(c) ==
    /\ handler[c] = "write"
    /\ handler' = [handler EXCEPT ![c] = "wait"]
    /\ actionTopic' = actionTopic \cup {c}
    /\ UNCHANGED <<gatewayUp, ingressVars, channelMap, channel, returnTopic, consumer, held,
                   functionReplied, former, gatewayIncidents>>

\* WriteMessages returns an error, whether the message came through or not.
WriteFails(c) ==
    /\ handler[c] = "write" /\ GatewayIncident
    /\ handler' = [handler EXCEPT ![c] = "failed"]
    /\ actionTopic' \in {actionTopic, actionTopic \cup {c}}
    /\ UNCHANGED <<gatewayUp, ingressVars, channelMap, channel, returnTopic, consumer, held,
                   functionReplied, former>>

\* A function replies, to the topic the call named: that of a gateway that has
\* been started again is another.  Kafka may hand it the request once more.
FunctionReplies(c) ==
    /\ c \in actionTopic
    /\ \/ actionTopic' = actionTopic \ {c} /\ UNCHANGED gatewayIncidents
       \/ UNCHANGED actionTopic /\ GatewayIncident
    /\ returnTopic' = IF c \in former THEN returnTopic ELSE Append(returnTopic, c)
    /\ functionReplied' = functionReplied \cup {c}
    /\ UNCHANGED <<gatewayUp, ingressVars, handler, channelMap, channel, consumer, held,
                   former>>

GarbageReply ==
    /\ gatewayUp /\ GatewayIncident
    /\ returnTopic' = Append(returnTopic, Garbage)
    /\ UNCHANGED <<gatewayUp, ingressVars, handler, channelMap, channel, actionTopic, consumer,
                   held, functionReplied, former>>

\* Mutant of Consume: the call of a reply is not looked up.
ConsumeUnknown ==
    /\ gatewayUp /\ consumer = "read" /\ returnTopic # <<>>
    /\ returnTopic' = Tail(returnTopic)
    /\ LET m == Head(returnTopic)
       IN  /\ channelMap' = channelMap \ {m}
           /\ consumer' = IF m = Garbage THEN "stopped" ELSE "send"
           /\ held' = IF m = Garbage THEN NoCall ELSE m
    /\ UNCHANGED <<gatewayUp, ingressVars, handler, channel, actionTopic, functionReplied,
                   former, gatewayIncidents>>

\* Mutant of Consume: a reply goes to any call that waits.
ConsumeAny ==
    /\ gatewayUp /\ consumer = "read" /\ returnTopic # <<>>
    /\ returnTopic' = Tail(returnTopic)
    /\ LET m == Head(returnTopic)
       IN  IF m = Garbage \/ channelMap = {}
           THEN /\ consumer' = IF m = Garbage THEN "stopped" ELSE "read"
                /\ UNCHANGED <<channelMap, held>>
           ELSE /\ held' \in channelMap /\ channelMap' = channelMap \ {held'}
                /\ consumer' = "send"
    /\ UNCHANGED <<gatewayUp, ingressVars, handler, channel, actionTopic, functionReplied,
                   former, gatewayIncidents>>

\* ListenReturnTopic: what cannot be parsed ends it.
Consume ==
    /\ gatewayUp /\ consumer = "read" /\ returnTopic # <<>>
    /\ returnTopic' = Tail(returnTopic)
    /\ LET m == Head(returnTopic)
       IN  /\ channelMap' = channelMap \ {m}
           /\ consumer' = IF m = Garbage THEN "stopped"
                          ELSE IF m \in channelMap THEN "send" ELSE "read"
           /\ held' = IF m \in channelMap THEN m ELSE NoCall
    /\ UNCHANGED <<gatewayUp, ingressVars, handler, channel, actionTopic, functionReplied,
                   former, gatewayIncidents>>

\* The channel has room for one response.
Send ==
    /\ consumer = "send" /\ held \notin channel
    /\ channel' = channel \cup {held}
    /\ consumer' = "read" /\ held' = NoCall
    /\ UNCHANGED <<gatewayUp, ingressVars, handler, channelMap, actionTopic, returnTopic,
                   functionReplied, former, gatewayIncidents>>

Receive(c) ==
    /\ handler[c] = "wait" /\ c \in channel
    /\ handler' = [handler EXCEPT ![c] = "answered"]
    /\ channel' = channel \ {c}
    /\ UNCHANGED <<gatewayUp, ingressVars, channelMap, actionTopic, returnTopic, consumer, held,
                   functionReplied, former, gatewayIncidents>>

\* The response is under way, and the consumer will come to it.
Coming(c) == c \in channel \/ held = c \/ (consumer # "stopped" /\ \E k \in DOMAIN returnTopic : returnTopic[k] = c)

\* After 90 seconds; that a response that is under way takes so long is an
\* incident.  The channel stays in the map.
Expire(c) ==
    /\ handler[c] = "wait"
    /\ \/ ~Coming(c) /\ UNCHANGED gatewayIncidents
       \/ Coming(c) /\ GatewayIncident
    /\ handler' = [handler EXCEPT ![c] = "timed out"]
    /\ UNCHANGED <<gatewayUp, ingressVars, channelMap, channel, actionTopic, returnTopic,
                   consumer, held, functionReplied, former>>

-----------------------------------------------------------------------------
(* Ingresses.                                                              *)

WriteIngress(i, r) ==
    /\ ingressWrites < MaxIngressWrites /\ ingressWrites' = ingressWrites + 1
    /\ ingresses' = [ingresses EXCEPT ![i] = r]
    /\ ingressStream' = IF gatewayUp /\ ingressInf \in {"watch", "stuck"}
                        THEN Append(ingressStream, [ingress |-> i, route |-> r])
                        ELSE ingressStream
    /\ unrouted' = IF gatewayUp /\ ingressInf = "connect" THEN unrouted \cup {i} ELSE unrouted
    /\ UNCHANGED <<gatewayUp, ingressInf, ingressCache, pathSet, ingressOut, routes, callingVars,
                   gatewayIncidents>>

\* A new ingress has a UID of its own, which no cache knows.
PutIngress(i) ==
    /\ ingresses[i] = NoRoute => ingressCache[i] = NoRoute
    /\ \E r \in Route : r # ingresses[i] /\ WriteIngress(i, r)
DeleteIngress(i) == ingresses[i] # NoRoute /\ WriteIngress(i, NoRoute)

\* Listed ingresses enter the cache; nobody is told, and pathSet is not filled.
ListIngresses ==
    /\ gatewayUp /\ ingressInf = "list"
    /\ ingressInf' = "connect"
    /\ ingressCache' = [i \in Ingress |-> IF ingresses[i] # NoRoute THEN ingresses[i]
                                                                    ELSE ingressCache[i]]
    /\ unrouted' = unrouted \cup {i \in Ingress : ingressCache'[i] # ingressCache[i]}
    /\ UNCHANGED <<gatewayUp, ingresses, ingressStream, pathSet, ingressOut, routes,
                   ingressWrites, callingVars, gatewayIncidents>>

ConnectIngresses ==
    /\ gatewayUp /\ ingressInf = "connect"
    /\ ingressInf' = "watch"
    /\ UNCHANGED <<gatewayUp, ingresses, ingressStream, ingressCache, pathSet, ingressOut, routes,
                   unrouted, ingressWrites, callingVars, gatewayIncidents>>

LoseIngressWatch ==
    /\ gatewayUp /\ ingressInf = "watch" /\ ingressOut = NoIngressEvent /\ GatewayIncident
    /\ ingressInf' = "list" /\ ingressStream' = <<>>
    /\ UNCHANGED <<gatewayUp, ingresses, ingressCache, pathSet, ingressOut, routes, unrouted,
                   ingressWrites, callingVars>>

\* pathSet keeps one method of a path, and forgets nothing.  A new ingress with
\* that path and method is ignored, and the mutex stays locked.
InformIngress ==
    /\ gatewayUp /\ ingressInf = "watch" /\ ingressOut = NoIngressEvent /\ ingressStream # <<>>
    /\ ingressStream' = Tail(ingressStream)
    /\ LET i == Head(ingressStream).ingress
           new == Head(ingressStream).route
           old == ingressCache[i]
           Cached == ingressCache' = [ingressCache EXCEPT ![i] = new]
       IN  \/ /\ new = NoRoute /\ Cached
              /\ ingressOut' = IF old = NoRoute THEN NoIngressEvent
                                                ELSE [type |-> "remove", route |-> NoRoute]
              /\ UNCHANGED <<ingressInf, pathSet>>
           \/ /\ new # NoRoute /\ old = NoRoute /\ pathSet[new[1]] = new[2]
              /\ ingressInf' = "stuck"
              /\ UNCHANGED <<ingressCache, pathSet, ingressOut>>
           \/ /\ new # NoRoute /\ ~(old = NoRoute /\ pathSet[new[1]] = new[2]) /\ Cached
              /\ pathSet' = [pathSet EXCEPT ![new[1]] = new[2]]
              /\ ingressOut' =
                   CASE old = NoRoute -> [type |-> "create", route |-> new]
                     [] old \notin {NoRoute, new} -> [type |-> "update", route |-> new]
                     [] OTHER -> NoIngressEvent
              /\ UNCHANGED ingressInf
    /\ UNCHANGED <<gatewayUp, ingresses, routes, unrouted, ingressWrites, callingVars,
                   gatewayIncidents>>

\* The process ends, and with it every open call; it will read a new topic.
GatewayEnds ==
    /\ gatewayUp' = FALSE
    /\ ingressInf' = "list" /\ ingressStream' = <<>> /\ ingressOut' = NoIngressEvent
    /\ ingressCache' = [i \in Ingress |-> NoRoute] /\ pathSet' = [p \in Path |-> NoMethod]
    /\ routes' = {} /\ unrouted' = {}
    /\ handler' = [c \in Call |-> IF handler[c] \in {"write", "wait"} THEN "cut" ELSE handler[c]]
    /\ channelMap' = {} /\ channel' = {}
    /\ returnTopic' = <<>> /\ consumer' = "read" /\ held' = NoCall
    /\ former' = {c \in Call : handler[c] # "none"}
    /\ UNCHANGED <<ingresses, ingressWrites, actionTopic, functionReplied>>

\* Mutant of HandleIngress: an update makes no route.
HandleIngressCreates ==
    /\ gatewayUp /\ ingressOut # NoIngressEvent
    /\ ingressOut.route \notin routes
    /\ ingressOut' = NoIngressEvent
    /\ routes' = IF ingressOut.type = "create" THEN routes \cup {ingressOut.route} ELSE routes
    /\ UNCHANGED <<gatewayUp, ingresses, ingressStream, ingressInf, ingressCache, pathSet,
                   unrouted, ingressWrites, callingVars, gatewayIncidents>>

\* HandleIngress: no route is ever taken away.
HandleIngress ==
    /\ gatewayUp /\ ingressOut # NoIngressEvent
    /\ ingressOut.route \notin routes
    /\ ingressOut' = NoIngressEvent
    /\ routes' = IF ingressOut.type = "remove" THEN routes ELSE routes \cup {ingressOut.route}
    /\ UNCHANGED <<gatewayUp, ingresses, ingressStream, ingressInf, ingressCache, pathSet,
                   unrouted, ingressWrites, callingVars, gatewayIncidents>>

\* The router panics when it is given a route that it has.
RouterPanics ==
    /\ gatewayUp /\ ingressOut # NoIngressEvent
    /\ ingressOut.route \in routes
    /\ GatewayEnds
    /\ UNCHANGED gatewayIncidents

KillGateway == gatewayUp /\ GatewayIncident /\ GatewayEnds

StartGateway ==
    /\ ~gatewayUp
    /\ gatewayUp' = TRUE
    /\ UNCHANGED <<ingressVars, callingVars, gatewayIncidents>>

-----------------------------------------------------------------------------
GatewayInit ==
    /\ gatewayUp = TRUE
    /\ ingresses = [i \in Ingress |-> NoRoute] /\ ingressStream = <<>>
    /\ ingressInf = "list" /\ ingressOut = NoIngressEvent
    /\ ingressCache = [i \in Ingress |-> NoRoute] /\ pathSet = [p \in Path |-> NoMethod]
    /\ routes = {} /\ unrouted = {}
    /\ handler = [c \in Call |-> "none"] /\ channelMap = {} /\ channel = {}
    /\ actionTopic = {} /\ returnTopic = <<>> /\ consumer = "read" /\ held = NoCall
    /\ functionReplied = {} /\ former = {}
    /\ ingressWrites = 0 /\ gatewayIncidents = 0

IngressSteps == ListIngresses \/ ConnectIngresses \/ InformIngress \/ HandleIngress \/ RouterPanics
ConsumerSteps == Consume \/ Send
HandlerSteps(c) == Write(c) \/ Receive(c) \/ Expire(c)

GatewayNext ==
    \/ IngressSteps \/ ConsumerSteps \/ GarbageReply
    \/ LoseIngressWatch \/ KillGateway \/ StartGateway
    \/ \E c \in Call : Begin(c) \/ HandlerSteps(c) \/ WriteFails(c) \/ FunctionReplies(c)
    \/ \E i \in Ingress : PutIngress(i) \/ DeleteIngress(i)

GatewaySafe == GatewayInit /\ [][GatewayNext]_gatewayVars

\* The gateway's goroutines go on; 90 seconds pass.
GatewaySpec ==
    /\ GatewaySafe
    /\ WF_gatewayVars(IngressSteps) /\ WF_gatewayVars(ConsumerSteps)
    /\ \A c \in Call : WF_gatewayVars(HandlerSteps(c))

-----------------------------------------------------------------------------
\* A call that was answered has left nothing in the map, in its channel or with
\* the consumer, so no second reply can block the consumer in its send.
AnsweredLeavesNothing ==
    /\ \A c \in Call : handler[c] = "answered" => c \notin channelMap \cup channel \cup {held}
    /\ held # NoCall => held \notin channel \cup channelMap

\* Once all events are handled, the gateway routes every ingress, unless it has
\* been listed and not told of, as after a restart, or the informer is stuck.
RoutesFollow ==
    /\ gatewayUp /\ ingressInf = "watch" /\ ingressStream = <<>> /\ ingressOut = NoIngressEvent
    => \A i \in Ingress \ unrouted : ingresses[i] # NoRoute => ingresses[i] \in routes

\* The calls as their callers see them.
OutcomeOf(state) == CASE state \in {"write", "wait"} -> "open"
                      [] state = "failed" -> "refused"
                      [] OTHER -> state
Outcomes == [c \in Call |-> OutcomeOf(handler[c])]

\* The gateway keeps the promise of Calls.
Promise == INSTANCE Calls WITH outcome <- Outcomes, replied <- functionReplied
CallsKept == Promise!CallsSpec
=============================================================================
