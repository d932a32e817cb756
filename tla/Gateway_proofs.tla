---------------------------- MODULE Gateway_proofs ----------------------------
(***************************************************************************)
(* The gateway is well typed, an answered call leaves nothing behind,      *)
(* every step of the gateway is one that Calls allows or no step of it,    *)
(* and ingresses it has heard of get their routes.                         *)
(***************************************************************************)
EXTENDS Gateway, TLAPS

\* A call that is handled is in the map, with the consumer or in its channel, in
\* one of them at most; one that is new or answered is in none.
Clean ==
    /\ channel \cap channelMap = {} /\ held \notin channel \cup channelMap
    /\ \A c \in Call : handler[c] \in {"none", "answered"}
                       => c \notin channelMap \cup channel \cup {held}

\* Responses come from functions, requests from calls.
Genuine ==
    /\ channel \subseteq functionReplied /\ held \in functionReplied \cup {NoCall}
    /\ \A k \in 1..Len(returnTopic) : returnTopic[k] \in functionReplied \cup {Garbage}
    /\ \A c \in actionTopic : handler[c] # "none"

Inv == GatewayTypeOK /\ Clean /\ Genuine

USE GatewayAssumption

-----------------------------------------------------------------------------
(* Types.                                                                  *)

\* Messages and events have routes.
LEMMA Messages ==
    ASSUME NEW i \in Ingress, NEW r \in Route \cup {NoRoute}
    PROVE  [ingress |-> i, route |-> r] \in IngressMsg
  BY DEF IngressMsg

\* An incident stays within its budget.
LEMMA IncidentTyped ==
    ASSUME gatewayIncidents \in 0..MaxGatewayIncidents, GatewayIncident
    PROVE  gatewayIncidents' \in 0..MaxGatewayIncidents
  BY DEF GatewayIncident

\* A gateway that ends is well typed.
LEMMA EndTyped ==
    ASSUME GatewayTypeOK, GatewayEnds,
           gatewayIncidents' \in 0..MaxGatewayIncidents
    PROVE  GatewayTypeOK'
<1>1. handler' \in [Call -> HandlerState]
  BY DEF GatewayEnds, GatewayTypeOK, HandlerState
<1>2. ingressStream' \in Seq(IngressMsg) /\ returnTopic' \in Seq(Call \cup {Garbage})
  BY DEF GatewayEnds
<1>3. /\ ingressCache' \in [Ingress -> Route \cup {NoRoute}]
      /\ pathSet' \in [Path -> Method \cup {NoMethod}]
  BY DEF GatewayEnds
<1>4. former' \subseteq Call
  BY DEF GatewayEnds
<1> QED
  BY <1>1, <1>2, <1>3, <1>4 DEF GatewayEnds, GatewayTypeOK

\* A step that is a call's keeps the types.
LEMMA CallTyped ==
    ASSUME GatewayTypeOK, NEW c \in Call,
           Begin(c) \/ HandlerSteps(c) \/ WriteFails(c) \/ FunctionReplies(c)
    PROVE  GatewayTypeOK'
<1> USE DEF GatewayTypeOK, HandlerState, ingressVars
<1>1. CASE Begin(c)
  BY <1>1 DEF Begin
<1>2. CASE Write(c)
  BY <1>2 DEF Write
<1>3. CASE Receive(c)
  BY <1>3 DEF Receive
<1>4. CASE Expire(c)
  BY <1>4, IncidentTyped DEF Expire
<1>5. CASE WriteFails(c)
  BY <1>5, IncidentTyped DEF WriteFails
<1>6. CASE FunctionReplies(c)
  <2>1. gatewayIncidents' \in 0..MaxGatewayIncidents
    BY <1>6, IncidentTyped DEF FunctionReplies
  <2>2. returnTopic' \in Seq(Call \cup {Garbage})
    <3> HIDE DEF GatewayTypeOK, HandlerState, ingressVars
    <3>1. returnTopic \in Seq(Call \cup {Garbage}) /\ c \in Call \cup {Garbage}
      BY DEF GatewayTypeOK
    <3>2. Append(returnTopic, c) \in Seq(Call \cup {Garbage})
      BY <3>1
    <3> QED
      BY <1>6, <3>1, <3>2 DEF FunctionReplies
  <2> QED
    BY <1>6, <2>1, <2>2 DEF FunctionReplies
<1> QED
  BY <1>1, <1>2, <1>3, <1>4, <1>5, <1>6 DEF HandlerSteps

\* A step of the consumer, or a reply that cannot be parsed, keeps the types.
LEMMA ConsumerTyped ==
    ASSUME GatewayTypeOK, ConsumerSteps \/ GarbageReply
    PROVE  GatewayTypeOK'
<1> USE DEF GatewayTypeOK, ingressVars
<1>1. CASE Consume
  <2>1. Head(returnTopic) \in Call \cup {Garbage} /\ Tail(returnTopic) \in Seq(Call \cup {Garbage})
    BY <1>1 DEF Consume
  <2> QED
    BY <1>1, <2>1 DEF Consume
<1>2. CASE Send
  BY <1>2 DEF Send
<1>3. CASE GarbageReply
  BY <1>3, IncidentTyped DEF GarbageReply
<1> QED
  BY <1>1, <1>2, <1>3 DEF ConsumerSteps

\* What informs the gateway of an ingress keeps the types.
LEMMA InformTyped ==
    ASSUME GatewayTypeOK, InformIngress
    PROVE  GatewayTypeOK'
<1> USE DEF GatewayTypeOK
<1>1. /\ Head(ingressStream) \in IngressMsg
      /\ Tail(ingressStream) \in Seq(IngressMsg)
  BY DEF InformIngress
<1> DEFINE i == Head(ingressStream).ingress
           new == Head(ingressStream).route
<1>2. i \in Ingress /\ new \in Route \cup {NoRoute}
  BY <1>1 DEF IngressMsg
<1>3. new # NoRoute => new[1] \in Path /\ new[2] \in Method
  BY <1>2 DEF Route
<1>4. ingressOut' \in IngressEvent \cup {NoIngressEvent}
  BY <1>2 DEF InformIngress, IngressEvent
<1>5. /\ ingressCache' \in [Ingress -> Route \cup {NoRoute}]
      /\ pathSet' \in [Path -> Method \cup {NoMethod}]
      /\ ingressInf' \in {"list", "connect", "watch", "stuck"}
  BY <1>2, <1>3 DEF InformIngress
<1> QED
  BY <1>1, <1>4, <1>5 DEF InformIngress, callingVars

\* A step about ingresses keeps the types.
LEMMA IngressTyped ==
    ASSUME GatewayTypeOK,
           \/ IngressSteps \/ LoseIngressWatch
           \/ \E i \in Ingress : PutIngress(i) \/ DeleteIngress(i)
    PROVE  GatewayTypeOK'
<1> USE DEF GatewayTypeOK, callingVars
<1>1. CASE ListIngresses
  BY <1>1 DEF ListIngresses
<1>2. CASE ConnectIngresses
  BY <1>2 DEF ConnectIngresses
<1>3. CASE InformIngress
  BY <1>3, InformTyped
<1>4. CASE HandleIngress
  <2>1. ingressOut.type # "remove" => ingressOut.route \in Route
    BY <1>4 DEF HandleIngress, IngressEvent
  <2> QED
    BY <1>4, <2>1 DEF HandleIngress
<1>5. CASE RouterPanics
  BY <1>5, EndTyped DEF RouterPanics
<1>6. CASE LoseIngressWatch
  BY <1>6, IncidentTyped DEF LoseIngressWatch
<1>7. ASSUME NEW i \in Ingress, NEW r \in Route \cup {NoRoute}, WriteIngress(i, r)
      PROVE  GatewayTypeOK'
  BY <1>7, Messages DEF WriteIngress
<1>8. CASE \E i \in Ingress : PutIngress(i) \/ DeleteIngress(i)
  BY <1>7, <1>8 DEF PutIngress, DeleteIngress
<1> QED
  BY <1>1, <1>2, <1>3, <1>4, <1>5, <1>6, <1>8 DEF IngressSteps

\* Every step keeps the types.
LEMMA StepTyped ==
    ASSUME GatewayTypeOK, [GatewayNext]_gatewayVars
    PROVE  GatewayTypeOK'
<1>1. CASE KillGateway
  BY <1>1, EndTyped, IncidentTyped DEF KillGateway, GatewayTypeOK
<1>2. CASE StartGateway
  BY <1>2 DEF StartGateway, GatewayTypeOK, ingressVars, callingVars
<1>3. CASE UNCHANGED gatewayVars
  BY <1>3 DEF gatewayVars, GatewayTypeOK, ingressVars, callingVars
<1> QED
  BY <1>1, <1>2, <1>3, CallTyped, ConsumerTyped, IngressTyped DEF GatewayNext

\* In every state each variable has its type: the gateway with its informer, its
\* handlers and its consumer.
THEOREM Typed == GatewaySafe => []GatewayTypeOK
<1>1. GatewayInit => GatewayTypeOK
  BY DEF GatewayInit, GatewayTypeOK, HandlerState
<1> QED
  BY <1>1, StepTyped, PTL DEF GatewaySafe
-----------------------------------------------------------------------------
(* What an answered call leaves.                                           *)

\* What a step of the gateway can be, as its calls see it.
LEMMA Steps ==
    ASSUME [GatewayNext]_gatewayVars
    PROVE  \/ UNCHANGED callingVars
           \/ GatewayEnds \/ ConsumerSteps \/ GarbageReply
           \/ \E c \in Call : Begin(c) \/ HandlerSteps(c) \/ WriteFails(c) \/ FunctionReplies(c)
<1>1. CASE IngressSteps \/ LoseIngressWatch \/ \E i \in Ingress : PutIngress(i) \/ DeleteIngress(i)
  BY <1>1 DEF IngressSteps, ListIngresses, ConnectIngresses, InformIngress, HandleIngress,
     RouterPanics, LoseIngressWatch, PutIngress, DeleteIngress, WriteIngress
<1>2. CASE KillGateway
  BY <1>2 DEF KillGateway
<1>3. CASE StartGateway
  BY <1>3 DEF StartGateway
<1>4. CASE UNCHANGED gatewayVars
  BY <1>4 DEF gatewayVars
<1> QED
  BY <1>1, <1>2, <1>3, <1>4 DEF GatewayNext

\* Every step keeps the places of a call apart.
LEMMA StepClean ==
    ASSUME GatewayTypeOK, Clean, [GatewayNext]_gatewayVars
    PROVE  Clean'
<1> USE DEF Clean
<1>1. CASE UNCHANGED callingVars
  BY <1>1 DEF callingVars
<1>2. CASE GatewayEnds
  BY <1>2 DEF GatewayEnds
<1>3. CASE Consume
  <2> DEFINE m == Head(returnTopic)
  <2>1. held = NoCall
    BY <1>3 DEF Consume, GatewayTypeOK
  <2>2. CASE m \in channelMap
    BY <1>3, <2>2 DEF Consume, GatewayTypeOK
  <2>3. CASE m \notin channelMap
    BY <1>3, <2>1, <2>3 DEF Consume, GatewayTypeOK
  <2> QED
    BY <2>2, <2>3
<1>4. CASE Send
  BY <1>4 DEF Send, GatewayTypeOK
<1>5. CASE GarbageReply
  BY <1>5 DEF GarbageReply
<1>6. ASSUME NEW c \in Call, Begin(c) PROVE Clean'
  BY <1>6 DEF Begin, GatewayTypeOK
<1>7. ASSUME NEW c \in Call, Write(c) \/ Expire(c) \/ WriteFails(c) PROVE Clean'
  BY <1>7 DEF Write, Expire, WriteFails, GatewayTypeOK
<1>8. ASSUME NEW c \in Call, Receive(c) PROVE Clean'
  BY <1>8 DEF Receive, GatewayTypeOK
<1>9. ASSUME NEW c \in Call, FunctionReplies(c) PROVE Clean'
  BY <1>9 DEF FunctionReplies
<1> QED
  BY Steps, <1>1, <1>2, <1>3, <1>4, <1>5, <1>6, <1>7, <1>8, <1>9 DEF ConsumerSteps, HandlerSteps

\* Every step keeps responses and requests genuine.
LEMMA StepGenuine ==
    ASSUME GatewayTypeOK, Clean, Genuine, [GatewayNext]_gatewayVars
    PROVE  Genuine'
<1> USE DEF Genuine
<1>1. CASE UNCHANGED callingVars
  BY <1>1 DEF callingVars
<1>2. CASE GatewayEnds
  <2>1. Len(returnTopic') = 0
    BY <1>2 DEF GatewayEnds
  <2>2. \A c \in actionTopic' : handler'[c] # "none"
    BY <1>2 DEF GatewayEnds, GatewayTypeOK
  <2> QED
    BY <1>2, <2>1, <2>2 DEF GatewayEnds
<1>3. CASE Consume
  <2>1. \A k \in 1..Len(returnTopic') : k + 1 \in 1..Len(returnTopic) /\ returnTopic'[k] = returnTopic[k + 1]
    BY <1>3 DEF Consume, GatewayTypeOK
  <2>2. Head(returnTopic) \in channelMap => Head(returnTopic) \in functionReplied
    <3>1. Head(returnTopic) = returnTopic[1] /\ 1 \in 1..Len(returnTopic)
      BY <1>3 DEF Consume, GatewayTypeOK
    <3> QED
      BY <3>1 DEF GatewayTypeOK
  <2>3. held' \in functionReplied' \cup {NoCall}
    BY <1>3, <2>2 DEF Consume
  <2> QED
    BY <1>3, <2>1, <2>3 DEF Consume
<1>4. CASE Send
  BY <1>4 DEF Send, GatewayTypeOK
<1>5. CASE GarbageReply
  BY <1>5 DEF GarbageReply, GatewayTypeOK
<1>6. ASSUME NEW c \in Call, Begin(c) \/ Write(c) \/ Expire(c) \/ WriteFails(c) \/ Receive(c)
      PROVE  Genuine'
  BY <1>6 DEF Begin, Write, Expire, WriteFails, Receive, GatewayTypeOK, HandlerState
<1>7. ASSUME NEW c \in Call, FunctionReplies(c) PROVE Genuine'
  <2>1. \A k \in 1..Len(returnTopic') : returnTopic'[k] \in functionReplied' \cup {Garbage}
    BY <1>7 DEF FunctionReplies, GatewayTypeOK
  <2> QED
    BY <1>7, <2>1 DEF FunctionReplies
<1> QED
  BY Steps, <1>1, <1>2, <1>3, <1>4, <1>5, <1>6, <1>7 DEF ConsumerSteps, HandlerSteps

\* The invariant holds at first, and every step keeps it.
LEMMA Invariance == GatewaySafe => []Inv
<1>1. GatewayInit => Inv
  BY DEF GatewayInit, Inv, Clean, Genuine, GatewayTypeOK, HandlerState
<1>2. Inv /\ [GatewayNext]_gatewayVars => Inv'
  BY StepTyped, StepClean, StepGenuine DEF Inv
<1> QED
  BY <1>1, <1>2, PTL DEF GatewaySafe

\* When a call has been answered its entry of channelMap is gone, its channel is
\* empty and the consumer does not hold a second response to it.
THEOREM AnsweredClean == GatewaySafe => []AnsweredLeavesNothing
<1>1. Inv => AnsweredLeavesNothing
  BY DEF Inv, Clean, AnsweredLeavesNothing, GatewayTypeOK
<1> QED
  BY <1>1, Invariance, PTL
-----------------------------------------------------------------------------
(* The promise of Calls.                                                   *)

\* A handler that goes on changes the outcome of its call only.
LEMMA OneOutcome ==
    ASSUME handler \in [Call -> HandlerState], NEW c \in Call, NEW state \in HandlerState,
           handler' = [handler EXCEPT ![c] = state]
    PROVE  Outcomes' = [Outcomes EXCEPT ![c] = OutcomeOf(state)]
<1>1. \A d \in Call : handler'[d] = IF d = c THEN state ELSE handler[d]
  OBVIOUS
<1>2. \A d \in Call : OutcomeOf(handler'[d]) = IF d = c THEN OutcomeOf(state) ELSE OutcomeOf(handler[d])
  BY <1>1
<1> QED
  BY <1>2 DEF Outcomes

\* A new call is let in or refused; one that is written is as open as before, and
\* one whose request could not be written is refused.
LEMMA CallBegins ==
    ASSUME GatewayTypeOK, NEW c \in Call, Begin(c) \/ Write(c) \/ WriteFails(c)
    PROVE  [Promise!CallsNext]_Promise!callVars
<1> USE DEF GatewayTypeOK, OutcomeOf
<1>1. CASE Begin(c)
  <2>1. Outcomes[c] = "none" /\ functionReplied' = functionReplied
    BY <1>1 DEF Begin, Outcomes
  <2>2. \/ Outcomes' = [Outcomes EXCEPT ![c] = "refused"]
        \/ Outcomes' = [Outcomes EXCEPT ![c] = "open"]
    BY <1>1, OneOutcome DEF Begin, HandlerState
  <2> QED
    BY <2>1, <2>2 DEF Promise!CallsNext, Promise!Refuse, Promise!Open
<1>2. CASE Write(c)
  <2>1. Outcomes[c] = "open" /\ functionReplied' = functionReplied
    BY <1>2 DEF Write, Outcomes
  <2>2. Outcomes' = [Outcomes EXCEPT ![c] = "open"]
    BY <1>2, OneOutcome DEF Write, HandlerState
  <2>3. Outcomes' = Outcomes
    BY <2>1, <2>2 DEF Outcomes
  <2> QED
    BY <2>1, <2>3 DEF Promise!callVars
<1>3. CASE WriteFails(c)
  <2>1. Outcomes[c] = "open" /\ functionReplied' = functionReplied
    BY <1>3 DEF WriteFails, Outcomes
  <2>2. Outcomes' = [Outcomes EXCEPT ![c] = "refused"]
    BY <1>3, OneOutcome DEF WriteFails, HandlerState
  <2> QED
    BY <2>1, <2>2 DEF Promise!CallsNext, Promise!Refuse
<1> QED
  BY <1>1, <1>2, <1>3

\* A call is answered after a function replied to it, or times out.
LEMMA CallEnds ==
    ASSUME Inv, NEW c \in Call, Receive(c) \/ Expire(c) \/ FunctionReplies(c)
    PROVE  [Promise!CallsNext]_Promise!callVars
<1> USE DEF Inv, GatewayTypeOK, OutcomeOf
<1>1. CASE Receive(c)
  <2>1. /\ Outcomes[c] = "open" /\ functionReplied' = functionReplied
        /\ c \in functionReplied
    BY <1>1 DEF Receive, Outcomes, Genuine
  <2>2. Outcomes' = [Outcomes EXCEPT ![c] = "answered"]
    BY <1>1, OneOutcome DEF Receive, HandlerState
  <2> QED
    BY <2>1, <2>2 DEF Promise!CallsNext, Promise!Answer
<1>2. CASE Expire(c)
  <2>1. Outcomes[c] = "open" /\ functionReplied' = functionReplied
    BY <1>2 DEF Expire, Outcomes
  <2>2. Outcomes' = [Outcomes EXCEPT ![c] = "timed out"]
    BY <1>2, OneOutcome DEF Expire, HandlerState
  <2> QED
    BY <2>1, <2>2 DEF Promise!CallsNext, Promise!TimeOut
<1>3. CASE FunctionReplies(c)
  <2>1. functionReplied' = functionReplied \cup {c} /\ Outcomes' = Outcomes
    BY <1>3 DEF FunctionReplies, Outcomes
  <2>2. Outcomes[c] # "none"
    BY <1>3 DEF FunctionReplies, Outcomes, Genuine, HandlerState
  <2> QED
    BY <2>1, <2>2 DEF Promise!CallsNext, Promise!Reply
<1> QED
  BY <1>1, <1>2, <1>3

\* A gateway that ends cuts off its callers.
LEMMA CallsCut ==
    ASSUME GatewayTypeOK, GatewayEnds
    PROVE  [Promise!CallsNext]_Promise!callVars
<1>1. \A c \in Call : OutcomeOf(handler'[c]) =
         IF OutcomeOf(handler[c]) = "open" THEN "cut" ELSE OutcomeOf(handler[c])
  BY DEF GatewayEnds, GatewayTypeOK, HandlerState, OutcomeOf
<1>2. Outcomes' = [c \in Call |-> IF Outcomes[c] = "open" THEN "cut" ELSE Outcomes[c]]
  BY <1>1 DEF Outcomes
<1>3. functionReplied' = functionReplied
  BY DEF GatewayEnds
<1> QED
  BY <1>2, <1>3 DEF Promise!CallsNext, Promise!Cut

\* Every step of the gateway is one of Calls or none.
LEMMA StepPromised ==
    ASSUME Inv, [GatewayNext]_gatewayVars
    PROVE  [Promise!CallsNext]_Promise!callVars
<1>1. CASE UNCHANGED <<handler, functionReplied>>
  BY <1>1 DEF Outcomes, Promise!callVars
<1>2. CASE GatewayEnds
  BY <1>2, CallsCut DEF Inv
<1>3. UNCHANGED callingVars \/ ConsumerSteps \/ GarbageReply => UNCHANGED <<handler, functionReplied>>
  BY DEF callingVars, ConsumerSteps, Consume, Send, GarbageReply
<1>4. ASSUME NEW c \in Call, Begin(c) \/ HandlerSteps(c) \/ WriteFails(c) \/ FunctionReplies(c)
      PROVE  [Promise!CallsNext]_Promise!callVars
  BY <1>4, CallBegins, CallEnds DEF HandlerSteps, Inv
<1> QED
  BY Steps, <1>1, <1>2, <1>3, <1>4

\* For its callers the gateway behaves as Calls allows: each call is let in and ends
\* at most once, and is answered only if a function replied to that very call,
\* whatever is lost, delivered twice or late and however often the gateway restarts.
THEOREM PromiseSafe == GatewaySafe => Promise!CallsSafe
<1>1. GatewayInit => Promise!CallsInit
  BY DEF GatewayInit, Promise!CallsInit, Outcomes, OutcomeOf
<1>2. Inv /\ [GatewayNext]_gatewayVars => [Promise!CallsNext]_Promise!callVars
  BY StepPromised
<1> QED
  BY <1>1, <1>2, Invariance, PTL DEF GatewaySafe, Promise!CallsSafe
-----------------------------------------------------------------------------
(* Routes.                                                                 *)

\* The last message of an ingress says what etcd has, while the watch is open.
LastSays ==
    \A k \in 1..Len(ingressStream) :
       (\A l \in 1..Len(ingressStream) : l > k => ingressStream[l].ingress # ingressStream[k].ingress)
       => ingressStream[k].route = ingresses[ingressStream[k].ingress]

\* An ingress without a message is in the cache as it is in etcd, unless it has been
\* listed or missed, or is gone from etcd.
CacheKnows ==
    ingressInf \in {"connect", "watch"} =>
    \A i \in Ingress \ unrouted :
       ingresses[i] # NoRoute /\ (\A k \in 1..Len(ingressStream) : ingressStream[k].ingress # i)
       => ingressCache[i] = ingresses[i]

\* A cached ingress that was not listed has its route or is on its way to it.
CacheRouted ==
    \A i \in Ingress \ unrouted : ingressCache[i] # NoRoute =>
       \/ ingressCache[i] \in routes
       \/ ingressOut # NoIngressEvent /\ ingressOut.route = ingressCache[i]

Routed ==
    /\ gatewayUp \/ ingressInf = "list"
    /\ ingressInf \in {"list", "connect"} => ingressStream = <<>>
    /\ LastSays /\ CacheKnows /\ CacheRouted

\* What a message of the stream consists of.
LEMMA MessageOf ==
    ASSUME NEW s \in Seq(IngressMsg), NEW k \in 1..Len(s)
    PROVE  s[k].ingress \in Ingress /\ s[k].route \in Route \cup {NoRoute}
<1>1. s[k] \in IngressMsg
  OBVIOUS
<1> QED
  BY <1>1 DEF IngressMsg

\* A write appends its message, is missed, or is nobody's to hear.
LEMMA WriteRouted ==
    ASSUME GatewayTypeOK, Routed, NEW i \in Ingress, NEW r \in Route \cup {NoRoute}, WriteIngress(i, r)
    PROVE  Routed'
<1>1. /\ ingresses \in [Ingress -> Route \cup {NoRoute}] /\ ingressStream \in Seq(IngressMsg)
      /\ ingressInf \in {"list", "connect", "watch", "stuck"}
  BY DEF GatewayTypeOK
<1>2. /\ ingresses'[i] = r /\ \A j \in Ingress : j # i => ingresses'[j] = ingresses[j]
      /\ UNCHANGED <<gatewayUp, ingressInf, ingressCache, ingressOut, routes>>
      /\ unrouted \subseteq unrouted'
  BY <1>1 DEF WriteIngress
<1>3. CacheRouted'
  BY <1>2 DEF Routed, CacheRouted
<1>4. CASE gatewayUp /\ ingressInf \in {"watch", "stuck"}
  <2> DEFINE m == [ingress |-> i, route |-> r]
  <2>1. m \in IngressMsg /\ m.ingress = i /\ m.route = r
    BY Messages
  <2>2. ingressStream' = Append(ingressStream, m) /\ unrouted' = unrouted
    BY <1>4 DEF WriteIngress
  <2> HIDE DEF m
  <2>3. /\ Len(ingressStream') = Len(ingressStream) + 1 /\ ingressStream'[Len(ingressStream) + 1] = m
        /\ \A k \in 1..Len(ingressStream) : ingressStream'[k] = ingressStream[k]
    BY <1>1, <2>1, <2>2
  <2>4. Len(ingressStream) \in Nat /\ \A k \in 1..Len(ingressStream) : ingressStream[k].ingress \in Ingress
    BY <1>1, MessageOf
  <2>5. LastSays'
    <3> SUFFICES ASSUME NEW k \in 1..(Len(ingressStream) + 1),
                        \A l \in 1..(Len(ingressStream) + 1) :
                           l > k => ingressStream'[l].ingress # ingressStream'[k].ingress
                 PROVE  ingressStream'[k].route = ingresses'[ingressStream'[k].ingress]
      BY <2>3 DEF LastSays
    <3>1. CASE k = Len(ingressStream) + 1
      BY <1>2, <2>1, <2>3, <3>1
    <3>2. CASE k \in 1..Len(ingressStream)
      <4>1. ingressStream[k].ingress # i
        BY <2>1, <2>3, <2>4, <3>2
      <4>2. \A l \in 1..Len(ingressStream) : l > k => ingressStream[l].ingress # ingressStream[k].ingress
        BY <2>3, <2>4, <3>2
      <4>3. ingressStream[k].route = ingresses[ingressStream[k].ingress]
        BY <3>2, <4>2 DEF Routed, LastSays
      <4> QED
        BY <1>2, <2>3, <2>4, <3>2, <4>1, <4>3
    <3> QED
      BY <2>4, <3>1, <3>2
  <2>6. CacheKnows'
    <3> SUFFICES ASSUME ingressInf \in {"connect", "watch"}, NEW j \in Ingress \ unrouted,
                        ingresses'[j] # NoRoute,
                        \A k \in 1..(Len(ingressStream) + 1) : ingressStream'[k].ingress # j
                 PROVE  ingressCache[j] = ingresses'[j]
      BY <1>2, <2>2, <2>3 DEF CacheKnows
    <3>1. j # i
      BY <2>1, <2>3, <2>4
    <3>2. \A k \in 1..Len(ingressStream) : ingressStream[k].ingress # j
      BY <2>3, <2>4
    <3> QED
      BY <1>2, <3>1, <3>2 DEF Routed, CacheKnows
  <2> QED
    BY <1>2, <1>3, <1>4, <2>5, <2>6 DEF Routed
<1>5. CASE ~(gatewayUp /\ ingressInf \in {"watch", "stuck"})
  <2>1. ingressStream' = <<>>
    BY <1>1, <1>5 DEF Routed, WriteIngress
  <2>2. LastSays'
    BY <2>1 DEF LastSays
  <2>3. CASE ingressInf = "connect"
    <3>1. i \in unrouted' /\ gatewayUp
      BY <2>3 DEF WriteIngress, Routed
    <3>2. CacheKnows'
      BY <1>2, <1>5, <2>1, <2>3, <3>1 DEF Routed, CacheKnows, WriteIngress
    <3> QED
      BY <1>2, <1>3, <2>1, <2>2, <3>2 DEF Routed
  <2>4. CASE ingressInf = "list"
    BY <1>2, <1>3, <2>1, <2>2, <2>4 DEF Routed, CacheKnows
  <2> QED
    BY <1>1, <1>5, <2>3, <2>4 DEF Routed
<1> QED
  BY <1>4, <1>5

\* An event that is read brings its ingress into the cache as it is in etcd, unless
\* another event of it follows or the informer gets stuck.
LEMMA InformRouted ==
    ASSUME GatewayTypeOK, Routed, InformIngress
    PROVE  Routed'
<1>1. /\ ingresses \in [Ingress -> Route \cup {NoRoute}] /\ ingressStream \in Seq(IngressMsg)
      /\ ingressCache \in [Ingress -> Route \cup {NoRoute}]
      /\ ingressStream # <<>> /\ ingressStream' = Tail(ingressStream)
      /\ ingressInf = "watch" /\ gatewayUp /\ ingressOut = NoIngressEvent
      /\ UNCHANGED <<gatewayUp, ingresses, routes, unrouted>>
  BY DEF GatewayTypeOK, InformIngress
<1>2. /\ Len(ingressStream) \in Nat /\ Len(ingressStream) >= 1 /\ ingressStream[1] = Head(ingressStream)
      /\ Len(ingressStream') = Len(ingressStream) - 1
      /\ \A k \in 1..Len(ingressStream') :
            k + 1 \in 1..Len(ingressStream) /\ ingressStream'[k] = ingressStream[k + 1]
  BY <1>1
<1>3. PICK i \in Ingress, new \in Route \cup {NoRoute} :
         i = Head(ingressStream).ingress /\ new = Head(ingressStream).route
  <2>1. 1 \in 1..Len(ingressStream)
    BY <1>2
  <2> QED
    BY <1>1, <1>2, <2>1, MessageOf
<1>4. \A k \in 1..Len(ingressStream) :
         k = 1 \/ (k - 1 \in 1..Len(ingressStream') /\ ingressStream'[k - 1] = ingressStream[k])
  BY <1>2
<1>5. \/ /\ ingressInf' = "watch" /\ ingressCache' = [ingressCache EXCEPT ![i] = new]
         /\ new # NoRoute => \/ ingressCache[i] = new /\ ingressOut' = NoIngressEvent
                             \/ ingressOut' \in IngressEvent /\ ingressOut'.route = new
      \/ ingressInf' = "stuck" /\ UNCHANGED <<ingressCache, ingressOut>>
  <2> DEFINE old == ingressCache[i]
             Cached == ingressCache' = [ingressCache EXCEPT ![i] = new]
  <2>1. \/ new = NoRoute /\ Cached /\ UNCHANGED ingressInf
        \/ ingressInf' = "stuck" /\ UNCHANGED <<ingressCache, ingressOut>>
        \/ /\ new # NoRoute /\ Cached /\ UNCHANGED ingressInf
           /\ ingressOut' = CASE old = NoRoute -> [type |-> "create", route |-> new]
                              [] old \notin {NoRoute, new} -> [type |-> "update", route |-> new]
                              [] OTHER -> NoIngressEvent
    BY <1>3 DEF InformIngress
  <2>2. ASSUME new # NoRoute,
               ingressOut' = CASE old = NoRoute -> [type |-> "create", route |-> new]
                               [] old \notin {NoRoute, new} -> [type |-> "update", route |-> new]
                               [] OTHER -> NoIngressEvent
        PROVE  \/ old = new /\ ingressOut' = NoIngressEvent
               \/ ingressOut' \in IngressEvent /\ ingressOut'.route = new
    <3>1. \/ old = new /\ ingressOut' = NoIngressEvent
          \/ ingressOut' = [type |-> "create", route |-> new]
          \/ ingressOut' = [type |-> "update", route |-> new]
      BY <2>2
    <3>2. ASSUME NEW t \in {"create", "update"}
          PROVE  [type |-> t, route |-> new] \in IngressEvent
      BY <2>2 DEF IngressEvent
    <3>3. /\ [type |-> "create", route |-> new] \in IngressEvent
          /\ [type |-> "update", route |-> new] \in IngressEvent
      BY <3>2
    <3> QED
      BY <3>1, <3>3
  <2> QED
    BY <1>1, <2>1, <2>2
<1>6. LastSays'
  <2> SUFFICES ASSUME NEW k \in 1..Len(ingressStream'),
                      \A l \in 1..Len(ingressStream') :
                         l > k => ingressStream'[l].ingress # ingressStream'[k].ingress
               PROVE  ingressStream'[k].route = ingresses'[ingressStream'[k].ingress]
    BY DEF LastSays
  <2>1. k + 1 \in 1..Len(ingressStream) /\ ingressStream'[k] = ingressStream[k + 1]
    BY <1>2
  <2>2. ASSUME NEW l \in 1..Len(ingressStream), l > k + 1
        PROVE  ingressStream[l].ingress # ingressStream[k + 1].ingress
    <3>1. l - 1 \in 1..Len(ingressStream') /\ l - 1 > k /\ ingressStream'[l - 1] = ingressStream[l]
      BY <1>2, <1>4, <2>2
    <3> QED
      BY <2>1, <3>1
  <2> QED
    BY <1>1, <2>1, <2>2 DEF Routed, LastSays
<1>7. ASSUME ingressInf' = "watch", ingressCache' = [ingressCache EXCEPT ![i] = new]
      PROVE  CacheKnows'
  <2> SUFFICES ASSUME NEW j \in Ingress \ unrouted, ingresses[j] # NoRoute,
                      \A k \in 1..Len(ingressStream') : ingressStream'[k].ingress # j
               PROVE  ingressCache'[j] = ingresses[j]
    BY <1>1 DEF CacheKnows
  <2>1. \A k \in 1..Len(ingressStream) : k # 1 => ingressStream[k].ingress # j
    BY <1>4
  <2>2. CASE j = i
    <3>1. ingressStream[1].route = ingresses[ingressStream[1].ingress]
      BY <1>2, <1>3, <2>1, <2>2 DEF Routed, LastSays
    <3> QED
      BY <1>1, <1>2, <1>3, <1>7, <2>2, <3>1
  <2>3. CASE j # i
    <3>1. \A k \in 1..Len(ingressStream) : ingressStream[k].ingress # j
      BY <1>2, <1>3, <2>1, <2>3
    <3>2. ingressCache[j] = ingresses[j]
      BY <1>1, <3>1 DEF Routed, CacheKnows
    <3> QED
      BY <1>1, <1>7, <2>3, <3>2
  <2> QED
    BY <2>2, <2>3
<1>8. CacheRouted'
  <2> SUFFICES ASSUME NEW j \in Ingress \ unrouted, ingressCache'[j] # NoRoute
               PROVE  \/ ingressCache'[j] \in routes
                      \/ ingressOut' # NoIngressEvent /\ ingressOut'.route = ingressCache'[j]
    BY <1>1 DEF CacheRouted
  <2>1. ingressCache[j] # NoRoute => ingressCache[j] \in routes
    BY <1>1 DEF Routed, CacheRouted
  <2>2. CASE ingressCache'[j] = ingressCache[j]
    BY <2>1, <2>2
  <2>3. CASE ingressCache'[j] # ingressCache[j]
    <3>1. j = i /\ ingressCache' = [ingressCache EXCEPT ![i] = new]
      BY <1>1, <1>5, <2>3
    <3>2. new # NoRoute /\ ingressCache'[j] = new /\ ingressCache[i] # new
      BY <1>1, <2>3, <3>1
    <3>3. ingressOut' \in IngressEvent /\ ingressOut'.route = new
      BY <1>5, <2>3, <3>1, <3>2
    <3> QED
      BY <3>2, <3>3
  <2> QED
    BY <2>2, <2>3
<1> QED
  BY <1>1, <1>5, <1>6, <1>7, <1>8 DEF Routed, CacheKnows

\* Every step keeps Routed.
LEMMA StepRouted ==
    ASSUME GatewayTypeOK, Routed, [GatewayNext]_gatewayVars
    PROVE  Routed'
<1> USE DEF Routed
<1>1. ASSUME UNCHANGED <<gatewayUp, ingressVars>> PROVE Routed'
  BY <1>1 DEF ingressVars, LastSays, CacheKnows, CacheRouted
<1>2. CASE GatewayEnds
  <2>1. ingressStream' = <<>> /\ ingressInf' = "list" /\ \A i \in Ingress : ingressCache'[i] = NoRoute
    BY <1>2 DEF GatewayEnds
  <2> QED
    BY <2>1 DEF LastSays, CacheKnows, CacheRouted
<1>3. CASE ListIngresses
  <2>1. /\ ingressStream' = <<>> /\ ingressInf' = "connect" /\ gatewayUp'
        /\ UNCHANGED <<ingresses, ingressOut, routes>>
        /\ \A i \in Ingress : ingressCache'[i] = IF ingresses[i] # NoRoute THEN ingresses[i]
                                                                           ELSE ingressCache[i]
        /\ unrouted' = unrouted \cup {i \in Ingress : ingressCache'[i] # ingressCache[i]}
    BY <1>3 DEF ListIngresses
  <2>2. LastSays' /\ CacheKnows'
    BY <2>1 DEF LastSays, CacheKnows
  <2>3. CacheRouted'
    BY <2>1 DEF CacheRouted
  <2> QED
    BY <2>1, <2>2, <2>3
<1>4. CASE ConnectIngresses
  BY <1>4 DEF ConnectIngresses, LastSays, CacheKnows, CacheRouted
<1>5. CASE InformIngress
  BY <1>5, InformRouted
<1>6. CASE HandleIngress
  <2>1. /\ ingressOut \in IngressEvent
        /\ UNCHANGED <<gatewayUp, ingresses, ingressStream, ingressInf, ingressCache, unrouted>>
        /\ ingressOut.type # "remove" => routes' = routes \cup {ingressOut.route}
        /\ ingressOut.type = "remove" => routes' = routes
    BY <1>6 DEF HandleIngress, GatewayTypeOK
  <2>2. ingressOut.type = "remove" => ingressOut.route = NoRoute
    BY <2>1 DEF IngressEvent
  <2>3. CacheRouted'
    BY <2>1, <2>2 DEF CacheRouted
  <2>4. LastSays' /\ CacheKnows'
    BY <2>1 DEF LastSays, CacheKnows
  <2> QED
    BY <2>1, <2>3, <2>4
<1>7. CASE LoseIngressWatch
  BY <1>7 DEF LoseIngressWatch, LastSays, CacheKnows, CacheRouted
<1>8. ASSUME NEW i \in Ingress, PutIngress(i) \/ DeleteIngress(i) PROVE Routed'
  BY <1>8, WriteRouted DEF PutIngress, DeleteIngress
<1>9. CASE RouterPanics \/ KillGateway
  BY <1>2, <1>9 DEF RouterPanics, KillGateway
<1>10. CASE StartGateway
  BY <1>10 DEF StartGateway, ingressVars, LastSays, CacheKnows, CacheRouted
<1>11. CASE ConsumerSteps \/ GarbageReply \/ UNCHANGED gatewayVars
  BY <1>1, <1>11 DEF ConsumerSteps, Consume, Send, GarbageReply, gatewayVars
<1>12. ASSUME NEW c \in Call, Begin(c) \/ HandlerSteps(c) \/ WriteFails(c) \/ FunctionReplies(c)
       PROVE  Routed'
  BY <1>1, <1>12 DEF Begin, HandlerSteps, Write, Receive, Expire, WriteFails, FunctionReplies
<1> QED
  BY <1>3, <1>4, <1>5, <1>6, <1>7, <1>8, <1>9, <1>10, <1>11, <1>12 DEF GatewayNext, IngressSteps

\* An ingress the gateway was told of by an event has its route once the events are
\* handled, whatever routes other ingresses gained, lost or fought over, and
\* however often the watch was lost.
THEOREM RoutesFollowed == GatewaySafe => []RoutesFollow
<1>1. GatewayInit => Routed
  BY DEF GatewayInit, Routed, LastSays, CacheKnows, CacheRouted
<1>2. Routed => RoutesFollow
  <2> SUFFICES ASSUME Routed, ingressInf = "watch", ingressStream = <<>>, ingressOut = NoIngressEvent,
                      NEW i \in Ingress \ unrouted, ingresses[i] # NoRoute
               PROVE  ingresses[i] \in routes
    BY DEF RoutesFollow
  <2>1. ingressCache[i] = ingresses[i]
    BY DEF Routed, CacheKnows
  <2> QED
    BY <2>1 DEF Routed, CacheRouted
<1> QED
  BY <1>1, <1>2, StepRouted, Typed, PTL DEF GatewaySafe
=============================================================================
