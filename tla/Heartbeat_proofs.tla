-------------------------- MODULE Heartbeat_proofs --------------------------
(***************************************************************************)
(* What holds of the heartbeat for every set of connections and every      *)
(* number of faults.                                                       *)
(***************************************************************************)
EXTENDS Heartbeat, FiniteSetTheorems, TLAPS

\* The types hold at first and every step preserves them.
LEMMA TypeOKStep == TypeOK /\ [Next]_vars => TypeOK'
<1> SUFFICES ASSUME TypeOK, [Next]_vars PROVE TypeOK'
    OBVIOUS
<1> USE DEF TypeOK, Socket
<1> QED
  <2>1. CASE Dial
    <3>1. Fresh \in Conn
        BY <2>1 DEF Dial, Fresh, Unused
    <3>2. QED
        BY <2>1, <3>1 DEF Dial
  <2>2. CASE RetryConnection
    BY <2>2 DEF RetryConnection, serverVars
  <2>3. ASSUME NEW c \in Conn, ClientStep(c) PROVE TypeOK'
    <3>1. CASE SendNode(c)
        BY <3>1 DEF SendNode, clientVars, serverVars
    <3>2. ASSUME CloseConn(c)
          PROVE  /\ client' \in [Conn -> Socket]
                 /\ lostCnt' \in Nat
                 /\ retrying' \in Nat
        BY <3>2 DEF CloseConn
    <3>3. CloseConn(c) => connected' \in BOOLEAN
        BY DEF CloseConn
    <3>4. CASE ReadFails(c)
        BY <3>2, <3>3, <3>4 DEF ReadFails, serverVars
    <3>5. CASE BeatFails(c)
        BY <3>2, <3>3, <3>5 DEF BeatFails, serverVars
    <3>6. QED
        BY <2>3, <3>1, <3>4, <3>5 DEF ClientStep
  <2>17. Fault => faults' \in 0..MaxFaults
    BY MaxFaultsAssumption DEF Fault
  <2>18. ASSUME NEW c \in Conn, EtcdError(c) PROVE TypeOK'
    <3> USE DEF EtcdFails, clientVars
    <3>1. CASE LookupFails(c)
        BY <2>17, <3>1 DEF LookupFails
    <3>2. CASE PutReadyFails(c)
        BY <2>17, <3>2 DEF PutReadyFails
    <3>3. CASE PutNotReadyFails(c)
        BY <2>17, <3>3 DEF PutNotReadyFails
    <3>4. QED
        BY <2>18, <3>1, <3>2, <3>3 DEF EtcdError
  <2>4. ASSUME NEW c \in Conn, HandlerStep(c) \/ NextMessage(c) PROVE TypeOK'
    <3> USE DEF HandlerKeeps, clientVars
    <3>1. CASE FirstMessage(c)
        BY <3>1 DEF FirstMessage
    <3>2. CASE NoFirstMessage(c)
        BY <3>2 DEF NoFirstMessage
    <3>3. CASE PutReady(c)
        BY <3>3 DEF PutReady
    <3>4. CASE LoopEnds(c)
        BY <3>4 DEF LoopEnds
    <3>5. CASE PutNotReady(c)
        BY <3>5 DEF PutNotReady
    <3>6. CASE NextMessage(c)
        BY <3>6 DEF NextMessage
    <3>7. QED
        BY <2>4, <3>1, <3>2, <3>3, <3>4, <3>5, <3>6 DEF HandlerStep
  <2>5. CASE CloseStale
    BY <2>5 DEF CloseStale, clientVars
  <2>6. CASE DeleteEntry
    BY <2>6 DEF DeleteEntry, clientVars
  <2>7. Fault => faults' \in 0..MaxFaults
    BY MaxFaultsAssumption DEF Fault
  <2>8. ASSUME NEW c \in Conn, CutConnection(c) PROVE TypeOK'
    BY <2>7, <2>8 DEF CutConnection, clientVars, serverVars
  <2>9. CASE HangCubelet
    BY <2>7, <2>9 DEF HangCubelet, serverVars
  <2>10. CASE KillCubelet
    <3>1. client' \in [Conn -> Socket]
        BY <2>10 DEF KillCubelet
    <3>2. connected' \in BOOLEAN
        BY <2>10 DEF KillCubelet
    <3>3. QED
        BY <2>7, <2>10, <3>1, <3>2 DEF KillCubelet, serverVars
  <2>11. CASE RestartCubelet
    BY <2>11 DEF RestartCubelet, serverVars
  <2>12. CASE KillServer
    BY <2>7, <2>12 DEF KillServer, clientVars
  <2>13. CASE RestartServer
    BY <2>13 DEF RestartServer, clientVars
  <2>14. CASE DeleteNode
    BY <2>7, <2>14 DEF DeleteNode, clientVars
  <2>15. CASE UNCHANGED vars
    BY <2>15 DEF vars, clientVars, serverVars
  <2>16. QED
    BY <2>1, <2>2, <2>3, <2>4, <2>5, <2>6, <2>8, <2>9, <2>10, <2>11, <2>12, <2>13,
       <2>14, <2>15, <2>18 DEF Next

\* Every variable keeps its type.
THEOREM Typed == Spec => []TypeOK
<1>1. Init => TypeOK
  <2> SUFFICES ASSUME Init PROVE TypeOK
      OBVIOUS
  <2>1. connected \in BOOLEAN /\ up \in BOOLEAN /\ toDelete \in BOOLEAN /\ stranded \in BOOLEAN
      BY DEF Init
  <2>2. faults \in 0..MaxFaults
      BY MaxFaultsAssumption DEF Init
  <2>3. QED
      BY <2>1, <2>2 DEF Init, TypeOK, Socket
<1>2. QED
    BY <1>1, TypeOKStep, PTL DEF Spec

\* A connection that has not been made has no handler.
Backed ==
    /\ ReadyIsBacked
    /\ \A c \in Conn : client[c] = "none" => handler[c] = "none"

\* Backed is inductive: only KillServer, PutNotReady and its failure end a backing
\* handler, and only PutReady and its failure make the node Ready.
LEMMA BackedStep == TypeOK /\ Backed /\ [Next]_vars => Backed'
<1> SUFFICES ASSUME TypeOK, Backed, [Next]_vars PROVE Backed'
    OBVIOUS
<1> USE DEF TypeOK, Socket, Backed, ReadyIsBacked
<1> QED
  \* A step that keeps the backing handlers and makes no node Ready.
  <2>1. ASSUME up, node' = "ready" => node = "ready", stranded' = stranded,
               \A b \in Conn : handler[b] \in {"loop", "closing"} =>
                                handler'[b] \in {"loop", "closing"}
        PROVE  ReadyIsBacked'
    BY <2>1
  <2>2. CASE UNCHANGED <<client, up, node, stranded, handler>>
    BY <2>2
  <2>3. CASE Dial
    <3>1. Fresh \in Conn /\ client[Fresh] = "none"
        BY <2>3 DEF Dial, Fresh, Unused
    <3>2. handler[Fresh] = "none"
        BY <3>1
    <3>3. QED
        BY <2>1, <2>3, <3>1, <3>2 DEF Dial
  <2>4. CASE RetryConnection
    BY <2>2, <2>4 DEF RetryConnection, serverVars
  <2>5. ASSUME NEW c \in Conn, ClientStep(c) PROVE Backed'
    <3>1. CASE SendNode(c)
        BY <2>2, <3>1 DEF SendNode, clientVars, serverVars
    <3>2. CASE ReadFails(c)
        BY <3>2 DEF ReadFails, CloseConn, serverVars
    <3>3. CASE BeatFails(c)
        BY <3>3 DEF BeatFails, CloseConn, serverVars
    <3>4. QED
        BY <2>5, <3>1, <3>2, <3>3 DEF ClientStep
  <2>6. ASSUME NEW c \in Conn, HandlerStep(c) \/ NextMessage(c) PROVE Backed'
    <3> USE DEF HandlerKeeps, clientVars
    <3>1. CASE FirstMessage(c)
        BY <3>1 DEF FirstMessage
    <3>2. CASE NoFirstMessage(c)
        BY <3>2 DEF NoFirstMessage
    <3>3. CASE PutReady(c)
        BY <3>3 DEF PutReady
    <3>4. CASE LoopEnds(c)
        BY <3>4 DEF LoopEnds
    <3>5. CASE PutNotReady(c)
        BY <3>5 DEF PutNotReady
    <3>6. CASE NextMessage(c)
        BY <2>2, <3>6 DEF NextMessage
    <3>7. QED
        BY <2>6, <3>1, <3>2, <3>3, <3>4, <3>5, <3>6 DEF HandlerStep
  <2>16. ASSUME NEW c \in Conn, EtcdError(c) PROVE Backed'
    <3> USE DEF EtcdFails, clientVars
    <3>1. CASE LookupFails(c)
        BY <3>1 DEF LookupFails
    <3>2. CASE PutReadyFails(c)
        BY <3>2 DEF PutReadyFails
    <3>3. CASE PutNotReadyFails(c)
        BY <3>3 DEF PutNotReadyFails
    <3>4. QED
        BY <2>16, <3>1, <3>2, <3>3 DEF EtcdError
  <2>7. CASE CloseStale \/ DeleteEntry
    BY <2>2, <2>7 DEF CloseStale, DeleteEntry, clientVars
  <2>8. ASSUME NEW c \in Conn, CutConnection(c) PROVE Backed'
    BY <2>2, <2>8 DEF CutConnection, clientVars, serverVars
  <2>9. CASE HangCubelet \/ RestartCubelet
    BY <2>2, <2>9 DEF HangCubelet, RestartCubelet, serverVars
  <2>10. CASE KillCubelet
    BY <2>10 DEF KillCubelet, serverVars
  <2>11. CASE KillServer
    BY <2>11 DEF KillServer, clientVars
  <2>12. CASE RestartServer
    BY <2>12 DEF RestartServer, clientVars
  <2>13. CASE DeleteNode
    BY <2>13 DEF DeleteNode, clientVars
  <2>14. CASE UNCHANGED vars
    BY <2>2, <2>14 DEF vars, clientVars, serverVars
  <2>15. QED
    BY <2>3, <2>4, <2>5, <2>6, <2>7, <2>8, <2>9, <2>10, <2>11, <2>12, <2>13, <2>14,
       <2>16 DEF Next

\* A Ready node in etcd, with the API server up, has a handler whose deferred
\* function is still to write NotReady, unless the latest write of the node is one
\* etcd reported as failed: neither the other handlers, nor checkHealth, nor a
\* restart of the server leaves a Ready that nobody takes back.
THEOREM ReadyBacked == Spec => []ReadyIsBacked
<1>1. Init => Backed
    BY DEF Init, Backed, ReadyIsBacked
<1>2. Backed => ReadyIsBacked
    BY DEF Backed
<1>3. QED
    BY <1>1, <1>2, BackedStep, Typed, PTL DEF Spec

\* What the cubelet has under way: exactly one attempt, with connected to match.
Retries == retrying = 1 /\ dialing = <<>> /\ ~connected /\ \A c \in Conn : ~Current(c)
Dials == retrying = 0 /\ dialing = <<lostCnt>> /\ ~connected /\ \A c \in Conn : ~Current(c)
Holds ==
    /\ retrying = 0 /\ dialing = <<>> /\ connected
    /\ \E c \in Conn : Current(c) /\ \A d \in Conn : Current(d) => d = c

\* A goroutine whose connection began with the present lostCnt is the first of its
\* two to see the end of it; no open connection is ahead of lostCnt.
FirstToSee ==
    /\ \A c \in Conn : client[c] = "open" => cnt[c] <= lostCnt
    /\ \A c \in reading \cup beating : cnt[c] <= lostCnt /\ (cnt[c] = lostCnt => client[c] = "open")

Attempt ==
    /\ FirstToSee
    /\ cubelet # "down" => Retries \/ Dials \/ Holds
    /\ cubelet = "down" =>
          /\ lostCnt = 0 /\ retrying = 0 /\ dialing = <<>> /\ ~connected
          /\ \A c \in Conn : client[c] # "open"

\* closeConn ends the attempt at hand and starts the next, or changes nothing: when
\* the connection is not the current one, its other goroutine has been there.
LEMMA CloseKeeps ==
    ASSUME TypeOK, Attempt, cubelet # "down", NEW c \in reading \cup beating, CloseConn(c),
           UNCHANGED <<cubelet, dialing, cnt>>, reading' \subseteq reading, beating' \subseteq beating
    PROVE  Attempt'
<1> USE DEF TypeOK, Socket
<1>1. c \in Conn /\ cnt[c] \in Nat /\ cnt[c] <= lostCnt
    BY DEF Attempt, FirstToSee
<1>2. \A d \in Conn : d # c => client'[d] = client[d]
    BY <1>1 DEF CloseConn
<1>3. client'[c] = "closed"
    BY <1>1 DEF CloseConn
<1>4. CASE lostCnt = cnt[c]
  <2>1. lostCnt' = lostCnt + 1 /\ ~connected' /\ retrying' = retrying + 1
      BY <1>4 DEF CloseConn
  <2>2. Current(c)
      BY <1>1, <1>4 DEF Attempt, FirstToSee, Current
  <2>3. retrying = 0 /\ dialing = <<>>
      BY <1>1, <2>2 DEF Attempt, Retries, Dials, Holds
  <2>4. ASSUME NEW d \in Conn, client'[d] = "open" PROVE cnt[d] < lostCnt'
    <3>1. d # c /\ client[d] = "open"
        BY <1>2, <1>3, <2>4
    <3>2. cnt[d] \in Nat /\ cnt[d] <= lostCnt
        BY <3>1 DEF Attempt, FirstToSee
    <3>3. QED
        BY <2>1, <3>2
  <2>5. \A d \in reading' \cup beating' : cnt[d] < lostCnt'
    <3>1. \A d \in reading' \cup beating' : d \in Conn /\ cnt[d] \in Nat /\ cnt[d] <= lostCnt
        BY DEF Attempt, FirstToSee
    <3>2. QED
        BY <2>1, <3>1
  <2>6. FirstToSee'
      BY <2>1, <2>4, <2>5 DEF FirstToSee
  <2>7. Retries'
      BY <2>1, <2>3, <2>4 DEF Retries, Current
  <2>8. QED
      BY <2>6, <2>7 DEF Attempt
<1>5. CASE lostCnt # cnt[c]
  <2>1. UNCHANGED <<lostCnt, connected, retrying>>
      BY <1>5 DEF CloseConn
  <2>2. \A d \in Conn : Current(d)' <=> Current(d)
      BY <1>2, <1>3, <1>5, <2>1 DEF Current
  <2>3. FirstToSee'
      BY <1>2, <1>3, <1>5, <2>1 DEF Attempt, FirstToSee
  <2>4. (Retries \/ Dials \/ Holds)'
      BY <2>1, <2>2 DEF Attempt, Retries, Dials, Holds
  <2>5. QED
      BY <2>3, <2>4 DEF Attempt
<1>6. QED
    BY <1>4, <1>5

\* Attempt is inductive.
LEMMA AttemptStep == TypeOK /\ Attempt /\ [Next]_vars => Attempt'
<1> SUFFICES ASSUME TypeOK, Attempt, [Next]_vars PROVE Attempt'
    OBVIOUS
<1>1. ASSUME UNCHANGED <<lostCnt, connected, retrying, dialing, reading, beating, cnt, client>>,
             cubelet' = cubelet \/ (cubelet' # "down" /\ cubelet # "down")
      PROVE  Attempt'
  <2>1. (\A c \in Conn : Current(c)' <=> Current(c)) /\ FirstToSee'
      BY <1>1 DEF Current, Attempt, FirstToSee
  <2>2. (Retries' <=> Retries) /\ (Dials' <=> Dials) /\ (Holds' <=> Holds)
      BY <1>1, <2>1 DEF Retries, Dials, Holds
  <2>3. QED
      BY <1>1, <2>1, <2>2 DEF Attempt
<1>2. CASE Dial
  <2>0. PICK c \in Conn : c = Fresh /\ client[c] = "none"
      BY <1>2 DEF Dial, Fresh, Unused
  <2>1. /\ Dials /\ lostCnt \in Nat
        /\ client \in [Conn -> Socket] /\ cnt \in [Conn -> Nat]
      BY <1>2 DEF Dial, Attempt, Retries, Holds, TypeOK
  <2>2. Head(dialing) = lostCnt /\ Tail(dialing) = <<>>
      BY <2>1 DEF Dials
  <2>3. /\ client'[c] = "open" /\ cnt'[c] = lostCnt
        /\ \A d \in Conn : d # c => client'[d] = client[d] /\ cnt'[d] = cnt[d]
        /\ lostCnt' = lostCnt /\ retrying' = retrying /\ cubelet' = cubelet /\ cubelet # "down"
        /\ dialing' = <<>> /\ connected'
        /\ reading' = reading \cup {c} /\ beating' = beating \cup {c}
      BY <1>2, <2>0, <2>1, <2>2 DEF Dial
  <2>4. Current(c)' /\ \A d \in Conn : Current(d)' => d = c
    <3>1. \A d \in Conn : ~(client[d] = "open" /\ cnt[d] = lostCnt)
        BY <2>1 DEF Dials, Current
    <3>2. QED
        BY <2>0, <2>3, <3>1 DEF Current
  <2>5. FirstToSee'
    <3>1. \A d \in Conn : client'[d] = "open" => cnt'[d] <= lostCnt'
        BY <2>1, <2>3 DEF Attempt, FirstToSee
    <3>2. \A d \in reading' \cup beating' :
             cnt'[d] <= lostCnt' /\ (cnt'[d] = lostCnt' => client'[d] = "open")
        BY <2>1, <2>3 DEF Attempt, FirstToSee, TypeOK
    <3>3. QED
        BY <3>1, <3>2 DEF FirstToSee
  <2>6. Holds'
    <3>1. retrying = 0
        BY <2>1 DEF Dials
    <3>2. QED
        BY <2>0, <2>3, <2>4, <3>1, Zenon DEF Holds
  <2>7. QED
      BY <2>3, <2>5, <2>6 DEF Attempt
<1>3. CASE RetryConnection
  <2>1. Retries /\ cubelet # "down"
      BY <1>3 DEF RetryConnection, Attempt, Dials, Holds
  <2>2. Append(dialing, lostCnt) = <<lostCnt>>
      BY <2>1 DEF Retries
  <2>3. (\A c \in Conn : Current(c)' <=> Current(c)) /\ FirstToSee'
      BY <1>3 DEF RetryConnection, Current, Attempt, FirstToSee
  <2>4. Dials'
      BY <1>3, <2>1, <2>2, <2>3 DEF RetryConnection, Retries, Dials
  <2>5. QED
      BY <1>3, <2>1, <2>3, <2>4 DEF RetryConnection, Attempt
<1>4. ASSUME NEW c \in Conn, ClientStep(c) PROVE Attempt'
    BY <1>1, <1>4, CloseKeeps DEF ClientStep, SendNode, ReadFails, BeatFails, clientVars
<1>5. ASSUME NEW c \in Conn, HandlerStep(c) \/ NextMessage(c) \/ CutConnection(c) \/ EtcdError(c)
      PROVE  Attempt'
    BY <1>1, <1>5 DEF HandlerStep, NextMessage, CutConnection, FirstMessage, NoFirstMessage,
       PutReady, LoopEnds, PutNotReady, HandlerKeeps, clientVars, EtcdError, EtcdFails,
       LookupFails, PutReadyFails, PutNotReadyFails
<1>6. CASE CloseStale \/ DeleteEntry \/ HangCubelet \/ KillServer \/ RestartServer \/ DeleteNode
           \/ UNCHANGED vars
    BY <1>1, <1>6 DEF CloseStale, DeleteEntry, HangCubelet, KillServer, RestartServer, DeleteNode,
       clientVars, vars
<1>7. CASE KillCubelet
  <2>1. \A c \in Conn : client'[c] # "open"
      BY <1>7 DEF KillCubelet
  <2>2. QED
      BY <1>7, <2>1 DEF KillCubelet, Attempt, FirstToSee
<1>8. CASE RestartCubelet
  <2>1. FirstToSee' /\ \A c \in Conn : ~Current(c)'
      BY <1>8 DEF RestartCubelet, Attempt, FirstToSee, Current
  <2>2. Dials'
      BY <1>8, <2>1 DEF RestartCubelet, Attempt, Dials
  <2>3. QED
      BY <1>8, <2>1, <2>2 DEF RestartCubelet, Attempt
<1>9. QED
    BY <1>2, <1>3, <1>4, <1>5, <1>6, <1>7, <1>8 DEF Next

\* While the cubelet runs it retries, dials or has one current connection, and
\* connected says which, for any number of connections and of faults: closeConn
\* starts one retry however the reader and the writer of a lost connection race.
THEOREM AlwaysOneAttempt == Spec => []OneAttempt
<1>1. Init => Attempt
    BY DEF Init, Attempt, FirstToSee, Dials, Current
<1>2. Attempt => OneAttempt
  <2> SUFFICES ASSUME Attempt, cubelet # "down"
               PROVE  /\ retrying + Len(dialing) + Cardinality({c \in Conn : Current(c)}) = 1
                      /\ connected <=> \E c \in Conn : Current(c)
      BY DEF OneAttempt
  <2>1. CASE Retries \/ Dials
    <3>1. {c \in Conn : Current(c)} = {}
        BY <2>1 DEF Retries, Dials
    <3>2. Cardinality({c \in Conn : Current(c)}) = 0
        BY <3>1, FS_EmptySet
    <3>3. retrying + Len(dialing) = 1
      <4>1. Len(<<>>) = 0 /\ Len(<<lostCnt>>) = 1
          OBVIOUS
      <4>2. CASE retrying = 1 /\ dialing = <<>>
          BY <4>1, <4>2
      <4>3. CASE retrying = 0 /\ dialing = <<lostCnt>>
          BY <4>1, <4>3
      <4>4. QED
          BY <2>1, <4>2, <4>3, Zenon DEF Retries, Dials
    <3>4. ~connected /\ \A c \in Conn : ~Current(c)
        BY <2>1, Zenon DEF Retries, Dials
    <3>5. QED
        BY <3>2, <3>3, <3>4
  <2>2. CASE Holds
    <3>1. PICK c \in Conn : {d \in Conn : Current(d)} = {c} /\ Current(c)
        BY <2>2 DEF Holds
    <3>2. Cardinality({d \in Conn : Current(d)}) = 1
        BY <3>1, FS_Singleton
    <3>3. QED
        BY <2>2, <3>1, <3>2 DEF Holds
  <2>3. QED
      BY <2>1, <2>2 DEF Attempt
<1>3. QED
    BY <1>1, <1>2, AttemptStep, Typed, PTL DEF Spec
=============================================================================
