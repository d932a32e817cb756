----------------------------- MODULE Heartbeat ------------------------------
(***************************************************************************)
(* The heartbeat of one node: the cubelet's client (updateHeartBeat,       *)
(* maintainHealth, retryConnection), the API server's handler goroutine    *)
(* per connection and its checkHealth loop, and the node object in etcd.   *)
(* Nodes do not interact: map entries and etcd keys are per node UID.      *)
(*                                                                         *)
(* A connection is "ok" until the network under it is "cut": nothing       *)
(* passes then, not even the end of the connection, and each side learns   *)
(* of it by TIMEOUT, by a failed write or by TCP's keepalive.  TIMEOUT is  *)
(* three INTERVALs, so it strikes only a connection that is cut or whose   *)
(* cubelet hangs (is suspended, with its sockets open).                    *)
(*                                                                         *)
(* All messages of a node are equal, as its object never changes, so the   *)
(* unread ones are one.                                                    *)
(***************************************************************************)
EXTENDS Integers, Sequences, FiniteSets

CONSTANTS
    Conn,       \* the connections ever made; a bound
    NoConn,
    MaxFaults   \* how many crashes, hangs, cuts, deletions of the node and errors of etcd

ASSUME NoConnAssumption == NoConn \notin Conn
ASSUME MaxFaultsAssumption == MaxFaults \in Nat

VARIABLES
    cubelet,    \* the cubelet's process: "up", "hung" or "down"
    lostCnt, connected,
    retrying,   \* goroutines in retryConnection
    dialing,    \* updateHeartBeats without a connection yet: the lostCnt they began with
    reading,    \* connections updateHeartBeat reads
    beating,    \* connections maintainHealth writes to
    cnt,        \* the lostCnt its updateHeartBeat began with
    client,     \* the cubelet's socket of each connection: "none", "open", "closed"
    net,        \* "ok" or "cut"
    unread,     \* connections with a node message the server has not read
    up,         \* the API server is up
    server,     \* its socket of each connection
    handler,    \* where handle is: "none", "first", "put", "loop", "closing", "done"
    connMap,    \* the connection of the node in connMap
    toDelete,   \* checkHealth has closed a connection and is to delete the map entry
    node,       \* etcd: "gone", "notready" or "ready"
    stranded,   \* history: a handler ended without the NotReady it owed, and no write followed
    faults

clientVars == <<cubelet, lostCnt, connected, retrying, dialing, reading, beating, cnt, client>>
serverVars == <<up, server, handler, connMap, toDelete, node, stranded>>
vars == <<clientVars, net, unread, serverVars, faults>>

Socket == {"none", "open", "closed"}

TypeOK ==
    /\ cubelet \in {"up", "hung", "down"}
    /\ lostCnt \in Nat
    /\ connected \in BOOLEAN
    /\ retrying \in Nat
    /\ dialing \in Seq(Nat)
    /\ reading \subseteq Conn
    /\ beating \subseteq Conn
    /\ cnt \in [Conn -> Nat]
    /\ client \in [Conn -> Socket]
    /\ net \in [Conn -> {"ok", "cut"}]
    /\ unread \subseteq Conn
    /\ up \in BOOLEAN
    /\ server \in [Conn -> Socket]
    /\ handler \in [Conn -> {"none", "first", "put", "loop", "closing", "done"}]
    /\ connMap \in Conn \cup {NoConn}
    /\ toDelete \in BOOLEAN
    /\ node \in {"gone", "notready", "ready"}
    /\ stranded \in BOOLEAN
    /\ faults \in 0..MaxFaults

\* InitNode on a node that cuberoot has registered.
Init ==
    /\ cubelet = "up"
    /\ lostCnt = 0
    /\ connected = FALSE
    /\ retrying = 0
    /\ dialing = <<0>>
    /\ reading = {}
    /\ beating = {}
    /\ cnt = [c \in Conn |-> 0]
    /\ client = [c \in Conn |-> "none"]
    /\ net = [c \in Conn |-> "ok"]
    /\ unread = {}
    /\ up = TRUE
    /\ server = [c \in Conn |-> "none"]
    /\ handler = [c \in Conn |-> "none"]
    /\ connMap = NoConn
    /\ toDelete = FALSE
    /\ node = "notready"
    /\ stranded = FALSE
    /\ faults = 0

\* Each side sees the end of a connection, sooner or later.
SeesEnd(c) == client[c] = "closed" \/ server[c] = "closed" \/ net[c] = "cut"

-----------------------------------------------------------------------------
(* The cubelet *)

\* Connections are alike before they are made, so any will do.
Unused == {c \in Conn : client[c] = "none"}
Fresh == CHOOSE c \in Unused : TRUE

\* updateHeartBeat gets a connection and starts maintainHealth.
Dial ==
    /\ cubelet = "up"
    /\ dialing # <<>>
    /\ up
    /\ Unused # {}
    /\ dialing' = Tail(dialing)
    /\ connected' = TRUE
    /\ client' = [client EXCEPT ![Fresh] = "open"]
    /\ server' = [server EXCEPT ![Fresh] = "open"]
    /\ handler' = [handler EXCEPT ![Fresh] = "first"]
    /\ cnt' = [cnt EXCEPT ![Fresh] = Head(dialing)]
    /\ reading' = reading \cup {Fresh}
    /\ beating' = beating \cup {Fresh}
    /\ UNCHANGED <<cubelet, lostCnt, retrying, net, unread, up, connMap, toDelete, node,
                   stranded, faults>>

\* maintainHealth sends the node object.
SendNode(c) ==
    /\ cubelet = "up"
    /\ c \in beating
    /\ client[c] = "open"
    /\ net[c] = "ok"
    /\ server[c] = "open"
    /\ unread' = unread \cup {c}
    /\ UNCHANGED <<clientVars, net, serverVars, faults>>

\* Mutant: whoever closes a connection starts a retry.
CloseConnAlways(c) ==
    /\ client' = [client EXCEPT ![c] = "closed"]
    /\ lostCnt' = lostCnt + 1
    /\ connected' = FALSE
    /\ retrying' = retrying + 1

\* Mutant: the count of lost connections goes down.
CloseConnBack(c) ==
    /\ client' = [client EXCEPT ![c] = "closed"]
    /\ lostCnt' = lostCnt - 1
    /\ UNCHANGED <<connected, retrying>>

\* closeConn: only the first of the two goroutines of a connection starts a retry.
CloseConn(c) ==
    /\ client' = [client EXCEPT ![c] = "closed"]
    /\ \/ /\ lostCnt = cnt[c]
          /\ lostCnt' = lostCnt + 1
          /\ connected' = FALSE
          /\ retrying' = retrying + 1
       \/ lostCnt # cnt[c] /\ UNCHANGED <<lostCnt, connected, retrying>>

\* updateHeartBeat's read fails; maintainHealth times out or cannot write.
ReadFails(c) ==
    /\ cubelet = "up"
    /\ c \in reading
    /\ SeesEnd(c)
    /\ reading' = reading \ {c}
    /\ CloseConn(c)
    /\ UNCHANGED <<cubelet, dialing, beating, cnt, net, unread, serverVars, faults>>

BeatFails(c) ==
    /\ cubelet = "up"
    /\ c \in beating
    /\ SeesEnd(c)
    /\ beating' = beating \ {c}
    /\ CloseConn(c)
    /\ UNCHANGED <<cubelet, dialing, reading, cnt, net, unread, serverVars, faults>>

\* retryConnection finds the API server healthy again.
RetryConnection ==
    /\ cubelet = "up"
    /\ retrying > 0
    /\ up
    /\ retrying' = retrying - 1
    /\ dialing' = Append(dialing, lostCnt)
    /\ UNCHANGED <<cubelet, lostCnt, connected, reading, beating, cnt, client, net, unread,
                   serverVars, faults>>

-----------------------------------------------------------------------------
(* handle, one goroutine per connection *)

HandlerKeeps == UNCHANGED <<clientVars, net, up, toDelete, faults>>

\* An error of etcd: handle logs it and returns, and its connection is closed.
Fault == faults < MaxFaults /\ faults' = faults + 1
EtcdFails(c) ==
    /\ Fault
    /\ handler' = [handler EXCEPT ![c] = "done"]
    /\ server' = [server EXCEPT ![c] = "closed"]
    /\ UNCHANGED <<clientVars, net, up, toDelete, connMap>>

\* The first message: the node must be in etcd; the connection goes to the map.
FirstMessage(c) ==
    /\ handler[c] = "first"
    /\ c \in unread
    /\ unread' = unread \ {c}
    /\ \/ /\ node # "gone"
          /\ handler' = [handler EXCEPT ![c] = "put"]
          /\ connMap' = c
          /\ UNCHANGED server
       \/ /\ node = "gone"
          /\ handler' = [handler EXCEPT ![c] = "done"]
          /\ server' = [server EXCEPT ![c] = "closed"]
          /\ UNCHANGED connMap
    /\ UNCHANGED <<node, stranded>>
    /\ HandlerKeeps

LookupFails(c) ==
    /\ handler[c] = "first"
    /\ c \in unread
    /\ unread' = unread \ {c}
    /\ EtcdFails(c)
    /\ UNCHANGED <<node, stranded>>

NoFirstMessage(c) ==
    /\ handler[c] = "first"
    /\ SeesEnd(c) \/ cubelet = "hung"
    /\ handler' = [handler EXCEPT ![c] = "done"]
    /\ server' = [server EXCEPT ![c] = "closed"]
    /\ UNCHANGED <<unread, connMap, node, stranded>>
    /\ HandlerKeeps

\* The PutObj of the first message, whatever became of the node since its GetObj.
PutReady(c) ==
    /\ handler[c] = "put"
    /\ node' = "ready"
    /\ stranded' = FALSE
    /\ handler' = [handler EXCEPT ![c] = "loop"]
    /\ UNCHANGED <<unread, server, connMap>>
    /\ HandlerKeeps

\* It fails, before or after etcd wrote it, and handle returns before it has
\* deferred the NotReady; the connection stays in the map.
PutReadyFails(c) ==
    /\ handler[c] = "put"
    /\ \/ node' = "ready" /\ stranded' = TRUE
       \/ UNCHANGED <<node, stranded>>
    /\ EtcdFails(c)
    /\ UNCHANGED unread

\* A later message says what the first one said: only the map is written.
NextMessage(c) ==
    /\ handler[c] = "loop"
    /\ c \in unread
    /\ unread' = unread \ {c}
    /\ connMap' = c
    /\ UNCHANGED <<server, handler, node, stranded>>
    /\ HandlerKeeps

LoopEnds(c) ==
    /\ handler[c] = "loop"
    /\ SeesEnd(c)
    /\ handler' = [handler EXCEPT ![c] = "closing"]
    /\ UNCHANGED <<unread, server, connMap, node, stranded>>
    /\ HandlerKeeps

\* Mutant: only the connection in the map writes when it ends.
PutNotReadyIfCurrent(c) ==
    /\ handler[c] = "closing"
    /\ node' = IF connMap = c THEN "notready" ELSE node
    /\ stranded' = (stranded /\ connMap # c)
    /\ handler' = [handler EXCEPT ![c] = "done"]
    /\ server' = [server EXCEPT ![c] = "closed"]
    /\ UNCHANGED <<unread, connMap>>
    /\ HandlerKeeps

\* The deferred functions: NotReady to etcd, then Close.
PutNotReady(c) ==
    /\ handler[c] = "closing"
    /\ node' = "notready"
    /\ stranded' = FALSE
    /\ handler' = [handler EXCEPT ![c] = "done"]
    /\ server' = [server EXCEPT ![c] = "closed"]
    /\ UNCHANGED <<unread, connMap>>
    /\ HandlerKeeps

\* The deferred PutObj fails, before or after etcd wrote it: nobody tries again.
PutNotReadyFails(c) ==
    /\ handler[c] = "closing"
    /\ \/ node' = "notready" /\ stranded' = FALSE
       \/ stranded' = TRUE /\ UNCHANGED node
    /\ EtcdFails(c)
    /\ UNCHANGED unread

-----------------------------------------------------------------------------
(* checkHealth *)

\* The connection in the map has timed out, or the heartbeat cannot be written.
CloseStale ==
    /\ up
    /\ ~toDelete
    /\ connMap # NoConn
    /\ SeesEnd(connMap) \/ cubelet = "hung"
    /\ server' = [server EXCEPT ![connMap] = "closed"]
    /\ toDelete' = TRUE
    /\ UNCHANGED <<clientVars, net, unread, up, handler, connMap, node, stranded,
                   faults>>

\* After the Range, the entry of the node is deleted, whichever connection it holds.
DeleteEntry ==
    /\ toDelete
    /\ toDelete' = FALSE
    /\ connMap' = NoConn
    /\ UNCHANGED <<clientVars, net, unread, up, server, handler, node, stranded,
                   faults>>

-----------------------------------------------------------------------------
(* Faults *)

CutConnection(c) ==
    /\ Fault
    /\ client[c] = "open" \/ server[c] = "open"
    /\ net[c] = "ok"
    /\ net' = [net EXCEPT ![c] = "cut"]
    /\ UNCHANGED <<clientVars, unread, serverVars>>

HangCubelet ==
    /\ Fault
    /\ cubelet = "up"
    /\ cubelet' = "hung"
    /\ UNCHANGED <<lostCnt, connected, retrying, dialing, reading, beating, cnt, client,
                   net, unread, serverVars>>

\* The process ends and its sockets are closed.
KillCubelet ==
    /\ Fault
    /\ cubelet # "down"
    /\ cubelet' = "down"
    /\ lostCnt' = 0
    /\ connected' = FALSE
    /\ retrying' = 0
    /\ dialing' = <<>>
    /\ reading' = {}
    /\ beating' = {}
    /\ client' = [c \in Conn |-> IF client[c] = "open" THEN "closed" ELSE client[c]]
    /\ UNCHANGED <<cnt, net, unread, serverVars>>

RestartCubelet ==
    /\ cubelet = "down"
    /\ cubelet' = "up"
    /\ dialing' = <<lostCnt>>
    /\ UNCHANGED <<lostCnt, connected, retrying, reading, beating, cnt, client, net, unread,
                   serverVars, faults>>

KillServer ==
    /\ Fault
    /\ up
    /\ up' = FALSE
    /\ server' = [c \in Conn |-> IF server[c] = "open" THEN "closed" ELSE server[c]]
    /\ handler' = [c \in Conn |-> IF handler[c] = "none" THEN "none" ELSE "done"]
    /\ connMap' = NoConn
    /\ toDelete' = FALSE
    /\ UNCHANGED <<clientVars, net, unread, node, stranded>>

\* Mutant: the API server starts without resetting the nodes.
RestartServerKeepsReady ==
    /\ ~up
    /\ up' = TRUE
    /\ UNCHANGED <<clientVars, net, unread, server, handler, connMap, toDelete, node,
                   stranded, faults>>

\* main: updateNodeReadyState, and then ListenHeartbeat.
RestartServer ==
    /\ ~up
    /\ up' = TRUE
    /\ node' = IF node = "ready" THEN "notready" ELSE node
    /\ stranded' = FALSE
    /\ UNCHANGED <<clientVars, net, unread, server, handler, connMap, toDelete, faults>>

DeleteNode ==
    /\ Fault
    /\ up
    /\ node # "gone"
    /\ node' = "gone"
    /\ stranded' = FALSE
    /\ UNCHANGED <<clientVars, net, unread, up, server, handler, connMap, toDelete>>

-----------------------------------------------------------------------------
ClientStep(c) == SendNode(c) \/ ReadFails(c) \/ BeatFails(c)
HandlerStep(c) ==
    FirstMessage(c) \/ NoFirstMessage(c) \/ PutReady(c) \/ LoopEnds(c) \/ PutNotReady(c)
EtcdError(c) == LookupFails(c) \/ PutReadyFails(c) \/ PutNotReadyFails(c)

Next ==
    \/ Dial \/ RetryConnection
    \/ \E c \in Conn : ClientStep(c) \/ HandlerStep(c) \/ NextMessage(c) \/ EtcdError(c) \/ CutConnection(c)
    \/ CloseStale \/ DeleteEntry
    \/ HangCubelet \/ KillCubelet \/ RestartCubelet \/ KillServer \/ RestartServer \/ DeleteNode

\* Goroutines keep running, and the heartbeats of a connection go on being sent,
\* being read, and keeping it in the map.  Nothing is assumed of faults and of
\* restarts; that a cut is noticed is what TCP's keepalive, on by default in Go's
\* Dial and Listen, and TIMEOUT are for.
Fairness ==
    /\ WF_vars(Dial) /\ WF_vars(RetryConnection)
    /\ WF_vars(CloseStale) /\ WF_vars(DeleteEntry)
    /\ \A c \in Conn :
        /\ WF_vars(SendNode(c)) /\ WF_vars(ReadFails(c)) /\ WF_vars(BeatFails(c))
        /\ WF_vars(FirstMessage(c)) /\ WF_vars(NoFirstMessage(c)) /\ WF_vars(PutReady(c))
        /\ WF_vars(NextMessage(c)) /\ WF_vars(LoopEnds(c)) /\ WF_vars(PutNotReady(c))

Spec == Init /\ [][Next]_vars
FairSpec == Spec /\ Fairness

-----------------------------------------------------------------------------
(* Properties *)

Current(c) == client[c] = "open" /\ cnt[c] = lostCnt

\* While the cubelet runs, exactly one of retryConnection, a dialing
\* updateHeartBeat and an open connection is under way, however its two goroutines
\* and the losses of connections interleave; and CheckConn tells which.
OneAttempt ==
    cubelet # "down" =>
        /\ retrying + Len(dialing) + Cardinality({c \in Conn : Current(c)}) = 1
        /\ connected <=> \E c \in Conn : Current(c)

\* While the API server is up, a Ready node has a handler that is still to write
\* NotReady when its connection ends, however many handlers of the node overlap and
\* whatever checkHealth and restarts do.  The one exception: the latest write of the
\* node is one etcd reported as failed, a NotReady it did not make or a Ready it made
\* all the same; handle only logs it.
ReadyIsBacked ==
    up /\ node = "ready" => stranded \/ \E c \in Conn : handler[c] \in {"loop", "closing"}

\* A node whose cubelet is gone for good ends up not Ready, unless the server is
\* down or the latest write of the node failed in etcd: every handler comes to see
\* the end and writes NotReady after every Ready.
GoneCubeletNotReady ==
    <>[](cubelet = "down" /\ up) => <>[](node = "ready" => stranded)

\* docs/Cubernetes验收报告.md:108: by heartbeat the master tracks the state of the
\* workers and updates it in etcd.  So a node whose connection stays up while its
\* object exists ends up Ready.
Beating(c) == cubelet = "up" /\ Current(c) /\ net[c] = "ok" /\ handler[c] = "loop"
ConnectedBecomesReady ==
    \A c \in Conn : <>[](Beating(c) /\ node # "gone") => <>[](node = "ready")

\* docs/Cubernetes验收报告.md:232: when no heartbeat has come for some time, the API
\* server takes the node for lost and updates its state (etcd letting it).
SilentBecomesNotReady ==
    <>[](cubelet = "hung" /\ up /\ ~stranded) => <>[](node # "ready")
=============================================================================
