----------------------------- MODULE RoundRobin -----------------------------
(***************************************************************************)
(* The scheduler's round-robin table and the goroutines that share it      *)
(* without a lock: WatchNode adds and removes nodes, while the pod, job    *)
(* and actor goroutines call Schedule.  NumOfNodes and NameOfNodes are     *)
(* written one after the other, so a call may see one without the other.   *)
(*                                                                         *)
(* A read of NameOfNodes, bounds check and load together, is one step, and *)
(* so is a write of its slice header: a header torn between pointer and    *)
(* length is not modelled.  The int32 Next wraps at Half.                   *)
(***************************************************************************)
EXTENDS Integers, Sequences, FiniteSets

CONSTANTS
    Node,       \* the UIDs of the nodes
    Worker,     \* the goroutines that call Schedule
    Half,       \* Next wraps from Half - 1 to -Half; 2^31 in the code
    MaxCalls,   \* how many calls of Schedule take a number
    MaxFlips    \* how often nodes change in etcd, or the watch is lost

ASSUME NodeAssumption == IsFiniteSet(Node)
ASSUME HalfAssumption == Half \in Nat /\ Half >= 1
ASSUME BoundsAssumption == MaxCalls \in Nat /\ MaxFlips \in Nat

VARIABLES
    nodes,     \* etcd: per node "ready", "notready" or "gone"
    stream,    \* node events queued for WatchNode
    watcher,   \* tryWatchNode is at "list", "add", "open" or "watch"
    toAdd,     \* the nodes GetNodes returned and AddNode has not seen
    task,      \* the AddNode or RemoveNode under way, and its next step
    NameOfNodes, NumOfNodes, Next,
    call,      \* per worker: the call of Schedule under way
    crashed,   \* the worker whose runtime panic ended the process
    calls,     \* numbers taken so far
    flips,     \* changes in etcd and lost watches so far
    heard,     \* history: the nodes whose last word was an event, none lost since
    alone,     \* history: the workers whose call no AddNode or RemoveNode overlapped
    since,     \* history: Next when the table last changed or a disturbed call ended
    tally      \* history: picks per node by the calls with a number above since

nodeVars == <<nodes, stream, flips>>
watcherVars == <<watcher, toAdd, task>>
tableVars == <<NameOfNodes, NumOfNodes>>
vars == <<nodeVars, watcherVars, tableVars, Next, call, crashed, calls, heard, alone, since, tally>>

None == "none"

\* A worker is not the string for none.
ASSUME WorkerAssumption == None \notin Worker

States == {"ready", "notready", "gone"}
Event == [node : Node, state : States]
Rest == [step |-> "rest", node |-> None]
NoCall == [pc |-> "idle", n |-> 0, i |-> 0]

\* Mutant: Next is wide enough.
WrapNone(x) == x

\* The int32 that x wraps to.
Wrap(x) == ((x + Half) % (2 * Half)) - Half

TypeOK ==
    /\ nodes \in [Node -> States]
    /\ stream \in Seq(Event)
    /\ watcher \in {"list", "add", "open", "watch"}
    /\ toAdd \subseteq Node
    /\ task \in [step : {"append", "shift", "header", "decrement"}, node : Node] \cup {Rest}
    /\ NameOfNodes \in Seq(Node)
    /\ NumOfNodes \in 0..(Cardinality(Node) + 1)
    /\ Next \in (-Half)..(Half - 1)
    /\ call \in [Worker -> [pc : {"idle", "number", "index", "load"}, n : Int, i : Int]]
    /\ crashed \in Worker \cup {None}
    /\ calls \in 0..MaxCalls
    /\ flips \in 0..MaxFlips
    /\ heard \subseteq Node
    /\ alone \subseteq Worker
    /\ since \in (-Half)..(Half - 1)
    /\ tally \in [Node -> Nat]

Distinct(s) == \A i, j \in DOMAIN s : s[i] = s[j] => i = j
ReadyNodes == {n \in Node : nodes[n] = "ready"}

\* NewScheduler: Init has put the nodes that are Ready in the table.
Init ==
    /\ nodes \in [Node -> States]
    /\ NameOfNodes \in [1..Cardinality(ReadyNodes) -> ReadyNodes]
    /\ Distinct(NameOfNodes)
    /\ NumOfNodes = Len(NameOfNodes)
    /\ Next = 0
    /\ stream = <<>>
    /\ watcher = "list"
    /\ toAdd = {}
    /\ task = Rest
    /\ call = [w \in Worker |-> NoCall]
    /\ crashed = None
    /\ calls = 0
    /\ flips = 0
    /\ heard = {}
    /\ alone = {}
    /\ since = 0
    /\ tally = [n \in Node |-> 0]

Alive == crashed = None
InTable == {NameOfNodes[i] : i \in DOMAIN NameOfNodes}
-----------------------------------------------------------------------------
(* etcd: the API server's heartbeat, and users who add and delete nodes *)

NodeChanges(n, s) ==
    /\ flips < MaxFlips
    /\ nodes[n] # s
    /\ flips' = flips + 1
    /\ nodes' = [nodes EXCEPT ![n] = s]
    /\ IF watcher = "watch" THEN stream' = Append(stream, [node |-> n, state |-> s])
                                 /\ UNCHANGED heard
                            ELSE heard' = heard \ {n} /\ UNCHANGED stream
    /\ UNCHANGED <<watcherVars, tableVars, Next, call, crashed, calls, alone, since, tally>>

-----------------------------------------------------------------------------
(* WatchNode *)

WatchUnchanged == UNCHANGED <<nodes, flips, Next, call, crashed, calls>>

\* GetNodes: every node there is goes to AddNode, Ready or not; no node is removed.
ListNodes ==
    /\ Alive
    /\ watcher = "list"
    /\ toAdd' = {n \in Node : nodes[n] # "gone"}
    /\ watcher' = "add"
    /\ WatchUnchanged
    /\ UNCHANGED <<stream, task, tableVars, heard, alone, since, tally>>

\* The part of AddNode and RemoveNode up to their first write: a call of Schedule
\* that overlaps it is disturbed.
Starts(step, n) ==
    /\ task' = [step |-> step, node |-> n]
    /\ alone' = {}
    /\ since' = Next
    /\ tally' = [m \in Node |-> 0]

\* Mutant: a node already in the table is added again.
AddNodeTwice(n) ==
    /\ Starts("append", n)
    /\ NumOfNodes' = NumOfNodes + 1
    /\ UNCHANGED NameOfNodes

\* AddNode: "no redundant node", and the count goes up first.
AddNode(n) ==
    \/ n \in InTable /\ UNCHANGED <<task, tableVars, alone, since, tally>>
    \/ /\ n \notin InTable
       /\ Starts("append", n)
       /\ NumOfNodes' = NumOfNodes + 1
       /\ UNCHANGED NameOfNodes

RemoveNode(n) ==
    \/ NumOfNodes = 0 /\ UNCHANGED <<task, tableVars, alone, since, tally>>
    \/ n \notin InTable /\ UNCHANGED <<task, tableVars, alone, since, tally>>
    \/ /\ NumOfNodes # 0
       /\ n \in InTable
       /\ Starts("shift", n)
       /\ UNCHANGED tableVars

AddListed(n) ==
    /\ Alive
    /\ watcher = "add"
    /\ task = Rest
    /\ n \in toAdd
    /\ toAdd' = toAdd \ {n}
    /\ AddNode(n)
    /\ heard' = heard \ {n}
    /\ WatchUnchanged
    /\ UNCHANGED <<stream, watcher>>

Listed ==
    /\ Alive
    /\ watcher = "add"
    /\ task = Rest
    /\ toAdd = {}
    /\ watcher' = "open"
    /\ WatchUnchanged
    /\ UNCHANGED <<stream, toAdd, task, tableVars, heard, alone, since, tally>>

\* WatchNodes: the events of etcd from here on.
OpenWatch ==
    /\ Alive
    /\ watcher = "open"
    /\ watcher' = "watch"
    /\ WatchUnchanged
    /\ UNCHANGED <<stream, toAdd, task, tableVars, heard, alone, since, tally>>

\* Mutant: a PUT adds the node whatever its condition.
WantedAlways(state) == state # "gone"

Wanted(state) == state = "ready"

WatchTurn ==
    /\ Alive
    /\ watcher = "watch"
    /\ task = Rest
    /\ stream # <<>>
    /\ stream' = Tail(stream)
    /\ LET e == Head(stream) IN
       /\ heard' = heard \cup {e.node}
       /\ IF Wanted(e.state) THEN AddNode(e.node) ELSE RemoveNode(e.node)
    /\ WatchUnchanged
    /\ UNCHANGED <<watcher, toAdd>>

\* The connection is lost with the events not yet read; back to the list.
LoseWatch ==
    /\ Alive
    /\ watcher = "watch"
    /\ task = Rest
    /\ flips < MaxFlips
    /\ flips' = flips + 1
    /\ watcher' = "list"
    /\ stream' = <<>>
    /\ heard' = heard \ {stream[i].node : i \in DOMAIN stream}
    /\ UNCHANGED <<nodes, toAdd, task, tableVars, Next, call, crashed, calls, alone, since, tally>>

\* A step of AddNode or RemoveNode that leaves the table as t, the count as c.
TaskStep(step, next, t, c) ==
    /\ Alive
    /\ task.step = step
    /\ task' = IF next = "rest" THEN Rest ELSE [task EXCEPT !.step = next]
    /\ NameOfNodes' = t
    /\ NumOfNodes' = c
    /\ alone' = {}
    /\ since' = Next
    /\ tally' = [m \in Node |-> 0]
    /\ WatchUnchanged
    /\ UNCHANGED <<stream, watcher, toAdd, heard>>

AppendName == TaskStep("append", "rest", Append(NameOfNodes, task.node), NumOfNodes)

Idx == CHOOSE i \in DOMAIN NameOfNodes : NameOfNodes[i] = task.node

\* append(names[:idx], names[idx+1:]...) moves the names in place ...
ShiftNames ==
    TaskStep("shift", "header",
             [i \in 1..Len(NameOfNodes) |->
                 IF i < Idx \/ i = Len(NameOfNodes) THEN NameOfNodes[i] ELSE NameOfNodes[i + 1]],
             NumOfNodes)

\* ... the assignment then shortens the slice, and the count goes down last.
ShortenNames ==
    TaskStep("header", "decrement", SubSeq(NameOfNodes, 1, Len(NameOfNodes) - 1), NumOfNodes)

Decrement == TaskStep("decrement", "rest", NameOfNodes, NumOfNodes - 1)

-----------------------------------------------------------------------------
(* Schedule *)

CallUnchanged == UNCHANGED <<nodeVars, watcherVars, tableVars, heard>>

\* Without nodes, ErrNoNodesToSchedule and nothing else.
Schedule(w) ==
    /\ Alive
    /\ call[w].pc = "idle"
    /\ calls < MaxCalls
    /\ NumOfNodes # 0
    /\ call' = [call EXCEPT ![w] = [NoCall EXCEPT !.pc = "number"]]
    /\ alone' = IF task = Rest THEN alone \cup {w} ELSE alone
    /\ UNCHANGED <<Next, crashed, calls, since, tally>>
    /\ CallUnchanged

\* Mutant: the number is taken by a read and a later write of the same value.
TakeNumberStale(w) ==
    /\ Alive
    /\ call[w].pc = "number"
    /\ calls < MaxCalls
    /\ calls' = calls + 1
    /\ \E stale \in {Next, Next + 1} : Next' = Wrap(stale)
    /\ call' = [call EXCEPT ![w] = [pc |-> "index", n |-> Next', i |-> 0]]
    /\ UNCHANGED <<crashed, alone, since, tally>>
    /\ CallUnchanged

\* n := atomic.AddInt32(&rr.Next, 1)
TakeNumber(w) ==
    /\ Alive
    /\ call[w].pc = "number"
    /\ calls < MaxCalls
    /\ calls' = calls + 1
    /\ Next' = Wrap(Next + 1)
    /\ call' = [call EXCEPT ![w] = [pc |-> "index", n |-> Next', i |-> 0]]
    /\ UNCHANGED <<crashed, alone, since, tally>>
    /\ CallUnchanged

\* Mutant: the index is not reduced.
RemainderNone(a, b) == a

\* Go's remainder takes the sign of the dividend; Wrap is n - 1 in int32.
Remainder(a, b) == IF a >= 0 THEN a % b ELSE -((-a) % b)

Crash(w) == crashed' = w /\ UNCHANGED <<call, alone, since, tally>>

\* (n - 1) % rr.NumOfNodes, with NumOfNodes read again.
ComputeIndex(w) ==
    /\ Alive
    /\ call[w].pc = "index"
    /\ \/ NumOfNodes = 0 /\ Crash(w)
       \/ /\ NumOfNodes # 0
          /\ call' = [call EXCEPT ![w].pc = "load",
                                  ![w].i = Remainder(Wrap(call[w].n - 1), NumOfNodes)]
          /\ UNCHANGED <<crashed, alone, since, tally>>
    /\ UNCHANGED <<Next, calls>>
    /\ CallUnchanged

Picked(w) == NameOfNodes[call[w].i + 1]

Count(w) ==
    \/ w \notin alone /\ since' = Next /\ tally' = [n \in Node |-> 0]
    \/ w \in alone /\ call[w].n > since /\ tally' = [tally EXCEPT ![Picked(w)] = @ + 1]
       /\ UNCHANGED since
    \/ w \in alone /\ call[w].n <= since /\ UNCHANGED <<since, tally>>

\* rr.NameOfNodes[i], or a panic that nothing recovers.
LoadName(w) ==
    /\ Alive
    /\ call[w].pc = "load"
    /\ \/ call[w].i \notin 0..(Len(NameOfNodes) - 1) /\ Crash(w)
       \/ /\ call[w].i \in 0..(Len(NameOfNodes) - 1)
          /\ call' = [call EXCEPT ![w] = NoCall]
          /\ Count(w)
          /\ alone' = alone \ {w}
          /\ UNCHANGED crashed
    /\ UNCHANGED <<Next, calls>>
    /\ CallUnchanged

NextStep ==
    \/ \E n \in Node, s \in States : NodeChanges(n, s)
    \/ ListNodes \/ (\E n \in Node : AddListed(n)) \/ Listed \/ OpenWatch
    \/ WatchTurn \/ LoseWatch
    \/ AppendName \/ ShiftNames \/ ShortenNames \/ Decrement
    \/ \E w \in Worker : Schedule(w) \/ TakeNumber(w) \/ ComputeIndex(w) \/ LoadName(w)

Spec == Init /\ [][NextStep]_vars
-----------------------------------------------------------------------------
(* Properties *)

\* Between two calls of AddNode and RemoveNode the table is consistent: no node
\* twice, and as many names as NumOfNodes says.
TableConsistent ==
    task = Rest => NumOfNodes = Len(NameOfNodes) /\ Distinct(NameOfNodes)

\* In the watch loop, once the events of n are read, n is in the table if and
\* only if it is Ready in etcd, provided n was heard of by an event since the last
\* list (a list adds nodes that are not Ready and keeps those that are gone).
TableFollowsReady ==
    \A n \in heard :
        /\ watcher = "watch"
        /\ task = Rest
        /\ \A i \in DOMAIN stream : stream[i].node # n
        => (n \in InTable <=> nodes[n] = "ready")

\* Schedule panics only if an AddNode or RemoveNode ran during the call or a number
\* less one was negative, which takes more than Half calls.
PanicHasCause == crashed \in alone => calls > Half

\* Until Next wraps, calls that no change of the table disturbs use the nodes in
\* turn: no node is picked two times more often than another, give or take the calls
\* under way.  (Of the numbers below one, only those that NumOfNodes divides pick.)
UsesNodesInTurn ==
    calls < Half =>
    \A m, n \in InTable :
        task = Rest => tally[m] - tally[n]
            <= 1 + Cardinality({w \in Worker : call[w].pc \in {"index", "load"}})
=============================================================================
