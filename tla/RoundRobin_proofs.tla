------------------------- MODULE RoundRobin_proofs --------------------------
(***************************************************************************)
(* The round-robin table for every set of nodes and every number of        *)
(* goroutines.                                                             *)
(***************************************************************************)
EXTENDS RoundRobin, FiniteSetTheorems, TLAPS

\* What the table looks like before each step of AddNode and RemoveNode.
Table ==
    /\ NameOfNodes \in Seq(Node)
    /\ NumOfNodes \in Nat
    /\ toAdd \subseteq Node
    /\ stream \in Seq(Event)
    /\ \/ /\ task = Rest
          /\ NumOfNodes = Len(NameOfNodes)
          /\ Distinct(NameOfNodes)
       \/ /\ task \in [step : {"append"}, node : Node]
          /\ task.node \notin InTable
          /\ NumOfNodes = Len(NameOfNodes) + 1
          /\ Distinct(NameOfNodes)
       \/ /\ task \in [step : {"shift"}, node : Node]
          /\ task.node \in InTable
          /\ NumOfNodes = Len(NameOfNodes)
          /\ Distinct(NameOfNodes)
       \/ /\ task \in [step : {"header"}, node : Node]
          /\ Len(NameOfNodes) > 0
          /\ NumOfNodes = Len(NameOfNodes)
          /\ \A i, j \in 1..(Len(NameOfNodes) - 1) : NameOfNodes[i] = NameOfNodes[j] => i = j
       \/ /\ task \in [step : {"decrement"}, node : Node]
          /\ NumOfNodes = Len(NameOfNodes) + 1
          /\ Distinct(NameOfNodes)

\* AddNode and RemoveNode up to their first write.
LEMMA TaskStarts ==
    ASSUME Table, task = Rest, NEW n \in Node, AddNode(n) \/ RemoveNode(n),
           toAdd' \subseteq Node, stream' \in Seq(Event)
    PROVE  Table'
<1> USE DEF Table, Distinct, InTable, Rest
<1>1. CASE UNCHANGED <<task, tableVars>>
    BY <1>1 DEF tableVars
<1>2. CASE Starts("append", n) /\ n \notin InTable /\ NumOfNodes' = NumOfNodes + 1
           /\ UNCHANGED NameOfNodes
    BY <1>2 DEF Starts
<1>3. CASE Starts("shift", n) /\ n \in InTable /\ UNCHANGED tableVars
    BY <1>3 DEF Starts, tableVars
<1>4. QED
    BY <1>1, <1>2, <1>3 DEF AddNode, RemoveNode

\* Table is inductive.
LEMMA TableStep == Table /\ [NextStep]_vars => Table'
<1> SUFFICES ASSUME Table, [NextStep]_vars PROVE Table'
    OBVIOUS
<1>1. ASSUME UNCHANGED <<task, tableVars>>, toAdd' \subseteq Node,
             stream' \in Seq(Event)
      PROVE  Table'
    BY <1>1 DEF Table, tableVars, Distinct, InTable
<1>2. toAdd \subseteq Node /\ stream \in Seq(Event)
    BY DEF Table
<1>3. ASSUME NEW n \in Node, NEW s \in States, NodeChanges(n, s) PROVE Table'
  <2>1. [node |-> n, state |-> s] \in Event
    BY DEF Event
  <2>2. stream' = stream \/ stream' = Append(stream, [node |-> n, state |-> s])
    BY <1>3 DEF NodeChanges
  <2>3. stream' \in Seq(Event)
    BY <1>2, <2>1, <2>2
  <2>4. QED
    BY <1>1, <1>2, <1>3, <2>3 DEF NodeChanges, watcherVars
<1>4. CASE ListNodes
    BY <1>1, <1>2, <1>4 DEF ListNodes, tableVars
<1>5. ASSUME NEW n \in Node, AddListed(n) PROVE Table'
    BY <1>2, <1>5, TaskStarts DEF AddListed
<1>6. CASE Listed \/ OpenWatch
    BY <1>1, <1>2, <1>6 DEF Listed, OpenWatch
<1>7. CASE WatchTurn
  <2> DEFINE e == Head(stream)
  <2>1. e \in Event /\ stream' \in Seq(Event)
    BY <1>2, <1>7 DEF WatchTurn
  <2>2. AddNode(e.node) \/ RemoveNode(e.node)
    BY <1>7 DEF WatchTurn
  <2>3. task = Rest /\ toAdd' \subseteq Node /\ e.node \in Node
    BY <1>2, <1>7, <2>1 DEF WatchTurn, Event
  <2>4. QED
    BY <2>1, <2>2, <2>3, TaskStarts
<1>8. CASE LoseWatch
    BY <1>1, <1>2, <1>8 DEF LoseWatch
<1>9. CASE AppendName
    BY <1>9 DEF AppendName, TaskStep, Table, Rest, Distinct, InTable
<1>10. CASE ShiftNames
  <2> DEFINE len == Len(NameOfNodes)
  <2>1. /\ NameOfNodes \in [1..len -> Node] /\ len \in Nat
        /\ Distinct(NameOfNodes)
        /\ task \in [step : {"shift"}, node : Node] /\ task.node \in InTable
        /\ NumOfNodes = len
    BY <1>10 DEF ShiftNames, TaskStep, Table, Rest
  <2>2. Idx \in 1..len
    BY <2>1 DEF Idx, InTable
  <2>3. NameOfNodes' = [i \in 1..len |-> IF i < Idx \/ i = len THEN NameOfNodes[i]
                                                             ELSE NameOfNodes[i + 1]]
    BY <1>10 DEF ShiftNames, TaskStep
  <2>4. NameOfNodes' \in [1..len -> Node]
    <3> HIDE DEF len
    <3>1. ASSUME NEW i \in 1..len
          PROVE  (IF i < Idx \/ i = len THEN NameOfNodes[i] ELSE NameOfNodes[i + 1]) \in Node
        BY <2>1, <3>1
    <3>2. QED
        BY <2>3, <3>1
  <2>5. NameOfNodes' \in Seq(Node) /\ Len(NameOfNodes') = len
    BY <2>1, <2>4
  <2>6. ASSUME NEW i \in 1..(len - 1), NEW j \in 1..(len - 1), NameOfNodes'[i] = NameOfNodes'[j]
        PROVE  i = j
    <3> HIDE DEF len
    <3> DEFINE from(m) == IF m < Idx THEN m ELSE m + 1
    <3>1. ASSUME NEW m \in 1..(len - 1)
          PROVE  from(m) \in 1..len /\ NameOfNodes'[m] = NameOfNodes[from(m)]
        BY <2>1, <2>2, <2>3, <3>1
    <3>2. from(i) = from(j)
      <4>1. DOMAIN NameOfNodes = 1..len
          BY <2>1
      <4>2. from(i) \in 1..len /\ from(j) \in 1..len
          BY <3>1
      <4>3. NameOfNodes[from(i)] = NameOfNodes[from(j)]
          BY <2>6, <3>1
      <4>4. QED
          BY <2>1, <4>1, <4>2, <4>3 DEF Distinct
    <3>3. QED
        BY <2>1, <2>2, <3>2
  <2>7. task' \in [step : {"header"}, node : Node] /\ NumOfNodes' = len
    BY <1>10, <2>1 DEF ShiftNames, TaskStep
  <2>8. len > 0
    BY <2>1, <2>2
  <2>9. toAdd' = toAdd /\ stream' = stream
    BY <1>10 DEF ShiftNames, TaskStep
  <2>10. QED
    <3> HIDE DEF len
    <3>1. NumOfNodes' \in Nat /\ Len(NameOfNodes') > 0 /\ NumOfNodes' = Len(NameOfNodes')
        BY <2>1, <2>5, <2>7, <2>8
    <3>2. QED
        BY <1>2, <2>5, <2>6, <2>7, <2>9, <3>1 DEF Table
<1>11. CASE ShortenNames
  <2> DEFINE t == SubSeq(NameOfNodes, 1, Len(NameOfNodes) - 1)
  <2>1. /\ task \in [step : {"header"}, node : Node]
        /\ NameOfNodes \in Seq(Node) /\ Len(NameOfNodes) > 0
        /\ NumOfNodes = Len(NameOfNodes)
        /\ \A i, j \in 1..(Len(NameOfNodes) - 1) : NameOfNodes[i] = NameOfNodes[j] => i = j
    BY <1>11 DEF ShortenNames, TaskStep, Table, Rest
  <2>2. /\ NameOfNodes' = t /\ NumOfNodes' = NumOfNodes
        /\ task' = [task EXCEPT !.step = "decrement"]
        /\ toAdd' = toAdd /\ stream' = stream
    BY <1>11 DEF ShortenNames, TaskStep
  <2>3. t \in Seq(Node) /\ Len(t) = Len(NameOfNodes) - 1 /\ Distinct(t)
    BY <2>1 DEF Distinct
  <2>4. QED
    <3> HIDE DEF t
    <3>1. task' \in [step : {"decrement"}, node : Node]
        BY <2>1, <2>2
    <3>2. NumOfNodes' \in Nat /\ NumOfNodes' = Len(NameOfNodes') + 1
        BY <2>1, <2>2, <2>3
    <3>3. QED
        BY <1>2, <2>2, <2>3, <3>1, <3>2 DEF Table
<1>12. CASE Decrement
    BY <1>12 DEF Decrement, TaskStep, Table, Rest, Distinct, InTable
<1>13. ASSUME NEW w \in Worker, Schedule(w) \/ TakeNumber(w) \/ ComputeIndex(w) \/ LoadName(w)
       PROVE  Table'
    BY <1>1, <1>2, <1>13 DEF Schedule, TakeNumber, ComputeIndex, LoadName, CallUnchanged,
       nodeVars, watcherVars
<1>14. CASE UNCHANGED vars
    BY <1>1, <1>2, <1>14 DEF vars, nodeVars, watcherVars
<1>15. QED
    BY <1>3, <1>4, <1>5, <1>6, <1>7, <1>8, <1>9, <1>10, <1>11, <1>12, <1>13, <1>14 DEF NextStep

\* The table that Init fills.
LEMMA InitTable == Init => Table
<1> SUFFICES ASSUME Init PROVE Table
    OBVIOUS
<1>1. Cardinality(ReadyNodes) \in Nat
    BY NodeAssumption, FS_Subset, FS_CardinalityType DEF ReadyNodes
<1>2. PICK k \in Nat : NameOfNodes \in [1..k -> Node]
    BY <1>1 DEF Init, ReadyNodes
<1>3. QED
    BY <1>2 DEF Init, Table

\* Whatever the calls of Schedule do meanwhile, WatchNode leaves the table
\* consistent at the end of every AddNode and RemoveNode.
THEOREM Consistent == Spec => []TableConsistent
<1>1. Table => TableConsistent
    BY DEF Table, TableConsistent, Rest
<1>2. QED
    BY <1>1, InitTable, TableStep, PTL DEF Spec
-----------------------------------------------------------------------------
(* Types, and when Schedule panics.                                        *)

\* int32 arithmetic: below Half calls nothing wraps, and a number less one is
\* negative only below the least number plus one.
LEMMA Wraps ==
    /\ \A x \in Int : Wrap(x) \in (-Half)..(Half - 1)
    /\ \A x \in (-Half)..(Half - 1) : Wrap(x) = x
    /\ Wrap(Half) = -Half /\ Wrap(-Half - 1) = Half - 1
<1>1. \A x \in Int : Wrap(x) \in (-Half)..(Half - 1)
    BY HalfAssumption DEF Wrap
<1>2. \A x \in (-Half)..(Half - 1) : Wrap(x) = x
    BY HalfAssumption DEF Wrap
<1>3. Wrap(Half) = -Half
    BY HalfAssumption DEF Wrap
<1>4. Wrap(-Half - 1) = Half - 1
    BY HalfAssumption DEF Wrap
<1>5. QED
    BY <1>1, <1>2, <1>3, <1>4

\* Go's remainder is an integer, and an index of the table when nothing is negative.
LEMMA Remainders ==
    ASSUME NEW a \in Int, NEW b \in Nat \ {0}
    PROVE  Remainder(a, b) \in Int /\ (a >= 0 => Remainder(a, b) \in 0..(b - 1))
<1>1. a >= 0 => a % b \in 0..(b - 1)
    OBVIOUS
<1>2. a < 0 => (-a) % b \in Int
    OBVIOUS
<1>3. QED
    BY <1>1, <1>2 DEF Remainder

\* The variables that Table does not speak of; the bound of NumOfNodes follows from
\* it, as names that are distinct are no more than the nodes.
Typed ==
    /\ nodes \in [Node -> States]
    /\ watcher \in {"list", "add", "open", "watch"}
    /\ Next \in (-Half)..(Half - 1)
    /\ call \in [Worker -> [pc : {"idle", "number", "index", "load"}, n : Int, i : Int]]
    /\ crashed \in Worker \cup {None}
    /\ calls \in 0..MaxCalls
    /\ flips \in 0..MaxFlips
    /\ heard \subseteq Node
    /\ alone \subseteq Worker
    /\ since \in (-Half)..(Half - 1)
    /\ tally \in [Node -> Nat]

\* A sequence of distinct nodes is not longer than there are nodes.
LEMMA DistinctBound ==
    ASSUME NEW len \in Nat, NEW names \in [1..len -> Node],
           \A i, j \in 1..len : names[i] = names[j] => i = j
    PROVE  len <= Cardinality(Node)
<1>1. names \in Injection(1..len, Node)
    BY DEF Injection, IsInjective
<1>2. Cardinality(1..len) <= Cardinality(Node)
    BY <1>1, NodeAssumption, FS_Injection
<1>3. Cardinality(1..len) = len
    BY FS_Interval
<1>4. QED
    BY <1>2, <1>3

\* Table and Typed are TypeOK.
LEMMA TableTyped == Table /\ Typed => TypeOK
<1> SUFFICES ASSUME Table, Typed PROVE TypeOK
    OBVIOUS
<1>1. Cardinality(Node) \in Nat
    BY NodeAssumption, FS_CardinalityType
<1>2. task \in [step : {"append", "shift", "header", "decrement"}, node : Node] \cup {Rest}
    BY DEF Table
<1>3. NameOfNodes \in Seq(Node) /\ NumOfNodes \in Nat /\ Len(NameOfNodes) \in Nat
    BY DEF Table
<1>4. CASE Distinct(NameOfNodes)
  <2>1. Len(NameOfNodes) <= Cardinality(Node)
      BY <1>3, <1>4, DistinctBound DEF Distinct
  <2>2. NumOfNodes <= Len(NameOfNodes) + 1
      BY <1>3 DEF Table
  <2>3. NumOfNodes \in 0..(Cardinality(Node) + 1)
      BY <1>1, <1>3, <2>1, <2>2
  <2>4. QED
      BY <1>2, <2>3 DEF Table, Typed, TypeOK
<1>5. CASE ~Distinct(NameOfNodes)
  <2> DEFINE len == Len(NameOfNodes) - 1
             names == [i \in 1..len |-> NameOfNodes[i]]
  <2>1. /\ NumOfNodes = Len(NameOfNodes) /\ len \in Nat
        /\ \A i, j \in 1..len : NameOfNodes[i] = NameOfNodes[j] => i = j
      BY <1>3, <1>5 DEF Table
  <2>2. names \in [1..len -> Node] /\ \A i, j \in 1..len : names[i] = names[j] => i = j
      BY <1>3, <2>1
  <2>3. len <= Cardinality(Node)
    <3> HIDE DEF len, names
    <3>1. QED
        BY <2>1, <2>2, DistinctBound
  <2>4. NumOfNodes \in 0..(Cardinality(Node) + 1)
      BY <1>1, <1>3, <2>1, <2>3
  <2>5. QED
      BY <1>2, <2>4 DEF Table, Typed, TypeOK
<1>6. QED
    BY <1>4, <1>5

\* A call that is alone found the table at rest and not empty, and so it stays.
Undisturbed ==
    alone # {} => task = Rest /\ NumOfNodes # 0 /\ \A w \in alone : call[w].pc # "idle"

\* Up to Half calls, each has a number that is positive or so small that it wraps
\* when one is taken off.
Numbered ==
    /\ calls < Half => Next = calls
    /\ calls <= Half => \A w \in Worker : call[w].pc = "index" => call[w].n \in 1..(Half - 1) \cup {-Half}

\* An index that an undisturbed call computed lies in the table.
Indexed ==
    calls <= Half => \A w \in alone : call[w].pc = "load" => call[w].i \in 0..(NumOfNodes - 1)

Calling == Typed /\ Undisturbed /\ Numbered /\ Indexed /\ PanicHasCause

\* Steps of etcd and of WatchNode leave calls alone, or disturb all of them.
LEMMA WatchCalling ==
    ASSUME Calling, UNCHANGED <<Next, call, crashed, calls>>,
           alone' = {} \/ (alone' = alone /\ UNCHANGED <<task, NumOfNodes>>),
           nodes' \in [Node -> States], watcher' \in {"list", "add", "open", "watch"},
           flips' \in 0..MaxFlips, heard' \subseteq Node, since' \in (-Half)..(Half - 1),
           tally' \in [Node -> Nat]
    PROVE  Calling'
<1>1. Typed'
    BY DEF Calling, Typed
<1>2. Numbered'
    BY DEF Calling, Numbered
<1>3. Undisturbed' /\ Indexed' /\ PanicHasCause'
  <2>1. CASE alone' = {}
      BY <2>1 DEF Undisturbed, Indexed, PanicHasCause
  <2>2. CASE alone' = alone /\ UNCHANGED <<task, NumOfNodes>>
      BY <2>2 DEF Calling, Undisturbed, Indexed, PanicHasCause
  <2>3. QED
      BY <2>1, <2>2
<1>4. QED
    BY <1>1, <1>2, <1>3 DEF Calling

\* AddNode and RemoveNode disturb the calls when they begin, or do nothing.
LEMMA TaskBegins ==
    ASSUME Typed, NEW n, AddNode(n) \/ RemoveNode(n)
    PROVE  /\ alone' = {} \/ (alone' = alone /\ UNCHANGED <<task, tableVars>>)
           /\ since' \in (-Half)..(Half - 1) /\ tally' \in [Node -> Nat]
<1>1. [m \in Node |-> 0] \in [Node -> Nat]
    OBVIOUS
<1>2. QED
    BY <1>1 DEF Typed, AddNode, RemoveNode, Starts, tableVars

\* Every step of etcd and of WatchNode keeps Calling.
LEMMA WatchSteps ==
    ASSUME Table, Calling,
           \/ \E n \in Node, s \in States : NodeChanges(n, s)
           \/ ListNodes \/ (\E n \in Node : AddListed(n)) \/ Listed \/ OpenWatch
           \/ WatchTurn \/ LoseWatch
           \/ AppendName \/ ShiftNames \/ ShortenNames \/ Decrement
    PROVE  Calling'
<1>0. /\ nodes \in [Node -> States] /\ watcher \in {"list", "add", "open", "watch"}
      /\ flips \in 0..MaxFlips /\ heard \subseteq Node /\ since \in (-Half)..(Half - 1)
      /\ tally \in [Node -> Nat] /\ Typed /\ toAdd \subseteq Node
    BY DEF Calling, Typed, Table
<1>1. ASSUME flips < MaxFlips, flips' = flips + 1 PROVE flips' \in 0..MaxFlips
    BY <1>0, <1>1, BoundsAssumption
<1>2. ASSUME NEW n \in Node, NEW s \in States, NodeChanges(n, s) PROVE Calling'
  <2>1. nodes' \in [Node -> States] /\ heard' \subseteq Node /\ flips' \in 0..MaxFlips
      BY <1>0, <1>1, <1>2 DEF NodeChanges
  <2>2. UNCHANGED <<Next, call, crashed, calls, alone, task, NumOfNodes, watcher, since, tally>>
      BY <1>2 DEF NodeChanges, watcherVars, tableVars
  <2>3. QED
      BY <1>0, <2>1, <2>2, WatchCalling
<1>3. CASE ListNodes \/ Listed \/ OpenWatch
    BY <1>0, <1>3, WatchCalling DEF ListNodes, Listed, OpenWatch, WatchUnchanged, tableVars
<1>4. ASSUME NEW n \in Node, AddListed(n) PROVE Calling'
  <2>1. /\ alone' = {} \/ (alone' = alone /\ UNCHANGED <<task, NumOfNodes>>)
        /\ since' \in (-Half)..(Half - 1) /\ tally' \in [Node -> Nat]
      BY <1>0, <1>4, TaskBegins DEF AddListed, tableVars
  <2>2. heard' \subseteq Node /\ UNCHANGED <<Next, call, crashed, calls, nodes, flips, watcher>>
      BY <1>0, <1>4 DEF AddListed, WatchUnchanged
  <2>3. QED
      BY <1>0, <2>1, <2>2, WatchCalling
<1>5. CASE WatchTurn
  <2> DEFINE e == Head(stream)
  <2>1. e \in Event
      BY <1>5 DEF WatchTurn, Table
  <2>2. e.node \in Node /\ (AddNode(e.node) \/ RemoveNode(e.node)) /\ heard' = heard \cup {e.node}
      BY <1>5, <2>1 DEF WatchTurn, Event
  <2>3. /\ alone' = {} \/ (alone' = alone /\ UNCHANGED <<task, NumOfNodes>>)
        /\ since' \in (-Half)..(Half - 1) /\ tally' \in [Node -> Nat]
      BY <1>0, <2>2, TaskBegins DEF tableVars
  <2>4. UNCHANGED <<Next, call, crashed, calls, nodes, flips, watcher>>
      BY <1>5 DEF WatchTurn, WatchUnchanged
  <2>5. QED
      BY <1>0, <2>2, <2>3, <2>4, WatchCalling
<1>6. CASE LoseWatch
    BY <1>0, <1>1, <1>6, WatchCalling DEF LoseWatch, tableVars
<1>7. CASE AppendName \/ ShiftNames \/ ShortenNames \/ Decrement
  <2>1. /\ since' = Next /\ tally' = [m \in Node |-> 0] /\ alone' = {}
        /\ UNCHANGED <<Next, call, crashed, calls, nodes, flips, watcher, heard>>
      BY <1>7 DEF AppendName, ShiftNames, ShortenNames, Decrement, TaskStep, WatchUnchanged
  <2>2. since' \in (-Half)..(Half - 1) /\ tally' \in [Node -> Nat]
      BY <1>0, <2>1 DEF Typed
  <2>3. QED
      BY <1>0, <2>1, <2>2, WatchCalling
<1>8. QED
    BY <1>2, <1>3, <1>4, <1>5, <1>6, <1>7

\* Every step of a call keeps Calling.
LEMMA CallSteps ==
    ASSUME Table, Calling, NEW w \in Worker,
           Schedule(w) \/ TakeNumber(w) \/ ComputeIndex(w) \/ LoadName(w)
    PROVE  Calling'
<1>1. /\ Typed /\ Undisturbed /\ Numbered /\ Indexed
      /\ call \in [Worker -> [pc : {"idle", "number", "index", "load"}, n : Int, i : Int]]
      /\ calls \in Nat /\ MaxCalls \in Nat /\ Half \in Nat \ {0} /\ NumOfNodes \in Nat
      /\ Next \in (-Half)..(Half - 1) /\ alone \subseteq Worker
    BY BoundsAssumption, HalfAssumption DEF Calling, Typed, Table
<1>2. /\ UNCHANGED <<nodes, watcher, flips, heard, task, tableVars>>
      /\ crashed = None /\ crashed \notin alone
    BY <1>1, WorkerAssumption DEF Schedule, TakeNumber, ComputeIndex, LoadName, CallUnchanged,
       nodeVars, watcherVars, Alive
<1>3. CASE Schedule(w)
  <2>1. /\ \A v \in Worker : v # w => call'[v] = call[v]
        /\ call'[w].pc = "number" /\ call'[w] \in [pc : {"number"}, n : {0}, i : {0}]
        /\ call' \in [Worker -> [pc : {"idle", "number", "index", "load"}, n : Int, i : Int]]
      BY <1>1, <1>3 DEF Schedule, NoCall
  <2>2. /\ alone' \subseteq alone \cup {w} /\ (task # Rest => alone' = alone) /\ NumOfNodes # 0
        /\ UNCHANGED <<Next, crashed, calls, since, tally>>
      BY <1>1, <1>3 DEF Schedule
  <2>3. Typed' /\ PanicHasCause'
    <3>1. alone' \subseteq Worker
        BY <1>1, <2>2
    <3>2. crashed' \notin alone'
        BY <1>2, <2>2, <3>1, WorkerAssumption
    <3>3. QED
        BY <1>1, <1>2, <2>1, <2>2, <3>1, <3>2 DEF Typed, PanicHasCause
  <2>4. Undisturbed'
      BY <1>1, <1>2, <2>1, <2>2 DEF Undisturbed, tableVars
  <2>5. Numbered' /\ Indexed'
      BY <1>1, <1>2, <2>1, <2>2 DEF Numbered, Indexed, tableVars
  <2>6. QED
      BY <2>3, <2>4, <2>5 DEF Calling
<1>4. CASE TakeNumber(w)
  <2>1. /\ \A v \in Worker : v # w => call'[v] = call[v]
        /\ call'[w] = [pc |-> "index", n |-> Next', i |-> 0]
        /\ Next' = Wrap(Next + 1) /\ calls' = calls + 1 /\ calls < MaxCalls
        /\ UNCHANGED <<crashed, alone, since, tally>>
      BY <1>1, <1>4 DEF TakeNumber
  <2>2. Next' \in (-Half)..(Half - 1)
      BY <1>1, <2>1, Wraps
  <2>3. call' \in [Worker -> [pc : {"idle", "number", "index", "load"}, n : Int, i : Int]]
    <3>1. call' = [call EXCEPT ![w] = [pc |-> "index", n |-> Next', i |-> 0]]
        BY <1>4 DEF TakeNumber
    <3>2. [pc |-> "index", n |-> Next', i |-> 0]
             \in [pc : {"idle", "number", "index", "load"}, n : Int, i : Int]
        BY <1>1, <2>2
    <3>3. QED
        BY <1>1, <3>1, <3>2
  <2>4. calls' \in 0..MaxCalls
      BY <1>1, <2>1
  <2>5. Typed' /\ PanicHasCause'
      BY <1>1, <1>2, <2>1, <2>2, <2>3, <2>4 DEF Typed, PanicHasCause
  <2>6. Undisturbed' /\ Indexed'
    <3>1. calls' <= Half => calls <= Half
        BY <1>1, <2>1
    <3>2. \A v \in Worker : call'[v].pc = "load" => call'[v] = call[v]
        BY <2>1
    <3>3. \A v \in Worker : call'[v].pc = "idle" => call'[v] = call[v]
        BY <2>1
    <3>4. QED
        BY <1>1, <1>2, <2>1, <3>1, <3>2, <3>3 DEF Undisturbed, Indexed, tableVars
  <2>7. ASSUME calls + 1 <= Half
        PROVE  (calls + 1 < Half => Next' = calls + 1) /\ Next' \in 1..(Half - 1) \cup {-Half}
    <3>1. Next = calls
        BY <1>1, <2>7 DEF Numbered
    <3>2. CASE calls + 1 < Half
        BY <1>1, <2>1, <3>1, <3>2, Wraps
    <3>3. CASE calls + 1 = Half
        BY <1>1, <2>1, <3>1, <3>3, Wraps
    <3>4. QED
        BY <1>1, <2>7, <3>2, <3>3
  <2>8. Numbered'
    <3>1. calls + 1 < Half => calls + 1 <= Half
        BY <1>1
    <3>2. calls + 1 <= Half => calls <= Half
        BY <1>1
    <3>3. \A v \in Worker : call'[v].pc = "index" /\ v # w => call'[v] = call[v]
        BY <2>1
    <3>4. call'[w].n = Next'
        BY <2>1
    <3>5. QED
        BY <1>1, <2>1, <2>7, <3>1, <3>2, <3>3, <3>4 DEF Numbered
  <2>9. QED
      BY <2>5, <2>6, <2>8 DEF Calling
<1>5. CASE ComputeIndex(w) /\ NumOfNodes = 0
  <2>1. crashed' = w /\ UNCHANGED <<call, alone, since, tally, Next, calls>>
      BY <1>5 DEF ComputeIndex, Crash
  <2>2. alone = {}
      BY <1>1, <1>5 DEF Undisturbed
  <2>3. QED
      BY <1>1, <1>2, <2>1, <2>2 DEF Calling, Typed, Undisturbed, Numbered, Indexed, PanicHasCause
<1>6. CASE ComputeIndex(w) /\ NumOfNodes # 0
  <2> DEFINE index == Remainder(Wrap(call[w].n - 1), NumOfNodes)
  <2>1. /\ call[w].pc = "index" /\ call' = [call EXCEPT ![w].pc = "load", ![w].i = index]
        /\ UNCHANGED <<crashed, alone, since, tally, Next, calls>>
      BY <1>6 DEF ComputeIndex
  <2>2. call[w].n \in Int /\ Wrap(call[w].n - 1) \in Int
      BY <1>1, Wraps
  <2>3. index \in Int /\ (Wrap(call[w].n - 1) >= 0 => index \in 0..(NumOfNodes - 1))
      BY <1>1, <1>6, <2>2, Remainders
  <2>4. calls <= Half => index \in 0..(NumOfNodes - 1)
    <3>1. calls <= Half => call[w].n \in 1..(Half - 1) \cup {-Half}
        BY <1>1, <2>1 DEF Numbered
    <3>2. call[w].n \in 1..(Half - 1) => Wrap(call[w].n - 1) >= 0
        BY <1>1, Wraps
    <3>3. call[w].n = -Half => Wrap(call[w].n - 1) >= 0
        BY <1>1, Wraps
    <3>4. QED
        BY <2>3, <3>1, <3>2, <3>3
  <2> HIDE DEF index
  <2>5. /\ call' \in [Worker -> [pc : {"idle", "number", "index", "load"}, n : Int, i : Int]]
        /\ \A v \in Worker : v # w => call'[v] = call[v]
        /\ call'[w].pc = "load" /\ call'[w].i = index
      BY <1>1, <2>1, <2>3
  <2>6. Typed' /\ PanicHasCause'
      BY <1>1, <1>2, <2>1, <2>5 DEF Typed, PanicHasCause
  <2>7. Undisturbed' /\ Numbered'
      BY <1>1, <1>2, <2>1, <2>5 DEF Undisturbed, Numbered, tableVars
  <2>8. Indexed'
      BY <1>1, <1>2, <2>1, <2>4, <2>5 DEF Indexed, tableVars
  <2>9. QED
      BY <2>6, <2>7, <2>8 DEF Calling
<1>7. CASE LoadName(w) /\ call[w].i \notin 0..(Len(NameOfNodes) - 1)
  <2>1. /\ crashed' = w /\ UNCHANGED <<call, alone, since, tally, Next, calls>>
        /\ call[w].pc = "load"
      BY <1>7 DEF LoadName, Crash
  <2>2. w \in alone => calls > Half
    <3>1. w \in alone => NumOfNodes = Len(NameOfNodes)
        BY <1>1 DEF Undisturbed, Table, Rest
    <3>2. QED
        BY <1>1, <1>7, <2>1, <3>1 DEF Indexed
  <2>3. PanicHasCause'
      BY <2>1, <2>2 DEF PanicHasCause
  <2>4. QED
      BY <1>1, <1>2, <2>1, <2>3 DEF Calling, Typed, Undisturbed, Numbered, Indexed, tableVars
<1>8. CASE LoadName(w) /\ call[w].i \in 0..(Len(NameOfNodes) - 1)
  <2>1. /\ call' = [call EXCEPT ![w] = NoCall] /\ alone' = alone \ {w} /\ Count(w)
        /\ UNCHANGED <<crashed, Next, calls>>
      BY <1>8 DEF LoadName
  <2>2. Picked(w) \in Node
    <3>1. NameOfNodes \in Seq(Node) /\ call[w].i + 1 \in 1..Len(NameOfNodes)
        BY <1>1, <1>8 DEF Table
    <3>2. QED
        BY <3>1 DEF Picked
  <2>3. since' \in (-Half)..(Half - 1) /\ tally' \in [Node -> Nat]
    <3>1. since \in (-Half)..(Half - 1) /\ tally \in [Node -> Nat]
        BY <1>1 DEF Typed
    <3>2. QED
        BY <1>1, <2>1, <2>2, <3>1 DEF Count
  <2>4. /\ call' \in [Worker -> [pc : {"idle", "number", "index", "load"}, n : Int, i : Int]]
        /\ \A v \in Worker : v # w => call'[v] = call[v]
        /\ call'[w].pc = "idle"
      BY <1>1, <2>1 DEF NoCall
  <2>5. Typed' /\ PanicHasCause'
      BY <1>1, <1>2, <2>1, <2>3, <2>4 DEF Typed, PanicHasCause
  <2>6. Undisturbed' /\ Numbered' /\ Indexed'
      BY <1>1, <1>2, <2>1, <2>4 DEF Undisturbed, Numbered, Indexed, tableVars
  <2>7. QED
      BY <2>5, <2>6 DEF Calling
<1>9. QED
    BY <1>3, <1>4, <1>5, <1>6, <1>7, <1>8, Zenon DEF ComputeIndex, LoadName

\* Calling is inductive.
LEMMA CallingStep == Table /\ Calling /\ [NextStep]_vars => Calling'
<1> SUFFICES ASSUME Table, Calling, [NextStep]_vars PROVE Calling'
    OBVIOUS
<1>1. CASE UNCHANGED vars
    BY <1>1 DEF vars, nodeVars, watcherVars, tableVars, Calling, Typed, Undisturbed, Numbered,
       Indexed, PanicHasCause
<1>2. QED
    BY <1>1, WatchSteps, CallSteps DEF NextStep

\* Calling holds at first.
LEMMA InitCalling == Init => Calling
<1> SUFFICES ASSUME Init PROVE Calling
    OBVIOUS
<1>1. Typed
    BY HalfAssumption, BoundsAssumption DEF Init, Typed, NoCall
<1>2. QED
    BY <1>1 DEF Init, Calling, Undisturbed, Numbered, Indexed, PanicHasCause, NoCall

\* Every variable has its type: an index is an integer, Next fits its width, and
\* NumOfNodes is one more than there are nodes at most.
THEOREM RoundRobinTyped == Spec => []TypeOK
<1>1. Calling => Typed
    BY DEF Calling
<1>2. QED
    BY <1>1, InitTable, InitCalling, TableStep, CallingStep, TableTyped, PTL DEF Spec

\* A call of Schedule that overlaps no change of the table panics only after more
\* than Half calls, when a number less one is negative and so may be its index.
THEOREM PanicsExplained == Spec => []PanicHasCause
<1>1. Calling => PanicHasCause
    BY DEF Calling
<1>2. QED
    BY <1>1, InitTable, InitCalling, TableStep, CallingStep, PTL DEF Spec
-----------------------------------------------------------------------------
(* The table and etcd.                                                     *)

\* The nodes in the first names of the table.
Names(k) == {NameOfNodes[i] : i \in 1..k}

\* The nodes that will be in the table when the task under way is done.
WillBe ==
    CASE task.step = "append" -> Names(Len(NameOfNodes)) \cup {task.node}
      [] task.step = "shift" -> Names(Len(NameOfNodes)) \ {task.node}
      [] task.step = "header" -> Names(Len(NameOfNodes) - 1)
      [] OTHER -> Names(Len(NameOfNodes))

\* The last event of a node says what etcd has.
LastSays ==
    \A k \in 1..Len(stream) :
       (\A l \in 1..Len(stream) : l > k => stream[l].node # stream[k].node)
       => stream[k].state = nodes[stream[k].node]

Follows ==
    /\ watcher # "watch" => stream = <<>>
    /\ LastSays
    /\ \A n \in heard : (\A k \in 1..Len(stream) : stream[k].node # n)
                        => (n \in WillBe <=> nodes[n] = "ready")

\* AddNode and RemoveNode settle, for their node, what the table will be.
LEMMA TaskSettles ==
    ASSUME Table, task = Rest, NEW n \in Node
    PROVE  /\ AddNode(n) => WillBe' = WillBe \cup {n}
           /\ RemoveNode(n) => WillBe' = WillBe \ {n}
<1>1. NameOfNodes \in Seq(Node) /\ NumOfNodes = Len(NameOfNodes)
    BY DEF Table, Rest
<1>2. InTable = Names(Len(NameOfNodes)) /\ WillBe = InTable
    BY <1>1 DEF InTable, Names, WillBe, Rest
<1>3. ASSUME UNCHANGED <<task, tableVars>> PROVE WillBe' = WillBe
    BY <1>3 DEF WillBe, Names, tableVars
<1>4. ASSUME UNCHANGED NameOfNodes PROVE Names(Len(NameOfNodes))' = Names(Len(NameOfNodes))
    BY <1>4 DEF Names
<1>5. ASSUME AddNode(n) PROVE WillBe' = WillBe \cup {n}
  <2>1. CASE n \in InTable /\ UNCHANGED <<task, tableVars>>
      BY <1>2, <1>3, <2>1
  <2>2. CASE Starts("append", n) /\ UNCHANGED NameOfNodes
    <3>1. task'.step = "append" /\ task'.node = n
        BY <2>2 DEF Starts
    <3>2. WillBe' = Names(Len(NameOfNodes))' \cup {n}
        BY <3>1 DEF WillBe
    <3>3. QED
        BY <1>2, <1>4, <2>2, <3>2
  <2>3. QED
      BY <1>5, <2>1, <2>2 DEF AddNode
<1>6. ASSUME RemoveNode(n) PROVE WillBe' = WillBe \ {n}
  <2>1. CASE NumOfNodes = 0 /\ UNCHANGED <<task, tableVars>>
    <3>1. InTable = {}
      <4>1. DOMAIN NameOfNodes = 1..Len(NameOfNodes) /\ Len(NameOfNodes) = 0
        <5>1. NameOfNodes \in Seq(Node) => DOMAIN NameOfNodes = 1..Len(NameOfNodes)
            OBVIOUS
        <5>2. QED
            BY <1>1, <2>1, <5>1, Zenon
      <4>2. \A i : i \notin 1..Len(NameOfNodes)
          BY <4>1
      <4>3. QED
          BY <4>1, <4>2 DEF InTable
    <3>2. QED
        BY <1>2, <1>3, <2>1, <3>1
  <2>2. CASE n \notin InTable /\ UNCHANGED <<task, tableVars>>
      BY <1>2, <1>3, <2>2
  <2>3. CASE Starts("shift", n) /\ UNCHANGED tableVars
    <3>1. task'.step = "shift" /\ task'.node = n
        BY <2>3 DEF Starts
    <3>2. WillBe' = Names(Len(NameOfNodes))' \ {n}
        BY <3>1 DEF WillBe
    <3>3. QED
        BY <1>2, <1>4, <2>3, <3>2 DEF tableVars
  <2>4. QED
      BY <1>6, <2>1, <2>2, <2>3 DEF RemoveNode
<1>7. QED
    BY <1>5, <1>6

\* The steps of a task carry out what it is to settle.
LEMMA TaskCarriesOut ==
    ASSUME Table, AppendName \/ ShiftNames \/ ShortenNames \/ Decrement
    PROVE  WillBe' = WillBe
<1> DEFINE len == Len(NameOfNodes)
<1>1. NameOfNodes \in Seq(Node) /\ len \in Nat
    BY DEF Table
<1>2. CASE AppendName
  <2>1. task.step = "append" /\ task.node \in Node
      BY <1>2 DEF AppendName, TaskStep, Table, Rest
  <2>2. task' = Rest /\ NameOfNodes' = Append(NameOfNodes, task.node)
      BY <1>2 DEF AppendName, TaskStep
  <2>3. /\ Len(NameOfNodes') = len + 1 /\ NameOfNodes'[len + 1] = task.node
        /\ \A i \in 1..len : NameOfNodes'[i] = NameOfNodes[i]
      BY <1>1, <2>1, <2>2
  <2>4. {NameOfNodes'[i] : i \in 1..(len + 1)} = {NameOfNodes[i] : i \in 1..len} \cup {task.node}
    <3> HIDE DEF len
    <3>1. ASSUME NEW i \in 1..(len + 1) PROVE i \in 1..len \/ i = len + 1
        BY <1>1
    <3>2. ASSUME NEW i \in 1..len PROVE i \in 1..(len + 1)
        BY <1>1
    <3>3. len + 1 \in 1..(len + 1)
        BY <1>1
    <3>4. QED
        BY <2>3, <3>1, <3>2, <3>3
  <2>5. WillBe' = Names(Len(NameOfNodes))' /\ WillBe = Names(len) \cup {task.node}
      BY <2>1, <2>2 DEF WillBe, Rest
  <2>6. QED
      BY <2>3, <2>4, <2>5 DEF Names
<1>3. CASE ShiftNames
  <2>1. /\ task.step = "shift" /\ task.node \in InTable /\ Distinct(NameOfNodes)
        /\ task' = [task EXCEPT !.step = "header"] /\ task'.step = "header"
        /\ NameOfNodes' = [i \in 1..len |-> IF i < Idx \/ i = len THEN NameOfNodes[i]
                                                                  ELSE NameOfNodes[i + 1]]
      BY <1>3 DEF ShiftNames, TaskStep, Table, Rest
  <2>2. Idx \in 1..len /\ NameOfNodes[Idx] = task.node
      BY <1>1, <2>1 DEF Idx, InTable
  <2>3. Len(NameOfNodes') = len
      BY <1>1, <2>1
  <2>4. PICK x \in 1..len : x = Idx
      BY <2>2
  <2>5. \A i, j \in 1..len : NameOfNodes[i] = NameOfNodes[j] => i = j
      BY <1>1, <2>1 DEF Distinct
  <2>6. {NameOfNodes'[i] : i \in 1..(len - 1)} = {NameOfNodes[i] : i \in 1..len} \ {task.node}
    <3> HIDE DEF len
    <3>1. ASSUME NEW i \in 1..(len - 1)
          PROVE  \E j \in 1..len : j # x /\ NameOfNodes'[i] = NameOfNodes[j]
      <4>1. CASE i < x
        <5>1. i \in 1..len /\ i # x /\ NameOfNodes'[i] = NameOfNodes[i]
            BY <1>1, <2>1, <2>4, <3>1, <4>1
        <5>2. QED
            BY <5>1
      <4>2. CASE ~(i < x)
        <5>1. i \in 1..len /\ i # len /\ i + 1 \in 1..len /\ i + 1 # x
            BY <1>1, <2>4, <3>1, <4>2
        <5>2. NameOfNodes'[i] = NameOfNodes[i + 1]
            BY <2>1, <2>4, <4>2, <5>1
        <5>3. QED
            BY <5>1, <5>2
      <4>3. QED
          BY <4>1, <4>2
    <3>2. ASSUME NEW j \in 1..len, j # x
          PROVE  \E i \in 1..(len - 1) : NameOfNodes'[i] = NameOfNodes[j]
      <4>1. CASE j < x
          BY <1>1, <2>1, <2>4, <3>2, <4>1
      <4>2. CASE j > x
        <5>1. j - 1 \in 1..(len - 1) /\ ~(j - 1 < x) /\ j - 1 # len /\ (j - 1) + 1 = j
            BY <1>1, <2>4, <3>2, <4>2
        <5>2. NameOfNodes'[j - 1] = NameOfNodes[j]
            BY <1>1, <2>1, <2>4, <5>1
        <5>3. QED
            BY <5>1, <5>2
      <4>3. QED
          BY <1>1, <2>4, <3>2, <4>1, <4>2
    <3>3. \A j \in 1..len : j # x <=> NameOfNodes[j] # task.node
        BY <2>2, <2>4, <2>5
    <3>4. QED
        BY <3>1, <3>2, <3>3
  <2>7. WillBe' = Names(Len(NameOfNodes) - 1)' /\ WillBe = Names(len) \ {task.node}
      BY <2>1 DEF WillBe
  <2>8. QED
      BY <2>3, <2>6, <2>7 DEF Names
<1>4. CASE ShortenNames
  <2>1. /\ task.step = "header" /\ len > 0 /\ task'.step = "decrement"
        /\ NameOfNodes' = SubSeq(NameOfNodes, 1, len - 1)
      BY <1>4 DEF ShortenNames, TaskStep, Table, Rest
  <2>2. Len(NameOfNodes') = len - 1 /\ \A i \in 1..(len - 1) : NameOfNodes'[i] = NameOfNodes[i]
    <3>1. SubSeq(NameOfNodes, 1, len - 1) = [i \in 1..(len - 1) |-> NameOfNodes[i]]
        BY <1>1, <2>1
    <3>2. PICK short \in Nat : short = len - 1
        BY <1>1, <2>1
    <3>3. NameOfNodes' = [i \in 1..short |-> NameOfNodes[i]]
        BY <2>1, <3>1, <3>2
    <3>4. Len(NameOfNodes') = short
        BY <3>3
    <3>5. QED
        BY <3>2, <3>3, <3>4
  <2>3. WillBe' = Names(Len(NameOfNodes))' /\ WillBe = Names(len - 1)
      BY <2>1 DEF WillBe
  <2>4. QED
      BY <2>2, <2>3 DEF Names
<1>5. CASE Decrement
  <2>1. task.step = "decrement" /\ task' = Rest /\ NameOfNodes' = NameOfNodes
      BY <1>5 DEF Decrement, TaskStep
  <2>2. QED
      BY <2>1 DEF WillBe, Rest, Names
<1>6. QED
    BY <1>2, <1>3, <1>4, <1>5

\* A step that settles nothing else, and of which no more nodes have been heard.
LEMMA QuietFollows ==
    ASSUME Follows, UNCHANGED <<stream, nodes>>, heard' \subseteq heard, WillBe' = WillBe,
           watcher' = "watch" \/ watcher # "watch"
    PROVE  Follows'
<1>1. LastSays'
    BY DEF Follows, LastSays
<1>2. QED
    BY <1>1 DEF Follows

\* A change in etcd sends an event, or is not heard of.
LEMMA ChangeFollows ==
    ASSUME Table, Typed, Follows, NEW n \in Node, NEW s \in States, NodeChanges(n, s)
    PROVE  Follows'
<1>1. /\ nodes'[n] = s /\ \A m \in Node : m # n => nodes'[m] = nodes[m]
      /\ UNCHANGED <<watcher, task, NameOfNodes>>
    BY DEF NodeChanges, Typed, watcherVars, tableVars
<1>2. WillBe' = WillBe
    BY <1>1 DEF WillBe, Names
<1>3. CASE watcher # "watch"
  <2>1. stream' = <<>> /\ stream = <<>> /\ heard' = heard \ {n}
      BY <1>3 DEF NodeChanges, Follows
  <2>2. heard \subseteq Node /\ Len(<<>>) = 0
      BY DEF Typed
  <2>3. \A m \in heard : m \in WillBe <=> nodes[m] = "ready"
      BY <2>1, <2>2 DEF Follows
  <2>4. \A m \in heard' : m \in WillBe' <=> nodes'[m] = "ready"
      BY <1>1, <1>2, <2>1, <2>2, <2>3
  <2>5. LastSays'
      BY <2>1, <2>2 DEF LastSays
  <2>6. QED
      BY <2>1, <2>4, <2>5 DEF Follows
<1>4. CASE watcher = "watch"
  <2>1. PICK e \in Event : e.node = n /\ e.state = s /\ stream' = Append(stream, e) /\ heard' = heard
    <3>1. [node |-> n, state |-> s] \in Event
        BY DEF Event
    <3>2. QED
        BY <1>4, <3>1 DEF NodeChanges
  <2>2. /\ Len(stream) \in Nat /\ Len(stream') = Len(stream) + 1 /\ stream'[Len(stream) + 1] = e
        /\ \A k \in 1..Len(stream) : stream'[k] = stream[k]
      BY <2>1 DEF Table
  <2>3. \A k \in 1..Len(stream) : stream[k].node \in Node
    <3>1. \A k \in 1..Len(stream) : stream[k] \in Event
        BY DEF Table
    <3>2. QED
        BY <3>1 DEF Event
  <2>4. LastSays'
    <3> SUFFICES ASSUME NEW k \in 1..(Len(stream) + 1),
                        \A l \in 1..(Len(stream) + 1) : l > k => stream'[l].node # stream'[k].node
                 PROVE  stream'[k].state = nodes'[stream'[k].node]
        BY <2>2 DEF LastSays
    <3>1. CASE k = Len(stream) + 1
        BY <1>1, <2>1, <2>2, <3>1
    <3>2. CASE k \in 1..Len(stream)
      <4>1. stream[k].node # n
          BY <2>1, <2>2, <3>2
      <4>2. \A l \in 1..Len(stream) : l > k => stream[l].node # stream[k].node
          BY <2>2, <3>2
      <4>3. stream[k].state = nodes[stream[k].node]
          BY <3>2, <4>2 DEF Follows, LastSays
      <4>4. QED
          BY <1>1, <2>2, <2>3, <3>2, <4>1, <4>3
    <3>3. QED
        BY <2>2, <3>1, <3>2
  <2>5. ASSUME NEW m \in heard', \A k \in 1..Len(stream') : stream'[k].node # m
        PROVE  m \in WillBe' <=> nodes'[m] = "ready"
    <3>1. m # n
        BY <2>1, <2>2, <2>5
    <3>2. \A k \in 1..Len(stream) : stream[k].node # m
        BY <2>2, <2>5
    <3>3. m \in heard /\ m \in Node
        BY <2>1, <2>5 DEF Typed
    <3>4. m \in WillBe <=> nodes[m] = "ready"
        BY <3>2, <3>3 DEF Follows
    <3>5. QED
        BY <1>1, <1>2, <3>1, <3>3, <3>4
  <2>6. QED
      BY <1>1, <1>4, <2>4, <2>5 DEF Follows
<1>5. QED
    BY <1>3, <1>4

\* An event that is read settles its node as etcd has it, unless another follows.
LEMMA TurnFollows ==
    ASSUME Table, Typed, Follows, WatchTurn
    PROVE  Follows'
<1>1. /\ task = Rest /\ watcher = "watch" /\ watcher' = "watch" /\ stream # <<>>
      /\ stream \in Seq(Event) /\ stream' = Tail(stream) /\ nodes' = nodes
    BY DEF WatchTurn, WatchUnchanged, Table
<1>2. /\ Len(stream) \in Nat /\ 1 \in 1..Len(stream) /\ stream[1] = Head(stream)
      /\ stream[1] \in Event /\ Len(stream') = Len(stream) - 1
      /\ \A k \in 1..Len(stream') : k + 1 \in 1..Len(stream) /\ stream'[k] = stream[k + 1]
    BY <1>1
<1>3. \A k \in 1..Len(stream) :
         k = 1 \/ (k - 1 \in 1..Len(stream') /\ stream'[k - 1] = stream[k])
    BY <1>2
<1>4. PICK n \in Node, s \in States : n = stream[1].node /\ s = stream[1].state
    BY <1>2 DEF Event
<1>5. /\ heard' = heard \cup {n}
      /\ s = "ready" => AddNode(n)
      /\ s # "ready" => RemoveNode(n)
    BY <1>2, <1>4 DEF WatchTurn, Wanted
<1>6. /\ s = "ready" => WillBe' = WillBe \cup {n}
      /\ s # "ready" => WillBe' = WillBe \ {n}
    BY <1>1, <1>5, TaskSettles
<1>7. LastSays'
  <2> SUFFICES ASSUME NEW k \in 1..Len(stream'),
                      \A l \in 1..Len(stream') : l > k => stream'[l].node # stream'[k].node
               PROVE  stream'[k].state = nodes'[stream'[k].node]
      BY DEF LastSays
  <2>1. k + 1 \in 1..Len(stream) /\ stream'[k] = stream[k + 1]
      BY <1>2
  <2>2. ASSUME NEW l \in 1..Len(stream), l > k + 1
        PROVE  stream[l].node # stream[k + 1].node
    <3>1. l - 1 \in 1..Len(stream') /\ l - 1 > k /\ stream'[l - 1] = stream[l]
        BY <1>2, <1>3, <2>2
    <3>2. QED
        BY <2>1, <3>1
  <2>3. QED
      BY <1>1, <2>1, <2>2 DEF Follows, LastSays
<1>8. ASSUME NEW m \in heard', \A k \in 1..Len(stream') : stream'[k].node # m
      PROVE  m \in WillBe' <=> nodes'[m] = "ready"
  <2>1. \A k \in 1..Len(stream) : k # 1 => stream[k].node # m
      BY <1>3, <1>8
  <2>2. CASE m = n
    <3>1. \A l \in 1..Len(stream) : l > 1 => stream[l].node # stream[1].node
        BY <1>2, <1>4, <2>1, <2>2
    <3>2. s = nodes[n]
        BY <1>2, <1>4, <3>1 DEF Follows, LastSays
    <3>3. QED
        BY <1>1, <1>6, <2>2, <3>2
  <2>3. CASE m # n
    <3>1. m \in heard /\ \A k \in 1..Len(stream) : stream[k].node # m
        BY <1>4, <1>5, <1>8, <2>1, <2>3
    <3>2. m \in WillBe <=> nodes[m] = "ready"
        BY <3>1 DEF Follows
    <3>3. QED
        BY <1>1, <1>6, <2>3, <3>2
  <2>4. QED
      BY <2>2, <2>3
<1>9. QED
    BY <1>1, <1>7, <1>8 DEF Follows

\* Follows is inductive.
LEMMA FollowsStep == Table /\ Typed /\ Follows /\ [NextStep]_vars => Follows'
<1> SUFFICES ASSUME Table, Typed, Follows, [NextStep]_vars PROVE Follows'
    OBVIOUS
<1>1. ASSUME UNCHANGED <<stream, nodes, heard, watcher, task, NameOfNodes>> PROVE Follows'
  <2>1. WillBe' = WillBe
      BY <1>1 DEF WillBe, Names
  <2>2. QED
      BY <1>1, <2>1, QuietFollows
<1>2. ASSUME NEW n \in Node, NEW s \in States, NodeChanges(n, s) PROVE Follows'
    BY <1>2, ChangeFollows
<1>3. CASE ListNodes \/ Listed \/ OpenWatch
  <2>1. UNCHANGED <<stream, nodes, heard, task, NameOfNodes>> /\ watcher # "watch"
      BY <1>3 DEF ListNodes, Listed, OpenWatch, WatchUnchanged, tableVars
  <2>2. WillBe' = WillBe
      BY <2>1 DEF WillBe, Names
  <2>3. QED
      BY <2>1, <2>2, QuietFollows
<1>4. ASSUME NEW n \in Node, AddListed(n) PROVE Follows'
  <2>1. /\ task = Rest /\ AddNode(n) /\ UNCHANGED <<stream, nodes, watcher>>
        /\ heard' = heard \ {n} /\ watcher = "add"
      BY <1>4 DEF AddListed, WatchUnchanged
  <2>2. WillBe' = WillBe \cup {n}
      BY <2>1, TaskSettles
  <2>3. LastSays'
      BY <2>1 DEF Follows, LastSays
  <2>4. \A m \in heard' : m \in heard /\ (m \in WillBe' <=> m \in WillBe)
      BY <2>1, <2>2
  <2>5. QED
      BY <2>1, <2>3, <2>4 DEF Follows
<1>5. CASE WatchTurn
    BY <1>5, TurnFollows
<1>6. CASE LoseWatch
  <2>1. /\ stream' = <<>> /\ UNCHANGED <<nodes, task, NameOfNodes>>
        /\ heard' = heard \ {stream[i].node : i \in DOMAIN stream}
      BY <1>6 DEF LoseWatch, tableVars
  <2>2. WillBe' = WillBe
      BY <2>1 DEF WillBe, Names
  <2>3. DOMAIN stream = 1..Len(stream)
      BY DEF Table
  <2>4. \A m \in heard' : m \in heard /\ \A k \in 1..Len(stream) : stream[k].node # m
      BY <2>1, <2>3
  <2>5. LastSays'
      BY <2>1 DEF LastSays
  <2>6. QED
      BY <2>1, <2>2, <2>4, <2>5 DEF Follows
<1>7. CASE AppendName \/ ShiftNames \/ ShortenNames \/ Decrement
  <2>1. UNCHANGED <<stream, nodes, heard, watcher>>
      BY <1>7 DEF AppendName, ShiftNames, ShortenNames, Decrement, TaskStep, WatchUnchanged
  <2>2. QED
      BY <1>7, <2>1, TaskCarriesOut, QuietFollows
<1>8. ASSUME NEW w \in Worker, Schedule(w) \/ TakeNumber(w) \/ ComputeIndex(w) \/ LoadName(w)
      PROVE  Follows'
    BY <1>1, <1>8 DEF Schedule, TakeNumber, ComputeIndex, LoadName, CallUnchanged, nodeVars,
       watcherVars, tableVars
<1>9. CASE UNCHANGED vars
    BY <1>1, <1>9 DEF vars, nodeVars, watcherVars, tableVars
<1>10. QED
    BY <1>2, <1>3, <1>4, <1>5, <1>6, <1>7, <1>8, <1>9 DEF NextStep

\* Once the events of a node that was heard of are read, it is in the table if and
\* only if it is Ready in etcd: in-place removal loses no other node, events of
\* one node are obeyed in order, and lost watches leave nothing half done.
THEOREM TableFollows == Spec => []TableFollowsReady
<1>1. Init => Follows
    BY DEF Init, Follows, LastSays
<1>2. Calling => Typed
    BY DEF Calling
<1>3. Table /\ Follows => TableFollowsReady
  <2> SUFFICES ASSUME Table, Follows, NEW n \in heard, task = Rest,
                      \A i \in DOMAIN stream : stream[i].node # n
               PROVE  n \in InTable <=> nodes[n] = "ready"
      BY DEF TableFollowsReady
  <2>1. DOMAIN stream = 1..Len(stream) /\ DOMAIN NameOfNodes = 1..Len(NameOfNodes)
      BY DEF Table
  <2>2. n \in WillBe <=> nodes[n] = "ready"
      BY <2>1 DEF Follows
  <2>3. WillBe = InTable
      BY <2>1 DEF WillBe, Rest, Names, InTable
  <2>4. QED
      BY <2>2, <2>3
<1>4. QED
    BY <1>1, <1>2, <1>3, InitTable, InitCalling, TableStep, CallingStep, FollowsStep, PTL DEF Spec
-----------------------------------------------------------------------------
(* The nodes in turn.                                                      *)

\* Places of a table of n names, from a up to but without b and round the end.
Between(a, b, k) ==
    IF a <= b THEN IF a <= k /\ k < b THEN 1 ELSE 0
              ELSE IF a <= k \/ k < b THEN 1 ELSE 0

\* The remainder of the next number is the next place of the table.
LEMMA Residues ==
    ASSUME NEW n \in Nat \ {0}, NEW x \in Nat
    PROVE  /\ x % n \in 0..(n - 1)
           /\ (x + 1) % n = IF (x % n) + 1 = n THEN 0 ELSE (x % n) + 1
<1> DEFINE d == x \div n
           r == x % n
<1>1. d \in Int /\ r \in 0..(n - 1) /\ x = n * d + r
    OBVIOUS
<1> HIDE DEF d, r
<1>2. CASE r + 1 = n
  <2>1. x + 1 = n * (d + 1)
      BY <1>1, <1>2
  <2>2. (n * (d + 1)) % n = 0
      BY <1>1
  <2>3. QED
      BY <1>1, <1>2, <2>1, <2>2 DEF r
<1>3. CASE r + 1 # n
  <2>1. x + 1 = n * d + (r + 1) /\ r + 1 \in 0..(n - 1)
      BY <1>1, <1>3
  <2>2. (n * d + (r + 1)) % n = r + 1
      BY <1>1, <2>1
  <2>3. QED
      BY <1>1, <1>3, <2>1, <2>2 DEF r
<1>4. QED
    BY <1>2, <1>3

\* One number more takes one place more, or all places once more.
LEMMA BetweenMoves ==
    ASSUME NEW n \in Nat \ {0}, NEW a \in 0..(n - 1), NEW b \in 0..(n - 1),
           NEW c, c = IF b + 1 = n THEN 0 ELSE b + 1
    PROVE  \A k \in 0..(n - 1) :
              Between(a, c, k) + (IF c = a THEN 1 ELSE 0)
                = Between(a, b, k) + (IF k = b THEN 1 ELSE 0)
  BY DEF Between

\* The numbers above since that calls under way have taken, at place k.
Pending == {w \in Worker : call[w].pc \in {"index", "load"}}
OnWay(k) == {w \in Pending : call[w].n > since /\ (call[w].n - 1) % NumOfNodes = k}

\* How often the node at place k was picked, or will be.
Due(k) == tally[NameOfNodes[k + 1]] + Cardinality(OnWay(k))

\* Every number since then is taken once, and an undisturbed call's index is the
\* place of its number.
Counted ==
    /\ IsFiniteSet(Pending)
    /\ calls < Half =>
         /\ since \in 0..Next
         /\ \A w \in Pending : call[w].n \in 1..Next
         /\ \A w \in alone : call[w].pc = "load" => call[w].i = (call[w].n - 1) % NumOfNodes

Turns ==
    calls < Half /\ task = Rest /\ NumOfNodes # 0 =>
        \E q \in Nat : \A k \in 0..(NumOfNodes - 1) :
            Due(k) = q + Between(since % NumOfNodes, Next % NumOfNodes, k)

\* Counting begins anew with all numbers taken so far behind it.
LEMMA TurnsAnew ==
    ASSUME Table', since' = Next', tally' = [m \in Node |-> 0],
           calls' < Half => Next' \in Nat /\ \A w \in Pending' : call'[w].n \in 1..Next'
    PROVE  Turns'
<1> SUFFICES ASSUME calls' < Half, task' = Rest, NumOfNodes' # 0
             PROVE  \A k \in 0..(NumOfNodes' - 1) :
                       Due(k)' = 0 + Between(since' % NumOfNodes', Next' % NumOfNodes', k)
    BY DEF Turns
<1> TAKE k \in 0..(NumOfNodes' - 1)
<1>1. NameOfNodes'[k + 1] \in Node
  <2>1. NameOfNodes' \in Seq(Node) /\ NumOfNodes' = Len(NameOfNodes')
      BY DEF Table, Rest
  <2>2. k + 1 \in 1..Len(NameOfNodes')
      BY <2>1
  <2>3. QED
      BY <2>1, <2>2
<1>2. OnWay(k)' = {}
    BY DEF OnWay
<1>3. Due(k)' = 0
    BY <1>1, <1>2, FS_EmptySet DEF Due
<1>4. NumOfNodes' \in Nat \ {0}
    BY DEF Table
<1>5. Next' % NumOfNodes' \in Int
    BY <1>4, Residues
<1>6. Between(since' % NumOfNodes', Next' % NumOfNodes', k) = 0
    BY <1>5 DEF Between
<1>7. QED
    BY <1>3, <1>6

\* Steps that leave the numbers under way alone.
LEMMA TurnsKept ==
    ASSUME Turns, UNCHANGED <<tally, since, Next, NameOfNodes, NumOfNodes, task, calls, Pending>>,
           \A w \in Pending : call'[w].n = call[w].n
    PROVE  Turns'
<1>1. \A k : OnWay(k)' = OnWay(k)
    BY DEF OnWay
<1>2. \A k : Due(k)' = Due(k)
    BY <1>1 DEF Due
<1>3. QED
    BY <1>2 DEF Turns

\* Steps of etcd and of WatchNode change nothing that counts, or begin anew.
LEMMA WatchTurns ==
    ASSUME Table', Calling, Counted, Turns, UNCHANGED <<Next, call, calls>>,
           \/ UNCHANGED <<since, tally, task, tableVars, alone>>
           \/ since' = Next /\ tally' = [m \in Node |-> 0] /\ alone' = {}
    PROVE  Counted' /\ Turns'
<1>1. UNCHANGED Pending
    BY DEF Pending
<1>2. calls < Half => Next \in Nat
    BY DEF Calling, Typed, Numbered
<1>3. CASE UNCHANGED <<since, tally, task, tableVars, alone>>
  <2>1. Counted'
      BY <1>1, <1>3 DEF Counted, tableVars
  <2>2. QED
      BY <1>1, <1>3, <2>1, TurnsKept DEF tableVars
<1>4. CASE since' = Next /\ tally' = [m \in Node |-> 0] /\ alone' = {}
  <2>1. Counted'
      BY <1>1, <1>2, <1>4 DEF Counted
  <2>2. QED
      BY <1>1, <1>2, <1>4, <2>1, TurnsAnew DEF Counted
<1>5. QED
    BY <1>3, <1>4

\* AddNode and RemoveNode begin anew when they begin, or do nothing.
LEMMA TaskTurns ==
    ASSUME NEW n, AddNode(n) \/ RemoveNode(n)
    PROVE  \/ UNCHANGED <<since, tally, task, tableVars, alone>>
           \/ since' = Next /\ tally' = [m \in Node |-> 0] /\ alone' = {}
  BY DEF AddNode, RemoveNode, Starts, tableVars

LEMMA WatchStepsTurn ==
    ASSUME Table, Table', Calling, Counted, Turns,
           \/ \E n \in Node, s \in States : NodeChanges(n, s)
           \/ ListNodes \/ (\E n \in Node : AddListed(n)) \/ Listed \/ OpenWatch
           \/ WatchTurn \/ LoseWatch
           \/ AppendName \/ ShiftNames \/ ShortenNames \/ Decrement
    PROVE  Counted' /\ Turns'
<1>1. ASSUME NEW n \in Node, NEW s \in States, NodeChanges(n, s) PROVE Counted' /\ Turns'
    BY <1>1, WatchTurns DEF NodeChanges, watcherVars
<1>2. CASE ListNodes \/ Listed \/ OpenWatch \/ LoseWatch
    BY <1>2, WatchTurns DEF ListNodes, Listed, OpenWatch, LoseWatch, WatchUnchanged
<1>3. ASSUME NEW n \in Node, AddListed(n) PROVE Counted' /\ Turns'
    BY <1>3, TaskTurns, WatchTurns DEF AddListed, WatchUnchanged
<1>4. CASE WatchTurn
  <2>1. AddNode(Head(stream).node) \/ RemoveNode(Head(stream).node)
      BY <1>4 DEF WatchTurn
  <2>2. UNCHANGED <<Next, call, calls>>
      BY <1>4 DEF WatchTurn, WatchUnchanged
  <2>3. QED
      BY <2>1, <2>2, TaskTurns, WatchTurns
<1>5. CASE AppendName \/ ShiftNames \/ ShortenNames \/ Decrement
    BY <1>5, WatchTurns DEF AppendName, ShiftNames, ShortenNames, Decrement, TaskStep,
       WatchUnchanged
<1>6. QED
    BY <1>1, <1>2, <1>3, <1>4, <1>5

\* A call that begins, or finds its index, has the same number or none.
LEMMA CallGoesOnTurn ==
    ASSUME Table, Calling, Counted, Turns, NEW w \in Worker, Schedule(w) \/ ComputeIndex(w)
    PROVE  Counted' /\ Turns'
<1>1. /\ call \in [Worker -> [pc : {"idle", "number", "index", "load"}, n : Int, i : Int]]
      /\ calls \in Nat /\ NumOfNodes \in Nat /\ alone \subseteq Worker
      /\ Next \in Int /\ Half \in Nat
    BY BoundsAssumption, HalfAssumption DEF Calling, Typed, Table
<1>2. UNCHANGED <<tally, since, Next, NameOfNodes, NumOfNodes, task, calls>>
    BY DEF Schedule, ComputeIndex, Crash, CallUnchanged, watcherVars, tableVars
<1>3. CASE Schedule(w)
  <2>1. /\ \A v \in Worker : v # w => call'[v] = call[v]
        /\ call[w].pc = "idle" /\ call'[w].pc = "number" /\ alone' \subseteq alone \cup {w}
      BY <1>1, <1>3 DEF Schedule, NoCall
  <2>2. UNCHANGED Pending /\ \A v \in Pending : call'[v] = call[v]
      BY <2>1 DEF Pending
  <2>3. Counted'
    <3>1. \A v \in alone' : call'[v].pc = "load" => v \in alone /\ call'[v] = call[v]
        BY <1>1, <2>1
    <3>2. QED
        BY <1>2, <2>2, <3>1 DEF Counted
  <2>4. QED
      BY <1>2, <2>2, <2>3, TurnsKept
<1>4. CASE ComputeIndex(w) /\ NumOfNodes = 0
  <2>1. UNCHANGED <<call, alone>>
      BY <1>4 DEF ComputeIndex, Crash
  <2>2. UNCHANGED Pending
      BY <2>1 DEF Pending
  <2>3. Counted'
      BY <1>2, <2>1, <2>2 DEF Counted
  <2>4. QED
      BY <1>2, <2>1, <2>2, <2>3, TurnsKept
<1>5. CASE ComputeIndex(w) /\ NumOfNodes # 0
  <2> DEFINE index == Remainder(Wrap(call[w].n - 1), NumOfNodes)
  <2>1. /\ call[w].pc = "index" /\ call' = [call EXCEPT ![w].pc = "load", ![w].i = index]
        /\ alone' = alone
      BY <1>5 DEF ComputeIndex
  <2>2. /\ \A v \in Worker : v # w => call'[v] = call[v]
        /\ call'[w].pc = "load" /\ call'[w].i = index /\ call'[w].n = call[w].n
      BY <1>1, <2>1
  <2>3. UNCHANGED Pending /\ \A v \in Pending : call'[v].n = call[v].n
      BY <2>1, <2>2 DEF Pending
  <2>4. calls < Half => index = (call[w].n - 1) % NumOfNodes
    <3> HAVE calls < Half
    <3>1. call[w].n \in 1..Next /\ Next = calls
        BY <2>1 DEF Counted, Pending, Calling, Numbered
    <3>2. call[w].n - 1 \in 0..(Half - 1)
        BY <1>1, <3>1
    <3>3. Wrap(call[w].n - 1) = call[w].n - 1
        BY <1>1, <3>2, Wraps
    <3>4. QED
        BY <3>2, <3>3 DEF Remainder
  <2> HIDE DEF index
  <2>5. Counted'
    <3>1. \A v \in alone : call'[v].pc = "load" /\ v # w => call[v].pc = "load" /\ call'[v] = call[v]
        BY <1>1, <2>2
    <3>2. QED
        BY <1>2, <2>1, <2>2, <2>3, <2>4, <3>1 DEF Counted
  <2>6. QED
      BY <1>2, <2>3, <2>5, TurnsKept
<1>6. QED
    BY <1>3, <1>4, <1>5

\* A number taken is the next place's turn.
LEMMA NumberTurn ==
    ASSUME Table, Table', Calling, Counted, Turns, NEW w \in Worker, TakeNumber(w)
    PROVE  Counted' /\ Turns'
<1>1. /\ call \in [Worker -> [pc : {"idle", "number", "index", "load"}, n : Int, i : Int]]
      /\ calls \in Nat /\ NumOfNodes \in Nat /\ alone \subseteq Worker
      /\ Next \in Int /\ Half \in Nat /\ tally \in [Node -> Nat]
    BY BoundsAssumption, HalfAssumption DEF Calling, Typed, Table
<1>2. /\ call[w].pc = "number" /\ Next' = Wrap(Next + 1) /\ calls' = calls + 1
      /\ call' = [call EXCEPT ![w] = [pc |-> "index", n |-> Next', i |-> 0]]
      /\ UNCHANGED <<alone, since, tally, task, NameOfNodes, NumOfNodes>>
    BY DEF TakeNumber, CallUnchanged, watcherVars, tableVars
<1>3. /\ \A v \in Worker : v # w => call'[v] = call[v]
      /\ call'[w].pc = "index" /\ call'[w].n = Next'
    BY <1>1, <1>2
<1>4. w \notin Pending /\ Pending' = Pending \cup {w} /\ \A v \in Pending : call'[v] = call[v]
    BY <1>2, <1>3 DEF Pending
<1>5. ASSUME calls' < Half
      PROVE  /\ calls < Half /\ Next' = Next + 1 /\ Next \in Nat /\ since \in 0..Next
             /\ \A v \in Pending : call[v].n \in 1..Next
  <2>1. calls < Half /\ Next = calls
      BY <1>1, <1>2, <1>5 DEF Calling, Numbered
  <2>2. Wrap(Next + 1) = Next + 1
      BY <1>1, <1>2, <1>5, <2>1, Wraps
  <2>3. QED
      BY <1>1, <1>2, <2>1, <2>2 DEF Counted
<1>6. Counted'
  <2>1. IsFiniteSet(Pending')
      BY <1>4, FS_AddElement DEF Counted
  <2>2. calls' < Half => since' \in 0..Next' /\ \A v \in Pending' : call'[v].n \in 1..Next'
      BY <1>2, <1>3, <1>4, <1>5
  <2>3. \A v \in alone : call'[v].pc = "load" => call[v].pc = "load" /\ call'[v] = call[v]
      BY <1>1, <1>3
  <2>4. QED
      BY <1>2, <1>5, <2>1, <2>2, <2>3 DEF Counted
<1>7. Turns'
  <2> SUFFICES ASSUME calls' < Half, task' = Rest, NumOfNodes' # 0
               PROVE  \E q \in Nat : \A k \in 0..(NumOfNodes' - 1) :
                         Due(k)' = q + Between(since' % NumOfNodes', Next' % NumOfNodes', k)
      BY DEF Turns
  <2> DEFINE a == since % NumOfNodes
             b == Next % NumOfNodes
             c == (Next + 1) % NumOfNodes
  <2>1. PICK q \in Nat : \A k \in 0..(NumOfNodes - 1) : Due(k) = q + Between(a, b, k)
      BY <1>2, <1>5 DEF Turns
  <2>2. /\ NumOfNodes \in Nat \ {0} /\ a \in 0..(NumOfNodes - 1) /\ b \in 0..(NumOfNodes - 1)
        /\ c = IF b + 1 = NumOfNodes THEN 0 ELSE b + 1
    <3>1. NumOfNodes \in Nat \ {0} /\ since \in Nat /\ Next \in Nat
        BY <1>1, <1>2, <1>5
    <3>2. QED
        BY <3>1, Residues
  <2>3. ASSUME NEW k \in 0..(NumOfNodes - 1)
        PROVE  Due(k)' = Due(k) + (IF k = b THEN 1 ELSE 0)
    <3>1. OnWay(k)' = IF k = b THEN OnWay(k) \cup {w} ELSE OnWay(k)
      <4>1. \A v \in Pending' : v # w => call'[v].n = call[v].n /\ v \in Pending
          BY <1>4
      <4>2. call'[w].n > since /\ (call'[w].n - 1) % NumOfNodes = b
          BY <1>3, <1>5
      <4>3. QED
          BY <1>2, <1>4, <4>1, <4>2 DEF OnWay
    <3>2. IsFiniteSet(OnWay(k)) /\ w \notin OnWay(k)
        BY <1>4, FS_Subset DEF OnWay, Counted
    <3>3. Cardinality(OnWay(k)) \in Nat
        BY <3>2, FS_CardinalityType
    <3>4. Cardinality(OnWay(k) \cup {w}) = Cardinality(OnWay(k)) + 1
        BY <3>2, FS_AddElement
    <3>5. tally[NameOfNodes[k + 1]] \in Nat
      <4>1. NameOfNodes \in Seq(Node) /\ k + 1 \in 1..Len(NameOfNodes)
          BY <1>2, <2>2 DEF Table, Rest
      <4>2. QED
          BY <1>1, <4>1
    <3>6. QED
        BY <1>2, <3>1, <3>3, <3>4, <3>5 DEF Due
  <2> HIDE DEF a, b, c
  <2>4. \A k \in 0..(NumOfNodes - 1) :
            Between(a, c, k) + (IF c = a THEN 1 ELSE 0)
              = Between(a, b, k) + (IF k = b THEN 1 ELSE 0)
      BY <2>2, BetweenMoves
  <2>5. \A k \in 0..(NumOfNodes - 1) : Between(a, c, k) \in Nat /\ Between(a, b, k) \in Nat
      BY DEF Between
  <2> DEFINE q1 == IF c = a THEN q + 1 ELSE q
  <2>6. q1 \in Nat
      BY <2>1
  <2>7. \A k \in 0..(NumOfNodes - 1) : Due(k)' = q1 + Between(a, c, k)
      BY <2>1, <2>3, <2>4, <2>5
  <2>8. since' % NumOfNodes' = a /\ Next' % NumOfNodes' = c
      BY <1>2, <1>5 DEF a, c
  <2> HIDE DEF q1
  <2>9. \A k \in 0..(NumOfNodes' - 1) :
            Due(k)' = q1 + Between(since' % NumOfNodes', Next' % NumOfNodes', k)
      BY <1>2, <2>7, <2>8
  <2>10. QED
      BY <2>6, <2>9, Zenon
<1>8. QED
    BY <1>6, <1>7

\* A pick turns a number on its way into one that is counted, or begins anew.
LEMMA LoadTurn ==
    ASSUME Table, Table', Calling, Counted, Turns, NEW w \in Worker, LoadName(w)
    PROVE  Counted' /\ Turns'
<1>1. /\ call \in [Worker -> [pc : {"idle", "number", "index", "load"}, n : Int, i : Int]]
      /\ calls \in Nat /\ NumOfNodes \in Nat /\ alone \subseteq Worker
      /\ Next \in Int /\ Half \in Nat /\ tally \in [Node -> Nat] /\ since \in Int
    BY BoundsAssumption, HalfAssumption DEF Calling, Typed, Table
<1>2. /\ call[w].pc = "load" /\ w \in Pending
      /\ UNCHANGED <<Next, calls, task, NameOfNodes, NumOfNodes>>
    BY DEF LoadName, CallUnchanged, watcherVars, tableVars, Pending
<1>3. CASE UNCHANGED <<call, alone, since, tally>>
  <2>1. UNCHANGED Pending
      BY <1>3 DEF Pending
  <2>2. Counted'
      BY <1>2, <1>3, <2>1 DEF Counted
  <2>3. QED
      BY <1>2, <1>3, <2>1, <2>2, TurnsKept
<1>4. CASE /\ call[w].i \in 0..(Len(NameOfNodes) - 1) /\ call' = [call EXCEPT ![w] = NoCall]
           /\ Count(w) /\ alone' = alone \ {w}
  <2>1. /\ \A v \in Worker : v # w => call'[v] = call[v]
        /\ call'[w].pc = "idle"
      BY <1>1, <1>4 DEF NoCall
  <2>2. Pending' = Pending \ {w} /\ \A v \in Pending' : call'[v] = call[v]
      BY <1>2, <2>1 DEF Pending
  <2>3. since' = since \/ since' = Next
      BY <1>4 DEF Count
  <2>4. Counted'
    <3>1. IsFiniteSet(Pending')
        BY <2>2, FS_RemoveElement DEF Counted
    <3>2. calls < Half => Next \in Nat /\ since' \in 0..Next
        BY <1>1, <2>3 DEF Counted
    <3>3. \A v \in alone' : v \in alone /\ call'[v] = call[v]
        BY <1>1, <1>4, <2>1
    <3>4. QED
        BY <1>2, <2>2, <3>1, <3>2, <3>3 DEF Counted
  <2>5. CASE w \notin alone
    <3>1. since' = Next /\ tally' = [n \in Node |-> 0]
        BY <1>4, <2>5 DEF Count
    <3>2. calls < Half => Next \in Nat /\ \A v \in Pending' : call'[v].n \in 1..Next
      <4>1. calls < Half => \A v \in Pending : call[v].n \in 1..Next
          BY DEF Counted
      <4>2. calls < Half => Next \in Nat
          BY <1>1, <1>2, <4>1
      <4>3. QED
          BY <2>2, <4>1, <4>2
    <3>3. QED
        BY <1>2, <2>4, <3>1, <3>2, TurnsAnew
  <2>6. CASE w \in alone /\ call[w].n <= since
    <3>1. UNCHANGED <<since, tally>>
        BY <1>1, <1>4, <2>6 DEF Count
    <3>2. \A k : OnWay(k)' = OnWay(k)
        BY <1>1, <1>2, <2>2, <2>6, <3>1 DEF OnWay
    <3>3. \A k : Due(k)' = Due(k)
        BY <1>2, <3>1, <3>2 DEF Due
    <3>4. QED
        BY <1>2, <2>4, <3>1, <3>3 DEF Turns
  <2>7. CASE w \in alone /\ call[w].n > since
    <3> DEFINE i == call[w].i
    <3>1. since' = since /\ tally' = [tally EXCEPT ![Picked(w)] = @ + 1]
        BY <1>1, <1>4, <2>7 DEF Count
    <3> SUFFICES ASSUME calls < Half, task = Rest, NumOfNodes # 0
                 PROVE  \A k \in 0..(NumOfNodes - 1) : Due(k)' = Due(k)
        BY <1>2, <2>4, <3>1 DEF Turns
    <3>2. /\ NameOfNodes \in Seq(Node) /\ NumOfNodes = Len(NameOfNodes)
          /\ \A j, k \in 1..Len(NameOfNodes) : NameOfNodes[j] = NameOfNodes[k] => j = k
      <4>1. NameOfNodes \in Seq(Node) /\ NumOfNodes = Len(NameOfNodes) /\ Distinct(NameOfNodes)
          BY DEF Table, Rest
      <4>2. DOMAIN NameOfNodes = 1..Len(NameOfNodes)
          BY <4>1
      <4>3. QED
          BY <4>1, <4>2 DEF Distinct
    <3>3. i = (call[w].n - 1) % NumOfNodes /\ i \in 0..(NumOfNodes - 1)
        BY <1>2, <1>4, <2>7, <3>2 DEF Counted
    <3>4. Picked(w) = NameOfNodes[i + 1] /\ Picked(w) \in Node
        BY <3>2, <3>3 DEF Picked
    <3> HIDE DEF i
    <3> TAKE k \in 0..(NumOfNodes - 1)
    <3>5. NameOfNodes[k + 1] \in Node /\ (NameOfNodes[k + 1] = NameOfNodes[i + 1] => k = i)
      <4>1. k + 1 \in 1..Len(NameOfNodes) /\ i + 1 \in 1..Len(NameOfNodes)
          BY <3>2, <3>3
      <4>2. NameOfNodes[k + 1] = NameOfNodes[i + 1] => k + 1 = i + 1
          BY <3>2, <4>1
      <4>3. QED
          BY <3>2, <3>3, <4>1, <4>2
    <3>6. OnWay(k)' = IF k = i THEN OnWay(k) \ {w} ELSE OnWay(k)
        BY <1>2, <2>2, <2>7, <3>1, <3>3 DEF OnWay
    <3>7. IsFiniteSet(OnWay(k)) /\ (k = i => w \in OnWay(k))
        BY <1>2, <2>7, <3>3, FS_Subset DEF OnWay, Counted
    <3>8. Cardinality(OnWay(k)) \in Nat
        BY <3>7, FS_CardinalityType
    <3>9. k = i => Cardinality(OnWay(k) \ {w}) = Cardinality(OnWay(k)) - 1
        BY <3>7, FS_RemoveElement
    <3>10. tally'[NameOfNodes[k + 1]] = tally[NameOfNodes[k + 1]] + (IF k = i THEN 1 ELSE 0)
        BY <1>1, <3>1, <3>4, <3>5
    <3>11. tally[NameOfNodes[k + 1]] \in Nat
        BY <1>1, <3>5
    <3>12. QED
        BY <1>2, <3>6, <3>8, <3>9, <3>10, <3>11 DEF Due
  <2>8. QED
      BY <1>1, <1>2, <2>5, <2>6, <2>7 DEF Pending
<1>5. QED
    BY <1>3, <1>4 DEF LoadName, Crash

LEMMA TurnsStep == Table /\ Table' /\ Calling /\ Counted /\ Turns /\ [NextStep]_vars => Counted' /\ Turns'
<1> SUFFICES ASSUME Table, Table', Calling, Counted, Turns, [NextStep]_vars PROVE Counted' /\ Turns'
    OBVIOUS
<1>1. CASE UNCHANGED vars
    BY <1>1, WatchTurns DEF vars, nodeVars, watcherVars, tableVars
<1>2. QED
    BY <1>1, WatchStepsTurn, CallGoesOnTurn, NumberTurn, LoadTurn DEF NextStep

\* Until Next wraps, undisturbed calls pick every node of the table equally often but
\* for one, and for as many as there are calls under way: no two calls take one number,
\* and none is passed over.
THEOREM NodesInTurn == Spec => []UsesNodesInTurn
<1>1. Init => Counted /\ Turns
  <2> SUFFICES ASSUME Init PROVE Counted /\ Turns
      OBVIOUS
  <2>1. Pending = {} /\ alone = {} /\ since = 0 /\ Next = 0 /\ tally = [n \in Node |-> 0]
      BY DEF Init, Pending, NoCall
  <2>2. Counted
      BY <2>1, FS_EmptySet DEF Counted
  <2>3. ASSUME NumOfNodes # 0, NEW k \in 0..(NumOfNodes - 1)
        PROVE  Due(k) = 0 + Between(since % NumOfNodes, Next % NumOfNodes, k)
    <3>1. NameOfNodes[k + 1] \in Node
      <4>1. NameOfNodes \in Seq(Node) /\ NumOfNodes = Len(NameOfNodes)
          BY InitTable DEF Init, Table
      <4>2. k + 1 \in 1..Len(NameOfNodes)
          BY <4>1
      <4>3. QED
          BY <4>1, <4>2
    <3>2. OnWay(k) = {}
        BY <2>1 DEF OnWay
    <3>3. Due(k) = 0
        BY <2>1, <3>1, <3>2, FS_EmptySet DEF Due
    <3>4. NumOfNodes \in Nat \ {0}
        BY <2>3, InitTable DEF Table
    <3>5. 0 % NumOfNodes \in Int
        BY <3>4, Residues
    <3>6. QED
        BY <2>1, <3>3, <3>5 DEF Between
  <2>4. Turns
      BY <2>3 DEF Turns
  <2>5. QED
      BY <2>2, <2>4
<1>2. Table /\ Calling /\ Counted /\ Turns => UsesNodesInTurn
  <2> SUFFICES ASSUME Table, Calling, Counted, Turns, calls < Half, task = Rest,
                      NEW m \in InTable, NEW n \in InTable
               PROVE  tally[m] - tally[n] <= 1 + Cardinality(Pending)
      BY DEF UsesNodesInTurn, Pending
  <2>1. /\ NameOfNodes \in Seq(Node) /\ NumOfNodes = Len(NameOfNodes) /\ NumOfNodes \in Nat
        /\ tally \in [Node -> Nat]
      BY DEF Table, Rest, Calling, Typed
  <2>2. PICK k \in 0..(NumOfNodes - 1) : NameOfNodes[k + 1] = m
    <3>1. PICK j \in 1..Len(NameOfNodes) : NameOfNodes[j] = m
        BY <2>1 DEF InTable
    <3>2. j - 1 \in 0..(NumOfNodes - 1) /\ (j - 1) + 1 = j
        BY <2>1
    <3>3. QED
        BY <3>1, <3>2
  <2>3. PICK l \in 0..(NumOfNodes - 1) : NameOfNodes[l + 1] = n
    <3>1. PICK j \in 1..Len(NameOfNodes) : NameOfNodes[j] = n
        BY <2>1 DEF InTable
    <3>2. j - 1 \in 0..(NumOfNodes - 1) /\ (j - 1) + 1 = j
        BY <2>1
    <3>3. QED
        BY <3>1, <3>2
  <2>4. PICK q \in Nat : \A j \in 0..(NumOfNodes - 1) :
            Due(j) = q + Between(since % NumOfNodes, Next % NumOfNodes, j)
    <3>1. NumOfNodes # 0
        BY <2>1, <2>2
    <3>2. \E r \in Nat : \A j \in 0..(NumOfNodes - 1) :
             Due(j) = r + Between(since % NumOfNodes, Next % NumOfNodes, j)
        BY <3>1, Zenon DEF Turns
    <3>3. QED
        BY <3>2, Zenon
  <2>5. \A a, b, j : Between(a, b, j) \in {0, 1}
      BY DEF Between
  <2>6. Due(k) <= q + 1 /\ Due(l) >= q /\ Due(k) \in Nat /\ Due(l) \in Nat
      BY <2>4, <2>5
  <2>7. \A j : /\ Cardinality(OnWay(j)) \in Nat
               /\ Cardinality(OnWay(j)) <= Cardinality(Pending)
    <3> TAKE j
    <3>1. IsFiniteSet(Pending) /\ OnWay(j) \subseteq Pending
        BY DEF Counted, OnWay
    <3>2. QED
        BY <3>1, FS_Subset, FS_CardinalityType
  <2>8. tally[m] \in Nat /\ tally[n] \in Nat /\ Cardinality(Pending) \in Nat
      BY <2>1, FS_CardinalityType DEF InTable, Counted
  <2>9. Due(k) = tally[m] + Cardinality(OnWay(k)) /\ Due(l) = tally[n] + Cardinality(OnWay(l))
      BY <2>2, <2>3 DEF Due
  <2>10. QED
      BY <2>6, <2>7, <2>8, <2>9
<1>3. QED
    BY <1>1, <1>2, InitTable, InitCalling, TableStep, CallingStep, TurnsStep, PTL DEF Spec
=============================================================================
