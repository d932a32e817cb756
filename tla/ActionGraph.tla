---------------------------- MODULE ActionGraph ----------------------------
(***************************************************************************)
(* The call graph of actions in the API server: the handlers of POST and   *)
(* PUT read all actions, refuse one that would close a cycle, and write it *)
(* later, without a lock.  Of an action only its name and the names it     *)
(* invokes count here, of a request only the write it is about to do.      *)
(***************************************************************************)
EXTENDS Naturals, FiniteSets

CONSTANTS Name, Uid, Request, NoAction, NoWrite

Action == [name : Name, invokes : SUBSET Name]
Write == [uid : Uid, action : Action]

ASSUME ActionGraphAssumption ==
    IsFiniteSet(Name) /\ NoAction \notin Action /\ NoWrite \notin Write

VARIABLES
    actions,     \* etcd
    checked,     \* of each request: the write that it has checked and not done
    overlapped,  \* history: a write came between another's check and its write
    renamed      \* history: a PUT gave an action the name of another

actionGraphVars == <<actions, checked, overlapped, renamed>>

Stored == {u \in Uid : actions[u] # NoAction}
Named(n) == {u \in Stored : actions[u].name = n}

\* Well typed, and no name is two actions', except for the causes recorded.
ActionGraphTypeOK ==
    /\ actions \in [Uid -> Action \cup {NoAction}]
    /\ checked \in [Request -> Write \cup {NoWrite}]
    /\ overlapped \in BOOLEAN /\ renamed \in BOOLEAN
    /\ \/ overlapped \/ renamed
       \/ \A u, v \in Stored : actions[u].name = actions[v].name => u = v

-----------------------------------------------------------------------------
\* What the handlers put into the map "nodes" of the actions in others: of two
\* with one name, one.
Nodes(others) ==
    {f \in [{actions[v].name : v \in others} -> SUBSET Name] :
        \A n \in DOMAIN f : \E v \in others : actions[v].name = n /\ actions[v].invokes = f[n]}

With(nodes, a) ==
    [n \in DOMAIN nodes \cup {a.name} |-> IF n = a.name THEN a.invokes ELSE nodes[n]]

\* CheckLoop takes out nodes that no remaining node leads to, while there is one.
\* It ends with a node left if and only if some nodes are all led to by others
\* of them.
CheckLoop(nodes) ==
    \E S \in (SUBSET Name) \ {{}} :
       \A n \in S : \E m \in S \cap DOMAIN nodes : n \in nodes[m]

\* Request r has read the others; it goes on to write a as u.
Checks(r, u, a, others) ==
    /\ checked[r] = NoWrite
    /\ \E nodes \in Nodes(others) : ~CheckLoop(With(nodes, a))
    /\ checked' = [checked EXCEPT ![r] = [uid |-> u, action |-> a]]
    /\ UNCHANGED <<actions, overlapped>>

NewUid == Uid \ (Stored \cup {checked[r].uid : r \in {r \in Request : checked[r] # NoWrite}})

\* Mutant of PostAction: the UID of the action with the name is not taken over.
PostActionAnew(r) ==
    \E a \in Action :
       /\ \E u \in NewUid : Checks(r, u, a, Stored \ Named(a.name))
       /\ UNCHANGED renamed

\* Mutant of PostAction: the graph is checked without the new action.
PostActionUnread(r) ==
    \E a \in Action :
       /\ checked[r] = NoWrite
       /\ \E nodes \in Nodes(Stored \ Named(a.name)) : ~CheckLoop(nodes)
       /\ \E u \in IF Named(a.name) = {} THEN NewUid ELSE Named(a.name) :
             checked' = [checked EXCEPT ![r] = [uid |-> u, action |-> a]]
       /\ UNCHANGED <<actions, overlapped, renamed>>

\* A POST of a name that is stored replaces its action.
PostAction(r) ==
    \E a \in Action :
       /\ \E u \in IF Named(a.name) = {} THEN NewUid ELSE Named(a.name) :
             Checks(r, u, a, Stored \ Named(a.name))
       /\ UNCHANGED renamed

PutAction(r) ==
    \E u \in Stored, a \in Action :
       /\ Checks(r, u, a, Stored \ {u})
       /\ renamed' = (renamed \/ Named(a.name) \ {u} # {})

WriteAction(r) ==
    /\ checked[r] # NoWrite
    /\ actions' = [actions EXCEPT ![checked[r].uid] = checked[r].action]
    /\ checked' = [checked EXCEPT ![r] = NoWrite]
    /\ overlapped' = (overlapped \/ \E q \in Request \ {r} : checked[q] # NoWrite)
    /\ UNCHANGED renamed

\* PutObj fails or the API server ends.
LoseRequest(r) ==
    /\ checked[r] # NoWrite
    /\ checked' = [checked EXCEPT ![r] = NoWrite]
    /\ UNCHANGED <<actions, overlapped, renamed>>

DelAction(u) ==
    /\ u \in Stored
    /\ actions' = [actions EXCEPT ![u] = NoAction]
    /\ UNCHANGED <<checked, overlapped, renamed>>

ActionGraphInit ==
    /\ actions = [u \in Uid |-> NoAction] /\ checked = [r \in Request |-> NoWrite]
    /\ overlapped = FALSE /\ renamed = FALSE

ActionGraphNext ==
    \/ \E r \in Request : PostAction(r) \/ PutAction(r) \/ WriteAction(r) \/ LoseRequest(r)
    \/ \E u \in Uid : DelAction(u)

ActionGraphSpec == ActionGraphInit /\ [][ActionGraphNext]_actionGraphVars

-----------------------------------------------------------------------------
Invokes(m, n) == \E u \in Named(m) : n \in actions[u].invokes

\* An action never comes to invoke itself, directly or through others, unless two
\* writes overlapped or a PUT gave an action another's name.
NoCycle ==
    overlapped \/ renamed
    \/ ~\E k \in 1..Cardinality(Name) : \E path \in [0..k -> Name] :
          path[0] = path[k] /\ \A i \in 1..k : Invokes(path[i - 1], path[i])
=============================================================================
