------------------------- MODULE ReplicaSets_proofs -------------------------
(***************************************************************************)
(* The types of the controller manager's ReplicaSet part, why a cached     *)
(* ReplicaSet has no Status and why the cache counts a pod that is gone,   *)
(* for any pods, replica counts and bounds.                                *)
(***************************************************************************)
EXTENDS ReplicaSets, FiniteSetTheorems, SequenceTheorems, TLAPS

-----------------------------------------------------------------------------
(* Operators *)

\* A set of natural numbers that has a member has a least one.
LEMMA LeastNat ==
    ASSUME NEW S \in SUBSET Nat, S # {}
    PROVE  \E x \in S : \A y \in S : x <= y
<1>1. PICK x \in S : \A y \in S : <<y, x>> \notin OpToRel(<, Nat)
  BY NatLessThanWellFounded, WFMin, Zenon
<1>2. \A y \in S : ~(y < x)
  BY <1>1 DEF OpToRel
<1>3. QED
  BY <1>2

\* What holds of 0 and of the successor of each number it holds of, up to m, holds
\* up to m: a set of numbers stands for the property.
LEMMA UpTo ==
    ASSUME NEW m \in Nat, NEW T, 0 \in T,
           \A n \in Nat : n < m /\ n \in T => n + 1 \in T
    PROVE  \A n \in 0..m : n \in T
<1> SUFFICES ASSUME {n \in 0..m : n \notin T} # {} PROVE FALSE
  OBVIOUS
<1>1. {n \in 0..m : n \notin T} \in SUBSET Nat
  OBVIOUS
<1>2. PICK x \in {n \in 0..m : n \notin T} : \A y \in {n \in 0..m : n \notin T} : x <= y
  BY <1>1, LeastNat, Zenon
<1>3. x # 0 /\ x \in Nat /\ x <= m
  OBVIOUS
<1>4. x - 1 \in 0..m /\ x - 1 < x
  BY <1>3
<1>5. x - 1 \in T
  BY <1>2, <1>4
<1>6. QED
  BY <1>3, <1>4, <1>5

\* RemoveFirst returns a part of the sequence.
LEMMA RemoveFirstTyped ==
    ASSUME NEW S, NEW s \in Seq(S), NEW e
    PROVE  RemoveFirst(s, e) \in Seq(S)
<1> DEFINE I == {i \in 1..Len(s) : s[i] = e}
<1>1. CASE \E i \in 1..Len(s) : s[i] = e
  <2>1. I # {} /\ I \subseteq Nat
    BY <1>1
  <2>2. Min(I) \in I
    BY <2>1, LeastNat DEF Min
  <2>3. PICK k \in 1..Len(s) : k = Min(I)
    BY <2>2
  <2>4. RemoveFirst(s, e) = SubSeq(s, 1, k - 1) \o SubSeq(s, k + 1, Len(s))
    BY <1>1, <2>1, <2>3, Zenon DEF RemoveFirst, RemoveAt, SelectInSeq
  <2>5. SubSeq(s, 1, k - 1) \in Seq(S) /\ SubSeq(s, k + 1, Len(s)) \in Seq(S)
    <3>1. k - 1 \in Int /\ k + 1 \in Int /\ 1 \in Int /\ Len(s) \in Int
      BY <2>3
    <3>2. \A i \in 1..(k - 1) : s[i] \in S
      BY <2>3
    <3>3. \A i \in (k + 1)..Len(s) : s[i] \in S
      BY <2>3
    <3>4. QED
      BY <3>1, <3>2, <3>3, SubSeqProperties
  <2>6. QED
    BY <2>4, <2>5
<1>2. CASE ~ \E i \in 1..Len(s) : s[i] = e
  BY <1>2 DEF RemoveFirst
<1>3. QED
  BY <1>1, <1>2

\* The orders of a finite set are sequences of its members.
LEMMA OrdersTyped ==
    ASSUME NEW S \in SUBSET Pod, NEW s \in SetToSeqs(S)
    PROVE  s \in Seq(Pod)
<1>1. IsFiniteSet(S)
  BY PodAssumption, FS_Subset
<1>2. Cardinality(S) \in Nat
  BY <1>1, FS_CardinalityType
<1>3. s \in [1..Cardinality(S) -> S]
  BY DEF SetToSeqs
<1>4. QED
  BY <1>2, <1>3

\* RemoveDuplication, seen as a function f of the length of what it has read: f
\* follows the loop up to k.
KeptOf(s, f, n) ==
    IF n = 0 THEN <<>>
    ELSE IF s[n] \in ToSet(f[n - 1]) THEN f[n - 1]
    ELSE Append(f[n - 1], s[n])

LoopTo(s, S, k) ==
    {f \in [0..Len(s) -> Seq(S)] : \A n \in 0..k : f[n] = KeptOf(s, f, n)}

LEMMA LoopGoesOn ==
    ASSUME NEW S, NEW s \in Seq(S), NEW k \in Nat, k < Len(s), LoopTo(s, S, k) # {}
    PROVE  LoopTo(s, S, k + 1) # {}
<1>1. PICK f \in [0..Len(s) -> Seq(S)] : \A n \in 0..k : f[n] = KeptOf(s, f, n)
  BY DEF LoopTo
<1>2. k \in 0..Len(s) /\ k + 1 \in 0..Len(s) /\ k + 1 \in 1..Len(s) /\ (k + 1) - 1 = k
  OBVIOUS
<1>3. s[k + 1] \in S /\ f[k] \in Seq(S)
  BY <1>2
<1>4. KeptOf(s, f, k + 1) \in Seq(S)
  BY <1>2, <1>3 DEF KeptOf
<1> DEFINE g == [f EXCEPT ![k + 1] = KeptOf(s, f, k + 1)]
<1>5. g \in [0..Len(s) -> Seq(S)]
  BY <1>4
<1>6. g[k + 1] = KeptOf(s, f, k + 1) /\ \A i \in 0..k : g[i] = f[i]
  BY <1>2
<1> HIDE DEF g
<1>7. ASSUME NEW n \in 0..(k + 1) PROVE g[n] = KeptOf(s, g, n)
  <2>1. n # 0 => n - 1 \in 0..k
    OBVIOUS
  <2>2. KeptOf(s, g, n) = KeptOf(s, f, n)
    BY <1>6, <2>1 DEF KeptOf
  <2>3. n = k + 1 \/ n \in 0..k
    OBVIOUS
  <2>4. QED
    BY <1>1, <1>6, <2>2, <2>3
<1>8. QED
  BY <1>5, <1>7 DEF LoopTo

\* RemoveDuplication returns a sequence of what the given one holds.
LEMMA DistinctTyped ==
    ASSUME NEW S, NEW s \in Seq(S)
    PROVE  Distinct(s) \in Seq(S)
<1> DEFINE L == Len(s)
           T == {k \in Nat : LoopTo(s, S, k) # {}}
           IsKept(f) == f = [n \in 0..L |-> KeptOf(s, f, n)]
           kept == CHOOSE f : IsKept(f)
<1>1. L \in Nat
  OBVIOUS
<1>2. 0 \in T
  <2>1. [n \in 0..L |-> <<>>] \in LoopTo(s, S, 0)
    BY <1>1 DEF LoopTo, KeptOf
  <2>2. QED
    BY <2>1
<1>3. \A n \in Nat : n < L /\ n \in T => n + 1 \in T
  BY LoopGoesOn
<1>4. L \in T
  <2> HIDE DEF T, L
  <2>1. \A n \in 0..L : n \in T
    BY <1>1, <1>2, <1>3, UpTo
  <2>2. QED
    BY <1>1, <2>1
<1>5. PICK f \in [0..L -> Seq(S)] : \A n \in 0..L : f[n] = KeptOf(s, f, n)
  BY <1>4 DEF LoopTo
<1>6. IsKept(f)
  BY <1>5
<1>7. IsKept(kept)
  <2> HIDE DEF IsKept
  <2>1. QED
    BY <1>6, Zenon
<1>8. Distinct(s) = kept[L]
  BY Zenon DEF Distinct, KeptOf
<1>9. \A n \in 0..L : kept[n] = KeptOf(s, kept, n)
  <2> HIDE DEF kept
  <2>1. QED
    BY <1>7
<1> HIDE DEF kept
<1> DEFINE U == {k \in Nat : k <= L => kept[k] \in Seq(S)}
<1>10. 0 \in U
  BY <1>1, <1>9 DEF KeptOf
<1>11. ASSUME NEW k \in Nat, k < L, k \in U
       PROVE  k + 1 \in U
  <2>1. k + 1 \in 0..L /\ k + 1 \in 1..Len(s) /\ (k + 1) - 1 = k /\ k + 1 # 0
    BY <1>11
  <2>2. kept[k + 1] = KeptOf(s, kept, k + 1)
    BY <1>9, <2>1
  <2>3. kept[k] \in Seq(S) /\ s[k + 1] \in S
    BY <1>11, <2>1
  <2>4. KeptOf(s, kept, k + 1) \in Seq(S)
    BY <2>1, <2>3 DEF KeptOf
  <2>5. QED
    BY <2>2, <2>4
<1>12. L \in U
  <2> HIDE DEF U, L
  <2>1. \A n \in 0..L : n \in U
    BY <1>1, <1>10, <1>11, UpTo
  <2>2. QED
    BY <1>1, <2>1
<1>13. QED
  BY <1>1, <1>8, <1>12

-----------------------------------------------------------------------------
(* Types *)

\* What the types rest on.  An event is on its way only while the informer watches;
\* who shares the Status of the cache finds a ReplicaSet there.
Shares ==
    /\ setInf # "watch" => setOut = NoEvent
    /\ setOut # NoEvent /\ setOut.shared => setCache # NoSet
    /\ \A i \in 1..Len(setChan) : setChan[i].shared => setCache # NoSet

\* A job's object has a Status, and so has the cache's if they share it.
Working == job # NoJob =>
    /\ job.obj.status # NoStatus
    /\ job.shared => setCache # NoSet /\ setCache.status # NoStatus

Typed == TypeOK /\ Shares /\ Working

\* A step that takes from the budget of incidents stays within it.
LEMMA IncidentTyped ==
    ASSUME incidents \in 0..MaxIncidents, rescales \in 0..MaxRescales,
           user \in {"none", "created", "deleted"}, Incident
    PROVE  /\ incidents' \in 0..MaxIncidents /\ rescales' \in 0..MaxRescales
           /\ user' \in {"none", "created", "deleted"}
  BY BoundAssumption DEF Incident

\* Parts of a Status, and a Status with another part.
LEMMA StatusWith ==
    ASSUME NEW s \in Status
    PROVE  /\ s.toRun \in Seq(Pod) /\ s.toKill \in Seq(Pod) /\ s.running \in Seq(Pod)
           /\ s # NoStatus
           /\ \A x \in Seq(Pod) : /\ [s EXCEPT !.toRun = x] \in Status
                                  /\ [s EXCEPT !.toKill = x] \in Status
                                  /\ [s EXCEPT !.running = x] \in Status
           /\ \A x, y \in Seq(Pod) : /\ [s EXCEPT !.running = x, !.toRun = y] \in Status
                                     /\ [s EXCEPT !.running = x, !.toKill = y] \in Status
  BY NoValueAssumption DEF Status

\* Parts of a ReplicaSet, and one with another Status or count.
LEMMA SetWith ==
    ASSUME NEW o \in SetObj
    PROVE  /\ o.replicas \in Replicas /\ o.replicas \in Nat
           /\ o.status \in Status \cup {NoStatus} /\ o # NoSet
           /\ \A s \in Status \cup {NoStatus} :
                 /\ [o EXCEPT !.status = s] \in SetObj
                 /\ [o EXCEPT !.status = s].status = s
                 /\ [o EXCEPT !.status = s].replicas = o.replicas
           /\ \A n \in Replicas : /\ [o EXCEPT !.replicas = n] \in SetObj
                                  /\ [o EXCEPT !.replicas = n].status = o.status
  BY NoValueAssumption, BoundAssumption DEF SetObj

\* Parts of an event about a ReplicaSet.
LEMMA EventParts ==
    ASSUME NEW e \in SetEvent
    PROVE  /\ e.type \in {"create", "update", "remove"} /\ e.obj \in SetObj
           /\ e.shared \in BOOLEAN /\ e # NoEvent
           /\ \A s \in Status \cup {NoStatus} :
                 LET new == [e EXCEPT !.obj.status = s, !.shared = FALSE] IN
                 /\ new \in SetEvent /\ new.type = e.type /\ ~new.shared
<1>1. e.type \in {"create", "update", "remove"} /\ e.obj \in SetObj /\ e.shared \in BOOLEAN
      /\ e # NoEvent
  BY NoValueAssumption DEF SetEvent
<1>2. ASSUME NEW s \in Status \cup {NoStatus}
      PROVE  LET new == [e EXCEPT !.obj.status = s, !.shared = FALSE] IN
             /\ new \in SetEvent /\ new.type = e.type /\ ~new.shared
  BY DEF SetEvent, SetObj
<1>3. QED
  BY <1>1, <1>2

\* A new job is one, with the object it is given.
LEMMA StartedJob ==
    ASSUME NEW kind \in {"create", "update", "remove", "pod", "routine"},
           NEW obj \in SetObj, NEW n \in Nat, NEW kill \in Seq(Pod),
           NEW shared \in BOOLEAN, StartJob(kind, obj, n, kill, shared)
    PROVE  /\ job' \in Job /\ job' # NoJob
           /\ job'.kind = kind /\ job'.obj = obj /\ job'.shared = shared
           /\ job'.record = NoPod
<1>1. job' = [kind |-> kind, obj |-> obj, toCreate |-> n, kill |-> kill,
              record |-> NoPod, found |-> FALSE, shared |-> shared]
  BY DEF StartJob
<1>2. job' \in Job
  BY <1>1, Zenon DEF Job
<1>3. QED
  BY <1>1, <1>2, NoValueAssumption

\* Parts of a job.
LEMMA JobParts ==
    ASSUME NEW j \in Job
    PROVE  /\ j # NoJob /\ j.kind \in {"create", "update", "remove", "pod", "routine"}
           /\ j.obj \in SetObj /\ j.toCreate \in Nat /\ j.kill \in Seq(Pod)
           /\ j.record \in Pod \cup {NoPod}
           /\ j.found \in BOOLEAN /\ j.shared \in BOOLEAN
  BY NoValueAssumption DEF Job

\* A cache that drops its Status leaves events and jobs with their own.
LEMMA Unshared ==
    ASSUME Typed, Unshare
    PROVE  /\ setChan' \in Seq(SetEvent) /\ Len(setChan') = Len(setChan)
           /\ \A i \in 1..Len(setChan) : /\ setChan'[i].type = setChan[i].type
                                         /\ ~setChan'[i].shared
           /\ job' \in Job \cup {NoJob} /\ Working'
           /\ job = NoJob => job' = NoJob
           /\ job # NoJob => /\ job' # NoJob /\ job'.kind = job.kind
                             /\ job'.obj = job.obj /\ job'.record = job.record
<1> USE DEF Typed, TypeOK
<1> DEFINE new(i) == IF setChan[i].shared
                     THEN [setChan[i] EXCEPT !.obj.status = setCache.status, !.shared = FALSE]
                     ELSE setChan[i]
<1>1. ASSUME NEW i \in 1..Len(setChan)
      PROVE  new(i) \in SetEvent /\ new(i).type = setChan[i].type /\ ~new(i).shared
  <2>1. setChan[i] \in SetEvent
    OBVIOUS
  <2>2. CASE setChan[i].shared
    <3>1. setCache \in SetObj
      BY <2>2 DEF Shares
    <3>2. setCache.status \in Status \cup {NoStatus}
      BY <3>1, SetWith
    <3>3. QED
      BY <2>1, <2>2, <3>2, EventParts
  <2>3. CASE ~setChan[i].shared
    BY <2>1, <2>3
  <2>4. QED
    BY <2>2, <2>3
<1>2. setChan' = [i \in 1..Len(setChan) |-> new(i)]
  <2>1. DOMAIN setChan = 1..Len(setChan)
    OBVIOUS
  <2>2. setChan' = [i \in DOMAIN setChan |-> new(i)]
    BY Zenon DEF Unshare
  <2>3. QED
    BY <2>1, <2>2, Zenon
<1> HIDE DEF new
<1>3. setChan' \in Seq(SetEvent) /\ Len(setChan') = Len(setChan)
  <2>1. Len(setChan) \in Nat
    OBVIOUS
  <2>2. setChan' \in [1..Len(setChan) -> SetEvent]
    BY <1>1, <1>2
  <2> HIDE DEF Typed, TypeOK
  <2>3. QED
    BY <2>1, <2>2
<1>4. \A i \in 1..Len(setChan) : /\ setChan'[i].type = setChan[i].type
                                 /\ ~setChan'[i].shared
  BY <1>1, <1>2
<1>5. job = NoJob => job' = NoJob
  BY DEF Unshare
<1>6. ASSUME job # NoJob
      PROVE  /\ job' \in Job /\ job' # NoJob /\ job'.kind = job.kind /\ ~job'.shared
             /\ job'.obj = job.obj /\ job'.record = job.record
  <2>1. job \in Job /\ job' = [job EXCEPT !.shared = FALSE]
    BY <1>6 DEF Unshare
  <2>2. job' \in Job
    BY <2>1 DEF Job
  <2>3. QED
    BY <2>1, <2>2, JobParts DEF Job
<1>7. Working'
  BY <1>5, <1>6 DEF Working
<1>8. QED
  BY <1>3, <1>4, <1>5, <1>6, <1>7

\* A PUT that outlives its sender carries a ReplicaSet.
LEMMA OutlivedTyped == Typed => Outlived \subseteq SetObj
  BY JobParts DEF Typed, TypeOK, Outlived

\* A process that ends leaves nothing that has a wrong type.
LEMMA DownTyped ==
    ASSUME Typed, Down, incidents' \in 0..MaxIncidents, rescales' \in 0..MaxRescales,
           user' \in {"none", "created", "deleted"}
    PROVE  Typed'
<1>1. unseen' \in BOOLEAN
  BY DEF Down, Typed, TypeOK
<1>2. [p \in Pod |-> "none"] \in [Pod -> {"none", "running", "bad"}]
  OBVIOUS
<1>3. <<>> \in Seq(SetObj \cup {NoSet}) /\ <<>> \in Seq(PodMsg) /\ <<>> \in Seq(SetEvent)
      /\ <<>> \in Seq(PodEvent) /\ Len(<<>>) = 0 /\ 0 <= ChanCap
  BY BoundAssumption
<1>4. TypeOK'
  <2>1. setReq' \in SetObj \cup {NoSet}
    BY OutlivedTyped DEF Down, Typed, TypeOK
  <2>2. QED
    BY <1>1, <1>2, <1>3, <2>1 DEF Typed, TypeOK, Down, etcd
<1>5. Shares' /\ Working'
  BY <1>3 DEF Down, Shares, Working
<1>6. QED
  BY <1>4, <1>5 DEF Typed

\* A write of the ReplicaSet keeps the types of what it changes.
LEMMA WriteSetTyped ==
    ASSUME Typed, NEW o \in SetObj \cup {NoSet}, WriteSet(o)
    PROVE  /\ set' \in SetObj \cup {NoSet} /\ unseen' \in BOOLEAN
           /\ setStream' \in Seq(SetObj \cup {NoSet})
<1>1. Append(setStream, o) \in Seq(SetObj \cup {NoSet})
  BY DEF Typed, TypeOK
<1>2. unseen' \in BOOLEAN
  BY DEF WriteSet
<1>3. QED
  BY <1>1, <1>2 DEF Typed, TypeOK, WriteSet

\* So does a write of a pod.
LEMMA WritePodTyped ==
    ASSUME Typed, NEW p \in Pod, NEW phase \in Phase \cup {"gone"}, WritePod(p, phase)
    PROVE  /\ pods' \in [Pod -> Phase \cup {"gone"}] /\ missed' \subseteq Pod
           /\ podStream' \in Seq(PodMsg)
<1>1. phase # "created" => [pod |-> p, phase |-> phase] \in PodMsg
  BY DEF PodMsg, Phase
<1>2. phase # "created" => Append(podStream, [pod |-> p, phase |-> phase]) \in Seq(PodMsg)
  BY <1>1 DEF Typed, TypeOK
<1>3. pods' \in [Pod -> Phase \cup {"gone"}]
  BY DEF WritePod, Typed, TypeOK, Phase
<1>4. QED
  BY <1>2, <1>3 DEF Typed, TypeOK, WritePod

\* What the ReplicaSet informer does.
LEMMA SetInformerTyped ==
    ASSUME Typed, ListSets \/ WatchSets \/ InformSet \/ SendSet \/ LoseSetWatch
    PROVE  Typed'
<1> USE DEF Typed, TypeOK
<1>1. ASSUME ListSets PROVE Typed'
  <2>1. setOut = NoEvent
    BY <1>1 DEF ListSets, Shares
  <2>2. CASE set = NoSet
    BY <1>1, <2>2 DEF ListSets, Shares, Working, etcd, streams, requests, budgets, history
  <2>3. CASE set # NoSet
    <3>1. Unshare /\ setCache' = set
      BY <1>1, <2>3 DEF ListSets
    <3>2. TypeOK'
      BY <1>1, <3>1, Unshared DEF ListSets, etcd, streams, requests, budgets, history
    <3>3. Shares'
      BY <1>1, <2>1, <3>1, Unshared DEF ListSets, Shares
    <3>4. QED
      BY <3>1, <3>2, <3>3, Unshared
  <2>4. QED
    BY <2>2, <2>3
<1>2. ASSUME WatchSets PROVE Typed'
  BY <1>2 DEF WatchSets, Shares, Working, etcd, streams, caches, chans, requests, budgets, history
<1>3. ASSUME InformSet PROVE Typed'
  <2>1. Head(setStream) \in SetObj \cup {NoSet} /\ Tail(setStream) \in Seq(SetObj \cup {NoSet})
    BY <1>3 DEF InformSet
  <2>2. \A o \in SetObj : /\ [type |-> "remove", obj |-> o, shared |-> FALSE] \in SetEvent
                          /\ [type |-> "create", obj |-> o, shared |-> FALSE] \in SetEvent
                          /\ [type |-> "update", obj |-> o, shared |-> TRUE] \in SetEvent
    BY DEF SetEvent
  <2>3. SetNews(Head(setStream)) \in SetEvent \cup {NoEvent}
    BY <2>1, <2>2 DEF SetNews
  <2>4. SetNews(Head(setStream)) # NoEvent /\ SetNews(Head(setStream)).shared =>
           Head(setStream) # NoSet
    BY DEF SetNews
  <2>5. TypeOK'
    BY <1>3, <2>1, <2>3, Unshared
       DEF InformSet, etcd, requests, budgets, history
  <2>6. Shares'
    BY <1>3, <2>4, Unshared DEF InformSet, Shares
  <2>7. Working'
    BY <1>3, Unshared DEF InformSet
  <2>8. QED
    BY <2>5, <2>6, <2>7
<1>4. ASSUME SendSet PROVE Typed'
  <2>1. setOut \in SetEvent
    BY <1>4 DEF SendSet
  <2>2. /\ Append(setChan, setOut) \in Seq(SetEvent)
        /\ Len(Append(setChan, setOut)) = Len(setChan) + 1
        /\ Append(setChan, setOut)[Len(setChan) + 1] = setOut
        /\ \A i \in 1..Len(setChan) : Append(setChan, setOut)[i] = setChan[i]
    BY <2>1
  <2>3. Len(setChan) + 1 <= ChanCap
    BY <1>4, BoundAssumption DEF SendSet
  <2>4. TypeOK'
    BY <1>4, <2>2, <2>3 DEF SendSet, etcd, streams, caches, requests, budgets, history
  <2>5. Shares'
    <3>1. setChan' = Append(setChan, setOut) /\ setOut' = NoEvent /\ setCache' = setCache
      BY <1>4 DEF SendSet, caches
    <3>2. ASSUME NEW i \in 1..Len(setChan'), setChan'[i].shared PROVE setCache # NoSet
      <4>1. i \in 1..Len(setChan) \/ i = Len(setChan) + 1
        BY <2>2, <3>1
      <4>2. QED
        BY <1>4, <2>2, <3>1, <3>2, <4>1 DEF SendSet, Shares
    <3>3. QED
      BY <3>1, <3>2 DEF Shares
  <2>6. QED
    BY <1>4, <2>4, <2>5 DEF SendSet, caches, Working
<1>5. ASSUME LoseSetWatch PROVE Typed'
  <2>1. /\ incidents' \in 0..MaxIncidents /\ rescales' \in 0..MaxRescales
        /\ user' \in {"none", "created", "deleted"}
    BY <1>5, IncidentTyped DEF LoseSetWatch
  <2>2. unseen' \in BOOLEAN /\ <<>> \in Seq(SetObj \cup {NoSet})
    BY <1>5 DEF LoseSetWatch
  <2>3. QED
    BY <1>5, <2>1, <2>2 DEF LoseSetWatch, Shares, Working, etcd, caches, chans, requests
<1>6. QED
  BY <1>1, <1>2, <1>3, <1>4, <1>5

\* What the pod informer does.
LEMMA PodInformerTyped ==
    ASSUME Typed, ListPods \/ WatchPods \/ ReceivePod \/ InformPod \/ SendPod \/ LosePodWatch
    PROVE  Typed'
<1> USE DEF Typed, TypeOK
<1>1. ASSUME ListPods PROVE Typed'
  <2>1. podCache' \in [Pod -> {"none", "running", "bad"}]
    BY <1>1 DEF ListPods
  <2>2. QED
    BY <1>1, <2>1 DEF ListPods, Shares, Working, etcd, streams, chans, requests, budgets, history
<1>2. ASSUME WatchPods PROVE Typed'
  BY <1>2 DEF WatchPods, Shares, Working, etcd, streams, caches, chans, requests, budgets, history
<1>3. ASSUME ReceivePod PROVE Typed'
  <2>1. Head(podStream) \in PodMsg /\ Tail(podStream) \in Seq(PodMsg)
    BY <1>3 DEF ReceivePod
  <2>2. QED
    BY <1>3, <2>1 DEF ReceivePod, Shares, Working, etcd, caches, chans, requests, budgets, history
<1>4. ASSUME InformPod PROVE Typed'
  <2>1. podHand.pod \in Pod
    BY <1>4 DEF InformPod, PodMsg
  <2>2. \A old, new : CachedPhase(old, new) \in {"none", "running", "bad"}
    BY DEF CachedPhase
  <2>3. \A old, new : PodNews(podHand.pod, old, new) \in PodEvent \cup {NoEvent}
    BY <2>1 DEF PodNews, PodEvent
  <2>4. podCache' \in [Pod -> {"none", "running", "bad"}] /\ podOut' \in PodEvent \cup {NoEvent}
    BY <1>4, <2>2, <2>3 DEF InformPod
  <2>5. QED
    BY <1>4, <2>4 DEF InformPod, Shares, Working, etcd, streams, chans, requests, budgets, history
<1>5. ASSUME SendPod PROVE Typed'
  <2>1. podOut \in PodEvent
    BY <1>5 DEF SendPod
  <2>2. /\ Append(podChan, podOut) \in Seq(PodEvent)
        /\ Len(Append(podChan, podOut)) = Len(podChan) + 1
    BY <2>1
  <2>3. Len(podChan) + 1 <= ChanCap
    BY <1>5, BoundAssumption DEF SendPod
  <2>4. QED
    BY <1>5, <2>2, <2>3 DEF SendPod, Shares, Working, etcd, streams, caches, requests, budgets,
                            history
<1>6. ASSUME LosePodWatch PROVE Typed'
  <2>1. /\ incidents' \in 0..MaxIncidents /\ rescales' \in 0..MaxRescales
        /\ user' \in {"none", "created", "deleted"}
    BY <1>6, IncidentTyped DEF LosePodWatch
  <2>2. \A x \in ToSet(podStream) : x.pod \in Pod
    <3>1. \A i \in DOMAIN podStream : podStream[i] \in PodMsg
      OBVIOUS
    <3>2. QED
      BY <3>1 DEF ToSet, PodMsg
  <2>3. {m.pod : m \in {x \in ToSet(podStream) : x.phase = "gone"}} \subseteq Pod
    BY <2>2
  <2>4. missed' \subseteq Pod /\ <<>> \in Seq(PodMsg)
    BY <1>6, <2>3 DEF LosePodWatch
  <2>5. QED
    BY <1>6, <2>1, <2>4 DEF LosePodWatch, Shares, Working, etcd, caches, chans, requests
<1>7. QED
  BY <1>1, <1>2, <1>3, <1>4, <1>5, <1>6

\* The events behind the first of the channel.
LEMMA SetTail ==
    ASSUME Typed, setChan # <<>>
    PROVE  /\ Head(setChan) = setChan[1] /\ Head(setChan) \in SetEvent /\ 1 \in 1..Len(setChan)
           /\ Tail(setChan) \in Seq(SetEvent) /\ Len(Tail(setChan)) = Len(setChan) - 1
           /\ Len(Tail(setChan)) <= ChanCap
           /\ \A i \in 1..Len(Tail(setChan)) : /\ Tail(setChan)[i] = setChan[i + 1]
                                               /\ i + 1 \in 1..Len(setChan)
<1>1. setChan \in Seq(SetEvent) /\ Len(setChan) \in Nat /\ Len(setChan) # 0
      /\ Len(setChan) <= ChanCap /\ ChanCap \in Nat
  BY BoundAssumption DEF Typed, TypeOK
<1>2. Head(setChan) = setChan[1] /\ 1 \in 1..Len(setChan) /\ setChan[1] \in SetEvent
  BY <1>1
<1>3. Tail(setChan) \in Seq(SetEvent) /\ Len(Tail(setChan)) = Len(setChan) - 1
  BY <1>1
<1>4. ASSUME NEW i \in 1..Len(Tail(setChan))
      PROVE  Tail(setChan)[i] = setChan[i + 1] /\ i + 1 \in 1..Len(setChan)
  BY <1>1, <1>3
<1>5. QED
  BY <1>1, <1>2, <1>3, <1>4

\* What a handler sees of an event is a ReplicaSet.
LEMMA SeenTyped ==
    ASSUME Typed, setChan # <<>>
    PROVE  /\ Seen(Head(setChan)) \in SetObj
           /\ Head(setChan).shared =>
                setCache \in SetObj /\ Seen(Head(setChan)).status = setCache.status
<1>1. Head(setChan).obj \in SetObj
  BY SetTail, EventParts
<1>2. Head(setChan).shared => setCache \in SetObj
  BY SetTail DEF Typed, TypeOK, Shares
<1>3. QED
  BY <1>1, <1>2, SetWith DEF Seen

\* A handler that takes an event and starts a job keeps the types of all else.
LEMMA TookSetTyped ==
    ASSUME Typed, setChan # <<>>, setChan' = Tail(setChan),
           job' \in Job, job'.obj.status # NoStatus,
           job'.shared => setCache' # NoSet /\ setCache'.status # NoStatus,
           setCache' \in SetObj \cup {NoSet}, setCache # NoSet => setCache' # NoSet,
           rescales' \in 0..MaxRescales,
           UNCHANGED <<etcd, streams, alive, informers, podCache, rmCache, podChan,
                       requests, user, incidents, history>>
    PROVE  Typed'
<1>1. TypeOK'
  BY SetTail DEF Typed, TypeOK, etcd, streams, informers, requests, history
<1>2. Shares'
  <2>1. ASSUME NEW i \in 1..Len(setChan'), setChan'[i].shared PROVE setCache' # NoSet
    BY <2>1, SetTail DEF Typed, Shares
  <2>2. QED
    BY <2>1 DEF Typed, Shares, informers
<1>3. QED
  BY <1>1, <1>2 DEF Typed, Working

\* A cached Status stays one.
Bare(o) == o # NoSet /\ o.status = NoStatus
StatusKept ==
    \/ setCache' = setCache
    \/ setCache # NoSet /\ ~Bare(setCache) /\ setCache' # NoSet /\ ~Bare(setCache')

\* The job a handler starts when a ReplicaSet is created.
LEMMA SetCreateStarts ==
    ASSUME Typed, HandleSetCreate
    PROVE  /\ setChan # <<>> /\ job' \in Job /\ job'.kind = "create"
           /\ job'.obj.status # NoStatus /\ ~job'.shared
<1>1. setChan # <<>> /\ Head(setChan).obj \in SetObj
  BY SetTail, EventParts DEF HandleSetCreate
<1>2. PICK o \in SetObj : o = Head(setChan).obj
  BY <1>1
<1>3. EmptyStatus \in Status /\ EmptyStatus # NoStatus
  <2>1. <<>> \in Seq(Pod)
    OBVIOUS
  <2>2. EmptyStatus \in Status
    BY <2>1, Zenon DEF EmptyStatus, Status
  <2>3. QED
    BY <2>2, StatusWith
<1>4. [o EXCEPT !.status = EmptyStatus] \in SetObj /\ o.replicas \in Nat
      /\ [o EXCEPT !.status = EmptyStatus].status = EmptyStatus
  BY <1>3, SetWith
<1>5. StartJob("create", [o EXCEPT !.status = EmptyStatus], o.replicas, <<>>, FALSE)
  BY <1>2, Zenon DEF HandleSetCreate
<1>6. job' \in Job /\ job'.kind = "create" /\ job'.obj.status # NoStatus /\ ~job'.shared
  <2>1. <<>> \in Seq(Pod)
    OBVIOUS
  <2> HIDE DEF EmptyStatus
  <2>2. QED
    BY <1>3, <1>4, <1>5, <2>1, StartedJob
<1>7. QED
  BY <1>1, <1>6

\* The job a handler starts when the replica count of one changes.
LEMMA SetUpdateStarts ==
    ASSUME Typed, HandleSetUpdate
    PROVE  /\ setChan # <<>> /\ job' \in Job /\ job'.obj.status # NoStatus
           /\ rescales' \in 0..MaxRescales /\ StatusKept
           /\ setCache' \in SetObj \cup {NoSet} /\ (setCache # NoSet => setCache' # NoSet)
           /\ job'.shared => setCache' # NoSet /\ setCache'.status # NoStatus
<1>1. setChan # <<>> /\ Seen(Head(setChan)) \in SetObj /\ Head(setChan).shared \in BOOLEAN
  BY SeenTyped, SetTail, EventParts DEF HandleSetUpdate
<1> DEFINE o == Seen(Head(setChan))
           shared == Head(setChan).shared
<1>2. o \in SetObj /\ shared \in BOOLEAN
  BY <1>1
<1>3. o.status \in Status /\ o.replicas \in Nat /\ o.status.running \in Seq(Pod)
      /\ o.status.toKill \in Seq(Pod)
  BY <1>2, SetWith, StatusWith DEF HandleSetUpdate
<1> DEFINE run == o.status.running
           up == o.replicas > Len(run)
           surplus == SubSeq(run, 1, Len(run) - o.replicas)
           new == IF up THEN o ELSE [o EXCEPT !.status.toKill = @ \o surplus]
           n == IF up THEN o.replicas - Len(run) ELSE 0
           kill == IF up THEN <<>> ELSE surplus
<1>4. StartJob("update", new, n, kill, shared)
      /\ setCache' = IF shared THEN [setCache EXCEPT !.status = new.status] ELSE setCache
  BY Zenon DEF HandleSetUpdate
<1>5. shared => setCache \in SetObj
  BY <1>1, SeenTyped
<1>6. rescales' \in 0..MaxRescales
  <2>1. rescales \in 0..MaxRescales /\ rescales < MaxRescales /\ rescales' = rescales + 1
        /\ MaxRescales \in Nat
    BY BoundAssumption DEF HandleSetUpdate, Typed, TypeOK
  <2>2. QED
    BY <2>1
<1> HIDE DEF o, shared
<1>7. Len(run) \in Nat /\ n \in Nat
  BY <1>3
<1>8. surplus \in Seq(Pod)
  <2>1. \A i \in 1..(Len(run) - o.replicas) : run[i] \in Pod
    BY <1>3, <1>7
  <2>2. 1 \in Int /\ Len(run) - o.replicas \in Int
    BY <1>3, <1>7
  <2>3. QED
    BY <2>1, <2>2, SubSeqProperties
<1>9. kill \in Seq(Pod)
  BY <1>8
<1>10. new \in SetObj /\ new.status \in Status
  <2> HIDE DEF surplus, up
  <2>1. o.status.toKill \o surplus \in Seq(Pod)
    BY <1>3, <1>8
  <2>2. [o EXCEPT !.status.toKill = @ \o surplus] =
          [o EXCEPT !.status = [o.status EXCEPT !.toKill = o.status.toKill \o surplus]]
    BY <1>2 DEF SetObj
  <2>3. [o.status EXCEPT !.toKill = o.status.toKill \o surplus] \in Status
    BY <1>3, <2>1, StatusWith
  <2>4. QED
    BY <1>2, <1>3, <2>2, <2>3, SetWith
<1> HIDE DEF new, n, kill
<1>11. /\ job' \in Job /\ job'.obj = new /\ job'.shared = shared
  BY <1>2, <1>4, <1>7, <1>9, <1>10, StartedJob
<1>12. job'.obj.status # NoStatus /\ new.status # NoStatus
  BY <1>10, <1>11, StatusWith
<1>13. /\ setCache' \in SetObj \cup {NoSet} /\ (setCache # NoSet => setCache' # NoSet)
       /\ shared => setCache' # NoSet /\ setCache'.status # NoStatus
  BY <1>4, <1>5, <1>10, <1>12, SetWith DEF Typed, TypeOK
<1>14. StatusKept
  <2>1. shared => setCache.status # NoStatus
    BY <1>1, <1>5, SeenTyped DEF HandleSetUpdate, shared
  <2>2. QED
    BY <1>4, <1>5, <1>13, <2>1, SetWith DEF StatusKept, Bare
<1>15. QED
  BY <1>1, <1>6, <1>11, <1>12, <1>13, <1>14

\* What a handler makes of an event of a pod.
LEMMA PodHandled ==
    ASSUME Typed, HandlePod
    PROVE  \/ setCache' = setCache /\ job' = job
           \/ /\ setCache' \in SetObj /\ setCache' # NoSet /\ ~Bare(setCache')
              /\ setCache # NoSet /\ ~Bare(setCache)
              /\ job' \in Job /\ job'.obj.status # NoStatus /\ ~job'.shared
<1>1. Head(podChan) \in PodEvent
  BY DEF HandlePod, Typed, TypeOK
<1>2. PICK e \in PodEvent : e = Head(podChan)
  BY <1>1
<1> DEFINE new == [setCache EXCEPT !.status = AfterPod(e, @)]
<1>3. \/ setCache' = setCache /\ job' = job
      \/ setCache # NoSet /\ setCache' = new /\ StartJob("pod", new, 0, <<>>, FALSE)
  BY <1>2, Zenon DEF HandlePod
<1>4. ASSUME setCache # NoSet PROVE new \in SetObj /\ new.status # NoStatus
  <2>1. setCache \in SetObj /\ setCache.status \in Status
    BY <1>4, SetWith DEF HandlePod, Typed, TypeOK
  <2>2. PICK s \in Status : s = setCache.status
    BY <2>1
  <2>3. e.pod \in Pod /\ s.running \in Seq(Pod) /\ s.toRun \in Seq(Pod) /\ s.toKill \in Seq(Pod)
    BY StatusWith DEF PodEvent
  <2>4. /\ Append(s.running, e.pod) \in Seq(Pod)
        /\ RemoveFirst(s.running, e.pod) \in Seq(Pod)
        /\ RemoveFirst(s.toRun, e.pod) \in Seq(Pod)
        /\ RemoveFirst(s.toKill, e.pod) \in Seq(Pod)
    BY <2>3, RemoveFirstTyped
  <2>5. AfterPod(e, s) \in
           {[s EXCEPT !.running = Append(s.running, e.pod),
                      !.toRun = RemoveFirst(s.toRun, e.pod)],
            [s EXCEPT !.running = Append(s.running, e.pod)],
            [s EXCEPT !.running = RemoveFirst(s.running, e.pod),
                      !.toKill = RemoveFirst(s.toKill, e.pod)], s}
    BY DEF AfterPod, PodEvent, Status
  <2>6. AfterPod(e, s) \in Status
    <3>1. [s EXCEPT !.running = Append(s.running, e.pod),
                    !.toRun = RemoveFirst(s.toRun, e.pod)] \in Status
      BY <2>4, StatusWith, Zenon
    <3>2. [s EXCEPT !.running = Append(s.running, e.pod)] \in Status
      BY <2>4, StatusWith, Zenon
    <3>3. [s EXCEPT !.running = RemoveFirst(s.running, e.pod),
                    !.toKill = RemoveFirst(s.toKill, e.pod)] \in Status
      BY <2>4, StatusWith, Zenon
    <3>4. QED
      BY <2>5, <3>1, <3>2, <3>3, Zenon
  <2>7. new = [setCache EXCEPT !.status = AfterPod(e, s)]
    <3>1. new = [setCache EXCEPT !.status = AfterPod(e, setCache.status)]
      BY Zenon
    <3>2. QED
      BY <2>2, <3>1
  <2> HIDE DEF new
  <2>8. AfterPod(e, s) # NoStatus
    BY <2>6, StatusWith
  <2>9. QED
    BY <2>1, <2>6, <2>7, <2>8, SetWith
<1> HIDE DEF new
<1>5. CASE setCache' = setCache /\ job' = job
  BY <1>5
<1>6. CASE setCache # NoSet /\ setCache' = new /\ StartJob("pod", new, 0, <<>>, FALSE)
  <2>1. <<>> \in Seq(Pod)
    OBVIOUS
  <2>2. job' \in Job /\ job'.obj.status # NoStatus /\ ~job'.shared
    BY <1>4, <1>6, <2>1, StartedJob
  <2>3. setCache' \in SetObj /\ setCache' # NoSet /\ ~Bare(setCache')
    BY <1>4, <1>6, SetWith DEF Bare
  <2>4. ~Bare(setCache)
    BY <1>6 DEF HandlePod, Bare
  <2>5. QED
    BY <1>6, <2>2, <2>3, <2>4
<1>7. QED
  BY <1>3, <1>5, <1>6

\* What the event loop does.
LEMMA HandlersTyped ==
    ASSUME Typed, Handlers
    PROVE  Typed'
<1>1. ASSUME HandleSetCreate PROVE Typed'
  BY <1>1, SetCreateStarts, TookSetTyped DEF HandleSetCreate, caches, requests, budgets, Typed,
                                             TypeOK
<1>2. ASSUME HandleSetUpdate PROVE Typed'
  BY <1>2, SetUpdateStarts, TookSetTyped DEF HandleSetUpdate
<1>3. ASSUME HandleSetRemove PROVE Typed'
  <2>1. setChan # <<>> /\ Head(setChan).obj \in SetObj /\ Head(setChan).obj.status # NoStatus
    BY <1>3, SetTail, EventParts DEF HandleSetRemove
  <2>2. PICK o \in SetObj : o = Head(setChan).obj
    BY <2>1
  <2>3. o.status \in Status /\ o.status.running \in Seq(Pod) /\ o.status # NoStatus
    BY <2>1, <2>2, SetWith, StatusWith
  <2>4. StartJob("remove", o, 0, o.status.running, FALSE)
    BY <1>3, <2>2, Zenon DEF HandleSetRemove
  <2>5. job' \in Job /\ job'.obj.status # NoStatus /\ ~job'.shared
    BY <2>3, <2>4, StartedJob
  <2>6. QED
    BY <1>3, <2>1, <2>5, TookSetTyped DEF HandleSetRemove, caches, requests, budgets, Typed, TypeOK
<1>4. ASSUME HandlePod PROVE Typed'
  <2>1. /\ podChan \in Seq(PodEvent) /\ podChan # <<>> /\ Len(podChan) \in Nat
        /\ Len(podChan) <= ChanCap /\ ChanCap \in Nat
    BY <1>4, BoundAssumption DEF HandlePod, Typed, TypeOK
  <2>2. Head(podChan) \in PodEvent /\ Tail(podChan) \in Seq(PodEvent)
        /\ Len(Tail(podChan)) = Len(podChan) - 1
    BY <2>1
  <2>3. Len(Tail(podChan)) <= ChanCap
    BY <2>1, <2>2
  <2>4. CASE setCache' = setCache /\ job' = job
    BY <1>4, <2>2, <2>3, <2>4
       DEF HandlePod, Typed, TypeOK, Shares, Working, etcd, streams, informers, requests, budgets,
           history
  <2>5. CASE /\ setCache' \in SetObj /\ setCache' # NoSet
             /\ job' \in Job /\ job'.obj.status # NoStatus /\ ~job'.shared
    BY <1>4, <2>2, <2>3, <2>5
       DEF HandlePod, Typed, TypeOK, Shares, Working, etcd, streams, informers, requests, budgets,
           history
  <2>6. QED
    BY <1>4, <2>4, <2>5, PodHandled
<1>5. ASSUME SetPanics \/ PodPanics PROVE Typed'
  BY <1>5, DownTyped DEF SetPanics, PodPanics, requests, budgets, Typed, TypeOK
<1>6. QED
  BY <1>1, <1>2, <1>3, <1>4, <1>5 DEF Handlers

\* What the routine's job starts with.
LEMMA RoutineOfTyped ==
    ASSUME NEW o \in SetObj, o.status # NoStatus,
           NEW runnings \in Seq(Pod), NEW bads \in Seq(Pod), RoutineOf(o, runnings, bads)
    PROVE  job' \in Job /\ job'.obj.status # NoStatus /\ ~job'.shared /\ job'.record = NoPod
<1> DEFINE surplus == IF Len(runnings) > o.replicas THEN Len(runnings) - o.replicas ELSE 0
           missing == IF o.replicas > Len(runnings) THEN o.replicas - Len(runnings) ELSE 0
           all == o.status.toKill \o o.status.toRun \o SubSeq(runnings, 1, surplus) \o bads
           kill == Distinct(all)
           new == [toRun |-> <<>>, toKill |-> kill, running |-> runnings]
<1>1. o.status \in Status /\ o.replicas \in Nat
      /\ o.status.toKill \in Seq(Pod) /\ o.status.toRun \in Seq(Pod)
  BY SetWith, StatusWith
<1>2. Len(runnings) \in Nat /\ surplus \in 0..Len(runnings) /\ missing \in Nat
  BY <1>1
<1>3. SubSeq(runnings, 1, surplus) \in Seq(Pod)
  <2> HIDE DEF surplus
  <2>1. \A i \in 1..surplus : runnings[i] \in Pod
    BY <1>2
  <2>2. 1 \in Int /\ surplus \in Int
    BY <1>2
  <2>3. QED
    BY <2>1, <2>2, SubSeqProperties
<1>4. all \in Seq(Pod)
  <2> HIDE DEF surplus
  <2>1. QED
    BY <1>1, <1>3
<1>5. kill \in Seq(Pod)
  <2> HIDE DEF all
  <2>1. QED
    BY <1>4, DistinctTyped
<1>6. new \in Status
  <2> HIDE DEF kill
  <2>1. <<>> \in Seq(Pod)
    OBVIOUS
  <2>2. QED
    BY <1>5, <2>1, Zenon DEF Status
<1>7. StartJob("routine", [o EXCEPT !.status = new], missing, kill, FALSE)
  BY Zenon DEF RoutineOf
<1> HIDE DEF kill, new, missing
<1>8. [o EXCEPT !.status = new] \in SetObj /\ [o EXCEPT !.status = new].status = new
      /\ new # NoStatus
  BY <1>6, SetWith, StatusWith
<1>9. QED
  BY <1>2, <1>5, <1>7, <1>8, StartedJob

\* What the routine does.
LEMMA RoutineTyped ==
    ASSUME Typed, Routine
    PROVE  Typed'
<1>1. PICK runnings \in SetToSeqs(CachedIn("running")), bads \in SetToSeqs(CachedIn("bad")) :
         RoutineOf(setCache, runnings, bads)
  BY DEF Routine
<1>2. runnings \in Seq(Pod) /\ bads \in Seq(Pod)
  BY OrdersTyped DEF CachedIn
<1>3. setCache \in SetObj /\ setCache.status # NoStatus
  BY DEF Routine, Typed, TypeOK
<1>4. job' \in Job /\ job'.obj.status # NoStatus /\ ~job'.shared
  BY <1>1, <1>2, <1>3, RoutineOfTyped
<1>5. /\ incidents' \in 0..MaxIncidents /\ rescales' \in 0..MaxRescales
      /\ user' \in {"none", "created", "deleted"} /\ tidy' \in BOOLEAN
  BY IncidentTyped DEF Routine, Typed, TypeOK, requests, budgets
<1>6. TypeOK'
  BY <1>4, <1>5 DEF Routine, Typed, TypeOK, etcd, streams, informers, caches, chans, requests
<1>7. Shares' /\ Working'
  BY <1>4 DEF Routine, Typed, Shares, Working, informers, caches, chans
<1>8. QED
  BY <1>6, <1>7 DEF Typed

\* A job that goes on is one, and its object keeps a Status, and so does the cache if
\* the job writes to it.
LEMMA JobGoesOn ==
    ASSUME Typed,
           \/ JobCreatesPod \/ JobFailsToCreate \/ JobDeletesPod \/ JobFailsToDelete
           \/ JobRecordsRemove \/ (JobLooksUp /\ set # NoSet)
    PROVE  /\ job # NoJob /\ job' \in Job /\ job'.kind = job.kind /\ job'.shared = job.shared
           /\ job'.obj.status # NoStatus /\ StatusKept
           /\ setCache' \in SetObj \cup {NoSet} /\ (setCache # NoSet => setCache' # NoSet)
           /\ job.shared => setCache' # NoSet /\ setCache'.status # NoStatus
<1> DEFINE Goal == /\ job # NoJob /\ job' \in Job /\ job'.kind = job.kind
                   /\ job'.shared = job.shared
                   /\ job'.obj.status # NoStatus /\ StatusKept
                   /\ setCache' \in SetObj \cup {NoSet} /\ (setCache # NoSet => setCache' # NoSet)
                   /\ job.shared => setCache' # NoSet /\ setCache'.status # NoStatus
<1>1. ASSUME job # NoJob
      PROVE  /\ job \in Job /\ job.obj \in SetObj /\ job.obj.status \in Status
             /\ job.obj.status # NoStatus
             /\ job.toCreate \in Nat /\ job.kill \in Seq(Pod)
             /\ job.shared => setCache \in SetObj /\ setCache.status # NoStatus
  BY <1>1, JobParts, SetWith DEF Typed, TypeOK, Working
<1>2. setCache \in SetObj \cup {NoSet}
  BY DEF Typed, TypeOK
<1>3. ASSUME JobCreatesPod PROVE Goal
  <2> DEFINE p == CHOOSE q \in Forgotten : TRUE
             new == [job EXCEPT !.toCreate = @ - 1, !.obj.status.toRun = Append(@, p)]
  <2>1. /\ job' = new
        /\ setCache' = IF job.shared THEN [setCache EXCEPT !.status = new.obj.status]
                                     ELSE setCache
        /\ p \in Forgotten
    BY <1>3, Zenon DEF JobCreatesPod
  <2> HIDE DEF p
  <2>2. p \in Pod
    BY <2>1 DEF Forgotten
  <2>3. job # NoJob /\ job.toCreate \in Nat /\ job.toCreate > 0
    BY <1>1, <1>3 DEF JobCreatesPod
  <2>4. Append(job.obj.status.toRun, p) \in Seq(Pod)
    <3>1. job.obj.status.toRun \in Seq(Pod)
      BY <1>1, <2>3, StatusWith, Zenon
    <3>2. QED
      BY <2>2, <3>1
  <2>5. PICK s \in Status : s = [job.obj.status EXCEPT !.toRun = Append(job.obj.status.toRun, p)]
    <3>1. [job.obj.status EXCEPT !.toRun = Append(job.obj.status.toRun, p)] \in Status
      BY <1>1, <2>3, <2>4, StatusWith
    <3>2. QED
      BY <3>1, Zenon
  <2>6. PICK o \in SetObj : o = [job.obj EXCEPT !.status = s] /\ o.status = s
    <3>1. [job.obj EXCEPT !.status = s] \in SetObj /\ [job.obj EXCEPT !.status = s].status = s
      BY <1>1, <2>3, SetWith
    <3>2. QED
      BY <3>1, Zenon
  <2>7. PICK n \in Nat : n = job.toCreate - 1
    BY <2>3
  <2>8. new = [job EXCEPT !.toCreate = n, !.obj = o]
    BY <1>1, <2>3, <2>5, <2>6, <2>7 DEF Job
  <2> HIDE DEF new
  <2>9. new \in Job /\ new.obj = o /\ new.shared = job.shared /\ new.kind = job.kind
    BY <1>1, <2>3, <2>8 DEF Job
  <2>10. s # NoStatus
    BY StatusWith
  <2>11. CASE job.shared
    <3>1. /\ setCache \in SetObj /\ ~Bare(setCache) /\ setCache # NoSet
          /\ setCache' = [setCache EXCEPT !.status = s]
      BY <1>1, <2>1, <2>3, <2>6, <2>9, <2>11, SetWith DEF Bare
    <3>2. setCache' \in SetObj /\ setCache' # NoSet /\ setCache'.status # NoStatus
      BY <2>10, <3>1, SetWith
    <3>3. QED
      BY <2>1, <2>3, <2>6, <2>9, <2>10, <3>1, <3>2 DEF StatusKept, Bare
  <2>12. CASE ~job.shared
    BY <1>2, <2>1, <2>3, <2>6, <2>9, <2>10, <2>12 DEF StatusKept
  <2>13. QED
    BY <2>11, <2>12
<1>4. ASSUME job # NoJob, job' \in Job, job'.kind = job.kind, job'.shared = job.shared,
             job'.obj.status # NoStatus, setCache' = setCache
      PROVE  Goal
  BY <1>1, <1>2, <1>4, SetWith DEF StatusKept
<1>5. ASSUME JobFailsToCreate PROVE Goal
  <2>1. job # NoJob /\ job.toCreate > 0 /\ job' = [job EXCEPT !.toCreate = job.toCreate - 1]
        /\ setCache' = setCache
    BY <1>5 DEF JobFailsToCreate, caches
  <2>2. PICK n \in Nat : n = job.toCreate - 1
    BY <1>1, <2>1
  <2>3. job' = [job EXCEPT !.toCreate = n]
    BY <2>1, <2>2
  <2>4. job' \in Job /\ job'.kind = job.kind /\ job'.shared = job.shared /\ job'.obj = job.obj
    BY <1>1, <2>1, <2>3 DEF Job
  <2>5. QED
    BY <1>1, <1>4, <2>1, <2>4
<1>6. ASSUME JobDeletesPod PROVE Goal
  <2> DEFINE p == Head(job.kill)
  <2>1. job # NoJob /\ job.kill # <<>> /\ setCache' = setCache
    BY <1>6 DEF JobDeletesPod, caches
  <2>2. p \in Pod /\ Tail(job.kill) \in Seq(Pod)
    BY <1>1, <2>1
  <2>3. CASE pods[p] \in Phase
    <3>1. job' = [job EXCEPT !.kill = Tail(@),
                             !.record = IF job.kind = "remove" THEN NoPod ELSE p]
      BY <1>6, <2>3, Zenon DEF JobDeletesPod
    <3> HIDE DEF p
    <3>2. job' \in Job /\ job'.kind = job.kind /\ job'.shared = job.shared /\ job'.obj = job.obj
      BY <1>1, <2>1, <2>2, <3>1 DEF Job
    <3>3. QED
      BY <1>1, <1>4, <2>1, <3>2
  <2>4. CASE pods[p] \notin Phase
    <3>1. job' = [job EXCEPT !.kill = Tail(@),
                             !.obj.status.toKill = IF job.kind = "routine"
                                                   THEN RemoveFirst(@, p) ELSE @]
      BY <1>6, <2>4, Zenon DEF JobDeletesPod
    <3> HIDE DEF p
    <3>2. job.obj.status.toKill \in Seq(Pod)
      BY <1>1, <2>1, StatusWith
    <3>3. PICK rest \in Seq(Pod) : rest = IF job.kind = "routine"
                                          THEN RemoveFirst(job.obj.status.toKill, p)
                                          ELSE job.obj.status.toKill
      BY <3>2, RemoveFirstTyped
    <3>4. PICK s \in Status : s = [job.obj.status EXCEPT !.toKill = rest]
      BY <1>1, <2>1, StatusWith
    <3>5. PICK o \in SetObj : o = [job.obj EXCEPT !.status = s] /\ o.status = s
      <4>1. [job.obj EXCEPT !.status = s] \in SetObj /\ [job.obj EXCEPT !.status = s].status = s
        BY <1>1, <2>1, SetWith
      <4>2. QED
        BY <4>1, Zenon
    <3>6. job' = [job EXCEPT !.kill = Tail(job.kill), !.obj = o]
      BY <1>1, <2>1, <3>1, <3>3, <3>4, <3>5 DEF Job
    <3>7. job' \in Job /\ job'.kind = job.kind /\ job'.shared = job.shared /\ job'.obj = o
      BY <1>1, <2>1, <2>2, <3>6 DEF Job
    <3>8. o.status # NoStatus
      BY <3>5, StatusWith
    <3>9. QED
      BY <1>4, <2>1, <3>7, <3>8
  <2>5. QED
    BY <2>3, <2>4
<1>7. ASSUME JobFailsToDelete PROVE Goal
  <2>1. job # NoJob /\ job.kill # <<>> /\ setCache' = setCache
        /\ job' = [job EXCEPT !.kill = Tail(job.kill)]
    BY <1>7 DEF JobFailsToDelete, caches
  <2>2. Tail(job.kill) \in Seq(Pod)
    BY <1>1, <2>1
  <2>3. job' \in Job /\ job'.kind = job.kind /\ job'.shared = job.shared /\ job'.obj = job.obj
    BY <1>1, <2>1, <2>2 DEF Job
  <2>4. QED
    BY <1>1, <1>4, <2>1, <2>3
<1>8. ASSUME JobRecordsRemove \/ (JobLooksUp /\ set # NoSet) PROVE Goal
  <2>1. job # NoJob /\ setCache' = setCache
        /\ (job' = [job EXCEPT !.record = NoPod] \/ job' = [job EXCEPT !.found = TRUE])
    BY <1>8 DEF JobRecordsRemove, JobLooksUp, JobAtPut, caches
  <2>2. job' \in Job /\ job'.kind = job.kind /\ job'.shared = job.shared /\ job'.obj = job.obj
    BY <1>1, <2>1 DEF Job
  <2>3. QED
    BY <1>1, <1>4, <2>1, <2>2
<1>9. QED
  BY <1>3, <1>5, <1>6, <1>7, <1>8

\* What the holder of biglock does.
LEMMA JobTyped ==
    ASSUME Typed, JobSteps \/ JobFailsToCreate \/ JobFailsToDelete \/ JobFailsToWrite
    PROVE  Typed'
<1>1. ASSUME \/ JobCreatesPod \/ JobFailsToCreate \/ JobDeletesPod \/ JobFailsToDelete
             \/ JobRecordsRemove \/ (JobLooksUp /\ set # NoSet)
      PROVE  Typed'
  <2>1. /\ job # NoJob /\ job' \in Job
        /\ setCache' \in SetObj \cup {NoSet} /\ (setCache # NoSet => setCache' # NoSet)
    BY <1>1, JobGoesOn
  <2>2. Working'
    BY <1>1, JobGoesOn DEF Working
  <2>3. UNCHANGED <<setInf, setOut, setChan>>
    BY <1>1 DEF JobCreatesPod, JobFailsToCreate, JobDeletesPod, JobFailsToDelete, JobRecordsRemove,
                JobLooksUp, informers, chans
  <2>4. Shares'
    BY <2>1, <2>3 DEF Typed, Shares
  <2>5. TypeOK'
    <3>1. CASE JobCreatesPod
      <4> DEFINE p == CHOOSE q \in Forgotten : TRUE
      <4>1. /\ pods' = [pods EXCEPT ![p] = "created"]
            /\ rmCache' = rmCache \ {p} /\ missed' = missed \ {p} /\ raced' = raced \ {p}
            /\ revived' = revived \ {p}
        BY <3>1, Zenon DEF JobCreatesPod
      <4> HIDE DEF p
      <4>2. pods' \in [Pod -> Phase \cup {"gone"}]
        BY <4>1 DEF Typed, TypeOK, Phase
      <4>3. QED
        BY <2>1, <3>1, <4>1, <4>2 DEF JobCreatesPod, Typed, TypeOK, streams, informers, chans,
                                      requests, budgets
    <3>2. CASE JobFailsToCreate \/ JobFailsToDelete
      <4>1. /\ incidents' \in 0..MaxIncidents /\ rescales' \in 0..MaxRescales
            /\ user' \in {"none", "created", "deleted"}
        BY <3>2, IncidentTyped DEF JobFailsToCreate, JobFailsToDelete, Typed, TypeOK
      <4>2. tidy' \in BOOLEAN
        BY <3>2 DEF JobFailsToCreate, JobFailsToDelete, history, Typed, TypeOK
      <4>3. QED
        BY <2>1, <3>2, <4>1, <4>2
           DEF JobFailsToCreate, JobFailsToDelete, Typed, TypeOK, etcd, streams, requests,
               informers, caches,
               chans, history
    <3>3. CASE JobDeletesPod
      <4>1. job.kill \in Seq(Pod) /\ job.kill # <<>>
        BY <2>1, <3>3, JobParts DEF JobDeletesPod, Typed, TypeOK
      <4>2. Head(job.kill) \in Pod
        BY <4>1
      <4>3. WritePod(Head(job.kill), "gone") \/ UNCHANGED <<pods, podStream, missed>>
        BY <3>3, Zenon DEF JobDeletesPod
      <4>4. /\ pods' \in [Pod -> Phase \cup {"gone"}] /\ missed' \subseteq Pod
            /\ podStream' \in Seq(PodMsg)
        BY <4>2, <4>3, WritePodTyped DEF Typed, TypeOK
      <4>5. QED
        BY <2>1, <3>3, <4>4 DEF JobDeletesPod, Typed, TypeOK, informers, caches, chans, requests,
                                budgets
    <3>4. CASE JobRecordsRemove
      <4>1. job.record \in Pod
        BY <2>1, <3>4, JobParts DEF JobRecordsRemove, Typed, TypeOK
      <4>2. /\ podCache' \in [Pod -> {"none", "running", "bad"}]
            /\ rmCache' \subseteq Pod /\ raced' \subseteq Pod
        BY <3>4, <4>1 DEF JobRecordsRemove, Typed, TypeOK
      <4>3. QED
        BY <2>1, <3>4, <4>2
           DEF JobRecordsRemove, Typed, TypeOK, etcd, streams, informers, chans, requests, budgets
    <3>5. CASE JobLooksUp
      BY <2>1, <3>5
         DEF JobLooksUp, Typed, TypeOK, etcd, streams, informers, caches, chans, requests,
             budgets, history
    <3>6. QED
      BY <1>1, <3>1, <3>2, <3>3, <3>4, <3>5
  <2>6. QED
    BY <2>2, <2>4, <2>5 DEF Typed
<1>2. ASSUME JobEndsRemove \/ (JobLooksUp /\ set = NoSet) PROVE Typed'
  BY <1>2 DEF JobEndsRemove, JobLooksUp, Typed, TypeOK, Shares, Working, etcd, streams, informers,
              caches, chans, requests, budgets, history
<1>3. ASSUME JobWrites PROVE Typed'
  <2>1. job.obj \in SetObj
    BY <1>3, JobParts DEF JobWrites, JobAtPut, Typed, TypeOK
  <2>2. /\ set' \in SetObj \cup {NoSet} /\ unseen' \in BOOLEAN
        /\ setStream' \in Seq(SetObj \cup {NoSet})
    BY <1>3, <2>1, WriteSetTyped DEF JobWrites
  <2>3. QED
    BY <1>3, <2>2
       DEF JobWrites, Typed, TypeOK, Shares, Working, informers, caches, chans, requests, budgets
<1>4. ASSUME JobFailsToWrite PROVE Typed'
  <2>1. /\ incidents' \in 0..MaxIncidents /\ rescales' \in 0..MaxRescales
        /\ user' \in {"none", "created", "deleted"}
    BY <1>4, IncidentTyped DEF JobFailsToWrite, Typed, TypeOK
  <2>2. unseen' \in BOOLEAN
    BY <1>4 DEF JobFailsToWrite, Typed, TypeOK
  <2>3. setReq' \in SetObj \cup {NoSet}
    BY <1>4, OutlivedTyped DEF JobFailsToWrite, Typed, TypeOK
  <2>4. QED
    BY <1>4, <2>1, <2>2, <2>3
       DEF JobFailsToWrite, Typed, TypeOK, Shares, Working, etcd, streams, requests, informers,
           caches, chans
<1>5. QED
  BY <1>1, <1>2, <1>3, <1>4 DEF JobSteps

\* A step of a pod: a PUT of it, or what a user does.
PodStep(p) ==
    \/ PodRuns(p) \/ PodGoesBad(p) \/ PodReports(p) \/ PodPutLands(p) \/ UserDeletesPod(p)

\* What the API server, users and cubelets do, and what starts and kills the manager.
LEMMA OthersTyped ==
    ASSUME Typed,
           \/ ScaleReads \/ SetPutLands \/ CreateSet \/ DeleteSet \/ Start \/ Kill
           \/ \E p \in Pod : PodStep(p)
    PROVE  Typed'
<1>1. ASSUME ScaleReads PROVE Typed'
  <2>1. setCache \in SetObj
    BY <1>1 DEF ScaleReads, Typed, TypeOK
  <2>2. setReq' \in SetObj
    BY <1>1, <2>1, SetWith DEF ScaleReads
  <2>3. /\ incidents' \in 0..MaxIncidents /\ rescales' \in 0..MaxRescales
        /\ user' \in {"none", "created", "deleted"}
    BY <1>1, IncidentTyped DEF ScaleReads, Typed, TypeOK
  <2>4. QED
    BY <1>1, <2>2, <2>3
       DEF ScaleReads, Typed, TypeOK, Shares, Working, etcd, streams, manager, informers,
           caches, chans, history
<1>2. ASSUME SetPutLands PROVE Typed'
  <2>1. /\ set' \in SetObj \cup {NoSet} /\ unseen' \in BOOLEAN
        /\ setStream' \in Seq(SetObj \cup {NoSet})
    BY <1>2, WriteSetTyped DEF SetPutLands, Typed, TypeOK
  <2>2. QED
    BY <1>2, <2>1
       DEF SetPutLands, Typed, TypeOK, Shares, Working, manager, informers, caches, chans,
           requests, budgets
<1>3. ASSUME CreateSet PROVE Typed'
  <2>1. PICK n \in Replicas : WriteSet([replicas |-> n, status |-> NoStatus])
    BY <1>3 DEF CreateSet
  <2>2. [replicas |-> n, status |-> NoStatus] \in SetObj
    BY DEF SetObj
  <2>3. /\ set' \in SetObj \cup {NoSet} /\ unseen' \in BOOLEAN
        /\ setStream' \in Seq(SetObj \cup {NoSet})
    BY <2>1, <2>2, WriteSetTyped
  <2>4. QED
    BY <1>3, <2>3
       DEF CreateSet, Typed, TypeOK, Shares, Working, manager, informers, caches, chans, requests
<1>4. ASSUME DeleteSet PROVE Typed'
  <2>1. /\ set' \in SetObj \cup {NoSet} /\ unseen' \in BOOLEAN
        /\ setStream' \in Seq(SetObj \cup {NoSet})
    BY <1>4, WriteSetTyped DEF DeleteSet
  <2>2. /\ incidents' \in 0..MaxIncidents /\ rescales' \in 0..MaxRescales
        /\ user' \in {"none", "created", "deleted"}
    BY <1>4, IncidentTyped DEF DeleteSet, Typed, TypeOK
  <2>3. tidy' \in BOOLEAN
    BY <1>4 DEF DeleteSet
  <2>4. QED
    BY <1>4, <2>1, <2>2, <2>3
       DEF DeleteSet, Typed, TypeOK, Shares, Working, manager, informers, caches, chans, requests
<1>5. ASSUME Start PROVE Typed'
  BY <1>5 DEF Start, Typed, TypeOK, Shares, Working, etcd, streams, informers, caches, chans,
              requests, budgets, history
<1>6. ASSUME Kill PROVE Typed'
  <2>1. /\ incidents' \in 0..MaxIncidents /\ rescales' \in 0..MaxRescales
        /\ user' \in {"none", "created", "deleted"}
    BY <1>6, IncidentTyped DEF Kill, Typed, TypeOK
  <2>2. QED
    BY <1>6, <2>1, DownTyped DEF Kill
<1>7. ASSUME NEW p \in Pod, PodStep(p)
      PROVE  Typed'
  <2>1. ASSUME PodRuns(p) \/ PodGoesBad(p) \/ PodReports(p) PROVE Typed'
    <3>1. PICK phase \in Phase : PutPod(p, phase)
      BY <2>1 DEF PodRuns, PodGoesBad, PodReports, PutPod, Phase
    <3>2. podReq' \in [Pod -> Phase \cup {"none"}]
      BY <3>1 DEF PutPod, Typed, TypeOK
    <3>3. /\ incidents' \in 0..MaxIncidents /\ rescales' \in 0..MaxRescales
          /\ user' \in {"none", "created", "deleted"}
      BY <2>1, IncidentTyped DEF PodRuns, PodGoesBad, PodReports, budgets, Typed, TypeOK
    <3>4. QED
      BY <3>1, <3>2, <3>3
         DEF PutPod, Typed, TypeOK, Shares, Working, etcd, streams, manager, informers, caches,
             chans, history
  <2>2. ASSUME PodPutLands(p) PROVE Typed'
    <3>1. podReq[p] \in Phase /\ WritePod(p, podReq[p])
      BY <2>2 DEF PodPutLands, Typed, TypeOK
    <3>2. /\ pods' \in [Pod -> Phase \cup {"gone"}] /\ missed' \subseteq Pod
          /\ podStream' \in Seq(PodMsg)
      BY <3>1, WritePodTyped
    <3>3. revived' \subseteq Pod /\ podReq' \in [Pod -> Phase \cup {"none"}] /\ tidy' \in BOOLEAN
      BY <2>2 DEF PodPutLands, Typed, TypeOK
    <3>4. QED
      BY <2>2, <3>2, <3>3
         DEF PodPutLands, Typed, TypeOK, Shares, Working, manager, informers, caches, chans, budgets
  <2>3. ASSUME UserDeletesPod(p) PROVE Typed'
    <3>1. /\ pods' \in [Pod -> Phase \cup {"gone"}] /\ missed' \subseteq Pod
          /\ podStream' \in Seq(PodMsg)
      BY <2>3, WritePodTyped DEF UserDeletesPod
    <3>2. /\ incidents' \in 0..MaxIncidents /\ rescales' \in 0..MaxRescales
          /\ user' \in {"none", "created", "deleted"}
      BY <2>3, IncidentTyped DEF UserDeletesPod, Typed, TypeOK
    <3>3. QED
      BY <2>3, <3>1, <3>2
         DEF UserDeletesPod, Typed, TypeOK, Shares, Working, manager, informers, caches, chans,
             requests
  <2>4. QED
    BY <1>7, <2>1, <2>2, <2>3 DEF PodStep
<1>8. QED
  BY <1>1, <1>2, <1>3, <1>4, <1>5, <1>6, <1>7

\* Every step keeps the types.
LEMMA StepTyped ==
    ASSUME Typed, [Next]_vars
    PROVE  Typed'
<1>1. CASE Next
  BY <1>1, SetInformerTyped, PodInformerTyped, HandlersTyped, RoutineTyped, JobTyped, OthersTyped,
     Zenon DEF Next, Informers, Failures, PodStep
<1>2. CASE UNCHANGED vars
  BY <1>2 DEF Typed, TypeOK, Shares, Working, vars, etcd, streams, informers, caches, chans,
              manager, requests, budgets, history
<1>3. QED
  BY <1>1, <1>2

LEMMA InitTyped == Init => Typed
<1> SUFFICES ASSUME Init PROVE Typed
  OBVIOUS
<1>1. [p \in Pod |-> "none"] \in [Pod -> {"none", "running", "bad"}]
      /\ [p \in Pod |-> "gone"] \in [Pod -> Phase \cup {"gone"}]
      /\ [p \in Pod |-> "none"] \in [Pod -> Phase \cup {"none"}]
  OBVIOUS
<1>2. /\ <<>> \in Seq(SetObj \cup {NoSet}) /\ <<>> \in Seq(PodMsg) /\ <<>> \in Seq(SetEvent)
      /\ <<>> \in Seq(PodEvent) /\ Len(<<>>) = 0 /\ 0 <= ChanCap
      /\ 0 \in 0..MaxIncidents /\ 0 \in 0..MaxRescales
  BY BoundAssumption
<1>3. TypeOK
  BY <1>1, <1>2 DEF Init, TypeOK
<1>4. Shares /\ Working
  BY <1>2 DEF Init, Shares, Working
<1>5. QED
  BY <1>3, <1>4 DEF Typed

\* Every variable keeps its type, for any finite set of pods and any bounds: no
\* channel overflows, slices the handlers cut and append to list pods, and no
\* handler writes through the Status of a ReplicaSet that is not there.
THEOREM SetsTyped == Spec => []TypeOK
<1>1. Typed /\ [Next]_vars => Typed'
  BY StepTyped
<1>2. Typed => TypeOK
  BY DEF Typed
<1>3. QED
  BY InitTyped, <1>1, <1>2, PTL DEF Spec

-----------------------------------------------------------------------------
(* Why the cache counts a pod that is gone *)

\* GhostHasCause rests on what is still on its way to the cache.  s is a stream of
\* messages about pods: from its k-th on one tells that p is gone; every message of
\* p is such a one or has one behind it.
GoneMsg(p) == [pod |-> p, phase |-> "gone"]
GoneFrom(s, p, k) == \E j \in k..Len(s) : s[j] = GoneMsg(p)
EndsGone(s, p) == \A k \in 1..Len(s) : s[k].pod = p => GoneFrom(s, p, k)

\* A pod recorded as removed is gone and not cached, unless the informer held an
\* event of it then or the pod has come back; so is a pod that is about to be recorded.
Removed == \A p \in rmCache \ revived :
    pods[p] = "gone" /\ (podCache[p] = "none" \/ p \in raced)
Recorded == job # NoJob /\ job.record # NoPod =>
    pods[job.record] = "gone" \/ job.record \in revived
Passed == podHand # NoEvent /\ podHand.pod \in rmCache => podHand.pod \in raced

\* That a cached pod is gone will be told, unless its deletion may go unheard.
Told == \A p \in Pod \ Unheard : pods[p] = "gone" /\ podCache[p] # "none" =>
    GoneFrom(podStream, p, 1) \/ podHand = GoneMsg(p)

\* It is told behind whatever else is still told of the pod.
ToldLast == \A p \in Pod \ missed : pods[p] = "gone" =>
    /\ EndsGone(podStream, p)
    /\ podHand # NoEvent /\ podHand.pod = p /\ podHand.phase # "gone" =>
         GoneFrom(podStream, p, 1) \/ p \in raced

Unwatched == podInf # "watch" => podStream = <<>> /\ podHand = NoEvent

GhostInv == Typed /\ Removed /\ Recorded /\ Passed /\ Told /\ ToldLast /\ Unwatched

\* A message about p that is not another phase tells that p is gone.
LEMMA IsGoneMsg ==
    ASSUME NEW m \in PodMsg
    PROVE  /\ m.pod \in Pod /\ m.phase \in {"running", "bad", "gone"} /\ m # NoEvent
           /\ m.phase = "gone" => m = GoneMsg(m.pod)
           /\ \A p : m = GoneMsg(p) => m.pod = p /\ m.phase = "gone"
  BY NoValueAssumption DEF PodMsg, GoneMsg

\* What a message sent last adds.
LEMMA GoneAppended ==
    ASSUME NEW s \in Seq(PodMsg), NEW m \in PodMsg, NEW p
    PROVE  /\ \A k \in Nat \ {0} : GoneFrom(s, p, k) => GoneFrom(Append(s, m), p, k)
           /\ m = GoneMsg(p) => /\ GoneFrom(Append(s, m), p, 1)
                                /\ EndsGone(Append(s, m), p)
           /\ m.pod # p /\ EndsGone(s, p) => EndsGone(Append(s, m), p)
<1> DEFINE t == Append(s, m)
<1>1. /\ Len(s) \in Nat /\ Len(t) = Len(s) + 1 /\ t[Len(s) + 1] = m
      /\ \A i \in 1..Len(s) : t[i] = s[i]
  OBVIOUS
<1> HIDE DEF t
<1>2. ASSUME NEW k \in Nat \ {0}, GoneFrom(s, p, k) PROVE GoneFrom(t, p, k)
  BY <1>1, <1>2 DEF GoneFrom
<1>3. ASSUME m = GoneMsg(p), NEW k \in 1..Len(t) PROVE GoneFrom(t, p, k)
  BY <1>1, <1>3 DEF GoneFrom
<1>4. ASSUME m.pod # p, EndsGone(s, p) PROVE EndsGone(t, p)
  <2>1. ASSUME NEW k \in 1..Len(t), t[k].pod = p PROVE GoneFrom(t, p, k)
    <3>1. k \in 1..Len(s)
      BY <1>1, <1>4, <2>1
    <3>2. GoneFrom(s, p, k)
      BY <1>1, <1>4, <2>1, <3>1 DEF EndsGone
    <3>3. QED
      BY <1>2, <3>1, <3>2
  <2>2. QED
    BY <2>1 DEF EndsGone
<1>5. QED
  BY <1>1, <1>2, <1>3, <1>4 DEF EndsGone, t

\* What is left when the first message has been read.
LEMMA GoneBehind ==
    ASSUME NEW s \in Seq(PodMsg), s # <<>>, NEW p
    PROVE  /\ GoneFrom(s, p, 1) => Head(s) = GoneMsg(p) \/ GoneFrom(Tail(s), p, 1)
           /\ EndsGone(s, p) => EndsGone(Tail(s), p)
           /\ EndsGone(s, p) /\ Head(s).pod = p /\ Head(s) # GoneMsg(p) =>
                GoneFrom(Tail(s), p, 1)
<1> DEFINE t == Tail(s)
<1>1. /\ Len(s) \in Nat /\ Len(s) > 0 /\ Len(t) = Len(s) - 1 /\ Head(s) = s[1]
      /\ \A i \in 1..Len(t) : t[i] = s[i + 1]
  OBVIOUS
<1> HIDE DEF t
<1>2. ASSUME NEW j \in 2..Len(s), s[j] = GoneMsg(p)
      PROVE  j - 1 \in 1..Len(t) /\ t[j - 1] = GoneMsg(p)
  <2>1. j - 1 \in 1..Len(t) /\ (j - 1) + 1 = j
    BY <1>1
  <2>2. QED
    BY <1>1, <1>2, <2>1
<1>3. ASSUME GoneFrom(s, p, 1) PROVE Head(s) = GoneMsg(p) \/ GoneFrom(t, p, 1)
  <2>1. PICK j \in 1..Len(s) : s[j] = GoneMsg(p)
    BY <1>3 DEF GoneFrom
  <2>2. j = 1 \/ j \in 2..Len(s)
    BY <1>1
  <2>3. QED
    BY <1>1, <1>2, <2>1, <2>2 DEF GoneFrom
<1>4. ASSUME EndsGone(s, p) PROVE EndsGone(t, p)
  <2>1. ASSUME NEW k \in 1..Len(t), t[k].pod = p PROVE GoneFrom(t, p, k)
    <3>1. k + 1 \in 1..Len(s) /\ s[k + 1].pod = p
      BY <1>1, <2>1
    <3>2. PICK j \in (k + 1)..Len(s) : s[j] = GoneMsg(p)
      BY <1>4, <3>1 DEF EndsGone, GoneFrom
    <3>3. j \in 2..Len(s) /\ j - 1 \in k..Len(t)
      BY <1>1
    <3>4. QED
      BY <1>2, <3>2, <3>3 DEF GoneFrom
  <2>2. QED
    BY <2>1 DEF EndsGone
<1>5. ASSUME EndsGone(s, p), Head(s).pod = p, Head(s) # GoneMsg(p) PROVE GoneFrom(t, p, 1)
  <2>1. GoneFrom(s, p, 1)
    BY <1>1, <1>5 DEF EndsGone
  <2>2. QED
    BY <1>3, <1>5, <2>1
<1>6. QED
  BY <1>3, <1>4, <1>5 DEF t

\* A step that leaves pods, what is told of them and what is recorded of them alone.
LEMMA GhostUntouched ==
    ASSUME GhostInv, Typed',
           UNCHANGED <<pods, podStream, podHand, podCache, rmCache, missed, raced, revived,
                       podInf>>,
           job' # NoJob /\ job'.record # NoPod => job # NoJob /\ job'.record = job.record
    PROVE  GhostInv'
  BY DEF GhostInv, Removed, Recorded, Passed, Told, ToldLast, Unwatched, Unheard

\* A pod gets another phase, or comes back with one.
LEMMA PodWritten ==
    ASSUME GhostInv, Typed', NEW p \in Pod,
           NEW phase \in Phase \cup {"gone"}, WritePod(p, phase),
           revived' = IF pods[p] = "gone" THEN revived \cup {p} ELSE revived,
           UNCHANGED <<podHand, podCache, rmCache, raced, podInf>>,
           job' # NoJob /\ job'.record # NoPod =>
              \/ job # NoJob /\ job'.record = job.record
              \/ phase = "gone" /\ job'.record = p
    PROVE  GhostInv'
<1> DEFINE m == [pod |-> p, phase |-> phase]
<1>1. /\ podStream \in Seq(PodMsg) /\ pods \in [Pod -> Phase \cup {"gone"}] /\ rmCache \subseteq Pod
      /\ job # NoJob => job.record \in Pod \cup {NoPod}
  BY JobParts DEF GhostInv, Typed, TypeOK
<1>2. phase # "created" => m \in PodMsg /\ m.pod = p /\ (phase = "gone" => m = GoneMsg(p))
  BY DEF PodMsg, GoneMsg, Phase
<1>3. /\ pods' = [pods EXCEPT ![p] = phase]
      /\ podStream' = IF podInf = "watch" /\ phase # "created" THEN Append(podStream, m)
                                                              ELSE podStream
      /\ missed' = IF podInf # "watch" /\ phase = "gone" THEN missed \cup {p} ELSE missed
  BY DEF WritePod
<1> HIDE DEF m
<1>4. pods'[p] = phase /\ \A q \in Pod : q # p => pods'[q] = pods[q]
  BY <1>1, <1>3
<1>5. p \in rmCache => p \in revived'
  BY DEF GhostInv, Removed
<1>6. Removed'
  BY <1>1, <1>4, <1>5 DEF GhostInv, Removed
<1>7. Recorded'
  BY <1>1, <1>4 DEF GhostInv, Recorded
<1>8. Passed'
  BY DEF GhostInv, Passed
<1>9. ASSUME NEW q \in Pod
      PROVE  /\ GoneFrom(podStream, q, 1) => GoneFrom(podStream', q, 1)
             /\ q # p /\ EndsGone(podStream, q) => EndsGone(podStream', q)
  BY <1>1, <1>2, <1>3, GoneAppended
<1>10. podInf = "watch" /\ phase = "gone" => GoneFrom(podStream', p, 1) /\ EndsGone(podStream', p)
  BY <1>1, <1>2, <1>3, GoneAppended
<1>11. ASSUME NEW q \in Pod \ Unheard', pods'[q] = "gone", podCache'[q] # "none"
       PROVE  GoneFrom(podStream', q, 1) \/ podHand' = GoneMsg(q)
  <2>1. CASE q = p
    BY <1>3, <1>4, <1>10, <1>11, <2>1 DEF Unheard
  <2>2. CASE q # p
    BY <1>3, <1>4, <1>9, <1>11, <2>2 DEF GhostInv, Told, Unheard
  <2>3. QED
    BY <2>1, <2>2
<1>12. ASSUME NEW q \in Pod \ missed', pods'[q] = "gone"
       PROVE  /\ EndsGone(podStream', q)
              /\ podHand' # NoEvent /\ podHand'.pod = q /\ podHand'.phase # "gone" =>
                   GoneFrom(podStream', q, 1) \/ q \in raced'
  <2>1. CASE q = p
    BY <1>3, <1>4, <1>10, <1>12, <2>1
  <2>2. CASE q # p
    BY <1>3, <1>4, <1>9, <1>12, <2>2 DEF GhostInv, ToldLast
  <2>3. QED
    BY <2>1, <2>2
<1>13. Told'
  BY <1>11 DEF Told
<1>14. ToldLast'
  BY <1>12 DEF ToldLast
<1>15. Unwatched'
  BY <1>3 DEF GhostInv, Unwatched
<1>16. QED
  BY <1>6, <1>7, <1>8, <1>13, <1>14, <1>15 DEF GhostInv

\* What the pod informer does.
LEMMA PodInformerGhost ==
    ASSUME GhostInv, Typed',
           ListPods \/ WatchPods \/ ReceivePod \/ InformPod \/ SendPod \/ LosePodWatch
    PROVE  GhostInv'
<1>1. /\ podStream \in Seq(PodMsg) /\ rmCache \subseteq Pod /\ podHand \in PodMsg \cup {NoEvent}
      /\ podCache \in [Pod -> {"none", "running", "bad"}]
  BY DEF GhostInv, Typed, TypeOK
<1>2. ASSUME ListPods PROVE GhostInv'
  <2>1. /\ podInf # "watch" /\ podInf' # "watch" /\ podHand = NoEvent /\ podStream = <<>>
        /\ podCache' = [p \in Pod |-> IF pods[p] \in {"running", "bad"} THEN pods[p]
                                                                       ELSE podCache[p]]
        /\ UNCHANGED <<pods, podStream, podHand, rmCache, missed, raced, revived, job>>
    BY <1>2 DEF ListPods, GhostInv, Unwatched, etcd, streams, chans, history
  <2>2. \A p \in Pod : pods[p] = "gone" => podCache'[p] = podCache[p]
    BY <2>1
  <2>3. Removed' /\ Recorded' /\ Passed'
    BY <1>1, <2>1, <2>2 DEF GhostInv, Removed, Recorded, Passed
  <2>4. Told' /\ ToldLast' /\ Unwatched'
    BY <2>1, <2>2 DEF GhostInv, Told, ToldLast, Unwatched, Unheard
  <2>5. QED
    BY <2>3, <2>4 DEF GhostInv
<1>3. ASSUME WatchPods PROVE GhostInv'
  BY <1>3 DEF WatchPods, GhostInv, Removed, Recorded, Passed, Told, ToldLast, Unwatched, Unheard,
              etcd, streams, caches, chans, history
<1>4. ASSUME ReceivePod PROVE GhostInv'
  <2>1. PICK m \in PodMsg : m = Head(podStream) /\ podStream # <<>>
    BY <1>1, <1>4 DEF ReceivePod
  <2>2. /\ podHand = NoEvent /\ podStream' = Tail(podStream)
        /\ podHand' = IF m.pod \in rmCache THEN NoEvent ELSE m
        /\ UNCHANGED <<pods, podCache, rmCache, missed, raced, revived, podInf, job>>
        /\ podInf = "watch"
    BY <1>4, <2>1 DEF ReceivePod, etcd, caches, chans, history
  <2>3. Removed' /\ Recorded' /\ Passed' /\ Unwatched'
    BY <2>2 DEF GhostInv, Removed, Recorded, Passed, Unwatched
  <2>4. ASSUME NEW q \in Pod \ Unheard, pods[q] = "gone", podCache[q] # "none"
        PROVE  GoneFrom(podStream', q, 1) \/ podHand' = GoneMsg(q)
    <3>1. GoneFrom(podStream, q, 1)
      BY <2>2, <2>4, IsGoneMsg DEF GhostInv, Told, GoneMsg, PodMsg
    <3>2. m = GoneMsg(q) \/ GoneFrom(podStream', q, 1)
      BY <1>1, <2>1, <2>2, <3>1, GoneBehind
    <3>3. m = GoneMsg(q) => m.pod = q /\ q \notin rmCache
      BY <2>4, IsGoneMsg DEF GhostInv, Removed, Unheard
    <3>4. QED
      BY <2>2, <3>2, <3>3
  <2>5. ASSUME NEW q \in Pod \ missed, pods[q] = "gone"
        PROVE  /\ EndsGone(podStream', q)
               /\ podHand' # NoEvent /\ podHand'.pod = q /\ podHand'.phase # "gone" =>
                    GoneFrom(podStream', q, 1)
    <3>1. EndsGone(podStream, q)
      BY <2>5 DEF GhostInv, ToldLast
    <3>2. EndsGone(podStream', q)
      BY <1>1, <2>1, <2>2, <3>1, GoneBehind
    <3>3. ASSUME m.pod = q, m.phase # "gone" PROVE GoneFrom(podStream', q, 1)
      BY <1>1, <2>1, <2>2, <3>1, <3>3, GoneBehind, IsGoneMsg
    <3>4. QED
      BY <2>2, <3>2, <3>3
  <2>6. Told' /\ ToldLast'
    BY <2>2, <2>4, <2>5 DEF Told, ToldLast, Unheard
  <2>7. QED
    BY <2>3, <2>6 DEF GhostInv
<1>5. ASSUME InformPod PROVE GhostInv'
  <2>1. podHand \in PodMsg /\ podHand # NoEvent
    BY <1>1, <1>5 DEF InformPod
  <2>2. PICK p \in Pod : p = podHand.pod
    BY <2>1, IsGoneMsg
  <2>3. /\ podCache' = [podCache EXCEPT ![p] = CachedPhase(podCache[p], podHand.phase)]
        /\ podHand' = NoEvent
        /\ UNCHANGED <<pods, podStream, rmCache, missed, raced, revived, podInf, job>>
    BY <1>5, <2>2 DEF InformPod, etcd, streams, chans, history
  <2>4. /\ \A q \in Pod : q # p => podCache'[q] = podCache[q]
        /\ podHand.phase = "gone" => podCache'[p] = "none"
    BY <1>1, <2>3 DEF CachedPhase
  <2>5. p \in rmCache => p \in raced
    BY <2>1, <2>2 DEF GhostInv, Passed
  <2>6. Removed' /\ Recorded' /\ Passed' /\ Unwatched'
    BY <1>1, <2>3, <2>4, <2>5 DEF GhostInv, Removed, Recorded, Passed, Unwatched
  <2>7. ASSUME NEW q \in Pod \ Unheard, pods[q] = "gone", podCache'[q] # "none"
        PROVE  GoneFrom(podStream, q, 1)
    <3>1. CASE q # p
      BY <2>1, <2>2, <2>4, <2>7, <3>1, IsGoneMsg DEF GhostInv, Told
    <3>2. CASE q = p
      BY <2>1, <2>2, <2>4, <2>7, <3>2 DEF GhostInv, ToldLast, Unheard
    <3>3. QED
      BY <3>1, <3>2
  <2>8. Told' /\ ToldLast'
    BY <2>3, <2>7 DEF GhostInv, Told, ToldLast, Unheard
  <2>9. QED
    BY <2>6, <2>8 DEF GhostInv
<1>6. ASSUME SendPod PROVE GhostInv'
  BY <1>6, GhostUntouched DEF SendPod, etcd, streams, caches, history
<1>7. ASSUME LosePodWatch PROVE GhostInv'
  <2>1. /\ podHand = NoEvent /\ podStream' = <<>>
        /\ missed' = missed \cup {m.pod : m \in {x \in ToSet(podStream) : x.phase = "gone"}}
        /\ UNCHANGED <<pods, podHand, podCache, rmCache, raced, revived, job>>
    BY <1>7 DEF LosePodWatch, etcd, caches, chans
  <2>2. Removed' /\ Recorded' /\ Passed' /\ Unwatched'
    BY <2>1 DEF GhostInv, Removed, Recorded, Passed, Unwatched
  <2>3. ASSUME NEW q \in Pod, GoneFrom(podStream, q, 1) PROVE q \in missed'
    <3>1. PICK j \in 1..Len(podStream) : podStream[j] = GoneMsg(q)
      BY <2>3 DEF GoneFrom
    <3>2. GoneMsg(q) \in {x \in ToSet(podStream) : x.phase = "gone"} /\ GoneMsg(q).pod = q
      BY <1>1, <3>1 DEF ToSet, GoneMsg
    <3>3. QED
      BY <2>1, <3>2
  <2>4. Told'
    <3>1. ASSUME NEW q \in Pod \ Unheard', pods[q] = "gone", podCache[q] # "none"
          PROVE  FALSE
      <4>1. q \notin Unheard /\ q \notin missed'
        BY <2>1, <3>1 DEF Unheard
      <4>2. GoneFrom(podStream, q, 1) \/ podHand = GoneMsg(q)
        BY <3>1, <4>1 DEF GhostInv, Told
      <4>3. podHand # GoneMsg(q)
        BY <2>1, IsGoneMsg DEF GoneMsg, PodMsg
      <4>4. QED
        BY <2>3, <4>1, <4>2, <4>3
    <3>2. QED
      BY <2>1, <3>1 DEF Told
  <2>5. ToldLast'
    BY <2>1 DEF ToldLast, EndsGone
  <2>6. QED
    BY <2>2, <2>4, <2>5 DEF GhostInv
<1>8. QED
  BY <1>2, <1>3, <1>4, <1>5, <1>6, <1>7

\* A pod to be recorded as removed is not forgotten.
LEMMA RecordKnown ==
    ASSUME job # NoJob
    PROVE  job.record \in Known
<1> DEFINE streamed ==
             UNION ({StatusRefs(o) : o \in {set, setCache, setReq} \cup ToSet(setStream)
                                         \cup {e.obj : e \in ToSet(setChan)}}
                    \cup {{m.pod : m \in ToSet(podStream)}, {e.pod : e \in ToSet(podChan)},
                          {p \in Pod : podReq[p] # "none" \/ podCache[p] # "none"}})
           hand == IF podHand = NoEvent THEN {} ELSE {podHand.pod}
           out == IF podOut = NoEvent THEN {} ELSE {podOut.pod}
           told == IF setOut = NoEvent THEN {} ELSE StatusRefs(setOut.obj)
           held == IF job = NoJob THEN {} ELSE StatusRefs(job.obj) \cup ToSet(job.kill)
                                                 \cup {job.record}
<1>1. Known = streamed \cup hand \cup out \cup told \cup held
  BY Zenon DEF Known
<1>2. job.record \in held
  OBVIOUS
<1> HIDE DEF streamed, hand, out, told, held
<1>3. QED
  BY <1>1, <1>2

\* What the holder of biglock does to pods and to what is recorded of them.
LEMMA JobGhost ==
    ASSUME GhostInv, Typed',
           JobSteps \/ JobFailsToCreate \/ JobFailsToDelete \/ JobFailsToWrite
    PROVE  GhostInv'
<1>1. /\ pods \in [Pod -> Phase \cup {"gone"}] /\ rmCache \subseteq Pod
      /\ podCache \in [Pod -> {"none", "running", "bad"}]
      /\ job # NoJob => job \in Job /\ job.record \in Pod \cup {NoPod} /\ job.kill \in Seq(Pod)
  BY JobParts DEF GhostInv, Typed, TypeOK
<1>2. ASSUME JobCreatesPod PROVE GhostInv'
  <2> DEFINE p == CHOOSE q \in Forgotten : TRUE
  <2>1. /\ pods' = [pods EXCEPT ![p] = "created"]
        /\ rmCache' = rmCache \ {p} /\ missed' = missed \ {p} /\ raced' = raced \ {p}
        /\ revived' = revived \ {p} /\ p \in Forgotten
    BY <1>2, Zenon DEF JobCreatesPod
  <2> HIDE DEF p
  <2>2. job # NoJob /\ job'.record = job.record
        /\ UNCHANGED <<podStream, podHand, podCache, podInf>>
    <3>1. job # NoJob
          /\ \E q : job' = [job EXCEPT !.toCreate = @ - 1, !.obj.status.toRun = Append(@, q)]
      BY <1>2, Zenon DEF JobCreatesPod
    <3>2. job'.record = job.record
      BY <1>1, <3>1 DEF Job
    <3>3. QED
      BY <1>2, <3>1, <3>2 DEF JobCreatesPod, streams, informers
  <2>3. p \in Pod /\ job.record # p
    BY <2>1, <2>2, RecordKnown DEF Forgotten
  <2>4. pods'[p] = "created" /\ \A q \in Pod : q # p => pods'[q] = pods[q]
    BY <1>1, <2>1, <2>3
  <2>5. Removed' /\ Recorded' /\ Passed' /\ Unwatched'
    BY <1>1, <2>1, <2>2, <2>3, <2>4 DEF GhostInv, Removed, Recorded, Passed, Unwatched
  <2>6. ASSUME NEW q \in Pod, pods'[q] = "gone"
        PROVE  /\ pods[q] = "gone" /\ (q \in missed <=> q \in missed')
               /\ (q \in raced <=> q \in raced') /\ (q \in Unheard <=> q \in Unheard')
    BY <2>1, <2>4, <2>6 DEF Unheard
  <2>7. Told' /\ ToldLast'
    BY <2>2, <2>6 DEF GhostInv, Told, ToldLast
  <2>8. QED
    BY <2>5, <2>7 DEF GhostInv
<1>3. ASSUME JobDeletesPod PROVE GhostInv'
  <2> DEFINE p == Head(job.kill)
  <2>1. job # NoJob /\ job \in Job /\ job.kill # <<>> /\ job.record = NoPod
    BY <1>1, <1>3 DEF JobDeletesPod
  <2>2. p \in Pod
    BY <1>1, <2>1
  <2>3. /\ UNCHANGED <<podHand, podCache, rmCache, raced, revived, podInf>>
        /\ NoPod \notin Pod
    BY <1>3, PodAssumption DEF JobDeletesPod, informers, caches
  <2>4. CASE pods[p] \in Phase
    <3>1. WritePod(p, "gone")
          /\ job' = [job EXCEPT !.kill = Tail(@),
                                !.record = IF job.kind = "remove" THEN NoPod ELSE p]
      BY <1>3, <2>4, Zenon DEF JobDeletesPod
    <3> HIDE DEF p
    <3>2. job'.record \in {NoPod, p}
      BY <2>1, <3>1 DEF Job
    <3>3. QED
      BY <2>2, <2>3, <2>4, <3>1, <3>2, PodWritten DEF Phase
  <2>5. CASE pods[p] \notin Phase
    <3>1. /\ job' = [job EXCEPT !.kill = Tail(@),
                                !.obj.status.toKill = IF job.kind = "routine"
                                                      THEN RemoveFirst(@, p) ELSE @]
          /\ UNCHANGED <<pods, podStream, missed>>
      BY <1>3, <2>5, Zenon DEF JobDeletesPod
    <3>2. job'.record = job.record
      BY <2>1, <3>1 DEF Job
    <3>3. QED
      BY <2>1, <2>3, <3>1, <3>2, GhostUntouched
  <2>6. QED
    BY <2>4, <2>5
<1>4. ASSUME JobRecordsRemove PROVE GhostInv'
  <2>1. job # NoJob /\ job \in Job /\ job.record # NoPod
    BY <1>1, <1>4 DEF JobRecordsRemove
  <2>2. PICK p \in Pod : p = job.record
    BY <1>1, <2>1
  <2>3. /\ rmCache' = rmCache \cup {p} /\ podCache' = [podCache EXCEPT ![p] = "none"]
        /\ raced' = IF podHand # NoEvent /\ podHand.pod = p THEN raced \cup {p} ELSE raced
        /\ UNCHANGED <<pods, podStream, podHand, podInf, missed, revived>>
    BY <1>4, <2>2 DEF JobRecordsRemove, etcd, streams, informers
  <2>4. job'.record = NoPod
    BY <1>4, <2>1 DEF JobRecordsRemove, Job
  <2>5. podCache'[p] = "none" /\ \A q \in Pod : q # p => podCache'[q] = podCache[q]
    BY <1>1, <2>3
  <2>6. (pods[p] = "gone" \/ p \in revived) /\ raced \subseteq raced'
    BY <2>1, <2>2, <2>3 DEF GhostInv, Recorded
  <2>7. Removed' /\ Recorded' /\ Passed' /\ Unwatched'
    BY <1>1, <2>3, <2>4, <2>5, <2>6 DEF GhostInv, Removed, Recorded, Passed, Unwatched
  <2>8. Told' /\ ToldLast'
    BY <2>3, <2>5, <2>6 DEF GhostInv, Told, ToldLast, Unheard
  <2>9. QED
    BY <2>7, <2>8 DEF GhostInv
<1>5. ASSUME JobFailsToCreate \/ JobFailsToDelete \/ JobLooksUp PROVE GhostInv'
  <2>1. job # NoJob /\ job \in Job
    BY <1>1, <1>5 DEF JobFailsToCreate, JobFailsToDelete, JobLooksUp, JobAtPut
  <2>2. job' = NoJob \/ job'.record = job.record
    BY <1>5, <2>1 DEF JobFailsToCreate, JobFailsToDelete, JobLooksUp, Job
  <2>3. UNCHANGED <<pods, podStream, podHand, podCache, rmCache, missed, raced, revived, podInf>>
    BY <1>5 DEF JobFailsToCreate, JobFailsToDelete, JobLooksUp, etcd, streams, informers,
                caches, history
  <2>4. QED
    BY <2>1, <2>2, <2>3, GhostUntouched
<1>6. ASSUME JobEndsRemove \/ JobWrites \/ JobFailsToWrite PROVE GhostInv'
  <2>1. job' = NoJob
    BY <1>6 DEF JobEndsRemove, JobWrites, JobFailsToWrite
  <2>2. UNCHANGED <<pods, podStream, podHand, podCache, rmCache, missed, raced, revived, podInf>>
    BY <1>6 DEF JobEndsRemove, JobWrites, JobFailsToWrite, etcd, streams, informers, caches,
                history
  <2>3. QED
    BY <2>1, <2>2, GhostUntouched
<1>7. QED
  BY <1>2, <1>3, <1>4, <1>5, <1>6 DEF JobSteps

\* Everything else leaves pods alone, writes one, or ends the process.
LEMMA RestGhost ==
    ASSUME GhostInv, Typed',
           \/ ListSets \/ WatchSets \/ InformSet \/ SendSet \/ LoseSetWatch
           \/ Handlers \/ Routine \/ Kill
           \/ ScaleReads \/ SetPutLands \/ CreateSet \/ DeleteSet \/ Start
           \/ \E p \in Pod : PodStep(p)
    PROVE  GhostInv'
<1>1. ASSUME ListSets \/ InformSet PROVE GhostInv'
  <2>1. job' = job \/ Unshare
    BY <1>1 DEF ListSets, InformSet
  <2>2. job' # NoJob => job # NoJob /\ job'.record = job.record
    BY <2>1, Unshared DEF GhostInv
  <2>3. UNCHANGED <<pods, podStream, podHand, podCache, rmCache, missed, raced, revived, podInf>>
    BY <1>1 DEF ListSets, InformSet, etcd, streams, history
  <2>4. QED
    BY <2>2, <2>3, GhostUntouched
<1>2. ASSUME WatchSets \/ SendSet \/ LoseSetWatch \/ Start PROVE GhostInv'
  BY <1>2, GhostUntouched
     DEF WatchSets, SendSet, LoseSetWatch, Start, etcd, streams, informers, caches, chans, history
<1>3. ASSUME HandleSetCreate \/ HandleSetUpdate \/ HandleSetRemove \/ HandlePod \/ Routine
      PROVE  GhostInv'
  <2>1. job' = job \/ \E kind, obj, n, kill, shared : StartJob(kind, obj, n, kill, shared)
    <3>1. HandleSetCreate => \E kind, obj, n, kill, shared : StartJob(kind, obj, n, kill, shared)
      BY Zenon DEF HandleSetCreate
    <3>2. HandleSetUpdate => \E kind, obj, n, kill, shared : StartJob(kind, obj, n, kill, shared)
      BY Zenon DEF HandleSetUpdate
    <3>3. HandleSetRemove => \E kind, obj, n, kill, shared : StartJob(kind, obj, n, kill, shared)
      BY Zenon DEF HandleSetRemove
    <3>4. HandlePod =>
             job' = job \/ \E kind, obj, n, kill, shared : StartJob(kind, obj, n, kill, shared)
      BY Zenon DEF HandlePod
    <3>5. Routine => \E kind, obj, n, kill, shared : StartJob(kind, obj, n, kill, shared)
      <4>1. Routine => \E runnings, bads : RoutineOf(setCache, runnings, bads)
        BY Zenon DEF Routine
      <4>2. \A runnings, bads : RoutineOf(setCache, runnings, bads) =>
               \E kind, obj, n, kill, shared : StartJob(kind, obj, n, kill, shared)
        BY Zenon DEF RoutineOf
      <4>3. QED
        BY <4>1, <4>2, Zenon
    <3>6. QED
      BY <1>3, <3>1, <3>2, <3>3, <3>4, <3>5
  <2>2. job' = job \/ job'.record = NoPod
    BY <2>1 DEF StartJob
  <2>3. UNCHANGED <<pods, podStream, podHand, podCache, rmCache, missed, raced, revived, podInf>>
    BY <1>3 DEF HandleSetCreate, HandleSetUpdate, HandleSetRemove, HandlePod, Routine,
                etcd, streams, informers, caches, history
  <2>4. QED
    BY <2>2, <2>3, GhostUntouched
<1>4. ASSUME SetPanics \/ PodPanics \/ Kill PROVE GhostInv'
  <2>1. Down
    BY <1>4 DEF SetPanics, PodPanics, Kill
  <2>2. /\ podInf' = "list" /\ podHand' = NoEvent /\ podStream' = <<>> /\ rmCache' = {}
        /\ podCache' = [p \in Pod |-> "none"] /\ job' = NoJob
    BY <2>1 DEF Down
  <2>3. Removed' /\ Recorded' /\ Passed' /\ Told' /\ Unwatched'
    BY <2>2 DEF Removed, Recorded, Passed, Told, Unwatched
  <2>4. ToldLast'
    BY <2>2 DEF ToldLast, EndsGone
  <2>5. QED
    BY <2>3, <2>4 DEF GhostInv
<1>5. ASSUME ScaleReads \/ SetPutLands \/ CreateSet \/ DeleteSet PROVE GhostInv'
  BY <1>5, GhostUntouched
     DEF ScaleReads, SetPutLands, CreateSet, DeleteSet, manager, etcd, streams, informers, caches,
         history
<1>6. ASSUME NEW p \in Pod, PodStep(p) PROVE GhostInv'
  <2>1. ASSUME PodRuns(p) \/ PodGoesBad(p) \/ PodReports(p) PROVE GhostInv'
    BY <2>1, GhostUntouched
       DEF PodRuns, PodGoesBad, PodReports, PutPod, etcd, streams, manager, informers, caches,
           history
  <2>2. ASSUME PodPutLands(p) PROVE GhostInv'
    <3>1. podReq[p] \in Phase /\ WritePod(p, podReq[p])
      BY <2>2 DEF PodPutLands, GhostInv, Typed, TypeOK
    <3>2. /\ UNCHANGED <<podHand, podCache, rmCache, raced, podInf, job>>
          /\ revived' = IF pods[p] = "gone" THEN revived \cup {p} ELSE revived
      BY <2>2 DEF PodPutLands, manager, informers, caches
    <3>3. QED
      BY <3>1, <3>2, PodWritten
  <2>3. ASSUME UserDeletesPod(p) PROVE GhostInv'
    <3>1. WritePod(p, "gone") /\ pods[p] # "gone"
      BY <2>3 DEF UserDeletesPod, Phase
    <3>2. UNCHANGED <<podHand, podCache, rmCache, raced, revived, podInf, job>>
      BY <2>3 DEF UserDeletesPod, manager, informers, caches
    <3>3. QED
      BY <3>1, <3>2, PodWritten
  <2>4. QED
    BY <1>6, <2>1, <2>2, <2>3 DEF PodStep
<1>7. QED
  BY <1>1, <1>2, <1>3, <1>4, <1>5, <1>6 DEF Handlers

\* Every step keeps what the cache's pods rest on.
LEMMA StepGhost ==
    ASSUME GhostInv, [Next]_vars
    PROVE  GhostInv'
<1>1. Typed'
  BY StepTyped DEF GhostInv
<1>2. CASE Next
  BY <1>1, <1>2, PodInformerGhost, JobGhost, RestGhost, Zenon
     DEF Next, Informers, Failures, PodStep
<1>3. CASE UNCHANGED vars
  <2>1. /\ UNCHANGED <<pods, podStream, podHand, podCache, rmCache, missed, raced, revived, podInf>>
        /\ job' = job
    BY <1>3 DEF vars, etcd, streams, informers, caches, manager, history
  <2>2. QED
    BY <1>1, <2>1, GhostUntouched
<1>4. QED
  BY <1>2, <1>3

\* When all is settled, a pod the cache counts though etcd has it no more was deleted
\* while the informer did not watch, recorded as removed while the informer held an
\* event of it, or written again by a PUT under way after it was deleted and recorded:
\* for any number of pods, failures and restarts nothing else leaves one.
THEOREM GhostsExplained == Spec => []GhostHasCause
<1>1. Init => GhostInv
  <2>1. Init => Removed /\ Recorded /\ Passed /\ Told /\ ToldLast /\ Unwatched
    BY DEF Init, Removed, Recorded, Passed, Told, ToldLast, Unwatched, EndsGone
  <2>2. QED
    BY <2>1, InitTyped DEF GhostInv
<1>2. GhostInv /\ [Next]_vars => GhostInv'
  BY StepGhost
<1>3. GhostInv => GhostHasCause
  <2>1. ASSUME GhostInv, Settled, NEW p \in Pod, podCache[p] # "none", pods[p] = "gone",
               p \notin Unheard
        PROVE  FALSE
    <3>1. podStream = <<>> /\ podHand = NoEvent
      BY <2>1 DEF Settled
    <3>2. ~GoneFrom(podStream, p, 1)
      BY <3>1 DEF GoneFrom
    <3>3. podHand # GoneMsg(p)
      BY <3>1, NoValueAssumption DEF GoneMsg, PodMsg
    <3>4. QED
      BY <2>1, <3>2, <3>3 DEF GhostInv, Told
  <2>2. QED
    BY <2>1 DEF GhostHasCause
<1>4. QED
  BY <1>1, <1>2, <1>3, PTL DEF Spec

-----------------------------------------------------------------------------
(* Why a cached ReplicaSet has no Status *)

\* NilStatusHasCause rests on the order of what is written and told: while every write
\* succeeds and is sent, a ReplicaSet without a Status is written only where there is
\* none.  What comes before a message is the message before it, or the cache.
Before(k) == IF k = 1 THEN setCache ELSE setStream[k - 1]

\* The stream ends with what is stored; when it is empty the cache has that, but for
\* a Status that differs.
StreamFollows ==
    /\ \A k \in 1..Len(setStream) : Bare(setStream[k]) => Before(k) = NoSet
    /\ setStream # <<>> => setStream[Len(setStream)] = set
    /\ setStream = <<>> => /\ setInf # "list" /\ set # NoSet => setCache # NoSet
                           /\ set = NoSet => setCache = NoSet
                           /\ Bare(set) <=> Bare(setCache)
    /\ setInf # "watch" => setStream = <<>>

CreateUnderWay ==
    \/ setOut # NoEvent /\ setOut.type = "create"
    \/ \E i \in 1..Len(setChan) : setChan[i].type = "create"
    \/ job # NoJob /\ job.kind = "create"
    \/ \E i \in 1..Len(setStream) : ~Bare(setStream[i])

BareCaused == Bare(setCache) => set = NoSet \/ CreateUnderWay

SetInv == Typed /\ (~unseen => StreamFollows /\ BareCaused)

\* A step that leaves what is stored and told of the ReplicaSet alone, and a cached
\* Status a Status.
LEMMA FlowUntouched ==
    ASSUME SetInv, Typed', UNCHANGED <<set, setStream>>, unseen => unseen',
           setInf' = setInf \/ (setInf = "connect" /\ setInf' = "watch"),
           StatusKept, CreateUnderWay => unseen' \/ set = NoSet \/ CreateUnderWay'
    PROVE  SetInv'
<1> SUFFICES ASSUME ~unseen' PROVE StreamFollows' /\ BareCaused'
  BY DEF SetInv
<1>1. StreamFollows /\ BareCaused
  BY DEF SetInv
<1>2. Bare(set') <=> Bare(set)
  OBVIOUS
<1>3. (Bare(setCache') <=> Bare(setCache)) /\ (setCache' = NoSet <=> setCache = NoSet)
  BY DEF StatusKept
<1>4. \A k \in 1..Len(setStream) : /\ (Bare(setStream[k]) <=> Bare(setStream'[k]))
                                   /\ Before(k) = NoSet => Before(k)' = NoSet
  BY <1>3 DEF Before
<1>5. StreamFollows'
  BY <1>1, <1>2, <1>3, <1>4 DEF StreamFollows
<1>6. BareCaused'
  BY <1>1, <1>3 DEF BareCaused
<1>7. QED
  BY <1>5, <1>6

\* A write of the ReplicaSet.  A job that ends with it has written a Status.
LEMMA FlowWritten ==
    ASSUME SetInv, Typed', NEW o \in SetObj \cup {NoSet}, WriteSet(o),
           UNCHANGED <<setInf, setCache, setOut, setChan>>, job' = job \/ ~Bare(o)
    PROVE  SetInv'
<1> SUFFICES ASSUME ~unseen' PROVE StreamFollows' /\ BareCaused'
  BY DEF SetInv
<1>1. /\ ~unseen /\ setInf = "watch" /\ set' = o /\ setStream' = Append(setStream, o)
      /\ Bare(o) => set = NoSet
  BY DEF WriteSet, Bare
<1>2. StreamFollows /\ BareCaused
  BY <1>1 DEF SetInv
<1> DEFINE n == Len(setStream)
<1>3. /\ n \in Nat /\ Len(setStream') = n + 1 /\ setStream'[n + 1] = o /\ setStream' # <<>>
      /\ \A i \in 1..n : setStream'[i] = setStream[i]
      /\ (n = 0 <=> setStream = <<>>)
  <2>1. setStream \in Seq(SetObj \cup {NoSet})
    BY DEF SetInv, Typed, TypeOK
  <2>2. /\ n \in Nat /\ Len(Append(setStream, o)) = n + 1 /\ Append(setStream, o)[n + 1] = o
        /\ \A i \in 1..n : Append(setStream, o)[i] = setStream[i]
    BY <2>1
  <2>3. n = 0 <=> setStream = <<>>
    BY <2>1
  <2>4. Append(setStream, o) # <<>>
    <3>1. Append(setStream, o) \in Seq(SetObj \cup {NoSet})
      BY <2>1
    <3>2. QED
      BY <2>2, <3>1, EmptySeq
  <2>5. QED
    BY <1>1, <2>2, <2>3, <2>4
<1> HIDE DEF n
<1>4. set = NoSet => IF n = 0 THEN setCache = NoSet ELSE setStream[n] = NoSet
  BY <1>2, <1>3 DEF StreamFollows, n
<1>5. ASSUME NEW k \in 1..(n + 1), Bare(setStream'[k]) PROVE Before(k)' = NoSet
  <2>1. CASE k \in 1..n
    <3>1. Before(k) = NoSet
      BY <1>2, <1>3, <1>5, <2>1 DEF StreamFollows, n
    <3>2. k = 1 \/ k - 1 \in 1..n
      BY <1>3, <2>1
    <3>3. QED
      BY <1>3, <3>1, <3>2 DEF Before
  <2>2. CASE k = n + 1
    <3>1. set = NoSet
      BY <1>1, <1>3, <1>5, <2>2
    <3>2. n # 0 => n \in 1..n /\ k # 1 /\ k - 1 = n
      BY <1>3, <2>2
    <3>3. QED
      BY <1>3, <1>4, <2>2, <3>1, <3>2 DEF Before
  <2>3. QED
    BY <1>3, <2>1, <2>2
<1>6. StreamFollows'
  BY <1>1, <1>3, <1>5 DEF StreamFollows
<1>7. ASSUME Bare(setCache) PROVE CreateUnderWay'
  <2>1. n + 1 \in 1..(n + 1) /\ (n # 0 => n \in 1..n /\ n \in 1..(n + 1))
    BY <1>3
  <2>2. CASE ~Bare(o)
    BY <1>3, <2>1, <2>2 DEF CreateUnderWay
  <2>3. CASE Bare(o)
    <3>1. n # 0 /\ setStream[n] = NoSet
      BY <1>1, <1>4, <1>7, <2>3 DEF Bare
    <3>2. ~Bare(setStream'[n])
      BY <1>3, <2>1, <3>1 DEF Bare
    <3>3. QED
      BY <1>3, <2>1, <3>1, <3>2 DEF CreateUnderWay
  <2>4. QED
    BY <2>2, <2>3
<1>8. BareCaused'
  BY <1>7 DEF BareCaused
<1>9. QED
  BY <1>6, <1>8

\* What the ReplicaSet informer does.
LEMMA SetInformerFlow ==
    ASSUME SetInv, Typed', ListSets \/ WatchSets \/ InformSet \/ SendSet \/ LoseSetWatch
    PROVE  SetInv'
<1>1. ASSUME ListSets PROVE SetInv'
  <2> SUFFICES ASSUME ~unseen' PROVE StreamFollows' /\ BareCaused'
    BY DEF SetInv
  <2>1. /\ ~unseen /\ setInf = "list" /\ setInf' = "connect"
        /\ UNCHANGED <<set, setStream, setOut>>
        /\ \/ set = NoSet /\ UNCHANGED <<setCache, setChan, job>>
           \/ set # NoSet /\ setCache' = set /\ Unshare
    BY <1>1 DEF ListSets, etcd, streams, history
  <2>2. StreamFollows /\ BareCaused /\ setStream = <<>>
    BY <2>1 DEF SetInv, StreamFollows
  <2>3. Len(setStream) = 0
    BY <2>2
  <2>4. StreamFollows'
    BY <2>1, <2>2, <2>3 DEF StreamFollows
  <2>5. ASSUME set # NoSet, CreateUnderWay PROVE CreateUnderWay'
    <3>1. /\ Len(setChan') = Len(setChan)
          /\ \A i \in 1..Len(setChan) : setChan'[i].type = setChan[i].type
          /\ job # NoJob => job' # NoJob /\ job'.kind = job.kind
      BY <2>1, <2>5, Unshared DEF SetInv
    <3>2. QED
      BY <2>1, <2>3, <2>5, <3>1 DEF CreateUnderWay
  <2>6. BareCaused'
    BY <2>1, <2>2, <2>5 DEF BareCaused, StreamFollows
  <2>7. QED
    BY <2>4, <2>6
<1>2. ASSUME WatchSets PROVE SetInv'
  <2>1. /\ UNCHANGED <<set, setStream, unseen, setCache, setOut, setChan, job>>
        /\ setInf = "connect" /\ setInf' = "watch"
    BY <1>2 DEF WatchSets, etcd, streams, caches, chans, history
  <2>2. CreateUnderWay => CreateUnderWay'
    BY <2>1 DEF CreateUnderWay
  <2>3. QED
    BY <2>1, <2>2, FlowUntouched DEF StatusKept
<1>3. ASSUME InformSet PROVE SetInv'
  <2> SUFFICES ASSUME ~unseen' PROVE StreamFollows' /\ BareCaused'
    BY DEF SetInv
  <2>1. /\ ~unseen /\ setStream # <<>> /\ setStream' = Tail(setStream)
        /\ setCache' = Head(setStream) /\ setOut' = SetNews(Head(setStream))
        /\ setInf = "watch" /\ setInf' = "watch" /\ set' = set
    BY <1>3 DEF InformSet, etcd, history
  <2>2. StreamFollows
    BY <2>1 DEF SetInv
  <2> DEFINE n == Len(setStream)
  <2>3. /\ n \in Nat /\ n > 0 /\ Len(setStream') = n - 1 /\ setCache' = setStream[1]
        /\ \A i \in 1..(n - 1) : setStream'[i] = setStream[i + 1]
        /\ setStream' # <<>> => n > 1
        /\ setStream' = <<>> => n = 1
    <3>1. setStream \in Seq(SetObj \cup {NoSet})
      BY DEF SetInv, Typed, TypeOK
    <3>2. /\ n \in Nat /\ n > 0 /\ Len(Tail(setStream)) = n - 1 /\ Head(setStream) = setStream[1]
          /\ \A i \in 1..(n - 1) : Tail(setStream)[i] = setStream[i + 1]
      BY <2>1, <3>1
    <3>3. Tail(setStream) \in Seq(SetObj \cup {NoSet})
      BY <2>1, <3>1
    <3>4. (Tail(setStream) = <<>>) <=> (Len(Tail(setStream)) = 0)
      BY <3>3, EmptySeq
    <3> HIDE DEF n
    <3>5. QED
      BY <2>1, <3>2, <3>4
  <2>4. setStream[n] = set
    BY <2>1, <2>2 DEF StreamFollows
  <2>5. \A k \in 1..n : Bare(setStream[k]) => Before(k) = NoSet
    BY <2>2 DEF StreamFollows
  <2> HIDE DEF n
  <2>6. ASSUME NEW k \in 1..(n - 1), Bare(setStream'[k]) PROVE Before(k)' = NoSet
    <3>1. k + 1 \in 1..n /\ k + 1 # 1 /\ (k + 1) - 1 = k
      BY <2>3
    <3>2. setStream[k] = NoSet
      BY <2>3, <2>5, <2>6, <3>1 DEF Before
    <3>3. k = 1 \/ (k - 1 \in 1..(n - 1) /\ (k - 1) + 1 = k)
      BY <2>3
    <3>4. QED
      BY <2>3, <3>2, <3>3 DEF Before
  <2>7. setStream' # <<>> => setStream'[n - 1] = set
    <3>1. n > 1 => n - 1 \in 1..(n - 1) /\ (n - 1) + 1 = n
      BY <2>3
    <3>2. QED
      BY <2>3, <2>4, <3>1
  <2>8. setStream' = <<>> => setCache' = set
    BY <2>3, <2>4
  <2>9. StreamFollows'
    BY <2>1, <2>3, <2>6, <2>7, <2>8 DEF StreamFollows
  <2>10. ASSUME Bare(setCache') PROVE CreateUnderWay'
    <3>1. 1 \in 1..n
      BY <2>3
    <3>2. setCache = NoSet
      BY <2>3, <2>5, <2>10, <3>1 DEF Before
    <3>3. Head(setStream) \in SetObj \cup {NoSet} /\ Head(setStream) # NoSet
      BY <2>1, <2>10 DEF SetInv, Typed, TypeOK, Bare
    <3>4. setOut' = [type |-> "create", obj |-> Head(setStream), shared |-> FALSE]
      BY <2>1, <3>2, <3>3 DEF SetNews
    <3>5. setOut' \in SetEvent
      BY <3>3, <3>4 DEF SetEvent
    <3>6. QED
      BY <3>4, <3>5, EventParts DEF CreateUnderWay
  <2>11. QED
    BY <2>9, <2>10 DEF BareCaused
<1>4. ASSUME SendSet PROVE SetInv'
  <2>1. /\ UNCHANGED <<set, setStream, unseen, setInf, setCache, job>>
        /\ setOut # NoEvent /\ setChan' = Append(setChan, setOut)
    BY <1>4 DEF SendSet, etcd, streams, caches, history
  <2>2. CreateUnderWay => CreateUnderWay'
    <3>1. /\ Len(setChan) \in Nat /\ Len(setChan') = Len(setChan) + 1
          /\ setChan'[Len(setChan) + 1] = setOut
          /\ \A i \in 1..Len(setChan) : setChan'[i] = setChan[i]
      BY <2>1 DEF SetInv, Typed, TypeOK
    <3>2. Len(setChan) + 1 \in 1..Len(setChan')
          /\ \A i \in 1..Len(setChan) : i \in 1..Len(setChan')
      BY <3>1
    <3>3. ASSUME setOut.type = "create" PROVE CreateUnderWay'
      BY <3>1, <3>2, <3>3 DEF CreateUnderWay
    <3>4. ASSUME NEW i \in 1..Len(setChan), setChan[i].type = "create" PROVE CreateUnderWay'
      BY <3>1, <3>2, <3>4 DEF CreateUnderWay
    <3>5. QED
      BY <2>1, <3>3, <3>4 DEF CreateUnderWay
  <2>3. QED
    BY <2>1, <2>2, FlowUntouched DEF StatusKept
<1>5. ASSUME LoseSetWatch PROVE SetInv'
  <2> SUFFICES ASSUME ~unseen' PROVE StreamFollows' /\ BareCaused'
    BY DEF SetInv
  <2>1. /\ ~unseen /\ setStream = <<>> /\ setStream' = <<>> /\ setInf = "watch" /\ setInf' = "list"
        /\ UNCHANGED <<set, setCache, setOut, setChan, job>>
    BY <1>5 DEF LoseSetWatch, etcd, caches, chans
  <2>2. StreamFollows /\ BareCaused
    BY <2>1 DEF SetInv
  <2>3. QED
    BY <2>1, <2>2 DEF StreamFollows, Before, BareCaused, CreateUnderWay
<1>6. QED
  BY <1>1, <1>2, <1>3, <1>4, <1>5

\* The process ends.
LEMMA FlowDown ==
    ASSUME SetInv, Typed', Down
    PROVE  SetInv'
<1> SUFFICES ASSUME ~unseen' PROVE StreamFollows' /\ BareCaused'
  BY DEF SetInv
<1>1. /\ setStream' = <<>> /\ Len(<<>>) = 0 /\ setInf' = "list" /\ setCache' = NoSet /\ set' = set
      /\ ~Bare(set)
  BY DEF Down, etcd, Bare
<1>2. ~Bare(set') /\ ~Bare(setCache')
  BY <1>1 DEF Bare
<1>3. QED
  BY <1>1, <1>2 DEF StreamFollows, BareCaused

\* What the event loop and the routine do.
LEMMA HandlersFlow ==
    ASSUME SetInv, Typed', Handlers \/ Routine
    PROVE  SetInv'
<1>1. ASSUME setChan # <<>>, setChan' = Tail(setChan), Idle, UNCHANGED <<setOut, setStream>>,
             \/ Head(setChan).type # "create"
             \/ job' # NoJob /\ job'.kind = "create"
      PROVE  CreateUnderWay => CreateUnderWay'
  <2>1. /\ Len(setChan) \in Nat /\ Len(setChan') = Len(setChan) - 1 /\ Head(setChan) = setChan[1]
        /\ \A i \in 1..Len(setChan') : setChan'[i] = setChan[i + 1]
    BY <1>1, SetTail DEF SetInv, Typed, TypeOK
  <2>2. ASSUME NEW i \in 1..Len(setChan), setChan[i].type = "create" PROVE CreateUnderWay'
    <3>1. CASE i = 1
      BY <1>1, <2>1, <2>2, <3>1 DEF CreateUnderWay
    <3>2. CASE i # 1
      <4>1. i - 1 \in 1..Len(setChan') /\ (i - 1) + 1 = i
        BY <2>1, <3>2
      <4>2. QED
        BY <2>1, <2>2, <4>1 DEF CreateUnderWay
    <3>3. QED
      BY <3>1, <3>2
  <2>3. QED
    BY <1>1, <2>2 DEF CreateUnderWay, Idle
<1>2. ASSUME HandleSetCreate PROVE SetInv'
  <2>1. job' # NoJob /\ job'.kind = "create"
    BY <1>2, SetCreateStarts, JobParts DEF SetInv
  <2>2. UNCHANGED <<set, setStream, unseen, setInf, setCache, setOut>>
    BY <1>2 DEF HandleSetCreate, etcd, streams, informers, caches, history
  <2>3. CreateUnderWay => CreateUnderWay'
    BY <1>1, <1>2, <2>1, <2>2 DEF HandleSetCreate
  <2>4. QED
    BY <2>2, <2>3, FlowUntouched DEF StatusKept
<1>3. ASSUME HandleSetUpdate PROVE SetInv'
  <2>1. StatusKept
    BY <1>3, SetUpdateStarts DEF SetInv
  <2>2. UNCHANGED <<set, setStream, unseen, setInf, setOut>>
    BY <1>3 DEF HandleSetUpdate, etcd, streams, informers, history
  <2>3. CreateUnderWay => CreateUnderWay'
    BY <1>1, <1>3, <2>2 DEF HandleSetUpdate
  <2>4. QED
    BY <2>1, <2>2, <2>3, FlowUntouched
<1>4. ASSUME HandleSetRemove PROVE SetInv'
  <2>1. UNCHANGED <<set, setStream, unseen, setInf, setCache, setOut>>
    BY <1>4 DEF HandleSetRemove, etcd, streams, informers, caches, history
  <2>2. CreateUnderWay => CreateUnderWay'
    BY <1>1, <1>4, <2>1 DEF HandleSetRemove
  <2>3. QED
    BY <2>1, <2>2, FlowUntouched DEF StatusKept
<1>5. ASSUME HandlePod PROVE SetInv'
  <2>1. StatusKept
    BY <1>5, PodHandled DEF SetInv, StatusKept
  <2>2. UNCHANGED <<set, setStream, unseen, setInf, setOut, setChan>> /\ job = NoJob
    BY <1>5 DEF HandlePod, Idle, etcd, streams, informers, history
  <2>3. CreateUnderWay => CreateUnderWay'
    BY <2>2 DEF CreateUnderWay
  <2>4. QED
    BY <2>1, <2>2, <2>3, FlowUntouched
<1>6. ASSUME SetPanics \/ PodPanics PROVE SetInv'
  BY <1>6, FlowDown DEF SetPanics, PodPanics
<1>7. ASSUME Routine PROVE SetInv'
  <2>1. UNCHANGED <<set, setStream, unseen, setInf, setCache, setOut, setChan>> /\ job = NoJob
    BY <1>7 DEF Routine, Idle, etcd, streams, informers, caches, chans
  <2>2. CreateUnderWay => CreateUnderWay'
    BY <2>1 DEF CreateUnderWay
  <2>3. QED
    BY <2>1, <2>2, FlowUntouched DEF StatusKept
<1>8. QED
  BY <1>2, <1>3, <1>4, <1>5, <1>6, <1>7 DEF Handlers

\* What the holder of biglock does.
LEMMA JobFlow ==
    ASSUME SetInv, Typed', JobSteps \/ JobFailsToCreate \/ JobFailsToDelete \/ JobFailsToWrite
    PROVE  SetInv'
<1>1. ASSUME \/ JobCreatesPod \/ JobFailsToCreate \/ JobDeletesPod \/ JobFailsToDelete
             \/ JobRecordsRemove \/ (JobLooksUp /\ set # NoSet)
      PROVE  SetInv'
  <2>1. job # NoJob /\ job' # NoJob /\ job'.kind = job.kind /\ StatusKept
    BY <1>1, JobGoesOn, JobParts DEF SetInv
  <2>2. UNCHANGED <<set, setStream, unseen, setInf, setOut, setChan>>
    BY <1>1 DEF JobCreatesPod, JobFailsToCreate, JobDeletesPod, JobFailsToDelete, JobRecordsRemove,
                JobLooksUp, etcd, streams, informers, chans, history
  <2>3. CreateUnderWay => CreateUnderWay'
    BY <2>1, <2>2 DEF CreateUnderWay
  <2>4. QED
    BY <2>1, <2>2, <2>3, FlowUntouched
<1>2. ASSUME JobEndsRemove \/ (JobLooksUp /\ set = NoSet) \/ JobFailsToWrite PROVE SetInv'
  <2>1. UNCHANGED <<set, setStream, setInf, setCache, setOut, setChan>>
    BY <1>2 DEF JobEndsRemove, JobLooksUp, JobFailsToWrite, etcd, streams, informers, caches,
                chans
  <2>2. (unseen => unseen') /\ (job.kind = "create" => set = NoSet \/ unseen')
    <3>1. CASE JobEndsRemove
      <4>1. job.kind = "remove" /\ unseen' = unseen
        BY <3>1 DEF JobEndsRemove, history
      <4>2. QED
        BY <4>1
    <3>2. CASE JobLooksUp /\ set = NoSet
      <4>1. unseen' = unseen
        BY <3>2 DEF JobLooksUp, history
      <4>2. QED
        BY <3>2, <4>1
    <3>3. CASE JobFailsToWrite
      <4>1. unseen' = (unseen \/ job.kind = "create")
        BY <3>3 DEF JobFailsToWrite
      <4>2. QED
        BY <4>1
    <3>4. QED
      BY <1>2, <3>1, <3>2, <3>3
  <2>3. CreateUnderWay => unseen' \/ set = NoSet \/ CreateUnderWay'
    BY <2>1, <2>2 DEF CreateUnderWay
  <2>4. QED
    BY <2>1, <2>2, <2>3, FlowUntouched DEF StatusKept
<1>3. ASSUME JobWrites PROVE SetInv'
  <2>1. job.obj \in SetObj /\ ~Bare(job.obj)
    BY <1>3, JobParts DEF JobWrites, JobAtPut, SetInv, Typed, TypeOK, Working, Bare
  <2>2. WriteSet(job.obj) /\ UNCHANGED <<setInf, setCache, setOut, setChan>>
    BY <1>3 DEF JobWrites, informers, caches, chans
  <2>3. QED
    BY <2>1, <2>2, FlowWritten
<1>4. QED
  BY <1>1, <1>2, <1>3 DEF JobSteps

\* What the pod informer, the API server, users and cubelets do, and what starts and
\* kills the manager.
LEMMA OthersFlow ==
    ASSUME SetInv, Typed',
           \/ ListPods \/ WatchPods \/ ReceivePod \/ InformPod \/ SendPod \/ LosePodWatch
           \/ ScaleReads \/ SetPutLands \/ CreateSet \/ DeleteSet \/ Start \/ Kill
           \/ \E p \in Pod : PodStep(p)
    PROVE  SetInv'
<1>1. ASSUME UNCHANGED <<set, setStream, unseen, setInf, setCache, setOut, setChan, job>>
      PROVE  SetInv'
  <2>1. CreateUnderWay => CreateUnderWay'
    BY <1>1 DEF CreateUnderWay
  <2>2. QED
    BY <1>1, <2>1, FlowUntouched DEF StatusKept
<1>2. ASSUME ListPods \/ WatchPods \/ ReceivePod \/ InformPod \/ SendPod \/ LosePodWatch
      PROVE  SetInv'
  BY <1>1, <1>2 DEF ListPods, WatchPods, ReceivePod, InformPod, SendPod, LosePodWatch, etcd,
                    streams,
                    caches, chans, history
<1>3. ASSUME ScaleReads \/ Start PROVE SetInv'
  BY <1>1, <1>3 DEF ScaleReads, Start, manager, etcd, streams, informers, caches, chans, history
<1>4. ASSUME SetPutLands PROVE SetInv'
  <2>1. setReq \in SetObj \cup {NoSet} /\ WriteSet(setReq)
        /\ UNCHANGED <<setInf, setCache, setOut, setChan, job>>
    BY <1>4 DEF SetPutLands, manager, informers, caches, chans, SetInv, Typed, TypeOK
  <2>2. QED
    BY <2>1, FlowWritten
<1>5. ASSUME CreateSet PROVE SetInv'
  <2>1. PICK n \in Replicas : WriteSet([replicas |-> n, status |-> NoStatus])
    BY <1>5 DEF CreateSet
  <2>2. [replicas |-> n, status |-> NoStatus] \in SetObj
    BY DEF SetObj
  <2>3. UNCHANGED <<setInf, setCache, setOut, setChan, job>>
    BY <1>5 DEF CreateSet, manager, informers, caches, chans
  <2>4. QED
    BY <2>1, <2>2, <2>3, FlowWritten
<1>6. ASSUME DeleteSet PROVE SetInv'
  <2>1. WriteSet(NoSet) /\ UNCHANGED <<setInf, setCache, setOut, setChan, job>>
    BY <1>6 DEF DeleteSet, manager, informers, caches, chans
  <2>2. QED
    BY <2>1, FlowWritten
<1>7. ASSUME Kill PROVE SetInv'
  BY <1>7, FlowDown DEF Kill
<1>8. ASSUME NEW p \in Pod, PodStep(p)
      PROVE  SetInv'
  BY <1>1, <1>8 DEF PodStep, PodRuns, PodGoesBad, PodReports, UserDeletesPod, PodPutLands, PutPod,
                    etcd, streams, manager, informers, caches, chans, history
<1>9. QED
  BY <1>2, <1>3, <1>4, <1>5, <1>6, <1>7, <1>8

\* Every step keeps what the cached Status rests on.
LEMMA StepFlow ==
    ASSUME SetInv, [Next]_vars
    PROVE  SetInv'
<1>1. Typed'
  BY StepTyped DEF SetInv
<1>2. CASE Next
  BY <1>1, <1>2, SetInformerFlow, HandlersFlow, JobFlow, OthersFlow, Zenon
     DEF Next, Informers, Failures, PodStep
<1>3. CASE UNCHANGED vars
  <2>1. UNCHANGED <<set, setStream, unseen, setInf, setCache, setOut, setChan, job>>
    BY <1>3 DEF vars, etcd, streams, informers, caches, chans, manager, history
  <2>2. CreateUnderWay => CreateUnderWay'
    BY <2>1 DEF CreateUnderWay
  <2>3. QED
    BY <1>1, <2>1, <2>2, FlowUntouched DEF StatusKept
<1>4. QED
  BY <1>2, <1>3

\* A cached ReplicaSet lacks a Status, which ends the process at the next pod event,
\* only while its creation or a Status is still on its way, when it is deleted already,
\* or once a write failed or was not sent: for any pods, counts, failures and bounds.
THEOREM NilStatusExplained == Spec => []NilStatusHasCause
<1>1. Init => SetInv
  <2>1. Init => StreamFollows /\ BareCaused
    BY DEF Init, StreamFollows, BareCaused, Bare
  <2>2. QED
    BY <2>1, InitTyped DEF SetInv
<1>2. SetInv /\ [Next]_vars => SetInv'
  BY StepFlow
<1>3. SetInv => NilStatusHasCause
  <2> SUFFICES ASSUME SetInv, ~unseen, setCache # NoSet, setCache.status = NoStatus, set # NoSet
               PROVE  \/ setOut # NoEvent /\ setOut.type = "create"
                      \/ \E e \in ToSet(setChan) : e.type = "create"
                      \/ job # NoJob /\ job.kind = "create"
                      \/ \E o \in ToSet(setStream) : o = NoSet \/ o.status # NoStatus
    BY Zenon DEF NilStatusHasCause
  <2>1. CreateUnderWay
    BY DEF SetInv, BareCaused, Bare
  <2>2. /\ \A i \in 1..Len(setChan) : setChan[i] \in ToSet(setChan)
        /\ \A i \in 1..Len(setStream) : setStream[i] \in ToSet(setStream)
    BY DEF SetInv, Typed, TypeOK, ToSet
  <2>3. QED
    BY <2>1, <2>2 DEF CreateUnderWay, Bare
<1>4. QED
  BY <1>1, <1>2, <1>3, PTL DEF Spec
=============================================================================
