--------------------------- MODULE SimulationProofs ---------------------------
(***************************************************************************)
(* Proofs about Simulation, for any number of Deployments, ReplicaSets,    *)
(* pods, nodes and requests, and any budgets: its types, that every        *)
(* counter equals a scan of the pods, and what API writes and ticks that   *)
(* interleave may not lose.                                                *)
(*                                                                         *)
(* First PodTable: every operation keeps every counter equal to what a     *)
(* scan of the pods would find.  These proofs have one form: an operation  *)
(* adds pods to some of the sets that are counted, takes pods from others, *)
(* and leaves the rest alone.                                              *)
(***************************************************************************)
EXTENDS Simulation, FiniteSetTheorems, TLAPS

\* A table whose counters are right, and whose available pods are ready.
Counted(c) ==
    /\ c \in Tables
    /\ ReplicaSetCounters(c)
    /\ ClusterCounters(c)
    /\ AvailIsReady(c)

-----------------------------------------------------------------------------
(* Counting.                                                               *)

\* A set of pods has a finite number of elements.
LEMMA PodSets == \A S \in SUBSET Pods : IsFiniteSet(S) /\ Cardinality(S) \in Nat
  BY PodTableAssumption, FS_Subset, FS_CardinalityType

\* One element more.
LEMMA OneMore ==
    ASSUME NEW S \in SUBSET Pods, NEW p \in Pods, p \notin S
    PROVE  Cardinality(S \cup {p}) = Cardinality(S) + 1
  BY PodSets, FS_AddElement

\* One element less.
LEMMA OneLess ==
    ASSUME NEW S \in SUBSET Pods, NEW p \in S
    PROVE  Cardinality(S \ {p}) = Cardinality(S) - 1
  BY PodSets, FS_RemoveElement

\* One element less, if it was there.
LEMMA Without ==
    ASSUME NEW S \in SUBSET Pods, NEW p
    PROVE  Cardinality(S \ {p})
             = IF p \in S THEN Cardinality(S) - 1 ELSE Cardinality(S)
  BY PodSets, FS_RemoveElement

\* Several elements more.
LEMMA SomeMore ==
    ASSUME NEW S \in SUBSET Pods, NEW N \in SUBSET Pods, S \cap N = {}
    PROVE  Cardinality(S \cup N) = Cardinality(S) + Cardinality(N)
<1>1. /\ IsFiniteSet(S) /\ IsFiniteSet(N)
      /\ Cardinality(S) \in Nat /\ Cardinality(N) \in Nat
  BY PodSets
<1>2. Cardinality(S \cup N)
        = Cardinality(S) + Cardinality(N) - Cardinality(S \cap N)
  BY <1>1, FS_Union
<1>3. Cardinality(S \cap N) = 0
  BY FS_EmptySet
<1> QED
  BY <1>1, <1>2, <1>3

\* The sets a table's counters count are sets of pods.
LEMMA CountedSets ==
    ASSUME NEW c \in Tables
    PROVE  /\ \A r \in ReplicaSets : /\ PodsOf(c, r) \in SUBSET Pods
                                     /\ ReadyOf(c, r) \in SUBSET Pods
                                     /\ AvailOf(c, r) \in SUBSET Pods
                                     /\ EndingOf(c, r) \in SUBSET Pods
           /\ \A s \in PodStates : InState(c, s) \in SUBSET Pods
           /\ c.live \cap c.deleted \in SUBSET Pods
           /\ \A n \in Nodes : OnNode(c, n) \in SUBSET Pods
  BY DEF Tables, PodsOf, ReadyOf, AvailOf, EndingOf, InState, OnNode

\* What is counted does not change when the fields it is made of do not.
LEMMA Unmoved ==
    ASSUME NEW c, NEW t, t.live = c.live, t.rs = c.rs
    PROVE  /\ \A r : PodsOf(t, r) = PodsOf(c, r)
           /\ t.state = c.state => \A r : ReadyOf(t, r) = ReadyOf(c, r)
           /\ t.state = c.state => \A s : InState(t, s) = InState(c, s)
           /\ t.avail = c.avail => \A r : AvailOf(t, r) = AvailOf(c, r)
           /\ t.deleted = c.deleted => \A r : EndingOf(t, r) = EndingOf(c, r)
           /\ t.sched = c.sched /\ t.node = c.node =>
                \A n : OnNode(t, n) = OnNode(c, n)
<1>1. \A r : PodsOf(t, r) = PodsOf(c, r)
  BY DEF PodsOf
<1>2. t.state = c.state => \A s : InState(t, s) = InState(c, s)
  BY DEF InState
<1> QED
  BY <1>1, <1>2 DEF ReadyOf, AvailOf, EndingOf, OnNode

-----------------------------------------------------------------------------
(* The operations.                                                         *)

\* A notice about a pod changes no counter.
LEMMA TouchKeeps ==
    ASSUME NEW c, Counted(c), NEW p \in Pods
    PROVE  Counted(TouchPod(c, p))
<1> DEFINE t == TouchPod(c, p)
<1>1. c \in Tables
  BY DEF Counted
<1>2. t \in Tables
  BY <1>1 DEF TouchPod, Tables, Notices
<1>3. /\ t.live = c.live /\ t.avail = c.avail /\ t.deleted = c.deleted
      /\ t.sched = c.sched /\ t.rs = c.rs /\ t.state = c.state
      /\ t.node = c.node /\ t.total = c.total /\ t.ready = c.ready
      /\ t.available = c.available /\ t.terminating = c.terminating
      /\ t.count = c.count /\ t.ending = c.ending /\ t.nodePods = c.nodePods
  BY <1>1 DEF TouchPod, Tables
<1>4. Counted(t)
  <2> HIDE DEF t
  <2>1. ReplicaSetCounters(t)
    BY <1>3, Unmoved DEF Counted, ReplicaSetCounters
  <2>2. ClusterCounters(t)
    BY <1>3, Unmoved DEF Counted, ClusterCounters
  <2> QED
    BY <1>2, <1>3, <2>1, <2>2 DEF Counted, AvailIsReady
<1> QED
  BY <1>4

\* A ready pod that becomes available is counted once.
LEMMA AvailableKeeps ==
    ASSUME NEW c, Counted(c), NEW p \in c.live
    PROVE  Counted(MarkPodAvailable(c, p))
<1> DEFINE t == MarkPodAvailable(c, p)
           r == c.rs[p]
<1>1. c \in Tables /\ p \in Pods /\ r \in ReplicaSets
  BY DEF Counted, Tables
<1>2. CASE p \in c.avail \/ ~Ready(c.state[p])
  BY <1>2 DEF MarkPodAvailable
<1>3. CASE ~(p \in c.avail \/ ~Ready(c.state[p]))
  <2>1. /\ t.live = c.live /\ t.avail = c.avail \cup {p} /\ t.deleted = c.deleted
        /\ t.sched = c.sched /\ t.rs = c.rs /\ t.state = c.state
        /\ t.node = c.node /\ t.total = c.total /\ t.ready = c.ready
        /\ t.available = [c.available EXCEPT ![r] = @ + 1]
        /\ t.terminating = c.terminating
        /\ t.count = c.count /\ t.ending = c.ending /\ t.nodePods = c.nodePods
    BY <1>1, <1>3 DEF MarkPodAvailable, Tables
  <2>2. t \in Tables
    <3>1. /\ c.available[r] \in Int
          /\ [c.available EXCEPT ![r] = @ + 1] \in [ReplicaSets -> Int]
          /\ c.avail \cup {p} \in SUBSET Pods
      BY <1>1 DEF Tables
    <3>2. t = [c EXCEPT !.avail = c.avail \cup {p},
                        !.available = [c.available EXCEPT ![r] = @ + 1]]
      BY <1>1, <1>3 DEF MarkPodAvailable, Tables
    <3> QED
      BY <1>1, <3>1, <3>2 DEF Tables
  <2> HIDE DEF t
  <2>3. ASSUME NEW x \in ReplicaSets
        PROVE  t.available[x] = Cardinality(AvailOf(t, x))
    <3>1. AvailOf(t, x) = IF x = r THEN AvailOf(c, x) \cup {p} ELSE AvailOf(c, x)
      BY <1>1, <2>1 DEF AvailOf, PodsOf
    <3>2. p \notin AvailOf(c, x) /\ AvailOf(c, x) \in SUBSET Pods
      BY <1>1, <1>3, CountedSets DEF AvailOf
    <3>3. t.available[x] = IF x = r THEN c.available[x] + 1 ELSE c.available[x]
      BY <1>1, <2>1 DEF Tables
    <3>4. c.available[x] = Cardinality(AvailOf(c, x))
      BY DEF Counted, ReplicaSetCounters
    <3> QED
      BY <1>1, <3>1, <3>2, <3>3, <3>4, OneMore
  <2>4. ReplicaSetCounters(t)
    BY <2>1, <2>3, Unmoved DEF Counted, ReplicaSetCounters
  <2>5. ClusterCounters(t)
    BY <2>1, Unmoved DEF Counted, ClusterCounters
  <2>6. AvailIsReady(t)
    BY <1>3, <2>1 DEF Counted, AvailIsReady
  <2>7. Counted(t)
    BY <2>2, <2>4, <2>5, <2>6 DEF Counted
  <2> QED
    BY <2>7 DEF t
<1> QED
  BY <1>2, <1>3

\* A pod is bound to its node, and counted there, once.
LEMMA ScheduleKeeps ==
    ASSUME NEW c, Counted(c), NEW p \in c.live
    PROVE  Counted(SchedulePod(c, p))
<1> DEFINE t == SchedulePod(c, p)
           m == c.node[p]
<1>1. c \in Tables /\ p \in Pods /\ m \in Nodes
  BY DEF Counted, Tables
<1>2. CASE p \in c.sched
  BY <1>2 DEF SchedulePod
<1>3. CASE p \notin c.sched
  <2>1. /\ t.live = c.live /\ t.avail = c.avail /\ t.deleted = c.deleted
        /\ t.sched = c.sched \cup {p} /\ t.rs = c.rs /\ t.state = c.state
        /\ t.node = c.node /\ t.total = c.total /\ t.ready = c.ready
        /\ t.available = c.available /\ t.terminating = c.terminating
        /\ t.count = c.count /\ t.ending = c.ending
        /\ t.nodePods = [c.nodePods EXCEPT ![m] = @ + 1]
    BY <1>1, <1>3 DEF SchedulePod, Tables
  <2>2. t \in Tables
    <3>1. /\ [c.nodePods EXCEPT ![m] = @ + 1] \in [Nodes -> Int]
          /\ c.sched \cup {p} \in SUBSET Pods
      BY <1>1 DEF Tables
    <3>2. t = [c EXCEPT !.sched = c.sched \cup {p},
                        !.nodePods = [c.nodePods EXCEPT ![m] = @ + 1]]
      BY <1>1, <1>3 DEF SchedulePod, Tables
    <3> QED
      BY <1>1, <3>1, <3>2 DEF Tables
  <2> HIDE DEF t
  <2>3. ASSUME NEW n \in Nodes
        PROVE  t.nodePods[n] = Cardinality(OnNode(t, n))
    <3>1. OnNode(t, n) = IF n = m THEN OnNode(c, n) \cup {p} ELSE OnNode(c, n)
      BY <1>1, <2>1 DEF OnNode
    <3>2. p \notin OnNode(c, n) /\ OnNode(c, n) \in SUBSET Pods
      BY <1>1, <1>3, CountedSets DEF OnNode
    <3>3. t.nodePods[n] = IF n = m THEN c.nodePods[n] + 1 ELSE c.nodePods[n]
      BY <1>1, <2>1 DEF Tables
    <3>4. c.nodePods[n] = Cardinality(OnNode(c, n))
      BY DEF Counted, ClusterCounters
    <3> QED
      BY <1>1, <3>1, <3>2, <3>3, <3>4, OneMore
  <2>4. ReplicaSetCounters(t)
    BY <2>1, Unmoved DEF Counted, ReplicaSetCounters
  <2>5. ClusterCounters(t)
    BY <2>1, <2>3, Unmoved DEF Counted, ClusterCounters
  <2>6. Counted(t)
    BY <2>1, <2>2, <2>4, <2>5 DEF Counted, AvailIsReady
  <2> QED
    BY <2>6 DEF t
<1> QED
  BY <1>2, <1>3

\* Pods of one ReplicaSet that begin to terminate are counted once.
LEMMA MarkAllKeeps ==
    ASSUME NEW c, Counted(c), NEW r \in ReplicaSets,
           NEW V \in SUBSET (PodsOf(c, r) \ c.deleted)
    PROVE  Counted(MarkAllTerminating(c, V, r))
<1> DEFINE t == MarkAllTerminating(c, V, r)
           k == Cardinality(V)
<1>1. c \in Tables /\ V \in SUBSET Pods /\ V \subseteq c.live
  BY DEF Counted, Tables, PodsOf
<1>2. k \in Nat
  BY <1>1, PodSets
<1>3. /\ t.live = c.live /\ t.avail = c.avail /\ t.deleted = c.deleted \cup V
      /\ t.sched = c.sched /\ t.rs = c.rs /\ t.state = c.state
      /\ t.node = c.node /\ t.total = c.total /\ t.ready = c.ready
      /\ t.available = c.available
      /\ t.terminating = [c.terminating EXCEPT ![r] = @ + k]
      /\ t.count = c.count /\ t.ending = c.ending + k
      /\ t.nodePods = c.nodePods
  BY <1>1 DEF MarkAllTerminating, Tables
<1>4. t \in Tables
  <2> DEFINE term == [c.terminating EXCEPT ![r] = @ + k]
             word == [p \in Pods |-> IF p \in V THEN "MODIFIED" ELSE c.said[p]]
  <2>1. /\ term \in [ReplicaSets -> Int] /\ word \in [Pods -> Notices]
        /\ c.ending + k \in Int /\ c.deleted \cup V \in SUBSET Pods
    BY <1>1, <1>2 DEF Tables, Notices
  <2>2. t = [c EXCEPT !.deleted = c.deleted \cup V, !.terminating = term,
                      !.ending = c.ending + k, !.said = word]
    BY <1>1 DEF MarkAllTerminating, Tables
  <2> QED
    BY <1>1, <2>1, <2>2 DEF Tables
<1>5. Counted(t)
  <2> HIDE DEF t
  <2>1. ASSUME NEW x \in ReplicaSets
        PROVE  t.terminating[x] = Cardinality(EndingOf(t, x))
    <3>1. EndingOf(t, x) = IF x = r THEN EndingOf(c, x) \cup V ELSE EndingOf(c, x)
      BY <1>3 DEF EndingOf, PodsOf
    <3>2. EndingOf(c, x) \cap V = {} /\ EndingOf(c, x) \in SUBSET Pods
      BY <1>1, CountedSets DEF EndingOf
    <3>3. t.terminating[x] = IF x = r THEN c.terminating[x] + k ELSE c.terminating[x]
      BY <1>1, <1>3 DEF Tables
    <3>4. c.terminating[x] = Cardinality(EndingOf(c, x))
      BY DEF Counted, ReplicaSetCounters
    <3> QED
      BY <1>1, <3>1, <3>2, <3>3, <3>4, SomeMore
  <2>2. t.ending = Cardinality(t.live \cap t.deleted)
    <3>1. t.live \cap t.deleted = (c.live \cap c.deleted) \cup V
      BY <1>1, <1>3
    <3>2. (c.live \cap c.deleted) \cap V = {} /\ c.live \cap c.deleted \in SUBSET Pods
      BY <1>1, CountedSets
    <3>3. c.ending = Cardinality(c.live \cap c.deleted)
      BY DEF Counted, ClusterCounters
    <3> QED
      BY <1>1, <1>3, <3>1, <3>2, <3>3, SomeMore
  <2>3. ReplicaSetCounters(t)
    BY <1>3, <2>1, Unmoved DEF Counted, ReplicaSetCounters
  <2>4. ClusterCounters(t)
    BY <1>3, <2>2, Unmoved DEF Counted, ClusterCounters
  <2> QED
    BY <1>3, <1>4, <2>3, <2>4 DEF Counted, AvailIsReady
<1> QED
  BY <1>5

\* A pod that is terminating already is not counted again.
LEMMA MarkKeeps ==
    ASSUME NEW c, Counted(c), NEW p \in c.live
    PROVE  Counted(MarkPodTerminating(c, p))
<1>1. c \in Tables /\ p \in Pods /\ c.rs[p] \in ReplicaSets
  BY DEF Counted, Tables
<1>2. CASE p \in c.deleted
  BY <1>2 DEF MarkPodTerminating
<1>3. CASE p \notin c.deleted
  <2>1. {p} \in SUBSET (PodsOf(c, c.rs[p]) \ c.deleted)
    BY <1>3 DEF PodsOf
  <2>2. Cardinality({p}) = 1
    BY FS_Singleton
  <2>3. [c.said EXCEPT ![p] = "MODIFIED"]
          = [q \in Pods |-> IF q \in {p} THEN "MODIFIED" ELSE c.said[q]]
    BY <1>1 DEF Tables
  <2>4. MarkPodTerminating(c, p) = MarkAllTerminating(c, {p}, c.rs[p])
    BY <1>1, <1>3, <2>2, <2>3 DEF MarkPodTerminating, MarkAllTerminating, Tables
  <2> QED
    BY <1>1, <2>1, <2>4, MarkAllKeeps
<1> QED
  BY <1>2, <1>3

\* A change of state moves a pod from one count to another; one that stops
\* being ready stops being available.
LEMMA ChangeKeeps ==
    ASSUME NEW c, Counted(c), NEW p \in c.live, NEW s \in PodStates,
           c.state[p] # s
    PROVE  Counted(ChangeState(c, p, s))
<1> DEFINE t    == ChangeState(c, p, s)
           r    == c.rs[p]
           from == c.state[p]
           lost == Ready(from) /\ ~Ready(s)
           won  == ~Ready(from) /\ Ready(s)
           count == [x \in PodStates |-> c.count[x] + (IF x = s THEN 1 ELSE 0)
                                            - (IF x = from THEN 1 ELSE 0)]
           ready == [c.ready EXCEPT ![r] = @ + (IF won THEN 1 ELSE 0)
                                             - (IF lost THEN 1 ELSE 0)]
           available == [c.available EXCEPT
                           ![r] = @ - (IF lost /\ p \in c.avail THEN 1 ELSE 0)]
           avail == IF lost THEN c.avail \ {p} ELSE c.avail
<1>1. c \in Tables /\ p \in Pods /\ r \in ReplicaSets /\ from \in PodStates
  BY DEF Counted, Tables
<1>2. t = [c EXCEPT !.state = [c.state EXCEPT ![p] = s], !.count = count,
                    !.ready = ready, !.available = available, !.avail = avail]
  BY <1>1 DEF ChangeState, Tables
<1>3. /\ [c.state EXCEPT ![p] = s] \in [Pods -> PodStates]
      /\ count \in [PodStates -> Int] /\ ready \in [ReplicaSets -> Int]
      /\ available \in [ReplicaSets -> Int] /\ avail \in SUBSET Pods
  <2>1. [c.state EXCEPT ![p] = s] \in [Pods -> PodStates] /\ avail \in SUBSET Pods
    BY <1>1 DEF Tables
  <2>2. count \in [PodStates -> Int]
    BY <1>1 DEF Tables
  <2>3. ready \in [ReplicaSets -> Int]
    BY <1>1 DEF Tables
  <2>4. available \in [ReplicaSets -> Int]
    BY <1>1 DEF Tables
  <2> QED
    BY <2>1, <2>2, <2>3, <2>4
<1> HIDE DEF count, ready, available, avail
<1>4. t \in Tables
  BY <1>1, <1>2, <1>3 DEF Tables
<1>5. /\ t.live = c.live /\ t.avail = avail /\ t.deleted = c.deleted
      /\ t.sched = c.sched /\ t.rs = c.rs /\ t.node = c.node
      /\ t.state = [c.state EXCEPT ![p] = s] /\ t.total = c.total
      /\ t.ready = ready /\ t.available = available
      /\ t.terminating = c.terminating /\ t.count = count
      /\ t.ending = c.ending /\ t.nodePods = c.nodePods
  BY <1>1, <1>2 DEF Tables
<1>6. Counted(t)
  <2> HIDE DEF t
  <2>1. ASSUME NEW x \in PodStates
        PROVE  t.count[x] = Cardinality(InState(t, x))
    <3>1. InState(t, x) = IF x = s THEN InState(c, x) \cup {p}
                          ELSE IF x = from THEN InState(c, x) \ {p}
                          ELSE InState(c, x)
      BY <1>1, <1>5 DEF InState, Tables
    <3>2. /\ InState(c, x) \in SUBSET Pods
          /\ x = s => p \notin InState(c, x)
          /\ x = from => p \in InState(c, x)
      BY <1>1, CountedSets DEF InState
    <3>3. c.count[x] = Cardinality(InState(c, x)) /\ c.count[x] \in Int
      BY <1>1 DEF Counted, ClusterCounters, Tables
    <3>4. t.count[x] = IF x = s THEN c.count[x] + 1
                       ELSE IF x = from THEN c.count[x] - 1 ELSE c.count[x]
      BY <1>1, <1>5, <3>3 DEF count
    <3> QED
      BY <1>1, <3>1, <3>2, <3>3, <3>4, OneMore, OneLess
  <2>2. ASSUME NEW x \in ReplicaSets
        PROVE  t.ready[x] = Cardinality(ReadyOf(t, x))
    <3>1. ReadyOf(t, x) = IF x = r /\ won THEN ReadyOf(c, x) \cup {p}
                          ELSE IF x = r /\ lost THEN ReadyOf(c, x) \ {p}
                          ELSE ReadyOf(c, x)
      BY <1>1, <1>5 DEF ReadyOf, PodsOf, Tables
    <3>2. /\ ReadyOf(c, x) \in SUBSET Pods
          /\ x = r /\ won => p \notin ReadyOf(c, x)
          /\ x = r /\ lost => p \in ReadyOf(c, x)
      BY <1>1, CountedSets DEF ReadyOf, PodsOf
    <3>3. c.ready[x] = Cardinality(ReadyOf(c, x)) /\ c.ready[x] \in Int
      BY <1>1 DEF Counted, ReplicaSetCounters, Tables
    <3>4. t.ready[x] = IF x = r /\ won THEN c.ready[x] + 1
                       ELSE IF x = r /\ lost THEN c.ready[x] - 1
                       ELSE c.ready[x]
      BY <1>1, <1>5, <3>3 DEF ready, Tables
    <3> QED
      BY <1>1, <3>1, <3>2, <3>3, <3>4, OneMore, OneLess
  <2>3. ASSUME NEW x \in ReplicaSets
        PROVE  t.available[x] = Cardinality(AvailOf(t, x))
    <3>1. AvailOf(t, x) = IF x = r /\ lost /\ p \in c.avail
                          THEN AvailOf(c, x) \ {p} ELSE AvailOf(c, x)
      BY <1>1, <1>5 DEF AvailOf, PodsOf, avail
    <3>2. /\ AvailOf(c, x) \in SUBSET Pods
          /\ x = r /\ p \in c.avail => p \in AvailOf(c, x)
      BY <1>1, CountedSets DEF AvailOf, PodsOf
    <3>3. c.available[x] = Cardinality(AvailOf(c, x)) /\ c.available[x] \in Int
      BY <1>1 DEF Counted, ReplicaSetCounters, Tables
    <3>4. t.available[x] = IF x = r /\ lost /\ p \in c.avail
                           THEN c.available[x] - 1 ELSE c.available[x]
      BY <1>1, <1>5, <3>3 DEF available, Tables
    <3> QED
      BY <1>1, <3>1, <3>2, <3>3, <3>4, OneLess
  <2>4. ReplicaSetCounters(t)
    BY <1>5, <2>2, <2>3, Unmoved DEF Counted, ReplicaSetCounters
  <2>5. ClusterCounters(t)
    BY <1>5, <2>1, Unmoved DEF Counted, ClusterCounters
  <2>6. AvailIsReady(t)
    BY <1>1, <1>5 DEF Counted, AvailIsReady, avail, Tables
  <2> QED
    BY <1>4, <2>4, <2>5, <2>6 DEF Counted
<1> QED
  BY <1>6

\* SetPodState changes nothing when the state is the one the pod is in.
LEMMA SetStateKeeps ==
    ASSUME NEW c, Counted(c), NEW p \in c.live, NEW s \in PodStates
    PROVE  Counted(SetPodState(c, p, s))
  BY ChangeKeeps DEF SetPodState

\* A pod that is removed leaves every count it was in.
LEMMA RemoveKeeps ==
    ASSUME NEW c, Counted(c), NEW p \in c.live
    PROVE  Counted(RemovePod(c, p))
<1> DEFINE t == RemovePod(c, p)
           r == c.rs[p]
           m == c.node[p]
           One(b) == IF b THEN 1 ELSE 0
           total == [c.total EXCEPT ![r] = @ - 1]
           ready == [c.ready EXCEPT ![r] = @ - One(Ready(c.state[p]))]
           available == [c.available EXCEPT ![r] = @ - One(p \in c.avail)]
           ending == [c.terminating EXCEPT ![r] = @ - One(p \in c.deleted)]
           count == [c.count EXCEPT ![c.state[p]] = @ - 1]
           nodePods == [c.nodePods EXCEPT
                          ![m] = @ - One(p \in c.sched /\ c.nodePods[m] > 0)]
           word == [c.said EXCEPT ![p] = "DELETED"]
           left == c.live \ {p}
           going == c.ending - One(p \in c.deleted)
<1>1. /\ c \in Tables /\ p \in Pods /\ r \in ReplicaSets /\ m \in Nodes
      /\ c.state[p] \in PodStates
  BY DEF Counted, Tables
<1>2. t = [c EXCEPT !.live = left, !.total = total, !.ready = ready,
                    !.available = available, !.terminating = ending,
                    !.count = count, !.ending = going,
                    !.nodePods = nodePods, !.said = word]
  BY <1>1 DEF RemovePod, Tables
<1>3. /\ total \in [ReplicaSets -> Int] /\ ready \in [ReplicaSets -> Int]
      /\ available \in [ReplicaSets -> Int] /\ ending \in [ReplicaSets -> Int]
      /\ count \in [PodStates -> Int] /\ nodePods \in [Nodes -> Int]
      /\ word \in [Pods -> Notices] /\ going \in Int /\ left \in SUBSET Pods
  <2>1. total \in [ReplicaSets -> Int] /\ ready \in [ReplicaSets -> Int]
    BY <1>1 DEF Tables
  <2>2. available \in [ReplicaSets -> Int] /\ ending \in [ReplicaSets -> Int]
    BY <1>1 DEF Tables
  <2>3. count \in [PodStates -> Int] /\ nodePods \in [Nodes -> Int]
    BY <1>1 DEF Tables
  <2>4. word \in [Pods -> Notices] /\ going \in Int /\ left \in SUBSET Pods
    BY <1>1 DEF Tables, Notices
  <2> QED
    BY <2>1, <2>2, <2>3, <2>4
<1> HIDE DEF total, ready, available, ending, count, nodePods, word, left, going
<1>4. t \in Tables
  <2> HIDE DEF t
  <2>1. /\ c.avail \in SUBSET Pods /\ c.deleted \in SUBSET Pods
        /\ c.sched \in SUBSET Pods /\ c.rs \in [Pods -> ReplicaSets]
        /\ c.state \in [Pods -> PodStates] /\ c.node \in [Pods -> Nodes]
    BY <1>1 DEF Tables
  <2>2. t = [live |-> left, avail |-> c.avail, deleted |-> c.deleted,
             sched |-> c.sched, rs |-> c.rs, state |-> c.state, node |-> c.node,
             said |-> word, total |-> total, ready |-> ready,
             available |-> available, terminating |-> ending, count |-> count,
             ending |-> going, nodePods |-> nodePods]
    BY <1>1, <1>2 DEF Tables
  <2> QED
    BY <1>3, <2>1, <2>2 DEF Tables
<1>5. /\ t.live = c.live \ {p} /\ t.avail = c.avail /\ t.deleted = c.deleted
      /\ t.sched = c.sched /\ t.rs = c.rs /\ t.node = c.node
      /\ t.state = c.state /\ t.total = total /\ t.ready = ready
      /\ t.available = available /\ t.terminating = ending /\ t.count = count
      /\ t.ending = c.ending - One(p \in c.deleted) /\ t.nodePods = nodePods
  BY <1>1, <1>2 DEF Tables, left, going
<1>6. Counted(t)
  <2> HIDE DEF t
  <2>1. ASSUME NEW x \in ReplicaSets
        PROVE  /\ t.total[x] = Cardinality(PodsOf(t, x))
               /\ t.ready[x] = Cardinality(ReadyOf(t, x))
               /\ t.available[x] = Cardinality(AvailOf(t, x))
               /\ t.terminating[x] = Cardinality(EndingOf(t, x))
    <3>1. /\ PodsOf(c, x) \in SUBSET Pods /\ ReadyOf(c, x) \in SUBSET Pods
          /\ AvailOf(c, x) \in SUBSET Pods /\ EndingOf(c, x) \in SUBSET Pods
      BY <1>1, CountedSets
    <3>2. PodsOf(t, x) = PodsOf(c, x) \ {p} /\ (p \in PodsOf(c, x) <=> x = r)
      BY <1>5 DEF PodsOf
    <3>3. /\ ReadyOf(t, x) = ReadyOf(c, x) \ {p}
          /\ p \in ReadyOf(c, x) <=> x = r /\ Ready(c.state[p])
      BY <1>5, <3>2 DEF ReadyOf
    <3>4. /\ AvailOf(t, x) = AvailOf(c, x) \ {p}
          /\ p \in AvailOf(c, x) <=> x = r /\ p \in c.avail
      BY <1>5, <3>2 DEF AvailOf
    <3>5. /\ EndingOf(t, x) = EndingOf(c, x) \ {p}
          /\ p \in EndingOf(c, x) <=> x = r /\ p \in c.deleted
      BY <1>5, <3>2 DEF EndingOf
    <3>6. /\ c.total[x] = Cardinality(PodsOf(c, x)) /\ c.total[x] \in Int
          /\ c.ready[x] = Cardinality(ReadyOf(c, x)) /\ c.ready[x] \in Int
          /\ c.available[x] = Cardinality(AvailOf(c, x)) /\ c.available[x] \in Int
          /\ c.terminating[x] = Cardinality(EndingOf(c, x))
          /\ c.terminating[x] \in Int
      BY <1>1 DEF Counted, ReplicaSetCounters, Tables
    <3>7. /\ t.total[x] = c.total[x] - One(x = r)
          /\ t.ready[x] = c.ready[x] - One(x = r /\ Ready(c.state[p]))
      BY <1>1, <1>5, <3>6 DEF Tables, total, ready
    <3>8. /\ t.available[x] = c.available[x] - One(x = r /\ p \in c.avail)
          /\ t.terminating[x] = c.terminating[x] - One(x = r /\ p \in c.deleted)
      BY <1>1, <1>5, <3>6 DEF Tables, available, ending
    <3>9. t.total[x] = Cardinality(PodsOf(t, x))
      BY <3>1, <3>2, <3>6, <3>7, Without
    <3>10. t.ready[x] = Cardinality(ReadyOf(t, x))
      BY <3>1, <3>3, <3>6, <3>7, Without
    <3>11. t.available[x] = Cardinality(AvailOf(t, x))
      BY <3>1, <3>4, <3>6, <3>8, Without
    <3>12. t.terminating[x] = Cardinality(EndingOf(t, x))
      BY <3>1, <3>5, <3>6, <3>8, Without
    <3> QED
      BY <3>9, <3>10, <3>11, <3>12
  <2>2. ReplicaSetCounters(t)
    BY <2>1 DEF ReplicaSetCounters
  <2>3. ASSUME NEW x \in PodStates
        PROVE  t.count[x] = Cardinality(InState(t, x))
    <3>1. InState(t, x) = InState(c, x) \ {p} /\ InState(c, x) \in SUBSET Pods
      BY <1>1, <1>5, CountedSets DEF InState
    <3>2. p \in InState(c, x) <=> x = c.state[p]
      BY DEF InState
    <3>3. c.count[x] = Cardinality(InState(c, x)) /\ c.count[x] \in Int
      BY <1>1 DEF Counted, ClusterCounters, Tables
    <3>4. t.count[x] = c.count[x] - One(x = c.state[p])
      BY <1>1, <1>5, <3>3 DEF Tables, count
    <3> QED
      BY <3>1, <3>2, <3>3, <3>4, Without
  <2>4. t.ending = Cardinality(t.live \cap t.deleted)
    <3>1. t.live \cap t.deleted = (c.live \cap c.deleted) \ {p}
      BY <1>5
    <3>2. c.live \cap c.deleted \in SUBSET Pods
      BY <1>1, CountedSets
    <3>3. c.ending = Cardinality(c.live \cap c.deleted) /\ c.ending \in Int
      BY <1>1 DEF Counted, ClusterCounters, Tables
    <3>4. Cardinality((c.live \cap c.deleted) \ {p})
            = c.ending - One(p \in c.live \cap c.deleted)
      BY <3>2, <3>3, Without
    <3>5. t.ending = c.ending - One(p \in c.live \cap c.deleted)
      BY <1>5
    <3> QED
      BY <3>1, <3>4, <3>5
  <2>5. ASSUME NEW n \in Nodes
        PROVE  t.nodePods[n] = Cardinality(OnNode(t, n))
    <3>1. OnNode(t, n) = OnNode(c, n) \ {p} /\ OnNode(c, n) \in SUBSET Pods
      BY <1>1, <1>5, CountedSets DEF OnNode
    <3>2. p \in OnNode(c, n) <=> n = m /\ p \in c.sched
      BY DEF OnNode
    <3>3. c.nodePods[n] = Cardinality(OnNode(c, n)) /\ c.nodePods[n] \in Int
      BY <1>1 DEF Counted, ClusterCounters, Tables
    <3>4. t.nodePods[n]
            = c.nodePods[n] - One(n = m /\ p \in c.sched /\ c.nodePods[n] > 0)
      BY <1>1, <1>5, <3>3 DEF Tables, nodePods
    <3>5. CASE n = m /\ p \in c.sched
      <4>1. Cardinality(OnNode(c, n)) # 0
        BY <3>1, <3>2, <3>5, PodSets, FS_EmptySet
      <4>2. c.nodePods[n] > 0
        BY <3>1, <3>3, <4>1, PodSets
      <4> QED
        BY <3>1, <3>2, <3>3, <3>4, <3>5, <4>2, Without
    <3>6. CASE ~(n = m /\ p \in c.sched)
      BY <3>1, <3>2, <3>3, <3>4, <3>6, Without
    <3> QED
      BY <3>5, <3>6
  <2>6. ClusterCounters(t) /\ AvailIsReady(t)
    BY <1>5, <2>3, <2>4, <2>5 DEF Counted, ClusterCounters, AvailIsReady
  <2> QED
    BY <1>4, <2>2, <2>6 DEF Counted
<1> QED
  BY <1>6

\* New pods are counted as pending pods of their ReplicaSet, and as nothing
\* else, whatever their identities stood for before.
LEMMA AddKeeps ==
    ASSUME NEW c, Counted(c), NEW N \in SUBSET (Pods \ c.live),
           NEW r \in ReplicaSets, NEW nd \in [N -> Nodes]
    PROVE  Counted(AddPods(c, N, r, nd))
<1> DEFINE t == AddPods(c, N, r, nd)
           k == Cardinality(N)
           rs == [p \in Pods |-> IF p \in N THEN r ELSE c.rs[p]]
           state == [p \in Pods |-> IF p \in N THEN "Pending" ELSE c.state[p]]
           node == [p \in Pods |-> IF p \in N THEN nd[p] ELSE c.node[p]]
           word == [p \in Pods |-> IF p \in N THEN "ADDED" ELSE c.said[p]]
           total == [c.total EXCEPT ![r] = @ + k]
           count == [c.count EXCEPT !["Pending"] = @ + k]
<1>1. c \in Tables /\ N \in SUBSET Pods /\ N \cap c.live = {} /\ k \in Nat
  BY PodSets DEF Counted, Tables
<1>2. t = [live |-> c.live \cup N, avail |-> c.avail \ N,
           deleted |-> c.deleted \ N, sched |-> c.sched \ N, rs |-> rs,
           state |-> state, node |-> node, said |-> word, total |-> total,
           ready |-> c.ready, available |-> c.available,
           terminating |-> c.terminating, count |-> count,
           ending |-> c.ending, nodePods |-> c.nodePods]
  <2>1. t = [c EXCEPT !.live = c.live \cup N, !.avail = c.avail \ N,
                      !.deleted = c.deleted \ N, !.sched = c.sched \ N,
                      !.rs = rs, !.state = state, !.node = node, !.said = word,
                      !.total = total, !.count = count]
    BY <1>1 DEF AddPods, Tables
  <2> HIDE DEF t, rs, state, node, word, total, count
  <2> QED
    BY <1>1, <2>1 DEF Tables
<1>3. /\ rs \in [Pods -> ReplicaSets] /\ state \in [Pods -> PodStates]
      /\ node \in [Pods -> Nodes] /\ word \in [Pods -> Notices]
      /\ total \in [ReplicaSets -> Int] /\ count \in [PodStates -> Int]
  <2>1. rs \in [Pods -> ReplicaSets] /\ state \in [Pods -> PodStates]
    BY <1>1 DEF Tables, PodStates
  <2>2. node \in [Pods -> Nodes] /\ word \in [Pods -> Notices]
    BY <1>1 DEF Tables, Notices
  <2>3. total \in [ReplicaSets -> Int] /\ count \in [PodStates -> Int]
    BY <1>1 DEF Tables, PodStates
  <2> QED
    BY <2>1, <2>2, <2>3
<1>4. t \in Tables
  <2> HIDE DEF t, rs, state, node, word, total, count
  <2> QED
    BY <1>1, <1>2, <1>3 DEF Tables
<1>5. /\ t.live = c.live \cup N /\ t.avail = c.avail \ N
      /\ t.deleted = c.deleted \ N /\ t.sched = c.sched \ N
      /\ t.ready = c.ready /\ t.available = c.available
      /\ t.terminating = c.terminating /\ t.ending = c.ending
      /\ t.nodePods = c.nodePods /\ t.total = total /\ t.count = count
  BY <1>2
<1>6. /\ \A p \in N : t.rs[p] = r /\ t.state[p] = "Pending"
      /\ \A p \in c.live : /\ t.rs[p] = c.rs[p] /\ t.state[p] = c.state[p]
                           /\ t.node[p] = c.node[p]
  <2>1. t.rs = rs /\ t.state = state /\ t.node = node /\ c.live \subseteq Pods
    BY <1>1, <1>2 DEF Tables
  <2> QED
    BY <1>1, <2>1
<1>7. Counted(t)
  <2> HIDE DEF t
  <2>1. ~Ready("Pending")
    BY DEF Ready
  <2>2. ASSUME NEW x \in ReplicaSets
        PROVE  /\ t.total[x] = Cardinality(PodsOf(t, x))
               /\ t.ready[x] = Cardinality(ReadyOf(t, x))
               /\ t.available[x] = Cardinality(AvailOf(t, x))
               /\ t.terminating[x] = Cardinality(EndingOf(t, x))
    <3>1. PodsOf(t, x) = IF x = r THEN PodsOf(c, x) \cup N ELSE PodsOf(c, x)
      BY <1>1, <1>5, <1>6 DEF PodsOf
    <3>2. PodsOf(c, x) \in SUBSET Pods /\ PodsOf(c, x) \cap N = {}
      BY <1>1, CountedSets DEF PodsOf
    <3>3. ReadyOf(t, x) = ReadyOf(c, x)
      BY <1>1, <1>5, <1>6, <2>1 DEF ReadyOf, PodsOf
    <3>4. AvailOf(t, x) = AvailOf(c, x) /\ EndingOf(t, x) = EndingOf(c, x)
      BY <1>5, <3>1, <3>2 DEF AvailOf, EndingOf
    <3>5. /\ c.total[x] = Cardinality(PodsOf(c, x))
          /\ c.ready[x] = Cardinality(ReadyOf(c, x))
          /\ c.available[x] = Cardinality(AvailOf(c, x))
          /\ c.terminating[x] = Cardinality(EndingOf(c, x))
      BY DEF Counted, ReplicaSetCounters
    <3>6. t.total[x] = IF x = r THEN c.total[x] + k ELSE c.total[x]
      BY <1>1, <1>5 DEF Tables
    <3>7. t.total[x] = Cardinality(PodsOf(t, x))
      BY <1>1, <3>1, <3>2, <3>5, <3>6, SomeMore
    <3> QED
      BY <1>5, <3>3, <3>4, <3>5, <3>7
  <2>3. ReplicaSetCounters(t)
    BY <2>2 DEF ReplicaSetCounters
  <2>4. ASSUME NEW x \in PodStates
        PROVE  t.count[x] = Cardinality(InState(t, x))
    <3>1. InState(t, x) = IF x = "Pending" THEN InState(c, x) \cup N
                          ELSE InState(c, x)
      BY <1>1, <1>5, <1>6 DEF InState
    <3>2. InState(c, x) \in SUBSET Pods /\ InState(c, x) \cap N = {}
      BY <1>1, CountedSets DEF InState
    <3>3. c.count[x] = Cardinality(InState(c, x))
      BY DEF Counted, ClusterCounters
    <3>4. t.count[x] = IF x = "Pending" THEN c.count[x] + k ELSE c.count[x]
      BY <1>1, <1>5 DEF Tables
    <3> QED
      BY <1>1, <3>1, <3>2, <3>3, <3>4, SomeMore
  <2>5. /\ t.live \cap t.deleted = c.live \cap c.deleted
        /\ \A n \in Nodes : OnNode(t, n) = OnNode(c, n)
    BY <1>1, <1>5, <1>6 DEF OnNode
  <2>6. ClusterCounters(t)
    BY <1>5, <2>4, <2>5 DEF Counted, ClusterCounters
  <2>7. AvailIsReady(t)
    BY <1>1, <1>5, <1>6 DEF Counted, AvailIsReady
  <2> QED
    BY <1>4, <2>3, <2>6, <2>7 DEF Counted
<1> QED
  BY <1>7

\* The initial build counts what it built.
LEMMA BuildCounts ==
    ASSUME NEW B \in SUBSET Pods, NEW rs \in [B -> ReplicaSets],
           NEW state \in [B -> PodStates], NEW node \in [B -> Nodes],
           NEW avail \in SUBSET B, \A p \in avail : Ready(state[p])
    PROVE  Counted(BuildPods(rs, state, node, avail))
<1> DEFINE t == BuildPods(rs, state, node, avail)
           aRS == CHOOSE x \in ReplicaSets : TRUE
           aNode == CHOOSE x \in Nodes : TRUE
           sched == {p \in B : state[p] # "Pending"}
<1>1. aRS \in ReplicaSets /\ aNode \in Nodes /\ DOMAIN state = B
  BY PodTableAssumption
<1>2. /\ \A r : {p \in B : rs[p] = r} \in SUBSET Pods
      /\ \A r : {p \in B : rs[p] = r /\ Ready(state[p])} \in SUBSET Pods
      /\ \A r : {p \in avail : rs[p] = r} \in SUBSET Pods
      /\ \A s : {p \in B : state[p] = s} \in SUBSET Pods
      /\ \A n : {p \in sched : node[p] = n} \in SUBSET Pods
  OBVIOUS
<1>3. /\ t.live = B /\ t.avail = avail /\ t.deleted = {} /\ t.sched = sched
      /\ t.rs = [p \in Pods |-> IF p \in B THEN rs[p] ELSE aRS]
      /\ t.state = [p \in Pods |-> IF p \in B THEN state[p] ELSE "Error"]
      /\ t.node = [p \in Pods |-> IF p \in B THEN node[p] ELSE aNode]
      /\ t.said = [p \in Pods |-> "none"]
      /\ t.total = [r \in ReplicaSets |-> Cardinality({p \in B : rs[p] = r})]
      /\ t.ready = [r \in ReplicaSets |->
                     Cardinality({p \in B : rs[p] = r /\ Ready(state[p])})]
      /\ t.available = [r \in ReplicaSets |->
                         Cardinality({p \in avail : rs[p] = r})]
      /\ t.terminating = [r \in ReplicaSets |-> 0]
      /\ t.count = [s \in PodStates |-> Cardinality({p \in B : state[p] = s})]
      /\ t.ending = 0
      /\ t.nodePods = [n \in Nodes |-> Cardinality({p \in sched : node[p] = n})]
  BY <1>1 DEF BuildPods
<1>4. t \in Tables
  <2>1. /\ t.live \in SUBSET Pods /\ t.avail \in SUBSET Pods
        /\ t.deleted \in SUBSET Pods /\ t.sched \in SUBSET Pods
    BY <1>3
  <2>2. t.rs \in [Pods -> ReplicaSets] /\ t.state \in [Pods -> PodStates]
    BY <1>1, <1>3 DEF PodStates
  <2>3. t.node \in [Pods -> Nodes] /\ t.said \in [Pods -> Notices]
    BY <1>1, <1>3 DEF Notices
  <2>4. t.total \in [ReplicaSets -> Int] /\ t.ready \in [ReplicaSets -> Int]
    BY <1>2, <1>3, PodSets
  <2>5. t.available \in [ReplicaSets -> Int] /\ t.terminating \in [ReplicaSets -> Int]
    BY <1>2, <1>3, PodSets
  <2>6. t.count \in [PodStates -> Int] /\ t.nodePods \in [Nodes -> Int]
    BY <1>2, <1>3, PodSets
  <2>7. t = [live |-> t.live, avail |-> t.avail, deleted |-> t.deleted,
             sched |-> t.sched, rs |-> t.rs, state |-> t.state, node |-> t.node,
             said |-> t.said, total |-> t.total, ready |-> t.ready,
             available |-> t.available, terminating |-> t.terminating,
             count |-> t.count, ending |-> t.ending, nodePods |-> t.nodePods]
    BY DEF BuildPods
  <2>8. t.ending \in Int
    BY <1>3
  <2> HIDE DEF t
  <2> QED
    BY <2>1, <2>2, <2>3, <2>4, <2>5, <2>6, <2>7, <2>8 DEF Tables
<1>5. Counted(t)
  <2> HIDE DEF t
  <2>1. /\ \A p \in B : t.rs[p] = rs[p] /\ t.state[p] = state[p]
                        /\ t.node[p] = node[p]
    BY <1>3
  <2>2. ASSUME NEW r \in ReplicaSets
        PROVE  /\ PodsOf(t, r) = {p \in B : rs[p] = r}
               /\ ReadyOf(t, r) = {p \in B : rs[p] = r /\ Ready(state[p])}
               /\ AvailOf(t, r) = {p \in avail : rs[p] = r}
               /\ EndingOf(t, r) = {}
    <3>1. PodsOf(t, r) = {p \in B : rs[p] = r}
      BY <1>3, <2>1 DEF PodsOf
    <3>2. ReadyOf(t, r) = {p \in B : rs[p] = r /\ Ready(state[p])}
      BY <2>1, <3>1 DEF ReadyOf
    <3>3. AvailOf(t, r) = {p \in avail : rs[p] = r}
      BY <1>3, <3>1 DEF AvailOf
    <3> QED
      BY <1>3, <3>1, <3>2, <3>3 DEF EndingOf
  <2>3. ASSUME NEW r \in ReplicaSets
        PROVE  /\ t.total[r] = Cardinality(PodsOf(t, r))
               /\ t.ready[r] = Cardinality(ReadyOf(t, r))
               /\ t.available[r] = Cardinality(AvailOf(t, r))
               /\ t.terminating[r] = Cardinality(EndingOf(t, r))
    <3>1. /\ t.total[r] = Cardinality({p \in B : rs[p] = r})
          /\ t.ready[r] = Cardinality({p \in B : rs[p] = r /\ Ready(state[p])})
          /\ t.available[r] = Cardinality({p \in avail : rs[p] = r})
          /\ t.terminating[r] = 0
      BY <1>3, Zenon
    <3>2. Cardinality(EndingOf(t, r)) = 0
      BY <2>2, FS_EmptySet
    <3> QED
      BY <2>2, <3>1, <3>2, Zenon
  <2>4. \A s \in PodStates : InState(t, s) = {p \in B : state[p] = s}
    BY <1>3, <2>1 DEF InState
  <2>5. \A n \in Nodes : OnNode(t, n) = {p \in sched : node[p] = n}
    BY <1>3, <2>1 DEF OnNode
  <2>6. t.live \cap t.deleted = {}
    BY <1>3
  <2>7. ClusterCounters(t)
    <3>1. ASSUME NEW s \in PodStates
          PROVE  t.count[s] = Cardinality(InState(t, s))
      <4>1. t.count[s] = Cardinality({p \in B : state[p] = s})
        BY <1>3, Zenon
      <4> QED
        BY <2>4, <4>1, Zenon
    <3>2. ASSUME NEW n \in Nodes
          PROVE  t.nodePods[n] = Cardinality(OnNode(t, n))
      <4>1. t.nodePods[n] = Cardinality({p \in sched : node[p] = n})
        BY <1>3, Zenon
      <4> QED
        BY <2>5, <4>1, Zenon
    <3>3. t.ending = Cardinality(t.live \cap t.deleted)
      BY <1>3, <2>6, FS_EmptySet
    <3> QED
      BY <3>1, <3>2, <3>3 DEF ClusterCounters
  <2>8. AvailIsReady(t)
    BY <1>3, <2>1 DEF AvailIsReady
  <2> QED
    BY <1>4, <2>3, <2>7, <2>8 DEF Counted, ReplicaSetCounters
<1> QED
  BY <1>5

-----------------------------------------------------------------------------
(* The state of a simulation.                                              *)

\* The inductive invariant: what is queued is alive, so that a step of the
\* lifecycle always works on a pod that is still counted.
Core ==
    /\ SimTypeOK
    /\ Counted(tab)
    /\ queued \subseteq tab.live

-----------------------------------------------------------------------------
(* What the operations on pods leave alone.                                *)

\* TouchPod changes what was last said about a pod.
LEMMA TouchEffect ==
    ASSUME NEW c \in Tables, NEW p \in Pods
    PROVE  LET t == TouchPod(c, p)
           IN /\ t.live = c.live /\ t.deleted = c.deleted /\ t.state = c.state
              /\ t.said = [c.said EXCEPT ![p] = "MODIFIED"]
  BY DEF TouchPod, Tables

\* SchedulePod says nothing.
LEMMA ScheduleEffect ==
    ASSUME NEW c \in Tables, NEW p \in Pods
    PROVE  LET t == SchedulePod(c, p)
           IN /\ t.live = c.live /\ t.deleted = c.deleted /\ t.state = c.state
              /\ t.said = c.said
  BY DEF SchedulePod, Tables

\* SetPodState moves one pod.
LEMMA SetStateEffect ==
    ASSUME NEW c \in Tables, NEW p \in Pods, NEW s \in PodStates
    PROVE  LET t == SetPodState(c, p, s)
           IN /\ t.live = c.live /\ t.deleted = c.deleted /\ t.said = c.said
              /\ t.state = [c.state EXCEPT ![p] = s]
<1>1. CASE c.state[p] = s
  BY <1>1 DEF SetPodState, Tables
<1>2. CASE c.state[p] # s
  BY <1>2 DEF SetPodState, ChangeState, Tables
<1> QED
  BY <1>1, <1>2

\* MarkPodAvailable changes no state.
LEMMA AvailableEffect ==
    ASSUME NEW c \in Tables, NEW p \in Pods
    PROVE  LET t == MarkPodAvailable(c, p)
           IN /\ t.live = c.live /\ t.deleted = c.deleted /\ t.state = c.state
              /\ t.said = c.said
  BY DEF MarkPodAvailable, Tables

\* MarkPodTerminating speaks of a pod once.
LEMMA MarkEffect ==
    ASSUME NEW c \in Tables, NEW p \in Pods
    PROVE  LET t == MarkPodTerminating(c, p)
           IN /\ t.live = c.live /\ t.deleted = c.deleted \cup {p}
              /\ t.state = c.state
              /\ \A q \in Pods : t.said[q] = IF q = p /\ p \notin c.deleted
                                             THEN "MODIFIED" ELSE c.said[q]
<1>1. CASE p \in c.deleted
  BY <1>1 DEF MarkPodTerminating, Tables
<1>2. CASE p \notin c.deleted
  BY <1>2 DEF MarkPodTerminating, Tables
<1> QED
  BY <1>1, <1>2

\* scaleDown marks several pods.
LEMMA MarkAllEffect ==
    ASSUME NEW c \in Tables, NEW r \in ReplicaSets, NEW V \in SUBSET Pods
    PROVE  LET t == MarkAllTerminating(c, V, r)
           IN /\ t.live = c.live /\ t.deleted = c.deleted \cup V
              /\ t.state = c.state
              /\ \A q \in Pods : t.said[q] = IF q \in V THEN "MODIFIED" ELSE c.said[q]
  BY DEF MarkAllTerminating, Tables

\* RemovePod of a live pod.
LEMMA RemoveEffect ==
    ASSUME NEW c \in Tables, NEW p \in c.live
    PROVE  LET t == RemovePod(c, p)
           IN /\ t.live = c.live \ {p} /\ t.deleted = c.deleted
              /\ t.state = c.state
              /\ t.said = [c.said EXCEPT ![p] = "DELETED"]
  BY DEF RemovePod, Tables

\* New pods are pending, and not terminating.
LEMMA AddEffect ==
    ASSUME NEW c \in Tables, NEW N \in SUBSET Pods, NEW r \in ReplicaSets,
           NEW nd \in [N -> Nodes]
    PROVE  LET t == AddPods(c, N, r, nd)
           IN /\ t.live = c.live \cup N /\ t.deleted = c.deleted \ N
              /\ \A q \in Pods :
                    /\ t.state[q] = IF q \in N THEN "Pending" ELSE c.state[q]
                    /\ t.said[q] = IF q \in N THEN "ADDED" ELSE c.said[q]
  BY DEF AddPods, Tables

-----------------------------------------------------------------------------
(* What a step may do to the pods: one of five things.                     *)

\* States a pod waits in for its next lifecycle step.
Stepped == {"Pending", "ContainerCreating", "Running", "CrashLoopBackOff"}

\* No pod changes; the wakeups may be drained.
Still ==
    /\ tab' = tab /\ next' = next
    /\ queued' = queued \/ (queued' = queued \cup (wakePods \cap tab.live \cap next)
                            /\ phase = "idle" /\ req' = req)

\* The live pod p goes on.
Moved(p) ==
    /\ p \in tab.live /\ p \notin tab.deleted
    /\ tab'.live = tab.live /\ tab'.deleted = tab.deleted
    /\ \A q \in Pods : q # p => /\ tab'.state[q] = tab.state[q]
                                /\ tab'.said[q] = tab.said[q]
    /\ tab'.said[p] = "MODIFIED"
    /\ \/ /\ next' = next /\ queued' = queued
          /\ tab'.state[p] \in Stepped \/ tab'.state[p] = tab.state[p]
       \/ next' = next \ {p} /\ queued' = queued \ {p}
       \/ /\ next' = next \cup {p} /\ queued' = queued \cup {p}
          /\ tab'.state[p] \in Stepped

\* The live pods of V begin to terminate, and get a deadline; the one a client
\* deleted is not queued yet.
Ending(V) ==
    /\ V \subseteq tab.live /\ V \cap tab.deleted = {}
    /\ tab'.live = tab.live /\ tab'.deleted = tab.deleted \cup V
    /\ tab'.state = tab.state
    /\ \A q \in Pods : tab'.said[q] = IF q \in V THEN "MODIFIED" ELSE tab.said[q]
    /\ next' = next \cup V
    /\ \/ queued' = queued \cup V
       \/ /\ queued' = queued \ V
          /\ \A p \in V : \E a \in Requests : req'[a] = OweP(p)

\* The live pod p is removed.
Gone(p) ==
    /\ p \in tab.live /\ tab'.live = tab.live \ {p}
    /\ tab'.deleted = tab.deleted /\ tab'.state = tab.state
    /\ tab'.said = [tab.said EXCEPT ![p] = "DELETED"]
    /\ next' = next \ {p} /\ queued' = queued \ {p}

\* The pods of N are created.
Born(N) ==
    /\ N \subseteq Pods /\ N \cap tab.live = {}
    /\ tab'.live = tab.live \cup N /\ tab'.deleted = tab.deleted \ N
    /\ \A q \in Pods :
        /\ tab'.state[q] = IF q \in N THEN "Pending" ELSE tab.state[q]
        /\ tab'.said[q] = IF q \in N THEN "ADDED" ELSE tab.said[q]
    /\ \E timed \in SUBSET N : /\ next' = (next \ N) \cup timed
                               /\ queued' = queued \cup timed

PodStep ==
    \/ Still
    \/ \E p \in Pods : Moved(p) \/ Gone(p)
    \/ \E V \in SUBSET Pods : Ending(V)
    \/ \E N \in SUBSET Pods : Born(N)

\* A pod's own lifecycle step.
LEMMA LifecycleStep ==
    ASSUME Core, NEW p \in Pods, StepPod(p)
    PROVE  Counted(tab') /\ (Moved(p) \/ Gone(p))
<1>1. /\ tab \in Tables /\ Counted(tab) /\ p \in tab.live
      /\ tab.state[p] \in PodStates /\ target[p] \in PodStates
  BY DEF Core, SimTypeOK, PodTypes, StepPod, Pop, StepRemove, StepSchedule,
         StepStart, StepAvailable, StepCrashed, Tables
<1>2. CASE StepRemove(p)
  <2>1. tab' = RemovePod(tab, p)
    BY <1>2 DEF StepRemove
  <2>2. Counted(tab')
    BY <1>1, <2>1, RemoveKeeps
  <2>3. Gone(p)
    BY <1>1, <1>2, <2>1, RemoveEffect DEF StepRemove, Settle, Gone
  <2> QED
    BY <2>2, <2>3
<1>3. CASE StepSchedule(p)
  <2> DEFINE c1 == SchedulePod(tab, p)
             c2 == SetPodState(c1, p, "ContainerCreating")
  <2>1. tab' = TouchPod(c2, p) /\ "ContainerCreating" \in PodStates
    BY <1>3 DEF StepSchedule, PodStates
  <2>2. Counted(c1) /\ c1 \in Tables
    BY <1>1, ScheduleKeeps DEF Counted
  <2>3. /\ c1.live = tab.live /\ c1.deleted = tab.deleted
        /\ c1.state = tab.state /\ c1.said = tab.said
    BY <1>1, ScheduleEffect
  <2> HIDE DEF c1
  <2>4. Counted(c2) /\ c2 \in Tables
    BY <1>1, <2>1, <2>2, <2>3, SetStateKeeps DEF Counted
  <2>5. /\ c2.live = tab.live /\ c2.deleted = tab.deleted /\ c2.said = tab.said
        /\ c2.state = [tab.state EXCEPT ![p] = "ContainerCreating"]
    BY <1>1, <2>1, <2>2, <2>3, SetStateEffect
  <2> HIDE DEF c2
  <2>6. Counted(tab')
    BY <2>1, <2>4, TouchKeeps
  <2>7. /\ tab'.live = tab.live /\ tab'.deleted = tab.deleted
        /\ tab'.state = [tab.state EXCEPT ![p] = "ContainerCreating"]
        /\ tab'.said = [tab.said EXCEPT ![p] = "MODIFIED"]
    BY <2>1, <2>4, <2>5, TouchEffect
  <2>8. Moved(p)
    BY <1>1, <1>3, <2>7 DEF StepSchedule, Again, Moved, Stepped, Tables
  <2> QED
    BY <2>6, <2>8
<1>4. ASSUME NEW s \in PodStates, tab' = TouchPod(SetPodState(tab, p, s), p)
      PROVE  /\ Counted(tab') /\ tab'.live = tab.live /\ tab'.deleted = tab.deleted
             /\ tab'.state = [tab.state EXCEPT ![p] = s]
             /\ tab'.said = [tab.said EXCEPT ![p] = "MODIFIED"]
  <2> DEFINE c1 == SetPodState(tab, p, s)
  <2>1. Counted(c1) /\ c1 \in Tables
    BY <1>1, SetStateKeeps DEF Counted
  <2>2. /\ c1.live = tab.live /\ c1.deleted = tab.deleted /\ c1.said = tab.said
        /\ c1.state = [tab.state EXCEPT ![p] = s]
    BY <1>1, SetStateEffect
  <2>3. tab' = TouchPod(c1, p)
    BY <1>4
  <2> HIDE DEF c1
  <2>4. Counted(tab')
    BY <2>1, <2>3, TouchKeeps
  <2> QED
    BY <2>1, <2>2, <2>3, <2>4, TouchEffect
<1>5. CASE StepStart(p)
  <2> DEFINE to == IF target[p] \in {"Pending", "ContainerCreating"}
                   THEN "Running" ELSE target[p]
  <2>1. /\ tab' = TouchPod(SetPodState(tab, p, to), p)
        /\ IF to \in {"Running", "CrashLoopBackOff"} THEN Again(p) ELSE Settle(p)
        /\ p \notin tab.deleted
    BY <1>5 DEF StepStart
  <2>2. to \in PodStates
    BY <1>1 DEF PodStates
  <2> HIDE DEF to
  <2>3. /\ Counted(tab') /\ tab'.live = tab.live /\ tab'.deleted = tab.deleted
        /\ tab'.state = [tab.state EXCEPT ![p] = to]
        /\ tab'.said = [tab.said EXCEPT ![p] = "MODIFIED"]
    BY <1>4, <2>1, <2>2
  <2>4. CASE to \in {"Running", "CrashLoopBackOff"}
    BY <1>1, <2>1, <2>3, <2>4 DEF Moved, Again, Stepped, Tables
  <2>5. CASE to \notin {"Running", "CrashLoopBackOff"}
    BY <1>1, <2>1, <2>3, <2>5 DEF Moved, Settle, Tables
  <2> QED
    BY <2>3, <2>4, <2>5
<1>6. CASE StepAvailable(p)
  <2> DEFINE c1 == MarkPodAvailable(tab, p)
  <2>1. tab' = TouchPod(c1, p) /\ Settle(p) /\ p \notin tab.deleted
    BY <1>6 DEF StepAvailable
  <2>2. Counted(c1) /\ c1 \in Tables
    BY <1>1, AvailableKeeps DEF Counted
  <2>3. /\ c1.live = tab.live /\ c1.deleted = tab.deleted
        /\ c1.state = tab.state /\ c1.said = tab.said
    BY <1>1, AvailableEffect
  <2> HIDE DEF c1
  <2>4. Counted(tab')
    BY <2>1, <2>2, TouchKeeps
  <2>5. /\ tab'.live = tab.live /\ tab'.deleted = tab.deleted
        /\ tab'.state = tab.state
        /\ tab'.said = [tab.said EXCEPT ![p] = "MODIFIED"]
    BY <2>1, <2>2, <2>3, TouchEffect
  <2>6. Moved(p)
    BY <1>1, <2>1, <2>5 DEF Moved, Settle, Tables
  <2> QED
    BY <2>4, <2>6
<1>7. CASE StepCrashed(p)
  <2>1. PICK to \in {"CrashLoopBackOff", "Running"} :
          tab' = TouchPod(SetPodState(tab, p, to), p)
    BY <1>7 DEF StepCrashed
  <2>2. to \in PodStates /\ to \in Stepped /\ Again(p) /\ p \notin tab.deleted
    BY <1>7 DEF StepCrashed, PodStates, Stepped
  <2>3. /\ Counted(tab') /\ tab'.live = tab.live /\ tab'.deleted = tab.deleted
        /\ tab'.state = [tab.state EXCEPT ![p] = to]
        /\ tab'.said = [tab.said EXCEPT ![p] = "MODIFIED"]
    BY <1>4, <2>1, <2>2
  <2>4. Moved(p)
    BY <1>1, <2>2, <2>3 DEF Moved, Again, Tables
  <2> QED
    BY <2>3, <2>4
<1> QED
  BY <1>2, <1>3, <1>5, <1>6, <1>7 DEF StepPod

\* Churn works on a live pod that is not terminating.
LEMMA ChurnStep ==
    ASSUME Core, NEW p \in Pods, ChurnDelete(p) \/ ChurnRestart(p)
    PROVE  Counted(tab') /\ (Moved(p) \/ Ending({p}))
<1>1. /\ tab \in Tables /\ Counted(tab) /\ p \in tab.live /\ p \notin tab.deleted
  BY DEF Core, SimTypeOK, PodTypes, ChurnDelete, ChurnRestart, Churnable
<1>2. CASE ChurnDelete(p)
  <2>1. tab' = MarkPodTerminating(tab, p)
    BY <1>2 DEF ChurnDelete
  <2>2. Counted(tab')
    BY <1>1, <2>1, MarkKeeps
  <2>3. Ending({p})
    BY <1>1, <1>2, <2>1, MarkEffect DEF ChurnDelete, Ending
  <2> QED
    BY <2>2, <2>3
<1>3. CASE tab' = TouchPod(SetPodState(tab, p, "CrashLoopBackOff"), p)
           /\ next' = next \cup {p} /\ queued' = queued \cup {p}
  <2> DEFINE c1 == SetPodState(tab, p, "CrashLoopBackOff")
  <2>1. "CrashLoopBackOff" \in PodStates /\ "CrashLoopBackOff" \in Stepped
    BY DEF PodStates, Stepped
  <2>2. Counted(c1) /\ c1 \in Tables
    BY <1>1, <2>1, SetStateKeeps DEF Counted
  <2>3. /\ c1.live = tab.live /\ c1.deleted = tab.deleted /\ c1.said = tab.said
        /\ c1.state = [tab.state EXCEPT ![p] = "CrashLoopBackOff"]
    BY <1>1, <2>1, SetStateEffect
  <2>4. tab' = TouchPod(c1, p)
    BY <1>3
  <2> HIDE DEF c1
  <2>5. Counted(tab')
    BY <2>2, <2>4, TouchKeeps
  <2>6. /\ tab'.live = tab.live /\ tab'.deleted = tab.deleted
        /\ tab'.state = [tab.state EXCEPT ![p] = "CrashLoopBackOff"]
        /\ tab'.said = [tab.said EXCEPT ![p] = "MODIFIED"]
    BY <2>2, <2>3, <2>4, TouchEffect
  <2>7. Moved(p)
    BY <1>1, <1>3, <2>1, <2>6 DEF Moved, Tables
  <2> QED
    BY <2>5, <2>7
<1>4. CASE tab' = TouchPod(tab, p) /\ UNCHANGED <<next, queued>>
  <2>1. Counted(tab')
    BY <1>1, <1>4, TouchKeeps
  <2>2. /\ tab'.live = tab.live /\ tab'.deleted = tab.deleted
        /\ tab'.state = tab.state
        /\ tab'.said = [tab.said EXCEPT ![p] = "MODIFIED"]
    BY <1>1, <1>4, TouchEffect
  <2>3. Moved(p)
    BY <1>1, <1>4, <2>2 DEF Moved, Tables
  <2> QED
    BY <2>1, <2>3
<1> QED
  BY <1>2, <1>3, <1>4 DEF ChurnRestart

\* Reconciliation creates pods of identities nothing refers to, or marks pods
\* of the ReplicaSet that are not terminating yet.
LEMMA ReconcileStep ==
    ASSUME Core, NEW r \in ReplicaSets, ReconcileCreate(r) \/ ReconcileDelete(r)
    PROVE  /\ Counted(tab')
           /\ \/ \E N \in SUBSET Pods : Born(N)
              \/ \E V \in SUBSET Pods : Ending(V)
<1>1. tab \in Tables /\ Counted(tab)
  BY DEF Core, SimTypeOK, PodTypes
<1>2. CASE ReconcileCreate(r)
  <2>1. PICK N \in SUBSET Free : \E tgt \in [N -> Targets], nd \in [N -> Nodes] :
          LET timed == {p \in N : tgt[p] # "Pending"}
          IN /\ tab' = AddPods(tab, N, r, nd)
             /\ next' = (next \ N) \cup timed
             /\ queued' = queued \cup timed
    BY <1>2 DEF ReconcileCreate
  <2>2. PICK nd \in [N -> Nodes], timed \in SUBSET N :
          /\ tab' = AddPods(tab, N, r, nd)
          /\ next' = (next \ N) \cup timed
          /\ queued' = queued \cup timed
    BY <2>1
  <2>3. N \in SUBSET (Pods \ tab.live) /\ N \in SUBSET Pods
    BY DEF Free
  <2>4. Counted(tab')
    BY <1>1, <2>2, <2>3, AddKeeps
  <2>5. Born(N)
    BY <1>1, <2>2, <2>3, AddEffect DEF Born
  <2> QED
    BY <2>3, <2>4, <2>5
<1>3. CASE ReconcileDelete(r)
  <2>1. PICK V \in SUBSET (PodsOf(tab, r) \ tab.deleted) :
          /\ tab' = MarkAllTerminating(tab, V, r)
          /\ next' = next \cup V /\ queued' = queued \cup V
    BY <1>3 DEF ReconcileDelete
  <2>2. V \in SUBSET Pods /\ V \subseteq tab.live /\ V \cap tab.deleted = {}
    BY <1>1 DEF PodsOf, Tables
  <2>3. Counted(tab')
    BY <1>1, <2>1, MarkAllKeeps
  <2>4. Ending(V)
    BY <1>1, <2>1, <2>2, MarkAllEffect DEF Ending
  <2> QED
    BY <2>2, <2>3, <2>4
<1> QED
  BY <1>2, <1>3

\* A client's delete: a pod that is terminating already is left alone.
LEMMA DeletePodStep ==
    ASSUME Core, NEW a \in Requests, NEW p \in Pods, DeletePod(a, p)
    PROVE  Counted(tab') /\ (Still \/ Ending({p}))
<1>1. /\ tab \in Tables /\ Counted(tab) /\ p \in tab.live
      /\ tab' = MarkPodTerminating(tab, p)
      /\ req' = [req EXCEPT ![a] = OweP(p)] /\ a \in DOMAIN req
  BY DEF Core, SimTypeOK, PodTypes, EngineTypes, DeletePod, Write
<1>2. Counted(tab')
  BY <1>1, MarkKeeps
<1>3. CASE p \in tab.deleted
  BY <1>1, <1>2, <1>3 DEF DeletePod, MarkPodTerminating, Still
<1>4. CASE p \notin tab.deleted
  <2>1. req'[a] = OweP(p)
    BY <1>1
  <2>2. Ending({p})
    BY <1>1, <1>4, <2>1, MarkEffect DEF DeletePod, Ending
  <2> QED
    BY <1>2, <2>2
<1> QED
  BY <1>3, <1>4

\* Every step keeps every counter right, and is one of the five.
LEMMA EveryPodStep ==
    ASSUME Core, [SimNext]_simVars
    PROVE  Counted(tab') /\ PodStep
<1>1. Counted(tab)
  BY DEF Core
<1>2. CASE UNCHANGED podVars
  BY <1>1, <1>2 DEF PodStep, Still, podVars
<1>3. CASE DrainWakeups
  BY <1>1, <1>3 DEF DrainWakeups, PodStep, Still
<1>4. CASE \E p \in Pods : StepPod(p)
  BY <1>4, LifecycleStep DEF PodStep
<1>5. CASE \E p \in Pods : ChurnDelete(p) \/ ChurnRestart(p)
  <2>1. PICK p \in Pods : ChurnDelete(p) \/ ChurnRestart(p)
    BY <1>5
  <2>2. Counted(tab') /\ (Moved(p) \/ Ending({p})) /\ {p} \in SUBSET Pods
    BY <2>1, ChurnStep
  <2> QED
    BY <2>2 DEF PodStep
<1>6. CASE \E r \in ReplicaSets : ReconcileCreate(r) \/ ReconcileDelete(r)
  BY <1>6, ReconcileStep DEF PodStep
<1>7. CASE \E a \in Requests, p \in Pods : DeletePod(a, p)
  <2>1. PICK a \in Requests, p \in Pods : DeletePod(a, p)
    BY <1>7
  <2>2. Counted(tab') /\ (Still \/ Ending({p})) /\ {p} \in SUBSET Pods
    BY <2>1, DeletePodStep
  <2> QED
    BY <2>2 DEF PodStep
<1>8. CASE \/ EndSteps \/ EndChurn \/ FlushStatus
           \/ \E d \in Deployments, n \in 0 .. MaxReplicas : ChurnScale(d, n)
           \/ \E r \in ReplicaSets : \/ ReconcileRemove(r) \/ ReconcileKeep(r)
                                     \/ DeleteReplicaSet(r)
           \/ \E a \in Requests : Wake(a)
           \/ \E a \in Requests, d \in Deployments :
                \/ \E n \in 0 .. MaxReplicas : Scale(a, d, n)
                \/ Restart(a, d) \/ DeleteDeployment(a, d)
           \/ UNCHANGED simVars
  BY <1>2, <1>8 DEF EndSteps, EndChurn, FlushStatus, ChurnScale, ReconcileRemove,
     ReconcileKeep, DeleteReplicaSet, Wake, Scale, Restart, DeleteDeployment,
     simVars
<1> QED
  BY <1>3, <1>4, <1>5, <1>6, <1>7, <1>8 DEF SimNext, StepPod

-----------------------------------------------------------------------------
(* Types and counters.                                                     *)

\* What any of the five does to the work queue.
LEMMA QueueStep ==
    ASSUME Core, PodStep, tab' \in Tables
    PROVE  queued' \subseteq next' /\ next' \subseteq Pods /\ queued' \subseteq tab'.live
<1>1. /\ queued \subseteq next /\ next \subseteq Pods /\ queued \subseteq tab.live
      /\ tab.live \subseteq Pods
  BY DEF Core, SimTypeOK, PodTypes, Tables
<1>2. CASE Still
  BY <1>1, <1>2 DEF Still
<1>3. ASSUME NEW p \in Pods, Moved(p)
      PROVE  queued' \subseteq next' /\ next' \subseteq Pods /\ queued' \subseteq tab'.live
  BY <1>1, <1>3 DEF Moved
<1>4. ASSUME NEW p \in Pods, Gone(p)
      PROVE  queued' \subseteq next' /\ next' \subseteq Pods /\ queued' \subseteq tab'.live
  BY <1>1, <1>4 DEF Gone
<1>5. ASSUME NEW V \in SUBSET Pods, Ending(V)
      PROVE  queued' \subseteq next' /\ next' \subseteq Pods /\ queued' \subseteq tab'.live
  BY <1>1, <1>5 DEF Ending
<1>6. ASSUME NEW N \in SUBSET Pods, Born(N)
      PROVE  queued' \subseteq next' /\ next' \subseteq Pods /\ queued' \subseteq tab'.live
  BY <1>1, <1>6 DEF Born
<1> QED
  BY <1>2, <1>3, <1>4, <1>5, <1>6 DEF PodStep

\* Only reconciliation gives targets, from Targets.
LEMMA TargetStep ==
    ASSUME Core, [SimNext]_simVars
    PROVE  target' \in [Pods -> PodStates]
<1>1. target \in [Pods -> PodStates] /\ Targets \subseteq PodStates
  BY SimulationAssumption DEF Core, SimTypeOK, PodTypes
<1>2. CASE UNCHANGED target
  BY <1>1, <1>2
<1>3. CASE \E r \in ReplicaSets : ReconcileCreate(r)
  BY <1>1, <1>3 DEF ReconcileCreate
<1>4. CASE ~(\E r \in ReplicaSets : ReconcileCreate(r))
  BY <1>2, <1>4 DEF SimNext, simVars, podVars, DrainWakeups, Pop, StepRemove,
     StepSchedule, StepStart, StepAvailable, StepCrashed, EndSteps, Churnable,
     ChurnDelete, ChurnRestart, ChurnScale, EndChurn, ReconcileRemove,
     ReconcileDelete, ReconcileKeep, FlushStatus, Scale, Restart,
     DeleteDeployment, DeletePod, DeleteReplicaSet, Wake
<1> QED
  BY <1>3, <1>4

\* Workloads keep their types.
LEMMA WorkStep ==
    ASSUME Core, [SimNext]_simVars
    PROVE  WorkTypes'
<1>1. WorkTypes /\ MaxReplicas \in Nat
  BY SimulationAssumption DEF Core, SimTypeOK
<1>2. CASE UNCHANGED workVars
  BY <1>1, <1>2 DEF WorkTypes, workVars
<1>3. CASE DrainWakeups
  BY <1>1, <1>3 DEF DrainWakeups, WorkTypes
<1>4. ASSUME NEW d \in Deployments, NEW n \in 0 .. MaxReplicas, ChurnScale(d, n)
      PROVE  WorkTypes'
  BY <1>1, <1>4 DEF ChurnScale, WorkTypes
<1>5. ASSUME NEW r \in ReplicaSets, ReconcileRemove(r)
      PROVE  WorkTypes'
  <2>1. said' \in [ReplicaSets \cup Deployments -> Notices]
    BY <1>1, <1>5 DEF ReconcileRemove, WorkTypes, Notices
  <2> QED
    BY <1>1, <1>5, <2>1 DEF ReconcileRemove, Visit, WorkTypes
<1>6. ASSUME NEW r \in ReplicaSets, Keep(r)
      PROVE  WorkTypes'
  BY <1>1, <1>6 DEF Keep, Visit, Wanted, WorkTypes
<1>7. CASE FlushStatus
  <2>1. said' \in [ReplicaSets \cup Deployments -> Notices]
    BY <1>1, <1>7 DEF FlushStatus, WorkTypes, Notices
  <2>2. dirtyD \subseteq Deployments
    BY DEF Core, SimTypeOK, EngineTypes
  <2> QED
    BY <1>1, <1>7, <2>1, <2>2 DEF FlushStatus, WorkTypes
<1>8. ASSUME NEW a \in Requests, NEW d \in Deployments,
             NEW n \in 0 .. MaxReplicas, Scale(a, d, n)
      PROVE  WorkTypes'
  BY <1>1, <1>8 DEF Scale, WorkTypes, Notices
<1>9. ASSUME NEW a \in Requests, NEW d \in Deployments, Restart(a, d)
      PROVE  WorkTypes'
  <2>1. PICK r \in Unused :
          /\ NewRevision(d, r)
          /\ said' = [said EXCEPT ![d] = "MODIFIED", ![r] = "ADDED"]
    BY <1>9 DEF Restart
  <2>2. r \in ReplicaSets
    BY DEF Unused
  <2>3. said' \in [ReplicaSets \cup Deployments -> Notices]
    BY <1>1, <2>1 DEF WorkTypes, Notices
  <2>4. spec' \in [ReplicaSets -> Int] /\ old' \in [Deployments -> SUBSET ReplicaSets]
    BY <1>1, <2>1, <2>2 DEF NewRevision, WorkTypes
  <2> QED
    BY <1>1, <1>9, <2>1, <2>2, <2>3, <2>4 DEF Restart, NewRevision, WorkTypes
<1>10. ASSUME NEW a \in Requests, NEW d \in Deployments, DeleteDeployment(a, d)
       PROVE  WorkTypes'
  BY <1>1, <1>10 DEF DeleteDeployment, WorkTypes, Notices
<1>11. ASSUME NEW r \in ReplicaSets, DeleteReplicaSet(r)
       PROVE  WorkTypes'
  BY <1>1, <1>11 DEF DeleteReplicaSet, WorkTypes, Notices
<1>12. CASE \/ \E p \in Pods : StepPod(p) \/ ChurnDelete(p) \/ ChurnRestart(p)
            \/ EndSteps \/ EndChurn \/ \E a \in Requests : Wake(a)
            \/ \E a \in Requests, p \in Pods : DeletePod(a, p)
            \/ UNCHANGED simVars
  BY <1>2, <1>12 DEF StepPod, Pop, StepRemove, StepSchedule, StepStart,
     StepAvailable, StepCrashed, Churnable, ChurnDelete, ChurnRestart, EndSteps,
     EndChurn, Wake, DeletePod, simVars
<1> QED
  BY <1>3, <1>4, <1>5, <1>6, <1>7, <1>8, <1>9, <1>10, <1>11, <1>12
  DEF SimNext, StepPod, ReconcileCreate, ReconcileDelete, ReconcileKeep

\* The engine's variables keep their types: no budget goes below zero.
LEMMA EngineStep ==
    ASSUME Core, [SimNext]_simVars
    PROVE  EngineTypes'
<1>1. /\ EngineTypes /\ WorkTypes /\ tab \in Tables
      /\ StepBudget \in Nat /\ CreateBudget \in Nat
  BY SimulationAssumption DEF Core, SimTypeOK, PodTypes
<1>2. CASE UNCHANGED <<dirtyVars, wakeVars, tickVars, ops>>
  BY <1>1, <1>2 DEF EngineTypes, dirtyVars, wakeVars, tickVars
<1>3. CASE DrainWakeups
  <2>1. UNION {AllReplicaSets(d) : d \in wakeD} \subseteq ReplicaSets
    BY <1>1 DEF AllReplicaSets, EngineTypes, WorkTypes
  <2> QED
    BY <1>1, <1>3, <2>1 DEF DrainWakeups, EngineTypes
<1>4. ASSUME NEW p \in Pods, Pop(p)
      PROVE  EngineTypes'
  <2>1. tab.rs[p] \in ReplicaSets
    BY <1>1 DEF Tables
  <2> QED
    BY <1>1, <1>4, <2>1 DEF Pop, EngineTypes, wakeVars
<1>5. ASSUME NEW p \in Pods, Churnable(p)
      PROVE  EngineTypes'
  <2>1. tab.rs[p] \in ReplicaSets
    BY <1>1 DEF Tables
  <2> QED
    BY <1>1, <1>5, <2>1 DEF Churnable, EngineTypes, wakeVars, tickVars
<1>6. ASSUME NEW d \in Deployments, NEW n \in 0 .. MaxReplicas, ChurnScale(d, n)
      PROVE  EngineTypes'
  BY <1>1, <1>6 DEF ChurnScale, EngineTypes, WorkTypes, wakeVars, tickVars
<1>7. CASE EndSteps \/ EndChurn \/ FlushStatus
  BY <1>1, <1>7 DEF EndSteps, EndChurn, FlushStatus, EngineTypes, dirtyVars, wakeVars
<1>8. ASSUME NEW r \in ReplicaSets, ReconcileRemove(r)
      PROVE  EngineTypes'
  BY <1>1, <1>8 DEF ReconcileRemove, Visit, EngineTypes, wakeVars
<1>9. ASSUME NEW r \in ReplicaSets, Keep(r), creates' \in Nat
      PROVE  EngineTypes'
  BY <1>1, <1>9 DEF Keep, Visit, EngineTypes, WorkTypes, wakeVars
<1>10. ASSUME NEW r \in ReplicaSets, ReconcileCreate(r)
       PROVE  EngineTypes'
  <2>1. Wanted(r) - Active(tab, r) \in Int /\ Wanted(r) - Active(tab, r) > 0
    BY <1>1, <1>10 DEF ReconcileCreate, Wanted, Active, WorkTypes, Tables
  <2>2. creates' = creates - Lesser(Wanted(r) - Active(tab, r), creates)
    BY <1>10 DEF ReconcileCreate
  <2>3. creates' \in Nat
    BY <1>1, <2>1, <2>2 DEF EngineTypes, Lesser
  <2> QED
    BY <1>9, <1>10, <2>3 DEF ReconcileCreate
<1>11. ASSUME NEW r \in ReplicaSets, ReconcileDelete(r) \/ ReconcileKeep(r)
       PROVE  EngineTypes'
  <2>1. Keep(r) /\ creates' \in Nat
    BY <1>1, <1>11 DEF ReconcileDelete, ReconcileKeep, EngineTypes
  <2> QED
    BY <1>9, <2>1
<1>12. ASSUME NEW a \in Requests, NEW d \in Deployments, Write(a, OweD(d))
       PROVE  EngineTypes'
  BY <1>1, <1>12 DEF Write, EngineTypes, dirtyVars, tickVars
<1>13. ASSUME NEW a \in Requests, NEW p \in Pods, Write(a, OweP(p))
       PROVE  EngineTypes'
  BY <1>1, <1>13 DEF Write, EngineTypes, dirtyVars, tickVars
<1>14. ASSUME NEW r \in ReplicaSets, DeleteReplicaSet(r)
       PROVE  EngineTypes'
  BY <1>1, <1>14 DEF DeleteReplicaSet, EngineTypes, dirtyVars, wakeVars, tickVars
<1>15. ASSUME NEW a \in Requests, Wake(a)
       PROVE  EngineTypes'
  BY <1>1, <1>15 DEF Wake, EngineTypes, dirtyVars, tickVars
<1>16. CASE UNCHANGED simVars
  BY <1>2, <1>16 DEF simVars
<1>17. CASE \E p \in Pods : StepPod(p) \/ ChurnDelete(p) \/ ChurnRestart(p)
  BY <1>4, <1>5, <1>17 DEF StepPod, StepRemove, StepSchedule, StepStart,
     StepAvailable, StepCrashed, ChurnDelete, ChurnRestart
<1>18. CASE \E a \in Requests, d \in Deployments :
              \/ \E n \in 0 .. MaxReplicas : Scale(a, d, n)
              \/ Restart(a, d) \/ DeleteDeployment(a, d)
  BY <1>12, <1>18 DEF Scale, Restart, DeleteDeployment
<1>19. CASE \E a \in Requests, p \in Pods : DeletePod(a, p)
  BY <1>13, <1>19 DEF DeletePod
<1> QED
  BY <1>3, <1>6, <1>7, <1>8, <1>10, <1>11, <1>14, <1>15, <1>16, <1>17, <1>18,
     <1>19
  DEF SimNext, StepPod

\* The built cluster: its pods are counted, and its timers are queued.
LEMMA BuiltCore == SimInit => Core
<1> SUFFICES ASSUME SimInit PROVE Core
  OBVIOUS
<1> DEFINE owner == [p \in Built |-> CHOOSE d \in Deployments : p \in InitPods[d]]
           rs == [p \in Built |-> InitRS[owner[p]]]
<1>1. /\ Deployments # {} /\ InitRS \in [Deployments -> ReplicaSets]
      /\ InitPods \in [Deployments -> SUBSET Pods] /\ InitStates \subseteq PodStates
  BY SimulationAssumption
<1>2. Built \in SUBSET Pods
  BY <1>1 DEF Built
<1>3. rs \in [Built -> ReplicaSets]
  <2>1. \A p \in Built : owner[p] \in Deployments
    BY DEF Built
  <2> QED
    BY <1>1, <2>1
<1>4. PICK st \in [Built -> InitStates], av \in [Built -> InitAvail],
           nd \in [Built -> Nodes] :
        /\ tab = BuildPods(rs, st, nd, {p \in Built : Ready(st[p]) /\ av[p]})
        /\ next = {p \in Built : HasTimer(st[p])}
  BY DEF SimInit
<1>5. st \in [Built -> PodStates]
  BY <1>1, <1>4
<1>6. Counted(tab)
  <2> DEFINE avail == {p \in Built : Ready(st[p]) /\ av[p]}
  <2>1. avail \in SUBSET Built /\ \A p \in avail : Ready(st[p])
    OBVIOUS
  <2>2. tab = BuildPods(rs, st, nd, avail)
    BY <1>4
  <2> HIDE DEF avail, rs
  <2> QED
    BY <1>2, <1>3, <1>5, <2>1, <2>2, BuildCounts
<1>7. tab.live = Built
  BY <1>4 DEF BuildPods
<1>8. tab \in Tables
  BY <1>6 DEF Counted
<1>9. PodTypes
  <2>1. target \in [Pods -> PodStates]
    <3>1. tab.state \in [Pods -> PodStates] /\ "Running" \in PodStates
      BY <1>8 DEF PodStates, Tables
    <3>2. target = [p \in Pods |->
                     IF p \in Built /\ tab.state[p] # "ContainerCreating"
                     THEN tab.state[p] ELSE "Running"]
      BY DEF SimInit
    <3> QED
      BY <3>1, <3>2
  <2> QED
    BY <1>2, <1>4, <1>8, <2>1 DEF PodTypes, SimInit
<1>10. WorkTypes
  <2>1. dspec \in [Deployments -> Int]
    BY <1>1, PodSets DEF SimInit
  <2>2. rsOf \in [ReplicaSets -> Deployments]
    <3>1. (CHOOSE d \in Deployments : TRUE) \in Deployments
      BY <1>1
    <3>2. ASSUME NEW r \in InitSets
          PROVE  (CHOOSE d \in Deployments : InitRS[d] = r) \in Deployments
      BY DEF InitSets
    <3>3. rsOf = [r \in ReplicaSets |->
                   IF r \in InitSets THEN CHOOSE d \in Deployments : InitRS[d] = r
                   ELSE CHOOSE d \in Deployments : TRUE]
      BY DEF SimInit
    <3> QED
      BY <3>1, <3>2, <3>3
  <2>3. spec \in [ReplicaSets -> Int]
    <3>1. spec = [r \in ReplicaSets |->
                   IF r \in InitSets THEN dspec[rsOf[r]] ELSE 0]
      BY DEF SimInit
    <3> QED
      BY <2>1, <2>2, <3>1
  <2>4. inStore \subseteq ReplicaSets
    BY <1>1 DEF SimInit, InitSets
  <2> QED
    BY <1>1, <2>1, <2>2, <2>3, <2>4 DEF WorkTypes, SimInit, Notices
<1>11. EngineTypes
  BY DEF EngineTypes, SimInit
<1> QED
  BY <1>4, <1>6, <1>7, <1>9, <1>10, <1>11 DEF Core, SimTypeOK, SimInit

\* No step breaks the inductive invariant.
LEMMA CoreStep == Core /\ [SimNext]_simVars => Core'
<1> SUFFICES ASSUME Core, [SimNext]_simVars PROVE Core'
  OBVIOUS
<1>1. Counted(tab') /\ PodStep
  BY EveryPodStep
<1>2. tab' \in Tables
  BY <1>1 DEF Counted
<1>3. queued' \subseteq next' /\ next' \subseteq Pods /\ queued' \subseteq tab'.live
  BY <1>1, <1>2, QueueStep
<1> QED
  BY <1>1, <1>2, <1>3, TargetStep, WorkStep, EngineStep
  DEF Core, SimTypeOK, PodTypes

\* The inductive invariant holds in every state.
LEMMA CoreAlways == SimSpec => []Core
  BY BuiltCore, CoreStep, PTL DEF SimSpec

\* Every variable keeps its type; no counter of the tick's budgets is negative.
THEOREM SimTypesCorrect == SimSpec => []SimTypeOK
<1>1. Core => SimTypeOK
  BY DEF Core
<1> QED
  BY <1>1, CoreAlways, PTL

\* A ReplicaSet's counters always equal a scan of its pods, whatever lifecycle
\* steps, churn, rollouts and API deletes came before.
THEOREM StatusAlwaysCounted == SimSpec => []StatusIsCounted
<1>1. Core => StatusIsCounted
  BY DEF Core, Counted, StatusIsCounted
<1> QED
  BY <1>1, CoreAlways, PTL

\* So do the counts per pod state and per node, and of terminating pods.
THEOREM ClusterAlwaysCounted == SimSpec => []ClusterIsCounted
<1>1. Core => ClusterIsCounted
  BY DEF Core, Counted, ClusterIsCounted
<1> QED
  BY <1>1, CoreAlways, PTL

-----------------------------------------------------------------------------
(* Timers and notices of pods.                                             *)

\* The engine has been told of p, or will be.
Owed(p) == p \in wakePods \/ WakeComing(OweP(p))

\* A timer is queued or owed; one that runs belongs to a state with a step, or
\* to a terminating pod; a live pod has not been announced as deleted.
TimerInv ==
    \A p \in tab.live :
        /\ p \in tab.deleted => p \in next
        /\ p \in next => p \in queued \/ Owed(p)
        /\ p \in next => p \in tab.deleted \/ tab.state[p] \in Stepped
        /\ tab.said[p] # "DELETED"

\* A pod that is owed a wakeup gets it from the next drain, and from nothing
\* else: no request overwrites the wakeup of another.
LEMMA OwedStep ==
    ASSUME Core, [SimNext]_simVars
    PROVE  DrainWakeups \/ \A p \in Pods : Owed(p) => Owed(p)'
<1>1. /\ req \in [Requests -> {Idle} \cup {OweD(d) : d \in Deployments}
                                     \cup {OweP(p) : p \in Pods}]
      /\ wakePods \subseteq Pods
  BY DEF Core, SimTypeOK, EngineTypes
<1>2. \A p : OweP(p) # Idle
  BY DEF OweP, Idle
<1>3. CASE UNCHANGED wakeVars
  BY <1>3 DEF Owed, WakeComing, wakeVars
<1>4. ASSUME NEW a \in Requests, NEW owed, Write(a, owed), NEW p \in Pods, Owed(p)
      PROVE  Owed(p)'
  <2>1. CASE p \in wakePods
    BY <1>4, <2>1 DEF Owed, Write
  <2>2. CASE WakeComing(OweP(p))
    <3>1. PICK b \in Requests : req[b] = OweP(p)
      BY <2>2 DEF WakeComing
    <3>2. b # a /\ req' = [req EXCEPT ![a] = owed]
      BY <1>2, <1>4, <3>1 DEF Write
    <3>3. req'[b] = OweP(p)
      BY <1>1, <3>1, <3>2
    <3> QED
      BY <3>3 DEF Owed, WakeComing
  <2> QED
    BY <1>4, <2>1, <2>2 DEF Owed
<1>5. ASSUME NEW a \in Requests, Wake(a), NEW p \in Pods, Owed(p)
      PROVE  Owed(p)'
  <2>1. CASE p \in wakePods
    BY <1>5, <2>1 DEF Owed, Wake
  <2>2. CASE WakeComing(OweP(p))
    <3>1. PICK b \in Requests : req[b] = OweP(p)
      BY <2>2 DEF WakeComing
    <3>2. CASE b = a
      BY <1>5, <3>1, <3>2 DEF Owed, Wake
    <3>3. CASE b # a
      <4>1. req'[b] = OweP(p)
        BY <1>1, <1>5, <3>1, <3>3 DEF Wake
      <4> QED
        BY <4>1 DEF Owed, WakeComing
    <3> QED
      BY <3>2, <3>3
  <2> QED
    BY <1>5, <2>1, <2>2 DEF Owed
<1>6. CASE \E a \in Requests : \/ \E p \in Pods : DeletePod(a, p)
                               \/ \E d \in Deployments, n \in 0 .. MaxReplicas : Scale(a, d, n)
                               \/ \E d \in Deployments : Restart(a, d) \/ DeleteDeployment(a, d)
  BY <1>4, <1>6 DEF DeletePod, Scale, Restart, DeleteDeployment
<1>7. CASE \/ \E p \in Pods : StepPod(p) \/ ChurnDelete(p) \/ ChurnRestart(p)
           \/ EndSteps \/ EndChurn \/ FlushStatus
           \/ \E d \in Deployments, n \in 0 .. MaxReplicas : ChurnScale(d, n)
           \/ \E r \in ReplicaSets : \/ ReconcileRemove(r) \/ ReconcileCreate(r)
                                     \/ ReconcileDelete(r) \/ ReconcileKeep(r)
                                     \/ DeleteReplicaSet(r)
           \/ UNCHANGED simVars
  BY <1>3, <1>7 DEF StepPod, Pop, StepRemove, StepSchedule, StepStart,
     StepAvailable, StepCrashed, Churnable, ChurnDelete, ChurnRestart, EndSteps,
     EndChurn, FlushStatus, ChurnScale, Visit, Keep, ReconcileRemove,
     ReconcileCreate, ReconcileDelete, ReconcileKeep, DeleteReplicaSet, simVars
<1> QED
  BY <1>5, <1>6, <1>7 DEF SimNext, StepPod

\* The built pods have their timers.
LEMMA BuiltTimers == SimInit => TimerInv
<1> SUFFICES ASSUME SimInit, NEW p \in tab.live
             PROVE  /\ p \in tab.deleted => p \in next
                    /\ p \in next => p \in queued \/ Owed(p)
                    /\ p \in next => p \in tab.deleted \/ tab.state[p] \in Stepped
                    /\ tab.said[p] # "DELETED"
  BY DEF TimerInv
<1> DEFINE owner == [q \in Built |-> CHOOSE d \in Deployments : q \in InitPods[d]]
           rs == [q \in Built |-> InitRS[owner[q]]]
<1>1. PICK st \in [Built -> InitStates], av \in [Built -> InitAvail],
           nd \in [Built -> Nodes] :
        /\ tab = BuildPods(rs, st, nd, {q \in Built : Ready(st[q]) /\ av[q]})
        /\ next = {q \in Built : HasTimer(st[q])}
  BY DEF SimInit
<1>2. Core
  BY BuiltCore
<1>3. p \in Pods
  BY <1>2 DEF Core, SimTypeOK, PodTypes, Tables
<1>4. /\ tab.live = Built /\ tab.deleted = {} /\ tab.said[p] = "none"
      /\ tab.state = [q \in Pods |-> IF q \in Built THEN st[q] ELSE "Error"]
  BY <1>1, <1>3 DEF BuildPods
<1>5. p \in next => tab.state[p] \in Stepped
  BY <1>1, <1>3, <1>4 DEF HasTimer, Stepped
<1> QED
  BY <1>4, <1>5 DEF SimInit

\* No step loses a timer.
LEMMA TimerStep ==
    ASSUME Core, TimerInv, [SimNext]_simVars
    PROVE  TimerInv'
<1>1. PodStep /\ tab' \in Tables /\ tab \in Tables
  BY EveryPodStep DEF Counted, Core
<1>2. tab.live \subseteq Pods /\ tab'.live \subseteq Pods
  BY <1>1 DEF Tables
<1> SUFFICES ASSUME NEW p \in Pods, p \in tab'.live
             PROVE  /\ p \in tab'.deleted => p \in next'
                    /\ p \in next' => p \in queued' \/ Owed(p)'
                    /\ p \in next' => p \in tab'.deleted \/ tab'.state[p] \in Stepped
                    /\ tab'.said[p] # "DELETED"
  BY <1>2 DEF TimerInv
<1>3. CASE DrainWakeups
  <2>1. tab' = tab /\ next' = next /\ queued' = queued \cup (wakePods \cap tab.live \cap next)
        /\ req' = req
    BY <1>3 DEF DrainWakeups
  <2>2. WakeComing(OweP(p)) => Owed(p)'
    BY <2>1 DEF Owed, WakeComing
  <2> QED
    BY <2>1, <2>2 DEF TimerInv, Owed
<1>4. CASE ~DrainWakeups
  <2>1. Owed(p) => Owed(p)'
    BY <1>4, OwedStep
  <2>2. p \in tab.live =>
          /\ p \in tab.deleted => p \in next
          /\ p \in next => p \in queued \/ Owed(p)
          /\ p \in next => p \in tab.deleted \/ tab.state[p] \in Stepped
          /\ tab.said[p] # "DELETED"
    BY DEF TimerInv
  <2>3. CASE Still
    BY <2>1, <2>2, <2>3 DEF Still
  <2>4. ASSUME NEW q \in Pods, Moved(q)
        PROVE  /\ p \in tab'.deleted => p \in next'
               /\ p \in next' => p \in queued' \/ Owed(p)'
               /\ p \in next' => p \in tab'.deleted \/ tab'.state[p] \in Stepped
               /\ tab'.said[p] # "DELETED"
    BY <2>1, <2>2, <2>4 DEF Moved
  <2>5. ASSUME NEW q \in Pods, Gone(q)
        PROVE  /\ p \in tab'.deleted => p \in next'
               /\ p \in next' => p \in queued' \/ Owed(p)'
               /\ p \in next' => p \in tab'.deleted \/ tab'.state[p] \in Stepped
               /\ tab'.said[p] # "DELETED"
    BY <1>1, <2>1, <2>2, <2>5 DEF Gone, Tables
  <2>6. ASSUME NEW V \in SUBSET Pods, Ending(V)
        PROVE  /\ p \in tab'.deleted => p \in next'
               /\ p \in next' => p \in queued' \/ Owed(p)'
               /\ p \in next' => p \in tab'.deleted \/ tab'.state[p] \in Stepped
               /\ tab'.said[p] # "DELETED"
    <3>1. p \in V => p \in queued' \/ Owed(p)'
      BY <2>6 DEF Ending, Owed, WakeComing
    <3> QED
      BY <2>1, <2>2, <2>6, <3>1 DEF Ending
  <2>7. ASSUME NEW N \in SUBSET Pods, Born(N)
        PROVE  /\ p \in tab'.deleted => p \in next'
               /\ p \in next' => p \in queued' \/ Owed(p)'
               /\ p \in next' => p \in tab'.deleted \/ tab'.state[p] \in Stepped
               /\ tab'.said[p] # "DELETED"
    BY <2>1, <2>2, <2>7 DEF Born, Stepped
  <2> QED
    BY <1>1, <2>3, <2>4, <2>5, <2>6, <2>7 DEF PodStep
<1> QED
  BY <1>3, <1>4

\* The timers hold in every state.
LEMMA TimersAlways == SimSpec => [](Core /\ TimerInv)
<1>1. Core /\ TimerInv /\ [SimNext]_simVars => (Core /\ TimerInv)'
  BY CoreStep, TimerStep
<1> QED
  BY <1>1, BuiltCore, BuiltTimers, PTL DEF SimSpec

\* No timer is lost between a client, a wakeup, a tick and the work queue.
THEOREM TimersAreNotLost == SimSpec => []NoLostTimer
<1>1. TimerInv => NoLostTimer
  BY DEF TimerInv, NoLostTimer, Owed
<1> QED
  BY <1>1, TimersAlways, PTL

\* What the work queue holds, the lifecycle has a step for.
THEOREM QueueHasSteps == SimSpec => []QueuedHasStep
<1>1. Core /\ TimerInv => QueuedHasStep
  BY DEF Core, SimTypeOK, PodTypes, TimerInv, QueuedHasStep, Stepped
<1> QED
  BY <1>1, TimersAlways, PTL

\* A pod announced as deleted is not heard of again, except as a new pod.
THEOREM DeletedPodsStaySilent == SimSpec => DeletedPodIsSilent
<1> DEFINE Silent == \A p \in Pods : tab.said[p] = "DELETED" =>
                        tab'.said[p] \in {"DELETED", "ADDED"}
<1>1. ASSUME Core, TimerInv, [SimNext]_simVars
      PROVE  Silent
  <2>1. PodStep /\ tab \in Tables
    BY <1>1, EveryPodStep DEF Core, Counted
  <2> SUFFICES ASSUME NEW p \in Pods, tab.said[p] = "DELETED"
               PROVE  tab'.said[p] \in {"DELETED", "ADDED"}
    OBVIOUS
  <2>2. p \notin tab.live
    BY <1>1 DEF TimerInv
  <2>3. CASE Still
    BY <2>3 DEF Still
  <2>4. ASSUME NEW q \in Pods, Moved(q)
        PROVE  tab'.said[p] \in {"DELETED", "ADDED"}
    BY <2>2, <2>4 DEF Moved
  <2>5. ASSUME NEW q \in Pods, Gone(q)
        PROVE  tab'.said[p] \in {"DELETED", "ADDED"}
    BY <2>1, <2>2, <2>5 DEF Gone, Tables
  <2>6. ASSUME NEW V \in SUBSET Pods, Ending(V)
        PROVE  tab'.said[p] \in {"DELETED", "ADDED"}
    BY <2>2, <2>6 DEF Ending
  <2>7. ASSUME NEW N \in SUBSET Pods, Born(N)
        PROVE  tab'.said[p] \in {"DELETED", "ADDED"}
    BY <2>7 DEF Born
  <2> QED
    BY <2>1, <2>3, <2>4, <2>5, <2>6, <2>7 DEF PodStep
<1>2. Core /\ TimerInv /\ [SimNext]_simVars => [Silent]_simVars
  BY <1>1
<1> QED
  BY <1>2, TimersAlways, PTL DEF DeletedPodIsSilent, SimSpec

-----------------------------------------------------------------------------
(* Pods without a timer.                                                   *)

\* What the operations on pods do to the set of available ones.
LEMMA AvailAfter ==
    ASSUME NEW c \in Tables, NEW p \in Pods
    PROVE  /\ TouchPod(c, p).avail = c.avail
           /\ SchedulePod(c, p).avail = c.avail
           /\ MarkPodTerminating(c, p).avail = c.avail
           /\ RemovePod(c, p).avail = c.avail
           /\ c.avail \subseteq MarkPodAvailable(c, p).avail
           /\ Ready(c.state[p]) => p \in MarkPodAvailable(c, p).avail
           /\ \A s \in PodStates : c.avail \ {p} \subseteq SetPodState(c, p, s).avail
<1>1. TouchPod(c, p).avail = c.avail
  BY DEF TouchPod, Tables
<1>2. SchedulePod(c, p).avail = c.avail
  BY DEF SchedulePod, Tables
<1>3. MarkPodTerminating(c, p).avail = c.avail
  BY DEF MarkPodTerminating, Tables
<1>4. RemovePod(c, p).avail = c.avail
  BY DEF RemovePod, Tables
<1>5. /\ c.avail \subseteq MarkPodAvailable(c, p).avail
      /\ Ready(c.state[p]) => p \in MarkPodAvailable(c, p).avail
  BY DEF MarkPodAvailable, Tables
<1>6. ASSUME NEW s \in PodStates
      PROVE  c.avail \ {p} \subseteq SetPodState(c, p, s).avail
  <2>1. CASE c.state[p] = s
    BY <2>1 DEF SetPodState
  <2>2. CASE c.state[p] # s
    BY <2>2 DEF SetPodState, ChangeState, Tables
  <2> QED
    BY <2>1, <2>2
<1> QED
  BY <1>1, <1>2, <1>3, <1>4, <1>5, <1>6

\* New pods are not available.
LEMMA AvailAfterAdding ==
    ASSUME NEW c \in Tables, NEW r \in ReplicaSets, NEW V \in SUBSET Pods,
           NEW nd \in [V -> Nodes]
    PROVE  AddPods(c, V, r, nd).avail = c.avail \ V
  BY DEF AddPods, Tables

\* A step that moves p alone, keeps every other pod available, and leaves p with a
\* timer, available or not ready, strands nobody.
LEMMA MoveStrandsNobody ==
    ASSUME tab \in Tables, NEW p \in tab.live,
           tab'.live = tab.live, tab'.deleted = tab.deleted,
           \A q \in Pods : q # p => tab'.state[q] = tab.state[q],
           tab.avail \ {p} \subseteq tab'.avail,
           next \ {p} \subseteq next',
           p \in next' \/ p \in tab'.avail \/ ~Ready(tab'.state[p])
    PROVE  Stranded' \subseteq Stranded
<1> SUFFICES ASSUME NEW q \in Stranded' PROVE q \in Stranded
  OBVIOUS
<1>1. q \in Pods /\ q # p
  BY DEF Stranded, Tables
<1> QED
  BY <1>1 DEF Stranded

\* A change of state, then TouchPod.
LEMMA StateThenTouch ==
    ASSUME Core, NEW p \in tab.live, NEW s \in PodStates
    PROVE  LET t == TouchPod(SetPodState(tab, p, s), p)
           IN /\ t.live = tab.live /\ t.deleted = tab.deleted
              /\ t.state = [tab.state EXCEPT ![p] = s]
              /\ tab.avail \ {p} \subseteq t.avail
<1> DEFINE c1 == SetPodState(tab, p, s)
<1>1. tab \in Tables /\ p \in Pods /\ Counted(tab)
  BY DEF Core, Counted, Tables
<1>2. c1 \in Tables
  BY <1>1, SetStateKeeps DEF Counted
<1>3. /\ c1.live = tab.live /\ c1.deleted = tab.deleted
      /\ c1.state = [tab.state EXCEPT ![p] = s]
      /\ tab.avail \ {p} \subseteq c1.avail
  BY <1>1, SetStateEffect, AvailAfter
<1> HIDE DEF c1
<1>4. LET t == TouchPod(c1, p)
      IN /\ t.live = c1.live /\ t.deleted = c1.deleted /\ t.state = c1.state
         /\ t.avail = c1.avail
  BY <1>1, <1>2, TouchEffect, AvailAfter
<1> QED
  BY <1>3, <1>4 DEF c1

\* A step of p's own.
LEMMA LifecycleStrandsNobody ==
    ASSUME Core, NEW p \in Pods, StepPod(p)
    PROVE  Stranded' \subseteq Stranded
<1>1. /\ tab \in Tables /\ p \in tab.live /\ p \in next
      /\ tab.state[p] \in PodStates /\ target[p] \in PodStates
  BY DEF Core, SimTypeOK, PodTypes, StepPod, Pop, StepRemove, StepSchedule,
         StepStart, StepAvailable, StepCrashed, Tables
<1>2. CASE StepRemove(p)
  <2>1. /\ tab' = RemovePod(tab, p) /\ next' = next \ {p}
        /\ tab'.live = tab.live \ {p} /\ tab'.deleted = tab.deleted
        /\ tab'.state = tab.state /\ tab'.avail = tab.avail
    BY <1>1, <1>2, RemoveEffect, AvailAfter DEF StepRemove, Settle
  <2> QED
    BY <2>1 DEF Stranded
<1>3. CASE StepSchedule(p)
  <2> DEFINE c1 == SchedulePod(tab, p)
             c2 == SetPodState(c1, p, "ContainerCreating")
  <2>1. tab' = TouchPod(c2, p) /\ next' = next /\ "ContainerCreating" \in PodStates
    BY <1>3 DEF StepSchedule, Again, PodStates
  <2>2. c1 \in Tables
    BY <1>1, ScheduleKeeps DEF Core, Counted
  <2>3. c1.live = tab.live /\ c1.deleted = tab.deleted /\ c1.state = tab.state
        /\ c1.avail = tab.avail
    BY <1>1, ScheduleEffect, AvailAfter
  <2> HIDE DEF c1
  <2>4. c2 \in Tables
    BY <1>1, <2>1, <2>2, <2>3, <1>3, SetStateKeeps, ScheduleKeeps DEF Core, Counted, c1
  <2>5. /\ c2.live = tab.live /\ c2.deleted = tab.deleted
        /\ c2.state = [tab.state EXCEPT ![p] = "ContainerCreating"]
        /\ tab.avail \ {p} \subseteq c2.avail
    BY <1>1, <2>1, <2>2, <2>3, SetStateEffect, AvailAfter
  <2> HIDE DEF c2
  <2>6. /\ tab'.live = tab.live /\ tab'.deleted = tab.deleted
        /\ tab'.state = [tab.state EXCEPT ![p] = "ContainerCreating"]
        /\ tab.avail \ {p} \subseteq tab'.avail
    BY <2>1, <2>4, <2>5, TouchEffect, AvailAfter
  <2>7. \A q \in Pods : q # p => tab'.state[q] = tab.state[q]
    BY <1>1, <2>6 DEF Tables
  <2> QED
    BY <1>1, <2>1, <2>6, <2>7, MoveStrandsNobody
<1>4. ASSUME NEW s \in PodStates, tab' = TouchPod(SetPodState(tab, p, s), p)
      PROVE  /\ tab'.live = tab.live /\ tab'.deleted = tab.deleted
             /\ tab'.state = [tab.state EXCEPT ![p] = s]
             /\ tab.avail \ {p} \subseteq tab'.avail
  BY <1>1, <1>4, StateThenTouch
<1>5. CASE StepStart(p)
  <2> DEFINE to == IF target[p] \in {"Pending", "ContainerCreating"}
                   THEN "Running" ELSE target[p]
  <2>1. /\ tab' = TouchPod(SetPodState(tab, p, to), p)
        /\ IF to \in {"Running", "CrashLoopBackOff"} THEN Again(p) ELSE Settle(p)
    BY <1>5 DEF StepStart
  <2>2. to \in PodStates
    BY <1>1 DEF PodStates
  <2> HIDE DEF to
  <2>3. /\ next \ {p} \subseteq next'
        /\ p \in next' \/ ~Ready(to)
    BY <1>1, <2>1 DEF Again, Settle, Ready
  <2>4. /\ tab'.live = tab.live /\ tab'.deleted = tab.deleted
        /\ tab'.state = [tab.state EXCEPT ![p] = to]
        /\ tab.avail \ {p} \subseteq tab'.avail
    BY <1>4, <2>1, <2>2
  <2>5. /\ tab'.state[p] = to
        /\ \A q \in Pods : q # p => tab'.state[q] = tab.state[q]
    BY <1>1, <2>4 DEF Tables
  <2> QED
    BY <1>1, <2>3, <2>4, <2>5, MoveStrandsNobody
<1>6. CASE StepAvailable(p)
  <2> DEFINE c1 == MarkPodAvailable(tab, p)
  <2>1. tab' = TouchPod(c1, p) /\ next' = next \ {p} /\ Ready(tab.state[p])
    BY <1>6 DEF StepAvailable, Settle, Ready
  <2>2. c1 \in Tables
    BY <1>1, AvailableKeeps DEF Core, Counted
  <2>3. /\ c1.live = tab.live /\ c1.deleted = tab.deleted /\ c1.state = tab.state
        /\ tab.avail \subseteq c1.avail /\ p \in c1.avail
    BY <1>1, <2>1, AvailableEffect, AvailAfter
  <2> HIDE DEF c1
  <2>4. /\ tab'.live = tab.live /\ tab'.deleted = tab.deleted
        /\ tab'.state = tab.state /\ tab.avail \subseteq tab'.avail /\ p \in tab'.avail
    BY <2>1, <2>2, <2>3, TouchEffect, AvailAfter
  <2> QED
    BY <1>1, <2>1, <2>4, MoveStrandsNobody
<1>7. CASE StepCrashed(p)
  <2>1. PICK to \in {"CrashLoopBackOff", "Running"} :
          tab' = TouchPod(SetPodState(tab, p, to), p)
    BY <1>7 DEF StepCrashed
  <2>2. to \in PodStates /\ next' = next
    BY <1>7 DEF StepCrashed, PodStates, Again
  <2>3. /\ tab'.live = tab.live /\ tab'.deleted = tab.deleted
        /\ tab'.state = [tab.state EXCEPT ![p] = to]
        /\ tab.avail \ {p} \subseteq tab'.avail
    BY <1>4, <2>1, <2>2
  <2>4. \A q \in Pods : q # p => tab'.state[q] = tab.state[q]
    BY <1>1, <2>3 DEF Tables
  <2> QED
    BY <1>1, <2>2, <2>3, <2>4, MoveStrandsNobody
<1> QED
  BY <1>2, <1>3, <1>5, <1>6, <1>7 DEF StepPod

\* No step adds a ready pod that nothing will promote.
LEMMA StepStrandsNobody ==
    ASSUME Core, [SimNext]_simVars
    PROVE  Stranded' \subseteq Stranded
<1>1. tab \in Tables /\ Counted(tab)
  BY DEF Core, Counted
<1>2. CASE UNCHANGED <<tab, next>>
  BY <1>2 DEF Stranded
<1>3. CASE \E p \in Pods : StepPod(p)
  BY <1>3, LifecycleStrandsNobody
<1>4. ASSUME NEW p \in Pods, ChurnDelete(p)
      PROVE  Stranded' \subseteq Stranded
  <2>1. tab' = MarkPodTerminating(tab, p) /\ next \subseteq next'
    BY <1>4 DEF ChurnDelete
  <2>2. /\ tab'.live = tab.live /\ tab'.deleted = tab.deleted \cup {p}
        /\ tab'.state = tab.state /\ tab'.avail = tab.avail
    BY <1>1, <2>1, MarkEffect, AvailAfter
  <2> QED
    BY <2>1, <2>2 DEF Stranded
<1>5. ASSUME NEW p \in Pods, ChurnRestart(p)
      PROVE  Stranded' \subseteq Stranded
  <2>1. p \in tab.live
    BY <1>5 DEF ChurnRestart, Churnable
  <2>2. CASE /\ tab' = TouchPod(SetPodState(tab, p, "CrashLoopBackOff"), p)
             /\ next' = next \cup {p}
    <3>1. /\ tab'.live = tab.live /\ tab'.deleted = tab.deleted
          /\ tab'.state = [tab.state EXCEPT ![p] = "CrashLoopBackOff"]
          /\ tab.avail \ {p} \subseteq tab'.avail
      BY <2>1, <2>2, StateThenTouch DEF PodStates
    <3>2. \A q \in Pods : q # p => tab'.state[q] = tab.state[q]
      BY <1>1, <3>1 DEF Tables
    <3> QED
      BY <1>1, <2>1, <2>2, <3>1, <3>2, MoveStrandsNobody
  <2>3. CASE tab' = TouchPod(tab, p) /\ next' = next
    <3>1. /\ tab'.live = tab.live /\ tab'.deleted = tab.deleted
          /\ tab'.state = tab.state /\ tab'.avail = tab.avail
      BY <1>1, <2>3, TouchEffect, AvailAfter
    <3> QED
      BY <2>3, <3>1 DEF Stranded
  <2> QED
    BY <1>5, <2>2, <2>3 DEF ChurnRestart
<1>6. ASSUME NEW r \in ReplicaSets, ReconcileCreate(r)
      PROVE  Stranded' \subseteq Stranded
  <2>1. PICK N \in SUBSET Free : \E tgt \in [N -> Targets], nd \in [N -> Nodes] :
            /\ tab' = AddPods(tab, N, r, nd)
            /\ next' = (next \ N) \cup {p \in N : tgt[p] # "Pending"}
    BY <1>6 DEF ReconcileCreate
  <2>2. N \in SUBSET Pods /\ N \cap tab.live = {}
    BY DEF Free
  <2>3. PICK nd \in [N -> Nodes] : tab' = AddPods(tab, N, r, nd)
    BY <2>1
  <2>4. /\ tab'.live = tab.live \cup N /\ tab'.deleted = tab.deleted \ N
        /\ \A q \in Pods : tab'.state[q] = IF q \in N THEN "Pending" ELSE tab.state[q]
    BY <1>1, <2>2, <2>3, AddEffect
  <2>5. tab'.avail = tab.avail \ N
    BY <1>1, <2>2, <2>3, AvailAfterAdding
  <2>6. next \ N \subseteq next'
    BY <2>1
  <2> QED
    BY <1>1, <2>2, <2>4, <2>5, <2>6 DEF Stranded, Ready, Tables
<1>7. ASSUME NEW r \in ReplicaSets, ReconcileDelete(r)
      PROVE  Stranded' \subseteq Stranded
  <2>1. PICK V \in SUBSET Pods : /\ tab' = MarkAllTerminating(tab, V, r)
                                 /\ next' = next \cup V
    BY <1>1, <1>7 DEF ReconcileDelete, PodsOf, Tables
  <2>2. /\ tab'.live = tab.live /\ tab'.deleted = tab.deleted \cup V
        /\ tab'.state = tab.state
    BY <1>1, <2>1, MarkAllEffect
  <2>3. tab'.avail = tab.avail
    BY <1>1, <2>1 DEF MarkAllTerminating, Tables
  <2> QED
    BY <2>1, <2>2, <2>3 DEF Stranded
<1>8. ASSUME NEW a \in Requests, NEW p \in Pods, DeletePod(a, p)
      PROVE  Stranded' \subseteq Stranded
  <2>1. tab' = MarkPodTerminating(tab, p) /\ next \subseteq next'
    BY <1>8 DEF DeletePod
  <2>2. /\ tab'.live = tab.live /\ tab'.deleted = tab.deleted \cup {p}
        /\ tab'.state = tab.state /\ tab'.avail = tab.avail
    BY <1>1, <2>1, MarkEffect, AvailAfter
  <2> QED
    BY <2>1, <2>2 DEF Stranded
<1>9. CASE \/ DrainWakeups \/ EndSteps \/ EndChurn \/ FlushStatus
           \/ \E d \in Deployments, n \in 0 .. MaxReplicas : ChurnScale(d, n)
           \/ \E r \in ReplicaSets : \/ ReconcileRemove(r) \/ ReconcileKeep(r)
                                     \/ DeleteReplicaSet(r)
           \/ \E a \in Requests : Wake(a)
           \/ \E a \in Requests, d \in Deployments :
                \/ \E n \in 0 .. MaxReplicas : Scale(a, d, n)
                \/ Restart(a, d) \/ DeleteDeployment(a, d)
           \/ UNCHANGED simVars
  BY <1>2, <1>9 DEF DrainWakeups, EndSteps, EndChurn, FlushStatus, ChurnScale,
     ReconcileRemove, ReconcileKeep, DeleteReplicaSet, Wake, Scale, Restart,
     DeleteDeployment, podVars, simVars
<1> QED
  BY <1>3, <1>4, <1>5, <1>6, <1>7, <1>8, <1>9 DEF SimNext, StepPod

\* Only the build leaves a pod ready, not available, and without a timer
\* (generate.go 599-602): whatever ticks, churn and API writes do, no step adds one.
THEOREM NobodyEverStranded == SimSpec => NobodyIsStranded
<1>1. Core /\ [SimNext]_simVars => [Stranded' \subseteq Stranded]_simVars
  BY StepStrandsNobody
<1> QED
  BY <1>1, CoreAlways, PTL DEF NobodyIsStranded, SimSpec

-----------------------------------------------------------------------------
(* Replica counts.                                                         *)

\* The wakeup that takes d's replica count to its current ReplicaSet.
ScaleOwed(d) == d \in wakeD \/ WakeComing(OweD(d))

\* A ReplicaSet is current for one Deployment or superseded, never both; what is
\* superseded asks for no pods, and neither does a deleted Deployment; a current
\* one asks for what its Deployment does, or is owed the news.
WorkInv ==
    /\ \A d \in Deployments : rsOf[current[d]] = d
    /\ \A d, e \in Deployments : current[d] \notin old[e]
    /\ \A d \in Deployments : \A r \in old[d] : spec[r] = 0
    /\ \A d \in deleting : d \notin stored /\ dspec[d] = 0
    /\ \A d \in Deployments : spec[current[d]] # dspec[d] => ScaleOwed(d)

\* A Deployment that is owed its scale gets it from the next drain.
LEMMA ScaleOwedStep ==
    ASSUME Core, [SimNext]_simVars
    PROVE  DrainWakeups \/ \A d \in Deployments : ScaleOwed(d) => ScaleOwed(d)'
<1>1. /\ req \in [Requests -> {Idle} \cup {OweD(d) : d \in Deployments}
                                     \cup {OweP(p) : p \in Pods}]
  BY DEF Core, SimTypeOK, EngineTypes
<1>2. \A d : OweD(d) # Idle
  BY DEF OweD, Idle
<1>3. CASE UNCHANGED wakeVars
  BY <1>3 DEF ScaleOwed, WakeComing, wakeVars
<1>4. ASSUME NEW a \in Requests, NEW owed, Write(a, owed),
             NEW d \in Deployments, ScaleOwed(d)
      PROVE  ScaleOwed(d)'
  <2>1. CASE d \in wakeD
    BY <1>4, <2>1 DEF ScaleOwed, Write
  <2>2. CASE WakeComing(OweD(d))
    <3>1. PICK b \in Requests : req[b] = OweD(d)
      BY <2>2 DEF WakeComing
    <3>2. b # a /\ req' = [req EXCEPT ![a] = owed]
      BY <1>2, <1>4, <3>1 DEF Write
    <3>3. req'[b] = OweD(d)
      BY <1>1, <3>1, <3>2
    <3> QED
      BY <3>3 DEF ScaleOwed, WakeComing
  <2> QED
    BY <1>4, <2>1, <2>2 DEF ScaleOwed
<1>5. ASSUME NEW a \in Requests, Wake(a), NEW d \in Deployments, ScaleOwed(d)
      PROVE  ScaleOwed(d)'
  <2>1. CASE d \in wakeD
    BY <1>5, <2>1 DEF ScaleOwed, Wake
  <2>2. CASE WakeComing(OweD(d))
    <3>1. PICK b \in Requests : req[b] = OweD(d)
      BY <2>2 DEF WakeComing
    <3>2. CASE b = a
      BY <1>5, <3>1, <3>2 DEF ScaleOwed, Wake
    <3>3. CASE b # a
      <4>1. req'[b] = OweD(d)
        BY <1>1, <1>5, <3>1, <3>3 DEF Wake
      <4> QED
        BY <4>1 DEF ScaleOwed, WakeComing
    <3> QED
      BY <3>2, <3>3
  <2> QED
    BY <1>5, <2>1, <2>2 DEF ScaleOwed
<1>6. CASE \E a \in Requests : \/ \E p \in Pods : DeletePod(a, p)
                               \/ \E d \in Deployments, n \in 0 .. MaxReplicas : Scale(a, d, n)
                               \/ \E d \in Deployments : Restart(a, d) \/ DeleteDeployment(a, d)
  BY <1>4, <1>6 DEF DeletePod, Scale, Restart, DeleteDeployment
<1>7. CASE \/ \E p \in Pods : StepPod(p) \/ ChurnDelete(p) \/ ChurnRestart(p)
           \/ EndSteps \/ EndChurn \/ FlushStatus
           \/ \E d \in Deployments, n \in 0 .. MaxReplicas : ChurnScale(d, n)
           \/ \E r \in ReplicaSets : \/ ReconcileRemove(r) \/ ReconcileCreate(r)
                                     \/ ReconcileDelete(r) \/ ReconcileKeep(r)
                                     \/ DeleteReplicaSet(r)
           \/ UNCHANGED simVars
  BY <1>3, <1>7 DEF StepPod, Pop, StepRemove, StepSchedule, StepStart,
     StepAvailable, StepCrashed, Churnable, ChurnDelete, ChurnRestart, EndSteps,
     EndChurn, FlushStatus, ChurnScale, Visit, Keep, ReconcileRemove,
     ReconcileCreate, ReconcileDelete, ReconcileKeep, DeleteReplicaSet, simVars
<1> QED
  BY <1>5, <1>6, <1>7 DEF SimNext, StepPod

\* The Deployments are built with ReplicaSets of their own.
LEMMA BuiltWork == SimInit => WorkInv
<1> SUFFICES ASSUME SimInit PROVE WorkInv
  OBVIOUS
<1>1. /\ InitRS \in [Deployments -> ReplicaSets] /\ current = InitRS
      /\ \A d, e \in Deployments : InitRS[d] = InitRS[e] => d = e
  BY SimulationAssumption DEF SimInit
<1>2. ASSUME NEW d \in Deployments
      PROVE  rsOf[current[d]] = d /\ spec[current[d]] = dspec[d]
  <2>1. InitRS[d] \in InitSets /\ InitRS[d] \in ReplicaSets
    BY <1>1 DEF InitSets
  <2>2. (CHOOSE e \in Deployments : InitRS[e] = InitRS[d]) = d
    BY <1>1
  <2>3. rsOf[InitRS[d]] = CHOOSE e \in Deployments : InitRS[e] = InitRS[d]
    BY <2>1 DEF SimInit
  <2>4. spec[InitRS[d]] = dspec[rsOf[InitRS[d]]]
    BY <2>1 DEF SimInit
  <2> QED
    BY <1>1, <2>2, <2>3, <2>4
<1> QED
  BY <1>2 DEF SimInit, WorkInv

\* No step of the engine or of a client breaks it.
LEMMA WorkInvStep ==
    ASSUME Core, WorkInv, [SimNext]_simVars
    PROVE  WorkInv'
<1>1. WorkTypes /\ EngineTypes
  BY DEF Core, SimTypeOK
<1>2. DrainWakeups \/ \A d \in Deployments : ScaleOwed(d) => ScaleOwed(d)'
  BY ScaleOwedStep
<1>3. CASE DrainWakeups
  <2>1. /\ spec' = [r \in ReplicaSets |->
                     IF \E d \in wakeD : current[d] = r THEN dspec[rsOf[r]]
                     ELSE spec[r]]
        /\ UNCHANGED <<rsOf, dspec, current, old, deleting, stored, req>>
    BY <1>3 DEF DrainWakeups
  <2>2. ASSUME NEW d \in Deployments, spec'[current[d]] # dspec[d]
        PROVE  ScaleOwed(d)'
    <3>1. d \notin wakeD /\ spec'[current[d]] = spec[current[d]]
      BY <1>1, <2>1, <2>2 DEF WorkInv, WorkTypes
    <3>2. WakeComing(OweD(d))
      BY <2>2, <3>1 DEF WorkInv, ScaleOwed
    <3> QED
      BY <2>1, <3>2 DEF ScaleOwed, WakeComing
  <2>3. ASSUME NEW d \in Deployments, NEW r \in old[d]
        PROVE  spec'[r] = 0
    <3>1. r \in ReplicaSets /\ \A e \in wakeD : current[e] # r
      BY <1>1, <2>3 DEF WorkInv, WorkTypes, EngineTypes
    <3> QED
      BY <2>1, <2>3, <3>1 DEF WorkInv
  <2> QED
    BY <2>1, <2>2, <2>3 DEF WorkInv
<1>4. CASE UNCHANGED <<spec, rsOf, dspec, current, old, deleting, stored>>
  BY <1>2, <1>3, <1>4 DEF WorkInv
<1>5. ASSUME NEW d \in Deployments, NEW n \in 0 .. MaxReplicas, ChurnScale(d, n)
      PROVE  WorkInv'
  <2>1. /\ dspec' = [dspec EXCEPT ![d] = n] /\ d \notin deleting
        /\ spec' = [spec EXCEPT ![current[d]] = n]
        /\ UNCHANGED <<rsOf, current, old, deleting, stored, wakeVars>>
    BY <1>5 DEF ChurnScale
  <2>2. \A e \in Deployments : e # d => current[e] # current[d]
    BY DEF WorkInv
  <2>3. \A e \in Deployments : spec'[current[e]] # dspec'[e] => ScaleOwed(e)'
    BY <1>1, <2>1, <2>2 DEF WorkInv, WorkTypes, ScaleOwed, WakeComing, wakeVars
  <2> QED
    BY <1>1, <2>1, <2>3 DEF WorkInv, WorkTypes
<1>6. ASSUME NEW r \in ReplicaSets, NEW n, spec' = [spec EXCEPT ![r] = n],
             n = spec[r] \/ (n = 0 /\ Doomed(r)),
             UNCHANGED <<rsOf, dspec, current, old, deleting, stored, wakeVars>>
      PROVE  WorkInv'
  <2>1. ASSUME NEW d \in Deployments, spec'[current[d]] # dspec[d]
        PROVE  ScaleOwed(d)'
    <3>1. current[d] = r /\ Doomed(r) => dspec[d] = 0
      BY DEF WorkInv, Doomed
    <3>2. spec[current[d]] # dspec[d]
      BY <1>1, <1>6, <2>1, <3>1 DEF WorkTypes
    <3> QED
      BY <1>6, <3>2 DEF WorkInv, ScaleOwed, WakeComing, wakeVars
  <2>2. \A d \in Deployments : \A x \in old[d] : spec'[x] = 0
    BY <1>1, <1>6 DEF WorkInv, WorkTypes
  <2> QED
    BY <1>6, <2>1, <2>2 DEF WorkInv
<1>7. ASSUME NEW r \in ReplicaSets, ReconcileRemove(r)
      PROVE  WorkInv'
  BY <1>6, <1>7 DEF ReconcileRemove, Visit
<1>8. ASSUME NEW r \in ReplicaSets, Keep(r)
      PROVE  WorkInv'
  BY <1>6, <1>8 DEF Keep, Visit, Wanted
<1>9. ASSUME NEW a \in Requests, NEW d \in Deployments,
             NEW n \in 0 .. MaxReplicas, Scale(a, d, n)
      PROVE  WorkInv'
  <2>1. /\ dspec' = [dspec EXCEPT ![d] = n] /\ d \in stored
        /\ UNCHANGED <<spec, rsOf, current, old, deleting, stored>>
        /\ req' = [req EXCEPT ![a] = OweD(d)]
    BY <1>9 DEF Scale, Write
  <2>2. ScaleOwed(d)'
    BY <1>1, <2>1 DEF EngineTypes, ScaleOwed, WakeComing
  <2>3. d \notin deleting
    BY <2>1 DEF WorkInv
  <2>4. \A e \in Deployments : ScaleOwed(e) => ScaleOwed(e)'
    BY <1>1, <1>2, <1>9 DEF DrainWakeups, Scale, Write, EngineTypes
  <2>5. \A e \in Deployments : spec'[current[e]] # dspec'[e] => ScaleOwed(e)'
    BY <1>1, <2>1, <2>2, <2>4 DEF WorkInv, WorkTypes
  <2> QED
    BY <1>1, <2>1, <2>3, <2>5 DEF WorkInv, WorkTypes
<1>10. ASSUME NEW a \in Requests, NEW d \in Deployments, Restart(a, d)
       PROVE  WorkInv'
  <2>1. PICK r \in Unused : NewRevision(d, r)
    BY <1>10 DEF Restart
  <2>2. /\ r \in ReplicaSets /\ \A e \in Deployments : r # current[e] /\ r \notin old[e]
    BY DEF Unused, AllReplicaSets
  <2>3. /\ spec' = [spec EXCEPT ![current[d]] = 0, ![r] = dspec[d]]
        /\ old' = [old EXCEPT ![d] = @ \cup {current[d]}]
        /\ current' = [current EXCEPT ![d] = r]
        /\ rsOf' = [rsOf EXCEPT ![r] = d]
        /\ UNCHANGED <<dspec, deleting, stored>>
        /\ req' = [req EXCEPT ![a] = OweD(d)]
    BY <1>10, <2>1 DEF NewRevision, Restart, Write
  <2>4. \A e \in Deployments : e # d => current[e] # current[d]
    BY DEF WorkInv
  <2>5. \A e \in Deployments : /\ current'[e] = IF e = d THEN r ELSE current[e]
                               /\ old'[e] = IF e = d THEN old[d] \cup {current[d]} ELSE old[e]
    BY <1>1, <2>3 DEF WorkTypes
  <2>6. \A x \in ReplicaSets : /\ spec'[x] = IF x = r THEN dspec[d]
                                            ELSE IF x = current[d] THEN 0 ELSE spec[x]
                               /\ rsOf'[x] = IF x = r THEN d ELSE rsOf[x]
    BY <1>1, <2>2, <2>3 DEF WorkTypes
  <2>7. \A e \in Deployments : current[e] \in ReplicaSets /\ old[e] \subseteq ReplicaSets
    BY <1>1 DEF WorkTypes
  <2>8. \A e \in Deployments : rsOf'[current'[e]] = e
    BY <2>2, <2>5, <2>6, <2>7 DEF WorkInv
  <2>9. \A e, f \in Deployments : current'[e] \notin old'[f]
    BY <2>2, <2>4, <2>5 DEF WorkInv
  <2>10. \A e \in Deployments : \A x \in old'[e] : spec'[x] = 0
    BY <2>2, <2>5, <2>6, <2>7 DEF WorkInv
  <2>11. ScaleOwed(d)'
    BY <1>1, <2>3 DEF EngineTypes, ScaleOwed, WakeComing
  <2>12. \A e \in Deployments : ScaleOwed(e) => ScaleOwed(e)'
    BY <1>2, <1>10 DEF DrainWakeups, Restart, Write
  <2>13. \A e \in Deployments : spec'[current'[e]] # dspec'[e] => ScaleOwed(e)'
    BY <2>2, <2>3, <2>4, <2>5, <2>6, <2>7, <2>11, <2>12 DEF WorkInv
  <2>14. \A e \in deleting' : e \notin stored' /\ dspec'[e] = 0
    BY <2>3 DEF WorkInv
  <2> QED
    BY <2>8, <2>9, <2>10, <2>13, <2>14 DEF WorkInv
<1>11. ASSUME NEW a \in Requests, NEW d \in Deployments, DeleteDeployment(a, d)
       PROVE  WorkInv'
  <2>1. /\ deleting' = deleting \cup {d} /\ dspec' = [dspec EXCEPT ![d] = 0]
        /\ stored' = stored \ {d}
        /\ UNCHANGED <<spec, rsOf, current, old>>
        /\ req' = [req EXCEPT ![a] = OweD(d)]
    BY <1>11 DEF DeleteDeployment, Write
  <2>2. ScaleOwed(d)'
    BY <1>1, <2>1 DEF EngineTypes, ScaleOwed, WakeComing
  <2>3. \A e \in Deployments : ScaleOwed(e) => ScaleOwed(e)'
    BY <1>2, <1>11 DEF DrainWakeups, DeleteDeployment, Write
  <2> QED
    BY <1>1, <2>1, <2>2, <2>3 DEF WorkInv, WorkTypes
<1>12. CASE \/ \E p \in Pods : StepPod(p) \/ ChurnDelete(p) \/ ChurnRestart(p)
            \/ EndSteps \/ EndChurn \/ FlushStatus \/ UNCHANGED simVars
            \/ \E a \in Requests, p \in Pods : DeletePod(a, p)
            \/ \E r \in ReplicaSets : DeleteReplicaSet(r)
            \/ \E a \in Requests : Wake(a)
  BY <1>4, <1>12 DEF StepPod, Pop, StepRemove, StepSchedule, StepStart,
     StepAvailable, StepCrashed, Churnable, ChurnDelete, ChurnRestart, EndSteps,
     EndChurn, FlushStatus, DeletePod, DeleteReplicaSet, Wake, workVars, simVars
<1> QED
  BY <1>3, <1>5, <1>7, <1>8, <1>9, <1>10, <1>11, <1>12
  DEF SimNext, StepPod, ReconcileCreate, ReconcileDelete, ReconcileKeep

\* The replica counts hold in every state.
LEMMA WorkAlways == SimSpec => []WorkInv
<1>1. Core /\ WorkInv /\ [SimNext]_simVars => (Core /\ WorkInv)'
  BY CoreStep, WorkInvStep
<1> QED
  BY <1>1, BuiltCore, BuiltWork, PTL DEF SimSpec

\* A scale is never forgotten, however requests and ticks interleave.
THEOREM ScalesAreNotForgotten == SimSpec => []ScaleReachesReplicaSet
<1>1. WorkInv => ScaleReachesReplicaSet
  BY DEF WorkInv, ScaleReachesReplicaSet, ScaleOwed
<1> QED
  BY <1>1, WorkAlways, PTL

\* A superseded ReplicaSet never asks for pods again.
THEOREM OldSetsStayAtZero == SimSpec => []OldSetsAreZero
<1>1. WorkInv => OldSetsAreZero
  BY DEF WorkInv, OldSetsAreZero
<1> QED
  BY <1>1, WorkAlways, PTL

-----------------------------------------------------------------------------
(* Notices.                                                                *)

\* What the engine has yet to look at, or to speak of, in this tick.
Pending == IF phase = "reconcile" THEN todo ELSE dirtyRS

\* The ReplicaSets of a Deployment name it, and those in the store are of one.
OwnInv ==
    /\ \A d \in Deployments : \A r \in AllReplicaSets(d) : rsOf[r] = d
    /\ \A r \in inStore : r \in AllReplicaSets(rsOf[r])

\* The dirty sets are empty between ticks; what is yet to be visited is dirty.
DirtyInv ==
    /\ phase = "idle" => dirtyRS = {} /\ dirtyD = {}
    /\ todo \subseteq dirtyRS

\* A status that differs from what was announced last is marked for this tick,
\* or a wakeup for the next one.
ShownInv ==
    /\ DOMAIN shown = ReplicaSets \cup Deployments
    /\ \A r \in inStore : shown[r] = SetNow(r) \/ r \in dirtyRS \/ ScaleOwed(rsOf[r])
    /\ \A d \in stored : \/ shown[d] = DeployNow(d) \/ d \in dirtyD
                         \/ \E r \in AllReplicaSets(d) : r \in Pending

NoticeInv == OwnInv /\ DirtyInv /\ ShownInv

\* Tables that differ in no status counter of a ReplicaSet out of R.
SameElsewhere(c, t, R) ==
    \A r \in ReplicaSets \ R : /\ t.total[r] = c.total[r] /\ t.ready[r] = c.ready[r]
                               /\ t.available[r] = c.available[r]

\* The operations on one pod change counters of its ReplicaSet only, and those
\* that leave it as ready as it was change none.
LEMMA CountersOfOne ==
    ASSUME NEW c \in Tables, NEW p \in Pods, NEW s \in PodStates
    PROVE  /\ SameElsewhere(c, TouchPod(c, p), {}) /\ TouchPod(c, p).rs = c.rs
           /\ SameElsewhere(c, SchedulePod(c, p), {}) /\ SchedulePod(c, p).rs = c.rs
           /\ SameElsewhere(c, MarkPodTerminating(c, p), {})
           /\ SameElsewhere(c, SetPodState(c, p, s), {c.rs[p]})
           /\ SameElsewhere(c, MarkPodAvailable(c, p), {c.rs[p]})
           /\ SameElsewhere(c, RemovePod(c, p), {c.rs[p]})
<1>1. SameElsewhere(c, TouchPod(c, p), {}) /\ TouchPod(c, p).rs = c.rs
  BY DEF TouchPod, Tables, SameElsewhere
<1>2. SameElsewhere(c, SchedulePod(c, p), {}) /\ SchedulePod(c, p).rs = c.rs
  BY DEF SchedulePod, Tables, SameElsewhere
<1>3. SameElsewhere(c, MarkPodTerminating(c, p), {})
  BY DEF MarkPodTerminating, Tables, SameElsewhere
<1>4. SameElsewhere(c, SetPodState(c, p, s), {c.rs[p]})
  <2>1. CASE c.state[p] = s
    BY <2>1 DEF SetPodState, SameElsewhere
  <2>2. CASE c.state[p] # s
    BY <2>2 DEF SetPodState, ChangeState, Tables, SameElsewhere
  <2> QED
    BY <2>1, <2>2
<1>5. SameElsewhere(c, MarkPodAvailable(c, p), {c.rs[p]})
  BY DEF MarkPodAvailable, Tables, SameElsewhere
<1>6. SameElsewhere(c, RemovePod(c, p), {c.rs[p]})
  BY DEF RemovePod, Tables, SameElsewhere
<1> QED
  BY <1>1, <1>2, <1>3, <1>4, <1>5, <1>6

\* Reconciling a ReplicaSet changes its own counters only.
LEMMA CountersOfSet ==
    ASSUME NEW c \in Tables, NEW r \in ReplicaSets
    PROVE  /\ \A N \in SUBSET Pods : \A nd \in [N -> Nodes] :
                 SameElsewhere(c, AddPods(c, N, r, nd), {r})
           /\ \A V \in SUBSET Pods : SameElsewhere(c, MarkAllTerminating(c, V, r), {})
  BY DEF AddPods, MarkAllTerminating, Tables, SameElsewhere

\* The lifecycle and churn change counters of the pod's ReplicaSet only.
LEMMA PodCounters ==
    ASSUME Core, NEW q \in Pods, StepPod(q) \/ ChurnDelete(q) \/ ChurnRestart(q)
    PROVE  SameElsewhere(tab, tab', {tab.rs[q]})
<1>1. tab \in Tables /\ Counted(tab) /\ target \in [Pods -> PodStates]
  BY DEF Core, SimTypeOK, PodTypes
<1>3. ASSUME NEW p \in Pods, NEW s \in PodStates, NEW c \in Tables, SameElsewhere(tab, c, {}),
             c.rs = tab.rs, Counted(c), p \in c.live, tab' = TouchPod(SetPodState(c, p, s), p)
      PROVE  SameElsewhere(tab, tab', {tab.rs[p]})
  <2> PICK b : b = SetPodState(c, p, s)
    OBVIOUS
  <2>1. SameElsewhere(c, b, {tab.rs[p]})
    BY <1>3, CountersOfOne
  <2>2. b \in Tables
    BY <1>3, SetStateKeeps DEF Counted
  <2>3. SameElsewhere(b, tab', {})
    BY <1>3, <2>2, CountersOfOne
  <2> QED
    BY <1>3, <2>1, <2>3 DEF SameElsewhere
<1>4. ASSUME NEW p \in Pods, StepPod(p)
      PROVE  SameElsewhere(tab, tab', {tab.rs[p]})
  <2>0. p \in tab.live
    BY <1>4 DEF Core, StepPod, Pop, StepRemove, StepSchedule, StepStart, StepAvailable,
       StepCrashed
  <2>1. SameElsewhere(tab, tab, {})
    BY DEF SameElsewhere
  <2>2. CASE StepRemove(p)
    BY <1>1, <2>2, CountersOfOne DEF StepRemove
  <2>3. CASE StepSchedule(p)
    <3>1. /\ SchedulePod(tab, p) \in Tables /\ Counted(SchedulePod(tab, p))
          /\ SchedulePod(tab, p).live = tab.live
      BY <1>1, <2>0, ScheduleKeeps, ScheduleEffect DEF Counted
    <3>2. "ContainerCreating" \in PodStates
      BY DEF PodStates
    <3> QED
      BY <1>1, <1>3, <2>0, <2>3, <3>1, <3>2, CountersOfOne DEF StepSchedule
  <2>4. CASE StepStart(p)
    <3>1. PICK s \in PodStates : tab' = TouchPod(SetPodState(tab, p, s), p)
      BY <1>1, <2>4 DEF StepStart, PodStates
    <3> QED
      BY <1>1, <1>3, <2>0, <2>1, <3>1
  <2>5. CASE StepAvailable(p)
    <3> PICK b : b = MarkPodAvailable(tab, p)
      OBVIOUS
    <3>1. b \in Tables
      BY <1>1, <2>0, AvailableKeeps DEF Counted
    <3>2. SameElsewhere(tab, b, {tab.rs[p]}) /\ SameElsewhere(b, tab', {})
      BY <1>1, <2>5, <3>1, CountersOfOne DEF StepAvailable
    <3> QED
      BY <3>2 DEF SameElsewhere
  <2>6. CASE StepCrashed(p)
    <3>1. PICK s \in PodStates : tab' = TouchPod(SetPodState(tab, p, s), p)
      BY <2>6 DEF StepCrashed, PodStates
    <3> QED
      BY <1>1, <1>3, <2>0, <2>1, <3>1
  <2> QED
    BY <1>4, <2>2, <2>3, <2>4, <2>5, <2>6 DEF StepPod
<1>5. ASSUME NEW p \in Pods, ChurnDelete(p) \/ ChurnRestart(p)
      PROVE  SameElsewhere(tab, tab', {tab.rs[p]})
  <2>0. p \in tab.live
    BY <1>5 DEF ChurnDelete, ChurnRestart, Churnable
  <2>1. SameElsewhere(tab, tab, {}) /\ "CrashLoopBackOff" \in PodStates
    BY DEF SameElsewhere, PodStates
  <2>2. \/ tab' = MarkPodTerminating(tab, p)
        \/ tab' = TouchPod(SetPodState(tab, p, "CrashLoopBackOff"), p)
        \/ tab' = TouchPod(tab, p)
    BY <1>5 DEF ChurnDelete, ChurnRestart
  <2>3. CASE tab' = MarkPodTerminating(tab, p) \/ tab' = TouchPod(tab, p)
    <3>1. SameElsewhere(tab, tab', {})
      BY <1>1, <2>1, <2>3, CountersOfOne
    <3> QED
      BY <3>1 DEF SameElsewhere
  <2> QED
    BY <1>1, <1>3, <2>0, <2>1, <2>2, <2>3
<1> QED
  BY <1>4, <1>5

\* Reconciliation changes counters of the ReplicaSet it visits only.
LEMMA ReconcileCounters ==
    ASSUME Core, NEW r \in ReplicaSets, ReconcileCreate(r) \/ ReconcileDelete(r)
    PROVE  SameElsewhere(tab, tab', {r})
<1>0. tab \in Tables
  BY DEF Core, SimTypeOK, PodTypes
<1>1. CASE ReconcileCreate(r)
  <2>1. PICK N \in SUBSET Free : \E nd \in [N -> Nodes] : tab' = AddPods(tab, N, r, nd)
    BY <1>1 DEF ReconcileCreate
  <2>2. N \in SUBSET Pods
    BY DEF Free
  <2> QED
    BY <1>0, <2>1, <2>2, CountersOfSet
<1>2. CASE ReconcileDelete(r)
  <2>1. PICK V \in SUBSET (PodsOf(tab, r) \ tab.deleted) : tab' = MarkAllTerminating(tab, V, r)
    BY <1>2 DEF ReconcileDelete
  <2>2. V \in SUBSET Pods
    BY <1>0 DEF PodsOf, Tables
  <2>3. SameElsewhere(tab, tab', {})
    BY <1>0, <2>1, <2>2, CountersOfSet
  <2> QED
    BY <2>3 DEF SameElsewhere
<1> QED
  BY <1>1, <1>2

\* A status is made of the counters, the replica counts and the ReplicaSets.
LEMMA StatusKept ==
    ASSUME NEW R, SameElsewhere(tab, tab', R)
    PROVE  /\ \A r \in ReplicaSets \ R : spec'[r] = spec[r] => SetNow(r)' = SetNow(r)
           /\ \A d \in Deployments :
                /\ dspec'[d] = dspec[d] /\ current'[d] = current[d] /\ old'[d] = old[d]
                /\ AllReplicaSets(d) \subseteq ReplicaSets \ R
                => DeployNow(d)' = DeployNow(d)
<1>1. ASSUME NEW r \in ReplicaSets \ R, spec'[r] = spec[r]
      PROVE  SetNow(r)' = SetNow(r)
  BY <1>1 DEF SameElsewhere, SetNow, SetStatus
<1>2. ASSUME NEW d \in Deployments, dspec'[d] = dspec[d], current'[d] = current[d],
             old'[d] = old[d], AllReplicaSets(d) \subseteq ReplicaSets \ R
      PROVE  DeployNow(d)' = DeployNow(d)
  <2> DEFINE S == {current[d]} \cup old[d]
  <2>1. S = {current'[d]} \cup old'[d] /\ current[d] \in S
    BY <1>2
  <2>2. \A r \in S : /\ tab'.total[r] = tab.total[r] /\ tab'.ready[r] = tab.ready[r]
                     /\ tab'.available[r] = tab.available[r]
    BY <1>2 DEF AllReplicaSets, SameElsewhere
  <2>3. /\ [r \in S |-> tab'.total[r]] = [r \in S |-> tab.total[r]]
        /\ [r \in S |-> tab'.ready[r]] = [r \in S |-> tab.ready[r]]
        /\ [r \in S |-> tab'.available[r]] = [r \in S |-> tab.available[r]]
    BY <2>2
  <2>4. tab'.total[current[d]] = tab.total[current[d]]
    BY <2>1, <2>2
  <2>5. /\ [r \in {current'[d]} \cup old'[d] |-> tab'.total[r]] = [r \in S |-> tab.total[r]]
        /\ [r \in {current'[d]} \cup old'[d] |-> tab'.ready[r]] = [r \in S |-> tab.ready[r]]
        /\ [r \in {current'[d]} \cup old'[d] |-> tab'.available[r]]
             = [r \in S |-> tab.available[r]]
    BY <2>1, <2>3
  <2>6. DeployNow(d)' = DeployStatus(tab', dspec'[d], current'[d], old'[d])
    BY DEF DeployNow, DeployStatus
  <2>7. DeployStatus(tab', dspec'[d], current'[d], old'[d])
          = DeployStatus(tab, dspec[d], current[d], old[d])
    BY <1>2, <2>4, <2>5 DEF DeployStatus
  <2> QED
    BY <2>6, <2>7 DEF DeployNow
<1> QED
  BY <1>1, <1>2

\* The built cluster is announced as it is.
LEMMA BuiltNotices == SimInit => NoticeInv
<1> SUFFICES ASSUME SimInit PROVE NoticeInv
  OBVIOUS
<1>1. /\ InitRS \in [Deployments -> ReplicaSets] /\ current = InitRS
      /\ \A d, e \in Deployments : InitRS[d] = InitRS[e] => d = e
      /\ Deployments \cap ReplicaSets = {}
  BY SimulationAssumption DEF SimInit
<1>2. ASSUME NEW d \in Deployments
      PROVE  rsOf[InitRS[d]] = d /\ AllReplicaSets(d) = {InitRS[d]}
  <2>1. InitRS[d] \in InitSets /\ InitRS[d] \in ReplicaSets
    BY <1>1 DEF InitSets
  <2>2. (CHOOSE e \in Deployments : InitRS[e] = InitRS[d]) = d
    BY <1>1
  <2>3. rsOf[InitRS[d]] = CHOOSE e \in Deployments : InitRS[e] = InitRS[d]
    BY <2>1 DEF SimInit
  <2>4. old[d] = {}
    BY DEF SimInit
  <2> QED
    BY <1>1, <2>2, <2>3, <2>4 DEF AllReplicaSets
<1>3. OwnInv
  <2>1. ASSUME NEW d \in Deployments, NEW r \in AllReplicaSets(d)
        PROVE  rsOf[r] = d
    BY <1>2
  <2>2. ASSUME NEW r \in inStore
        PROVE  r \in AllReplicaSets(rsOf[r])
    <3>1. PICK d \in Deployments : r = InitRS[d]
      BY DEF SimInit, InitSets
    <3> QED
      BY <1>2, <3>1
  <2> QED
    BY <2>1, <2>2 DEF OwnInv
<1>4. DirtyInv
  BY DEF DirtyInv, SimInit
<1>5. shown = [x \in ReplicaSets \cup Deployments |->
                IF x \in Deployments THEN DeployNow(x) ELSE SetNow(x)]
  BY DEF SimInit
<1>6. \A r \in inStore : shown[r] = SetNow(r)
  BY <1>1, <1>5 DEF SimInit, InitSets
<1>7. \A d \in stored : shown[d] = DeployNow(d)
  BY <1>5 DEF SimInit
<1> QED
  BY <1>3, <1>4, <1>5, <1>6, <1>7 DEF NoticeInv, ShownInv

\* ReplicaSets keep the Deployment they are of.
LEMMA OwnStep ==
    ASSUME Core, WorkInv, NoticeInv, [SimNext]_simVars
    PROVE  OwnInv'
<1>1. WorkTypes /\ OwnInv
  BY DEF Core, SimTypeOK, NoticeInv
<1>2. CASE UNCHANGED <<rsOf, current, old>> /\ inStore' \subseteq inStore
  BY <1>1, <1>2 DEF OwnInv, AllReplicaSets
<1>3. ASSUME NEW a \in Requests, NEW d \in Deployments, Restart(a, d)
      PROVE  OwnInv'
  <2>1. PICK r \in Unused : NewRevision(d, r)
    BY <1>3 DEF Restart
  <2>2. r \in ReplicaSets /\ \A e \in Deployments : r \notin AllReplicaSets(e)
    BY DEF Unused
  <2>3. inStore' = inStore \cup {r}
    BY <2>1 DEF NewRevision
  <2> DEFINE Sets(e) == {current'[e]} \cup old'[e]
  <2>4. \A e \in Deployments : Sets(e) = IF e = d THEN AllReplicaSets(d) \cup {r}
                                          ELSE AllReplicaSets(e)
    BY <1>1, <2>1 DEF NewRevision, AllReplicaSets, WorkTypes
  <2> HIDE DEF Sets
  <2>5. \A x \in ReplicaSets : rsOf'[x] = IF x = r THEN d ELSE rsOf[x]
    BY <1>1, <2>1 DEF NewRevision, WorkTypes
  <2>6. \A e \in Deployments : AllReplicaSets(e) \subseteq ReplicaSets
    BY <1>1 DEF AllReplicaSets, WorkTypes
  <2>7. \A e \in Deployments : \A x \in Sets(e) : rsOf'[x] = e
    BY <1>1, <2>2, <2>4, <2>5, <2>6 DEF OwnInv
  <2>8. ASSUME NEW x \in inStore'
        PROVE  x \in Sets(rsOf'[x])
    <3>1. x \in ReplicaSets /\ rsOf[x] \in Deployments
      BY <1>1, <2>2, <2>3 DEF WorkTypes
    <3>2. CASE x = r
      BY <2>2, <2>4, <2>5, <3>2
    <3>3. CASE x # r
      <4>1. x \in AllReplicaSets(rsOf[x]) /\ rsOf'[x] = rsOf[x]
        BY <1>1, <2>3, <2>5, <3>1, <3>3 DEF OwnInv
      <4> QED
        BY <2>4, <3>1, <4>1
    <3> QED
      BY <3>2, <3>3
  <2> QED
    BY <2>7, <2>8 DEF OwnInv, AllReplicaSets, Sets
<1> QED
  BY <1>2, <1>3 DEF SimNext, DrainWakeups, StepRemove, StepSchedule, StepStart,
     StepAvailable, StepCrashed, Pop, EndSteps, Churnable, ChurnDelete, ChurnRestart,
     ChurnScale, EndChurn, Visit, Keep, ReconcileRemove, ReconcileCreate,
     ReconcileDelete, ReconcileKeep, FlushStatus, Write, Scale, DeleteDeployment,
     DeletePod, DeleteReplicaSet, Wake, workVars, simVars

\* The dirty sets are emptied by the end of the tick.
LEMMA DirtyStep ==
    ASSUME Core, NoticeInv, [SimNext]_simVars
    PROVE  DirtyInv'
<1>1. DirtyInv
  BY DEF NoticeInv
<1>2. CASE DrainWakeups \/ EndSteps \/ EndChurn \/ FlushStatus
  BY <1>1, <1>2 DEF DirtyInv, DrainWakeups, EndSteps, EndChurn, FlushStatus, dirtyVars
<1>3. CASE UNCHANGED <<dirtyVars, phase, todo>>
  BY <1>1, <1>3 DEF DirtyInv, dirtyVars
<1>4. CASE phase # "idle" /\ phase' = phase /\ dirtyRS \subseteq dirtyRS' /\ todo' = todo
  BY <1>1, <1>4 DEF DirtyInv
<1>5. CASE \E r \in ReplicaSets : ReconcileRemove(r) \/ Keep(r)
  BY <1>1, <1>5 DEF DirtyInv, ReconcileRemove, Keep, Visit
<1>6. CASE \E p \in Pods : StepPod(p) \/ ChurnDelete(p) \/ ChurnRestart(p)
  BY <1>4, <1>6 DEF StepPod, StepRemove, StepSchedule, StepStart, StepAvailable,
     StepCrashed, Pop, Churnable, ChurnDelete, ChurnRestart, tickVars
<1>7. CASE \E d \in Deployments, n \in 0 .. MaxReplicas : ChurnScale(d, n)
  BY <1>4, <1>7 DEF ChurnScale, tickVars
<1>8. CASE \/ UNCHANGED simVars
           \/ \E a \in Requests, d \in Deployments, n \in 0 .. MaxReplicas : Scale(a, d, n)
           \/ \E a \in Requests, d \in Deployments : Restart(a, d) \/ DeleteDeployment(a, d)
           \/ \E a \in Requests, p \in Pods : DeletePod(a, p)
           \/ \E r \in ReplicaSets : DeleteReplicaSet(r)
           \/ \E a \in Requests : Wake(a)
  BY <1>3, <1>8 DEF Scale, Restart, DeleteDeployment, DeletePod, DeleteReplicaSet, Wake,
     Write, tickVars, simVars
<1> QED
  BY <1>2, <1>5, <1>6, <1>7, <1>8 DEF SimNext, StepPod, ReconcileCreate, ReconcileDelete,
     ReconcileKeep

\* A step that announces nothing leaves what it changes marked.
LEMMA ShownKept ==
    ASSUME NoticeInv, shown' = shown, inStore' \subseteq inStore, stored' \subseteq stored,
           \A r \in inStore' : \/ r \in dirtyRS'
                               \/ /\ r \notin dirtyRS /\ SetNow(r)' = SetNow(r)
                                  /\ ScaleOwed(rsOf[r]) => ScaleOwed(rsOf[r])',
           \A d \in stored' : \/ d \in dirtyD'
                              \/ \E r \in {current'[d]} \cup old'[d] : r \in Pending'
                              \/ /\ d \notin dirtyD /\ DeployNow(d)' = DeployNow(d)
                                 /\ \A r \in AllReplicaSets(d) : r \notin Pending
    PROVE  ShownInv'
<1> DEFINE Set(r)  == shown'[r] = SetNow(r)' \/ r \in dirtyRS' \/ ScaleOwed(rsOf[r])'
           Dep(d)  == \/ shown'[d] = DeployNow(d)' \/ d \in dirtyD'
                      \/ \E r \in {current'[d]} \cup old'[d] : r \in Pending'
<1>1. ASSUME NEW r \in inStore'
      PROVE  Set(r)
  <2>1. shown[r] = SetNow(r) \/ r \in dirtyRS \/ ScaleOwed(rsOf[r])
    BY DEF NoticeInv, ShownInv
  <2> QED
    BY <2>1
<1>2. ASSUME NEW d \in stored'
      PROVE  Dep(d)
  <2>1. \/ shown[d] = DeployNow(d) \/ d \in dirtyD
        \/ \E r \in AllReplicaSets(d) : r \in Pending
    BY DEF NoticeInv, ShownInv
  <2> QED
    BY <2>1
<1>3. DOMAIN shown' = ReplicaSets \cup Deployments
  BY DEF NoticeInv, ShownInv
<1> QED
  BY <1>1, <1>2, <1>3 DEF ShownInv, AllReplicaSets

\* No step of the engine or of a client makes a status out of date unnoticed.
LEMMA ShownStep ==
    ASSUME Core, WorkInv, NoticeInv, [SimNext]_simVars
    PROVE  ShownInv'
<1>1. /\ WorkTypes /\ EngineTypes /\ OwnInv /\ DirtyInv /\ ShownInv
      /\ tab \in Tables
  BY DEF Core, SimTypeOK, PodTypes, NoticeInv
<1>2. Deployments \cap ReplicaSets = {}
  BY SimulationAssumption
<1>3. DrainWakeups \/ \A d \in Deployments : ScaleOwed(d) => ScaleOwed(d)'
  BY ScaleOwedStep
<1>4. ASSUME ~DrainWakeups, rsOf' = rsOf, NEW r \in ReplicaSets, ScaleOwed(rsOf[r])
      PROVE  ScaleOwed(rsOf[r])'
  <2>1. rsOf[r] \in Deployments
    BY <1>1 DEF WorkTypes
  <2> QED
    BY <1>3, <1>4, <2>1 DEF ScaleOwed, WakeComing
<1>5. \A d \in Deployments : /\ AllReplicaSets(d) \subseteq ReplicaSets
                             /\ AllReplicaSets(d) = {current[d]} \cup old[d]
  BY <1>1 DEF WorkTypes, AllReplicaSets
<1>6. inStore \subseteq ReplicaSets /\ stored \subseteq Deployments
  BY <1>1 DEF WorkTypes
\* Steps that change no status.
<1>7. CASE /\ ~DrainWakeups /\ SameElsewhere(tab, tab', {}) /\ Pending' = Pending
           /\ UNCHANGED <<spec, rsOf, dspec, current, old, stored, shown, dirtyVars>>
           /\ inStore' \subseteq inStore
  <2>1. /\ \A r \in ReplicaSets : SetNow(r)' = SetNow(r)
        /\ \A d \in Deployments : DeployNow(d)' = DeployNow(d)
    BY <1>5, <1>7, StatusKept
  <2>2. \A r \in inStore' : \/ r \in dirtyRS'
                            \/ /\ r \notin dirtyRS /\ SetNow(r)' = SetNow(r)
                               /\ ScaleOwed(rsOf[r]) => ScaleOwed(rsOf[r])'
    BY <1>4, <1>6, <1>7, <2>1 DEF dirtyVars
  <2>3. \A d \in stored' : \/ d \in dirtyD'
                           \/ \E r \in {current'[d]} \cup old'[d] : r \in Pending'
                           \/ /\ d \notin dirtyD /\ DeployNow(d)' = DeployNow(d)
                              /\ \A r \in AllReplicaSets(d) : r \notin Pending
    BY <1>5, <1>6, <1>7, <2>1 DEF dirtyVars
  <2> QED
    BY <1>7, <2>2, <2>3, ShownKept
<1>8. CASE DrainWakeups
  <2>1. /\ dirtyRS = {} /\ dirtyD = {} /\ Pending = {}
        /\ dirtyRS' = UNION {AllReplicaSets(d) : d \in wakeD} /\ dirtyD' = wakeD
        /\ UNCHANGED <<tab, rsOf, dspec, current, old, stored, shown, inStore, req>>
        /\ spec' = [r \in ReplicaSets |->
                     IF \E d \in wakeD : current[d] = r THEN dspec[rsOf[r]] ELSE spec[r]]
    BY <1>1, <1>8 DEF DirtyInv, DrainWakeups, Pending
  <2>2. SameElsewhere(tab, tab', {})
    BY <2>1 DEF SameElsewhere
  <2>3. ASSUME NEW r \in inStore', r \notin dirtyRS'
        PROVE  SetNow(r)' = SetNow(r) /\ (ScaleOwed(rsOf[r]) => ScaleOwed(rsOf[r])')
    <3>1. r \in ReplicaSets /\ r \in AllReplicaSets(rsOf[r]) /\ rsOf[r] \notin wakeD
      BY <1>1, <1>6, <2>1, <2>3 DEF OwnInv
    <3>2. \A d \in wakeD : current[d] # r
      BY <1>1, <3>1 DEF WorkInv, EngineTypes
    <3>3. spec'[r] = spec[r]
      BY <2>1, <3>1, <3>2
    <3> QED
      BY <2>1, <2>2, <3>1, <3>3, StatusKept DEF ScaleOwed, WakeComing
  <2>4. \A d \in stored' : DeployNow(d)' = DeployNow(d)
    BY <1>5, <1>6, <2>1, <2>2, StatusKept
  <2> QED
    BY <2>1, <2>3, <2>4, ShownKept
\* A pod's step, or churn, leaves the pod's ReplicaSet dirty.
<1>9. ASSUME NEW p \in Pods, StepPod(p) \/ ChurnDelete(p) \/ ChurnRestart(p),
             SameElsewhere(tab, tab', {tab.rs[p]})
      PROVE  ShownInv'
  <2>1. /\ phase \in {"step", "churn"} /\ phase' = phase
        /\ dirtyRS' = dirtyRS \cup {tab.rs[p]} /\ dirtyD' = dirtyD
        /\ UNCHANGED <<spec, rsOf, dspec, current, old, stored, shown, inStore>>
    BY <1>9 DEF StepPod, StepRemove, StepSchedule, StepStart, StepAvailable,
       StepCrashed, Pop, ChurnDelete, ChurnRestart, Churnable, tickVars, workVars
  <2>2. ~DrainWakeups /\ Pending' = dirtyRS' /\ Pending = dirtyRS
    BY <2>1 DEF DrainWakeups, Pending
  <2>3. ASSUME NEW r \in inStore', r \notin dirtyRS'
        PROVE  SetNow(r)' = SetNow(r) /\ (ScaleOwed(rsOf[r]) => ScaleOwed(rsOf[r])')
    BY <1>4, <1>6, <1>9, <2>1, <2>2, <2>3, StatusKept
  <2>4. ASSUME NEW d \in stored', \A r \in {current'[d]} \cup old'[d] : r \notin Pending'
        PROVE  /\ DeployNow(d)' = DeployNow(d)
               /\ \A r \in AllReplicaSets(d) : r \notin Pending
    BY <1>5, <1>6, <1>9, <2>1, <2>2, <2>4, StatusKept
  <2> QED
    BY <2>1, <2>3, <2>4, ShownKept
<1>10. ASSUME NEW d \in Deployments, NEW n \in 0 .. MaxReplicas, ChurnScale(d, n)
       PROVE  ShownInv'
  <2>1. /\ phase = "churn" /\ phase' = phase
        /\ dirtyRS' = dirtyRS \cup {current[d]} /\ dirtyD' = dirtyD \cup {d}
        /\ dspec' = [dspec EXCEPT ![d] = n] /\ spec' = [spec EXCEPT ![current[d]] = n]
        /\ UNCHANGED <<tab, rsOf, current, old, stored, shown, inStore>>
    BY <1>10 DEF ChurnScale, podVars, tickVars
  <2>2. ~DrainWakeups /\ Pending' = dirtyRS' /\ Pending = dirtyRS
    BY <2>1 DEF DrainWakeups, Pending
  <2>3. SameElsewhere(tab, tab', {})
    BY <2>1 DEF SameElsewhere
  <2>4. ASSUME NEW r \in inStore', r \notin dirtyRS'
        PROVE  SetNow(r)' = SetNow(r) /\ (ScaleOwed(rsOf[r]) => ScaleOwed(rsOf[r])')
    <3>1. r \in ReplicaSets /\ spec'[r] = spec[r]
      BY <1>1, <1>6, <2>1, <2>4 DEF WorkTypes
    <3> QED
      BY <1>4, <2>1, <2>2, <2>3, <3>1, StatusKept
  <2>5. ASSUME NEW e \in stored', e \notin dirtyD',
               \A r \in {current'[e]} \cup old'[e] : r \notin Pending'
        PROVE  /\ DeployNow(e)' = DeployNow(e)
               /\ \A r \in AllReplicaSets(e) : r \notin Pending
    <3>1. e \in Deployments /\ dspec'[e] = dspec[e]
      BY <1>1, <1>6, <2>1, <2>5 DEF WorkTypes
    <3> QED
      BY <1>5, <2>1, <2>2, <2>3, <2>5, <3>1, StatusKept
  <2> QED
    BY <2>1, <2>4, <2>5, ShownKept
\* An emptied ReplicaSet of a deleted Deployment: neither is listed any more.
<1>11. ASSUME NEW r \in ReplicaSets, ReconcileRemove(r)
       PROVE  ShownInv'
  <2>1. /\ phase = "reconcile" /\ phase' = phase /\ todo' = todo \ {r}
        /\ dirtyRS' = dirtyRS \ {r} /\ dirtyD' = dirtyD \ {rsOf[r]}
        /\ inStore' = inStore \ {r} /\ rsOf[r] \in deleting
        /\ spec' = [spec EXCEPT ![r] = 0]
        /\ UNCHANGED <<tab, rsOf, dspec, current, old, stored, shown>>
    BY <1>11 DEF ReconcileRemove, Visit, Doomed, podVars
  <2>2. ~DrainWakeups /\ Pending' = todo' /\ Pending = todo
    BY <2>1 DEF DrainWakeups, Pending
  <2>3. SameElsewhere(tab, tab', {})
    BY <2>1 DEF SameElsewhere
  <2>4. ASSUME NEW x \in inStore', x \notin dirtyRS'
        PROVE  /\ SetNow(x)' = SetNow(x) /\ x \notin dirtyRS
               /\ ScaleOwed(rsOf[x]) => ScaleOwed(rsOf[x])'
    <3>1. x \in ReplicaSets /\ x # r /\ spec'[x] = spec[x]
      BY <1>1, <1>6, <2>1, <2>4 DEF WorkTypes
    <3> QED
      BY <1>4, <2>1, <2>2, <2>3, <2>4, <3>1, StatusKept
  <2>5. ASSUME NEW d \in stored', d \notin dirtyD',
               \A x \in {current'[d]} \cup old'[d] : x \notin Pending'
        PROVE  /\ DeployNow(d)' = DeployNow(d) /\ d \notin dirtyD
               /\ \A x \in AllReplicaSets(d) : x \notin Pending
    <3>1. d \in Deployments /\ d # rsOf[r]
      BY <1>6, <2>1, <2>5 DEF WorkInv
    <3>2. r \notin AllReplicaSets(d)
      BY <1>1, <3>1 DEF OwnInv
    <3> QED
      BY <1>5, <2>1, <2>2, <2>3, <2>5, <3>1, <3>2, StatusKept
  <2> QED
    BY <2>1, <2>4, <2>5, ShownKept
\* Every other dirty ReplicaSet leaves its Deployment dirty.
<1>12. ASSUME NEW r \in ReplicaSets, Keep(r), SameElsewhere(tab, tab', {r})
       PROVE  ShownInv'
  <2>1. /\ phase = "reconcile" /\ phase' = phase /\ todo' = todo \ {r} /\ r \in todo
        /\ dirtyRS' = dirtyRS /\ dirtyD' = dirtyD \cup {rsOf[r]}
        /\ spec' = [spec EXCEPT ![r] = Wanted(r)]
        /\ UNCHANGED <<rsOf, dspec, current, old, stored, shown, inStore>>
    BY <1>12 DEF Keep, Visit
  <2>2. ~DrainWakeups /\ Pending' = todo' /\ Pending = todo /\ r \in dirtyRS
    BY <1>1, <2>1 DEF DrainWakeups, Pending, DirtyInv
  <2>3. ASSUME NEW x \in inStore', x \notin dirtyRS'
        PROVE  SetNow(x)' = SetNow(x) /\ (ScaleOwed(rsOf[x]) => ScaleOwed(rsOf[x])')
    <3>1. x \in ReplicaSets /\ x # r /\ spec'[x] = spec[x]
      BY <1>1, <1>6, <2>1, <2>2, <2>3 DEF WorkTypes
    <3> QED
      BY <1>4, <1>12, <2>1, <2>2, <3>1, StatusKept
  <2>4. ASSUME NEW d \in stored', d \notin dirtyD',
               \A x \in {current'[d]} \cup old'[d] : x \notin Pending'
        PROVE  /\ DeployNow(d)' = DeployNow(d)
               /\ \A x \in AllReplicaSets(d) : x \notin Pending
    <3>1. d \in Deployments /\ d # rsOf[r]
      BY <1>6, <2>1, <2>4
    <3>2. r \notin AllReplicaSets(d)
      BY <1>1, <3>1 DEF OwnInv
    <3> QED
      BY <1>5, <1>12, <2>1, <2>2, <2>4, <3>1, <3>2, StatusKept
  <2> QED
    BY <2>1, <2>3, <2>4, ShownKept
\* The end of the tick announces what is marked.
<1>13. CASE FlushStatus
  <2>1. /\ todo = {} /\ phase = "reconcile" /\ dirtyRS' = {} /\ dirtyD' = {}
        /\ shown' = [x \in DOMAIN shown |-> CASE x \in dirtyRS -> SetNow(x)
                                              [] x \in dirtyD -> DeployNow(x)
                                              [] OTHER -> shown[x]]
        /\ UNCHANGED <<tab, spec, rsOf, inStore, dspec, current, old, stored, wakeVars>>
    BY <1>13 DEF FlushStatus, podVars
  <2>2. SameElsewhere(tab, tab', {}) /\ ~DrainWakeups /\ Pending = {}
    BY <2>1 DEF SameElsewhere, DrainWakeups, Pending
  <2>3. ASSUME NEW x \in ReplicaSets \cup Deployments
        PROVE  shown'[x] = IF x \in dirtyRS THEN SetNow(x)
                           ELSE IF x \in dirtyD THEN DeployNow(x) ELSE shown[x]
    <3>1. x \in DOMAIN shown
      BY <1>1 DEF ShownInv
    <3>2. shown'[x] = CASE x \in dirtyRS -> SetNow(x)
                        [] x \in dirtyD -> DeployNow(x)
                        [] OTHER -> shown[x]
      BY <2>1, <3>1
    <3>3. CASE x \notin dirtyRS \/ x \notin dirtyD
      BY <3>2, <3>3
    <3>4. CASE x \in dirtyRS /\ x \in dirtyD
      BY <1>1, <1>2, <3>4 DEF EngineTypes
    <3> QED
      BY <3>3, <3>4
  <2>4. /\ \A r \in ReplicaSets : SetNow(r)' = SetNow(r)
        /\ \A d \in Deployments : DeployNow(d)' = DeployNow(d)
    BY <1>5, <2>1, <2>2, StatusKept
  <2>5. ASSUME NEW r \in inStore'
        PROVE  shown'[r] = SetNow(r)' \/ ScaleOwed(rsOf[r])'
    <3>1. r \in inStore /\ r \in ReplicaSets /\ r \notin dirtyD
      BY <1>1, <1>2, <1>6, <2>1 DEF EngineTypes
    <3>2. \/ shown'[r] = SetNow(r)
          \/ shown'[r] = shown[r] /\ (shown[r] = SetNow(r) \/ ScaleOwed(rsOf[r]))
      BY <1>1, <2>3, <3>1 DEF ShownInv
    <3> QED
      BY <1>4, <2>1, <2>2, <2>4, <3>1, <3>2
  <2>6. ASSUME NEW d \in stored'
        PROVE  shown'[d] = DeployNow(d)'
    <3>1. d \in stored /\ d \in Deployments /\ d \notin dirtyRS
      BY <1>1, <1>2, <1>6, <2>1 DEF EngineTypes
    <3>2. shown'[d] = DeployNow(d)
      BY <1>1, <2>2, <2>3, <3>1 DEF ShownInv
    <3> QED
      BY <2>4, <3>1, <3>2
  <2>7. DOMAIN shown' = ReplicaSets \cup Deployments
    BY <1>1, <2>1 DEF ShownInv
  <2> QED
    BY <2>5, <2>6, <2>7 DEF ShownInv
\* Between ticks nothing is marked.
<1>14. phase = "idle" => dirtyRS = {} /\ dirtyD = {} /\ Pending = {}
  BY <1>1 DEF DirtyInv, Pending
<1>15. ASSUME NEW a \in Requests, NEW d \in Deployments, NEW n \in 0 .. MaxReplicas,
              Scale(a, d, n)
       PROVE  ShownInv'
  <2>1. /\ phase = "idle" /\ dspec' = [dspec EXCEPT ![d] = n]
        /\ shown' = [shown EXCEPT ![d] = DeployStatus(tab, n, current[d], old[d])]
        /\ UNCHANGED <<tab, spec, rsOf, inStore, current, old, stored>>
    BY <1>15 DEF Scale, Write, podVars
  <2>2. SameElsewhere(tab, tab', {}) /\ ~DrainWakeups
    BY <1>15, <2>1 DEF SameElsewhere, DrainWakeups, Scale, Write, tickVars
  <2>3. \A x \in ReplicaSets \cup Deployments :
            shown'[x] = IF x = d THEN DeployStatus(tab, n, current[d], old[d]) ELSE shown[x]
    BY <1>1, <2>1 DEF ShownInv
  <2>4. ASSUME NEW r \in inStore'
        PROVE  shown'[r] = SetNow(r)' \/ ScaleOwed(rsOf[r])'
    <3>1. r \in inStore /\ r \in ReplicaSets /\ r # d
      BY <1>2, <1>6, <2>1
    <3>2. SetNow(r)' = SetNow(r)
      BY <2>1, <2>2, <3>1, StatusKept
    <3>3. shown[r] = SetNow(r) \/ ScaleOwed(rsOf[r])
      BY <1>1, <1>14, <2>1, <3>1 DEF ShownInv
    <3> QED
      BY <1>4, <2>1, <2>2, <2>3, <3>1, <3>2, <3>3
  <2>5. ASSUME NEW e \in stored'
        PROVE  shown'[e] = DeployNow(e)'
    <3>1. e \in stored /\ e \in Deployments
      BY <1>6, <2>1
    <3>2. CASE e = d
      <4>1. dspec'[d] = n
        BY <1>1, <2>1 DEF WorkTypes
      <4> QED
        BY <2>1, <2>3, <3>1, <3>2, <4>1 DEF DeployNow
    <3>3. CASE e # d
      <4>1. dspec'[e] = dspec[e]
        BY <1>1, <2>1, <3>1, <3>3 DEF WorkTypes
      <4>2. DeployNow(e)' = DeployNow(e)
        BY <1>5, <2>1, <2>2, <3>1, <4>1, StatusKept
      <4>3. shown[e] = DeployNow(e)
        BY <1>1, <1>14, <2>1, <3>1 DEF ShownInv
      <4> QED
        BY <2>3, <3>1, <3>3, <4>2, <4>3
    <3> QED
      BY <3>2, <3>3
  <2>6. DOMAIN shown' = ReplicaSets \cup Deployments
    BY <1>1, <2>1 DEF ShownInv
  <2> QED
    BY <2>4, <2>5, <2>6 DEF ShownInv
\* The ReplicaSet that is superseded is announced by the tick that is owed.
<1>16. ASSUME NEW a \in Requests, NEW d \in Deployments, Restart(a, d)
       PROVE  ShownInv'
  <2>1. PICK r \in Unused :
          /\ NewRevision(d, r)
          /\ shown' = [shown EXCEPT
                ![d] = DeployStatus(tab, dspec[d], r, old[d] \cup {current[d]}),
                ![r] = SetStatus(tab, dspec[d], r)]
    BY <1>16 DEF Restart
  <2>2. /\ phase = "idle" /\ req' = [req EXCEPT ![a] = OweD(d)]
        /\ UNCHANGED <<tab, dspec, stored>>
    BY <1>16 DEF Restart, Write, podVars
  <2>3. /\ r \in ReplicaSets /\ r # d
        /\ \A e \in Deployments : r \notin AllReplicaSets(e)
    BY <1>2 DEF Unused
  <2>4. SameElsewhere(tab, tab', {}) /\ ~DrainWakeups
    BY <1>16, <2>2 DEF SameElsewhere, DrainWakeups, Restart, Write, tickVars
  <2>5. ScaleOwed(d)'
    BY <1>1, <2>2 DEF EngineTypes, ScaleOwed, WakeComing
  <2>6. /\ \A x \in ReplicaSets :
             /\ spec'[x] = IF x = r THEN dspec[d] ELSE IF x = current[d] THEN 0 ELSE spec[x]
             /\ rsOf'[x] = IF x = r THEN d ELSE rsOf[x]
        /\ inStore' = inStore \cup {r}
    BY <1>1, <2>1, <2>3 DEF NewRevision, WorkTypes
  <2>7. \A e \in Deployments :
            /\ current'[e] = IF e = d THEN r ELSE current[e]
            /\ old'[e] = IF e = d THEN old[d] \cup {current[d]} ELSE old[e]
    BY <1>1, <2>1 DEF NewRevision, WorkTypes
  <2>8. \A x \in ReplicaSets \cup Deployments :
            shown'[x] = IF x = r THEN SetStatus(tab, dspec[d], r)
                        ELSE IF x = d
                        THEN DeployStatus(tab, dspec[d], r, old[d] \cup {current[d]})
                        ELSE shown[x]
    BY <1>1, <2>1, <2>3 DEF ShownInv
  <2>9. ASSUME NEW x \in inStore'
        PROVE  shown'[x] = SetNow(x)' \/ ScaleOwed(rsOf[x])'
    <3>1. CASE x = r
      BY <2>2, <2>3, <2>6, <2>8, <3>1 DEF SetNow
    <3>2. ASSUME x # r
          PROVE  x \in inStore /\ x \in ReplicaSets /\ x # d /\ rsOf'[x] = rsOf[x]
      BY <1>2, <1>6, <2>6, <3>2
    <3>3. CASE x = current[d] /\ x # r
      <4>1. rsOf'[x] = d
        BY <3>2, <3>3 DEF WorkInv
      <4> QED
        BY <2>5, <4>1 DEF ScaleOwed, WakeComing
    <3>4. CASE x # current[d] /\ x # r
      <4>1. SetNow(x)' = SetNow(x)
        BY <2>4, <2>6, <3>2, <3>4, StatusKept
      <4>2. shown[x] = SetNow(x) \/ ScaleOwed(rsOf[x])
        BY <1>1, <1>14, <2>2, <3>2, <3>4 DEF ShownInv
      <4>3. ScaleOwed(rsOf[x]) => ScaleOwed(rsOf[x])'
        <5>1. rsOf[x] \in Deployments
          BY <1>1, <3>2, <3>4 DEF WorkTypes
        <5> QED
          BY <1>3, <2>4, <3>2, <3>4, <5>1 DEF ScaleOwed, WakeComing
      <4> QED
        BY <2>8, <3>2, <3>4, <4>1, <4>2, <4>3
    <3> QED
      BY <3>1, <3>3, <3>4
  <2>10. ASSUME NEW e \in stored'
         PROVE  shown'[e] = DeployNow(e)'
    <3>1. e \in stored /\ e \in Deployments /\ e # r
      BY <1>2, <1>6, <2>2, <2>3
    <3>2. CASE e = d
      BY <2>2, <2>7, <2>8, <3>1, <3>2 DEF DeployNow
    <3>3. CASE e # d
      <4>1. DeployNow(e)' = DeployNow(e)
        BY <1>5, <2>2, <2>4, <2>7, <3>1, <3>3, StatusKept
      <4>2. shown[e] = DeployNow(e)
        BY <1>1, <1>14, <2>2, <3>1 DEF ShownInv
      <4> QED
        BY <2>8, <3>1, <3>3, <4>1, <4>2
    <3> QED
      BY <3>2, <3>3
  <2>11. DOMAIN shown' = ReplicaSets \cup Deployments
    BY <1>1, <2>1 DEF ShownInv
  <2> QED
    BY <2>9, <2>10, <2>11 DEF ShownInv
<1>17. ASSUME NEW a \in Requests, NEW d \in Deployments, DeleteDeployment(a, d)
       PROVE  ShownInv'
  <2>1. /\ phase = "idle" /\ dspec' = [dspec EXCEPT ![d] = 0] /\ stored' = stored \ {d}
        /\ UNCHANGED <<tab, spec, rsOf, inStore, current, old, shown, dirtyVars>>
    BY <1>17 DEF DeleteDeployment, Write, podVars
  <2>2. SameElsewhere(tab, tab', {}) /\ ~DrainWakeups
    BY <1>17, <2>1 DEF SameElsewhere, DrainWakeups, DeleteDeployment, Write, tickVars
  <2>3. \A r \in inStore' : SetNow(r)' = SetNow(r) /\ (ScaleOwed(rsOf[r]) => ScaleOwed(rsOf[r])')
    BY <1>4, <1>6, <2>1, <2>2, StatusKept
  <2>4. ASSUME NEW e \in stored'
        PROVE  DeployNow(e)' = DeployNow(e)
    <3>1. e \in Deployments /\ dspec'[e] = dspec[e]
      BY <1>1, <1>6, <2>1 DEF WorkTypes
    <3> QED
      BY <1>5, <2>1, <2>2, <3>1, StatusKept
  <2> QED
    BY <1>14, <2>1, <2>3, <2>4, ShownKept
<1>18. CASE \/ EndSteps \/ EndChurn \/ UNCHANGED simVars
            \/ \E a \in Requests : Wake(a)
            \/ \E r \in ReplicaSets : DeleteReplicaSet(r)
  <2>1. SameElsewhere(tab, tab', {})
    BY <1>18 DEF EndSteps, EndChurn, Wake, DeleteReplicaSet, podVars, simVars, SameElsewhere
  <2>2. /\ Pending' = Pending
        /\ UNCHANGED <<spec, rsOf, dspec, current, old, stored, shown, dirtyVars>>
        /\ inStore' \subseteq inStore
    BY <1>18 DEF EndSteps, EndChurn, Wake, DeleteReplicaSet, workVars, simVars, Pending,
       dirtyVars, tickVars
  <2>3. CASE DrainWakeups
    BY <1>8, <2>3
  <2> QED
    BY <1>7, <2>1, <2>2, <2>3
<1>19. ASSUME NEW a \in Requests, NEW p \in Pods, DeletePod(a, p)
       PROVE  ShownInv'
  <2>1. /\ Pending' = Pending /\ phase' = "idle"
        /\ UNCHANGED <<spec, rsOf, dspec, current, old, stored, shown, inStore, dirtyVars>>
    BY <1>19 DEF DeletePod, Write, workVars, Pending, dirtyVars, tickVars
  <2>2. ~DrainWakeups
    BY <2>1 DEF DrainWakeups
  <2>3. SameElsewhere(tab, tab', {})
    BY <1>1, <1>19, CountersOfOne DEF DeletePod, PodStates
  <2> QED
    BY <1>7, <2>1, <2>2, <2>3
<1>20. ASSUME NEW r \in ReplicaSets, ReconcileKeep(r)
       PROVE  ShownInv'
  <2>1. SameElsewhere(tab, tab', {r})
    BY <1>20 DEF ReconcileKeep, podVars, SameElsewhere
  <2> QED
    BY <1>12, <1>20, <2>1 DEF ReconcileKeep
<1>21. ASSUME NEW r \in ReplicaSets, ReconcileCreate(r) \/ ReconcileDelete(r)
       PROVE  ShownInv'
  <2>1. SameElsewhere(tab, tab', {r})
    BY <1>21, ReconcileCounters
  <2> QED
    BY <1>12, <1>21, <2>1 DEF ReconcileCreate, ReconcileDelete
<1>22. ASSUME NEW p \in Pods, StepPod(p) \/ ChurnDelete(p) \/ ChurnRestart(p)
       PROVE  ShownInv'
  BY <1>9, <1>22, PodCounters
<1> QED
  BY <1>8, <1>10, <1>11, <1>13, <1>15, <1>16, <1>17, <1>18, <1>19, <1>20, <1>21, <1>22
  DEF SimNext, StepPod

\* The engine's and the clients' announcements hold in every state.
LEMMA NoticesAlways == SimSpec => []NoticeInv
<1>1. Core /\ WorkInv /\ NoticeInv /\ [SimNext]_simVars => (Core /\ WorkInv /\ NoticeInv)'
  BY CoreStep, WorkInvStep, OwnStep, DirtyStep, ShownStep DEF NoticeInv
<1> QED
  BY <1>1, BuiltCore, BuiltWork, BuiltNotices, PTL DEF SimSpec

\* Between ticks, every listed ReplicaSet and Deployment was last announced with
\* the status it has, or the wakeup after which it is announced is on its way.
THEOREM StatusesAreAnnounced == SimSpec => []StatusIsAnnounced
<1>1. NoticeInv => StatusIsAnnounced
  BY DEF NoticeInv, DirtyInv, ShownInv, StatusIsAnnounced, ScaleOwed, Pending
<1> QED
  BY <1>1, NoticesAlways, PTL
=============================================================================
