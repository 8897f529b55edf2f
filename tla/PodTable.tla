------------------------------- MODULE PodTable -------------------------------
(***************************************************************************)
(* The pods of the cluster and the counters kept beside them               *)
(* (internal/cluster/cluster.go, the Tx methods on pods, and the           *)
(* ReplicaSet bookkeeping of types.go).                                    *)
(*                                                                         *)
(* Status is counted, never scanned: every operation updates the counters  *)
(* itself.  An operation is an operator from a table c to the next table,  *)
(* so that a transaction composes them the way the code calls them.  Pods  *)
(* whose flag is set are kept as a set: live (in the store, not Dead),     *)
(* avail, deleted (a deletionTimestamp is set), sched (bound to a node).   *)
(***************************************************************************)
EXTENDS Integers, FiniteSets

CONSTANTS
    Pods,         \* identities of *Pod values; one that is dead and that
                  \* nothing refers to stands for the next new pod
    ReplicaSets,
    Nodes

ASSUME PodTableAssumption ==
    /\ IsFiniteSet(Pods)
    /\ ReplicaSets # {} /\ Nodes # {}

\* One state of each class the lifecycle treats alike: OOMKilled goes with
\* CrashLoopBackOff, ErrImagePull with ImagePullBackOff, the rest with Error.
PodStates == {"Pending", "ContainerCreating", "Running", "CrashLoopBackOff",
              "ImagePullBackOff", "Error"}

Ready(s) == s = "Running"

Notices == {"none", "ADDED", "MODIFIED", "DELETED"}

\* What the counters are meant to count.
PodsOf(c, r)    == {p \in c.live : c.rs[p] = r}
ReadyOf(c, r)   == {p \in PodsOf(c, r) : Ready(c.state[p])}
AvailOf(c, r)   == PodsOf(c, r) \cap c.avail
EndingOf(c, r)  == PodsOf(c, r) \cap c.deleted
InState(c, s)   == {p \in c.live : c.state[p] = s}
OnNode(c, n)    == {p \in c.live \cap c.sched : c.node[p] = n}

Active(c, r) == c.total[r] - c.terminating[r]

-----------------------------------------------------------------------------
\* AddPod, for each pod of N: new, Pending, not bound, owned by r.
AddPods(c, N, r, nodeOf) ==
    [c EXCEPT
        !.live = @ \cup N,
        !.avail = @ \ N,
        !.deleted = @ \ N,
        !.sched = @ \ N,
        !.rs = [p \in Pods |-> IF p \in N THEN r ELSE @[p]],
        !.state = [p \in Pods |-> IF p \in N THEN "Pending" ELSE @[p]],
        !.node = [p \in Pods |-> IF p \in N THEN nodeOf[p] ELSE @[p]],
        !.said = [p \in Pods |-> IF p \in N THEN "ADDED" ELSE @[p]],
        !.total[r] = @ + Cardinality(N),
        !.count["Pending"] = @ + Cardinality(N)]

\* AddPod, for every pod of the initial build, already in its steady state:
\* rs, state and node are functions on the set of pods built.
BuildPods(rs, state, node, avail) ==
    LET B == DOMAIN state
        sched == {p \in B : state[p] # "Pending"}
        Fill(f, x) == [p \in Pods |-> IF p \in B THEN f[p] ELSE x]
        Any(S) == CHOOSE x \in S : TRUE
    IN [live |-> B, avail |-> avail, deleted |-> {}, sched |-> sched,
        rs |-> Fill(rs, Any(ReplicaSets)), state |-> Fill(state, "Error"),
        node |-> Fill(node, Any(Nodes)), said |-> [p \in Pods |-> "none"],
        total |-> [r \in ReplicaSets |-> Cardinality({p \in B : rs[p] = r})],
        ready |-> [r \in ReplicaSets |->
                    Cardinality({p \in B : rs[p] = r /\ Ready(state[p])})],
        available |-> [r \in ReplicaSets |->
                        Cardinality({p \in avail : rs[p] = r})],
        terminating |-> [r \in ReplicaSets |-> 0],
        count |-> [s \in PodStates |-> Cardinality({p \in B : state[p] = s})],
        ending |-> 0,
        nodePods |-> [n \in Nodes |-> Cardinality({p \in sched : node[p] = n})]]

TouchPod(c, p) == [c EXCEPT !.said[p] = "MODIFIED"]

\* Fault: the available counter is not taken back.
ChangeStateKeepingCount(c, p, s) ==
    LET r    == c.rs[p]
        lost == Ready(c.state[p]) /\ ~Ready(s)
        won  == ~Ready(c.state[p]) /\ Ready(s)
    IN [c EXCEPT
        !.state[p] = s,
        !.count[c.state[p]] = @ - 1, !.count[s] = @ + 1,
        !.ready[r] = @ + (IF won THEN 1 ELSE 0) - (IF lost THEN 1 ELSE 0),
        !.avail = IF lost THEN @ \ {p} ELSE @]

\* SetPodState, when the state changes: a pod that stops being ready also
\* stops being available.
ChangeState(c, p, s) ==
    LET r    == c.rs[p]
        lost == Ready(c.state[p]) /\ ~Ready(s)
        won  == ~Ready(c.state[p]) /\ Ready(s)
    IN [c EXCEPT
        !.state[p] = s,
        !.count = [x \in PodStates |->
                    @[x] + (IF x = s THEN 1 ELSE 0)
                         - (IF x = c.state[p] THEN 1 ELSE 0)],
        !.ready[r] = @ + (IF won THEN 1 ELSE 0) - (IF lost THEN 1 ELSE 0),
        !.available[r] = @ - (IF lost /\ p \in c.avail THEN 1 ELSE 0),
        !.avail = IF lost THEN @ \ {p} ELSE @]

SetPodState(c, p, s) == IF c.state[p] = s THEN c ELSE ChangeState(c, p, s)

MarkPodAvailable(c, p) ==
    IF p \in c.avail \/ ~Ready(c.state[p])
    THEN c
    ELSE [c EXCEPT !.avail = @ \cup {p}, !.available[c.rs[p]] = @ + 1]

SchedulePod(c, p) ==
    IF p \in c.sched
    THEN c
    ELSE [c EXCEPT !.sched = @ \cup {p}, !.nodePods[c.node[p]] = @ + 1]

\* Fault: a pod that is terminating already is counted again.
MarkPodTerminatingTwice(c, p) ==
    [c EXCEPT !.deleted = @ \cup {p},
              !.terminating[c.rs[p]] = @ + 1,
              !.ending = @ + 1,
              !.said[p] = "MODIFIED"]

MarkPodTerminating(c, p) ==
    IF p \in c.deleted
    THEN c
    ELSE [c EXCEPT !.deleted = @ \cup {p},
                   !.terminating[c.rs[p]] = @ + 1,
                   !.ending = @ + 1,
                   !.said[p] = "MODIFIED"]

\* MarkPodTerminating for each of several pods of r not yet terminating.
MarkAllTerminating(c, V, r) ==
    [c EXCEPT !.deleted = @ \cup V,
              !.terminating[r] = @ + Cardinality(V),
              !.ending = @ + Cardinality(V),
              !.said = [p \in Pods |-> IF p \in V THEN "MODIFIED" ELSE @[p]]]

RemovePod(c, p) ==
    IF p \notin c.live
    THEN c
    ELSE LET r == c.rs[p]
             One(b) == IF b THEN 1 ELSE 0
         IN [c EXCEPT
                !.live = @ \ {p},
                !.total[r] = @ - 1,
                !.ready[r] = @ - One(Ready(c.state[p])),
                !.available[r] = @ - One(p \in c.avail),
                !.terminating[r] = @ - One(p \in c.deleted),
                !.count[c.state[p]] = @ - 1,
                !.ending = @ - One(p \in c.deleted),
                !.nodePods[c.node[p]] =
                    @ - One(p \in c.sched /\ c.nodePods[c.node[p]] > 0),
                !.said[p] = "DELETED"]

-----------------------------------------------------------------------------
\* Types of a table.
Tables ==
    [live : SUBSET Pods, avail : SUBSET Pods, deleted : SUBSET Pods,
     sched : SUBSET Pods, rs : [Pods -> ReplicaSets], state : [Pods -> PodStates],
     node : [Pods -> Nodes], said : [Pods -> Notices],
     total : [ReplicaSets -> Int], ready : [ReplicaSets -> Int],
     available : [ReplicaSets -> Int], terminating : [ReplicaSets -> Int],
     count : [PodStates -> Int], ending : Int, nodePods : [Nodes -> Int]]

\* README 203-205: the counters of every ReplicaSet, pod state and node are
\* what a scan of the pods would find.
ReplicaSetCounters(c) ==
    \A r \in ReplicaSets :
        /\ c.total[r] = Cardinality(PodsOf(c, r))
        /\ c.ready[r] = Cardinality(ReadyOf(c, r))
        /\ c.available[r] = Cardinality(AvailOf(c, r))
        /\ c.terminating[r] = Cardinality(EndingOf(c, r))

ClusterCounters(c) ==
    /\ \A s \in PodStates : c.count[s] = Cardinality(InState(c, s))
    /\ c.ending = Cardinality(c.live \cap c.deleted)
    /\ \A n \in Nodes : c.nodePods[n] = Cardinality(OnNode(c, n))

\* An available pod is a ready one (types.go: Avail, "has been ready for
\* longer than minReadySeconds").
AvailIsReady(c) == \A p \in c.live \cap c.avail : Ready(c.state[p])
=============================================================================
