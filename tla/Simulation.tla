------------------------------ MODULE Simulation ------------------------------
(***************************************************************************)
(* The simulation engine (internal/simulate/engine.go) and the API         *)
(* handlers that change workloads (internal/apiserver/write.go), over the  *)
(* pod table and the Deployment / ReplicaSet objects of internal/cluster.  *)
(*                                                                         *)
(* The engine's tick is one write transaction: drain the wakeups, step the *)
(* due pods, churn, reconcile the dirty ReplicaSets, flush statuses.  Each *)
(* of these is an action of its own here; while phase # "idle" the engine  *)
(* holds the cluster lock, so no API write runs.  An API request is two    *)
(* steps: its write transaction, and the wakeup it hands to the engine     *)
(* after it released the lock.  (A wakeup that arrives in mid-tick is read *)
(* by the next tick only, so it is placed after the tick.)                 *)
(*                                                                         *)
(* Time is abstracted: a pod of next has a NextStep, a pod of queued has a *)
(* work-queue entry for exactly that NextStep (an entry for an earlier one *)
(* is skipped by the code and not represented), and any queued pod may be  *)
(* due.  Generation and ObservedGeneration are abstracted to whether they  *)
(* are equal.                                                              *)
(***************************************************************************)
EXTENDS PodTable, Functions

CONSTANTS
    Deployments,
    Requests,      \* API request goroutines
    Targets,       \* states new pods may head for
    MaxReplicas,   \* bound on spec.replicas values
    StepBudget,    \* lifecycle transitions per tick
    CreateBudget,  \* maxCreatesPerTick
    MaxOps,        \* bound on API writes and churn operations
    ScaleNum, ScaleDen,   \* ScaleFactor, the fraction ScaleNum / ScaleDen
    InitRS,        \* InitRS[d]: the current ReplicaSet d is built with
    InitPods,      \* InitPods[d]: the pods d is built with
    InitStates,    \* states they are built in
    InitAvail      \* whether a Running one is built available

ASSUME SimulationAssumption ==
    /\ Deployments # {} /\ Deployments \cap ReplicaSets = {}
    /\ InitRS \in [Deployments -> ReplicaSets]
    /\ \A d, e \in Deployments : InitRS[d] = InitRS[e] => d = e
    /\ InitPods \in [Deployments -> SUBSET Pods]
    /\ Targets \subseteq PodStates
    /\ InitStates \subseteq PodStates
    /\ InitAvail \subseteq BOOLEAN
    /\ MaxReplicas \in Nat
    /\ StepBudget \in Nat \ {0}
    /\ CreateBudget \in Nat \ {0}
    /\ MaxOps \in Nat
    /\ ScaleNum \in Nat \ {0} /\ ScaleDen \in Nat \ {0}

VARIABLES
    tab,       \* the pod table
    next,      \* pods with NextStep # 0
    queued,    \* pods with a work-queue entry for their NextStep
    target,    \* p.Target
    spec,      \* rs.SpecReplicas
    rsOf,      \* rs.Deploy
    inStore,   \* ReplicaSets in the store
    dspec,     \* d.SpecReplicas
    current,   \* d.Current
    old,       \* d.Old, as a set
    deleting,  \* d.Deleting
    stored,    \* Deployments in the store
    observed,  \* Deployments whose ObservedGeneration is their Generation
    said,      \* history: last notice about each Deployment and ReplicaSet
    shown,     \* history: the status that notice carried
    dirtyRS, dirtyD,   \* the engine's dirty sets
    wakeD, wakePods,   \* wakeups waiting for the next tick
    req,       \* req[a]: the wakeup request a still owes the engine
    phase,     \* where the tick is
    steps,     \* lifecycle budget left in this tick
    creates,   \* creation budget left in this tick
    todo,      \* dirty ReplicaSets reconcile has yet to visit
    ops        \* API and churn operations so far

podVars  == <<tab, next, queued, target>>
workVars == <<spec, rsOf, inStore, dspec, current, old, deleting, stored,
              observed, said, shown>>
dirtyVars == <<dirtyRS, dirtyD>>
wakeVars == <<wakeD, wakePods, req>>
tickVars == <<phase, steps, creates, todo>>
simVars  == <<podVars, workVars, dirtyVars, wakeVars, tickVars, ops>>

Idle   == [kind |-> "none"]
OweD(d) == [kind |-> "deployment", of |-> d]
OweP(p) == [kind |-> "pod", of |-> p]

AllReplicaSets(d) == {current[d]} \cup old[d]

\* ReplicaSet.Render: the status a notice about r carries, given table t and
\* replica count n.
SetStatus(t, n, r) ==
    [spec |-> n, replicas |-> t.total[r], ready |-> t.ready[r],
     available |-> t.available[r], failing |-> n > 0 /\ t.total[r] < n]

\* Deployment.status, given its ReplicaSets.
DeployStatus(t, n, cur, others) ==
    LET Sum(count) == SumFunction([r \in {cur} \cup others |-> count[r]])
        avail == Sum(t.available)
    IN [spec |-> n, replicas |-> Sum(t.total), updated |-> t.total[cur],
        ready |-> Sum(t.ready), available |-> avail,
        unavailable |-> IF avail < n THEN n - avail ELSE 0,
        up |-> avail > 0 \/ n <= 0]

SetNow(r)    == SetStatus(tab, spec[r], r)
DeployNow(d) == DeployStatus(tab, dspec[d], current[d], old[d])

\* Pod identities nothing refers to.
Free == {p \in Pods \ tab.live :
            p \notin wakePods /\ \A a \in Requests : req[a] # OweP(p)}

\* ReplicaSet identities not used yet.
Unused == ReplicaSets \ UNION {AllReplicaSets(d) : d \in Deployments}

-----------------------------------------------------------------------------
(* The built cluster (generate.go: Build; engine.go: Prime).               *)

\* Settled pods with a timer: newPodLocked with settled = true.
HasTimer(s) == s \in {"CrashLoopBackOff", "ContainerCreating"}

InitSets == {InitRS[d] : d \in Deployments}
Built == UNION {InitPods[d] : d \in Deployments}

SimInit ==
    /\ \E st \in [Built -> InitStates], av \in [Built -> InitAvail],
          nd \in [Built -> Nodes] :
        LET owner == [p \in Built |-> CHOOSE d \in Deployments : p \in InitPods[d]]
            rs    == [p \in Built |-> InitRS[owner[p]]]
            avail == {p \in Built : Ready(st[p]) /\ av[p]}
        IN /\ tab = BuildPods(rs, st, nd, avail)
           /\ next = {p \in Built : HasTimer(st[p])}
    /\ target = [p \in Pods |-> IF p \in Built /\ tab.state[p] # "ContainerCreating"
                               THEN tab.state[p] ELSE "Running"]
    /\ queued = next
    /\ current = InitRS
    /\ rsOf = [r \in ReplicaSets |->
                IF r \in InitSets THEN CHOOSE d \in Deployments : InitRS[d] = r
                ELSE CHOOSE d \in Deployments : TRUE]
    /\ inStore = InitSets
    /\ dspec = [d \in Deployments |-> Cardinality(InitPods[d])]
    /\ spec = [r \in ReplicaSets |->
                IF r \in InitSets THEN dspec[rsOf[r]] ELSE 0]
    /\ said = [x \in ReplicaSets \cup Deployments |-> "none"]
    /\ old = [d \in Deployments |-> {}]
    /\ shown = [x \in ReplicaSets \cup Deployments |->
                 IF x \in Deployments THEN DeployNow(x) ELSE SetNow(x)]
    /\ deleting = {} /\ stored = Deployments /\ observed = Deployments
    /\ dirtyRS = {} /\ dirtyD = {}
    /\ wakeD = {} /\ wakePods = {}
    /\ req = [a \in Requests |-> Idle]
    /\ phase = "idle" /\ steps = 0 /\ creates = 0 /\ todo = {}
    /\ ops = 0

-----------------------------------------------------------------------------
(* The tick.                                                               *)

\* drainWakeups: every ReplicaSet of a woken Deployment becomes dirty and the
\* current one takes the Deployment's replica count; woken pods are queued.
DrainWakeups ==
    /\ phase = "idle"
    /\ spec' = [r \in ReplicaSets |->
                IF \E d \in wakeD : current[d] = r THEN dspec[rsOf[r]]
                ELSE spec[r]]
    /\ dirtyRS' = dirtyRS \cup UNION {AllReplicaSets(d) : d \in wakeD}
    /\ dirtyD' = dirtyD \cup wakeD
    /\ queued' = queued \cup (wakePods \cap tab.live \cap next)
    /\ wakeD' = {} /\ wakePods' = {}
    /\ phase' = "step" /\ steps' = StepBudget
    /\ UNCHANGED <<tab, next, target, rsOf, inStore, dspec, current, old,
                   deleting, stored, observed, said, shown, req, creates, todo,
                   ops>>

\* Fault: the ReplicaSet of a stepped pod is not marked dirty.
PopCleanly(p) ==
    /\ phase = "step" /\ steps > 0
    /\ p \in queued
    /\ steps' = steps - 1
    /\ UNCHANGED <<workVars, dirtyVars, wakeVars, phase, creates, todo, ops, target>>

\* stepLifecycle pops a due entry of p; what every case of stepPod shares.
Pop(p) ==
    /\ phase = "step" /\ steps > 0
    /\ p \in queued
    /\ steps' = steps - 1
    /\ dirtyRS' = dirtyRS \cup {tab.rs[p]}
    /\ UNCHANGED <<workVars, dirtyD, wakeVars, phase, creates, todo, ops, target>>

\* p.NextStep = later; e.push(p): the entry popped is replaced by a new one.
Again(p) == UNCHANGED <<next, queued>>

\* Fault: a pod without a NextStep is pushed all the same.
SettleButPush(p) == next' = next \ {p} /\ UNCHANGED queued

\* p.NextStep = 0: nothing is pushed.
Settle(p) == next' = next \ {p} /\ queued' = queued \ {p}

\* The grace period of a terminating pod is over.
StepRemove(p) ==
    /\ Pop(p)
    /\ p \in tab.deleted
    /\ tab' = RemovePod(tab, p)
    /\ Settle(p)

StepSchedule(p) ==
    /\ Pop(p)
    /\ p \notin tab.deleted /\ tab.state[p] = "Pending"
    /\ tab' = TouchPod(SetPodState(SchedulePod(tab, p), p, "ContainerCreating"), p)
    /\ Again(p)

\* Fault: a pod that came up gets no minReadySeconds timer.
StepStartUnpromoted(p) ==
    /\ Pop(p)
    /\ p \notin tab.deleted /\ tab.state[p] = "ContainerCreating"
    /\ LET to == IF target[p] \in {"Pending", "ContainerCreating"}
                 THEN "Running" ELSE target[p]
       IN /\ tab' = TouchPod(SetPodState(tab, p, to), p)
          /\ IF to = "CrashLoopBackOff" THEN Again(p) ELSE Settle(p)

\* The containers come up, or fail the way the pod was meant to.
StepStart(p) ==
    /\ Pop(p)
    /\ p \notin tab.deleted /\ tab.state[p] = "ContainerCreating"
    /\ LET to == IF target[p] \in {"Pending", "ContainerCreating"}
                 THEN "Running" ELSE target[p]
       IN /\ tab' = TouchPod(SetPodState(tab, p, to), p)
          /\ IF to \in {"Running", "CrashLoopBackOff"} THEN Again(p) ELSE Settle(p)

\* minReadySeconds elapsed.
StepAvailable(p) ==
    /\ Pop(p)
    /\ p \notin tab.deleted /\ tab.state[p] = "Running"
    /\ tab' = TouchPod(MarkPodAvailable(tab, p), p)
    /\ Settle(p)

\* A crash-looping pod backs off again or recovers.
StepCrashed(p) ==
    /\ Pop(p)
    /\ p \notin tab.deleted /\ tab.state[p] = "CrashLoopBackOff"
    /\ \E to \in {"CrashLoopBackOff", "Running"} :
        tab' = TouchPod(SetPodState(tab, p, to), p)
    /\ Again(p)

StepPod(p) ==
    StepRemove(p) \/ StepSchedule(p) \/ StepStart(p) \/ StepAvailable(p)
        \/ StepCrashed(p)

\* No entry is due any more, or the budget is spent.
EndSteps ==
    /\ phase = "step"
    /\ phase' = "churn" /\ steps' = 0
    /\ UNCHANGED <<podVars, workVars, dirtyVars, wakeVars, creates, todo, ops>>

-----------------------------------------------------------------------------
(* Churn.                                                                  *)

\* Fault: a pod that is gone, or going, is picked too.
ChurnableGone(p) ==
    /\ phase = "churn" /\ ops < MaxOps
    /\ p \in tab.live \cup tab.deleted
    /\ \E d \in Deployments \ deleting : current[d] = tab.rs[p]
    /\ ops' = ops + 1
    /\ dirtyRS' = dirtyRS \cup {tab.rs[p]}
    /\ UNCHANGED <<target, workVars, dirtyD, wakeVars, tickVars>>

\* randomPod of randomDeployment: a pod of a current ReplicaSet.
Churnable(p) ==
    /\ phase = "churn" /\ ops < MaxOps
    /\ p \in tab.live \ tab.deleted
    /\ \E d \in Deployments \ deleting : current[d] = tab.rs[p]
    /\ ops' = ops + 1
    /\ dirtyRS' = dirtyRS \cup {tab.rs[p]}
    /\ UNCHANGED <<target, workVars, dirtyD, wakeVars, tickVars>>

\* Fault: the pod's new deadline is not pushed to the work queue.
ChurnDeleteUnqueued(p) ==
    /\ Churnable(p)
    /\ tab' = MarkPodTerminating(tab, p)
    /\ next' = next \cup {p} /\ queued' = queued \ {p}

ChurnDelete(p) ==
    /\ Churnable(p)
    /\ tab' = MarkPodTerminating(tab, p)
    /\ next' = next \cup {p} /\ queued' = queued \cup {p}

\* Some restarted pods start to crash-loop, the others come back at once.
ChurnRestart(p) ==
    /\ Churnable(p)
    /\ Ready(tab.state[p])
    /\ \/ /\ tab' = TouchPod(SetPodState(tab, p, "CrashLoopBackOff"), p)
          /\ next' = next \cup {p} /\ queued' = queued \cup {p}
       \/ /\ tab' = TouchPod(tab, p)
          /\ UNCHANGED <<next, queued>>

\* The replica counts a random rescale may pick, from n: the fraction
\* ScaleFactor of n either way, rounded down, and at least one.
Rescaled(n) == LET share == (n * ScaleNum) \div ScaleDen
                   delta == IF share < 1 THEN 1 ELSE share
               IN {m \in n - delta .. n + delta : m >= 0}

\* Fault: only the Deployment is scaled, not its current ReplicaSet.
ChurnScaleHalf(d, n) ==
    /\ phase = "churn" /\ ops < MaxOps
    /\ d \notin deleting /\ n \in Rescaled(dspec[d]) \ {dspec[d]}
    /\ dspec' = [dspec EXCEPT ![d] = n]
    /\ observed' = observed \ {d}
    /\ dirtyRS' = dirtyRS \cup {current[d]} /\ dirtyD' = dirtyD \cup {d}
    /\ ops' = ops + 1
    /\ UNCHANGED <<podVars, spec, rsOf, inStore, current, old, deleting, stored,
                   said, shown, wakeVars, tickVars>>

ChurnScale(d, n) ==
    /\ phase = "churn" /\ ops < MaxOps
    /\ d \notin deleting /\ n \in Rescaled(dspec[d]) \ {dspec[d]}
    /\ dspec' = [dspec EXCEPT ![d] = n]
    /\ spec' = [spec EXCEPT ![current[d]] = n]
    /\ observed' = observed \ {d}
    /\ dirtyRS' = dirtyRS \cup {current[d]} /\ dirtyD' = dirtyD \cup {d}
    /\ ops' = ops + 1
    /\ UNCHANGED <<podVars, rsOf, inStore, current, old, deleting, stored, said,
                   shown, wakeVars, tickVars>>

EndChurn ==
    /\ phase = "churn"
    /\ phase' = "reconcile" /\ creates' = CreateBudget /\ todo' = dirtyRS
    /\ UNCHANGED <<podVars, workVars, dirtyVars, wakeVars, steps, ops>>

-----------------------------------------------------------------------------
(* Reconciliation.                                                         *)

\* The loop body for one dirty ReplicaSet; the map is ranged in any order.
Visit(r) ==
    /\ phase = "reconcile"
    /\ r \in todo
    /\ todo' = todo \ {r}
    /\ UNCHANGED <<rsOf, dspec, current, old, deleting, stored, observed,
                   wakeVars, phase, steps, ops>>

Doomed(r) == rsOf[r] \in deleting

\* A deleted Deployment's ReplicaSet disappears once it is empty.
ReconcileRemove(r) ==
    /\ Visit(r)
    /\ Doomed(r) /\ tab.total[r] = 0
    /\ spec' = [spec EXCEPT ![r] = 0]
    /\ inStore' = inStore \ {r}
    /\ said' = IF r \in inStore THEN [said EXCEPT ![r] = "DELETED"] ELSE said
    /\ dirtyRS' = dirtyRS \ {r}
    /\ dirtyD' = dirtyD \ {rsOf[r]}
    /\ UNCHANGED <<podVars, shown, creates>>

\* The replica count r is reconciled against.
Wanted(r) == IF Doomed(r) THEN 0 ELSE spec[r]

\* The part of the loop body every other ReplicaSet goes through.
Keep(r) ==
    /\ Visit(r)
    /\ ~(Doomed(r) /\ tab.total[r] = 0)
    /\ spec' = [spec EXCEPT ![r] = Wanted(r)]
    /\ dirtyD' = dirtyD \cup {rsOf[r]}
    /\ UNCHANGED <<inStore, said, shown, dirtyRS>>

Lesser(m, n) == IF m < n THEN m ELSE n

\* Too few pods: create what the tick's budget still allows.
ReconcileCreate(r) ==
    /\ Active(tab, r) < Wanted(r)
    /\ Keep(r)
    /\ LET want == Lesser(Wanted(r) - Active(tab, r), creates)
       IN /\ creates' = creates - want
          /\ \E N \in SUBSET Free :
                /\ Cardinality(N) = want
                /\ \E tgt \in [N -> Targets], nd \in [N -> Nodes] :
                    LET timed == {p \in N : tgt[p] # "Pending"}
                    IN /\ tab' = AddPods(tab, N, r, nd)
                       /\ target' = [p \in Pods |-> IF p \in N THEN tgt[p]
                                                    ELSE target[p]]
                       /\ next' = (next \ N) \cup timed
                       /\ queued' = queued \cup timed

\* scaleDown: pods that are not ready go first.
ReconcileDelete(r) ==
    /\ Active(tab, r) > Wanted(r)
    /\ Keep(r)
    /\ LET n     == Active(tab, r) - Wanted(r)
           cand  == PodsOf(tab, r) \ tab.deleted
           ready == {p \in cand : Ready(tab.state[p])}
       IN \E V \in SUBSET cand :
            /\ Cardinality(V) = Lesser(n, Cardinality(cand))
            /\ V \cap ready # {} => cand \ ready \subseteq V
            /\ tab' = MarkAllTerminating(tab, V, r)
            /\ next' = next \cup V
            /\ queued' = queued \cup V
    /\ UNCHANGED <<target, creates>>

ReconcileKeep(r) ==
    /\ Active(tab, r) = Wanted(r)
    /\ Keep(r)
    /\ UNCHANGED <<podVars, creates>>

\* flushStatus, and the end of the tick's transaction.
FlushStatus ==
    /\ phase = "reconcile" /\ todo = {}
    /\ said' = [x \in DOMAIN said |-> IF x \in dirtyRS \cup dirtyD
                                      THEN "MODIFIED" ELSE said[x]]
    /\ shown' = [x \in DOMAIN shown |-> CASE x \in dirtyRS -> SetNow(x)
                                          [] x \in dirtyD -> DeployNow(x)
                                          [] OTHER -> shown[x]]
    /\ observed' = observed \cup dirtyD
    /\ dirtyRS' = {} /\ dirtyD' = {}
    /\ phase' = "idle" /\ creates' = 0
    /\ UNCHANGED <<podVars, spec, rsOf, inStore, dspec, current, old, deleting,
                   stored, wakeVars, steps, todo, ops>>

-----------------------------------------------------------------------------
(* API requests.                                                           *)

\* A write transaction of request a, which then owes the engine a wakeup.
Write(a, owed) ==
    /\ phase = "idle" /\ ops < MaxOps
    /\ req[a] = Idle
    /\ req' = [req EXCEPT ![a] = owed]
    /\ ops' = ops + 1
    /\ UNCHANGED <<dirtyVars, wakeD, wakePods, tickVars>>

\* applyScale
Scale(a, d, n) ==
    /\ Write(a, OweD(d))
    /\ d \in stored
    /\ dspec' = [dspec EXCEPT ![d] = n]
    /\ observed' = observed \ {d}
    /\ said' = [said EXCEPT ![d] = "MODIFIED"]
    /\ shown' = [shown EXCEPT ![d] = DeployStatus(tab, n, current[d], old[d])]
    /\ UNCHANGED <<podVars, spec, rsOf, inStore, current, old, deleting, stored>>

\* Fault: the superseded ReplicaSet keeps its replica count.
NewRevisionKeepingOld(d, r) ==
    /\ spec' = [spec EXCEPT ![r] = dspec[d]]
    /\ old' = [old EXCEPT ![d] = @ \cup {current[d]}]
    /\ current' = [current EXCEPT ![d] = r]
    /\ rsOf' = [rsOf EXCEPT ![r] = d]
    /\ inStore' = inStore \cup {r}
    /\ observed' = observed \ {d}

\* A new ReplicaSet r takes d's replica count, the one it replaces goes to zero.
NewRevision(d, r) ==
    /\ spec' = [spec EXCEPT ![current[d]] = 0, ![r] = dspec[d]]
    /\ old' = [old EXCEPT ![d] = @ \cup {current[d]}]
    /\ current' = [current EXCEPT ![d] = r]
    /\ rsOf' = [rsOf EXCEPT ![r] = d]
    /\ inStore' = inStore \cup {r}
    /\ observed' = observed \ {d}

\* restartDeployment: r is announced by NewRevision, d after it; the replaced
\* ReplicaSet is not.
Restart(a, d) ==
    /\ Write(a, OweD(d))
    /\ d \in stored
    /\ \E r \in Unused :
        /\ NewRevision(d, r)
        /\ said' = [said EXCEPT ![d] = "MODIFIED", ![r] = "ADDED"]
        /\ shown' = [shown EXCEPT
                ![d] = DeployStatus(tab, dspec[d], r, old[d] \cup {current[d]}),
                ![r] = SetStatus(tab, dspec[d], r)]
    /\ UNCHANGED <<podVars, dspec, deleting, stored>>

DeleteDeployment(a, d) ==
    /\ Write(a, OweD(d))
    /\ d \in stored
    /\ deleting' = deleting \cup {d}
    /\ dspec' = [dspec EXCEPT ![d] = 0]
    /\ observed' = observed \ {d}
    /\ stored' = stored \ {d}
    /\ said' = [said EXCEPT ![d] = "DELETED"]
    /\ UNCHANGED <<podVars, spec, rsOf, inStore, current, old, shown>>

\* A pod that is already terminating keeps its deadline.
DeletePod(a, p) ==
    /\ Write(a, OweP(p))
    /\ p \in tab.live
    /\ tab' = MarkPodTerminating(tab, p)
    /\ IF p \in tab.deleted
       THEN UNCHANGED <<next, queued>>
       ELSE next' = next \cup {p} /\ queued' = queued \ {p}
    /\ UNCHANGED <<target, workVars>>

\* deleteGeneric on a ReplicaSet: it leaves the store, its pods stay.
DeleteReplicaSet(r) ==
    /\ phase = "idle" /\ ops < MaxOps
    /\ r \in inStore
    /\ inStore' = inStore \ {r}
    /\ said' = [said EXCEPT ![r] = "DELETED"]
    /\ ops' = ops + 1
    /\ UNCHANGED <<podVars, spec, rsOf, dspec, current, old, deleting, stored,
                   observed, shown, dirtyVars, wakeVars, tickVars>>

\* WakeDeployment or WakePod, after the transaction.
Wake(a) ==
    /\ phase = "idle"
    /\ req[a] # Idle
    /\ req' = [req EXCEPT ![a] = Idle]
    /\ wakeD' = wakeD \cup {d \in Deployments : req[a] = OweD(d)}
    /\ wakePods' = wakePods \cup {p \in Pods : req[a] = OweP(p)}
    /\ UNCHANGED <<podVars, workVars, dirtyVars, tickVars, ops>>

-----------------------------------------------------------------------------
SimNext ==
    \/ DrainWakeups
    \/ \E p \in Pods : StepRemove(p)
    \/ \E p \in Pods : StepSchedule(p)
    \/ \E p \in Pods : StepStart(p)
    \/ \E p \in Pods : StepAvailable(p)
    \/ \E p \in Pods : StepCrashed(p)
    \/ EndSteps
    \/ \E p \in Pods : ChurnDelete(p)
    \/ \E p \in Pods : ChurnRestart(p)
    \/ \E d \in Deployments, n \in 0 .. MaxReplicas : ChurnScale(d, n)
    \/ EndChurn
    \/ \E r \in ReplicaSets : ReconcileRemove(r)
    \/ \E r \in ReplicaSets : ReconcileCreate(r)
    \/ \E r \in ReplicaSets : ReconcileDelete(r)
    \/ \E r \in ReplicaSets : ReconcileKeep(r)
    \/ FlushStatus
    \/ \E a \in Requests, d \in Deployments, n \in 0 .. MaxReplicas : Scale(a, d, n)
    \/ \E a \in Requests, d \in Deployments : Restart(a, d)
    \/ \E a \in Requests, d \in Deployments : DeleteDeployment(a, d)
    \/ \E a \in Requests, p \in Pods : DeletePod(a, p)
    \/ \E r \in ReplicaSets : DeleteReplicaSet(r)
    \/ \E a \in Requests : Wake(a)

Reconcile == \E r \in ReplicaSets :
    ReconcileRemove(r) \/ ReconcileCreate(r) \/ ReconcileDelete(r) \/ ReconcileKeep(r)

\* The ticker keeps ticking and a tick runs to its end; a request goroutine
\* that has written calls the engine.  The work queue is a heap ordered by due
\* time and every tick has a budget of at least one, so a queued pod is not
\* overtaken for ever.
SimFairness ==
    /\ WF_simVars(DrainWakeups) /\ WF_simVars(EndSteps) /\ WF_simVars(EndChurn)
    /\ WF_simVars(Reconcile) /\ WF_simVars(FlushStatus)
    /\ \A p \in Pods : SF_simVars(StepPod(p))
    /\ \A a \in Requests : SF_simVars(Wake(a))

SimSpec == SimInit /\ [][SimNext]_simVars
SimFairSpec == SimSpec /\ SimFairness

-----------------------------------------------------------------------------
(* Properties.                                                             *)

\* Types of the variables.
PodTypes ==
    /\ tab \in Tables
    /\ queued \subseteq next /\ next \subseteq Pods
    /\ target \in [Pods -> PodStates]

WorkTypes ==
    /\ spec \in [ReplicaSets -> Int]
    /\ rsOf \in [ReplicaSets -> Deployments]
    /\ inStore \subseteq ReplicaSets
    /\ dspec \in [Deployments -> Int]
    /\ current \in [Deployments -> ReplicaSets]
    /\ old \in [Deployments -> SUBSET ReplicaSets]
    /\ deleting \subseteq Deployments /\ stored \subseteq Deployments
    /\ observed \subseteq Deployments
    /\ said \in [ReplicaSets \cup Deployments -> Notices]

EngineTypes ==
    /\ dirtyRS \subseteq ReplicaSets /\ dirtyD \subseteq Deployments
    /\ wakeD \subseteq Deployments /\ wakePods \subseteq Pods
    /\ req \in [Requests -> {Idle} \cup {OweD(d) : d \in Deployments}
                                   \cup {OweP(p) : p \in Pods}]
    /\ phase \in {"idle", "step", "churn", "reconcile"}
    /\ steps \in Nat /\ creates \in Nat /\ ops \in Nat
    /\ todo \subseteq ReplicaSets

SimTypeOK == PodTypes /\ WorkTypes /\ EngineTypes

\* README 203-205: every ReplicaSet's status counters equal a scan of its pods,
\* and no pod that is not ready counts as available.
StatusIsCounted == ReplicaSetCounters(tab) /\ AvailIsReady(tab)

\* The cluster-wide state counts, terminating count and pods per node too.
ClusterIsCounted == ClusterCounters(tab)

\* A request or the wake list still carries the wakeup of x.
WakeComing(owed) == \E a \in Requests : req[a] = owed

\* No timer is lost: a live pod with a NextStep has an entry in the work queue,
\* or the wakeup that will make one is on its way.  A terminating pod always
\* has a NextStep, so it will go.
NoLostTimer ==
    \A p \in tab.live :
        /\ p \in tab.deleted => p \in next
        /\ p \in next => p \in queued \/ p \in wakePods \/ WakeComing(OweP(p))

\* stepPod's default case is dead code: a pod that is not terminating is only
\* queued in a state the lifecycle has a step for.
QueuedHasStep ==
    \A p \in queued : p \in tab.live /\ (p \notin tab.deleted =>
        tab.state[p] \in {"Pending", "ContainerCreating", "Running",
                           "CrashLoopBackOff"})

\* A scale is never forgotten: where the current ReplicaSet does not have the
\* Deployment's replica count yet, a wakeup that will give it is on its way.
ScaleReachesReplicaSet ==
    \A d \in Deployments :
        spec[current[d]] # dspec[d] => d \in wakeD \/ WakeComing(OweD(d))

\* README 22-23, generate.go 659-661: superseded ReplicaSets are scaled to zero.
OldSetsAreZero == \A d \in Deployments : \A r \in old[d] : spec[r] = 0

\* README 30-33: status follows along.  Between ticks, the last notice about a
\* ReplicaSet or a Deployment carried the status it has now, or the wakeup after
\* which the engine announces it is on its way.
StatusIsAnnounced ==
    phase = "idle" =>
        /\ \A r \in inStore : \/ shown[r] = SetNow(r)
                              \/ rsOf[r] \in wakeD
                              \/ WakeComing(OweD(rsOf[r]))
        /\ \A d \in stored : shown[d] = DeployNow(d)

\* After its DELETED notice a pod is never heard of again, unless as a new pod.
DeletedPodIsSilent ==
    [][\A p \in Pods : tab.said[p] = "DELETED" =>
          tab'.said[p] \in {"DELETED", "ADDED"}]_simVars

\* README 37 ("LIST and WATCH that behave"): DELETED is the last notice about
\* a Deployment.
DeletedDeploymentIsSilent ==
    [][\A d \in Deployments : said[d] = "DELETED" => said'[d] = "DELETED"]_simVars

\* README 28-30: once nobody changes the spec any more, every Deployment ends
\* up with the pods it asks for and its old ReplicaSets with none.
Settled(d) ==
    /\ Active(tab, current[d]) = dspec[d]
    /\ \A r \in old[d] : tab.total[r] = 0
Converges == \A d \in Deployments : <>[](d \in stored => Settled(d))

\* write.go 246-247: the reconciler tears a deleted Deployment down: its pods
\* and its ReplicaSets disappear.
DeleteTearsDown ==
    \A d \in Deployments : d \in deleting ~>
        \A r \in AllReplicaSets(d) : r \notin inStore /\ tab.total[r] = 0

\* Ready pods that no timer will promote to available.
Stranded == {p \in tab.live \ (tab.deleted \cup tab.avail) :
                Ready(tab.state[p]) /\ p \notin next}

\* README 24-25: a ready pod is promoted to available after minReadySeconds.  The
\* pods that were built ready but not available (generate.go 599-602) have no
\* timer and never are; no step adds to them, whatever a pod goes through.
NobodyIsStranded == [][Stranded' \subseteq Stranded]_simVars
=============================================================================
