------------------------------- MODULE Startup -------------------------------
(***************************************************************************)
(* From the command line to a running cluster: resolve makes the scenario  *)
(* (Scenario), Factory.Build makes Deployments, Services and seed Events   *)
(* of it in one silent transaction, and then the engine records Events and *)
(* clients delete them (EventLog). main does one after the other; what one *)
(* stage made is dropped when the stage after it has used it.              *)
(*                                                                         *)
(* A name is a sequence: <<"app">> and <<"app", 2>> for app and app-2. The *)
(* system namespaces, and the kinds that are only counted off by a range   *)
(* (ConfigMaps, Secrets, Jobs, CronJobs), are left out.                    *)
(***************************************************************************)
EXTENDS Scenario, EventLog, Functions, FiniteSets

CONSTANTS
    Base,              \* the preset
    Files, Flags,      \* what a file and the flags may set
    Apps,              \* appNames
    Rate, Per,         \* a tick adds Rate / Per background events
    MaxDeployments, MaxNamespaces, MaxBudget,     \* bounds of one behaviour
    MaxServices, MaxEvents, MaxTicks

ASSUME StartupAssumption ==
    /\ Base \in [Fields -> Int] /\ Base = Normalize(Base)
    /\ \A edits \in Files \cup Flags : \A f \in DOMAIN edits : f \in Fields /\ edits[f] \in Int
    /\ \A edits \in Flags : DOMAIN edits \subseteq FlagFields
    /\ {Rate, MaxDeployments, MaxNamespaces, MaxBudget, MaxServices, MaxEvents, MaxTicks}
           \subseteq Nat
    /\ Per \in Nat \ {0}

VARIABLES
    stage,             \* which of them is next
    file, flags, cfg,  \* what was given, and the scenario made of it
    weights, replicas, order,   \* of distribute; nsOrder
    deploys,           \* Deployments, in the order they are made
    services, at,      \* Services; the namespace, how many it gets, the next
    log,               \* Cluster.Events, eventQueue, eventSeq and the notices
    acc,               \* Engine.accEvent in 1/Per of an event
    alive,             \* whether randomDeployment finds one
    listed, recorded, dropped, paced   \* history: the store at Seal, Events recorded,
                       \* deleted by clients; ticks that found a Deployment

cfgVars   == <<file, flags, cfg>>
buildVars == <<weights, replicas, order, deploys, services, at>>
liveVars  == <<log, acc, alive, listed, recorded, dropped, paced>>
vars == <<stage, cfgVars, buildVars, liveVars>>

None == <<>>

Init ==
    /\ stage = "resolve"
    /\ file \in Files /\ flags \in Flags /\ cfg = Base
    /\ weights = None /\ replicas = None /\ order = None
    /\ deploys = None /\ services = {} /\ at = [ns |-> 1, want |-> 0, j |-> 0]
    /\ log = EmptyLog /\ acc = 0 /\ alive = TRUE
    /\ listed = {} /\ recorded = None /\ dropped = {} /\ paced = 0

ResolveScenario ==
    /\ stage = "resolve"
    /\ cfg' = Resolve(Base, file, flags)
    /\ stage' = "resolved"
    /\ UNCHANGED <<file, flags, buildVars, liveVars>>

-----------------------------------------------------------------------------
(* Factory.Build.                                                          *)

Budget == TotalPods(cfg)

Bounded ==
    /\ cfg.deployments <= MaxDeployments /\ cfg.namespaces <= MaxNamespaces
    /\ Budget <= MaxBudget

\* buildWorkloads: distribute.
Distribute ==
    /\ stage = "resolved" /\ Bounded
    /\ \E drawn \in [1 .. cfg.deployments -> Between(cfg.lo, cfg.hi)] :
          IF Budget > 0
          THEN /\ weights' = [i \in DOMAIN drawn |-> AtLeast(1, drawn[i])]
               /\ replicas' = Split(Budget, weights')
          ELSE weights' = None /\ replicas' = drawn
    /\ stage' = "split"
    /\ file' = None /\ flags' = None
    /\ UNCHANGED <<cfg, order, deploys, services, at, liveVars>>

\* buildWorkloads: the shuffle of the namespaces.
Shuffle ==
    /\ stage = "split"
    /\ order' \in {s \in [1 .. cfg.namespaces -> 1 .. cfg.namespaces] : IsInjective(s)}
    /\ stage' = "deploy"
    /\ weights' = None /\ replicas' = None
    /\ cfg' = [f \in Fields |-> IF f \in {"namespaces", "deployments", "max", "seed"}
                               THEN cfg[f] ELSE Base[f]]
    /\ UNCHANGED <<file, flags, deploys, services, at, liveVars>>

\* buildWorkloads: used counts the Deployments of app in ns so far.
DeployName(ns, app) ==
    LET used == Cardinality({i \in DOMAIN deploys : /\ deploys[i].ns = ns
                                                    /\ deploys[i].name[1] = app})
    IN IF used = 0 THEN <<app>> ELSE <<app, used + 1>>

AddDeployment ==
    /\ stage = "deploy" /\ Len(deploys) < cfg.deployments
    /\ LET i  == Len(deploys)
           ns == order[(i % Len(order)) + 1]
       IN \E app \in Apps :
             deploys' = Append(deploys, [ns |-> ns, name |-> DeployName(ns, app)])
    /\ UNCHANGED <<stage, cfgVars, weights, replicas, order, services, at, liveVars>>

EndDeployments ==
    /\ stage = "deploy" /\ Len(deploys) = cfg.deployments
    /\ \E want \in 0 .. MaxServices : at' = [ns |-> 1, want |-> want, j |-> 0]
    /\ stage' = "services"
    /\ order' = None
    /\ UNCHANGED <<cfgVars, weights, replicas, deploys, services, liveVars>>

\* byNS: the Deployments of ns, in the order they were made.
Local(ns) ==
    LET byNS[i \in 0 .. Len(deploys)] ==
            IF i = 0 THEN <<>>
            ELSE IF deploys[i].ns = ns THEN Append(byNS[i - 1], deploys[i]) ELSE byNS[i - 1]
    IN byNS[Len(deploys)]

HasService(ns, name) == \E s \in services : s.ns = ns /\ s.name = name

\* The name and the selected Deployment of the j-th Service of a namespace.
ServiceOf(ns, j) ==
    LET local == Local(ns)
        d     == local[((j + ns - 1) % Len(local)) + 1].name
    IN IF local = <<>> THEN [name |-> <<"svc", j>>, of |-> None]
       ELSE [name |-> IF j >= Len(local) THEN Append(d, j) ELSE d, of |-> d]

\* Fault: nobody looks whether there is a Service of that name.
FreeNameUnchecked(ns, j, name) == name

FreeName(ns, j, name) == IF HasService(ns, name) THEN Append(name, j) ELSE name

\* buildServices, one Service. Put overwrites one of the same name.
AddService ==
    /\ stage = "services" /\ at.j < at.want
    /\ LET s    == ServiceOf(at.ns, at.j)
           name == FreeName(at.ns, at.j, s.name)
       IN services' = {x \in services : ~(x.ns = at.ns /\ x.name = name)}
                          \cup {[ns |-> at.ns, name |-> name, of |-> s.of]}
    /\ at' = [at EXCEPT !.j = @ + 1]
    /\ UNCHANGED <<stage, cfgVars, weights, replicas, order, deploys, liveVars>>

\* The next namespace, or the seed Events.
EndServices ==
    /\ stage = "services" /\ at.j = at.want
    /\ IF at.ns < cfg.namespaces
       THEN /\ \E want \in 0 .. MaxServices : at' = [ns |-> at.ns + 1, want |-> want, j |-> 0]
            /\ UNCHANGED <<stage, cfg, deploys, services>>
       ELSE /\ at' = [ns |-> 1, want |-> 0, j |-> 0]
            /\ services' = {}
            /\ cfg' = [Base EXCEPT !.max = cfg.max, !.seed = cfg.seed]
            /\ deploys' = None
            /\ stage' = "seed"
    /\ UNCHANGED <<file, flags, weights, replicas, order, liveVars>>

\* buildSeedEvents, one Event about a Deployment.
SeedEvent ==
    /\ stage = "seed" /\ Len(recorded) < cfg.seed /\ log.seq < MaxEvents
    /\ log' = Record(log, cfg.max, "d", TRUE)
    /\ recorded' = Append(recorded, NameOf("d", log.seq + 1))
    /\ UNCHANGED <<stage, cfgVars, buildVars, acc, alive, listed, dropped, paced>>

\* Seal, and Prime.
Seal ==
    /\ stage = "seed" /\ Len(recorded) >= cfg.seed
    /\ listed' = log.stored
    /\ stage' = "serve"
    /\ UNCHANGED <<cfgVars, buildVars, log, acc, alive, recorded, dropped, paced>>

-----------------------------------------------------------------------------
(* The running cluster.                                                    *)

\* The engine records n Events about ref in one transaction.
Made(n, ref) ==
    /\ log' = RecordMany(log, cfg.max, ref, n)
    /\ recorded' = recorded \o [i \in 1 .. n |-> NameOf(ref, log.seq + i)]

\* Engine.recordEvent and recordPodEvent, where they are not sampled away: about
\* a pod.
RecordEvent ==
    /\ stage = "serve" /\ cfg.max > 0 /\ log.seq < MaxEvents
    /\ Made(1, "p")
    /\ UNCHANGED <<stage, cfgVars, buildVars, acc, alive, listed, dropped, paced>>

\* Units that are left when the whole events are taken.
Left(units) == units % Per

\* backgroundEvents: without a Deployment the events of the tick stay due.
BackgroundEvents ==
    /\ stage = "serve" /\ cfg.max > 0 /\ Rate > 0
    /\ paced < MaxTicks /\ acc < 2 * Per
    /\ LET due == acc + Rate
       IN IF alive
          THEN /\ log.seq + due \div Per <= MaxEvents
               /\ Made(due \div Per, "d")
               /\ acc' = Left(due)
               /\ paced' = paced + 1
          ELSE acc' = due /\ UNCHANGED <<log, recorded, paced>>
    /\ UNCHANGED <<stage, cfgVars, buildVars, alive, listed, dropped>>

\* The last Deployment is deleted.
LoseDeployments ==
    /\ stage = "serve" /\ alive
    /\ alive' = FALSE
    /\ UNCHANGED <<stage, cfgVars, buildVars, log, acc, listed, recorded, dropped, paced>>

\* A client deletes an Event (handleDelete, deleteGeneric).
ClientDelete ==
    /\ stage = "serve"
    /\ \E e \in log.stored :
          /\ log' = DeleteEvent(log, e)
          /\ dropped' = dropped \cup {e}
    /\ UNCHANGED <<stage, cfgVars, buildVars, acc, alive, listed, recorded, paced>>

Next ==
    \/ ResolveScenario \/ Distribute \/ Shuffle \/ AddDeployment \/ EndDeployments
    \/ AddService \/ EndServices \/ SeedEvent \/ Seal
    \/ RecordEvent \/ BackgroundEvents \/ LoseDeployments \/ ClientDelete

Spec == Init /\ [][Next]_vars
-----------------------------------------------------------------------------
(* Properties.                                                             *)

\* A resolved scenario is well formed (scenario.go:284), and what --dump-config
\* prints of it resolves to itself, over whatever preset its name calls for.
DumpReloads ==
    /\ cfg.lo <= cfg.hi /\ 1 <= cfg.cmin /\ cfg.cmin <= cfg.cmax
    /\ cfg.seed <= cfg.max
    /\ \A base \in {Base, [f \in Fields |-> 9]} : Load(base, cfg) = cfg

\* A flag that was given holds, in spite of the file (main.go:160), unless it is
\* out of bounds: a negative or no count, or the upper end of a range under its
\* lower end. A field without one is what the preset and the file made it, but
\* for the upper end that --replicas-min pushes up and the seed that --events-max
\* cuts.
FlagsWin ==
    LET before == Load(Base, file)
        asked  == Over(before, flags)
    IN \A f \in Fields :
          \/ cfg[f] = asked[f]
          \/ f \in {"namespaces", "deployments"} /\ asked[f] < 1
          \/ f = "max" /\ asked[f] < 0
          \/ f = "hi" /\ asked[f] < asked["lo"]
          \/ f = "cmax" /\ asked[f] < before["cmin"]
          \/ f = "seed" /\ asked[f] > AtLeast(0, asked["max"])

\* Whatever preset, file and flags are given, resolve (main.go:160-207) makes a
\* scenario that says what was asked, and that survives being written to a file
\* and loaded again.
ScenarioIsResolved == stage = "resolved" => DumpReloads /\ FlagsWin

\* Every pod of the budget goes to a Deployment (generate.go:329), none of them
\* gets less than nothing, and one has its share of the weights give or take one
\* pod.  The replica range is not kept.  scenario.go:103-105 says it is that of each
\* Deployment unless Pods is set, main.go:75-76 that its ends are the least and
\* the most a Deployment has; but without Pods the mean of the range times the
\* Deployments is the budget (scenario.go:377-382), split by weights as any other: of a
\* range 1 to 4 and two Deployments of weights 4 and 1, one gets 4 and one none.  Only
\* when there is no budget either (a mean of 0 or less) is each drawn from the
\* range, which nothing keeps from being negative.
BudgetIsSpent ==
    stage = "split" =>
        IF Budget > 0
        THEN LET sum == SumSeq(weights)
             IN /\ SumSeq(replicas) = Budget
                /\ \A i \in DOMAIN replicas :
                      LET exact == Budget * weights[i]
                      IN /\ replicas[i] >= 0
                         /\ exact - sum < replicas[i] * sum /\ replicas[i] * sum <= exact + sum
        ELSE \A i \in DOMAIN replicas : replicas[i] \in cfg.lo .. cfg.hi

\* No Deployment takes the name of another in its namespace (generate.go:308-316):
\* it would replace it in the store, whose pods would be nobody's.
DeploymentsAreDistinct ==
    \A i, j \in DOMAIN deploys :
        deploys[i].ns = deploys[j].ns /\ deploys[i].name = deploys[j].name => i = j

\* A namespace gets as many Services as were drawn for it, none of which took the
\* name of another (generate.go:691-731), and each selects the pods of a
\* Deployment there is in that namespace.
ServicesAreDistinct ==
    stage = "services" =>
        /\ Cardinality({s \in services : s.ns = at.ns}) = at.j
        /\ \A s \in services :
              s.of # None => \E i \in DOMAIN deploys : deploys[i].ns = s.ns /\ deploys[i].name = s.of

\* No name that Build draws is drawn twice in a namespace.
NamesAreDistinct == DeploymentsAreDistinct /\ ServicesAreDistinct

\* The store holds the last events.max Events that were recorded, but for those a
\* client deleted (cluster.go:566-589): a deleted one is not replaced by an older
\* one, no live one is evicted early, and none is kept that nothing will evict.
RetentionIsExact ==
    LET n == Len(recorded)
        k == AtMost(cfg.max, n)
    IN stage \in {"seed", "serve"} =>
        log.stored = {recorded[i] : i \in n - k + 1 .. n} \ dropped

\* The Events that the notices of a type are about.
ToldOf(type) ==
    {log.notices[i].event : i \in {j \in DOMAIN log.notices : log.notices[j].type = type}}

\* A watcher of events who listed at Seal and follows the notices is told of every
\* Event and of its end exactly once, whether it was evicted, deleted, or deleted
\* and then due for eviction, and has in the end what is stored.
EventsAreAnnounced ==
    stage = "serve" =>
        /\ log.stored = (listed \cup ToldOf("ADDED")) \ ToldOf("DELETED")
        /\ \A i \in DOMAIN log.notices :
            LET n    == log.notices[i]
                past == {log.notices[j] : j \in 1 .. i - 1}
            IN IF n.type = "ADDED"
               THEN n.event \notin listed /\ \A m \in past : m.event # n.event
               ELSE n \notin past /\ (n.event \in listed \/ Notice("ADDED", n.event) \in past)
=============================================================================
