# Verification of the Kubernetes cluster emulator

TLA+ modules of the emulator in `src/`, TLC configurations that check them on
small instances, and TLAPS proofs for every size about the watch hub and its
streams, the object store, the simulation, the telemetry and the start-up. Paths below are relative to `src/internal/` unless
they start with `src/`.

## 1. The system

One process keeps a cluster in memory, changes it with a simulation, and serves
it through the Kubernetes API.

| Component | State it keeps | Operations | Correct when |
|---|---|---|---|
| Object store (`cluster/store.go`) | per kind: sorted namespaces, a bucket of slots and tombstones each, a name index, counts | Put, Get, Delete (with compaction), Iterate from a cursor, Len, LenNS | it is a map; counts need no scan; a walk in progress stays meaningful |
| Cluster (`cluster/cluster.go`, `types.go`) | the stores, the resourceVersion counter, pod counters, the watch hubs, the event queue; one RWMutex | `Write` transactions (`Tx` methods), `Read`, RecordEvent, Stats | every counter equals a scan; each change gets its own version and notice; events are retained as configured |
| Watch hub (`cluster/watch.go`) | per kind: a replay ring, subscriptions with buffered channels and two atomic flags; its own mutex | Subscribe, Broadcast, unsubscribe, DisconnectAll | a resume replays all that was missed or answers 410; an overflowed stream ends; no channel is closed twice or sent on after its close |
| API server, reads (`apiserver/list.go`, `watch.go`, `server.go`, `discovery.go`) | per request: cursor, subscription, filter | dispatch, LIST by chunks and pages, WATCH with replay, drain, bookmarks, `sendInitialEvents`; watch-churn goroutine | a LIST and a WATCH together give a client every change it selected; what is advertised is served |
| API server, writes (`apiserver/write.go`) | none | scale, restart, delete, cordon; each wakes the engine after its transaction | no write is forgotten by the engine |
| Simulation engine (`simulate/engine.go`) | work queue (heap), dirty sets, wakeup lists, tick budgets | one tick = one transaction: wakeups, lifecycle steps, churn, node flips, reconciliation, status flush | pods progress, replicas converge, status follows |
| Event recorder (`simulate/events.go`, `Tx.RecordEvent`) | queue of retained events, a fraction of an event | record, evict | exactly the last ones are kept, each end is announced once |
| Generator (`generate/`) | random source, counters | initial build, NewPod, NewRevision | builds what the scenario asks for, under distinct names |
| Rendering (`cluster/render.go`) | none | wire form, status, field values | status is computed from the counters |
| Selectors (`kapi/selector.go`) | none | parse, match | a text means what its author wrote |
| Telemetry (`metrics/`) | atomic counters; rings, path rows and a window under a lock | Record, Snapshot | counts what happened; a frame is nearly consistent |
| Scenarios (`config/`), `src/main.go` | configuration | load, normalize, flags | what was asked holds, and the dump loads again |
| `metrics.k8s.io`, dashboard (`ui/`), API types | none | read and render | — |

How they interact:

- A writer (the tick, or an API request) takes the cluster lock, changes the
  stores, collects notices with fresh versions, **releases the lock**, and only
  then broadcasts the notices to the hubs, one hub critical section each.
- A watch handler subscribes (replay and registration in one hub section), then
  loops: receive, filter, write, drain, flush, look at the overflow flag.
- A LIST reads its version first, then holds the read lock for one chunk of 500
  objects at a time; between chunks, and between pages, anything may happen.
- An API write ends its transaction first and wakes the engine second; a whole
  tick may run in between. The engine reads its wakeup lists once per tick.
- Watch churn (`DisconnectAll`) tears subscriptions down under the handlers'
  feet.
- Every request ends in `Record`; the dashboard takes a `Snapshot` meanwhile.
- `main` resolves the scenario, builds the cluster silently, then starts the
  engine and the server.

What is hard to test: the order of broadcasts of two writers; a full channel in
the middle of a stream; versions at the very edge of the ring; two tear-downs of
one subscription at once; a tick between a write and its wakeup; stale entries
in the work queue; seven operations that must keep the same counters; budgets
that run out; cursors into a bucket that is compacted; an object that stops
matching; LIST and WATCH reading a field in two places; an event deleted before
it is evicted; a frame of counters that move. `PROJECT.json` lists each of
these hazards at its line with the properties aimed at it.

## 2. Modules

| Module | Models | Used by |
|---|---|---|
| `WatchFeed` | abstract: one log, and streams that are handed it from a version on | `WatchHub` (refinement) |
| `WatchHub` | `cluster/watch.go`, one kind, one writer | `WatchStream` |
| `WatchStream` | `Cluster.Write`, the hub's actions, the watch handler, a client that lists, watches and resumes | `MCWatchStream` |
| `Selectors` | `kapi/selector.go`, the field values of stored and rendered objects | `SelectedWatch` |
| `SelectedWatch` | an informer with a selector, over pods, nodes, namespaces, services, events | `MCSelected` |
| `PodTable` | pods and their counters: every `Tx` method on pods, as operators from a table to a table | `Simulation` |
| `Simulation` | the tick, the API writes, the wakeups, Deployment and ReplicaSet status | `MCSimulation` |
| `ObjectMap` | abstract: a map from namespace and name to an object | `Store` (refinement) |
| `Store` | `cluster/store.go` | `ListPages` |
| `ListPages` | LIST by pages and chunks over a changing `Store` | `MCListPages` |
| `Routing` | path parsing, dispatch, discovery, path keys: pure functions | `Telemetry` |
| `Telemetry` | a request from acceptance to `Record`; `Snapshot` | `MCTelemetry` |
| `Scenario` | `Load`, `Normalize`, flags, `distribute`: pure functions | `Startup` |
| `EventLog` | recording, evicting and deleting an Event: pure functions | `Startup` |
| `Startup` | from the command line to a running cluster and its Events | `MCStartup` |
| `WatchHubProofs`, `StreamProofs`, `StoreProofs`, `ListPagesProofs`, `SelectedProofs`, `SimulationProofs`, `TelemetryProofs`, `StartupProofs` | theorems | |

`Fault:` in a comment marks a definition no specification uses: a plausible bug,
kept to show that the property it names can fail.

### WatchHub and WatchStream

`ring`, `next`, `full`, `floor`, `subs` are the fields of `Hub`; `chan`,
`chClosed`, `closed`, `overflow` those of `Subscription`. A notice is its
version; other content plays no part in what the hub does. Each section under
`Hub.mu` is one action (`Subscribe`, `Broadcast`, `Remove`, `DisconnectAll`),
while `unsubscribe` is three (`Swap`, `Remove`, `CloseChan`), because the flag is
swapped before the lock is taken and the channel closed after it is released.
`unsub[a][s]` is how far each of the two goroutines that may tear `s` down has
come. Subscription identities are used again once nothing refers to them, so
behaviours are not limited to the number of identities. `log`, `since`, `at`,
`got` are histories only properties read. `Spec` drives the hub with one writer,
notices in version order, other kinds taking versions in between.

`WatchFeed` is what the hub promises, without a ring, a limit or a tear-down: a
notice goes to every attached stream or breaks it, a stream that attaches is
handed all that is newer than the version it asked for, which the feed keeps
(`since`), and gets what is due to it in order.
`WatchHub` implements it (`ImplementsFeed`) with `chan` for what is due, `got` for
what was sent and `overflow` for broken; `Subscribe` attaches, `Receive` hands
over, `Remove` detaches, `Cut` breaks, `Publish` announces, and every other action
is a stutter.

`WatchStream` adds writers (`txq[w]`: notices committed and not yet broadcast),
where each handler is (`loop`), and clients. A client does what the wire
allows: it lists, watches from the last version it was sent, lists again when
refused, or asks for a watch that begins with initial events. A handler receives
nothing before its initial events are out, so notices pile up in its channel and
may overflow it; only a hang-up ends a stream that early. `Connect` is the
client, and external to the code. LIST and the walk of the initial events are
one step here: `ListPages` is about their chunks, `SelectedWatch` about a LIST
that changes are written under. `excused` records clients that met a full
channel, or a bookmark ahead of the notices, since their last LIST.

### Selectors and SelectedWatch

A selector text is a sequence of tokens, because where it splits depends on the
order in which the parsers look for commas, parentheses and operators. A client
asks for requirements (`IsWish`: an operator, and words that mean nothing else in a
text for its keys and values), writes them as `Texts` says, and `FilterIsWanted`
compares what the parsers make of these texts with what was asked for (`Meant`).
That grammar is the Kubernetes one, external to the repository, where spaces are
trimmed and have no token; a text outside it is not modelled. `FieldValue` is what LIST
reads of a stored object, `RenderedField` what WATCH finds in a notice.
`SelectedWatch` takes a hub at its word (what `WatchHub` proves) and keeps the
log of notices itself. Its writes are those that make an object start or stop
matching, or vanish: pod steps, cordoning, node flips, pod removal, and the
generic delete, whose notice keeps the object's old version. The version counter
is the cluster's, one for all kinds: `OtherKind` is a write to another kind, so that
the versions of one hub's notices have gaps, and `Floor` is, as in the code, one
less than the version of the oldest notice.

### PodTable and Simulation

Each `Tx` method on pods is an operator; a tick composes them as the code does.
Pod flags are sets (`live`, `avail`, `deleted`, `sched`), counters are the
code's: four per ReplicaSet, one per pod state, terminating pods, pods per node.
Pod states the lifecycle treats alike are one state (listed at `PodStates`).

The tick runs under the cluster lock from start to end, so its five parts are
phases during which no API write happens; each pod stepped, each ReplicaSet
visited and each churn operation is an action. An API request is two actions,
its transaction and its wakeup. Time is abstracted to "has a `NextStep`"
(`next`) and "has a live entry in the heap" (`queued`); any queued pod may be due.
Entries left behind by an earlier deadline are skipped by the code
(`engine.go:214-221`) and are not represented. Generation numbers are abstracted
to "observed or not". `shown` records the status the last notice of each object
carried.

### Store and ListPages

A bucket is a sequence with tombstones; positions count from 1, where the code
counts from 0. A cursor is `<<position of the namespace, slot>>`; the continue
token carries exactly those two numbers. One `Chunk` is one acquisition of the
read lock. Selectors are abstracted to the set of names they match. `seen`,
`twice`, `stayed` and `shifted` are histories: what was received, what was
received twice, what was in the store during the whole walk, and which walks had
their cursor moved.

### Routing and Telemetry

A path is the sequence of its segments; `Namespaces` and `Names` are what objects
and their namespaces are called, and may be words that mean something elsewhere in
a path. `Telemetry` makes every atomic addition
of `Record` and every load of `Snapshot` that a property compares a step of its
own, and the part under the lock one step. `done` is the history of recorded
requests, in the order of the lock. The tables of `Routing` never change, so
their properties are evaluated in the first state, for every kind discovery
advertises and for names that are also names of resources. `Row` is the table of
the rows of the hottest paths, one for each method and collapsed path.

### Scenario, EventLog and Startup

Of a scenario, the integer fields that are clamped against each other, or decide
how many objects there are, are kept. A log of Events is one record, and a
transaction that records several is `RecordMany`, a recursive function. `Local`
is `byNS` of `buildServices`, grown Deployment by Deployment as the code does.
The preset is one `Normalize` leaves alone, as those of `presets.go` are, and
flags set only fields there is a flag for. `Startup` runs the stages one after
the other as `main` does; what a stage made is dropped when the next one has
used it, so that the file and flags of one behaviour do not multiply its Events.
The accumulator of `backgroundEvents` counts in parts of an event.

## 3. Runs

| Run | Instance | Shows |
|---|---|---|
| `hub` | ring 3, channel 2, versions up to 8, one identity | the ring is the tail of the broadcasts; the hub implements the feed, so an accepted resume misses nothing; without overflow a stream has no gap and no duplicate; no second close, no send on a closed channel |
| `stream` | ring 2, channel 2, one writer, transactions of 1 or 2, versions up to 5, bookmarks, initial events, fairness | a loss is explained by overflow or bookmark; order; overflow ends the stream; every change arrives; every tear-down ends |
| `selected` | five kinds, ten queries, two objects, ring 2, 4 notices, a version drawn by another kind, one lost connection, fairness | parsers give back what was meant; LIST and WATCH agree but on three paths; a cache is wrong only for the reasons listed; 410 only to a client set back, or behind a version older than all the ring holds; the client catches up |
| `simulation` | one Deployment, built with a pod that is available or is not, 4 pods, 2 ReplicaSets, 2 concurrent requests, 2 writes or churn operations, fairness | counters equal scans; every change of status is announced; no timer or scale is lost; superseded sets stay at zero; removed pods are silent; nobody is left ready without a timer; it converges; a deleted one is torn down |
| `list_pages` | 2 namespaces, 3 names, pages of 1 or unlimited, chunks of 2, compaction from 1 tombstone, 5 writes, fairness | the store implements the map; index and counts are exact; a walk that is not shifted finds everything once, and ends |
| `telemetry` | 2 goroutines, 3 requests of three shapes, rings of 2, one frame, chaos on; paths with names that are also resources | counters agree with what was recorded; the latency ring, the recent requests and the window are of the right requests; a frame is off by what was in flight; what is advertised is served, and paths are told apart |
| `startup` | a preset under every file and every flags that set up to two fields, 3 Deployments, 2 namespaces, 6 pods, 5 Events | the scenario is well formed and as asked; shares add up; names are distinct; Events are retained and announced exactly |

Five runs expect a violation; each shows a place where the code does not do
what the repository says, quoted in `PROJECT.json`:

| Run | What happens |
|---|---|
| `stream_two_writers` | two transactions broadcast out of version order; a client resumes past the late notice |
| `sim_starve` | a ReplicaSet visited after the creation budget is spent is not dirty any more and stays short |
| `sim_delete` | a deleted Deployment is announced as MODIFIED by a later flush |
| `list_skip` | a compaction moves live objects before a cursor; the walk ends without them |
| `telemetry_watch` | an idle watch is recorded as `other`, so how long it was open is in the latency ring, which `metrics.go:133-134` says it must not be |

### What the code does that a reader may not expect

These are modelled as they are. A property names each as the exception it is:

- A channel drops a notice, then delivers a later one before the stream ends, and
  a bookmark may be ahead of notices on their way: a client that resumes from
  either misses what is between (`LossIsExplained`).
- An object that stops matching a watch's selector is not announced as gone
  (`watch.go:206`), a node flip may announce a node after its DELETED
  (`engine.go:417`), and LIST and WATCH disagree on the phase of a namespace, the
  namespace of a cluster-scoped object and `involvedObject.namespace`
  (`CacheIsExplained`, `SelectionsAgree`).
- The DELETED of a generic delete carries the version of the object's last
  change, so the client resumes from behind (`GoneIsExplained`).
- A resume is refused although the ring holds everything the client misses, when
  the version it resumes from lies in the gap before the oldest notice: that gap is
  of versions other kinds drew, and `floorLocked` is the oldest notice's version
  less one (`GoneIsExplained`).
- `Watches` counts a watch when it ends, also one refused with 400 or 410, and not
  those that are open; its comment says "cumulative watch connections opened"
  (`metrics.go:83`). No property is about it; `CountersAgree` compares the total,
  the errors, the open streams and the path rows.
- An idle watch is recorded as `other`, so its duration is in the percentiles:
  `LatencyIsRecent` says what is in the ring, `telemetry_watch` that this is not what
  the comment promises. A request chaos fails is recorded as `other`, too.
- A frame may show more errors than requests, by those counted while it was
  taken (`FrameIsNearlyConsistent`).
- `namespaces/<name>/status` is parsed as a resource called `status`
  (`PathsAreUnderstood`).
- The upper end of a range is raised to a lower end a flag sets, the seed is cut
  to a lower maximum, and a replica range may be negative (`ScenarioIsResolved`).
- The replica range is not the range of a Deployment's replicas, although
  `scenario.go:103-105` and `main.go:75-76` say so of a scenario without
  `workloads.pods`: then the mean of the range times the Deployments is the budget,
  and it is split by weight. Of the range 1 to 4, two Deployments of weights 4 and 1
  get 4 replicas and none. `BudgetIsSpent` says what is kept, the sum and the
  shares; each is drawn from the range only when that mean is 0 or less.
- A pod that is built ready and not yet available (`generate.go:599-602`) has no
  timer and is never promoted, although `src/README.md:24-25` says that pods are,
  after `minReadySeconds`. `simulation` starts from such a pod, too;
  `NobodyIsStranded` says that only the build makes them.

### Why the bounds are enough

- The rings wrap more than twice and hold 2 or 3 notices, so that empty, partly
  filled, exactly full and wrapped rings, and versions at, above and below the
  floor all occur. The proofs remove the bound for the main invariants.
- A channel of 2 can be empty, partly filled, full and overflowed.
- `selected`: 4 notices overrun a ring of 2 for a client that was cut off; a cut
  allows a resume or a refusal and another list, and so does a LIST the ring outruns
  before its watch. One version of another kind makes a gap: before the oldest
  notice, between two, or behind the last. Two objects give one that
  matches and one that does not, in two namespaces.
- `simulation`: the fourth pod leaves room for two that run, one that
  terminates and one that replaces it. Creation picks free identities; deadlock
  checking shows that it is never blocked for lack of one. `MaxOps` bounds
  writes and churn together; ticks are not bounded. New pods head for `Running`; a
  restart makes them crash-loop and recover, so ready, unready and available pods
  all occur, and the proofs hold for any targets. `ScaleFactor` is a constant
  (`ScaleNum / ScaleDen`), here the default 1/4.
- `list_pages`: `CompactAt` is 1024 in the code and 1 here, `listChunk` 500 and
  2; three puts and a delete leave a tombstone without compaction (less than
  half is dead), a second delete compacts. One client is enough: LIST requests
  only read, and do not see each other.
- `telemetry`: three requests fill rings of two and wrap them; two goroutines
  leave one in flight for every step of the other.
- `startup`: the values of files and flags lie below, inside and above every
  clamp; a third Deployment shares a namespace with the first; retention of 0,
  1 and 2 meets up to 5 Events, so the queue is never used, exactly full and
  overrun; 3 ticks at 3/2 events a tick record one Event in some, two in others.
- Symmetry is used in `telemetry` and `stream_two_writers` only, which check no
  liveness, over identities no definition tells apart.

### Fairness

- `StreamFairness`: a writer that committed broadcasts (`Write` goes on by
  itself); a handler with something to do does it (its `select` has a ready
  case); a goroutine in `unsubscribe` or in the loop of `DisconnectAll` runs code
  that only waits for short critical sections; the client reconnects, and does
  not hang up on every stream before its initial events are sent (assumptions
  about clients that informers meet). The second is strong fairness of
  `InitialEvents`: without it a client that never reads would be owed
  everything. Bookmarks, hang-ups, commits and the
  start of a churn pass are never forced.
- `SelectedWatch`: the client takes its next step and the handler delivers;
  writes and lost connections are bounded and never forced.
- `SimFairness`: the ticker ticks and a tick is straight-line code. Strong
  fairness for each queued pod: the heap is ordered by due time and a tick has
  a budget of at least one step, so new deadlines do not overtake an old one
  for ever; and for the wakeup of a request, which needs the engine's mutex
  between two ticks. Churn and API writes are never forced.
- `ListFairness`: the handler walks on, and the client follows its token.
  Writes are finite here (`MaxWrites`): with writes for ever, a walk need not
  end, and nothing in the code says it does.

`selected`, `telemetry` and `startup` turn the deadlock check off: their
behaviours end when the bounded writes, requests or ticks are used up. Every
other run checks for deadlock.

## 4. Proofs

The theorems hold for every value of the constants. The assumptions are those
the modules name (`WatchHubAssumption`, `WatchStreamAssumption`, `StoreAssumption`,
`ListPagesAssumption`, `PodTableAssumption`, `SimulationAssumption`,
`SelectedAssumption`, `TelemetryAssumption`, `StartupAssumption`), which the runs
evaluate. Five
theorems of `StreamProofs` also assume one writer, `Writers = {w}`: with two they
are false, as `stream_two_writers` shows.

| Theorem | Says | From |
|---|---|---|
| `WatchHubProofs!TypeCorrect` | `Spec => []TypeOK` | by itself |
| `WatchHubProofs!RingCorrect` | `Spec => []RingIsLogTail` | `TypeOK /\ RingInv` |
| `WatchHubProofs!HubImplementsFeed` | `Spec => ImplementsFeed` | `RingInv /\ OrderInv /\ TearInv /\ LeftInv` |
| `WatchHubProofs!ReplayComplete` | `Spec => []ResumeCovered` | `TypeOK /\ RingInv /\ OrderInv` |
| `WatchHubProofs!StreamsHaveNoGap` | `Spec => []NoSilentGap` | `TypeOK /\ RingInv /\ OrderInv /\ GotInv` |
| `WatchHubProofs!TearDownAlwaysSafe` | `Spec => []TearDownIsSafe`, from `SendsAreSafe` and `CloseIsOnce` | `TypeOK /\ TearInv` |
| `StreamProofs!StreamRingCorrect`, `StreamTearDownSafe` | the same of `StreamSpec`, any number of writers | `StreamInv` |
| `StreamProofs!StreamsInOrder` | `[]InOrder`, one writer: the notices a stream sends, not its bookmarks | `StreamInv /\ LineInv /\ SentInv` |
| `StreamProofs!LossAlwaysExplained` | `[]LossIsExplained`, one writer | the same, `ConnInv` and `SeenInv` |
| `StreamProofs!StreamGapFree`, `StreamReplayComplete` | `[]NoSilentGap`, `[]ResumeCovered` of `StreamSpec`, one writer | `StreamInv /\ LineInv /\ GotInv` |
| `StreamProofs!StreamImplementsFeed` | `StreamSpec => ImplementsFeed`, one writer | `StreamInv /\ LineInv /\ LeftInv /\ BoundInv` |
| `StoreProofs!StoreTypesCorrect`, `IndexAlwaysExact`, `CountsAlwaysExact`, `NamespacesAlwaysSorted` | `ListSpec => []` of the four invariants of `Store` | `StoreInv` (`StoreInvariant`) |
| `StoreProofs!StoreImplementsMap` | `ListSpec => ImplementsMap` | `StoreInv` |
| `ListPagesProofs!GapsAreExplained` | `ListSpec => []GapIsExplained` | `StoreInv /\ WalkInv` |
| `SelectedProofs!CachesAreExplained`, `SelectionsAlwaysAgree` | `Spec => []CacheIsExplained`, `[]SelectionsAgree` | `SelectedInv` (`SelectedAlways`) |
| `SelectedProofs!FilterIsAlwaysWanted` | `Spec => []FilterIsWanted`, any texts | `WishIsRead`, about the parsers |
| `SelectedProofs!RefusalsAreExplained` | `GoneIsExplained` | `SelectedInv` |
| `SimulationProofs!SimTypesCorrect`, `StatusAlwaysCounted`, `ClusterAlwaysCounted` | `SimSpec => []` of the three | `Core` |
| `SimulationProofs!NobodyEverStranded` | `SimSpec => NobodyIsStranded` | `Core` |
| `SimulationProofs!TimersAreNotLost`, `QueueHasSteps`, `DeletedPodsStaySilent` | `[]NoLostTimer`, `[]QueuedHasStep`, `DeletedPodIsSilent` | `Core /\ TimerInv` |
| `SimulationProofs!ScalesAreNotForgotten`, `OldSetsStayAtZero` | `[]ScaleReachesReplicaSet`, `[]OldSetsAreZero` | `Core /\ WorkInv` |
| `SimulationProofs!StatusesAreAnnounced` | `[]StatusIsAnnounced` | `Core /\ WorkInv /\ NoticeInv` |
| `TelemetryProofs!CountersAreExact`, `LatenciesAreRecent` | `Spec => []CountersAgree`, `[]LatencyIsRecent` | `RecordInv` |
| `TelemetryProofs!FramesAreNearlyConsistent` | `[]FrameIsNearlyConsistent` | `RecordInv /\ ViewInv` |
| `TelemetryProofs!PathsAreAlwaysUnderstood` | `[]PathsAreUnderstood`, any names | the tables of `Routing` |
| `StartupProofs!ScenarioHolds` | `Spec => []ScenarioIsResolved` | `CfgInv` (`AlwaysServe`) |
| `StartupProofs!BudgetIsAlwaysSpent` | `[]BudgetIsSpent`, any weights | `CfgInv` |
| `StartupProofs!NamesHold` | `[]NamesAreDistinct` | `CfgInv /\ NamesInv` |
| `StartupProofs!RetentionHolds`, `AnnouncementsHold` | `[]RetentionIsExact`, `[]EventsAreAnnounced` | `CfgInv /\ LogInv` (`AlwaysServe`) |

**Watch hub.** `RingIsLogTail` speaks of the window read through `Start` and
`Count`, whose slots shift when the ring wraps, so it is not inductive as it
stands. `RingInv` fixes, slot by slot, which element of `log` each ring slot
holds; `BroadcastRing` shows a broadcast keeps it, and `RingInvSuffices` gets
the window back. `ResumeCovered` also needs that notices arrive in version order
(`OrderInv`), which is what one writer gives, and `AcceptedIsCovered`: what was
evicted is not newer than the floor. With two writers `OrderInv` is false, and
`stream_two_writers` shows the consequence. `NoSendOnClosed` and `NoDoubleClose`
rest on `TearInv`: an agent past the swap found the flag down, so it is alone
and the channel is open. `TypeOK` leaves out `got`, a history no guard reads.
`NoSilentGap` compares what a stream was sent with what it was owed, a selection
from the log; `Newer` gives the k-th element of the selection by its rank, and of
an ordered log it is a suffix (`NewerIsSuffix`, `NewerOfLog`), which a broadcast
extends by one: no induction over sequences is needed.
The refinement (`HubImplementsFeed`) puts these together, one lemma for each action
of the feed: a broadcast is an announcement whose `lost` streams are those with a
full channel, and what an accepted subscription replays is the log from some place
on. `LeftInv` is what attaching needs: an identity that is free to be used again
is not registered any more, since whoever took its flag removes it before the
identity is let go.

**Watch streams.** `StreamInv` lifts the types and invariants of the hub to any
number of writers, whose notices reach the ring in any order; what it keeps is
about slots and channels, not about versions. With one writer, `LineInv` puts the
whole line of notices in order: what was broadcast, then the writer's queue, then
all of it above the version of the seal. `SentInv` says that what a stream
has been handed and what its channel holds are in the order of the log. `ConnInv`
gives an open watch a subscription of its own, whose handler has not returned. `SeenInv` is
`LossIsExplained` made inductive: for a client that is not excused, every change
it has not seen is ahead of where it would resume, and what is not buffered for
its stream comes after all that is, and is not broadcast yet.
`StreamImplementsFeed` is the refinement of the hub again, inside the whole: commits,
lists and the client's own moves are stutters of the feed, and a broadcast that the
seal has delayed is its announcement.

**Store.** `StoreInv` is one condition per bucket, `Sound`: index and live slots
are inverse to each other, and the tombstone count is the difference of length
and live slots. A bucket is replaced in, appended to, or given a tombstone, and
there is one lemma for each (`ReplaceIsSound`, `AppendIsSound`, `TombIsSound`).
Compaction (`CompactIsSound`) rests on `KeptFacts`: the rank of a live slot
among the live slots is one-to-one, hence, by their number, onto, so the
compacted bucket holds every live object once. That `bucketFor` keeps the
namespaces sorted (`BucketKeepsOrder`) rests on `PlaceSplits`: the number of
smaller names is a position that splits the list. The total counts a set that
each step changes by at most one element, so no kind needs to be finite. The
refinement follows because `PutKeeps` and `DeleteKeeps` also say what `Get`
returns afterwards (`Written`).

**LIST walks.** `Complete` speaks of walks that have ended; `WalkInv` says what holds
on the way: of the objects that were there from its first request on, a walk whose
cursor was not moved has received exactly those that match and that it passed
(`Tracks`). A chunk keeps it because its two cursors enclose what it visited
(`ResumeSplits`: the positions ahead have a first one, and what is before one of the
first n is one of them) and no two positions hold one object (`KeyAtPlace`).
Writes keep it because an object stays on its side of the cursor: a replacement or
an append moves no slot; a new bucket moves the namespaces from its place on by one
(`BucketShifts`); a compaction renumbers a slot by its rank, which does not take it
over a cut with only live slots before it (`RankKeeps`). So the condition in
`shifted` is exact enough: any other write leaves a walk complete.

**Selected watches.** An account of an object is owed only to a client that has
nothing about it ahead of it in the log; `Informed` says that such a client
holds what is to be held (`Explained`), wherever it would read on. A write puts a
notice ahead of the client, so it only has to keep the account of other objects
(`WriteStep`); a resume reads on from the same place or an earlier one, so less is
owed; a delivery that is the last about its object accounts for it
(`LastDelivered`), because `Told` says the last notice about an object tells what is
stored, except for a node announced after its delete. `Typed` and `Told` also
bound the versions: the notice of a generic delete carries the version of the
one before, which is why the order in the log is weak and the client may be set
back. `ver` is never ahead of what was sent, so a resume that is accepted starts
where the client stands (`Watch` need not clip it). `RefusalsAreExplained` is
about every history, its `reached` a number that only the client's own steps move.
Between two notices of the log other kinds have drawn versions, so `Numbered` says of
their versions only that they grow, and that the last is not ahead of the counter:
the version below the oldest notice's is what a refused client lacks, and it may
have been drawn by another kind.

**Selector texts.** `FilterIsAlwaysWanted` is about the parsers alone, since a filter
is never changed; it has two halves. A part, taken by itself, is read as what it was
written for (`LabelIsRead`, `FieldIsRead`): of the operators the first in the
code's order is found, at the place where it was put, because words are none of its
tokens (`ReadsAs`, `BinaryReads`, `SetReads`); the values of a set are what is
neither parenthesis nor comma (`ParseSet`). And a text is split into the parts
it was joined from (`PartsAreFound`): the ends of the parts are a strictly
increasing layout (`EndsAreApart`, `OnePart`), the depth of a place is 1 exactly
inside the set of its part and 0 elsewhere (`DepthsAre`, from place to place), so
that the commas at depth 0 are the ends and no others (`CommasAre`); as many ends
lie before the n-th as its number says (`FirstEnds`), and `SplitAt` finds its way
(`SplitAtEnds`). A field selector has no sets, so that every comma ends a part. The
induction over places is by the least place where the claim would fail (`UpTo`).

**Simulation.** `SimulationProofs` begins with one lemma per `Tx` method: it keeps
`Counted`, every counter of the table equal to a scan. They have one form: the
operation adds pods to some of the counted sets and takes pods from others, so
each counter moves by a cardinality. `Core` adds that what is queued is alive,
without which a lifecycle step might count a pod that is gone. `TimerInv` says
where a pod's next step is remembered at every moment: in the queue, or owed by
a wakeup on its way; it needs each engine step to be one of five kinds for each
pod (`PodStep`: still, moved, gone, ending, born). `WorkInv` says the same of a
scale and its ReplicaSet, and that the ReplicaSets of two Deployments are
apart, without which a rollout of one could zero the current set of another.
`StatusIsAnnounced` holds between ticks only; `NoticeInv` says what holds on the way
through one: a status that is not the one announced last is marked, a ReplicaSet's by
the dirty set or a wakeup that is owed, a Deployment's by the dirty set or by one of
its ReplicaSets that reconciliation has yet to visit. Every step has to leave the mark
for what it changes (`PodCounters` and `ReconcileCounters` say which counters that is).
When an emptied ReplicaSet is removed and its Deployment's mark with it, that
Deployment is deleted, so nothing is lost. The sums in a Deployment's status
are of equal functions, so their value is not needed. A name is never one of a
Deployment and of a ReplicaSet (`SimulationAssumption`): the code keeps the two kinds
in stores of their own, the model in one `shown`.

**Telemetry.** `RecordInv` accounts for each request by where in `Record` it is:
a counter equals the requests recorded plus those inside that have passed it
(`Counted`, `Rows`), and the slots of the latency ring are those of the requests
that are no watch, by how many came after each (`LatencyInv`). A frame is taken in
three steps; `ViewInv` bounds what each of them loaded by what was counted since,
keeps the rings the end of `done`, and what was cut off the window older than the
last frame.

**Paths.** The tables of `Routing` are constants, but over any names the paths are
infinitely many. A client's path is a head (`api` or `apis`, group, version), a
scope and an end; `PathParses` follows `parsePath` through them and gets back what
the path was built from, `StatusParses` does for the one form that is taken for another,
and `GetIsServed` finds the kind again in the table. For the rows,
`NormalSteps` says what `normalize` makes of each segment, given what it made of the
one before; `NormalPath` concludes that the row of a path is the path of its kind
with both names hidden, whatever they are, and `EqualPath` that two endpoints have
two rows. The literals of paths with braces are opaque to the SMT solver, so the
proof gives them names (`OfNamespace`, `OfObject`) and never unfolds them there.

**Start-up.** `distribute` is a sum, a whole part for each share and one more for
the first few. What its recursive sums return is proved through the least number
they would not hold for (`UpTo`): the whole parts fall short of the exact shares by
less than one each (`WholesFallShort`), so less than one for each is left
(`LittleIsLeft`), and handing that out one by one spends it (`RoundSpends`) and
leaves nobody far from his share (`RoundIsNear`). That a resolved scenario is well formed and holds what was asked is
arithmetic over the nine fields: `ResolveClamps`, `FlagsHold` and
`ClampedReloads`, by cases on the clamps. `Retains` says where the eviction queue
stands: it is the last `events.max` Events recorded, deleted ones included, and
the store is what of it no client deleted; `RecordRetains` shows one recording
keeps it. `Announced` says that the notices, read from `listed` on, give the
store, each Event beginning and ending at most once. Each recording or deletion
adds at most two notices (`PutAnnounced`, `EndAnnounced`); a transaction that
records many follows by the least number of recordings that would not
(`LeastElement`), as induction is out of reach. For the names, `Numbered` says the
name of a Deployment counts those of its app before it in its namespace, hence two
are different (`NumberedDistinct`). A Service takes its Deployment's name in the
first round, and from the second on a name that ends in its own number: `Taken`
keeps that for all Services made so far. Two turns of one round pick two
Deployments (`TurnsDiffer`, on remainders), names that end in two numbers differ,
and a name with two numbers behind that of a Deployment is too long for a
Deployment (`TwiceLonger`): `NextIsFree`. So the check of `generate.go:705` is
needed exactly where `svc-name` of a later round is also the numbered name of a
Deployment.

`StoreTypeOK`, `NamespacesSorted` and `QueuedHasStep` are proved and not listed
in a run: the first two are part of what `StoreInv` carries, and the last of
`TimerInv`.

Only model-checked: all liveness (`OverflowEndsStream`, `EverythingArrives`,
`ClosedIsTornDown`, `Converges`, `DeleteTearsDown`,
`WalkEnds`, `CatchesUp`), which needs fairness and ENABLED and is out of the
prover's reach. Every other property of a passing run is a theorem.

## 5. Not modelled

- `metrics.k8s.io`: synthetic usage from a pod and the clock; no state, and
  nothing the repository promises of it. API types: JSON structures.
- Stale heap entries, and the fractional accumulators that set churn rates.
- Builds whose template is not started, and the empty historical ReplicaSets of
  the initial build: they are never dirty, and hold no pod.
- A client that hangs up in the middle of the replay; `remainingItemCount`; GET
  of an object; pod logs; parsing of request bodies.
- Latency and the delays of handlers, which change no state; bytes and items of
  a request; CPU and memory readings; percentiles; the order
  of the hottest paths.
- How many background events a second come to: the accumulator is modelled, its
  pace is not checked.
- Durations, probabilities and texts of a scenario; labels, templates and
  addresses the generator draws; shutdown; the dashboard, which only reads.

## 6. Plan

Done, in this order because watches are the contract with clients and the tick
is where all state changes: `WatchHub`, `WatchStream`, `PodTable`, `Simulation`,
`Store`, `ListPages`; then selectors, telemetry and start-up; the proofs of the
hub, the streams, the simulation, the store, its LIST walks, selected watches, the
telemetry and the start-up.

What is left:

- A multi-tick instance of the churn accumulators.
