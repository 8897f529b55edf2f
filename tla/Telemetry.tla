------------------------------ MODULE Telemetry ------------------------------
(***************************************************************************)
(* What the server counts about its requests (internal/metrics, the        *)
(* deferred Record of serve) and what a dashboard frame sees of it.        *)
(*                                                                         *)
(* Every request is a goroutine: it is routed, may be failed by chaos, may *)
(* hold a watch open, and is then recorded: one atomic addition after the  *)
(* other, then the rings, path statistics and rate window under the lock.  *)
(* Snapshot loads the atomics one after the other, then takes the lock.    *)
(* Bytes and items, which are added like Total, and the loads of the       *)
(* counters no property compares are left out, and so are the percentiles. *)
(***************************************************************************)
EXTENDS Routing, FiniteSets

CONSTANTS
    Gs,              \* goroutines that serve requests
    Requests,        \* [method, path, watch] a client may send
    metrics, chaos,  \* cfg.API.Metrics, cfg.API.Chaos
    LatencySamples, RecentRequests, RateWindow,
    MaxRequests, MaxTime, MaxFrames   \* bounds of one behaviour

ASSUME TelemetryAssumption ==
    /\ IsFiniteSet(Gs)
    /\ LatencySamples \in Nat \ {0} /\ RecentRequests \in Nat \ {0}
    /\ {metrics, chaos} \subseteq BOOLEAN
    /\ RateWindow \in Nat /\ {MaxRequests, MaxTime, MaxFrames} \subseteq Nat

VARIABLES
    now,                       \* the clock
    pc, rec,                   \* each goroutine: where it is, its metrics.Request
    total, errors, byKind,     \* Total, Errors; Lists, Gets, Writes, Watches, others
    activeWA, gone410, chaosed,
    latency, latNext, latFull,
    recent, recNext, recFull,
    paths,                     \* PathStat per normalized path
    window,
    snap, frame, frames,       \* Snapshot in progress, the last one, how many
    done, during               \* history: recorded requests; Totals since the
                               \* frame in progress loaded Total

flowVars == <<pc, rec>>
atomVars == <<total, errors, byKind>>
liveVars == <<activeWA, gone410, chaosed>>
lockVars == <<latency, latNext, latFull, recent, recNext, recFull, paths, window, done>>
snapVars == <<snap, frame, frames>>
vars == <<now, flowVars, atomVars, liveVars, lockVars, snapVars, during>>

Kinds == {"discovery", "list", "get", "write", "watch", "other"}
Idle  == [start |-> 0, req |-> [method |-> "", path |-> <<>>, watch |-> FALSE],
          kind |-> "other", status |-> 200, took |-> 0]
NoSnap == [pc |-> "idle", at |-> 0, total |-> 0, errors |-> 0]

Init ==
    /\ now = 0
    /\ pc = [g \in Gs |-> "idle"] /\ rec = [g \in Gs |-> Idle]
    /\ total = 0 /\ errors = 0 /\ byKind = [k \in Kinds |-> 0]
    /\ activeWA = 0 /\ gone410 = 0 /\ chaosed = 0
    /\ latency = [i \in 0 .. LatencySamples - 1 |-> 0] /\ latNext = 0 /\ latFull = FALSE
    /\ recent = [i \in 0 .. RecentRequests - 1 |-> Idle] /\ recNext = 0 /\ recFull = FALSE
    /\ paths = <<>> /\ window = <<>>
    /\ snap = NoSnap /\ frame = <<>> /\ frames = 0
    /\ done = <<>> /\ during = 0

-----------------------------------------------------------------------------
(* A request.                                                              *)

Started == Len(done) + Cardinality({g \in Gs : pc[g] # "idle"})

RouteOf(r) == Route(r.method, r.path, r.watch, metrics)

Accept(g) ==
    /\ pc[g] = "idle" /\ Started < MaxRequests
    /\ \E r \in Requests : rec' = [rec EXCEPT ![g] = [Idle EXCEPT !.start = now, !.req = r]]
    /\ pc' = [pc EXCEPT ![g] = "routed"]
    /\ UNCHANGED <<now, atomVars, liveVars, lockVars, snapVars, during>>

\* The request is answered with status and recorded under kind next.
Answer(g, kind, status) ==
    /\ rec' = [rec EXCEPT ![g].kind = kind, ![g].status = status]
    /\ pc' = [pc EXCEPT ![g] = "answered"]

\* chaos: before the kind is known to the record. It answers 500 or 429.
Chaos(g) ==
    /\ pc[g] = "routed" /\ chaos
    /\ Served(ParsePath(rec[g].req.path))
    /\ Answer(g, "other", 500)
    /\ chaosed' = chaosed + 1
    /\ UNCHANGED <<now, atomVars, activeWA, gone410, lockVars, snapVars, during>>

Statuses(route) ==
    CASE route = "unknown" -> {404}
      [] route = "metrics" /\ ~metrics -> {404}
      [] route = "refused" -> {405}
      [] route \in {"discovery", "static", "empty"} -> {200}
      [] route = "list" -> {200, 400}
      [] route \in {"scale", "update"} -> {200, 400, 404}
      [] OTHER -> {200, 404}

\* A handler that answers and returns.
Handle(g) ==
    /\ pc[g] = "routed"
    /\ LET route == RouteOf(rec[g].req)
       IN /\ route \notin {"watch", "idle"}
          /\ \E status \in Statuses(route) : Answer(g, RecordedKind(route), status)
    /\ UNCHANGED <<now, atomVars, liveVars, lockVars, snapVars, during>>

\* handleWatch: the selector is invalid, or the version asked for is too old.
WatchRefused(g) ==
    /\ pc[g] = "routed" /\ RouteOf(rec[g].req) = "watch"
    /\ \/ Answer(g, "watch", 400) /\ UNCHANGED gone410
       \/ Answer(g, "watch", 410) /\ gone410' = gone410 + 1
    /\ UNCHANGED <<now, atomVars, activeWA, chaosed, lockVars, snapVars, during>>

\* handleWatch, idleWatch: the stream is open.
Open(g) ==
    /\ pc[g] = "routed" /\ RouteOf(rec[g].req) \in {"watch", "idle"}
    /\ activeWA' = activeWA + 1
    /\ rec' = [rec EXCEPT ![g].kind = RecordedKind(RouteOf(rec[g].req))]
    /\ pc' = [pc EXCEPT ![g] = "open"]
    /\ UNCHANGED <<now, atomVars, gone410, chaosed, lockVars, snapVars, during>>

\* The stream ends: the deferred ActiveWA.Add(-1).
Close(g) ==
    /\ pc[g] = "open"
    /\ activeWA' = activeWA - 1
    /\ Answer(g, rec[g].kind, 200)
    /\ UNCHANGED <<now, atomVars, gone410, chaosed, lockVars, snapVars, during>>

-----------------------------------------------------------------------------
(* Record.                                                                 *)

\* The deferred call fixes the duration; Total.Add.
CountTotal(g) ==
    /\ pc[g] = "answered"
    /\ rec' = [rec EXCEPT ![g].took = now - rec[g].start]
    /\ total' = total + 1
    /\ during' = during + 1
    /\ pc' = [pc EXCEPT ![g] = "counted"]
    /\ UNCHANGED <<now, errors, byKind, liveVars, lockVars, snapVars>>

Failed(r) == r.status >= 400

\* Errors.Add and the counter of the kind.
CountKind(g) ==
    /\ pc[g] = "counted"
    /\ errors' = errors + (IF Failed(rec[g]) THEN 1 ELSE 0)
    /\ byKind' = [byKind EXCEPT ![rec[g].kind] = @ + 1]
    /\ pc' = [pc EXCEPT ![g] = "ingest"]
    /\ UNCHANGED <<now, rec, total, liveVars, lockVars, snapVars, during>>

\* Fault: the duration of a watch goes into the latency ring.
SampledAlways(r) == TRUE

\* Whether the duration of r is a latency.
Sampled(r) == r.kind # "watch"

\* Milliseconds charged to the path.
Charged(r) == IF r.kind = "watch" THEN 0 ELSE r.took

Wrap(i, n) == IF i + 1 = n THEN 0 ELSE i + 1

Wrapped(i, n, full) == full \/ i + 1 = n

\* The row of the hot-path table a request is counted under.
Row == [q \in Requests |-> <<q.method>> \o Normalize(q.path)]

KeyOf(r) == Row[r.req]

NewStat == [count |-> 0, errors |-> 0, sum |-> 0, max |-> 0]

\* Fault: an error is charged to the count of the path only.
TallyKeepingErrors(s, r) == [s EXCEPT !.count = @ + 1, !.sum = @ + Charged(r)]

\* The statistics of a path after r.
Tally(s, r) ==
    [count  |-> s.count + 1,
     errors |-> s.errors + (IF Failed(r) THEN 1 ELSE 0),
     sum    |-> s.sum + Charged(r),
     max    |-> IF Charged(r) > s.max THEN Charged(r) ELSE s.max]

\* The section under Collector.mu.
Ingest(g) ==
    LET r   == rec[g]
        key == KeyOf(r)
        old == IF key \in DOMAIN paths THEN paths[key] ELSE NewStat
    IN /\ pc[g] = "ingest"
       /\ IF Sampled(r)
          THEN /\ latency' = [latency EXCEPT ![latNext] = r.took]
               /\ latNext' = Wrap(latNext, LatencySamples)
               /\ latFull' = Wrapped(latNext, LatencySamples, latFull)
          ELSE UNCHANGED <<latency, latNext, latFull>>
       /\ recent' = [recent EXCEPT ![recNext] = r]
       /\ recNext' = Wrap(recNext, RecentRequests)
       /\ recFull' = Wrapped(recNext, RecentRequests, recFull)
       /\ paths' = [k \in DOMAIN paths \cup {key} |-> IF k = key THEN Tally(old, r) ELSE paths[k]]
       /\ window' = Append(window, r.start)
       /\ done' = Append(done, r)
       /\ pc' = [pc EXCEPT ![g] = "idle"]
       /\ rec' = [rec EXCEPT ![g] = Idle]
       /\ UNCHANGED <<now, atomVars, liveVars, snapVars, during>>

-----------------------------------------------------------------------------
(* Snapshot.                                                               *)

SnapTotal ==
    /\ snap.pc = "idle" /\ frames < MaxFrames
    /\ snap' = [NoSnap EXCEPT !.pc = "errors", !.at = now, !.total = total]
    /\ during' = 0
    /\ UNCHANGED <<now, flowVars, atomVars, liveVars, lockVars, frame, frames>>

SnapErrors ==
    /\ snap.pc = "errors"
    /\ snap' = [snap EXCEPT !.pc = "lock", !.errors = errors]
    /\ UNCHANGED <<now, flowVars, atomVars, liveVars, lockVars, frame, frames, during>>

\* Fault: drops one entry too many.
TrimmedMore(w, cutoff) ==
    LET kept == {i \in DOMAIN w : \E j \in 1 .. i - 1 : w[j] >= cutoff}
    IN SubSeq(w, Len(w) - Cardinality(kept) + 1, Len(w))

\* The window without its leading entries before the cutoff.
Trimmed(w, cutoff) ==
    LET kept == {i \in DOMAIN w : \E j \in 1 .. i : w[j] >= cutoff}
    IN SubSeq(w, Len(w) - Cardinality(kept) + 1, Len(w))

\* Samples in the latency ring.
Filled == IF latFull THEN LatencySamples ELSE latNext

\* The k-th most recent request, k = 0 the last.
RecentAt(k) == recent[(recNext - 1 - k + 2 * RecentRequests) % RecentRequests]

RecentShown == IF recFull THEN RecentRequests ELSE recNext

SnapLocked ==
    /\ snap.pc = "lock"
    /\ window' = Trimmed(window, snap.at - RateWindow)
    /\ frame' = [total |-> snap.total, errors |-> snap.errors, at |-> snap.at,
                 late |-> during, rps |-> Len(window'),
                 n |-> Len(done),
                 recent |-> [k \in 1 .. RecentShown |-> RecentAt(k - 1)]]
    /\ frames' = frames + 1
    /\ snap' = NoSnap
    /\ UNCHANGED <<now, flowVars, atomVars, liveVars, latency, latNext, latFull,
                   recent, recNext, recFull, paths, done, during>>

Tick ==
    /\ now < MaxTime
    /\ now' = now + 1
    /\ UNCHANGED <<flowVars, atomVars, liveVars, lockVars, snapVars, during>>

Serve(g) ==
    \/ Accept(g) \/ Chaos(g) \/ Handle(g) \/ WatchRefused(g) \/ Open(g) \/ Close(g)
    \/ CountTotal(g) \/ CountKind(g) \/ Ingest(g)

Snapshot == SnapTotal \/ SnapErrors \/ SnapLocked

Next == Tick \/ Snapshot \/ \E g \in Gs : Serve(g)

Spec == Init /\ [][Next]_vars
-----------------------------------------------------------------------------
(* Properties.                                                             *)

\* Recorded requests, and those inside Record that are past the given points.
Finished(P(_))  == Cardinality({i \in DOMAIN done : P(done[i])})
Inside(at, P(_)) == Cardinality({g \in Gs : pc[g] \in at /\ P(rec[g])})
Every(r) == TRUE

\* Each row counts the requests recorded under it.
RowsCount ==
    /\ DOMAIN paths = {KeyOf(done[i]) : i \in DOMAIN done}
    /\ \A k \in DOMAIN paths :
        /\ paths[k].count  = Cardinality({i \in DOMAIN done : KeyOf(done[i]) = k})
        /\ paths[k].errors = Cardinality({i \in DOMAIN done :
                                            KeyOf(done[i]) = k /\ Failed(done[i])})

\* The atomics and the path statistics count the same requests, though each is
\* updated in a step of its own (metrics.go:113-176): they differ by the
\* requests that are inside Record. ActiveWA counts the streams that are open,
\* served and idle (watch.go:141, discovery.go:219). Nothing is said of Watches:
\* it counts the watches that have ended, the refused among them, though its
\* comment says "opened" (metrics.go:83).
CountersAgree ==
    /\ total  = Finished(Every) + Inside({"counted", "ingest"}, Every)
    /\ errors = Finished(Failed) + Inside({"ingest"}, Failed)
    /\ RowsCount
    /\ activeWA = Inside({"open"}, Every)

\* Where the latency ring has the k-th last duration, k = 0 the last.
LatencyAt(k) == latency[(latNext - 1 - k + LatencySamples) % LatencySamples]

\* The latency ring holds the durations of the last requests recorded under a
\* kind other than "watch" (metrics.go:133-147), however often it wrapped. That
\* is not what the comment there promises: a watch on an empty kind is recorded
\* as "other", and how long it was open is in the ring (WatchesAreNotSampled).
LatencyIsRecent ==
    LET took     == {i \in DOMAIN done : done[i].kind # "watch"}
        After(i) == Cardinality({j \in took : j > i})
    IN /\ Filled = IF Cardinality(took) < LatencySamples
                   THEN Cardinality(took) ELSE LatencySamples
       /\ \A i \in took : After(i) < LatencySamples => LatencyAt(After(i)) = done[i].took

\* The request held a stream open.
Streamed(r) == r.req.watch /\ r.status = 200

\* Every sample is the duration of a request, not of a watch: "A watch is a
\* connection, not a request: its duration is how long the client stayed
\* subscribed, so counting it would swamp the percentiles" (metrics.go:133-134).
WatchesAreNotSampled ==
    \A k \in 0 .. Filled - 1 :
        \E i \in DOMAIN done : ~Streamed(done[i]) /\ done[i].took = LatencyAt(k)

\* A frame shows the last requests recorded, the newest first, across the wrap
\* of the ring (metrics.go:292-296).
RecentNewestFirst ==
    /\ Len(frame.recent) = IF frame.n < RecentRequests THEN frame.n ELSE RecentRequests
    /\ \A k \in DOMAIN frame.recent : frame.recent[k] = done[frame.n + 1 - k]

\* The window is in order of completion but holds start times, and Snapshot
\* cuts a prefix (metrics.go:248-253): no request of the last seconds is missing
\* from the rate, and one that is older is counted only behind one that is not.
RateCoversWindow ==
    LET fresh == {i \in 1 .. frame.n : done[i].start >= frame.at - RateWindow}
    IN frame.rps = IF fresh = {} THEN 0
                   ELSE frame.n + 1 - (CHOOSE i \in fresh : \A j \in fresh : i <= j)

\* The counters of a frame are off from its rings by no more than the requests
\* counted between the two, and no request is missing but those inside Record.
CountersNearRings ==
    /\ frame.errors <= frame.total + frame.late
    /\ frame.total <= frame.n + Cardinality(Gs)

\* A frame is no consistent view (metrics.go:202): it loads the counters one by
\* one and reads the rings later, while requests are served. What it shows is
\* nevertheless the end of the recorded requests at one moment, beside counters
\* of nearly the same moment.
FrameIsNearlyConsistent ==
    frames > 0 => RecentNewestFirst /\ RateCoversWindow /\ CountersNearRings

\* The tables of Routing never change: one look at them, before the first
\* request, is enough.
AtStart == Started = 0 /\ now = 0 /\ frames = 0 /\ snap = NoSnap

\* What discovery advertises is served (discovery.go:123-196, server.go:66-99):
\* the path to an advertised kind is understood as that, and a GET on it reaches
\* the handler of the kind, whatever the objects are called. One path does not:
\* the status of a namespace, whose name is taken for the namespace of a
\* resource called "status". And one row of the hot-path table is one endpoint
\* (metrics.go:178-180): two paths share a key exactly if they differ in the
\* names of objects and namespaces only, even where an object has the name of a
\* resource. Namespaces themselves are left alone on purpose.
PathsAreUnderstood == AtStart => Misread = NamespaceStatus /\ Misfiled = {}
=============================================================================
