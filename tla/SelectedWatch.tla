---------------------------- MODULE SelectedWatch ----------------------------
(***************************************************************************)
(* An informer with a selector: a client that lists the objects of one     *)
(* kind which match, then watches with the same selector, and the objects  *)
(* that start and stop matching meanwhile (internal/apiserver/list.go and  *)
(* watch.go, write.go, the node and removal operations of cluster.go).     *)
(*                                                                         *)
(* What WatchHub proves is taken here as what a hub does: an accepted      *)
(* resume replays every newer notice, a refused one answers 410.  Notices  *)
(* are broadcast in version order (WatchStream is about when they are not).*)
(***************************************************************************)
EXTENDS Selectors, TLC

CONSTANTS
    Ids,          \* objects
    Initial,      \* Initial[kind]: the objects the build created
    LabelsOf,     \* labels of an object, fixed for its life
    NamespaceOf,  \* its namespace, for the namespaced kinds
    Queries,      \* Queries[kind]: what clients ask for: a namespace, or "", and two
                  \* sequences of requirements, on labels and on fields
    RingSize,     \* notices a hub keeps
    MaxNotices,   \* bound on the notices of one behaviour
    MaxOthers,    \* bound on the versions other kinds draw
    MaxDrops      \* bound on lost connections

ASSUME SelectedAssumption ==
    /\ IsFiniteSet(Ids)
    /\ RingSize \in Nat \ {0} /\ MaxNotices \in Nat
    /\ MaxOthers \in Nat /\ MaxDrops \in Nat
    /\ DOMAIN Queries \subseteq DOMAIN FieldValue
    /\ \A kind \in DOMAIN Queries :
        /\ Initial[kind] \subseteq Ids
        /\ \A q \in Queries[kind] : IsWish(q)

VARIABLES
    kind,     \* the resource of this instance
    query,    \* what the client asks for
    filter,   \* what parseFilter makes of its texts, the same at every request
    store,    \* store[id]: the object, or None
    rv,       \* Cluster.rv: one counter for every kind
    log,      \* every notice of this kind broadcast, in order
    pc,       \* client: "start", "walk", "resume", "on"
    ver,      \* client: the version it would resume from
    cache,    \* client: the objects it holds
    sent,     \* handler: notices of log dealt with
    drops,    \* connections lost so far
    reached,  \* history: the version of the last notice the client was sent
    left      \* history: objects a notice of which did not match, still cached

serverVars == <<kind, query, filter, store, rv, log>>
clientVars == <<pc, ver, cache, sent, drops, reached, left>>
vars       == <<serverVars, clientVars>>

ClusterScoped == {"nodes", "namespaces"}
Scope(id) == IF kind \in ClusterScoped THEN "" ELSE NamespaceOf[id]

SealRV == Cardinality(Ids)
Kept   == IF Len(log) < RingSize THEN Len(log) ELSE RingSize
Oldest == Len(log) - Kept + 1

\* floorLocked: one less than the version of the oldest notice in a full ring.
Floor == IF Len(log) < RingSize THEN SealRV ELSE log[Oldest].rv - 1

\* No object: versions start at 1.
None == [rv |-> 0]

\* Fields of an object whose changing part is state, a function on paths, and
\* the fields after a change of some.
Fields(id, state)       == (Name :> <<id>>) @@ (NS :> <<Scope(id)>>) @@ state
Changed(fields, change) == change @@ fields

Object(id, state, version) ==
    [id |-> id, rv |-> version, ns |-> Scope(id), labels |-> LabelsOf[id],
     fields |-> Fields(id, state)]

NodeName     == <<"spec.nodeName">>
Phase        == <<"status.phase">>
Cordoned     == <<"spec.unschedulable">>
EventType    == <<"type">>
EventReason  == <<"reason">>
EventKind    == <<"involvedObject.kind">>
EventRef     == <<"involvedObject.name">>
EventUID     == <<"involvedObject.uid">>
EventRefNS   == <<"involvedObject.namespace">>

\* State of a new object; its name is its identity, a string.
Fresh(id) ==
    CASE kind = "pods"       -> (NodeName :> <<>>) @@ (Phase :> <<"Pending">>)
      [] kind = "nodes"      -> Cordoned :> <<"false">>
      [] kind = "namespaces" -> Phase :> <<"Active">>
      [] kind = "events"     -> (EventType :> <<"Warning">>) @@ (EventReason :> <<"BackOff">>)
                                @@ (EventKind :> <<"Pod">>) @@ (EventRef :> <<"web">>)
                                @@ (EventUID :> <<"u1">>) @@ (EventRefNS :> <<Scope(id)>>)
      [] OTHER               -> <<>>

\* Fields a TouchPod or TouchNode of o may announce: a pod is bound, then starts,
\* fails or crash-loops; a node is cordoned or not, or turns (not) ready.
Changes(o) ==
    CASE kind = "pods" /\ o.fields[NodeName] = <<>> -> {NodeName :> <<"n1">>}
      [] kind = "pods" /\ o.fields[Phase] = <<"Pending">> ->
            {Phase :> <<p>> : p \in {"Pending", "Running", "Failed"}}
      [] kind = "pods" /\ o.fields[Phase] = <<"Running">> -> {Phase :> <<"Running">>}
      [] kind = "nodes" -> {Cordoned :> <<b>> : b \in {"true", "false"}}
      [] OTHER -> {}

\* The version the next write draws.
NextRV == rv + 1

\* emit and Broadcast
Emit(type, o) ==
    /\ log' = Append(log, [type |-> type, rv |-> NextRV, obj |-> o])
    /\ rv' = NextRV

Init ==
    /\ kind \in DOMAIN Queries
    /\ query \in Queries[kind]
    /\ filter = ParseFilter(Texts(query))
    /\ log = <<>> /\ rv = SealRV
    /\ store = [id \in Ids |-> IF id \in Initial[kind]
                               THEN Object(id, Fresh(id), 1) ELSE None]
    /\ pc = "start" /\ ver = 0 /\ reached = 0 /\ sent = 0 /\ drops = 0
    /\ cache = [id \in Ids |-> None]
    /\ left = {}

-----------------------------------------------------------------------------
(* Writes.                                                                 *)

Writing == Len(log) < MaxNotices /\ UNCHANGED <<kind, query, filter, clientVars>>

\* AddPod, RecordEvent; names are never used twice.
Add(id) ==
    /\ Writing
    /\ kind \in {"pods", "events"}
    /\ store[id] = None /\ \A i \in DOMAIN log : log[i].obj.id # id
    /\ LET o == Object(id, Fresh(id), NextRV)
       IN store' = [store EXCEPT ![id] = o] /\ Emit("ADDED", o)

\* TouchPod after SchedulePod or SetPodState; setUnschedulable and TouchNode.
Touch(id) ==
    /\ Writing
    /\ store[id] # None
    /\ \E change \in Changes(store[id]) :
        LET o == [store[id] EXCEPT !.rv = NextRV, !.fields = Changed(@, change)]
        IN store' = [store EXCEPT ![id] = o] /\ Emit("MODIFIED", o)

\* RemovePod, and the eviction of an event: the object gets a new version.
Evict(id) ==
    /\ Writing
    /\ kind \in {"pods", "events"}
    /\ store[id] # None
    /\ store' = [store EXCEPT ![id] = None]
    /\ Emit("DELETED", [store[id] EXCEPT !.rv = NextRV])

\* deleteGeneric: only the notice gets a new version, the object in it is as it was.
DeleteGeneric(id) ==
    /\ Writing
    /\ kind # "pods"
    /\ store[id] # None
    /\ store' = [store EXCEPT ![id] = None]
    /\ Emit("DELETED", store[id])

\* flipRandomNode draws from nodeList, which no delete shortens: the node that
\* was deleted is announced as it was then.
Flip(id) ==
    /\ Writing
    /\ kind = "nodes" /\ id \in Initial[kind] /\ store[id] = None
    /\ LET was == {log[i].obj : i \in {j \in DOMAIN log : log[j].obj.id = id}}
           o   == CHOOSE x \in was : \A y \in was : y.rv <= x.rv
       IN Emit("MODIFIED", [o EXCEPT !.rv = NextRV])
    /\ UNCHANGED store

\* A write to another kind: the versions of one kind's notices have gaps.
OtherKind ==
    /\ rv - SealRV - Len(log) < MaxOthers
    /\ rv' = NextRV
    /\ UNCHANGED <<kind, query, filter, store, log, clientVars>>

-----------------------------------------------------------------------------
(* The client and the two handlers it calls.                               *)

\* handleList: the version is read before the walk.
ListBegin ==
    /\ pc = "start"
    /\ pc' = "walk" /\ ver' = rv /\ reached' = rv
    /\ UNCHANGED <<serverVars, cache, sent, drops, left>>

Listed(id) ==
    IF /\ store[id] # None
       /\ query.ns # "" /\ kind \notin ClusterScoped => store[id].ns = query.ns
       /\ ListMatches(kind, filter, store[id])
    THEN store[id] ELSE None

ListWalk ==
    /\ pc = "walk"
    /\ cache' = [id \in Ids |-> Listed(id)]
    /\ left' = {}
    /\ pc' = "resume"
    /\ UNCHANGED <<serverVars, ver, sent, drops, reached>>

\* Fault: the floor is one notice too high.
FloorTooHigh == ver < Floor + 1

\* Fault: accepts a client that has lost one notice.
FloorTooLow == ver + 1 < Floor

\* Subscribe answers ErrTooOld.
TooOld == ver < Floor

\* handleWatch accepted: the ring replays what it holds after the version asked for.
Watch ==
    /\ pc = "resume"
    /\ ~TooOld
    /\ \E n \in Len(log) - Kept .. Len(log) :
          /\ \A i \in Oldest .. Len(log) : i > n <=> log[i].rv > ver
          /\ sent' = n
    /\ pc' = "on"
    /\ UNCHANGED <<serverVars, ver, cache, drops, reached, left>>

\* 410: the client lists again.
Gone ==
    /\ pc = "resume"
    /\ TooOld
    /\ pc' = "start"
    /\ UNCHANGED <<serverVars, ver, cache, sent, drops, reached, left>>

WatchScope == IF kind \in ClusterScoped THEN "" ELSE query.ns

\* One notice leaves the handler, or is filtered out.
Deliver ==
    /\ pc = "on"
    /\ sent < Len(log)
    /\ sent' = sent + 1
    /\ LET n  == log[sent + 1]
           id == n.obj.id
       IN IF NoticeMatches(kind, WatchScope, filter, n.obj)
          THEN /\ cache' = [cache EXCEPT ![id] = IF n.type = "DELETED" THEN None ELSE n.obj]
               /\ ver' = n.obj.rv
               /\ reached' = n.rv
               /\ left' = left \ {id}
          ELSE /\ left' = IF cache[id] = None THEN left ELSE left \cup {id}
               /\ UNCHANGED <<cache, ver, reached>>
    /\ UNCHANGED <<serverVars, pc, drops>>

\* The stream ends: a timeout, the network, watch churn.
Drop ==
    /\ pc = "on"
    /\ drops < MaxDrops
    /\ drops' = drops + 1
    /\ pc' = "resume"
    /\ UNCHANGED <<serverVars, ver, cache, sent, reached, left>>

Client == ListBegin \/ ListWalk \/ Watch \/ Gone \/ Deliver

Next ==
    \/ \E id \in Ids : Add(id) \/ Touch(id) \/ Evict(id) \/ DeleteGeneric(id) \/ Flip(id)
    \/ OtherKind
    \/ Client
    \/ Drop

Spec == Init /\ [][Next]_vars /\ WF_vars(Client)
-----------------------------------------------------------------------------
(* Properties.                                                             *)

\* What the server understands is what the client wrote: parsing a selector text
\* (selector.go:34-120 and 187-207) gives back the requirements it was written from.
FilterIsWanted == filter = Meant(query)

\* The handler has sent everything there is.
CaughtUp == pc = "on" /\ sent = Len(log)

\* LIST and WATCH judge o differently: they do not know the same paths.  (Of the
\* namespace both say the same.)
Disputed(o) == ListMatches(kind, filter, o) # NoticeMatches(kind, "", filter, o)

\* LIST and WATCH select the same objects (list.go:38 and watch.go:72 read the
\* stored and the rendered object) but for the paths only one of them knows:
\* the phase of a namespace, the namespace of a cluster-scoped object, and the
\* namespace an event refers to.
SelectionsAgree ==
    \A id \in Ids : (store[id] # None /\ Disputed(store[id]))
        => \E r \in filter.fields :
              \/ kind = "namespaces" /\ r.path = Phase
              \/ kind \in ClusterScoped /\ r.path = NS
              \/ kind = "events" /\ r.path = EventRefNS

\* What was deleted and announced again: a node flip after its delete.
Resurrected(id) ==
    /\ kind = "nodes" /\ store[id] = None
    /\ \E i, j \in DOMAIN log : /\ i < j /\ log[i].obj.id = id /\ log[j].obj.id = id
                                /\ log[i].type = "DELETED" /\ log[j].type = "MODIFIED"

\* Whatever was written between the two steps of a LIST, before, during and after
\* a stream, and however often it was resumed: a client that has been sent
\* everything holds what a LIST would return now, except for an object that
\* stopped matching on the stream (watch.go:206 sends nothing for it), a node
\* announced after its delete, and an object LIST and WATCH disagree on.
CacheIsExplained ==
    CaughtUp => \A id \in Ids :
        \/ cache[id] = Listed(id)
        \/ id \in left
        \/ Resurrected(id)
        \/ store[id] # None /\ Disputed(store[id])

\* A resume is refused (watch.go:121) only when a generic delete set the client
\* back, or when a version was drawn after the last one sent to it which is older
\* than everything the hub holds.  That version may be another kind's: floorLocked
\* (watch.go:107-111) also refuses a client in the gap before the oldest notice,
\* which misses nothing.
GoneIsExplained ==
    [][pc = "resume" /\ pc' = "start" =>
          \/ ver < reached
          \/ \E v \in reached + 1 .. rv : \A i \in Oldest .. Len(log) : v < log[i].rv]_vars

\* Once nothing is written and no connection is lost any more, the client is
\* sent everything, through replay or through another LIST.
CatchesUp == <>[]CaughtUp
=============================================================================
