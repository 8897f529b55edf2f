------------------------------- MODULE Routing -------------------------------
(***************************************************************************)
(* The dispatch of the API server: what a path means (parsePath), which    *)
(* kinds are served from the cluster (registerViews) and which as empty    *)
(* collections (extras), which handler a request reaches (serve), what     *)
(* discovery advertises (resourceList), and under which key telemetry      *)
(* aggregates a path (normalize).  A path is the sequence of its segments. *)
(***************************************************************************)
EXTENDS Integers, Sequences

CONSTANTS Namespaces, Names   \* what the paths that are probed are about

\* The group of the kinds under /api.
Core == ""

Kind(group, version, resources, namespaced) ==
    {[group |-> group, version |-> version, resource |-> r, namespaced |-> namespaced] :
        r \in resources}

\* registerViews
Views ==
    Kind(Core, "v1", {"pods", "services", "configmaps", "secrets", "events"}, TRUE) \cup
    Kind(Core, "v1", {"nodes", "namespaces"}, FALSE) \cup
    Kind("apps", "v1", {"deployments", "replicasets"}, TRUE) \cup
    Kind("batch", "v1", {"jobs", "cronjobs"}, TRUE)

\* extras
Extras ==
    Kind(Core, "v1", {"serviceaccounts", "endpoints", "persistentvolumeclaims",
                    "resourcequotas", "limitranges"}, TRUE) \cup
    Kind(Core, "v1", {"persistentvolumes"}, FALSE) \cup
    Kind("apps", "v1", {"daemonsets", "statefulsets", "controllerrevisions"}, TRUE) \cup
    Kind("networking.k8s.io", "v1", {"ingresses", "networkpolicies"}, TRUE) \cup
    Kind("networking.k8s.io", "v1", {"ingressclasses"}, FALSE) \cup
    Kind("rbac.authorization.k8s.io", "v1", {"roles", "rolebindings"}, TRUE) \cup
    Kind("rbac.authorization.k8s.io", "v1", {"clusterroles", "clusterrolebindings"}, FALSE) \cup
    Kind("storage.k8s.io", "v1", {"storageclasses"}, FALSE) \cup
    Kind("policy", "v1", {"poddisruptionbudgets"}, TRUE) \cup
    Kind("autoscaling", "v2", {"horizontalpodautoscalers"}, TRUE) \cup
    Kind("apiextensions.k8s.io", "v1", {"customresourcedefinitions"}, FALSE) \cup
    Kind("authorization.k8s.io", "v1",
         {"selfsubjectaccessreviews", "selfsubjectrulesreviews"}, FALSE) \cup
    Kind("metrics.k8s.io", "v1beta1", {"pods"}, TRUE) \cup
    Kind("metrics.k8s.io", "v1beta1", {"nodes"}, FALSE)

Has(table, ri) ==
    \E k \in table : k.group = ri.group /\ k.version = ri.version /\ k.resource = ri.resource

\* LookupView, emptyKind
LookupView(ri) == Has(Views, ri)
EmptyKind(ri)  == Has(Extras, ri)

Segment(path, i) == IF i \in DOMAIN path THEN path[i] ELSE ""

Nothing == [group |-> "", version |-> "", namespace |-> "", resource |-> "",
            name |-> "", subresource |-> "", ok |-> FALSE]

\* parsePath after its prefix: the segments from i on, in namespace ns.
ParseFrom(path, i, ns, group, version) ==
    [group |-> group, version |-> version, namespace |-> ns,
     resource |-> Segment(path, i), name |-> Segment(path, i + 1),
     subresource |-> Segment(path, i + 2), ok |-> Segment(path, i) # ""]

\* Fault: takes the name of a namespace for a scope.
ParseRestGreedy(path, i, group, version) ==
    IF Segment(path, i) = "namespaces" /\ Len(path) > i
    THEN ParseFrom(path, i + 2, path[i + 1], group, version)
    ELSE ParseFrom(path, i, "", group, version)

\* "namespaces" is a scope only if something follows its name.
ParseRest(path, i, group, version) ==
    IF Segment(path, i) = "namespaces" /\ Len(path) > i + 1
    THEN ParseFrom(path, i + 2, path[i + 1], group, version)
    ELSE ParseFrom(path, i, "", group, version)

\* parsePath
ParsePath(path) ==
    CASE Segment(path, 1) = "api"  /\ Len(path) >= 2 -> ParseRest(path, 3, "", path[2])
      [] Segment(path, 1) = "apis" /\ Len(path) >= 3 -> ParseRest(path, 4, path[2], path[3])
      [] OTHER -> Nothing

\* resourceList: the kinds a group version advertises, none if it is unknown.
Advertised(group, version, metrics) ==
    IF group = "metrics.k8s.io" /\ ~metrics THEN {}
    ELSE {k \in Views \cup Extras : k.group = group /\ k.version = version}

\* The group version a discovery path asks for.
ResourceList(path, metrics) ==
    CASE path = <<"api", "v1">> -> Advertised("", "v1", metrics)
      [] Segment(path, 1) = "apis" /\ Len(path) = 3 -> Advertised(path[2], path[3], metrics)
      [] OTHER -> {}

\* serve up to the chaos filter: requests that are not about a view.
RouteUnserved(path, ri, watch, metrics) ==
    CASE path \in {<<>>, <<"version">>, <<"api">>, <<"apis">>} -> "discovery"
      [] Segment(path, 1) \in {"healthz", "readyz", "livez", "openapi"} -> "static"
      [] ~ri.ok /\ ResourceList(path, metrics) # {} -> "discovery"
      [] ~ri.ok -> "unknown"
      [] ri.group = "authorization.k8s.io" -> "authz"
      [] ri.group = "apiextensions.k8s.io" /\ ri.resource = "customresourcedefinitions" ->
            IF watch THEN "idle" ELSE "empty"
      [] ri.group = "metrics.k8s.io" -> "metrics"
      [] EmptyKind(ri) -> IF watch THEN "idle" ELSE "empty"
      [] OTHER -> "unknown"

\* serve after it: the handler of a view.
RouteView(method, ri, watch) ==
    CASE ri.subresource = "log" /\ ri.name # "" -> "log"
      [] ri.subresource = "scale" /\ ri.resource = "deployments" -> "scale"
      [] watch -> "watch"
      [] method = "GET" /\ ri.name # "" -> "get"
      [] method = "GET" -> "list"
      [] method = "DELETE" /\ ri.name # "" -> "delete"
      [] method \in {"PATCH", "PUT"} /\ ri.name # "" -> "update"
      [] OTHER -> "refused"

Served(ri) == ri.ok /\ LookupView(ri)

\* serve
Route(method, path, watch, metrics) ==
    LET ri == ParsePath(path)
    IN IF Served(ri) THEN RouteView(method, ri, watch)
       ELSE RouteUnserved(path, ri, watch, metrics)

\* The kind serve records a request under.
RecordedKind(route) ==
    CASE route \in {"discovery", "authz"} -> "discovery"
      [] route \in {"metrics", "list"} -> "list"
      [] route \in {"log", "get"} -> "get"
      [] route \in {"scale", "delete", "update"} -> "write"
      [] route = "watch" -> "watch"
      [] OTHER -> "other"

\* Names that are followed by the name of an object in a path.
Collapsed == {"pods", "deployments", "replicasets", "services", "nodes", "configmaps",
              "secrets", "events", "jobs", "cronjobs"}

\* normalize: the loop runs from the left and sees what it has replaced, so the
\* name of an object is never taken for a resource.
Normalize(path) ==
    LET out[i \in 0 .. Len(path)] ==
            IF i = 0 THEN ""
            ELSE IF out[i - 1] = "namespaces" /\ i < Len(path) THEN "{ns}"
            ELSE IF out[i - 1] \in Collapsed THEN "{name}" ELSE path[i]
    IN [i \in DOMAIN path |-> out[i]]

-----------------------------------------------------------------------------
\* A path to a kind, as a client builds one (client-go's URL rules).
PathTo(k, ns, name, sub) ==
    (IF k.group = Core THEN <<"api", k.version>> ELSE <<"apis", k.group, k.version>>)
        \o (IF ns = "" THEN <<>> ELSE <<"namespaces", ns>>) \o <<k.resource>>
        \o (IF name = "" THEN <<>> ELSE <<name>>)
        \o (IF name = "" \/ sub = "" THEN <<>> ELSE <<sub>>)

\* Kind, namespace, name and subresource.
Probed == {x \in (Views \cup Extras) \X ({""} \cup Namespaces)
                   \X ({""} \cup Names) \X {"", "status"} :
               (x[1].namespaced \/ x[2] = "") /\ (x[3] # "" \/ x[4] = "")}

\* The probes whose path means something else, or that a GET does not serve.
Misread ==
    {x \in Probed :
        LET k    == x[1]
            path == PathTo(k, x[2], x[3], x[4])
            ri   == ParsePath(path)
        IN \/ <<ri.resource, ri.namespace, ri.name>> # <<k.resource, x[2], x[3]>>
           \/ \E metrics \in BOOLEAN :
                 /\ k \in Advertised(k.group, k.version, metrics)
                 /\ Route("GET", path, FALSE, metrics) \in {"unknown", "refused"}}

NamespaceStatus == {x \in Probed : x[1].resource = "namespaces" /\ x[4] = "status"}

\* Pairs of probes on served kinds that share a row of the hot-path table though
\* they are of two endpoints, or do not though they are of one.
Misfiled ==
    LET row      == [x \in Probed |-> Normalize(PathTo(x[1], x[2], x[3], x[4]))]
        endpoint == [x \in Probed |-> <<x[1], x[2] = "", x[3] = "", x[4]>>]
        served   == {x \in Probed : x[1] \in Views /\ x[1].resource # "namespaces"}
    IN {x \in served \X served : (row[x[1]] = row[x[2]]) # (endpoint[x[1]] = endpoint[x[2]])}
=============================================================================
