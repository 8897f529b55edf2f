------------------------------ MODULE MCSelected ------------------------------
(* SelectedWatch on two objects and, for each kind, the selectors that matter. *)
EXTENDS SelectedWatch

CONSTANTS a, b

MCIds         == {a, b}
MCNamespaceOf == (a :> "ns1") @@ (b :> "ns2")
MCLabelsOf    == (a :> (<<"app">> :> "web")) @@
                 (b :> ((<<"app">> :> "db") @@ (<<"tier">> :> "back")))
MCInitial     == [pods |-> {a}, nodes |-> {a, b}, namespaces |-> {a}, services |-> {b}, events |-> {}]

Query(ns, labels, fields) == [ns |-> ns, labels |-> labels, fields |-> fields]
Label(key, op, values)    == [key |-> key, op |-> op, values |-> values]
Field(path, op, value)    == [path |-> path, op |-> op, value |-> value]

MCQueries == [
    pods |-> {
        Query("", <<>>, <<Field("status.phase", "=", "Running")>>),
        Query("", <<>>, <<Field("spec.nodeName", "==", "n1"),
                          Field("status.phase", "!=", "Failed")>>),
        Query("ns1", <<Label("app", "in", <<"web", "api">>)>>, <<>>),
        Query("", <<Label("tier", "!exists", <<>>), Label("app", "notin", <<"db", "api">>)>>,
              <<Field("status.phase", "!=", "Pending")>>)},
    nodes |-> {
        Query("", <<Label("app", "==", <<"web">>)>>, <<Field("spec.unschedulable", "=", "false")>>),
        Query("", <<Label("tier", "exists", <<>>)>>, <<Field("metadata.namespace", "==", "ns1")>>)},
    namespaces |-> {
        Query("", <<Label("app", "!=", <<"db">>)>>, <<Field("status.phase", "!=", "Active")>>)},
    services |-> {
        Query("ns2", <<Label("tier", "exists", <<>>), Label("app", "=", <<"db">>)>>,
              <<Field("metadata.name", "=", "b")>>)},
    events |-> {
        Query("ns1", <<>>, <<Field("type", "=", "Warning"), Field("reason", "!=", "Killing")>>),
        Query("", <<>>, <<Field("involvedObject.namespace", "==", "ns2")>>)}]
===============================================================================
