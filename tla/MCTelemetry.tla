------------------------------ MODULE MCTelemetry ------------------------------
(* Telemetry with two goroutines, and to serve: a GET of a kind nobody knows, a    *)
(* watch and an idle watch.                                                        *)
EXTENDS Telemetry, TLC

MCRequests == {
    [method |-> "GET", path |-> <<"api", "v1", "namespaces", "ns1", "foos", "web">>, watch |-> FALSE],
    [method |-> "GET", path |-> <<"apis", "apps", "v1", "deployments">>, watch |-> TRUE],
    [method |-> "GET", path |-> <<"apis", "apps", "v1", "daemonsets">>, watch |-> TRUE]}

MCSymmetry == Permutations(Gs)
================================================================================
