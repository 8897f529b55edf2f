------------------------------ MODULE ObjectMap ------------------------------
(***************************************************************************)
(* What the object store of internal/cluster/store.go promises: a map from *)
(* namespace and name to the object last put there.                        *)
(***************************************************************************)
CONSTANTS Namespaces, Names, Vals, None

VARIABLE map   \* map[ns][name]: the value stored, or None

Empty == map = [ns \in Namespaces |-> [n \in Names |-> None]]

Assign(ns, n, v) == map' = [map EXCEPT ![ns][n] = v]

Erase(ns, n) == map[ns][n] # None /\ Assign(ns, n, None)

MapNext == \E ns \in Namespaces, n \in Names :
    Erase(ns, n) \/ \E v \in Vals : Assign(ns, n, v)

MapSpec == Empty /\ [][MapNext]_map
=============================================================================
