------------------------------ MODULE MCStartup ------------------------------
(* Startup from a preset of two Deployments, under a file and flags that set up *)
(* to two fields each.                                                          *)
EXTENDS Startup, TLC

MCBase ==
    [namespaces |-> 1, deployments |-> 2, lo |-> 1, hi |-> 2, pods |-> 0,
     cmin |-> 1, cmax |-> 1, max |-> 2, seed |-> 1]

Edits(fields, values) ==
    {None} \cup {f :> v : f \in fields, v \in values}
           \cup {f :> v @@ g :> w : f, g \in fields, v, w \in values}

MCFiles == Edits(Fields, {0, 3})
MCFlags == Edits(FlagFields, {-1, 2, 4})
==============================================================================
