----------------------------- MODULE MCSimulation -----------------------------
EXTENDS Simulation, TLC

CONSTANTS d1, d2, r1, r2, p1, p2, p3, p4

\* One Deployment built with one pod; a spare ReplicaSet for a rollout.
OneRS == d1 :> r1
OneD  == d1 :> {p1}

\* Two Deployments built empty.
TwoRS == d1 :> r1 @@ d2 :> r2
TwoD  == d1 :> {} @@ d2 :> {}
=============================================================================
