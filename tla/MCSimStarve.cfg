SPECIFICATION SimFairSpec
CONSTANTS
    d1 = d1
    d2 = d2
    r1 = r1
    r2 = r2
    p1 = p1
    p2 = p2
    p3 = p3
    p4 = p4
    Pods = {p1, p2}
    ReplicaSets = {r1, r2}
    Nodes = {n1}
    Deployments = {d1, d2}
    Requests = {a1, a2}
    Targets = {"Running"}
    MaxReplicas = 1
    StepBudget = 1
    CreateBudget = 1
    MaxOps = 2
    ScaleNum = 1
    ScaleDen = 4
    InitRS <- TwoRS
    InitPods <- TwoD
    InitStates = {"Running"}
    InitAvail = {TRUE}
PROPERTIES
    Converges
