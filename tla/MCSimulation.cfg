SPECIFICATION SimFairSpec
CONSTANTS
    d1 = d1
    d2 = d2
    r1 = r1
    r2 = r2
    p1 = p1
    p2 = p2
    p3 = p3
    p4 = p4
    Pods = {p1, p2, p3, p4}
    ReplicaSets = {r1, r2}
    Nodes = {n1}
    Deployments = {d1}
    Requests = {a1, a2}
    Targets = {"Running"}
    MaxReplicas = 2
    StepBudget = 1
    CreateBudget = 1
    MaxOps = 2
    ScaleNum = 1
    ScaleDen = 4
    InitRS <- OneRS
    InitPods <- OneD
    InitStates = {"Running"}
    InitAvail = {TRUE, FALSE}
INVARIANTS
    SimTypeOK
    StatusIsCounted
    ClusterIsCounted
    NoLostTimer
    ScaleReachesReplicaSet
    OldSetsAreZero
    StatusIsAnnounced
PROPERTIES
    DeletedPodIsSilent
    Converges
    DeleteTearsDown
    NobodyIsStranded
