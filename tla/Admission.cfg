CONSTANTS
    w1 = w1
    w2 = w2
    w3 = w3
    p1 = p1
    p2 = p2
    None = None
    WorkflowId <- ThreeWorkflows
    ProjectId <- TwoProjects
    ProjectOf <- TwoInOne
    MaximumActive = 1
    Lease = 2
    TickTime = 1
    RecoveryAdmissions = 1
    U16Max = 1
    Watched <- OneWatched
    Controlled <- OneControlled
    Samples <- SampleKinds
SPECIFICATION FairSpec
CHECK_DEADLOCK FALSE
INVARIANTS
    Inv
PROPERTIES
    ImplementsTurns
    WaitingEnds
    EndedLetsGo
