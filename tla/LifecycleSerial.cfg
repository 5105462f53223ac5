CONSTANTS
    c1 = c1
    c2 = c2
    p1 = p1
    p2 = p2
    b1 = b1
    b2 = b2
    s1 = s1
    s2 = s2
    None = None
    Candidate <- TwoCandidates
    MaxRepairCycles <- SmallBudget
    U8Max <- SmallU8
    Slot <- OneSlot
    Plan <- TwoPlans
    Content <- TwoContents
    CommandGates <- OneGate
    GateStatus <- AnyStatus
    Modes <- BothModes
    AdditionalCycles <- OneCycle
    MaxFaults <- OneFault
SPECIFICATION Spec
CHECK_DEADLOCK FALSE
INVARIANT VerifiedBeforeReview
PROPERTIES
    ApprovalNeedsEveryGate
    ImplementsWorkflow
