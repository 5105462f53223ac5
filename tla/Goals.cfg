CONSTANTS
    g1 = g1
    w1 = w1
    w2 = w2
    m1 = m1
    m2 = m2
    p1 = p1
    p2 = p2
    s1 = s1
    o1 = o1
    o2 = o2
    o3 = o3
    o4 = o4
    None = None
    GoalId <- OneGoal
    WorkflowId <- TwoWorkflows
    Milestone <- TwoMilestones
    Content <- TwoPlans
    Session <- OneSession
    Operation <- FourOperations
    Limits <- SmallLimits
    U8Max <- SmallU8
SPECIFICATION Spec
CHECK_DEADLOCK FALSE
SYMMETRY Symmetry
INVARIANTS
    Inv
    AppliedOnce
PROPERTIES
    PlanIsFinal
    CompletionIsEarned
