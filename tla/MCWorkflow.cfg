CONSTANTS
    c1 = c1
    c2 = c2
    None = None
    Candidate <- MCCandidate
    MaxRepairCycles <- MCMaxRepairCycles
    U8Max <- MCU8Max
SPECIFICATION AggregateSpec
CHECK_DEADLOCK FALSE
INVARIANTS
    AggregateInv
PROPERTIES
    PhasesInOrder
    BudgetOnlyExtendedWhenSpent
