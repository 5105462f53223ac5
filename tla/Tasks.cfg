CONSTANTS
    None = None
    TaskId <- Three
    UnsafeSegment <- OneBad
    MaxItems = 3
    Plans <- AllPlans
    Executed <- ExecutedPlans
    Leased <- FirstTask
    Stopped <- FirstTwo
    Session = {s1, s2}
    LeaseId = {l1, l2, l3}
    Key = {k1, k2}
    Duration = 1
SPECIFICATION Spec
SYMMETRY Symmetry
CHECK_DEADLOCK FALSE
INVARIANTS
    Inv
    PlansAreSound
    OneBelievedHolder
PROPERTIES
    ExpiryIsFinal
