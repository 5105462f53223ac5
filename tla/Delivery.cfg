CONSTANTS
    v1 = v1
    v2 = v2
    n1 = n1
    n2 = n2
    None = None
    Files = 2
    Kinds <- AllKinds
    Version <- TwoVersions
    Nonce <- TwoNonces
    HeadMoves = TRUE
    RacingEdits = FALSE
    MaxCrashes = 2
    MaxErrors = 1
SPECIFICATION FairSpec
CHECK_DEADLOCK FALSE
INVARIANTS
    Inv
    AllOrNothing
    CompletedIsDelivered
    UserBytesKept
PROPERTIES
    DeliveryCompletes
