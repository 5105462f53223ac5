CONSTANTS
    None = None
    Slot = {s1, s2}
    Projects <- AllProjects
    Executed <- ExecutedProjects
    ScriptCommands <- Scripts
    CargoCommands <- Cargo
    Attestations <- Receipts
    Secrets = {}
    Revisions = 2
SPECIFICATION FairSpec
CHECK_DEADLOCK FALSE
INVARIANTS
    Inv
    DiscoveryCovers
PROPERTIES
    PassedOnEvidence
    RequestsEnd
