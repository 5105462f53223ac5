CONSTANTS
    None = None
    Repo = {r1, r2}
    Versioned = {r1}
    Name <- Names
    Lower <- Lowercase
    Path <- Paths
    Content = {c1, c2}
    Wanted <- Matched
    MaxPaths = 3
    MaxScopes = 2
    MaxNodes = 2
    MaxChanges = 2
SPECIFICATION Spec
CHECK_DEADLOCK FALSE
INVARIANT
    ReusedIsUnchanged
