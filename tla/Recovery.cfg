CONSTANTS
    None = None
    Project = {p1, p2}
    Reading = p1
    Ours = p1
    Interval = 2
    PageSize = 1
    MaxEntries = 3
    MaxDamage = 1
    MaxStops = 1
    MaxHead = 1
    MaxCommits = 1
    MaxLosses = 1
    MaxRepairs = 1
SPECIFICATION FairSpec
CHECK_DEADLOCK FALSE
INVARIANTS
    Inv
PROPERTIES
    StartsWithWhatWasWritten
    PagesAreComplete
    
