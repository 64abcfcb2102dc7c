SPECIFICATION FairSpec
CONSTANTS
    None = None
    MaxRuns = 3
    OldRuns = 1
    Twice = {2}
    MaxPending = 2
    MaxClicks = 2
INVARIANTS
    InProgressIsWatched
PROPERTIES
    ProgressEnds
CHECK_DEADLOCK FALSE
