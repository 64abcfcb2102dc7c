SPECIFICATION FairSpec
CONSTANTS
    None = None
    m1 = m1
    MaxSends = 2
    Manuscripts = {m1}
    Files <- AllFiles
    Existing <- OldFormulas
INVARIANTS
    CheckedBeforeStored
    SuccessMeansStored
PROPERTIES
    SendsShownOrWarned
    ReplacedOnDemand
    LoadingEnds
CHECK_DEADLOCK FALSE
