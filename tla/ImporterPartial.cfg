SPECIFICATION Spec
CONSTANTS
    None = None
    m1 = m1
    MaxSends = 1
    Manuscripts = {m1}
    Files <- AllFiles
    Existing <- OldFormulas
INVARIANT ImportsAllOrNone
CHECK_DEADLOCK FALSE
