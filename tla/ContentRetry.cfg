SPECIFICATION Spec
CONSTANTS
    Requests = {r1, r2}
    Payloads <- MCPayloads
    Earlier = earlier
    OldRows = 0
    Numbers = {}
    MaxSaves = 0
    Careful = TRUE
    Omitted = Omitted
    None = None
INVARIANT RetriesAddNothing
CHECK_DEADLOCK FALSE
