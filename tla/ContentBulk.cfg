SPECIFICATION FairSpec
CONSTANTS
    Requests = {r1, r2}
    Payloads <- MCPayloads
    Earlier = earlier
    OldRows = 2
    Numbers = {1, 4}
    MaxSaves = 2
    Careful = FALSE
    Omitted = Omitted
    None = None
INVARIANTS
    NothingLeftBehind
PROPERTIES
    ReplacedTogether
    NumberedAfter
    RequestsEnd
CHECK_DEADLOCK FALSE
