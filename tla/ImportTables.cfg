SPECIFICATION FairSpec

CONSTANTS
    p = p
    q = q
    r = r
    s = s
    w = w
    x = x
    Tables = {1, 2, 3}
    Category <- MCCategory
    MayRef <- MCMayRef
    Unique = {3}
    Uuids = {p, q, r, s, w}
    TableOf <- MCTableOf
    Names = {x}
    MaxRefs = 1

INVARIANTS
    LocalConsistent
    NothingMissing

PROPERTIES
    LiveRowsStay
    BringsSelected
    FullPullsShrink
    FullPullsConverge
