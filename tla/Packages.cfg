SPECIFICATION Spec
CONSTANTS
    None = None
    m = m
    c = c
    d = d
    s = s
    Tables = {1, 2, 3, 4}
    Owned <- MCOwned
    MayRef <- MCMayRef
    WithFile = {1}
    Uuids = {m, c, d, s}
    TableOf <- MCTableOf
    Manuscript = m
    Pulls = {p1, p2}
    Names = {f}
    Lost = {}
    MaxEdits = 1

INVARIANTS
    FilesArrive

PROPERTIES
    WholePackage
    RefusedForAReason
    PackagesConverge
