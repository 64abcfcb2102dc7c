SPECIFICATION FairSpec

CONSTANTS
    a = a
    b = b
    u1 = u1
    u2 = u2
    Peers <- MCTree
    Instances = {a, b}
    Uuids = {u1, u2}
    Seeded = {u1, u2}
    Editors = {a, b}
    Citers = {}
    Categories = {"shared", "main"}
    Sinces = {0}
    Decisions = {"apply_remote", "keep_local"}
    MaxClock = 3

INVARIANTS
    AskedOnce

PROPERTIES
    WorkflowEnds
