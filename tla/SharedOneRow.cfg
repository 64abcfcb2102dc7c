SPECIFICATION Spec

CONSTANTS
    a = a
    b = b
    u1 = u1
    u2 = u2
    Peers <- MCPeers
    Instances = {a, b}
    Uuids = {u1}
    Seeded = {}
    Editors = {a, b}
    Citers = {b}
    Categories = {"shared", "main"}
    Sinces = {0, 2}
    Decisions = {"apply_remote", "keep_local"}
    MaxClock = 4

INVARIANTS
    TypeOK
    StampIdentifiesRow
    CitedRowsExist
    VersionCountsEdits

PROPERTIES
    ImportRespectsDecisions
    DeletionsRecorded
