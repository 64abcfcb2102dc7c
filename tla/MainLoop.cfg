SPECIFICATION FairSpec

CONSTANTS
    master = master
    relay = relay
    leaf = leaf
    u1 = u1
    p1 = p1
    Instances = {master, relay, leaf}
    Master = master
    Parent <- LoopParent
    Upstreams <- LoopUpstreams
    Uuids = {u1}
    Pulls = {p1}
    Home <- LeafHome
    Citers = {}
    Sinces = {0}
    Depth = 2
    MaxHops = 4
    MaxClock = 2

INVARIANTS
    HopsBounded

PROPERTIES
    CopiesFollow
    PullsEnd
