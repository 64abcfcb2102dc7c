SPECIFICATION FairSpec

CONSTANTS
    master = master
    relay = relay
    leaf = leaf
    u1 = u1
    p1 = p1
    Instances = {master, relay, leaf}
    Master = master
    Parent <- ChainParent
    Upstreams <- ChainUpstreams
    Uuids = {u1}
    Pulls = {p1}
    Home <- LeafHome
    Citers = {relay, leaf}
    Sinces = {0, 2}
    Depth = 2
    MaxHops = 2
    MaxClock = 4

PROPERTIES
    RefreshedPullIsCurrent
    ReplicasMoveForward
    CopiesConverge
