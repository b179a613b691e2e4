SPECIFICATION FairSpec
CONSTANTS
    v1 = v1  v2 = v2  d1 = d1  d2 = d2
    c1 = c1  c2 = c2  c3 = c3  c4 = c4  h1 = h1
    None = None
    VC <- MCVC
    DC <- MCDC
    Object <- MCObject
    Inventory <- MCInventory
    Datacenters <- MCDatacenters
    Cluster <- MCCluster
    Host <- MCHost
    TagMaps <- MCTagMaps
    InstanceMaps <- MCInstanceMaps
    Name <- MCName
    Fold <- MCFold
    ZoneLooking = "a"
    RegionLooking = "r"
    Worker = {w1, w2}
    QueueSize = 1
    NumConnectionAttempts = 1
CHECK_DEADLOCK FALSE
INVARIANTS
    ZoneFoundJustified
    NoZoneJustified
PROPERTIES
    ZoneLookupReturns
    ZoneProducerEnds
