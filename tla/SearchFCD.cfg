SPECIFICATION FairSpec
CONSTANTS
    v1 = v1  v2 = v2  d1 = d1  d2 = d2
    None = None
    Kind = "FCD"
    VC <- MCVC
    DC <- MCDC
    Inventory <- MCInventory
    Datacenters <- MCNamedDatacenters
    Worker = {w1, w2}
    QueueSize = 1
    NumConnectionAttempts = 1
    MaxChanges = 0
PROPERTIES LookupReturns ProducerEnds
CHECK_DEADLOCK FALSE
