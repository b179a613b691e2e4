SPECIFICATION Spec
CONSTANTS
    v1 = v1  v2 = v2  d1 = d1  d2 = d2
    None = None
    Kind = "VM"
    VC <- MCVC
    DC <- MCDC
    Inventory <- MCInventory
    Datacenters <- MCDatacenters
    Worker = {w1, w2}
    QueueSize = 1
    NumConnectionAttempts = 2
    MaxChanges = 1
INVARIANTS TypeOK FoundJustified NotFoundJustified
PROPERTIES Settled ImplementsLookup
CHECK_DEADLOCK FALSE
