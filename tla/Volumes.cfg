SPECIFICATION FairSpec
CONSTANTS
    n1 = n1
    n2 = n2
    other = other
    pod = pod
    ds1 = ds1
    ds2 = ds2
    podA = podA
    podB = podB
    zoneA = zoneA
    zoneB = zoneB
    Name = {n1, n2}
    SizeOf <- MCSizeOf
    Old <- MCOld
    MaxDisks = 4
    Slot = {s1, s2}
    Place = {pod, ds1, ds2}
    Children <- MCChildren
    Requisites <- MCRequisites
    Listed <- MCListed
    MaxEntries = {1}
    MaxFaults = 1
    None = None
INVARIANTS NoDuplicate ListComplete
PROPERTIES CreateSound DeleteSound CreateSettles
CHECK_DEADLOCK FALSE
