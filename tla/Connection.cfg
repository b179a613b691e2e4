SPECIFICATION Spec
CONSTANTS
    Thread = {t1, t2}
    Host <- MCHost
    Server = {"vc"}
    LowerHost <- MCLowerHost
    Session = {n1, n2}
    Sources = {"lister"}
    Contents <- MCRotated
    MaxRevision = 2
    None = None
SYMMETRY MCSymmetry
INVARIANTS TypeOK NoSessionLost NeverMixed CacheFollowsSecret RotationPickedUp ClientPresent
CHECK_DEADLOCK FALSE
