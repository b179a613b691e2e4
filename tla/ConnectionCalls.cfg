SPECIFICATION FairSpec
CONSTANTS
    Thread = {t1, t2}
    Host <- MCHost
    Server = {"vc"}
    LowerHost <- MCLowerHost
    Session = {n1, n2}
    Sources = {"lister", "directory", "none"}
    Contents <- MCPartial
    MaxRevision = 1
    None = None
PROPERTY CallsReturn
CHECK_DEADLOCK FALSE
