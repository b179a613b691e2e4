SPECIFICATION Spec
CONSTANTS
    Thread = {t1}
    Host <- MCHost
    Server = {"vc"}
    LowerHost <- MCLowerHost
    Session = {n1, n2}
    Sources = {"lister"}
    Contents <- MCContents
    MaxRevision = 1
    None = None
INVARIANT MissingMeansError
CHECK_DEADLOCK FALSE
