SPECIFICATION Spec
CONSTANTS
    u1 = u1  r1 = r1  bad = bad  n1 = n1  N1 = N1  l1 = l1  l2 = l2  k1 = k1  k2 = k2
    Caller = {c1}
    Informer = i
    VM = {u1}
    Id <- MCId
    Malformed = {bad}
    Lower <- MCLower
    Convert <- MCConvert
    Name = {n1, N1}
    Fold <- MCFold
    Loc = {l1, l2}
    Node = {k1, k2}
    SystemUUID <- MCSystemUUID
    MaxCalls = 2
    MaxChanges = 1
    MaxNodeEvents = 2
    MaxCrashes = 1
    None = None
INVARIANTS TypeOK IndexAgreement EntriesOnceTrue PanicsExplained AnswersAsked
SYMMETRY MCSymmetry
CHECK_DEADLOCK FALSE
