SPECIFICATION FairSpec
CONSTANTS
    v1 = v1  t1 = t1  t2 = t2
    Vol = {v1}
    Target = {t1, t2}
    VolOf <- MCVolOf
    ReadOnly <- MCReadOnly
    Slot = {s1, s2}
    RootFS = RootFS
    MaxFaults = 2
    MaxStack = 2
INVARIANTS StagedWhilePublished
PROPERTIES PublishSound UnpublishSound TeardownConverges
