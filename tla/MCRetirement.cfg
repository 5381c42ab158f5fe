CONSTANTS
    m1 = m1
    Files = {f1, f2}
    Manifests = {m1}
    ManifestOf <- Same
    FolderFiles = {f2}
    Deleters = {d1}
    Workers = {w1}
    MaxFaults = 1
    MaxCrashes = 1
SPECIFICATION FairSpec
INVARIANT TypeOK
PROPERTY OutboxDrains
CHECK_DEADLOCK FALSE
