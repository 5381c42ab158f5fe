CONSTANTS
    m1 = m1
    Files = {f1, f2}
    Manifests = {m1}
    ManifestOf <- Same
    FolderFiles = {}
    Deleters = {d1}
    Workers = {w1}
    MaxFaults = 0
    MaxCrashes = 1
SYMMETRY Symmetry
SPECIFICATION SystemSpec
INVARIANT CommittedReadable
CHECK_DEADLOCK FALSE
