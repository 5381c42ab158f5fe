CONSTANTS
    m1 = m1
    Files = {f1, f2}
    Manifests = {m1}
    ManifestOf <- Same
    FolderFiles = {}
    Deleters = {d1, d2}
    Workers = {w1, w2}
    MaxFaults = 0
    MaxCrashes = 0
SYMMETRY Symmetry
SPECIFICATION SystemSpec
INVARIANTS CommittedReadable CommittedStaysActive
PROPERTIES VaultContract LastDeleteQueues
CHECK_DEADLOCK FALSE
