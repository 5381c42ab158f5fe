CONSTANTS
    a = a
    m1 = m1
    m2 = m2
    Chunks = {a}
    Manifests = {m1, m2}
    Content <- OneChunk
    Uploads = {u1}
    Stores = {s1}
    HandlerStore = s1
    GcStore = s1
    Grace = 0
    SessionTTL = 1
    MaxTime = 1
    MaxCrashes = 1
SPECIFICATION FairSpec
PROPERTIES RetirementGrace KeepsPromise UploadsEnd GarbageReclaimed
CHECK_DEADLOCK FALSE
