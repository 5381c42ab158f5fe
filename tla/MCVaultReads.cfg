CONSTANTS
    a = a
    m1 = m1
    m2 = m2
    Chunks = {a}
    Manifests = {m1, m2}
    Content <- OneChunk
    Uploads = {u1, u2}
    Stores = {s1}
    HandlerStore = s1
    GcStore = s1
    Grace = 0
    SessionTTL = 3
    MaxTime = 1
    MaxCrashes = 0
    Readers = {r1}
    Small = {m1}
    MaxRot = 1
SYMMETRY Symmetry
SPECIFICATION ReadSpec
INVARIANTS ActiveManifestIntact TouchedChunksKept RefCountBacked OwedReadsServed BadBytesStop
CHECK_DEADLOCK FALSE
