CONSTANTS
    a = a
    m1 = m1
    m2 = m2
    Chunks = {a}
    Manifests = {m1}
    Content <- TwiceContent
    Uploads = {u1, u2}
    Stores = {s1, s2}
    HandlerStore = s1
    GcStore = s2
    Grace = 0
    SessionTTL = 1
    MaxTime = 2
    MaxCrashes = 0
SPECIFICATION Spec
INVARIANT ActiveManifestIntact
CHECK_DEADLOCK FALSE
