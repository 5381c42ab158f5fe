\* The run stops when the events and the streams are used up.
CONSTANTS
    Events = {e1, e2}
    Streams = {k1, k2}
    Capacity = 1
    MaxTroubles = 2
    None = None
SPECIFICATION FairSpec
CHECK_DEADLOCK FALSE
INVARIANTS TypeOK QueueIsLatest CatchesUp
PROPERTIES ComesToRest
