\* Progress of both kinds of lane, one slot when non-blocking, and refinement.
CONSTANTS
    Requests = {r1, r2}
    NoRequest = NoRequest
    Clients = {k1}
    Items <- MCItems
    Modes = {"SerialBlocking", "AsyncNonBlocking"}
    MaxInflight = 1
    MaxQueueDepth <- NoCap
    DispatchFaults = FALSE
SPECIFICATION FairSpec
CHECK_DEADLOCK FALSE
PROPERTIES ImplementsSettlement Progress
