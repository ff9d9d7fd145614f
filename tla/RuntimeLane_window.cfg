\* One chunked operation on a non-blocking lane that is torn down.
CONSTANTS
    Requests = {r1}
    NoRequest = NoRequest
    Clients = {k1}
    Items <- MCChunked
    Modes = {"AsyncNonBlocking"}
    MaxInflight = 1
    MaxQueueDepth <- NoCap
    DispatchFaults = FALSE
SPECIFICATION Spec
CHECK_DEADLOCK FALSE
INVARIANT StopAsksEveryone
