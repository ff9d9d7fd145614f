\* Both kinds of lane: three operations, two slots when non-blocking, a cap on
\* the queue, and an executor that may fail.
CONSTANTS
    Requests = {r1, r2, r3}
    NoRequest = NoRequest
    Clients = {k1, k2}
    Items <- MCMixed
    Modes = {"SerialBlocking", "AsyncNonBlocking"}
    MaxInflight = 2
    MaxQueueDepth = 2
    DispatchFaults = TRUE
SPECIFICATION Spec
SYMMETRY Symmetry
CHECK_DEADLOCK FALSE
INVARIANTS SettledAsAnnounced StartsInOrder BoundsKept TeardownSafe
