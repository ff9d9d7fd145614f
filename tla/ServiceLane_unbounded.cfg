\* Uncapped lane: submit and submit_bulk race with cancels and destruction; chunk
\* counts include the defensive 0, and unsupported work modes reach the lane.
CONSTANTS
    Requests = {r1, r2, r3}
    NoRequest = NoRequest
    Clients = {k1, k2}
    ChunkCounts = {0, 2}
    WorkModes = {"sleep", "unsupported"}
    Bounded = FALSE
    MaxQueueDepth = 0
    BulkSize = 2
SPECIFICATION Spec
SYMMETRY Symmetry
CHECK_DEADLOCK FALSE
INVARIANTS TypeOK PromiseSetOnce CancelIffOneWin SubmissionOrder ReportsTrue
