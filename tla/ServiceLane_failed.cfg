\* A work mode the lane does not support, submitted with several chunks.
CONSTANTS
    Requests = {r1}
    NoRequest = NoRequest
    Clients = {k1}
    ChunkCounts = {2}
    WorkModes = {"unsupported"}
    Bounded = FALSE
    MaxQueueDepth = 0
    BulkSize = 1
SPECIFICATION Spec
CHECK_DEADLOCK FALSE
INVARIANT CancelTrueMeansCancelled
