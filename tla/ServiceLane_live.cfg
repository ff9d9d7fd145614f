\* A capped lane under the fairness of the process's threads: progress,
\* admission and refinement.
CONSTANTS
    Requests = {r1, r2, r3}
    NoRequest = NoRequest
    Clients = {k1, k2}
    ChunkCounts = {2}
    WorkModes = {"sleep"}
    Bounded = TRUE
    MaxQueueDepth = 1
    BulkSize = 2
SPECIFICATION FairSpec
CHECK_DEADLOCK FALSE
INVARIANT AdmissionBounded
PROPERTIES ImplementsSettlement EveryRequestSettles DestructionCompletes
