SPECIFICATION Spec
CONSTANTS
    Islands = {1, 2}
    Allocations <- ThreeAllocations
    MinR = 2
    MaxRuns = 4
    W = 4
    B = 2
    LEAF_XOR = 5
    SCORE_MUL = 7
    DEADLINE = 2
    PROMPT = 2
INVARIANT BandRests
CHECK_DEADLOCK FALSE
