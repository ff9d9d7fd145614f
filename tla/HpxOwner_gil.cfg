\* Two Python threads: does a call ever find another one inside the owner?
CONSTANTS
    Threads = {t1, t2}
    NoThread = NoThread
    MaxEndpoints = 1
SPECIFICATION Spec
CHECK_DEADLOCK FALSE
INVARIANT SerializedByGIL
