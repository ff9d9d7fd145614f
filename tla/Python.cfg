\* Two futures and a cap of one in front of the lanes; two endpoints and one
\* crash or failing thread; three threads at the owner; two callers of the
\* bridge beside the driver's operation, with two lanes and two Runtimes.
CONSTANTS
  INT64_MAX = 2000000
  MaxFutures = 2
  MaxDepth = 1
  Ids = {e1, e2}
  MaxFaults = 1
  Threads = {t1, t2, t3}
  NoThread = NoThread
  MaxEndpoints = 2
  Callers = {acc, py}
  Ops = {o1}
  NumLanes = 2
  MaxRuntimes = 2
  Nobody = Nobody
SPECIFICATION Spec
INVARIANTS
  FuturesHonest
  ShutdownSettlesAll
  AnswersTrue
  ListenerFollows
  PolicyMatrix
  HpxFollowsOwners
  BooksMatchObjects
  EngineOutlivesCalls
  BridgedNeverCancelled
PROPERTY EveryWaitEnds
CHECK_DEADLOCK FALSE
